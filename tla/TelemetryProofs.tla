---------------------------- MODULE TelemetryProofs ----------------------------
(***************************************************************************)
(* Theorems about the way of telemetry from the agent to the server, for   *)
(* any number of scrapes, changes and faults.                              *)
(*                                                                         *)
(* TelemetrySpool, for any capacity of the queue and of the spool: nothing *)
(* the agent observed vanishes (Accounted), and no file leaves the disk    *)
(* before its observations are at the backend or were given up             *)
(* (FilesLeaveSafely).  Both rest on what the collector's goroutine holds  *)
(* between two steps (InHand): a batch being drained is the oldest indexed *)
(* file's, and AckBatch is reached only once the backend has it.           *)
(*                                                                         *)
(* SnapshotReconciliation, for any finite set of resources: deletion is    *)
(* not inferred from partial scrapes (DeletionOnlyIfGone), because a batch *)
(* that claims to be complete is Honest from the scrape on, through the    *)
(* flush, the spool and every replay.                                      *)
(***************************************************************************)
EXTENDS TelemetrySpool, SnapshotReconciliation, TLAPS,
        SequenceTheorems, FunctionTheorems, FiniteSetTheorems

-----------------------------------------------------------------------------
(* The agent.                                                              *)

\* Batches and files no larger than the queue that filled them.
Fitting == {s \in Seq(Observation) : Len(s) <= Capacity}
FittingFile == {f \in File : f.items \in Fitting}

\* What the goroutine holds at each place.
InHand ==
  /\ pc \in {"idle", "draining", "down"} => inflight = << >>
  /\ pc # "idle" => queue = << >>
  /\ pc \in {"sending", "acking"} =>
       /\ OldestIndex(disk) # 0
       /\ inflight = disk[OldestIndex(disk)].items
  /\ pc = "acking" => ToSet(inflight) \subseteq applied

\* TypeOK, with files that fit.
Shape ==
  /\ scrapes \in 0 .. MaxScrapes
  /\ queue \in Fitting
  /\ disk \in Seq(FittingFile)
  /\ pc \in {"down", "idle", "flushing", "spooling", "writing", "draining", "sending", "acking"}
  /\ inflight \in Fitting
  /\ up \in BOOLEAN
  /\ applied \subseteq Observation
  /\ dropped \subseteq Observation
  /\ faults \in 0 .. MaxFaults

Inv == Shape /\ InHand

\* Everything the agent or the backend can still account for.
Known == ToSet(queue) \cup ToSet(inflight) \cup OnDisk(disk) \cup applied \cup dropped

\* What a step may not lose.
Kept ==
  /\ Known \subseteq Known'
  /\ 1 .. scrapes' \subseteq (1 .. scrapes) \cup Known'
  /\ OnDisk(disk) \subseteq OnDisk(disk') \cup applied' \cup dropped'

-----------------------------------------------------------------------------
(* Sequences.                                                              *)

LEMMA EmptySet ==
  ASSUME NEW S
  PROVE  << >> \in Seq(S) /\ Len(<< >>) = 0 /\ ToSet(<< >>) = {}
BY EmptySeq, SMT DEF ToSet

LEMMA ElementsInSet ==
  ASSUME NEW S, NEW s \in Seq(S)
  PROVE  ToSet(s) \subseteq S
BY SMT DEF ToSet

LEMMA AppendSet ==
  ASSUME NEW S, NEW s \in Seq(S), NEW e \in S
  PROVE  /\ Append(s, e) \in Seq(S)
         /\ Len(Append(s, e)) = Len(s) + 1
         /\ ToSet(Append(s, e)) = ToSet(s) \cup {e}
<1>1. Append(s, e) \in Seq(S) /\ Len(Append(s, e)) = Len(s) + 1
  BY SMT
<1>2. ToSet(Append(s, e)) \subseteq ToSet(s) \cup {e}
  BY SMT DEF ToSet
<1>3. ASSUME NEW i \in 1 .. Len(s)
      PROVE  s[i] \in ToSet(Append(s, e))
  <2>1. Append(s, e)[i] = s[i] /\ i \in DOMAIN Append(s, e)
    BY SMT
  <2> QED BY <2>1 DEF ToSet
<1>4. e \in ToSet(Append(s, e))
  <2>1. Append(s, e)[Len(s) + 1] = e /\ Len(s) + 1 \in DOMAIN Append(s, e)
    BY SMT
  <2> QED BY <2>1 DEF ToSet
<1>5. ToSet(s) = {s[i] : i \in 1 .. Len(s)}
  BY LenProperties, SMT DEF ToSet
<1> QED BY <1>1, <1>2, <1>3, <1>4, <1>5

LEMMA TailSet ==
  ASSUME NEW S, NEW s \in Seq(S), s # << >>
  PROVE  /\ Tail(s) \in Seq(S)
         /\ Len(Tail(s)) = Len(s) - 1
         /\ ToSet(s) \subseteq {Head(s)} \cup ToSet(Tail(s))
         /\ Head(s) \in S
<1>1. Tail(s) \in Seq(S) /\ Len(Tail(s)) = Len(s) - 1 /\ Head(s) \in S /\ Len(s) \in Nat
  BY SMT
<1>2. ASSUME NEW i \in 1 .. Len(s), i # 1
      PROVE  s[i] \in ToSet(Tail(s))
  <2>1. i - 1 \in 1 .. Len(Tail(s)) /\ (i - 1) + 1 = i
    BY <1>1, <1>2, SMT
  <2>2. Tail(s)[i - 1] = s[i] /\ DOMAIN Tail(s) = 1 .. Len(Tail(s))
    BY <1>1, <2>1, HeadTailProperties, LenProperties
  <2> QED BY <2>1, <2>2 DEF ToSet
<1>3. Head(s) = s[1]
  BY SMT
<1>4. ToSet(s) = {s[i] : i \in 1 .. Len(s)}
  BY LenProperties, SMT DEF ToSet
<1> QED BY <1>1, <1>2, <1>3, <1>4

\* Dropping one item leaves the others, in some place.
LEMMA RemoveAtKeeps ==
  ASSUME NEW S, NEW s \in Seq(S), NEW i \in 1 .. Len(s)
  PROVE  /\ RemoveAt(s, i) \in Seq(S)
         /\ \A j \in 1 .. Len(s) \ {i} :
              \E k \in 1 .. Len(RemoveAt(s, i)) : RemoveAt(s, i)[k] = s[j]
<1> DEFINE front == SubSeq(s, 1, i - 1)
           back  == SubSeq(s, i + 1, Len(s))
<1>1. /\ front \in Seq(S) /\ Len(front) = i - 1
      /\ \A j \in 1 .. i - 1 : front[j] = s[j]
  BY SMT
<1>2. /\ back \in Seq(S) /\ Len(back) = Len(s) - i
      /\ \A j \in 1 .. Len(s) - i : back[j] = s[i + j]
  BY SMT
<1>3. RemoveAt(s, i) = front \o back
  BY DEF RemoveAt
<1> HIDE DEF front, back
<1>4. /\ front \o back \in Seq(S)
      /\ Len(front \o back) = Len(s) - 1
      /\ \A k \in 1 .. Len(s) - 1 :
           (front \o back)[k] = IF k < i THEN front[k] ELSE back[k - (i - 1)]
  <2>1. /\ front \o back \in Seq(S)
        /\ Len(front \o back) = Len(front) + Len(back)
        /\ \A k \in 1 .. Len(front) + Len(back) :
             (front \o back)[k] = IF k <= Len(front) THEN front[k] ELSE back[k - Len(front)]
    BY <1>1, <1>2, ConcatProperties
  <2>2. Len(front) + Len(back) = Len(s) - 1
    BY <1>1, <1>2, SMT
  <2>3. \A k \in 1 .. Len(s) - 1 : k <= i - 1 <=> k < i
    BY SMT
  <2> QED BY <1>1, <2>1, <2>2, <2>3
<1>5. ASSUME NEW j \in 1 .. Len(s), j < i
      PROVE  (front \o back)[j] = s[j] /\ j \in 1 .. Len(s) - 1
  BY <1>1, <1>4, <1>5, SMT
<1>6. ASSUME NEW j \in 1 .. Len(s), j > i
      PROVE  (front \o back)[j - 1] = s[j] /\ j - 1 \in 1 .. Len(s) - 1
  <2>1. /\ j - 1 \in 1 .. Len(s) - 1 /\ ~ (j - 1 < i)
        /\ (j - 1) - (i - 1) = j - i /\ j - i \in 1 .. Len(s) - i /\ i + (j - i) = j
    BY <1>6, SMT
  <2> QED BY <1>2, <1>4, <2>1
<1>7. ASSUME NEW j \in 1 .. Len(s) \ {i}
      PROVE  \E k \in 1 .. Len(s) - 1 : (front \o back)[k] = s[j]
  <2>1. j < i \/ j > i
    BY SMT
  <2> QED BY <2>1, <1>5, <1>6
<1> QED BY <1>3, <1>4, <1>7

\* A set of natural numbers that is not empty has a least element.
LEMMA LeastExists ==
  ASSUME NEW T \in SUBSET Nat, T # {}
  PROVE  /\ Min(T) \in T
         /\ \A y \in T : Min(T) <= y
<1> DEFINE Below == {1 .. n : n \in T}
<1>1. Below \subseteq FiniteSubsetsOf(Nat)
  BY FS_Interval, SMT DEF FiniteSubsetsOf
<1>2. \E b \in Below : \A c \in Below : ~ (<<c, b>> \in StrictSubsetOrdering(Nat))
  <2>1. Below # {}
    OBVIOUS
  <2> HIDE DEF Below
  <2> QED BY <1>1, <2>1, WFMin, FS_StrictSubsetOrderingWellFounded
<1>3. PICK x \in T : \A c \in Below : ~ (<<c, 1 .. x>> \in StrictSubsetOrdering(Nat))
  BY <1>2
<1>4. \A y \in T : x <= y
  <2> SUFFICES ASSUME NEW y \in T, y < x
               PROVE  FALSE
    BY SMT
  <2>1. 1 .. y \subseteq 1 .. x /\ 1 .. x # 1 .. y
    BY SMT
  <2>2. <<1 .. y, 1 .. x>> \in StrictSubsetOrdering(Nat)
    BY <2>1, SMT DEF StrictSubsetOrdering
  <2> QED BY <1>3, <2>2
<1> QED BY <1>4 DEF Min

-----------------------------------------------------------------------------
(* The operators of the queue and the spool.                               *)

\* Pushing loses the evicted item and nothing else.
LEMMA PushedKeeps ==
  ASSUME NEW q \in Fitting, NEW x \in Observation
  PROVE  /\ Pushed(q, x) \in Fitting
         /\ x \in ToSet(Pushed(q, x))
         /\ ToSet(q) \subseteq ToSet(Pushed(q, x)) \cup Evicted(q)
         /\ Evicted(q) \subseteq Observation
<1>1. q \in Seq(Observation) /\ Len(q) \in Nat /\ Len(q) <= Capacity /\ Capacity \in Nat \ {0}
  BY SpoolAssumption, SMT DEF Fitting
<1>2. CASE Len(q) >= Capacity
  <2>1. q # << >>
    BY <1>1, <1>2, EmptySeq, SMT
  <2> DEFINE t == Tail(q)
  <2>2. /\ t \in Seq(Observation) /\ Len(t) = Len(q) - 1
        /\ ToSet(q) \subseteq {Head(q)} \cup ToSet(t) /\ Head(q) \in Observation
    BY <1>1, <2>1, TailSet
  <2>3. Pushed(q, x) = Append(t, x) /\ Evicted(q) = {Head(q)}
    BY <1>2 DEF Pushed, Evicted
  <2> HIDE DEF t
  <2>4. /\ Append(t, x) \in Seq(Observation)
        /\ Len(Append(t, x)) = Len(t) + 1
        /\ ToSet(Append(t, x)) = ToSet(t) \cup {x}
    BY <2>2, AppendSet
  <2>5. Len(t) + 1 <= Capacity
    BY <1>1, <2>2, SMT
  <2> QED BY <2>2, <2>3, <2>4, <2>5 DEF Fitting
<1>3. CASE ~ (Len(q) >= Capacity)
  <2>1. Pushed(q, x) = Append(q, x) /\ Evicted(q) = {}
    BY <1>3 DEF Pushed, Evicted
  <2>2. /\ Append(q, x) \in Seq(Observation) /\ Len(Append(q, x)) = Len(q) + 1
        /\ ToSet(Append(q, x)) = ToSet(q) \cup {x}
    BY <1>1, AppendSet
  <2>3. Len(q) + 1 <= Capacity
    BY <1>1, <1>3, SMT
  <2> QED BY <2>1, <2>2, <2>3 DEF Fitting
<1> QED BY <1>2, <1>3

\* A batch that fits goes back whole to an empty queue.
LEMMA RequeuedWhole ==
  ASSUME NEW items \in Fitting
  PROVE  Requeued(<< >>, items) = items
<1>1. items \in Seq(Observation) /\ ~ (Len(items) > Capacity)
  BY SpoolAssumption, SMT DEF Fitting
<1>2. items \o << >> = items
  BY <1>1, ConcatEmptySeq
<1>3. SubSeq(items, 1, Len(items)) = items
  BY <1>1, SubSeqFull
<1> QED BY <1>1, <1>2, <1>3 DEF Requeued

\* The oldest indexed file is a file on disk.
LEMMA OldestOnDisk ==
  ASSUME NEW d, Len(d) \in Nat, OldestIndex(d) # 0
  PROVE  OldestIndex(d) \in 1 .. Len(d)
<1> DEFINE I == {i \in 1 .. Len(d) : IsIndexed(d[i])}
<1>1. I \in SUBSET Nat
  BY SMT
<1> QED BY <1>1, LeastExists, Zenon DEF OldestIndex, SelectInSeq

\* Which file that is depends on the index alone.
LEMMA OldestByIndex ==
  ASSUME NEW d, NEW e, Len(d) = Len(e),
         \A i \in 1 .. Len(d) : d[i].indexed = e[i].indexed
  PROVE  OldestIndex(d) = OldestIndex(e)
<1>1. {i \in 1 .. Len(d) : IsIndexed(d[i])} = {i \in 1 .. Len(e) : IsIndexed(e[i])}
  BY DEF IsIndexed
<1> QED BY <1>1, Zenon DEF OldestIndex, SelectInSeq

\* When every file of d is still in e, or given to G, so is every observation.
LEMMA OnDiskKept ==
  ASSUME NEW d, NEW e, NEW G,
         \A i \in 1 .. Len(d) :
           \/ \E j \in 1 .. Len(e) : e[j].items = d[i].items
           \/ ToSet(d[i].items) \subseteq G
  PROVE  OnDisk(d) \subseteq OnDisk(e) \cup G
<1> SUFFICES ASSUME NEW x \in OnDisk(d)
             PROVE  x \in OnDisk(e) \cup G
  OBVIOUS
<1>1. PICK i \in 1 .. Len(d) : x \in ToSet(d[i].items)
  BY DEF OnDisk
<1>2. CASE ToSet(d[i].items) \subseteq G
  BY <1>1, <1>2
<1>3. CASE \E j \in 1 .. Len(e) : e[j].items = d[i].items
  BY <1>1, <1>3 DEF OnDisk
<1> QED BY <1>2, <1>3

LEMMA FileOnDisk ==
  ASSUME NEW d, NEW i \in 1 .. Len(d)
  PROVE  ToSet(d[i].items) \subseteq OnDisk(d)
BY DEF OnDisk

\* Removing a file.
LEMMA FileRemoved ==
  ASSUME NEW d \in Seq(FittingFile), NEW i \in 1 .. Len(d)
  PROVE  /\ RemoveAt(d, i) \in Seq(FittingFile)
         /\ OnDisk(d) \subseteq OnDisk(RemoveAt(d, i)) \cup ToSet(d[i].items)
<1>1. /\ RemoveAt(d, i) \in Seq(FittingFile)
      /\ \A j \in 1 .. Len(d) \ {i} :
           \E k \in 1 .. Len(RemoveAt(d, i)) : RemoveAt(d, i)[k] = d[j]
  BY RemoveAtKeeps
<1>2. ASSUME NEW j \in 1 .. Len(d)
      PROVE  \/ \E k \in 1 .. Len(RemoveAt(d, i)) : RemoveAt(d, i)[k].items = d[j].items
             \/ ToSet(d[j].items) \subseteq ToSet(d[i].items)
  BY <1>1
<1> QED BY <1>1, <1>2, OnDiskKept

\* Taking a file out of the index, or damaging it.
LEMMA FileMarked ==
  ASSUME NEW d \in Seq(FittingFile), NEW i \in 1 .. Len(d), NEW f \in FittingFile,
         f.items = d[i].items
  PROVE  /\ [d EXCEPT ![i] = f] \in Seq(FittingFile)
         /\ Len([d EXCEPT ![i] = f]) = Len(d)
         /\ OnDisk(d) \subseteq OnDisk([d EXCEPT ![i] = f])
         /\ \A j \in 1 .. Len(d) : [d EXCEPT ![i] = f][j] = IF j = i THEN f ELSE d[j]
<1>1. /\ [d EXCEPT ![i] = f] \in Seq(FittingFile)
      /\ Len([d EXCEPT ![i] = f]) = Len(d)
      /\ \A j \in 1 .. Len(d) : [d EXCEPT ![i] = f][j] = IF j = i THEN f ELSE d[j]
  BY ExceptSeq
<1>2. OnDisk(d) \subseteq OnDisk([d EXCEPT ![i] = f]) \cup {}
  <2>1. \A j \in 1 .. Len(d) : [d EXCEPT ![i] = f][j].items = d[j].items
    BY <1>1
  <2> QED BY <1>1, <2>1, OnDiskKept
<1> QED BY <1>1, <1>2
-----------------------------------------------------------------------------
(* What the actions keep.                                                  *)

LEMMA FittingFacts ==
  ASSUME Shape
  PROVE  /\ Len(disk) \in Nat
         /\ \A i \in 1 .. Len(disk) : /\ disk[i] \in FittingFile
                                      /\ disk[i].items \in Fitting
                                      /\ ToSet(disk[i].items) \subseteq Observation
         /\ ToSet(queue) \subseteq Observation
         /\ ToSet(inflight) \subseteq Observation
         /\ << >> \in Fitting /\ ToSet(<< >>) = {}
<1>1. Len(disk) \in Nat /\ \A i \in 1 .. Len(disk) : disk[i] \in FittingFile
  BY ElementOfSeq, LenProperties DEF Shape
<1>2. \A i \in 1 .. Len(disk) : disk[i].items \in Fitting
  BY <1>1 DEF FittingFile
<1>3. \A s \in Fitting : ToSet(s) \subseteq Observation
  BY ElementsInSet DEF Fitting
<1>4. << >> \in Fitting
  BY EmptySet, SpoolAssumption, SMT DEF Fitting
<1>5. ToSet(<< >>) = {}
  BY EmptySet
<1> QED BY <1>1, <1>2, <1>3, <1>4, <1>5 DEF Shape

LEMMA InitInv ==
  ASSUME Init
  PROVE  Inv /\ Accounted
<1>1. << >> \in Fitting /\ << >> \in Seq(FittingFile)
  BY EmptySet, SpoolAssumption, SMT DEF Fitting
<1>2. Shape
  BY <1>1, SpoolAssumption, SMT DEF Init, Shape
<1>3. InHand
  BY DEF Init, InHand
<1>4. Accounted
  BY SMT DEF Init, Accounted
<1> QED BY <1>2, <1>3, <1>4 DEF Inv

LEMMA CollectFoundKeeps ==
  ASSUME Inv, CollectFound
  PROVE  Inv' /\ Kept
<1> DEFINE now == IF scrapes < MaxScrapes THEN scrapes + 1 ELSE scrapes
<1>1. now \in Observation /\ now \in 0 .. MaxScrapes /\ 1 .. now \subseteq (1 .. scrapes) \cup {now}
  BY SpoolAssumption, SMT DEF Inv, Shape, Observation
<1>2. /\ scrapes' = now /\ inflight' = Pushed(queue, now) /\ queue' = << >>
      /\ dropped' = dropped \cup Evicted(queue) /\ pc' = "flushing"
      /\ UNCHANGED <<disk, up, applied, faults>> /\ pc = "idle"
  BY DEF CollectFound
<1> HIDE DEF now
<1>3. /\ Pushed(queue, now) \in Fitting
      /\ now \in ToSet(Pushed(queue, now))
      /\ ToSet(queue) \subseteq ToSet(Pushed(queue, now)) \cup Evicted(queue)
      /\ Evicted(queue) \subseteq Observation
  BY <1>1, PushedKeeps DEF Inv, Shape
<1>4. inflight = << >> /\ ToSet(<< >>) = {} /\ << >> \in Fitting
  BY <1>2, FittingFacts DEF Inv, InHand
<1>5. Shape'
  BY <1>1, <1>2, <1>3, <1>4 DEF Inv, Shape
<1>6. InHand'
  BY <1>2 DEF InHand
<1>7. Kept
  BY <1>1, <1>2, <1>3, <1>4 DEF Kept, Known
<1> QED BY <1>5, <1>6, <1>7 DEF Inv

\* What was requeued fits a batch.
LEMMA CollectNothingKeeps ==
  ASSUME Inv, CollectNothing
  PROVE  Inv' /\ Kept
<1>1. /\ inflight' = queue /\ queue' = << >> /\ pc' = "flushing" /\ pc = "idle"
      /\ UNCHANGED <<scrapes, disk, up, applied, dropped, faults>>
  BY DEF CollectNothing
<1>2. inflight = << >> /\ ToSet(<< >>) = {} /\ << >> \in Fitting
  BY <1>1, FittingFacts DEF Inv, InHand
<1>3. Shape'
  BY <1>1, <1>2 DEF Inv, Shape
<1>4. InHand'
  BY <1>1 DEF InHand
<1>5. Kept
  BY <1>1, <1>2 DEF Kept, Known
<1> QED BY <1>3, <1>4, <1>5 DEF Inv

LEMMA SendSucceedsKeeps ==
  ASSUME Inv, SendSucceeds
  PROVE  Inv' /\ Kept
<1>1. /\ ToSet(inflight) \subseteq Observation
      /\ << >> \in Fitting /\ ToSet(<< >>) = {}
  BY FittingFacts DEF Inv
<1>2. Shape'
  BY <1>1 DEF Inv, Shape, SendSucceeds
<1>3. InHand'
  BY DEF Inv, InHand, SendSucceeds
<1>4. Kept
  BY <1>1 DEF Kept, Known, SendSucceeds
<1> QED BY <1>2, <1>3, <1>4 DEF Inv

\* The batch of a flush is kept in hand; that of a drain is still on disk.
LEMMA SendFailsKeeps ==
  ASSUME Inv, SendFails
  PROVE  Inv' /\ Kept
<1>1. /\ ToSet(inflight) \subseteq Observation
      /\ << >> \in Fitting /\ ToSet(<< >>) = {}
  BY FittingFacts DEF Inv
<1>2. Shape'
  BY <1>1 DEF Inv, Shape, SendFails
<1>3. InHand'
  BY DEF Inv, InHand, SendFails
<1>4. pc = "sending" => ToSet(inflight) \subseteq OnDisk(disk)
  BY OldestOnDisk, FileOnDisk, FittingFacts DEF Inv, InHand
<1>5. Kept
  BY <1>1, <1>4 DEF Kept, Known, SendFails
<1> QED BY <1>2, <1>3, <1>5 DEF Inv

LEMMA PruneOldestKeeps ==
  ASSUME Inv, PruneOldest
  PROVE  Inv' /\ Kept
<1> DEFINE i == OldestIndex(disk)
<1>1. CASE OverQuota(disk, Len(inflight))
  <2>1. /\ pc = "spooling" /\ pc' = pc
        /\ dropped' = dropped \cup ToSet(disk[i].items)
        /\ disk' = RemoveAt(disk, i)
        /\ UNCHANGED <<scrapes, queue, inflight, up, applied, faults>>
    BY <1>1 DEF PruneOldest
  <2>2. i \in 1 .. Len(disk)
    BY <1>1, OldestOnDisk, FittingFacts DEF Inv, OverQuota
  <2> HIDE DEF i
  <2>3. /\ RemoveAt(disk, i) \in Seq(FittingFile)
        /\ OnDisk(disk) \subseteq OnDisk(RemoveAt(disk, i)) \cup ToSet(disk[i].items)
    BY <2>2, FileRemoved DEF Inv, Shape
  <2>4. ToSet(disk[i].items) \subseteq Observation
    BY <2>2, FittingFacts DEF Inv
  <2>5. Shape'
    BY <2>1, <2>3, <2>4 DEF Inv, Shape
  <2>6. InHand'
    BY <2>1 DEF Inv, InHand
  <2>7. Kept
    BY <2>1, <2>3 DEF Kept, Known
  <2> QED BY <2>5, <2>6, <2>7 DEF Inv
<1>2. CASE ~ OverQuota(disk, Len(inflight))
  <2>1. /\ pc = "spooling" /\ pc' = "writing"
        /\ UNCHANGED <<scrapes, queue, disk, inflight, up, applied, dropped, faults>>
    BY <1>2 DEF PruneOldest
  <2> QED BY <2>1 DEF Inv, Shape, InHand, Kept, Known
<1> QED BY <1>1, <1>2

LEMMA CommitFileKeeps ==
  ASSUME Inv, CommitFile
  PROVE  Inv' /\ Kept
<1> DEFINE f == [items |-> inflight, bad |-> FALSE, indexed |-> TRUE]
<1>1. f \in FittingFile /\ f.items = inflight
  BY DEF Inv, Shape, FittingFile, File, Fitting
<1>2. /\ pc = "writing" /\ disk' = Append(disk, f) /\ pc' = "idle" /\ inflight' = << >>
      /\ UNCHANGED <<scrapes, queue, up, applied, dropped, faults>>
  BY DEF CommitFile
<1> HIDE DEF f
<1>3. /\ Append(disk, f) \in Seq(FittingFile)
      /\ Len(Append(disk, f)) = Len(disk) + 1 /\ Len(disk) \in Nat
      /\ Append(disk, f)[Len(disk) + 1] = f
      /\ \A i \in 1 .. Len(disk) : Append(disk, f)[i] = disk[i]
  BY <1>1, SMT DEF Inv, Shape
<1>4. OnDisk(disk) \subseteq OnDisk(Append(disk, f)) \cup {}
  <2>1. \A i \in 1 .. Len(disk) : i \in 1 .. Len(Append(disk, f))
    BY <1>3, SMT
  <2> QED BY <1>3, <2>1, OnDiskKept
<1>5. ToSet(inflight) \subseteq OnDisk(Append(disk, f))
  <2>1. Len(disk) + 1 \in 1 .. Len(Append(disk, f))
    BY <1>3, SMT
  <2> QED BY <1>1, <1>3, <2>1, FileOnDisk
<1>6. << >> \in Fitting /\ ToSet(<< >>) = {}
  BY FittingFacts DEF Inv
<1>7. Shape'
  BY <1>2, <1>3, <1>6 DEF Inv, Shape
<1>8. InHand'
  BY <1>2 DEF Inv, InHand
<1>9. Kept
  BY <1>2, <1>4, <1>5, <1>6 DEF Kept, Known
<1> QED BY <1>7, <1>8, <1>9 DEF Inv

LEMMA WriteFailsKeeps ==
  ASSUME Inv, WriteFails
  PROVE  Inv' /\ Kept
<1>1. queue = << >>
  BY DEF Inv, InHand, WriteFails
<1>2. queue' = inflight
  BY <1>1, RequeuedWhole DEF Inv, Shape, WriteFails
<1>3. << >> \in Fitting /\ ToSet(<< >>) = {}
  BY FittingFacts DEF Inv
<1>4. faults' \in 0 .. MaxFaults
  BY SpoolAssumption, SMT DEF Inv, Shape, WriteFails
<1>5. Shape'
  BY <1>2, <1>3, <1>4 DEF Inv, Shape, WriteFails
<1>6. InHand'
  BY DEF InHand, WriteFails
<1>7. Kept
  BY <1>1, <1>2, <1>3 DEF Kept, Known, WriteFails
<1> QED BY <1>5, <1>6, <1>7 DEF Inv
LEMMA ReadOldestBatchKeeps ==
  ASSUME Inv, ReadOldestBatch
  PROVE  Inv' /\ Kept
<1> DEFINE i == OldestIndex(disk)
<1>1. /\ pc = "draining" /\ UNCHANGED <<scrapes, queue, up, applied, faults>>
      /\ inflight = << >> /\ queue = << >>
  BY DEF ReadOldestBatch, Inv, InHand
<1>2. << >> \in Fitting /\ ToSet(<< >>) = {}
  BY FittingFacts DEF Inv
<1>3. CASE i = 0 /\ pc' = "idle" /\ UNCHANGED <<disk, inflight, dropped>>
  BY <1>1, <1>3 DEF Inv, Shape, InHand, Kept, Known
<1>4. CASE /\ i # 0 /\ disk[i].bad
           /\ dropped' = dropped \cup ToSet(disk[i].items)
           /\ disk' = RemoveAt(disk, i)
           /\ pc' = "idle"
           /\ UNCHANGED inflight
  <2>1. i \in 1 .. Len(disk)
    BY <1>4, OldestOnDisk, FittingFacts DEF Inv
  <2> HIDE DEF i
  <2>2. /\ RemoveAt(disk, i) \in Seq(FittingFile)
        /\ OnDisk(disk) \subseteq OnDisk(RemoveAt(disk, i)) \cup ToSet(disk[i].items)
    BY <2>1, FileRemoved DEF Inv, Shape
  <2>3. ToSet(disk[i].items) \subseteq Observation
    BY <2>1, FittingFacts DEF Inv
  <2>4. Shape'
    BY <1>1, <1>4, <2>2, <2>3 DEF Inv, Shape
  <2>5. InHand'
    BY <1>1, <1>4 DEF InHand
  <2>6. Kept
    BY <1>1, <1>4, <2>2 DEF Kept, Known
  <2> QED BY <2>4, <2>5, <2>6 DEF Inv
<1>5. CASE /\ i # 0 /\ ~ disk[i].bad
           /\ inflight' = disk[i].items
           /\ pc' = "sending"
           /\ UNCHANGED <<disk, dropped>>
  <2>1. disk[i].items \in Fitting
    BY <1>5, OldestOnDisk, FittingFacts DEF Inv
  <2>2. Shape'
    BY <1>1, <1>5, <2>1 DEF Inv, Shape
  <2>3. InHand'
    BY <1>1, <1>5 DEF InHand
  <2>4. Kept
    BY <1>1, <1>2, <1>5 DEF Kept, Known
  <2> QED BY <2>2, <2>3, <2>4 DEF Inv
<1> QED BY <1>3, <1>4, <1>5 DEF ReadOldestBatch

\* Taking the oldest file out of the index keeps everything on disk.
LEMMA UnindexedKeeps ==
  ASSUME Shape, OldestIndex(disk) # 0
  PROVE  LET unindexed == [disk EXCEPT ![OldestIndex(disk)].indexed = FALSE]
         IN  /\ unindexed \in Seq(FittingFile)
             /\ OnDisk(disk) \subseteq OnDisk(unindexed)
<1> DEFINE i == OldestIndex(disk)
           f == [disk[i] EXCEPT !.indexed = FALSE]
<1>1. i \in 1 .. Len(disk)
  BY OldestOnDisk, FittingFacts
<1> HIDE DEF i
<1>2. disk[i] \in FittingFile
  BY <1>1, FittingFacts
<1>3. f \in FittingFile /\ f.items = disk[i].items
  BY <1>2 DEF FittingFile, File
<1>4. [disk EXCEPT ![i].indexed = FALSE] = [disk EXCEPT ![i] = f]
  OBVIOUS
<1> HIDE DEF f
<1>5. /\ [disk EXCEPT ![i] = f] \in Seq(FittingFile)
      /\ OnDisk(disk) \subseteq OnDisk([disk EXCEPT ![i] = f])
  BY <1>1, <1>3, FileMarked DEF Shape
<1> QED BY <1>4, <1>5 DEF i

LEMMA ReadFailsKeeps ==
  ASSUME Inv, ReadFails
  PROVE  Inv' /\ Kept
<1>1. /\ disk' \in Seq(FittingFile)
      /\ OnDisk(disk) \subseteq OnDisk(disk')
  BY UnindexedKeeps DEF Inv, ReadFails
<1>2. faults' \in 0 .. MaxFaults
  BY SpoolAssumption, SMT DEF Inv, Shape, ReadFails
<1>3. /\ pc = "draining" /\ UNCHANGED <<scrapes, queue, pc, inflight, up, applied, dropped>>
  BY DEF ReadFails
<1>4. Shape'
  BY <1>1, <1>2, <1>3 DEF Inv, Shape
<1>5. InHand'
  BY <1>3 DEF Inv, InHand
<1>6. Kept
  BY <1>1, <1>3 DEF Kept, Known
<1> QED BY <1>4, <1>5, <1>6 DEF Inv

\* The file AckBatch removes is the one whose batch the backend has.
LEMMA AckBatchKeeps ==
  ASSUME Inv, AckBatch
  PROVE  Inv' /\ Kept
<1> DEFINE i == OldestIndex(disk)
<1>1. /\ pc = "acking" /\ pc' = "draining" /\ inflight' = << >>
      /\ UNCHANGED <<scrapes, queue, up, applied, dropped>>
  BY DEF AckBatch
<1>2. /\ i # 0 /\ inflight = disk[i].items /\ ToSet(inflight) \subseteq applied
      /\ queue = << >>
  BY <1>1 DEF Inv, InHand
<1>3. << >> \in Fitting /\ ToSet(<< >>) = {}
  BY FittingFacts DEF Inv
<1>4. disk' \in Seq(FittingFile) /\ OnDisk(disk) \subseteq OnDisk(disk') \cup applied
  <2>1. CASE disk' = RemoveAt(disk, i)
    <3>1. i \in 1 .. Len(disk)
      BY <1>2, OldestOnDisk, FittingFacts DEF Inv
    <3> HIDE DEF i
    <3>2. /\ RemoveAt(disk, i) \in Seq(FittingFile)
          /\ OnDisk(disk) \subseteq OnDisk(RemoveAt(disk, i)) \cup ToSet(disk[i].items)
      BY <3>1, FileRemoved DEF Inv, Shape
    <3> QED BY <1>2, <2>1, <3>2
  <2>2. CASE disk' = [disk EXCEPT ![i].indexed = FALSE]
    BY <1>2, <2>2, UnindexedKeeps DEF Inv
  <2> QED BY <2>1, <2>2 DEF AckBatch
<1>5. faults' \in 0 .. MaxFaults
  BY SpoolAssumption, SMT DEF Inv, Shape, AckBatch
<1> HIDE DEF i
<1>6. Shape'
  BY <1>1, <1>3, <1>4, <1>5 DEF Inv, Shape
<1>7. InHand'
  BY <1>1, <1>2 DEF InHand
<1>8. Kept
  BY <1>1, <1>2, <1>3, <1>4 DEF Kept, Known
<1> QED BY <1>6, <1>7, <1>8 DEF Inv

LEMMA DrainStopsKeeps ==
  ASSUME Inv, DrainStops
  PROVE  Inv' /\ Kept
BY DEF Inv, Shape, InHand, Kept, Known, DrainStops

LEMMA CrashKeeps ==
  ASSUME Inv, Crash
  PROVE  Inv' /\ Kept
<1>1. /\ << >> \in Fitting /\ ToSet(<< >>) = {}
      /\ ToSet(queue) \subseteq Observation /\ ToSet(inflight) \subseteq Observation
  BY FittingFacts DEF Inv
<1>2. faults' \in 0 .. MaxFaults
  BY SpoolAssumption, SMT DEF Inv, Shape, Crash
<1>3. Shape'
  BY <1>1, <1>2 DEF Inv, Shape, Crash
<1>4. InHand'
  BY DEF InHand, Crash
<1>5. Kept
  BY <1>1 DEF Kept, Known, Crash
<1> QED BY <1>3, <1>4, <1>5 DEF Inv

\* What InOrder enumerates: each position once.
LEMMA InOrderFacts ==
  ASSUME NEW n \in Nat, NEW S \in SUBSET (1 .. n), NEW kept \in InOrder(S)
  PROVE  /\ Cardinality(S) \in Nat
         /\ kept \in [1 .. Cardinality(S) -> S]
         /\ \A i \in S : \E k \in 1 .. Cardinality(S) : kept[k] = i
<1>1. IsFiniteSet(S)
  <2>1. 1 \in Int /\ n \in Int
    BY SMT
  <2>2. IsFiniteSet(1 .. n)
    BY <2>1, FS_Interval
  <2> QED BY <2>2, FS_Subset
<1>2. Cardinality(S) \in Nat
  BY <1>1, FS_CardinalityType
<1>3. kept \in Bijection(1 .. Cardinality(S), S)
  BY DEF InOrder
<1> QED BY <1>2, <1>3, Fun_BijectionProperties

LEMMA RestartKeeps ==
  ASSUME Inv, Restart
  PROVE  Inv' /\ Kept
<1>1. PICK quarantined \in SUBSET {i \in 1 .. Len(disk) : disk[i].bad} :
        /\ \E kept \in InOrder((1 .. Len(disk)) \ quarantined) :
             disk' = [i \in DOMAIN kept |-> [disk[kept[i]] EXCEPT !.indexed = TRUE]]
        /\ dropped' = dropped \cup UNION {ToSet(disk[i].items) : i \in quarantined}
  BY DEF Restart
<1> DEFINE S == (1 .. Len(disk)) \ quarantined
           G == UNION {ToSet(disk[i].items) : i \in quarantined}
           n == Cardinality(S)
<1>2. PICK kept \in InOrder(S) :
        disk' = [i \in DOMAIN kept |-> [disk[kept[i]] EXCEPT !.indexed = TRUE]]
  BY <1>1
<1>3. /\ pc = "down" /\ pc' = "draining" /\ inflight = << >> /\ queue = << >>
      /\ UNCHANGED <<scrapes, queue, inflight, up, applied, faults>>
      /\ dropped' = dropped \cup G
  BY <1>1 DEF Inv, InHand, Restart
<1>4. quarantined \subseteq 1 .. Len(disk) /\ S \in SUBSET (1 .. Len(disk))
  OBVIOUS
<1>5. /\ Len(disk) \in Nat
      /\ \A i \in 1 .. Len(disk) : /\ disk[i] \in FittingFile
                                   /\ ToSet(disk[i].items) \subseteq Observation
  BY FittingFacts DEF Inv
<1>6. G \subseteq Observation
  BY <1>4, <1>5
<1> HIDE DEF S, n
<1>7. /\ n \in Nat /\ kept \in [1 .. n -> S]
      /\ \A i \in S : \E k \in 1 .. n : kept[k] = i
  BY <1>4, <1>5, InOrderFacts DEF n
<1>8. /\ DOMAIN disk' = 1 .. n
      /\ \A k \in 1 .. n : /\ disk'[k] \in FittingFile
                           /\ disk'[k].items = disk[kept[k]].items
  <2>1. disk' = [i \in 1 .. n |-> [disk[kept[i]] EXCEPT !.indexed = TRUE]]
    BY <1>2, <1>7
  <2>2. \A k \in 1 .. n : disk[kept[k]] \in FittingFile
    BY <1>4, <1>5, <1>7
  <2> QED BY <2>1, <2>2 DEF FittingFile, File
<1>9. disk' \in Seq(FittingFile) /\ Len(disk') = n
  <2>1. disk' \in [1 .. n -> FittingFile]
    BY <1>2, <1>7, <1>8
  <2>2. disk' \in Seq(FittingFile)
    BY <1>7, <2>1, SeqDef
  <2>3. Len(disk') \in Nat /\ DOMAIN disk' = 1 .. Len(disk')
    BY <2>2, LenProperties
  <2>4. Len(disk') = n
    BY <1>7, <1>8, <2>3, SMT
  <2> QED BY <2>2, <2>4
<1>10. OnDisk(disk) \subseteq OnDisk(disk') \cup G
  <2>1. ASSUME NEW i \in 1 .. Len(disk)
        PROVE  \/ \E j \in 1 .. Len(disk') : disk'[j].items = disk[i].items
               \/ ToSet(disk[i].items) \subseteq G
    <3>1. CASE i \in quarantined
      BY <3>1
    <3>2. CASE i \in S
      BY <3>2, <1>7, <1>8, <1>9
    <3> QED BY <3>1, <3>2 DEF S
  <2> HIDE DEF G
  <2> QED BY <2>1, OnDiskKept
<1> HIDE DEF G
<1>11. Shape'
  BY <1>3, <1>6, <1>9 DEF Inv, Shape
<1>12. InHand'
  BY <1>3 DEF InHand
<1>13. Kept
  BY <1>3, <1>10 DEF Kept, Known
<1> QED BY <1>11, <1>12, <1>13 DEF Inv

\* Damage changes neither the index nor, for the backend, what a file held.
LEMMA CorruptFileKeeps ==
  ASSUME Inv, CorruptFile
  PROVE  Inv' /\ Kept
<1>1. PICK i \in 1 .. Len(disk) : disk' = [disk EXCEPT ![i].bad = TRUE]
  BY DEF CorruptFile
<1> DEFINE f == [disk[i] EXCEPT !.bad = TRUE]
<1>2. disk[i] \in FittingFile
  BY FittingFacts DEF Inv
<1>3. f \in FittingFile /\ f.items = disk[i].items /\ f.indexed = disk[i].indexed
  BY <1>2 DEF FittingFile, File
<1>4. disk' = [disk EXCEPT ![i] = f]
  BY <1>1
<1> HIDE DEF f
<1>5. /\ disk' \in Seq(FittingFile)
      /\ Len(disk') = Len(disk)
      /\ OnDisk(disk) \subseteq OnDisk(disk')
      /\ \A j \in 1 .. Len(disk) : disk'[j] = IF j = i THEN f ELSE disk[j]
  <2>1. /\ [disk EXCEPT ![i] = f] \in Seq(FittingFile)
        /\ Len([disk EXCEPT ![i] = f]) = Len(disk)
        /\ OnDisk(disk) \subseteq OnDisk([disk EXCEPT ![i] = f])
        /\ \A j \in 1 .. Len(disk) : [disk EXCEPT ![i] = f][j] = IF j = i THEN f ELSE disk[j]
    BY <1>3, FileMarked DEF Inv, Shape
  <2> QED BY <1>4, <2>1, Zenon
<1>6. OldestIndex(disk') = OldestIndex(disk)
  <2>1. \A j \in 1 .. Len(disk') : disk'[j].indexed = disk[j].indexed
    BY <1>3, <1>5
  <2> QED BY <1>5, <2>1, OldestByIndex
<1>7. OldestIndex(disk) # 0 => disk'[OldestIndex(disk)].items = disk[OldestIndex(disk)].items
  BY <1>3, <1>5, OldestOnDisk, FittingFacts DEF Inv
<1>8. UNCHANGED <<scrapes, queue, pc, inflight, up, applied, dropped>>
  BY DEF CorruptFile
<1>9. faults' \in 0 .. MaxFaults
  BY SpoolAssumption, SMT DEF Inv, Shape, CorruptFile
<1>10. Shape'
  BY <1>5, <1>8, <1>9 DEF Inv, Shape
<1>11. InHand'
  BY <1>6, <1>7, <1>8 DEF Inv, InHand
<1>12. Kept
  BY <1>5, <1>8 DEF Kept, Known
<1> QED BY <1>10, <1>11, <1>12 DEF Inv

LEMMA BackendChangesKeeps ==
  ASSUME Inv, BackendChanges
  PROVE  Inv' /\ Kept
BY DEF Inv, Shape, InHand, Kept, Known, BackendChanges

-----------------------------------------------------------------------------
(* The theorems.                                                           *)

LEMMA StepKeeps ==
  ASSUME Inv, [Next]_vars
  PROVE  Inv' /\ Kept
<1>1. CASE Next
  BY <1>1, CollectFoundKeeps, CollectNothingKeeps, SendSucceedsKeeps, SendFailsKeeps, PruneOldestKeeps, CommitFileKeeps,
     WriteFailsKeeps, ReadOldestBatchKeeps, ReadFailsKeeps, AckBatchKeeps, DrainStopsKeeps,
     RestartKeeps, CrashKeeps, CorruptFileKeeps, BackendChangesKeeps DEF Next, Collector
<1>2. CASE UNCHANGED vars
  BY <1>2 DEF Inv, Shape, InHand, Kept, Known, vars
<1> QED BY <1>1, <1>2

LEMMA InvHolds == Spec => []Inv
<1>1. Init => Inv
  BY InitInv
<1>2. Inv /\ [Next]_vars => Inv'
  BY StepKeeps
<1> QED BY <1>1, <1>2, PTL DEF Spec

LEMMA InvType ==
  ASSUME Inv
  PROVE  TypeOK
<1>1. FittingFile \subseteq File
  BY DEF FittingFile
<1>2. disk \in Seq(File)
  BY <1>1, SeqMonotonic DEF Inv, Shape
<1> QED BY <1>2 DEF Inv, Shape, TypeOK, Fitting

\* Every variable keeps its type; the queue and the batch at hand never hold more
\* than the queue's capacity, whatever files a restart finds.
THEOREM TypeCorrect == Spec => []TypeOK
<1>1. Inv => TypeOK
  BY InvType
<1> QED BY <1>1, InvHolds, PTL

\* Every observation a scrape made is queued, at hand, on disk or at the backend,
\* or was given up in one of the places the code names: through evictions, refusals,
\* disk errors, kills between any two steps, damaged files and restarts.
THEOREM AccountedTheorem == Spec => []Accounted
<1>1. Init => Accounted
  BY InitInv
<1>2. Inv /\ Accounted /\ [Next]_vars => Accounted'
  BY StepKeeps DEF Accounted, Kept, Known
<1> QED BY <1>1, <1>2, InvHolds, PTL DEF Spec

\* No step removes observations from the disk that are not at the backend and were
\* not given up.  The file that AckBatch removes is the one that was uploaded.
THEOREM FilesLeaveSafelyTheorem == Spec => FilesLeaveSafely
<1>1. Inv /\ [Next]_vars =>
        [OnDisk(disk) \subseteq OnDisk(disk') \cup applied' \cup dropped']_vars
  BY StepKeeps DEF Kept
<1> QED BY <1>1, InvHolds, PTL DEF Spec, FilesLeaveSafely

-----------------------------------------------------------------------------
(* Reconciliation on the server.                                           *)

\* A batch that claims to be complete leaves out a resource of the kinds it vouches
\* for only if the agent's queue was too small for the scrape.
Honest(b) ==
  \A r \in Resources :
    b.complete /\ KindOf[r] \in CoreKinds /\ b.items[r] = "unseen" /\ r \in b.present =>
      Cardinality(b.present) > QueueCapacity

HonestBatch == {b \in Batch : Honest(b)}

InvR ==
  /\ ReconTypeOK
  /\ batch \in HonestBatch
  /\ spool \in Seq(HonestBatch)

LEMMA FiniteResources ==
  ASSUME NEW S \in SUBSET Resources
  PROVE  IsFiniteSet(S) /\ Cardinality(S) \in Nat /\ QueueCapacity \in Nat
<1>1. IsFiniteSet(Resources) /\ QueueCapacity \in Nat
  BY ReconciliationAssumption
<1> QED BY <1>1, FS_Subset, FS_CardinalityType

LEMMA FullQueueEvicts ==
  ASSUME NEW seen \in SUBSET Resources,
         NEW evicted \in Evictions(seen), evicted # {}
  PROVE  /\ Cardinality(seen) > QueueCapacity
         /\ evicted \subseteq seen
<1>1. IsFiniteSet(seen) /\ evicted \in SUBSET seen
  BY FiniteResources DEF Evictions
<1>2. IsFiniteSet(evicted) /\ Cardinality(evicted) # 0
  BY <1>1, FS_Subset, FS_EmptySet
<1>3. Cardinality(evicted) = IF Cardinality(seen) > QueueCapacity
                             THEN Cardinality(seen) - QueueCapacity ELSE 0
  BY DEF Evictions
<1> QED BY <1>1, <1>2, <1>3

LEMMA NoBatchHonest == NoBatch \in HonestBatch
BY DEF NoBatch, HonestBatch, Batch, Honest

\* What a scrape puts together is honest, whichever listings failed.
LEMMA CollectInv ==
  ASSUME InvR, CollectFromKubernetes
  PROVE  InvR'
<1>1. PICK failed \in IF failures < MaxFailures THEN SUBSET Kinds ELSE {{}} :
       LET seen == {r \in Resources : world[r] # "absent" /\ KindOf[r] \notin failed}
       IN /\ failures' = IF failed = {} THEN failures ELSE failures + 1
          /\ \E evicted \in Evictions(seen) :
               batch' = [items    |-> [r \in Resources |-> IF r \in seen \ evicted
                                                           THEN world[r] ELSE "unseen"],
                         complete |-> SnapshotComplete(failed),
                         present  |-> {r \in Resources : world[r] # "absent"},
                         predates |-> {}]
          /\ place' = IF seen = {} THEN "idle" ELSE "flush"
  BY Zenon DEF CollectFromKubernetes
<1> DEFINE seen == {r \in Resources : world[r] # "absent" /\ KindOf[r] \notin failed}
           present == {r \in Resources : world[r] # "absent"}
<1>2. PICK evicted \in Evictions(seen) :
        batch' = [items    |-> [r \in Resources |-> IF r \in seen \ evicted
                                                    THEN world[r] ELSE "unseen"],
                  complete |-> SnapshotComplete(failed),
                  present  |-> present,
                  predates |-> {}]
  BY <1>1
<1>3. world \in [Resources -> {"absent", "failing", "healthy"}]
  BY DEF InvR, ReconTypeOK
<1>4. batch' \in Batch
  BY <1>2, <1>3 DEF Batch, SnapshotComplete
<1>5. Honest(batch')
  <2> SUFFICES ASSUME NEW r \in Resources,
                      SnapshotComplete(failed), KindOf[r] \in CoreKinds,
                      batch'.items[r] = "unseen", r \in present
               PROVE  Cardinality(present) > QueueCapacity
    BY <1>2 DEF Honest
  <2>1. r \in seen
    BY DEF SnapshotComplete
  <2>2. r \in evicted
    BY <1>2, <1>3, <2>1
  <2>3. Cardinality(seen) > QueueCapacity
    BY <2>2, FullQueueEvicts
  <2>4. seen \in SUBSET present /\ present \in SUBSET Resources
    OBVIOUS
  <2> HIDE DEF seen, present
  <2>5. /\ Cardinality(seen) \in Nat /\ Cardinality(present) \in Nat
        /\ Cardinality(seen) <= Cardinality(present)
    BY <2>4, FS_Subset, FiniteResources
  <2>6. QueueCapacity \in Nat
    BY ReconciliationAssumption
  <2> QED BY <2>3, <2>5, <2>6, SMT
<1>6. failures' \in 0 .. MaxFailures
  <2>1. failed # {} => failures < MaxFailures
    OBVIOUS
  <2>2. failures \in 0 .. MaxFailures /\ MaxFailures \in Nat
    BY ReconciliationAssumption DEF InvR, ReconTypeOK
  <2>3. failures' = IF failed = {} THEN failures ELSE failures + 1
    BY <1>1
  <2> QED BY <2>1, <2>2, <2>3, SMT
<1>7. place' \in {"idle", "flush"}
  BY <1>1
<1>8. UNCHANGED <<world, spool, server, changes, actions>>
  BY DEF CollectFromKubernetes
<1> QED BY <1>4, <1>5, <1>6, <1>7, <1>8 DEF InvR, ReconTypeOK, HonestBatch, server

\* What the server makes of a batch has the right type.
LEMMA SyncType ==
  ASSUME InvR, NEW b \in Batch, SyncClusterResources(b)
  PROVE  /\ view' \in [Resources -> {"absent", "failing", "healthy"}]
         /\ incident' \in [Resources -> {"none", "OPEN", "RESOLVED"}]
         /\ action' \in [Resources -> {"none", "PENDING", "EXECUTING", "SUCCEEDED",
                                       "VERIFIED_RESOLVED", "FAILED"}]
<1>1. /\ view' = ViewAfter(b) /\ incident' = IncidentsAfter(b)
      /\ action' \in ActionsAfter(b)
  BY DEF SyncClusterResources
<1>2. ViewAfter(b) \in [Resources -> {"absent", "failing", "healthy"}]
  BY DEF InvR, ReconTypeOK, ViewAfter, Batch
<1>3. IncidentsAfter(b) \in [Resources -> {"none", "OPEN", "RESOLVED"}]
  BY DEF InvR, ReconTypeOK, IncidentsAfter
<1> QED BY <1>1, <1>2, <1>3 DEF ActionsAfter

\* A batch on its way to disk.
LEMMA SpooledType ==
  ASSUME InvR
  PROVE  /\ Spooled(spool, batch) \in Seq(HonestBatch)
         /\ Spooled(spool, batch) \in Seq(Batch)
         /\ Len(Spooled(spool, batch)) <= MaxSpooled
<1>1. /\ MaxSpooled \in Nat \ {0} /\ spool \in Seq(HonestBatch) /\ batch \in HonestBatch
      /\ Len(spool) <= MaxSpooled /\ Len(spool) \in Nat
  BY LenProperties, ReconciliationAssumption DEF InvR, ReconTypeOK
<1>2. /\ Spooled(spool, batch) \in Seq(HonestBatch)
      /\ Len(Spooled(spool, batch)) <= MaxSpooled
  <2>1. CASE Len(spool) = MaxSpooled
    <3> DEFINE t == Tail(spool)
    <3>1. Spooled(spool, batch) = Append(t, batch)
      BY <2>1 DEF Spooled
    <3>2. t \in Seq(HonestBatch) /\ Len(t) = Len(spool) - 1
      BY <1>1, <2>1, SMT
    <3> HIDE DEF t
    <3>3. Append(t, batch) \in Seq(HonestBatch) /\ Len(Append(t, batch)) = Len(t) + 1
      BY <1>1, <3>2, SMT
    <3> QED BY <1>1, <3>1, <3>2, <3>3, SMT
  <2>2. CASE Len(spool) # MaxSpooled
    <3>1. Spooled(spool, batch) = Append(spool, batch)
      BY <2>2 DEF Spooled
    <3>2. Append(spool, batch) \in Seq(HonestBatch) /\ Len(Append(spool, batch)) = Len(spool) + 1
      BY <1>1, SMT
    <3> QED BY <1>1, <2>2, <3>1, <3>2, SMT
  <2> QED BY <2>1, <2>2
<1>3. Seq(HonestBatch) \subseteq Seq(Batch)
  BY SeqMonotonic DEF HonestBatch
<1> QED BY <1>2, <1>3

LEMMA NextInvR ==
  ASSUME InvR, [ReconNext]_reconVars
  PROVE  InvR'
<1>1. NoBatch \in HonestBatch /\ NoBatch \in Batch
  BY NoBatchHonest DEF HonestBatch
<1>2. HonestBatch \subseteq Batch /\ Seq(HonestBatch) \subseteq Seq(Batch)
  BY SeqMonotonic DEF HonestBatch
<1>3. failures < MaxFailures => failures + 1 \in 0 .. MaxFailures
  BY ReconciliationAssumption, SMT DEF InvR, ReconTypeOK
<1>4. CASE WorldChanges
  <2>1. changes' \in 0 .. MaxChanges
    BY <1>4, ReconciliationAssumption, SMT DEF InvR, ReconTypeOK, WorldChanges
  <2> QED BY <1>4, <2>1 DEF InvR, ReconTypeOK, WorldChanges, server
<1>5. CASE CollectFromKubernetes
  BY <1>5, CollectInv
<1>6. CASE FlushSucceeds
  <2>1. batch \in Batch
    BY DEF InvR, ReconTypeOK
  <2> QED BY <1>1, <1>6, <2>1, SyncType DEF InvR, ReconTypeOK, FlushSucceeds
<1>7. CASE FlushFails
  <2>1. batch \in Batch
    BY DEF InvR, ReconTypeOK
  <2>2. CASE UNCHANGED server
    BY <1>1, <1>3, <1>7, <2>2, SpooledType DEF InvR, ReconTypeOK, FlushFails, server
  <2>3. CASE SyncClusterResources(batch)
    BY <1>1, <1>3, <1>7, <2>1, <2>3, SyncType, SpooledType DEF InvR, ReconTypeOK, FlushFails
  <2> QED BY <1>7, <2>2, <2>3 DEF FlushFails
<1>8. CASE DrainSucceeds
  <2>1. spool \in Seq(HonestBatch) /\ spool # << >>
    BY <1>8 DEF InvR, DrainSucceeds
  <2>2. Head(spool) \in Batch
    BY <1>2, <2>1, HeadTailProperties
  <2>3. /\ spool' \in Seq(HonestBatch) /\ spool' \in Seq(Batch)
        /\ Len(spool') <= MaxSpooled
    <3>1. spool' = Tail(spool)
      BY <1>8 DEF DrainSucceeds
    <3>2. Tail(spool) \in Seq(HonestBatch) /\ Len(Tail(spool)) = Len(spool) - 1
      BY <2>1, HeadTailProperties
    <3>3. Len(spool) \in Nat /\ Len(spool) <= MaxSpooled /\ MaxSpooled \in Nat
      BY <2>1, LenProperties, ReconciliationAssumption DEF InvR, ReconTypeOK
    <3>4. Len(spool) - 1 <= MaxSpooled
      BY <3>3, SMT
    <3> QED BY <1>2, <3>1, <3>2, <3>4
  <2> QED BY <1>8, <2>2, <2>3, SyncType DEF InvR, ReconTypeOK, DrainSucceeds
<1>9. CASE DrainFails
  BY <1>3, <1>9 DEF InvR, ReconTypeOK, DrainFails, server
<1>10. CASE DrainEnds
  BY <1>10 DEF InvR, ReconTypeOK, DrainEnds, server
<1>11. ASSUME NEW r \in Resources, Dispatch(r)
       PROVE  InvR'
  <2>1. actions' \in 0 .. MaxActions
    BY <1>11, ReconciliationAssumption, SMT DEF InvR, ReconTypeOK, Dispatch
  <2> QED BY <1>11, <2>1 DEF InvR, ReconTypeOK, Dispatch
<1>12. ASSUME NEW r \in Resources, ReportExecuting(r)
       PROVE  InvR'
  BY <1>12 DEF InvR, ReconTypeOK, ReportExecuting
<1>13. ASSUME NEW r \in Resources, EndAction(r)
       PROVE  InvR'
  BY <1>13 DEF InvR, ReconTypeOK, EndAction
<1>14. ASSUME NEW r \in Resources, ReportSucceeded(r)
       PROVE  InvR'
  <2>1. \A b \in HonestBatch : [b EXCEPT !.predates = @ \cup {r}] \in HonestBatch
    BY DEF HonestBatch, Batch, Honest
  <2>2. batch' \in HonestBatch
    <3>1. \/ batch' = [batch EXCEPT !.predates = @ \cup {r}]
          \/ batch' = batch
      BY <1>14 DEF ReportSucceeded, InvR, ReconTypeOK, Batch
    <3> QED BY <2>1, <3>1 DEF InvR
  <2>3. /\ spool' \in Seq(HonestBatch)
        /\ Len(spool') = Len(spool)
    <3>1. spool' = [i \in 1 .. Len(spool) |-> [spool[i] EXCEPT !.predates = @ \cup {r}]]
      BY <1>14, LenProperties DEF InvR, ReportSucceeded
    <3>2. Len(spool) \in Nat /\ \A i \in 1 .. Len(spool) : spool[i] \in HonestBatch
      BY LenProperties, ElementOfSeq DEF InvR
    <3>3. spool' \in [1 .. Len(spool) -> HonestBatch]
      BY <2>1, <3>1, <3>2
    <3>4. spool' \in Seq(HonestBatch)
      BY <3>2, <3>3, SeqDef
    <3>5. Len(spool') \in Nat /\ DOMAIN spool' = 1 .. Len(spool')
      BY <3>4, LenProperties
    <3>6. DOMAIN spool' = 1 .. Len(spool)
      BY <3>3
    <3>7. Len(spool') = Len(spool)
      BY <3>2, <3>5, <3>6, SMT
    <3> QED BY <3>4, <3>7
  <2>4. view' \in [Resources -> {"absent", "failing", "healthy"}]
    <3>1. \/ view' = view
          \/ \E s \in {"healthy", "absent"} : view' = [view EXCEPT ![r] = s]
      BY <1>14 DEF ReportSucceeded
    <3>2. view \in [Resources -> {"absent", "failing", "healthy"}]
      BY DEF InvR, ReconTypeOK
    <3> QED BY <3>1, <3>2
  <2>5. action' \in [Resources -> {"none", "PENDING", "EXECUTING", "SUCCEEDED",
                                   "VERIFIED_RESOLVED", "FAILED"}]
    BY <1>14 DEF InvR, ReconTypeOK, ReportSucceeded
  <2>6. UNCHANGED <<world, place, incident, changes, failures, actions>>
    BY <1>14 DEF ReportSucceeded
  <2> QED BY <1>2, <2>2, <2>3, <2>4, <2>5, <2>6 DEF InvR, ReconTypeOK
<1>15. CASE UNCHANGED reconVars
  BY <1>15 DEF InvR, ReconTypeOK, reconVars
<1> QED BY <1>4, <1>5, <1>6, <1>7, <1>8, <1>9, <1>10, <1>11, <1>12, <1>13, <1>14, <1>15
        DEF ReconNext, CollectorLoop

LEMMA InitInvR ==
  ASSUME ReconInit
  PROVE  InvR
<1>1. /\ << >> \in Seq(Batch) /\ << >> \in Seq(HonestBatch) /\ Len(<< >>) = 0
  BY EmptySeq
<1>2. NoBatch \in HonestBatch /\ NoBatch \in Batch
  BY NoBatchHonest DEF HonestBatch
<1>3. /\ 0 <= MaxSpooled
      /\ 0 \in 0 .. MaxChanges /\ 0 \in 0 .. MaxFailures /\ 0 \in 0 .. MaxActions
  BY ReconciliationAssumption, SMT
<1> QED BY <1>1, <1>2, <1>3 DEF ReconInit, InvR, ReconTypeOK

\* What an honest batch may close or remove.
LEMMA HonestDeletes ==
  ASSUME InvR, NEW b \in HonestBatch, SyncClusterResources(b), NEW r \in Resources,
         KindOf[r] \in CoreKinds,
         \/ incident[r] = "OPEN" /\ incident'[r] = "RESOLVED" /\ b.items[r] = "unseen"
         \/ view[r] # "absent" /\ view'[r] = "absent",
         ~ (Cardinality(b.present) > QueueCapacity)
  PROVE  r \notin b.present
<1>1. b.complete /\ b.items[r] = "unseen"
  <2>1. CASE incident[r] = "OPEN" /\ incident'[r] = "RESOLVED" /\ b.items[r] = "unseen"
    BY <2>1 DEF SyncClusterResources, IncidentsAfter, Recovered, Cleaned
  <2>2. CASE view[r] # "absent" /\ view'[r] = "absent"
    <3>1. b.items[r] \in {"unseen", "failing", "healthy"}
      BY DEF HonestBatch, Batch
    <3>2. view'[r] = IF b.items[r] # "unseen" THEN b.items[r]
                     ELSE IF b.complete THEN "absent" ELSE view[r]
      BY DEF SyncClusterResources, ViewAfter
    <3> QED BY <2>2, <3>1, <3>2
  <2> QED BY <2>1, <2>2
<1> QED BY <1>1 DEF HonestBatch, Honest
-----------------------------------------------------------------------------
(* The theorems about reconciliation.                                      *)

LEMMA InvRHolds == ReconSpec => []InvR
<1>1. ReconInit => InvR
  BY InitInvR
<1>2. InvR /\ [ReconNext]_reconVars => InvR'
  BY NextInvR
<1> QED BY <1>1, <1>2, PTL DEF ReconSpec

\* The number of resources a batch was taken from.
LEMMA PresentCount ==
  ASSUME NEW b \in Batch
  PROVE  Cardinality(b.present) \in Nat
<1>1. b.present \in SUBSET Resources
  BY DEF Batch
<1> QED BY <1>1, FiniteResources

\* Incidents close and resources leave the view by a batch, or with a report.
LEMMA Syncs ==
  ASSUME InvR, [ReconNext]_reconVars, NEW r \in Resources, action'[r] = action[r],
         \/ incident[r] # incident'[r]
         \/ view[r] # view'[r]
  PROVE  \/ SyncClusterResources(batch) /\ place = "flush"
         \/ DrainSucceeds
<1>1. ASSUME NEW s \in Resources, ReportSucceeded(s)
      PROVE  FALSE
  <2>1. action \in [Resources -> {"none", "PENDING", "EXECUTING", "SUCCEEDED",
                                  "VERIFIED_RESOLVED", "FAILED"}]
    BY DEF InvR, ReconTypeOK
  <2>2. /\ action[s] = "EXECUTING" /\ action' = [action EXCEPT ![s] = "SUCCEEDED"]
        /\ incident' = incident
    BY <1>1 DEF ReportSucceeded
  <2>3. r # s
    BY <2>1, <2>2
  <2>4. view \in [Resources -> {"absent", "failing", "healthy"}]
    BY DEF InvR, ReconTypeOK
  <2>5. view'[r] = view[r]
    BY <1>1, <2>3, <2>4 DEF ReportSucceeded
  <2> QED BY <2>2, <2>5
<1> QED BY <1>1 DEF ReconNext, CollectorLoop, reconVars, server, WorldChanges,
           CollectFromKubernetes, FlushSucceeds, FlushFails, DrainFails,
           DrainEnds, Dispatch, ReportExecuting, EndAction

LEMMA DeletionStep ==
  ASSUME InvR, [ReconNext]_reconVars, NEW r \in Resources,
         KindOf[r] \in CoreKinds, action'[r] = action[r],
         \/ incident[r] = "OPEN" /\ incident'[r] = "RESOLVED" /\ Sending.items[r] = "unseen"
         \/ view[r] # "absent" /\ view'[r] = "absent",
         Cardinality(Sending.present) <= QueueCapacity
  PROVE  r \notin Sending.present
<1>1. ~ (Cardinality(Sending.present) > QueueCapacity)
  <2>1. QueueCapacity \in Nat
    BY ReconciliationAssumption
  <2>2. CASE SyncClusterResources(batch) /\ place = "flush"
    <3>1. Sending \in Batch
      BY <2>2 DEF Sending, InvR, ReconTypeOK
    <3> QED BY <2>1, <3>1, PresentCount, SMT
  <2>3. CASE DrainSucceeds
    <3>1. Sending \in Batch
      BY <2>3, HeadTailProperties DEF Sending, InvR, ReconTypeOK, DrainSucceeds
    <3> QED BY <2>1, <3>1, PresentCount, SMT
  <2> QED BY <2>2, <2>3, Syncs
<1>2. CASE SyncClusterResources(batch) /\ place = "flush"
  <2>1. Sending = batch /\ batch \in HonestBatch
    BY <1>2 DEF Sending, InvR
  <2> QED BY <1>1, <1>2, <2>1, HonestDeletes
<1>3. CASE DrainSucceeds
  <2>1. Sending = Head(spool) /\ SyncClusterResources(Head(spool))
    BY <1>3 DEF Sending, DrainSucceeds
  <2>2. Head(spool) \in HonestBatch
    BY <1>3, HeadTailProperties DEF InvR, DrainSucceeds
  <2> QED BY <1>1, <2>1, <2>2, HonestDeletes
<1> QED BY <1>2, <1>3, Syncs

\* Every variable of the reconciliation keeps its type; the spool never holds more
\* than MaxSpooled batches.
THEOREM ReconTypeCorrect == ReconSpec => []ReconTypeOK
<1>1. InvR => ReconTypeOK
  BY DEF InvR
<1> QED BY <1>1, InvRHolds, PTL

\* The server never takes a resource of the core kinds for deleted while the cluster
\* had it at the scrape, unless the agent's queue was too small for that scrape:
\* whatever listings fail, uploads are lost or repeated and batches arrive late.
THEOREM DeletionOnlyIfGoneTheorem == ReconSpec => DeletionOnlyIfGone
<1>1. InvR /\ [ReconNext]_reconVars =>
        [\A r \in Resources :
           /\ KindOf[r] \in CoreKinds /\ action'[r] = action[r]
           /\ \/ incident[r] = "OPEN" /\ incident'[r] = "RESOLVED" /\ Sending.items[r] = "unseen"
              \/ view[r] # "absent" /\ view'[r] = "absent"
           /\ Cardinality(Sending.present) <= QueueCapacity
           => r \notin Sending.present]_reconVars
  BY DeletionStep
<1> QED BY <1>1, InvRHolds, PTL DEF ReconSpec, DeletionOnlyIfGone

=============================================================================

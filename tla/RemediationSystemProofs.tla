------------------------ MODULE RemediationSystemProofs ------------------------
(***************************************************************************)
(* Theorems about RemediationSystem, for any number of actions and of      *)
(* concurrent drains, any queue sizes and any number of restarts.          *)
(*                                                                         *)
(* Each safety property has its own strengthening:                         *)
(*   Withheld       an action the server has not delivered is nowhere in   *)
(*                  the agent, and has not run;                            *)
(*   RunBudget      an action the agent may still execute has not used up  *)
(*                  the run of this life of the agent;                     *)
(*   EarnedReports  a report of an ending, wherever it is queued, speaks   *)
(*                  of an attempt that ended so;                           *)
(*   Silent         no report, wherever it is queued, is about an action   *)
(*                  the server has not delivered: what is cancelled or     *)
(*                  expired stays so although the server has no guard.     *)
(***************************************************************************)
EXTENDS RemediationSystem, TLAPS, SequenceTheorems, FiniteSetTheorems

\* The store, of which only the lemmas about records are used: what stands for its
\* incidents and its bound does not matter.
SP == INSTANCE ActionStoreProofs
      WITH acts <- rec, handed <- HandedOut,
           Incidents <- {None}, IncidentOf <- [a \in Actions |-> None]

-----------------------------------------------------------------------------
(* What each operator of ActionRecord does to a record: the lemmas of      *)
(* ActionStoreProofs, for the records of this system.                      *)

LEMMA SameAssumptions == SP!TimingAssumption /\ SP!StoreAssumption
BY TimingAssumption DEF SP!TimingAssumption, SP!StoreAssumption

\* The instance's copies of ActionRecord's operators are the operators.
LEMMA SameRecords ==
  /\ SP!Record = Record /\ SP!Report = Report /\ SP!Verdict = Verdict /\ SP!Status = Status
  /\ SP!ReportGuarded = ReportGuarded /\ SP!InFlight = InFlight
  /\ \A r : /\ SP!Older(r) = Older(r)
            /\ SP!Claimed(r) = Claimed(r)
            /\ SP!Claimable(r) = Claimable(r)
            /\ SP!Cancellable(r) = Cancellable(r)
            /\ SP!Cancelled(r) = Cancelled(r)
            /\ SP!ReportsSuccess(r) = ReportsSuccess(r)
  /\ \A r, x : /\ SP!Moved(r, x) = Moved(r, x)
               /\ SP!Reaped(r, x) = Reaped(r, x)
               /\ SP!Recorded(r, x) = Recorded(r, x)
  /\ \A r, v, b : SP!Verified(r, v, b) = Verified(r, v, b)
BY Zenon DEF SP!Record, Record, SP!Status, Status, SP!Settled, Settled, SP!Moved, Moved, SP!Older, Older,
       SP!Expired, Expired, SP!Claimable, Claimable, SP!Claimed, Claimed,
       SP!StallLimitPassed, StallLimitPassed, SP!Reaped, Reaped, SP!ReaperSkips, ReaperSkips,
       SP!InFlight, InFlight, SP!ReportGuarded, ReportGuarded, SP!ReportState, ReportState,
       SP!UnderWay, UnderWay, SP!Report, Report, SP!ReportsSuccess, ReportsSuccess,
       SP!ConcludedStatus, ConcludedStatus, SP!Reported, Reported, SP!Recorded, Recorded,
       SP!Cancellable, Cancellable, SP!Cancelled, Cancelled, SP!ValidTransition, ValidTransition,
       SP!AllowedTransitions, AllowedTransitions, SP!Verdict, Verdict,
       SP!VerifiedStatus, VerifiedStatus, SP!Verified, Verified

\* The statuses a report can leave behind.
ReportedStatus == InFlight \cup {"SUCCEEDED", "FAILED", "TIMEOUT", "ROLLED_BACK"}

LEMMA OlderIsRecord ==
  ASSUME NEW r \in Record
  PROVE  /\ Older(r) \in Record
         /\ Older(r).status = r.status
BY SP!OlderIsRecord, SameRecords, SameAssumptions DEF SP!TimingAssumption, SP!StoreAssumption

LEMMA ClaimedEffect ==
  ASSUME NEW r \in Record
  PROVE  /\ Claimed(r) \in Record
         /\ Claimable(r) => Claimed(r).status = "DELIVERED"
         /\ ~ Claimable(r) => \/ Claimed(r) = r
                              \/ r.status = "PENDING" /\ Claimed(r).status = "EXPIRED"
         /\ Claimable(r) => r.status \in {"PENDING", "DELIVERED"}
BY SP!ClaimedEffect, SameRecords, SameAssumptions DEF SP!TimingAssumption, SP!StoreAssumption

LEMMA ReapedEffect ==
  ASSUME NEW r \in Record, NEW down \in BOOLEAN
  PROVE  /\ Reaped(r, down) \in Record
         /\ \/ Reaped(r, down) = r
            \/ r.status = "PENDING" /\ Reaped(r, down).status = "EXPIRED"
            \/ /\ r.status \in {"DELIVERED", "EXECUTING", "VERIFYING", "ROLLING_BACK"}
               /\ Reaped(r, down).status = "TIMEOUT"
BY SP!ReapedEffect, SameRecords, SameAssumptions DEF SP!TimingAssumption, SP!StoreAssumption

LEMMA RecordedEffect ==
  ASSUME NEW r \in Record, NEW rep \in Report
  PROVE  /\ Recorded(r, rep) \in Record
         /\ r.status \in ReportGuarded => Recorded(r, rep) = r
         /\ r.status \notin ReportGuarded => Recorded(r, rep).status \in ReportedStatus
BY SP!RecordedEffect, SameRecords, SameAssumptions
   DEF SP!TimingAssumption, SP!StoreAssumption, SP!ReportedStatus, ReportedStatus

LEMMA CancellableStatus ==
  ASSUME NEW r \in Record, Cancellable(r)
  PROVE  /\ r.status \in {"PENDING", "CANCELLED"}
         /\ Cancelled(r) \in Record
         /\ Cancelled(r).status = "CANCELLED"
BY SP!CancellableStatus, SameRecords, SameAssumptions DEF SP!TimingAssumption, SP!StoreAssumption

LEMMA RecordedConclusion ==
  ASSUME NEW r \in Record, NEW rep \in Report,
         Recorded(r, rep).status # r.status
  PROVE  /\ Recorded(r, rep).status = "SUCCEEDED" => ReportsSuccess(rep)
         /\ Recorded(r, rep).status = "ROLLED_BACK" => rep.state = "ROLLED_BACK"
BY SP!RecordedConclusion, SameRecords, SameAssumptions DEF SP!TimingAssumption, SP!StoreAssumption

-----------------------------------------------------------------------------
(* The elements of a sequence under the operators the queues use.          *)

LEMMA EmptySet ==
  ASSUME NEW S
  PROVE  << >> \in Seq(S) /\ ToSet(<< >>) = {}
BY EmptySeq, SMT DEF ToSet

LEMMA AppendSet ==
  ASSUME NEW S, NEW s \in Seq(S), NEW e \in S
  PROVE  /\ Append(s, e) \in Seq(S)
         /\ Len(Append(s, e)) = Len(s) + 1
         /\ ToSet(Append(s, e)) \subseteq ToSet(s) \cup {e}
BY SMT DEF ToSet

LEMMA TailSet ==
  ASSUME NEW S, NEW s \in Seq(S), s # << >>
  PROVE  /\ Head(s) \in S /\ Head(s) \in ToSet(s)
         /\ Tail(s) \in Seq(S)
         /\ Len(Tail(s)) = Len(s) - 1
         /\ ToSet(Tail(s)) \subseteq ToSet(s)
BY SMT DEF ToSet

LEMMA ConcatSet ==
  ASSUME NEW S, NEW s \in Seq(S), NEW t \in Seq(S)
  PROVE  s \o t \in Seq(S) /\ ToSet(s \o t) \subseteq ToSet(s) \cup ToSet(t)
BY SMT DEF ToSet

LEMMA PrefixSet ==
  ASSUME NEW S, NEW s \in Seq(S), NEW n \in Nat, n <= Len(s)
  PROVE  SubSeq(s, 1, n) \in Seq(S) /\ ToSet(SubSeq(s, 1, n)) \subseteq ToSet(s)
BY SMT DEF ToSet

LEMMA ElementsInSet ==
  ASSUME NEW S, NEW s \in Seq(S)
  PROVE  ToSet(s) \subseteq S
BY SMT DEF ToSet

\* What a delivery carries is a sequence of actions that could be claimed.
LEMMA AnswersShape ==
  ASSUME NEW fit \in SUBSET Claimables, NEW s \in SetToSeqs(fit)
  PROVE  s \in Seq(Actions) /\ ToSet(s) \subseteq Claimables
<1>1. fit \subseteq Actions /\ fit \subseteq Claimables
  BY DEF Claimables
<1>2. Cardinality(fit) \in Nat
  BY <1>1, SystemAssumption, FS_Subset, FS_CardinalityType
<1>3. s \in [1 .. Cardinality(fit) -> fit]
  BY DEF SetToSeqs
<1>4. s \in Seq(fit)
  BY <1>2, <1>3, SeqDef
<1>5. s \in Seq(Actions) /\ ToSet(s) \subseteq fit
  BY <1>1, <1>4, SMT DEF ToSet
<1> QED BY <1>1, <1>5

-----------------------------------------------------------------------------
(* The operators of RemediationSystem.                                     *)

\* The queue of reports stays within its limit and gains the new report only.
LEMMA BufferedEffect ==
  ASSUME pending \in Seq(Update), Len(pending) <= MaxPending, NEW u \in Update
  PROVE  /\ Buffered(u) \in Seq(Update)
         /\ Len(Buffered(u)) <= MaxPending
         /\ ToSet(Buffered(u)) \subseteq ToSet(pending) \cup {u}
<1> DEFINE all == Append(pending, u)
<1>1. /\ all \in Seq(Update) /\ Len(all) = Len(pending) + 1
      /\ ToSet(all) \subseteq ToSet(pending) \cup {u}
  BY AppendSet
<1>2. all # << >>
  BY <1>1, SMT
<1>3. /\ Tail(all) \in Seq(Update) /\ Len(Tail(all)) = Len(all) - 1
      /\ ToSet(Tail(all)) \subseteq ToSet(all)
  BY <1>1, <1>2, TailSet
<1>4. Buffered(u) = IF Len(all) > MaxPending THEN Tail(all) ELSE all
  BY DEF Buffered
<1>5. Len(pending) \in Nat /\ MaxPending \in Nat
  BY SystemAssumption, SMT
<1> HIDE DEF all
<1> QED BY <1>1, <1>3, <1>4, <1>5, SMT

\* What the agent posts of an update.
LEMMA PostsAreReports ==
  ASSUME NEW u \in Update
  PROVE  /\ Detailed(u) \in Report /\ Detailed(u).state = u.state
         /\ ReportsSuccess(Detailed(u)) => u.state = "SUCCEEDED"
         /\ Plain(u) \in Report /\ Plain(u).state = "NONE"
         /\ ReportsSuccess(Plain(u)) => u.state = "SUCCEEDED"
<1>1. u.state \in Phase \cup Ending
  BY DEF Update
<1>2. Detailed(u) \in Report /\ Detailed(u).state = u.state
  BY <1>1, SMT DEF Detailed, Report, ReportState, Phase, Ending
<1>3. ReportsSuccess(Detailed(u)) => u.state = "SUCCEEDED"
  BY <1>1, SMT DEF Detailed, ReportsSuccess, Phase, Ending
<1>4. Plain(u) \in Report /\ Plain(u).state = "NONE"
  BY SMT DEF Plain, Report, ReportState
<1>5. ReportsSuccess(Plain(u)) => u.state = "SUCCEEDED"
  BY Zenon DEF Plain, ReportsSuccess
<1> QED BY <1>2, <1>3, <1>4, <1>5

\* The record a post of u may leave behind: the two posts, either or both of
\* them, or none.
PostedOutcomes(r, u) ==
  {r, Recorded(r, Detailed(u)), Recorded(r, Plain(u)),
   Recorded(Recorded(r, Detailed(u)), Plain(u))}

\* Whatever got through, the record is as it was or has a reported status, and
\* a success or a rollback it newly shows is the state of the update.
LEMMA PostedEffect ==
  ASSUME NEW r \in Record, NEW u \in Update, NEW s \in PostedOutcomes(r, u)
  PROVE  /\ s \in Record
         /\ s.status = r.status \/ s.status \in ReportedStatus
         /\ s.status \in {"SUCCEEDED", "ROLLED_BACK"} =>
              s.status = r.status \/ s.status = u.state
<1> DEFINE Good(x) == /\ x \in Record
                      /\ x.status = r.status \/ x.status \in ReportedStatus
                      /\ x.status \in {"SUCCEEDED", "ROLLED_BACK"} =>
                           x.status = r.status \/ x.status = u.state
<1>1. ASSUME NEW x \in Record, Good(x), NEW rep \in Report,
             rep.state \in {u.state, "NONE"},
             ReportsSuccess(rep) => u.state = "SUCCEEDED"
      PROVE  Good(Recorded(x, rep))
  <2>1. /\ Recorded(x, rep) \in Record
        /\ Recorded(x, rep) = x \/ Recorded(x, rep).status \in ReportedStatus
    BY RecordedEffect
  <2>2. Recorded(x, rep).status # x.status =>
          /\ Recorded(x, rep).status = "SUCCEEDED" => ReportsSuccess(rep)
          /\ Recorded(x, rep).status = "ROLLED_BACK" => rep.state = "ROLLED_BACK"
    BY RecordedConclusion
  <2> QED BY <1>1, <2>1, <2>2, Zenon
<1>2. Good(r)
  OBVIOUS
<1>3. /\ Detailed(u) \in Report /\ Plain(u) \in Report
      /\ Detailed(u).state \in {u.state, "NONE"} /\ Plain(u).state \in {u.state, "NONE"}
      /\ ReportsSuccess(Detailed(u)) => u.state = "SUCCEEDED"
      /\ ReportsSuccess(Plain(u)) => u.state = "SUCCEEDED"
  BY PostsAreReports
<1> HIDE DEF Good
<1>4. Good(Recorded(r, Detailed(u)))
  BY <1>1, <1>2, <1>3
<1>5. Good(Recorded(r, Plain(u)))
  BY <1>1, <1>2, <1>3
<1>6. Recorded(r, Detailed(u)) \in Record
  BY <1>4 DEF Good
<1>7. Good(Recorded(Recorded(r, Detailed(u)), Plain(u)))
  BY <1>1, <1>3, <1>4, <1>6
<1>8. Good(s)
  BY <1>2, <1>4, <1>5, <1>7 DEF PostedOutcomes
<1> QED BY <1>8 DEF Good

-----------------------------------------------------------------------------
(* The steps, by what they have in common.                                 *)

\* The job goes on to p, which begins no execution.
Proceeds(p) ==
  /\ job # None /\ Enter(p) /\ UNCHANGED executions
  /\ p = "RUNNING" => phase = "PENDING"

\* Every step of the worker takes an action, goes on with it or concludes it,
\* and counts an execution only when it leaves the phase RUNNING.
LEMMA WorkerShape ==
  ASSUME Worker
  PROVE  \/ Take
         \/ \E p \in {"RUNNING", "VERIFYING", "ROLLING_BACK"} : Proceeds(p)
         \/ \E e \in Ending : job # None /\ Conclude(e) /\ UNCHANGED executions
         \/ job # None /\ phase = "RUNNING" /\ Enter("EXECUTING") /\ CountExecution
<1>1. CASE Take
  BY <1>1
<1>2. CASE Begin
  BY <1>2 DEF Begin, Proceeds
<1>3. CASE StartExecution
  BY <1>3 DEF StartExecution
<1>4. CASE VerifyFails
  BY <1>4 DEF VerifyFails, Proceeds
<1>5. CASE Refuse
  BY <1>5 DEF Refuse, Ending
<1>6. CASE SkipExecution
  BY <1>6 DEF SkipExecution, Ending
<1>7. CASE VerifyEnds
  BY <1>7 DEF VerifyEnds, Ending
<1>8. CASE RollbackEnds
  BY <1>8 DEF RollbackEnds, Ending
<1>9. CASE ExecuteSucceeds
  BY <1>9 DEF ExecuteSucceeds, Proceeds
<1>10. CASE ExecuteFails
  BY <1>10 DEF ExecuteFails, Ending
<1> QED BY <1>1, <1>2, <1>3, <1>4, <1>5, <1>6, <1>7, <1>8, <1>9, <1>10 DEF Worker

\* Both ends of a send post the head of the batch.
LEMMA SendShape ==
  ASSUME TypeOK, NEW d \in Drains, SendAcknowledged(d) \/ SendFails(d)
  PROVE  /\ batch[d] \in Seq(Update) /\ batch[d] # << >>
         /\ Head(batch[d]) \in Update
         /\ Head(batch[d]) \in ToSet(batch[d])
         /\ \E s \in PostedOutcomes(rec[Head(batch[d]).action], Head(batch[d])) :
              rec' = [rec EXCEPT ![Head(batch[d]).action] = s]
         /\ batch' = [batch EXCEPT ![d] = Tail(batch[d])]
         /\ UNCHANGED <<agent, pending, draining, history>>
<1>1. batch[d] \in Seq(Update) /\ batch[d] # << >>
  BY DEF TypeOK, SendAcknowledged, SendFails
<1>2. Head(batch[d]) \in Update /\ Head(batch[d]) \in ToSet(batch[d])
  BY <1>1, TailSet
<1>3. \E s \in PostedOutcomes(rec[Head(batch[d]).action], Head(batch[d])) :
         rec' = [rec EXCEPT ![Head(batch[d]).action] = s]
  BY Zenon DEF SendAcknowledged, SendFails, PostedOutcomes
<1>4. /\ batch' = [batch EXCEPT ![d] = Tail(batch[d])]
      /\ UNCHANGED <<agent, pending, draining, history>>
  BY DEF SendAcknowledged, SendFails
<1> QED BY <1>1, <1>2, <1>3, <1>4

\* The records an action begins with.
LEMMA StartsAreRecords == NoRecord \in Record /\ NewRecord \in Record
BY TimingAssumption, SMT DEF NoRecord, NewRecord, Record, Status

\* What any step does to the record of one action: it stays, ages, is created,
\* cancelled, expires undelivered, is handed out, times out or takes a status
\* that only a delivered action can have.
LEMMA RecordStep ==
  ASSUME TypeOK, [Next]_vars
  PROVE  /\ rec' \in [Actions -> Record]
         /\ \A a \in Actions :
              \/ rec'[a].status = rec[a].status
              \/ rec[a].status = "ABSENT" /\ rec'[a].status = "PENDING"
              \/ rec[a].status = "PENDING" /\ rec'[a].status \in {"EXPIRED", "CANCELLED"}
              \/ rec'[a].status \in ReportedStatus \cup {"DELIVERED"}
<1> DEFINE Moves(x, y) ==
       \/ y.status = x.status
       \/ x.status = "ABSENT" /\ y.status = "PENDING"
       \/ x.status = "PENDING" /\ y.status \in {"EXPIRED", "CANCELLED"}
       \/ y.status \in ReportedStatus \cup {"DELIVERED"}
<1> USE DEF Moves
<1>0. rec \in [Actions -> Record]
  BY DEF TypeOK
<1>1. CASE Tick
  <2>1. rec' = [a \in Actions |-> Older(rec[a])]
    BY <1>1 DEF Tick
  <2> QED BY <1>0, <2>1, OlderIsRecord
<1>2. CASE Reap
  <2>1. PICK down \in BOOLEAN : rec' = [a \in Actions |-> Reaped(rec[a], down)]
    BY <1>2 DEF Reap
  <2>2. \A a \in Actions : /\ Reaped(rec[a], down) \in Record
                           /\ Moves(rec[a], Reaped(rec[a], down))
    BY <1>0, ReapedEffect DEF ReportedStatus
  <2> QED BY <2>1, <2>2
<1>3. CASE Poll \/ Stream
  <2>1. rec' = [a \in Actions |-> Claimed(rec[a])]
    BY <1>3 DEF Poll, Stream, ClaimAll
  <2>2. \A a \in Actions : Claimed(rec[a]) \in Record /\ Moves(rec[a], Claimed(rec[a]))
    BY <1>0, ClaimedEffect
  <2> QED BY <2>1, <2>2
<1>4. ASSUME NEW a \in Actions, Cancel(a)
      PROVE  rec' \in [Actions -> Record] /\ \A b \in Actions : Moves(rec[b], rec'[b])
  <2>1. Cancellable(rec[a]) /\ rec' = [rec EXCEPT ![a] = Cancelled(rec[a])]
    BY <1>4 DEF Cancel
  <2>2. /\ rec[a].status \in {"PENDING", "CANCELLED"} /\ Cancelled(rec[a]) \in Record
        /\ Cancelled(rec[a]).status = "CANCELLED"
    BY <1>0, <2>1, CancellableStatus
  <2> QED BY <1>0, <2>1, <2>2
<1>5. ASSUME NEW d \in Drains, SendAcknowledged(d) \/ SendFails(d)
      PROVE  rec' \in [Actions -> Record] /\ \A b \in Actions : Moves(rec[b], rec'[b])
  <2> DEFINE u == Head(batch[d])
  <2>1. u \in Update
    BY <1>5, SendShape
  <2>2. u.action \in Actions
    BY <2>1 DEF Update
  <2>3. PICK s \in PostedOutcomes(rec[u.action], u) : rec' = [rec EXCEPT ![u.action] = s]
    BY <1>5, SendShape
  <2>4. s \in Record /\ Moves(rec[u.action], s)
    BY <1>0, <2>1, <2>2, <2>3, PostedEffect
  <2> QED BY <1>0, <2>2, <2>3, <2>4
<1>6. CASE UNCHANGED rec
  BY <1>0, <1>6
<1>7. ASSUME Worker \/ AgentRestarts
             \/ \E d \in Drains : DrainBegins(d) \/ DrainAborts(d) \/ DrainEnds(d)
      PROVE  UNCHANGED rec
  <2>1. Worker => UNCHANGED rec
    BY WorkerShape DEF Take, Proceeds, Enter, Conclude
  <2> QED BY <1>7, <2>1 DEF AgentRestarts, DrainBegins, DrainAborts, DrainEnds
<1>8. CASE UNCHANGED vars
  BY <1>6, <1>8 DEF vars
<1>9. ASSUME NEW a \in Actions, Create(a)
      PROVE  rec' \in [Actions -> Record] /\ \A b \in Actions : Moves(rec[b], rec'[b])
  <2>1. NewRecord.status = "PENDING"
    BY DEF NewRecord
  <2>2. rec[a].status = "ABSENT" /\ rec' = [rec EXCEPT ![a] = NewRecord]
    BY <1>9 DEF Create
  <2> QED BY <1>0, <2>1, <2>2, StartsAreRecords
<1> QED BY <1>1, <1>2, <1>3, <1>4, <1>5, <1>6, <1>7, <1>8, <1>9 DEF Next

-----------------------------------------------------------------------------
(* Type correctness.                                                       *)

\* The fields of the agent's side, apart from the records.
AgentTypes ==
  /\ inbox \in Seq(Actions)
  /\ job \in Actions \cup {None} /\ phase \in Phase
  /\ completed \subseteq Actions
  /\ executions \in [Actions -> Nat]
  /\ outcome \in [Actions -> SUBSET Ending]
  /\ restarts \in 0 .. MaxRestarts

ReportTypes ==
  /\ pending \in Seq(Update) /\ Len(pending) <= MaxPending
  /\ batch \in [Drains -> Seq(Update)] /\ kept \in [Drains -> Seq(Update)]
  /\ draining \subseteq Drains
  /\ received \subseteq Update

LEMMA TypeParts == TypeOK <=> rec \in [Actions -> Record] /\ AgentTypes /\ ReportTypes
BY DEF TypeOK, AgentTypes, ReportTypes

\* A delivery appends to the queue actions that could be claimed.
LEMMA InboxShape ==
  ASSUME inbox \in Seq(Actions), Poll \/ Stream
  PROVE  inbox' \in Seq(Actions) /\ ToSet(inbox') \subseteq ToSet(inbox) \cup Claimables
<1>1. inbox' = inbox \/ \E fit \in SUBSET Claimables : \E s \in SetToSeqs(fit) : inbox' = inbox \o s
  <2>1. Poll => inbox' = inbox \/ \E s \in SetToSeqs(Claimables) : inbox' = inbox \o s
    BY DEF Poll, Answers
  <2>2. Claimables \in SUBSET Claimables
    OBVIOUS
  <2> QED BY <2>1, <2>2 DEF Stream
<1>2. ASSUME NEW fit \in SUBSET Claimables, NEW s \in SetToSeqs(fit), inbox' = inbox \o s
      PROVE  inbox' \in Seq(Actions) /\ ToSet(inbox') \subseteq ToSet(inbox) \cup Claimables
  <2>1. s \in Seq(Actions) /\ ToSet(s) \subseteq Claimables
    BY AnswersShape
  <2> QED BY <1>2, <2>1, ConcatSet
<1> QED BY <1>1, <1>2

\* A report of the job at hand is an update, and the queue keeps its type.
LEMMA ReportKeepsTypes ==
  ASSUME ReportTypes, NEW a \in Actions, NEW st \in Phase \cup Ending,
         pending' = Buffered([action |-> a, state |-> st]),
         UNCHANGED <<batch, kept, draining, received>>
  PROVE  ReportTypes'
<1>1. [action |-> a, state |-> st] \in Update
  BY DEF Update
<1>2. pending' \in Seq(Update) /\ Len(pending') <= MaxPending
  BY <1>1, BufferedEffect DEF ReportTypes
<1> QED BY <1>2 DEF ReportTypes

LEMMA WorkerTypes ==
  ASSUME TypeOK, Worker
  PROVE  AgentTypes' /\ ReportTypes'
<1>0. AgentTypes /\ ReportTypes
  BY TypeParts
<1>1. CASE Take
  <2>1. Head(inbox) \in Actions /\ Tail(inbox) \in Seq(Actions)
    BY <1>0, <1>1, TailSet DEF AgentTypes, Take
  <2>2. AgentTypes'
    BY <1>0, <1>1, <2>1 DEF AgentTypes, Take, Phase, history
  <2>3. CASE Head(inbox) \in completed
    <3>1. UNCHANGED <<pending, batch, kept, draining, received>>
      BY <1>1, <2>3 DEF Take
    <3> QED BY <1>0, <2>2, <3>1 DEF ReportTypes
  <2>4. CASE Head(inbox) \notin completed
    <3>1. /\ pending' = Buffered([action |-> Head(inbox), state |-> "PENDING"])
          /\ UNCHANGED <<batch, kept, draining, received>>
      BY <1>1, <2>4 DEF Take
    <3>2. "PENDING" \in Phase \cup Ending
      BY DEF Phase
    <3> QED BY <1>0, <2>1, <2>2, <3>1, <3>2, ReportKeepsTypes
  <2> QED BY <2>3, <2>4
<1>2. ASSUME NEW p \in Phase, job # None, Enter(p),
             UNCHANGED executions \/ CountExecution
      PROVE  AgentTypes' /\ ReportTypes'
  <2>1. job \in Actions /\ p \in Phase \cup Ending
    BY <1>0, <1>2 DEF AgentTypes
  <2>2. executions' \in [Actions -> Nat]
    BY <1>0, <1>2, <2>1, SMT DEF AgentTypes, CountExecution
  <2>3. AgentTypes'
    BY <1>0, <1>2, <2>2 DEF AgentTypes, Enter
  <2>4. /\ pending' = Buffered([action |-> job, state |-> p])
        /\ UNCHANGED <<batch, kept, draining, received>>
    BY <1>2 DEF Enter
  <2> QED BY <1>0, <2>1, <2>3, <2>4, ReportKeepsTypes
<1>3. ASSUME NEW e \in Ending, job # None, Conclude(e),
             UNCHANGED executions \/ CountExecution
      PROVE  AgentTypes' /\ ReportTypes'
  <2>1. job \in Actions /\ e \in Phase \cup Ending
    BY <1>0, <1>3 DEF AgentTypes
  <2>2. executions' \in [Actions -> Nat]
    BY <1>0, <1>3, <2>1, SMT DEF AgentTypes, CountExecution
  <2>3. outcome' \in [Actions -> SUBSET Ending]
    BY <1>0, <1>3, <2>1 DEF AgentTypes, Conclude
  <2>4. AgentTypes'
    BY <1>0, <1>3, <2>1, <2>2, <2>3 DEF AgentTypes, Conclude, Phase
  <2>5. /\ pending' = Buffered([action |-> job, state |-> e])
        /\ UNCHANGED <<batch, kept, draining, received>>
    BY <1>3 DEF Conclude
  <2> QED BY <1>0, <2>1, <2>4, <2>5, ReportKeepsTypes
<1>4. {"RUNNING", "EXECUTING", "ROLLING_BACK", "VERIFYING"} \subseteq Phase
      /\ "FAILED" \in Ending
  BY DEF Phase, Ending
<1> QED BY <1>1, <1>2, <1>3, <1>4, WorkerShape DEF Proceeds

\* TypeOK alone is not inductive: a drain replaces the queue by what it kept,
\* which is within the limit because it began with no more than the queue.
DrainsFit == \A d \in Drains : Len(batch[d]) + Len(kept[d]) <= MaxPending

LEMMA TypeStep ==
  ASSUME TypeOK, DrainsFit, [Next]_vars
  PROVE  TypeOK'
<1>0. /\ AgentTypes /\ ReportTypes
      /\ rec' \in [Actions -> Record]
  BY TypeParts, RecordStep
<1>1. CASE Tick \/ Reap \/ (\E a \in Actions : Create(a) \/ Cancel(a)) \/ UNCHANGED vars
  <2>1. UNCHANGED <<agent, reports, history>>
    BY <1>1 DEF Tick, Reap, Create, Cancel, vars
  <2> QED BY <1>0, <2>1 DEF TypeOK, AgentTypes, ReportTypes, agent, reports, history
<1>2. CASE Poll \/ Stream
  <2>1. UNCHANGED <<job, phase, completed, reports, history>>
    BY <1>2 DEF Poll, Stream
  <2>2. inbox' \in Seq(Actions)
    BY <1>0, <1>2, InboxShape DEF AgentTypes
  <2> QED BY <1>0, <2>1, <2>2 DEF TypeOK, AgentTypes, ReportTypes, reports, history
<1>3. CASE Worker
  BY <1>0, <1>3, WorkerTypes DEF TypeOK, AgentTypes, ReportTypes
<1>4. CASE AgentRestarts
  <2>1. << >> \in Seq(Actions) /\ << >> \in Seq(Update) /\ Len(<< >>) = 0
    BY EmptySet, SMT
  <2>2. restarts' \in 0 .. MaxRestarts /\ Len(<< >>) <= MaxPending
    BY <1>0, <1>4, <2>1, SystemAssumption, SMT DEF AgentTypes, AgentRestarts
  <2>3. AgentTypes'
    BY <1>0, <1>4, <2>1, <2>2 DEF AgentTypes, AgentRestarts, Phase
  <2>4. ReportTypes'
    BY <1>0, <1>4, <2>1, <2>2 DEF ReportTypes, AgentRestarts
  <2> QED BY <1>0, <2>3, <2>4 DEF TypeOK, AgentTypes, ReportTypes
<1>5. ASSUME NEW d \in Drains, DrainBegins(d)
      PROVE  TypeOK'
  <2>1. << >> \in Seq(Update)
    BY EmptySet
  <2> QED BY <1>0, <1>5, <2>1
           DEF TypeOK, AgentTypes, ReportTypes, DrainBegins, agent, history
<1>6. ASSUME NEW d \in Drains, SendAcknowledged(d) \/ SendFails(d)
      PROVE  TypeOK'
  <2>1. /\ batch[d] \in Seq(Update) /\ batch[d] # << >> /\ Head(batch[d]) \in Update
        /\ batch' = [batch EXCEPT ![d] = Tail(batch[d])]
        /\ UNCHANGED <<agent, pending, draining, history>>
    BY <1>6, SendShape
  <2>2. Tail(batch[d]) \in Seq(Update)
    BY <2>1, TailSet
  <2>3. Append(kept[d], Head(batch[d])) \in Seq(Update)
    BY <1>0, <2>1, AppendSet DEF ReportTypes
  <2>4. kept' \in [Drains -> Seq(Update)] /\ received' \subseteq Update
    BY <1>0, <1>6, <2>1, <2>3 DEF ReportTypes, SendAcknowledged, SendFails
  <2>5. batch' \in [Drains -> Seq(Update)]
    BY <1>0, <2>1, <2>2 DEF ReportTypes
  <2> QED BY <1>0, <2>1, <2>4, <2>5 DEF TypeOK, AgentTypes, ReportTypes, agent, history
<1>7. ASSUME NEW d \in Drains, DrainAborts(d)
      PROVE  TypeOK'
  <2>1. << >> \in Seq(Update)
    BY EmptySet
  <2> QED BY <1>0, <1>7, <2>1
           DEF TypeOK, AgentTypes, ReportTypes, DrainAborts, agent, history
<1>8. ASSUME NEW d \in Drains, DrainEnds(d)
      PROVE  TypeOK'
  <2>1. << >> \in Seq(Update)
    BY EmptySet
  <2>2. Len(batch[d]) = 0 /\ Len(kept[d]) \in Nat
    BY <1>0, <1>8, SMT DEF ReportTypes, DrainEnds
  <2>3. Len(kept[d]) <= MaxPending
    <3>1. Len(batch[d]) + Len(kept[d]) <= MaxPending
      BY DEF DrainsFit
    <3> QED BY <2>2, <3>1, SystemAssumption, SMT
  <2> QED BY <1>0, <1>8, <2>1, <2>3
           DEF TypeOK, AgentTypes, ReportTypes, DrainEnds, agent, history
<1> QED BY <1>1, <1>2, <1>3, <1>4, <1>5, <1>6, <1>7, <1>8 DEF Next

LEMMA DrainsFitStep ==
  ASSUME TypeOK, DrainsFit, [Next]_vars
  PROVE  DrainsFit'
<1>0. ReportTypes
  BY TypeParts
<1>1. ASSUME NEW d \in Drains, DrainBegins(d)
      PROVE  DrainsFit'
  <2> SUFFICES ASSUME NEW c \in Drains
               PROVE  Len(batch'[c]) + Len(kept'[c]) <= MaxPending
    BY DEF DrainsFit
  <2>1. /\ batch' = [batch EXCEPT ![d] = pending] /\ kept' = [kept EXCEPT ![d] = << >>]
        /\ Len(pending) \in Nat /\ Len(pending) <= MaxPending /\ MaxPending \in Nat
    BY <1>0, <1>1, SystemAssumption, SMT DEF DrainBegins, ReportTypes
  <2>2. CASE c = d
    BY <1>0, <2>1, <2>2, SMT DEF ReportTypes
  <2>3. CASE c # d
    BY <1>0, <2>1, <2>3 DEF ReportTypes, DrainsFit
  <2> QED BY <2>2, <2>3
<1>2. ASSUME NEW d \in Drains, SendAcknowledged(d) \/ SendFails(d)
      PROVE  DrainsFit'
  <2> SUFFICES ASSUME NEW c \in Drains
               PROVE  Len(batch'[c]) + Len(kept'[c]) <= MaxPending
    BY DEF DrainsFit
  <2> DEFINE b == batch[d]  k == kept[d]  u == Head(b)
  <2>1. /\ b \in Seq(Update) /\ b # << >> /\ u \in Update
        /\ batch' = [batch EXCEPT ![d] = Tail(b)]
    BY <1>2, SendShape
  <2>2. k \in Seq(Update)
    BY <1>0 DEF ReportTypes
  <2>3. kept' = kept \/ kept' = [kept EXCEPT ![d] = Append(k, u)]
    BY <1>2 DEF SendAcknowledged, SendFails
  <2>4. /\ Len(Tail(b)) = Len(b) - 1 /\ Len(Append(k, u)) = Len(k) + 1
        /\ Len(b) \in Nat /\ Len(k) \in Nat /\ MaxPending \in Nat
        /\ Len(b) + Len(k) <= MaxPending
    <3>1. Len(Tail(b)) = Len(b) - 1
      BY <2>1, TailSet
    <3>2. Len(Append(k, u)) = Len(k) + 1
      BY <2>1, <2>2, AppendSet
    <3>3. Len(b) \in Nat /\ Len(k) \in Nat /\ MaxPending \in Nat
      BY <2>1, <2>2, SystemAssumption
    <3>4. Len(b) + Len(k) <= MaxPending
      BY DEF DrainsFit
    <3> QED BY <3>1, <3>2, <3>3, <3>4
  <2> HIDE DEF b, k, u
  <2>5. CASE c = d
    <3>1. batch'[c] = Tail(b) /\ (kept'[c] = k \/ kept'[c] = Append(k, u))
      BY <1>0, <2>1, <2>3, <2>5 DEF ReportTypes, k
    <3>2. Len(batch'[c]) = Len(b) - 1
      BY <2>4, <3>1
    <3>3. Len(kept'[c]) = Len(k) \/ Len(kept'[c]) = Len(k) + 1
      BY <2>4, <3>1
    <3> QED BY <2>4, <3>2, <3>3, SMT
  <2>6. CASE c # d
    BY <1>0, <2>1, <2>3, <2>6 DEF ReportTypes, DrainsFit
  <2> QED BY <2>5, <2>6
<1>3. ASSUME NEW d \in Drains, DrainAborts(d) \/ DrainEnds(d)
      PROVE  DrainsFit'
  <2> SUFFICES ASSUME NEW c \in Drains
               PROVE  Len(batch'[c]) + Len(kept'[c]) <= MaxPending
    BY DEF DrainsFit
  <2>1. /\ batch' = batch \/ batch' = [batch EXCEPT ![d] = << >>]
        /\ DrainEnds(d) => batch[d] = << >>
        /\ DrainAborts(d) => batch' = [batch EXCEPT ![d] = << >>]
        /\ kept' = [kept EXCEPT ![d] = << >>]
    BY <1>3 DEF DrainAborts, DrainEnds
  <2>2. CASE c = d
    <3>1. batch'[c] = << >> /\ kept'[c] = << >>
      BY <1>0, <1>3, <2>1, <2>2 DEF ReportTypes, DrainEnds
    <3> QED BY <3>1, SystemAssumption, SMT
  <2>3. CASE c # d
    BY <1>0, <2>1, <2>3 DEF ReportTypes, DrainsFit
  <2> QED BY <2>2, <2>3
<1>4. CASE AgentRestarts
  BY <1>4, SystemAssumption, SMT DEF AgentRestarts, DrainsFit
<1>5. CASE UNCHANGED <<batch, kept>>
  BY <1>5 DEF DrainsFit
<1>6. ASSUME \/ Tick \/ Reap \/ Poll \/ Stream \/ Worker
             \/ (\E a \in Actions : Create(a) \/ Cancel(a)) \/ UNCHANGED vars
      PROVE  UNCHANGED <<batch, kept>>
  <2>1. Worker => UNCHANGED <<batch, kept>>
    BY WorkerShape DEF Take, Proceeds, Enter, Conclude
  <2> QED BY <1>6, <2>1 DEF Tick, Reap, Poll, Stream, Create, Cancel, vars, reports
<1> QED BY <1>1, <1>2, <1>3, <1>4, <1>5, <1>6 DEF Next

LEMMA TypeInit ==
  ASSUME Init
  PROVE  TypeOK /\ DrainsFit
<1>1. /\ << >> \in Seq(Actions) /\ << >> \in Seq(Update) /\ Len(<< >>) = 0
      /\ MaxPending \in Nat /\ MaxRestarts \in Nat
  BY EmptySet, SystemAssumption, SMT
<1>3. rec \in [Actions -> Record] /\ outcome \in [Actions -> SUBSET Ending]
  BY StartsAreRecords DEF Init
<1>4. executions \in [Actions -> Nat] /\ restarts \in 0 .. MaxRestarts
  BY <1>1, SMT DEF Init
<1>5. AgentTypes
  BY <1>1, <1>3, <1>4 DEF Init, AgentTypes, Phase
<1>6. ReportTypes /\ DrainsFit
  BY <1>1, SMT DEF Init, ReportTypes, DrainsFit
<1> QED BY <1>3, <1>5, <1>6, TypeParts

LEMMA TypeInvariant == Spec => [](TypeOK /\ DrainsFit)
<1>1. TypeOK /\ DrainsFit /\ [Next]_vars => (TypeOK /\ DrainsFit)'
  BY TypeStep, DrainsFitStep
<1> QED BY TypeInit, <1>1, PTL DEF Spec

\* Every variable stays within its type: in particular the queue of reports
\* never exceeds its limit, although drains replace it by what they kept
\* (drainLocalQueue) while the worker goes on appending to it (reportJobState).
THEOREM TypeCorrect == Spec => []TypeOK
BY TypeInvariant, PTL

-----------------------------------------------------------------------------
(* What has not been delivered does not run.                               *)

Untouched(a) == executions[a] = 0 /\ job # a /\ a \notin ToSet(inbox)

Withheld == \A a \in Actions : rec[a].status \in Undelivered => Untouched(a)

\* No step takes a delivery back.
LEMMA UndeliveredIsOld ==
  ASSUME TypeOK, [Next]_vars, NEW a \in Actions, rec'[a].status \in Undelivered
  PROVE  rec[a].status \in Undelivered
<1>1. \/ rec'[a].status = rec[a].status
      \/ rec[a].status = "ABSENT" /\ rec'[a].status = "PENDING"
      \/ rec[a].status = "PENDING" /\ rec'[a].status \in {"EXPIRED", "CANCELLED"}
      \/ rec'[a].status \in ReportedStatus \cup {"DELIVERED"}
  BY RecordStep
<1> QED BY <1>1 DEF Undelivered, ReportedStatus, InFlight

\* The agent's variables outside the steps of delivery, worker and restart.
LEMMA OtherSteps ==
  ASSUME \/ Tick \/ Reap \/ (\E a \in Actions : Create(a) \/ Cancel(a)) \/ UNCHANGED vars
         \/ \E d \in Drains : \/ DrainBegins(d) \/ SendAcknowledged(d) \/ SendFails(d)
                              \/ DrainAborts(d) \/ DrainEnds(d)
  PROVE  UNCHANGED <<inbox, job, phase, completed, executions, outcome, restarts>>
BY DEF Tick, Reap, Create, Cancel, vars, agent, history, DrainBegins, SendAcknowledged, SendFails,
       DrainAborts, DrainEnds

\* A delivery adds to the queue only actions whose records it delivers.
LEMMA DeliveryShape ==
  ASSUME TypeOK, Poll \/ Stream
  PROVE  /\ UNCHANGED <<job, phase, completed, executions, outcome, restarts>>
         /\ \A a \in ToSet(inbox') : \/ a \in ToSet(inbox)
                                     \/ a \in Actions /\ rec'[a].status = "DELIVERED"
<1>1. UNCHANGED <<job, phase, completed, executions, outcome, restarts>>
  BY DEF Poll, Stream, history
<1>2. ToSet(inbox') \subseteq ToSet(inbox) \cup Claimables
  BY InboxShape DEF TypeOK
<1>3. \A a \in Claimables : a \in Actions /\ rec'[a].status = "DELIVERED"
  <2>1. rec' = [a \in Actions |-> Claimed(rec[a])]
    BY DEF Poll, Stream, ClaimAll
  <2> QED BY <2>1, ClaimedEffect DEF TypeOK, Claimables
<1> QED BY <1>1, <1>2, <1>3

LEMMA WithheldStep ==
  ASSUME TypeOK, Withheld, [Next]_vars
  PROVE  Withheld'
<1> SUFFICES ASSUME NEW a \in Actions, rec'[a].status \in Undelivered
             PROVE  Untouched(a)'
  BY DEF Withheld, Undelivered
<1>1. Untouched(a) /\ a # None
  BY UndeliveredIsOld, SystemAssumption DEF Withheld
<1>2. CASE UNCHANGED <<inbox, job, executions>>
  BY <1>1, <1>2 DEF Untouched
<1>3. CASE Poll \/ Stream
  <2>1. UNCHANGED <<job, executions>>
    BY <1>3, DeliveryShape
  <2>2. a \notin ToSet(inbox')
    BY <1>1, <1>3, DeliveryShape DEF Untouched, Undelivered
  <2> QED BY <1>1, <2>1, <2>2 DEF Untouched
<1>4. CASE Worker
  <2>0. inbox \in Seq(Actions) /\ executions \in [Actions -> Nat] /\ job \in Actions \cup {None}
    BY DEF TypeOK
  <2>1. CASE Take
    <3>1. inbox' = Tail(inbox) /\ inbox # << >>
      BY <2>1 DEF Take
    <3>2. ToSet(inbox') \subseteq ToSet(inbox) /\ Head(inbox) \in ToSet(inbox)
      BY <2>0, <3>1, TailSet
    <3>3. job' \in {job, Head(inbox)} /\ executions' = executions
      BY <2>1 DEF Take, history
    <3> QED BY <1>1, <3>2, <3>3 DEF Untouched
  <2>2. ASSUME NEW p, job # None, Enter(p), UNCHANGED executions \/ CountExecution
        PROVE  Untouched(a)'
    BY <1>1, <2>0, <2>2 DEF Untouched, Enter, CountExecution
  <2>3. ASSUME NEW e, job # None, Conclude(e), UNCHANGED executions \/ CountExecution
        PROVE  Untouched(a)'
    BY <1>1, <2>0, <2>3 DEF Untouched, Conclude, CountExecution
  <2> QED BY <1>4, <2>1, <2>2, <2>3, WorkerShape DEF Proceeds
<1>5. CASE AgentRestarts
  <2>1. inbox' = << >> /\ job' = None /\ executions' = executions
    BY <1>5 DEF AgentRestarts
  <2>2. ToSet(<< >>) = {}
    BY EmptySet
  <2> QED BY <1>1, <2>1, <2>2 DEF Untouched
<1> QED BY <1>2, <1>3, <1>4, <1>5, OtherSteps DEF Next

\* An action that was cancelled, or expired before its delivery
\* (cancelRemediationAction, claimPendingRemediationActions,
\* reconcileStalledActions), has not been executed by the agent and is nowhere
\* in it, whatever is lost, redelivered or restarted.
THEOREM WithdrawnTheorem == Spec => []WithdrawnNeverRuns
<1>1. Init => Withheld
  <2> SUFFICES ASSUME Init, NEW a \in Actions
               PROVE  Untouched(a)
    BY DEF Withheld
  <2> QED BY EmptySet, SystemAssumption DEF Init, Untouched
<1>2. TypeOK /\ Withheld /\ [Next]_vars => Withheld'
  BY WithheldStep
<1>3. Withheld => WithdrawnNeverRuns
  BY DEF Withheld, WithdrawnNeverRuns, Untouched, Undelivered
<1> QED BY <1>1, <1>2, <1>3, TypeInvariant, PTL DEF Spec

-----------------------------------------------------------------------------
(* One execution per life of the agent.                                    *)

\* This life of the agent may still execute the action.
Fresh(a) ==
  IF job = a THEN phase \in {"PENDING", "RUNNING"} ELSE a \notin completed

RunBudget ==
  \A a \in Actions : /\ executions[a] <= restarts + 1
                     /\ Fresh(a) => executions[a] <= restarts

LEMMA RunBudgetStep ==
  ASSUME TypeOK, RunBudget, [Next]_vars
  PROVE  RunBudget'
<1> SUFFICES ASSUME NEW a \in Actions
             PROVE  /\ executions'[a] <= restarts' + 1
                    /\ Fresh(a)' => executions'[a] <= restarts'
  BY DEF RunBudget
<1>1. /\ executions[a] <= restarts + 1
      /\ Fresh(a) => executions[a] <= restarts
      /\ executions \in [Actions -> Nat] /\ restarts \in Nat /\ a # None
      /\ executions[a] \in Nat
  BY SystemAssumption, SMT DEF RunBudget, TypeOK
<1>2. CASE UNCHANGED <<job, phase, completed, executions, restarts>>
  BY <1>1, <1>2 DEF Fresh
<1>3. CASE Worker
  <2>1. CASE Take
    <3>1. UNCHANGED <<completed, executions, restarts>> /\ job = None
      BY <2>1 DEF Take, history
    <3>2. Fresh(a)' => Fresh(a)
      <4>1. job' = job \/ (job' = Head(inbox) /\ Head(inbox) \notin completed)
        BY <2>1 DEF Take
      <4> QED BY <1>1, <3>1, <4>1 DEF Fresh
    <3> QED BY <1>1, <3>1, <3>2
  <2>2. ASSUME NEW p \in {"RUNNING", "VERIFYING", "ROLLING_BACK"}, Proceeds(p)
        PROVE  /\ executions'[a] <= restarts' + 1
               /\ Fresh(a)' => executions'[a] <= restarts'
    <3>1. UNCHANGED <<job, completed, executions, restarts>> /\ phase' = p
      BY <2>2 DEF Proceeds, Enter
    <3>2. Fresh(a)' => Fresh(a)
      BY <2>2, <3>1 DEF Fresh, Proceeds
    <3> QED BY <1>1, <3>1, <3>2
  <2>3. ASSUME NEW e, job # None, Conclude(e), UNCHANGED executions
        PROVE  /\ executions'[a] <= restarts' + 1
               /\ Fresh(a)' => executions'[a] <= restarts'
    <3>1. /\ UNCHANGED <<executions, restarts>>
          /\ job' = None /\ completed' = completed \cup {job}
      BY <2>3 DEF Conclude
    <3>2. Fresh(a)' => Fresh(a)
      BY <1>1, <3>1 DEF Fresh
    <3> QED BY <1>1, <3>1, <3>2
  <2>4. ASSUME job # None, phase = "RUNNING", Enter("EXECUTING"), CountExecution
        PROVE  /\ executions'[a] <= restarts' + 1
               /\ Fresh(a)' => executions'[a] <= restarts'
    <3>1. CASE a = job
      <4>1. Fresh(a) /\ executions'[a] = executions[a] + 1
        BY <1>1, <2>4, <3>1 DEF Fresh, CountExecution
      <4>2. ~ Fresh(a)'
        BY <1>1, <2>4, <3>1 DEF Fresh, Enter
      <4>3. executions[a] <= restarts
        BY <1>1, <4>1
      <4>4. executions'[a] <= restarts + 1
        BY <1>1, <4>1, <4>3, SMT
      <4> QED BY <2>4, <4>2, <4>4 DEF Enter
    <3>2. CASE a # job
      <4>1. executions'[a] = executions[a]
        BY <1>1, <2>4, <3>2 DEF CountExecution
      <4>2. Fresh(a)' => Fresh(a)
        BY <1>1, <2>4, <3>2 DEF Fresh, Enter
      <4> QED BY <1>1, <2>4, <4>1, <4>2 DEF Enter
    <3> QED BY <3>1, <3>2
  <2> QED BY <1>3, <2>1, <2>2, <2>3, <2>4, WorkerShape
<1>4. CASE AgentRestarts
  <2>1. executions' = executions /\ restarts' = restarts + 1
    BY <1>4 DEF AgentRestarts
  <2>2. executions'[a] <= restarts'
    BY <1>1, <2>1
  <2> QED BY <1>1, <2>1, <2>2, SMT
<1> QED BY <1>2, <1>3, <1>4, OtherSteps, DeliveryShape DEF Next

\* Redelivery (CLAIM_RETRY_TIMEOUT_MS) and the idempotency map of
\* Manager.ProcessAction: an action is executed at most once between two
\* restarts of the agent.
THEOREM OneRunTheorem == Spec => []OneRunPerLife
<1>1. Init => RunBudget
  <2> SUFFICES ASSUME Init, NEW a \in Actions
               PROVE  executions[a] <= restarts + 1 /\ executions[a] <= restarts
    BY DEF RunBudget
  <2> QED BY SMT DEF Init
<1>2. TypeOK /\ RunBudget /\ [Next]_vars => RunBudget'
  BY RunBudgetStep
<1>3. RunBudget => OneRunPerLife
  BY DEF RunBudget, OneRunPerLife
<1> QED BY <1>1, <1>2, <1>3, TypeInvariant, PTL DEF Spec

-----------------------------------------------------------------------------
(* What the server shows was earned.                                       *)

\* An update that speaks of an ending speaks of one that happened.
Earned(u) == u.state \in Ending => u.state \in outcome[u.action]

EarnedReports ==
  /\ \A u \in ToSet(pending) : Earned(u)
  /\ \A d \in Drains : \A u \in ToSet(batch[d]) \cup ToSet(kept[d]) : Earned(u)

\* A new report that is earned joins the queue, and outcomes only grow.
LEMMA EarnedJoins ==
  ASSUME TypeOK, EarnedReports, NEW a \in Actions, NEW st \in Phase \cup Ending,
         pending' = Buffered([action |-> a, state |-> st]),
         UNCHANGED <<batch, kept>>,
         st \in Ending => st \in outcome'[a],
         \A b \in Actions : outcome[b] \subseteq outcome'[b]
  PROVE  EarnedReports'
<1> DEFINE n == [action |-> a, state |-> st]
<1>1. n \in Update
  BY DEF Update
<1>2. ToSet(pending') \subseteq ToSet(pending) \cup {n}
  BY <1>1, BufferedEffect DEF TypeOK
<1>3. \A u \in Update : Earned(u) => Earned(u)'
  BY DEF Earned, Update
<1>4. Earned(n)'
  BY DEF Earned
<1>5. /\ ToSet(pending) \subseteq Update
      /\ \A d \in Drains : ToSet(batch[d]) \cup ToSet(kept[d]) \subseteq Update
  BY ElementsInSet DEF TypeOK
<1> HIDE DEF n
<1>6. \A u \in ToSet(pending') : Earned(u)'
  BY <1>2, <1>3, <1>4, <1>5 DEF EarnedReports
<1>7. \A d \in Drains : \A u \in ToSet(batch[d]) \cup ToSet(kept[d]) : Earned(u)'
  BY <1>3, <1>5 DEF EarnedReports
<1> QED BY <1>6, <1>7 DEF EarnedReports

LEMMA EarnedReportsStep ==
  ASSUME TypeOK, EarnedReports, [Next]_vars
  PROVE  EarnedReports'
<1>0. ReportTypes
  BY TypeParts
<1>1. CASE UNCHANGED <<pending, batch, kept, outcome>>
  BY <1>1 DEF EarnedReports, Earned
<1>2. CASE Worker
  <2>1. CASE Take
    <3>1. inbox # << >> /\ UNCHANGED <<batch, kept, outcome>>
      BY <2>1 DEF Take, history
    <3>2. CASE UNCHANGED pending
      BY <1>1, <3>1, <3>2
    <3>3. CASE pending' = Buffered([action |-> Head(inbox), state |-> "PENDING"])
      <4>1. Head(inbox) \in Actions /\ "PENDING" \in Phase \cup Ending /\ "PENDING" \notin Ending
        BY <3>1, TailSet DEF TypeOK, Phase, Ending
      <4> QED BY <3>1, <3>3, <4>1, EarnedJoins
    <3> QED BY <2>1, <3>2, <3>3 DEF Take
  <2>2. ASSUME NEW p \in Phase, job # None, Enter(p)
        PROVE  EarnedReports'
    <3>1. job \in Actions /\ p \notin Ending
      BY <2>2 DEF TypeOK, Phase, Ending
    <3>2. UNCHANGED <<batch, kept, outcome>> /\ pending' = Buffered([action |-> job, state |-> p])
      BY <2>2 DEF Enter
    <3> QED BY <3>1, <3>2, EarnedJoins
  <2>3. ASSUME NEW e \in Ending, job # None, Conclude(e)
        PROVE  EarnedReports'
    <3>1. job \in Actions
      BY <2>3 DEF TypeOK
    <3>2. UNCHANGED <<batch, kept>> /\ pending' = Buffered([action |-> job, state |-> e])
      BY <2>3 DEF Conclude
    <3>3. /\ e \in outcome'[job]
          /\ \A b \in Actions : outcome[b] \subseteq outcome'[b]
      BY <2>3, <3>1 DEF Conclude, TypeOK
    <3> QED BY <3>1, <3>2, <3>3, EarnedJoins
  <2>4. {"RUNNING", "EXECUTING", "ROLLING_BACK", "VERIFYING"} \subseteq Phase
        /\ "FAILED" \in Ending
    BY DEF Phase, Ending
  <2> QED BY <1>2, <2>1, <2>2, <2>3, <2>4, WorkerShape DEF Proceeds
<1>3. CASE AgentRestarts
  BY <1>3, EmptySet DEF AgentRestarts, EarnedReports
<1>4. ASSUME NEW d \in Drains, DrainBegins(d)
      PROVE  EarnedReports'
  <2>1. /\ UNCHANGED <<pending, outcome>>
        /\ batch' = [batch EXCEPT ![d] = pending] /\ kept' = [kept EXCEPT ![d] = << >>]
    BY <1>4 DEF DrainBegins, history
  <2> QED BY <1>0, <2>1, EmptySet DEF EarnedReports, Earned, ReportTypes
<1>5. ASSUME NEW d \in Drains, SendAcknowledged(d) \/ SendFails(d)
      PROVE  EarnedReports'
  <2> DEFINE u == Head(batch[d])
  <2>1. /\ batch[d] \in Seq(Update) /\ batch[d] # << >> /\ u \in Update
        /\ u \in ToSet(batch[d])
        /\ batch' = [batch EXCEPT ![d] = Tail(batch[d])]
        /\ UNCHANGED <<pending, outcome>>
    BY <1>5, SendShape DEF history
  <2>2. kept[d] \in Seq(Update)
    BY <1>0 DEF ReportTypes
  <2>3. /\ ToSet(Tail(batch[d])) \subseteq ToSet(batch[d])
        /\ ToSet(Append(kept[d], u)) \subseteq ToSet(kept[d]) \cup {u}
    BY <2>1, <2>2, TailSet, AppendSet
  <2>4. kept' = kept \/ kept' = [kept EXCEPT ![d] = Append(kept[d], u)]
    BY <1>5 DEF SendAcknowledged, SendFails
  <2> HIDE DEF u
  <2>5. \A c \in Drains : /\ ToSet(batch'[c]) \subseteq ToSet(batch[c])
                          /\ ToSet(kept'[c]) \subseteq ToSet(kept[c]) \cup ToSet(batch[c])
    BY <1>0, <2>1, <2>3, <2>4 DEF ReportTypes
  <2> QED BY <2>1, <2>5 DEF EarnedReports, Earned
<1>6. ASSUME NEW d \in Drains, DrainAborts(d) \/ DrainEnds(d)
      PROVE  EarnedReports'
  <2>1. /\ UNCHANGED outcome
        /\ batch' = batch \/ batch' = [batch EXCEPT ![d] = << >>]
        /\ kept' = [kept EXCEPT ![d] = << >>]
        /\ pending' = pending \/ pending' = kept[d]
    BY <1>6 DEF DrainAborts, DrainEnds, history
  <2> QED BY <1>0, <2>1, EmptySet DEF EarnedReports, Earned, ReportTypes
<1>7. ASSUME \/ Tick \/ Reap \/ Poll \/ Stream
             \/ (\E a \in Actions : Create(a) \/ Cancel(a)) \/ UNCHANGED vars
      PROVE  UNCHANGED <<pending, batch, kept, outcome>>
  BY <1>7 DEF Tick, Reap, Poll, Stream, Create, Cancel, vars, reports, history
<1> QED BY <1>1, <1>2, <1>3, <1>4, <1>5, <1>6, <1>7 DEF Next

LEMMA ConclusionStep ==
  ASSUME TypeOK, EarnedReports, ConclusionIsEarned, [Next]_vars
  PROVE  ConclusionIsEarned'
<1>0. /\ rec \in [Actions -> Record] /\ outcome \in [Actions -> SUBSET Ending]
      /\ \A d \in Drains : batch[d] \in Seq(Update)
  BY DEF TypeOK
<1>1. \A a \in Actions : outcome[a] \subseteq outcome'[a]
  <2>1. CASE UNCHANGED outcome
    BY <2>1
  <2>2. ASSUME NEW e, Conclude(e)
        PROVE  \A a \in Actions : outcome[a] \subseteq outcome'[a]
    BY <1>0, <2>2 DEF Conclude
  <2>3. Worker => UNCHANGED outcome \/ \E e \in Ending : Conclude(e)
    BY WorkerShape DEF Take, Proceeds, Enter, history, Ending
  <2>4. AgentRestarts \/ Poll \/ Stream => UNCHANGED outcome
    BY DEF AgentRestarts, Poll, Stream, history
  <2> QED BY <2>1, <2>2, <2>3, <2>4, OtherSteps DEF Next
<1>2. ASSUME NEW d \in Drains, SendAcknowledged(d) \/ SendFails(d)
      PROVE  ConclusionIsEarned'
  <2> DEFINE u == Head(batch[d])
  <2>1. u \in Update /\ u \in ToSet(batch[d])
    BY <1>2, SendShape
  <2>2. u.action \in Actions
    BY <2>1 DEF Update
  <2>3. PICK s \in PostedOutcomes(rec[u.action], u) : rec' = [rec EXCEPT ![u.action] = s]
    BY <1>2, SendShape
  <2>4. s.status \in {"SUCCEEDED", "ROLLED_BACK"} =>
           s.status = rec[u.action].status \/ s.status = u.state
    BY <1>0, <2>1, <2>2, <2>3, PostedEffect
  <2>5. Earned(u)
    BY <2>1 DEF EarnedReports
  <2> HIDE DEF u
  <2>6. s.status \in {"SUCCEEDED", "ROLLED_BACK"} => s.status \in outcome[u.action]
    BY <2>2, <2>4, <2>5 DEF Earned, Ending, ConclusionIsEarned
  <2> QED BY <1>0, <1>1, <2>2, <2>3, <2>6 DEF ConclusionIsEarned
<1>3. ASSUME \A a \in Actions :
               rec'[a].status \in {"SUCCEEDED", "ROLLED_BACK"} => rec'[a].status = rec[a].status
      PROVE  ConclusionIsEarned'
  BY <1>1, <1>3 DEF ConclusionIsEarned
<1>4. CASE Tick
  <2>1. rec' = [a \in Actions |-> Older(rec[a])]
    BY <1>4 DEF Tick
  <2> QED BY <1>0, <1>3, <2>1, OlderIsRecord
<1>5. CASE Reap
  <2>1. PICK down \in BOOLEAN : rec' = [a \in Actions |-> Reaped(rec[a], down)]
    BY <1>5 DEF Reap
  <2>2. \A a \in Actions : Reaped(rec[a], down).status \in {"SUCCEEDED", "ROLLED_BACK"} =>
                             Reaped(rec[a], down).status = rec[a].status
    BY <1>0, ReapedEffect
  <2> QED BY <1>3, <2>1, <2>2
<1>6. CASE Poll \/ Stream
  <2>1. rec' = [a \in Actions |-> Claimed(rec[a])]
    BY <1>6 DEF Poll, Stream, ClaimAll
  <2>2. \A a \in Actions : Claimed(rec[a]).status \in {"SUCCEEDED", "ROLLED_BACK"} =>
                             Claimed(rec[a]).status = rec[a].status
    BY <1>0, ClaimedEffect
  <2> QED BY <1>3, <2>1, <2>2
<1>7. ASSUME NEW a \in Actions, Cancel(a)
      PROVE  ConclusionIsEarned'
  <2>1. Cancellable(rec[a]) /\ rec' = [rec EXCEPT ![a] = Cancelled(rec[a])]
    BY <1>7 DEF Cancel
  <2>2. Cancelled(rec[a]).status = "CANCELLED"
    BY <1>0, <2>1, CancellableStatus
  <2> QED BY <1>0, <1>3, <2>1, <2>2
<1>8. ASSUME \/ Worker \/ AgentRestarts \/ UNCHANGED vars
             \/ \E d \in Drains : DrainBegins(d) \/ DrainAborts(d) \/ DrainEnds(d)
      PROVE  ConclusionIsEarned'
  <2>1. Worker => UNCHANGED rec
    BY WorkerShape DEF Take, Proceeds, Enter, Conclude
  <2>2. UNCHANGED rec
    BY <1>8, <2>1 DEF AgentRestarts, DrainBegins, DrainAborts, DrainEnds, vars
  <2> QED BY <1>3, <2>2
<1>9. ASSUME NEW a \in Actions, Create(a)
      PROVE  ConclusionIsEarned'
  <2>1. rec' = [rec EXCEPT ![a] = NewRecord] /\ NewRecord.status = "PENDING"
    BY <1>9 DEF Create, NewRecord
  <2> QED BY <1>0, <1>3, <2>1
<1> QED BY <1>2, <1>4, <1>5, <1>6, <1>7, <1>8, <1>9 DEF Next

\* The reports that recordRemediationResult accepts show a success or a
\* rollback only when an attempt of the agent ended so, although reports are
\* lost, posted twice, posted by several drains and in any order.
THEOREM EarnedTheorem == Spec => []ConclusionIsEarned
<1>1. Init => EarnedReports /\ ConclusionIsEarned
  <2> SUFFICES ASSUME Init
               PROVE  EarnedReports /\ ConclusionIsEarned
    OBVIOUS
  <2>1. EarnedReports
    BY EmptySet DEF Init, EarnedReports
  <2>2. ConclusionIsEarned
    BY DEF Init, ConclusionIsEarned, NoRecord
  <2> QED BY <2>1, <2>2
<1>2. /\ TypeOK /\ EarnedReports /\ ConclusionIsEarned /\ [Next]_vars
      => (EarnedReports /\ ConclusionIsEarned)'
  BY EarnedReportsStep, ConclusionStep
<1> QED BY <1>1, <1>2, TypeInvariant, PTL DEF Spec

-----------------------------------------------------------------------------
(* The end of an action is final for the whole system.                     *)

\* A report that waits somewhere in the agent's queues.
Queued(u) == \/ u \in ToSet(pending)
             \/ \E d \in Drains : u \in ToSet(batch[d]) \cup ToSet(kept[d])

\* No report about an undelivered action.
Silent == \A a \in Actions : rec[a].status \in Undelivered => \A u \in Update : Queued(u) => u.action # a

\* The worker reports what it works on; drains only move reports about.
LEMMA ReportOrigin ==
  ASSUME TypeOK, [Next]_vars, NEW u \in Update, Queued(u)'
  PROVE  \/ Queued(u)
         \/ job # None /\ u.action = job
         \/ u.action \in ToSet(inbox)
<1>0. ReportTypes
  BY TypeParts
<1>1. CASE UNCHANGED <<pending, batch, kept>>
  BY <1>1 DEF Queued
<1>2. ASSUME NEW a \in Actions, NEW st \in Phase \cup Ending,
             pending' = Buffered([action |-> a, state |-> st]),
             UNCHANGED <<batch, kept>>
      PROVE  Queued(u) \/ u.action = a
  <2> DEFINE n == [action |-> a, state |-> st]
  <2>1. n \in Update /\ n.action = a
    BY DEF Update
  <2> HIDE DEF n
  <2>2. ToSet(pending') \subseteq ToSet(pending) \cup {n}
    BY <1>2, <2>1, BufferedEffect DEF TypeOK, n
  <2> QED BY <1>2, <2>1, <2>2 DEF Queued
<1>3. CASE Worker
  <2>1. CASE Take
    <3>1. inbox # << >> /\ UNCHANGED <<batch, kept>>
      BY <2>1 DEF Take
    <3>2. CASE UNCHANGED pending
      BY <1>1, <3>1, <3>2
    <3>3. CASE pending' = Buffered([action |-> Head(inbox), state |-> "PENDING"])
      <4>1. /\ Head(inbox) \in Actions /\ Head(inbox) \in ToSet(inbox)
            /\ "PENDING" \in Phase \cup Ending
        BY <3>1, TailSet DEF TypeOK, Phase
      <4> QED BY <1>2, <3>1, <3>3, <4>1
    <3> QED BY <2>1, <3>2, <3>3 DEF Take
  <2>2. ASSUME NEW st \in Phase \cup Ending, job # None,
               pending' = Buffered([action |-> job, state |-> st]), UNCHANGED <<batch, kept>>
        PROVE  Queued(u) \/ (job # None /\ u.action = job)
    BY <1>2, <2>2 DEF TypeOK
  <2>3. ASSUME NEW p \in Phase, job # None, Enter(p)
        PROVE  Queued(u) \/ (job # None /\ u.action = job)
    BY <2>2, <2>3 DEF Enter
  <2>4. ASSUME NEW e \in Ending, job # None, Conclude(e)
        PROVE  Queued(u) \/ (job # None /\ u.action = job)
    BY <2>2, <2>4 DEF Conclude
  <2>5. {"RUNNING", "EXECUTING", "ROLLING_BACK", "VERIFYING"} \subseteq Phase
    BY DEF Phase
  <2> QED BY <1>3, <2>1, <2>3, <2>4, <2>5, WorkerShape DEF Proceeds
<1>4. CASE AgentRestarts
  BY <1>4, EmptySet DEF AgentRestarts, Queued
<1>5. ASSUME NEW d \in Drains, DrainBegins(d)
      PROVE  Queued(u)
  <2>1. /\ UNCHANGED pending
        /\ batch' = [batch EXCEPT ![d] = pending] /\ kept' = [kept EXCEPT ![d] = << >>]
    BY <1>5 DEF DrainBegins
  <2> QED BY <1>0, <2>1, EmptySet DEF Queued, ReportTypes
<1>6. ASSUME NEW d \in Drains, SendAcknowledged(d) \/ SendFails(d)
      PROVE  Queued(u)
  <2> DEFINE h == Head(batch[d])
  <2>1. /\ batch[d] \in Seq(Update) /\ batch[d] # << >> /\ h \in Update
        /\ h \in ToSet(batch[d])
        /\ batch' = [batch EXCEPT ![d] = Tail(batch[d])]
        /\ UNCHANGED pending
    BY <1>6, SendShape
  <2>2. kept[d] \in Seq(Update)
    BY <1>0 DEF ReportTypes
  <2>3. /\ ToSet(Tail(batch[d])) \subseteq ToSet(batch[d])
        /\ ToSet(Append(kept[d], h)) \subseteq ToSet(kept[d]) \cup {h}
    BY <2>1, <2>2, TailSet, AppendSet
  <2>4. kept' = kept \/ kept' = [kept EXCEPT ![d] = Append(kept[d], h)]
    BY <1>6 DEF SendAcknowledged, SendFails
  <2> HIDE DEF h
  <2>5. \A c \in Drains : /\ ToSet(batch'[c]) \subseteq ToSet(batch[c])
                          /\ ToSet(kept'[c]) \subseteq ToSet(kept[c]) \cup ToSet(batch[c])
    BY <1>0, <2>1, <2>3, <2>4 DEF ReportTypes
  <2> QED BY <2>1, <2>5 DEF Queued
<1>7. ASSUME NEW d \in Drains, DrainAborts(d) \/ DrainEnds(d)
      PROVE  Queued(u)
  <2>1. /\ batch' = batch \/ batch' = [batch EXCEPT ![d] = << >>]
        /\ kept' = [kept EXCEPT ![d] = << >>]
        /\ pending' = pending \/ pending' = kept[d]
    BY <1>7 DEF DrainAborts, DrainEnds
  <2> QED BY <1>0, <2>1, EmptySet DEF Queued, ReportTypes
<1>8. ASSUME \/ Tick \/ Reap \/ Poll \/ Stream
             \/ (\E a \in Actions : Create(a) \/ Cancel(a)) \/ UNCHANGED vars
      PROVE  UNCHANGED <<pending, batch, kept>>
  BY <1>8 DEF Tick, Reap, Poll, Stream, Create, Cancel, vars, reports
<1> QED BY <1>1, <1>3, <1>4, <1>5, <1>6, <1>7, <1>8 DEF Next

LEMMA SilentStep ==
  ASSUME TypeOK, Withheld, Silent, [Next]_vars
  PROVE  Silent'
<1> SUFFICES ASSUME NEW a \in Actions, rec'[a].status \in Undelivered,
                    NEW u \in Update, Queued(u)'
             PROVE  u.action # a
  BY DEF Silent, Undelivered, Update
<1>1. rec[a].status \in Undelivered
  BY UndeliveredIsOld
<1>2. Untouched(a) /\ (Queued(u) => u.action # a)
  BY <1>1 DEF Withheld, Silent
<1> QED BY <1>2, ReportOrigin DEF Untouched

\* The agent knows nothing of an action that was not delivered, and says nothing of it.
LEMMA SilentInvariant == Spec => [](Withheld /\ Silent)
<1>1. Init => Withheld /\ Silent
  <2> SUFFICES ASSUME Init, NEW a \in Actions
               PROVE  Untouched(a) /\ \A u \in Update : ~ Queued(u)
    BY DEF Withheld, Silent
  <2> QED BY EmptySet, SystemAssumption DEF Init, Untouched, Queued
<1>2. TypeOK /\ (Withheld /\ Silent) /\ [Next]_vars => (Withheld /\ Silent)'
  BY WithheldStep, SilentStep
<1> QED BY <1>1, <1>2, TypeInvariant, PTL DEF Spec

\* The statuses after which an agent's report, the reaper and the operator change
\* nothing more: those recordRemediationResult guards, and those of actions that
\* were withdrawn.
Ended == ReportGuarded \cup {"CANCELLED", "EXPIRED"}

LEMMA EndedStay ==
  ASSUME TypeOK, Silent, [Next]_vars, NEW a \in Actions, rec[a].status \in Ended
  PROVE  rec'[a].status = rec[a].status
<1>0. rec \in [Actions -> Record] /\ rec[a] \in Record
  BY DEF TypeOK
<1>1. CASE Tick
  BY <1>0, <1>1, OlderIsRecord DEF Tick
<1>2. CASE Reap
  <2>1. PICK down \in BOOLEAN : rec' = [b \in Actions |-> Reaped(rec[b], down)]
    BY <1>2 DEF Reap
  <2>2. \/ Reaped(rec[a], down) = rec[a]
        \/ rec[a].status \in {"PENDING", "DELIVERED", "EXECUTING", "VERIFYING", "ROLLING_BACK"}
    BY <1>0, ReapedEffect
  <2> QED BY <2>1, <2>2 DEF Ended, ReportGuarded
<1>3. CASE Poll \/ Stream
  <2>1. rec' = [b \in Actions |-> Claimed(rec[b])]
    BY <1>3 DEF Poll, Stream, ClaimAll
  <2>2. \/ Claimed(rec[a]) = rec[a]
        \/ rec[a].status \in {"PENDING", "DELIVERED"}
    BY <1>0, ClaimedEffect
  <2> QED BY <2>1, <2>2 DEF Ended, ReportGuarded
<1>4. ASSUME NEW b \in Actions, Cancel(b)
      PROVE  rec'[a].status = rec[a].status
  <2>1. Cancellable(rec[b]) /\ rec' = [rec EXCEPT ![b] = Cancelled(rec[b])]
    BY <1>4 DEF Cancel
  <2>2. rec[b].status \in {"PENDING", "CANCELLED"} /\ Cancelled(rec[b]).status = "CANCELLED"
    BY <1>0, <2>1, CancellableStatus
  <2> QED BY <1>0, <2>1, <2>2 DEF Ended, ReportGuarded
<1>5. ASSUME NEW d \in Drains, SendAcknowledged(d) \/ SendFails(d)
      PROVE  rec'[a].status = rec[a].status
  <2> DEFINE u == Head(batch[d])
  <2>1. u \in Update /\ u \in ToSet(batch[d])
    BY <1>5, SendShape
  <2>2. PICK s \in PostedOutcomes(rec[u.action], u) : rec' = [rec EXCEPT ![u.action] = s]
    BY <1>5, SendShape
  <2>3. Queued(u)
    BY <2>1 DEF Queued
  <2> HIDE DEF u
  <2>4. CASE u.action # a
    BY <1>0, <2>2, <2>4
  <2>5. CASE u.action = a
    <3>1. rec[a].status \in ReportGuarded
      BY <2>1, <2>3, <2>5 DEF Silent, Undelivered, Ended
    <3>2. s = rec[a]
      <4>1. \A rep \in Report : Recorded(rec[a], rep) = rec[a]
        BY <1>0, <3>1, RecordedEffect
      <4> QED BY <2>1, <2>2, <2>5, <4>1, PostsAreReports DEF PostedOutcomes
    <3> QED BY <1>0, <2>2, <2>5, <3>2
  <2> QED BY <2>4, <2>5
<1>6. ASSUME \/ Worker \/ AgentRestarts \/ UNCHANGED vars
             \/ \E d \in Drains : DrainBegins(d) \/ DrainAborts(d) \/ DrainEnds(d)
      PROVE  UNCHANGED rec
  <2>1. Worker => UNCHANGED rec
    BY WorkerShape DEF Take, Proceeds, Enter, Conclude
  <2> QED BY <1>6, <2>1 DEF AgentRestarts, DrainBegins, DrainAborts, DrainEnds, vars
<1>7. ASSUME NEW b \in Actions, Create(b)
      PROVE  rec'[a].status = rec[a].status
  BY <1>0, <1>7 DEF Create, Ended, ReportGuarded
<1> QED BY <1>1, <1>2, <1>3, <1>4, <1>5, <1>6, <1>7 DEF Next

\* Once the server shows an action as ended, no report changes it: not one repeated,
\* delayed in a drain or posted by the fallback.  For CANCELLED and EXPIRED
\* recordRemediationResult has no guard; what ActionStore asks of agents instead, to
\* report only what they were handed, is what this agent does.
THEOREM FinalityTheorem ==
  Spec => [][\A a \in Actions : rec[a].status \in Ended => rec'[a].status = rec[a].status]_vars
<1>1. TypeOK /\ Silent /\ [Next]_vars =>
        [\A a \in Actions : rec[a].status \in Ended => rec'[a].status = rec[a].status]_vars
  BY EndedStay
<1> QED BY <1>1, TypeInvariant, SilentInvariant, PTL DEF Spec

-----------------------------------------------------------------------------
(* The system implements ActionStore.                                      *)

\* The operators of ActionStore's instance are the system's own.
LEMMA SameOperators ==
  /\ Store!NoRecord = NoRecord /\ Store!NewRecord = NewRecord /\ Store!Report = Report
  /\ \A r : /\ Store!Claimed(r) = Claimed(r)
            /\ Store!Claimable(r) = Claimable(r)
            /\ Store!Cancellable(r) = Cancellable(r)
            /\ Store!Cancelled(r) = Cancelled(r)
            /\ Store!Older(r) = Older(r)
  /\ \A r, down : Store!Reaped(r, down) = Reaped(r, down)
  /\ \A r, rep : Store!Recorded(r, rep) = Recorded(r, rep)
<1>1. Store!NoRecord = NoRecord /\ Store!NewRecord = NewRecord /\ Store!Report = Report
  BY DEF Store!NoRecord, NoRecord, Store!NewRecord, NewRecord, Store!Report, Report,
         Store!ReportState, ReportState, Store!UnderWay, UnderWay
<1>2. \A r : /\ Store!Claimed(r) = Claimed(r)
             /\ Store!Claimable(r) = Claimable(r)
             /\ Store!Cancelled(r) = Cancelled(r)
             /\ Store!Older(r) = Older(r)
  BY DEF Store!Claimed, Claimed, Store!Claimable, Claimable, Store!Cancelled, Cancelled,
         Store!Older, Older, Store!Expired, Expired, Store!Moved, Moved, Store!Settled, Settled
<1>3. \A r : Store!Cancellable(r) = Cancellable(r)
  BY DEF Store!Cancellable, Cancellable, Store!ValidTransition, ValidTransition,
         Store!AllowedTransitions, AllowedTransitions, Store!Status, Status,
         Store!InFlight, InFlight, Store!ReportGuarded, ReportGuarded
<1>4. \A r, down : Store!Reaped(r, down) = Reaped(r, down)
  BY DEF Store!Reaped, Reaped, Store!Expired, Expired, Store!Moved, Moved, Store!Settled, Settled,
         Store!ReaperSkips, ReaperSkips, Store!InFlight, InFlight,
         Store!StallLimitPassed, StallLimitPassed
<1>5. \A r, rep : Store!Recorded(r, rep) = Recorded(r, rep)
  BY DEF Store!Recorded, Recorded, Store!ReportGuarded, ReportGuarded, Store!Reported, Reported,
         Store!ConcludedStatus, ConcludedStatus, Store!ReportsSuccess, ReportsSuccess,
         Store!Moved, Moved, Store!Settled, Settled
<1> QED BY <1>1, <1>2, <1>3, <1>4, <1>5

\* A step that delivers nothing hands out nothing.
LEMMA NothingHandedOut ==
  ASSUME \A a \in Actions : rec'[a].status \in Undelivered <=> rec[a].status \in Undelivered
  PROVE  HandedOut' = HandedOut
BY DEF HandedOut

\* When both posts of an update arrive, the record is as after one of them: either
\* the first concludes the action, and the second is refused, or the second one
\* concludes it, whatever the first one said.
LEMMA BothPostsAreOne ==
  ASSUME NEW r \in Record, NEW u \in Update
  PROVE  Recorded(Recorded(r, Detailed(u)), Plain(u)) \in
           {Recorded(r, Detailed(u)), Recorded(r, Plain(u))}
<1>1. u.state \in Phase \cup Ending
  BY DEF Update
<1>2. CASE r.status \in ReportGuarded
  BY <1>2 DEF Recorded
<1>3. CASE r.status \notin ReportGuarded /\ u.state \in {"PENDING", "SUCCEEDED", "FAILED", "ROLLED_BACK"}
  <2>1. Recorded(r, Detailed(u)).status \in ReportGuarded
    BY <1>3 DEF Recorded, Reported, Detailed, ConcludedStatus, Moved, ReportsSuccess, ReportGuarded
  <2> QED BY <2>1 DEF Recorded
<1>4. CASE /\ r.status \notin ReportGuarded
           /\ u.state \in {"RUNNING", "EXECUTING", "VERIFYING", "ROLLING_BACK"}
  <2>1. Recorded(r, Detailed(u)).status \in InFlight
    BY <1>4 DEF Recorded, Reported, Detailed, Moved, InFlight
  <2>2. \A x : x.status \notin ReportGuarded => Recorded(x, Plain(u)) = [status |-> "FAILED", age |-> 0]
    BY <1>4 DEF Recorded, Reported, Plain, ConcludedStatus, Moved, ReportsSuccess, Settled
  <2>3. Recorded(r, Detailed(u)).status \notin ReportGuarded
    BY <2>1 DEF InFlight, ReportGuarded
  <2> QED BY <1>4, <2>2, <2>3
<1> QED BY <1>1, <1>2, <1>3, <1>4 DEF Phase, Ending

\* So a send is one report of ActionStore's, or none, and about an action that was
\* handed out.
LEMMA SendReports ==
  ASSUME TypeOK, Silent, NEW d \in Drains, SendAcknowledged(d) \/ SendFails(d)
  PROVE  \/ UNCHANGED rec
         \/ \E a \in HandedOut, rep \in Report : rec' = [rec EXCEPT ![a] = Recorded(rec[a], rep)]
<1> DEFINE u == Head(batch[d])
           a == u.action
<1>1. u \in Update /\ u \in ToSet(batch[d])
  BY SendShape
<1>2. a \in Actions /\ rec \in [Actions -> Record] /\ rec[a] \in Record
  BY <1>1 DEF Update, TypeOK
<1>3. PICK s \in PostedOutcomes(rec[a], u) : rec' = [rec EXCEPT ![a] = s]
  BY SendShape
<1>4. Queued(u)
  BY <1>1 DEF Queued
<1> HIDE DEF u
<1>5. a \in HandedOut
  BY <1>1, <1>2, <1>4 DEF Silent, HandedOut
<1>6. Detailed(u) \in Report /\ Plain(u) \in Report
  BY <1>1, PostsAreReports
<1>7. s \in {rec[a], Recorded(rec[a], Detailed(u)), Recorded(rec[a], Plain(u))}
  BY <1>1, <1>2, BothPostsAreOne DEF PostedOutcomes
<1>8. CASE s = rec[a]
  BY <1>2, <1>3, <1>8
<1> QED BY <1>3, <1>5, <1>6, <1>7, <1>8

\* Every step is one of ActionStore's or leaves the records alone.
LEMMA ImplementsStep ==
  ASSUME TypeOK, Silent, [Next]_vars
  PROVE  [Store!Next]_(Store!vars)
<1>0. rec \in [Actions -> Record] /\ rec' \in [Actions -> Record]
  BY RecordStep DEF TypeOK
<1>1. ASSUME UNCHANGED rec
      PROVE  UNCHANGED Store!vars
  BY <1>1 DEF Store!vars, HandedOut
<1>2. CASE Tick
  <2>1. rec' = [a \in Actions |-> Older(rec[a])]
    BY <1>2 DEF Tick
  <2>2. HandedOut' = HandedOut
    BY <1>0, <2>1, OlderIsRecord, NothingHandedOut
  <2>3. Store!Tick
    BY <2>1, <2>2, SameOperators DEF Store!Tick
  <2> QED BY <2>3 DEF Store!Next
<1>3. CASE Reap
  <2>1. PICK down \in BOOLEAN : rec' = [a \in Actions |-> Reaped(rec[a], down)]
    BY <1>3 DEF Reap
  <2>2. \A a \in Actions : rec'[a].status \in Undelivered <=> rec[a].status \in Undelivered
    BY <1>0, <2>1, ReapedEffect DEF Undelivered
  <2>3. Store!ReconcileStalledActions
    BY <2>1, <2>2, NothingHandedOut, SameOperators DEF Store!ReconcileStalledActions
  <2> QED BY <2>3 DEF Store!Next
<1>4. CASE Poll \/ Stream
  <2>1. rec' = [a \in Actions |-> Claimed(rec[a])]
    BY <1>4 DEF Poll, Stream, ClaimAll
  <2>2. \A a \in Actions : rec'[a].status \notin Undelivered
                             <=> rec[a].status \notin Undelivered \/ Claimable(rec[a])
    BY <1>0, <2>1, ClaimedEffect DEF Undelivered
  <2>3. HandedOut' = HandedOut \cup {a \in Actions : Claimable(rec[a])}
    BY <2>2 DEF HandedOut
  <2>4. Store!ClaimPendingRemediationActions
    BY <2>1, <2>3, SameOperators DEF Store!ClaimPendingRemediationActions
  <2> QED BY <2>4 DEF Store!Next
<1>5. ASSUME NEW a \in Actions, Create(a)
      PROVE  Store!Next
  <2>1. /\ rec[a].status = "ABSENT" /\ rec' = [rec EXCEPT ![a] = NewRecord]
        /\ NewRecord.status = "PENDING"
    BY <1>5 DEF Create, NewRecord
  <2>2. HandedOut' = HandedOut
    BY <1>0, <2>1, NothingHandedOut DEF Undelivered
  <2>3. Store!Create(a)
    BY <2>1, <2>2, SameOperators DEF Store!Create
  <2> QED BY <2>3 DEF Store!Next
<1>6. ASSUME NEW a \in Actions, Cancel(a)
      PROVE  Store!Next
  <2>1. Cancellable(rec[a]) /\ rec' = [rec EXCEPT ![a] = Cancelled(rec[a])]
    BY <1>6 DEF Cancel
  <2>2. HandedOut' = HandedOut
    BY <1>0, <2>1, CancellableStatus, NothingHandedOut DEF Undelivered
  <2>3. Store!CancelRemediationAction(a)
    BY <2>1, <2>2, SameOperators DEF Store!CancelRemediationAction
  <2> QED BY <2>3 DEF Store!Next
<1>7. ASSUME NEW d \in Drains, SendAcknowledged(d) \/ SendFails(d)
      PROVE  [Store!Next]_(Store!vars)
  <2>1. CASE UNCHANGED rec
    BY <1>1, <2>1
  <2>2. ASSUME NEW a \in HandedOut, NEW rep \in Report,
               rec' = [rec EXCEPT ![a] = Recorded(rec[a], rep)]
        PROVE  Store!Next
    <3>1. a \in Actions /\ rec[a] \in Record /\ rec[a].status \notin Undelivered
      BY <1>0, <2>2 DEF HandedOut
    <3>2. Recorded(rec[a], rep).status \notin Undelivered
      BY <3>1, RecordedEffect DEF Undelivered, ReportedStatus, InFlight
    <3>3. HandedOut' = HandedOut
      BY <1>0, <2>2, <3>1, <3>2, NothingHandedOut
    <3>4. Store!RecordRemediationResult(a, rep)
      BY <2>2, <3>3, SameOperators DEF Store!RecordRemediationResult
    <3> QED BY <3>1, <3>4, SameOperators DEF Store!Next
  <2> QED BY <1>7, <2>1, <2>2, SendReports
<1>8. ASSUME \/ Worker \/ AgentRestarts \/ UNCHANGED vars
             \/ \E d \in Drains : DrainBegins(d) \/ DrainAborts(d) \/ DrainEnds(d)
      PROVE  UNCHANGED rec
  <2>1. Worker => UNCHANGED rec
    BY WorkerShape DEF Take, Proceeds, Enter, Conclude
  <2> QED BY <1>8, <2>1 DEF AgentRestarts, DrainBegins, DrainAborts, DrainEnds, vars
<1> QED BY <1>1, <1>2, <1>3, <1>4, <1>5, <1>6, <1>7, <1>8 DEF Next

\* Whatever is lost, repeated, reordered or restarted between server and agent, the
\* records behave as ActionStore says: what it asks of agents, to report only what they
\* were handed, this agent does.
THEOREM ImplementsStoreTheorem == Spec => ImplementsStore
<1>1. Init => Store!Init
  <2> SUFFICES ASSUME Init PROVE Store!Init
    OBVIOUS
  <2>1. HandedOut = {}
    BY DEF Init, NoRecord, HandedOut, Undelivered
  <2> QED BY <2>1, SameOperators DEF Init, Store!Init
<1>2. TypeOK /\ Silent /\ [Next]_vars => [Store!Next]_(Store!vars)
  BY ImplementsStep
<1> QED BY <1>1, <1>2, TypeInvariant, SilentInvariant, PTL DEF Spec, ImplementsStore, Store!Spec

=============================================================================

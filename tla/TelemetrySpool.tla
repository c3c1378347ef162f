---------------------------- MODULE TelemetrySpool ----------------------------
(***************************************************************************)
(* The agent's telemetry path: the bounded queue (agent/internal/queue),   *)
(* the disk spool (agent/internal/spool) and the collector's goroutine     *)
(* (agent/internal/collector) that scrapes, flushes the queue to the       *)
(* backend, falls back to the spool and drains it later.  The agent may be *)
(* killed between any two steps.                                           *)
(*                                                                         *)
(* One number stands for everything a scrape observed; a scrape may also   *)
(* observe nothing.  Observations after MaxScrapes repeat the last number, *)
(* so that a run need not end there.                                       *)
(***************************************************************************)
EXTENDS Integers, Sequences, FiniteSets, SequencesExt

CONSTANTS
  Capacity,    \* QueueCapacity
  MaxSpool,    \* SpoolMaxBytes, one observation being one byte
  MaxBody,     \* the largest batch the backend's JSON parser accepts, in observations
  MaxScrapes,  \* bound: scrapes that are told apart
  MaxFaults    \* bound: kills, disk errors and corrupted files in one behaviour

ASSUME SpoolAssumption ==
  /\ Capacity \in Nat \ {0}
  /\ MaxSpool \in Nat
  /\ MaxBody \in Nat
  /\ MaxScrapes \in Nat \ {0}
  /\ MaxFaults \in Nat

VARIABLES
  scrapes,   \* scrapes so far that observed something
  queue,     \* BoundedQueue.items
  disk,      \* the .dat files, oldest first; "indexed" says that fileIndex has the file
  pc,        \* where the collector's goroutine is
  inflight,  \* the observations of the batch it holds
  up,        \* the backend can be reached, answers in time, and the breaker is closed
  applied,   \* observations the backend has received
  dropped,   \* history: observations given up for a reason the code names
  faults     \* faults so far

vars == <<scrapes, queue, disk, pc, inflight, up, applied, dropped, faults>>

Observation == 1 .. MaxScrapes
File == [items : Seq(Observation), bad : BOOLEAN, indexed : BOOLEAN]

TypeOK ==
  /\ scrapes \in 0 .. MaxScrapes
  /\ queue \in Seq(Observation) /\ Len(queue) <= Capacity
  /\ disk \in Seq(File)
  /\ pc \in {"down", "idle", "flushing", "spooling", "writing", "draining", "sending", "acking"}
  /\ inflight \in Seq(Observation) /\ Len(inflight) <= Capacity
  /\ up \in BOOLEAN
  /\ applied \subseteq Observation
  /\ dropped \subseteq Observation
  /\ faults \in 0 .. MaxFaults

Init ==
  /\ scrapes = 0 /\ queue = << >> /\ disk = << >>
  /\ pc = "idle" /\ inflight = << >> /\ up \in BOOLEAN
  /\ applied = {} /\ dropped = {} /\ faults = 0

-----------------------------------------------------------------------------
(* BoundedQueue and Spool, as functions of their contents.                 *)

\* Push evicts the oldest item of a full queue.
Evicted(q) == IF Len(q) >= Capacity THEN {Head(q)} ELSE {}

\* Mutant: eviction starts one item late.
PushedLate(q, x) == Append(IF Len(q) > Capacity THEN Tail(q) ELSE q, x)

Pushed(q, x) == Append(IF Len(q) >= Capacity THEN Tail(q) ELSE q, x)

\* RequeueFront puts a batch before what was queued since and keeps Capacity items.
Requeued(q, batch) == SubSeq(batch \o q, 1, IF Len(batch \o q) > Capacity
                                            THEN Capacity ELSE Len(batch \o q))

IsIndexed(f) == f.indexed
Indexed(d) == SelectSeq(d, IsIndexed)

SizeOf(d) == FoldSeq(LAMBDA f, n : Len(f.items) + n, 0, d)

\* The position on disk of the file that ReadOldestBatch reads; 0 if none.
OldestIndex(d) == SelectInSeq(d, IsIndexed)

\* pruneOldestLocked deletes indexed files, the oldest first, until this is false.
OverQuota(d, needed) == OldestIndex(d) # 0 /\ SizeOf(Indexed(d)) + needed > MaxSpool

\* The positions in a set, in increasing order.
InOrder(positions) ==
  {f \in Bijection(1 .. Cardinality(positions), positions) :
     \A i, j \in DOMAIN f : i < j => f[i] < f[j]}

OnDisk(d) == UNION {ToSet(d[i].items) : i \in 1 .. Len(d)}

\* A batch the backend answers with 413, however often it is sent.
Refused(batch) == Len(batch) > MaxBody

-----------------------------------------------------------------------------
(* The collector's loop: collectFromKubernetes, flushQueue, drainSpool.    *)

\* The scrape's observations, if it has any, are pushed and popped again as one batch.
CollectFound ==
  /\ pc = "idle"
  /\ LET now == IF scrapes < MaxScrapes THEN scrapes + 1 ELSE scrapes
     IN /\ scrapes' = now
        /\ inflight' = Pushed(queue, now)
        /\ dropped' = dropped \cup Evicted(queue)
  /\ queue' = << >>
  /\ pc' = "flushing"
  /\ UNCHANGED <<disk, up, applied, faults>>

\* A scrape without observations flushes what was requeued; with an empty queue
\* flushQueue returns at once, and no drain follows.
CollectNothing ==
  /\ pc = "idle" /\ queue # << >>
  /\ inflight' = queue /\ queue' = << >>
  /\ pc' = "flushing"
  /\ UNCHANGED <<scrapes, disk, up, applied, dropped, faults>>

\* Mutant: a direct upload does not start a drain.
SendFlushOnly ==
  /\ pc \in {"flushing", "sending"} /\ ~Refused(inflight)
  /\ applied' = applied \cup ToSet(inflight)
  /\ pc' = IF pc = "flushing" THEN "idle" ELSE "acking"
  /\ inflight' = IF pc = "flushing" THEN << >> ELSE inflight
  /\ UNCHANGED <<scrapes, queue, disk, up, dropped, faults>>

\* SendTelemetry succeeds: after a flush the spool is drained, in a drain the
\* file is acknowledged.
SendSucceeds ==
  /\ pc \in {"flushing", "sending"} /\ ~Refused(inflight)
  /\ applied' = applied \cup ToSet(inflight)
  /\ pc' = IF pc = "flushing" THEN "draining" ELSE "acking"
  /\ inflight' = IF pc = "flushing" THEN << >> ELSE inflight
  /\ UNCHANGED <<scrapes, queue, disk, up, dropped, faults>>

\* Mutant: a drain acknowledges the file although the upload failed.
SendFailsAcked ==
  /\ pc \in {"flushing", "sending"} /\ (~up \/ Refused(inflight))
  /\ applied' = applied
  /\ pc' = IF pc = "flushing" THEN "spooling" ELSE "acking"
  /\ UNCHANGED <<scrapes, queue, disk, inflight, up, dropped, faults>>

\* SendTelemetry fails: the backend refuses the batch, or the breaker is open,
\* the request was lost, or only its answer was (the backend has the batch and
\* will get it again).  A drain ends at the file that failed.
SendFails ==
  /\ pc \in {"flushing", "sending"} /\ (~up \/ Refused(inflight))
  /\ \/ applied' = applied
     \/ ~Refused(inflight) /\ applied' = applied \cup ToSet(inflight)
  /\ pc' = IF pc = "flushing" THEN "spooling" ELSE "idle"
  /\ inflight' = IF pc = "flushing" THEN inflight ELSE << >>
  /\ UNCHANGED <<scrapes, queue, disk, up, dropped, faults>>

\* WriteBatch first makes room.
PruneOldest ==
  /\ pc = "spooling"
  /\ IF OverQuota(disk, Len(inflight))
     THEN /\ dropped' = dropped \cup ToSet(disk[OldestIndex(disk)].items)
          /\ disk' = RemoveAt(disk, OldestIndex(disk))
          /\ UNCHANGED pc
     ELSE /\ pc' = "writing"
          /\ UNCHANGED <<disk, dropped>>
  /\ UNCHANGED <<scrapes, queue, inflight, up, applied, faults>>

\* Then it writes and syncs a .tmp file, renames it and appends to the index.
CommitFile ==
  /\ pc = "writing"
  /\ disk' = Append(disk, [items |-> inflight, bad |-> FALSE, indexed |-> TRUE])
  /\ pc' = "idle" /\ inflight' = << >>
  /\ UNCHANGED <<scrapes, queue, up, applied, dropped, faults>>

\* Mutant: a batch that cannot be written is forgotten.
WriteFailsForgotten ==
  /\ pc = "writing" /\ faults < MaxFaults
  /\ faults' = faults + 1
  /\ pc' = "idle" /\ inflight' = << >>
  /\ UNCHANGED <<scrapes, queue, disk, up, applied, dropped>>

\* A disk error: the batch goes back to the queue.
WriteFails ==
  /\ pc = "writing" /\ faults < MaxFaults
  /\ faults' = faults + 1
  /\ queue' = Requeued(queue, inflight)
  /\ pc' = "idle" /\ inflight' = << >>
  /\ UNCHANGED <<scrapes, disk, up, applied, dropped>>

\* ReadOldestBatch: nothing indexed, or a file that fails its checksum (it is
\* removed and the drain ends), or a batch.
ReadOldestBatch ==
  /\ pc = "draining"
  /\ LET i == OldestIndex(disk)
     IN \/ /\ i = 0
           /\ pc' = "idle"
           /\ UNCHANGED <<disk, inflight, dropped>>
        \/ /\ i # 0 /\ disk[i].bad
           /\ dropped' = dropped \cup ToSet(disk[i].items)
           /\ disk' = RemoveAt(disk, i)
           /\ pc' = "idle"
           /\ UNCHANGED inflight
        \/ /\ i # 0 /\ ~disk[i].bad
           /\ inflight' = disk[i].items
           /\ pc' = "sending"
           /\ UNCHANGED <<disk, dropped>>
  /\ UNCHANGED <<scrapes, queue, up, applied, faults>>

\* A file that cannot be opened leaves the index but stays on disk.
ReadFails ==
  /\ pc = "draining" /\ faults < MaxFaults
  /\ OldestIndex(disk) # 0
  /\ faults' = faults + 1
  /\ disk' = [disk EXCEPT ![OldestIndex(disk)].indexed = FALSE]
  /\ UNCHANGED <<scrapes, queue, pc, inflight, up, applied, dropped>>

\* AckBatch removes the file, or only its index entry when the disk fails.
AckBatch ==
  /\ pc = "acking"
  /\ \/ disk' = RemoveAt(disk, OldestIndex(disk)) /\ UNCHANGED faults
     \/ /\ faults < MaxFaults /\ faults' = faults + 1
        /\ disk' = [disk EXCEPT ![OldestIndex(disk)].indexed = FALSE]
  /\ pc' = "draining" /\ inflight' = << >>
  /\ UNCHANGED <<scrapes, queue, up, applied, dropped>>

\* The time-out of the whole drain; a backend that slow does not count as up.
DrainStops ==
  /\ pc = "draining" /\ ~up
  /\ pc' = "idle"
  /\ UNCHANGED <<scrapes, queue, disk, inflight, up, applied, dropped, faults>>

-----------------------------------------------------------------------------
(* Faults and the environment.                                             *)

\* What only memory held is given up; a file being written is at most a .tmp.  A batch
\* read from disk, or one the backend has although its answer is still to come, is not.
Crash ==
  /\ pc # "down" /\ faults < MaxFaults
  /\ faults' = faults + 1
  /\ dropped' = dropped \cup ((ToSet(queue) \cup ToSet(inflight)) \ (OnDisk(disk) \cup applied))
  /\ queue' = << >> /\ inflight' = << >>
  /\ pc' = "down"
  /\ UNCHANGED <<scrapes, disk, up, applied>>

\* NewSpool: .tmp files are purged, files with a bad header quarantined (a bad
\* payload shows only when it is read) and the rest is indexed; then Start drains.
Restart ==
  /\ pc = "down"
  /\ \E quarantined \in SUBSET {i \in 1 .. Len(disk) : disk[i].bad} :
       /\ \E kept \in InOrder((1 .. Len(disk)) \ quarantined) :
            disk' = [i \in DOMAIN kept |-> [disk[kept[i]] EXCEPT !.indexed = TRUE]]
       /\ dropped' = dropped \cup UNION {ToSet(disk[i].items) : i \in quarantined}
  /\ pc' = "draining"
  /\ UNCHANGED <<scrapes, queue, inflight, up, applied, faults>>

CorruptFile ==
  /\ faults < MaxFaults
  /\ faults' = faults + 1
  /\ \E i \in 1 .. Len(disk) : disk' = [disk EXCEPT ![i].bad = TRUE]
  /\ UNCHANGED <<scrapes, queue, pc, inflight, up, applied, dropped>>

BackendChanges ==
  /\ up' = ~up
  /\ UNCHANGED <<scrapes, queue, disk, pc, inflight, applied, dropped, faults>>

Collector ==
  \/ CollectFound \/ CollectNothing \/ SendSucceeds \/ SendFails \/ PruneOldest \/ CommitFile \/ WriteFails
  \/ ReadOldestBatch \/ ReadFails \/ AckBatch \/ DrainStops \/ Restart

Next == Collector \/ Crash \/ CorruptFile \/ BackendChanges

Spec == Init /\ [][Next]_vars

\* The collector is a loop on a ticker, and Kubernetes restarts a killed agent; but
\* nothing forces a scrape to observe something.
Busy == pc # "idle" \/ queue # << >>
FairSpec == Spec /\ WF_vars(Busy /\ Collector)

-----------------------------------------------------------------------------
(* Properties.                                                             *)

\* No observation vanishes: it is queued, in the batch at hand, on disk or at
\* the backend, unless the agent gave it up in one of the places the code names
\* (eviction by Push, the spool's quota, a failed checksum, quarantine), some of
\* them without a log line, or was killed before it wrote it.
Accounted ==
  1 .. scrapes \subseteq
    ToSet(queue) \cup ToSet(inflight) \cup OnDisk(disk) \cup applied \cup dropped

\* A file leaves the disk only when the backend has its observations or they
\* were given up: a crash between upload and acknowledgement repeats a batch
\* and never loses one.
FilesLeaveSafely ==
  [][OnDisk(disk) \subseteq OnDisk(disk') \cup applied' \cup dropped']_vars

\* While the backend stays reachable and flushes of batches it accepts go on, the
\* index is emptied again and again, except from a batch on that the backend
\* refuses: every drain ends at that one, and those behind it wait until the quota
\* prunes it.  Without a flush (scrapes that observe nothing) no drain starts.
SpoolDrains ==
  <>[]up /\ []<>(pc = "flushing" /\ ~Refused(inflight)) =>
    []<>(Indexed(disk) = << >> \/ Refused(Head(Indexed(disk)).items))

=============================================================================

----------------------- MODULE SnapshotReconciliation -----------------------
(***************************************************************************)
(* What the server concludes from an agent's scrapes: the resource view,   *)
(* the incidents and the verification of remediation actions, as           *)
(* DataStore.syncClusterResources (server/store.ts) derives them from each *)
(* telemetry batch, together with the collector that decides what a batch  *)
(* says and the spool that decides when it arrives.                        *)
(*                                                                         *)
(* Resource identity, fingerprints and detection rules are abstracted: a   *)
(* resource is seen "failing" or "healthy", and has one incident.  The     *)
(* receipt time that normalizeResource stamps on a resource is later than  *)
(* every completion already recorded, so the comparisons of updatedAt with *)
(* completedAt hold at every receipt and do not appear below.  Nor do the  *)
(* checks for stale batches: they read a sequence number and a timestamp   *)
(* that the telemetry endpoint does not pass on, and so reject nothing.    *)
(***************************************************************************)
EXTENDS Integers, Sequences, FiniteSets

CONSTANTS
  Resources,   \* the monitored workloads
  CoreKinds,   \* nodes, pods and deployments: the kinds snapshotComplete asks about
  OtherKinds,  \* the kinds it does not ask about
  KindOf,      \* the kind of each resource
  Early,       \* resources pushed to the queue before the others (nodes and pods)
  Owned,       \* pods with an owner reference
  QueueCapacity,    \* QueueCapacity of the agent
  MaxSpooled,  \* SpoolMaxBytes, in batches
  MaxChanges,  \* bound: changes of the cluster in one behaviour
  MaxFailures,   \* bound: failed scrapes and failed uploads in one behaviour
  MaxActions   \* bound: remediation actions in one behaviour

ASSUME ReconciliationAssumption ==
  /\ IsFiniteSet(Resources)
  /\ KindOf \in [Resources -> CoreKinds \cup OtherKinds]
  /\ CoreKinds \cap OtherKinds = {}
  /\ Early \subseteq Resources /\ Owned \subseteq Resources
  /\ {QueueCapacity, MaxSpooled} \subseteq Nat \ {0}
  /\ {MaxChanges, MaxFailures, MaxActions} \subseteq Nat

VARIABLES
  world,      \* the cluster: "absent", "failing" or "healthy"
  place,         \* the collector: "idle", "flush" or "drain"
  batch,      \* the batch that flushQueue holds
  spool,      \* batches on disk, oldest first
  view,       \* DataStore.resources, by state
  incident,   \* status of the resource's incident; "OPEN" is any active status
  action,     \* status of the incident's latest remediation action
  changes, failures, actions   \* what the bounds count

reconVars == <<world, place, batch, spool, view, incident, action, changes, failures, actions>>
server == <<view, incident, action>>

Kinds == CoreKinds \cup OtherKinds

(* items     what the batch says of each resource                          *)
(* complete  its snapshotComplete flag                                     *)
(* present   history: the resources the cluster had at the scrape          *)
(* predates  history: resources whose action succeeded after the scrape    *)
Batch == [items    : [Resources -> {"unseen", "failing", "healthy"}],
          complete : BOOLEAN,
          present  : SUBSET Resources,
          predates : SUBSET Resources]

NoBatch == [items    |-> [r \in Resources |-> "unseen"], complete |-> FALSE,
            present |-> {}, predates |-> {}]

ReconTypeOK ==
  /\ world \in [Resources -> {"absent", "failing", "healthy"}]
  /\ place \in {"idle", "flush", "drain"}
  /\ batch \in Batch
  /\ spool \in Seq(Batch) /\ Len(spool) <= MaxSpooled
  /\ view \in [Resources -> {"absent", "failing", "healthy"}]
  /\ incident \in [Resources -> {"none", "OPEN", "RESOLVED"}]
  /\ action \in [Resources -> {"none", "PENDING", "EXECUTING", "SUCCEEDED",
                               "VERIFIED_RESOLVED", "FAILED"}]
  /\ changes \in 0 .. MaxChanges /\ failures \in 0 .. MaxFailures /\ actions \in 0 .. MaxActions

ReconInit ==
  /\ world \in [Resources -> {"absent", "failing", "healthy"}]
  /\ place = "idle" /\ batch = NoBatch /\ spool = << >>
  /\ view = [r \in Resources |-> "absent"]
  /\ incident = [r \in Resources |-> "none"]
  /\ action = [r \in Resources |-> "none"]
  /\ changes = 0 /\ failures = 0 /\ actions = 0

-----------------------------------------------------------------------------
(* The cluster and the collector.                                          *)

WorldChanges ==
  /\ changes < MaxChanges
  /\ changes' = changes + 1
  /\ \E r \in Resources : \E s \in {"absent", "failing", "healthy"} \ {world[r]} :
       world' = [world EXCEPT ![r] = s]
  /\ UNCHANGED <<place, batch, spool, server, failures, actions>>

\* Observations the bounded queue loses: the oldest, as many as do not fit.
Evictions(seen) ==
  {e \in SUBSET seen :
     /\ Cardinality(e) = IF Cardinality(seen) > QueueCapacity THEN Cardinality(seen) - QueueCapacity ELSE 0
     /\ e \subseteq Early \/ seen \cap Early \subseteq e}

SnapshotComplete(failed) == failed \cap CoreKinds = {}

\* One scrape; the listing of some kinds may fail.
CollectFromKubernetes ==
  /\ place = "idle"
  /\ \E failed \in IF failures < MaxFailures THEN SUBSET Kinds ELSE {{}} :
       LET seen == {r \in Resources : world[r] # "absent" /\ KindOf[r] \notin failed}
       IN /\ failures' = IF failed = {} THEN failures ELSE failures + 1
          /\ \E evicted \in Evictions(seen) :
               batch' = [items    |-> [r \in Resources |-> IF r \in seen \ evicted
                                                           THEN world[r] ELSE "unseen"],
                         complete |-> SnapshotComplete(failed),
                         present  |-> {r \in Resources : world[r] # "absent"},
                         predates |-> {}]
          \* with nothing observed the queue is empty and nothing is sent
          /\ place' = IF seen = {} THEN "idle" ELSE "flush"
  /\ UNCHANGED <<world, spool, server, changes, actions>>

-----------------------------------------------------------------------------
(* syncClusterResources, as operators on the batch b it receives.          *)

\* Mutant: a partial batch replaces the view as well.
ViewReplaced(b) ==
  [r \in Resources |-> IF b.items[r] # "unseen" THEN b.items[r] ELSE "absent"]

\* A complete batch replaces the view; another is merged into it.
ViewAfter(b) ==
  [r \in Resources |-> IF b.items[r] # "unseen" THEN b.items[r]
                       ELSE IF b.complete THEN "absent" ELSE view[r]]

\* Mutant: without an action nothing is proved, and the incident stays.
CanResolveOnlyAfterSuccess(r) == action[r] = "SUCCEEDED"

\* canResolveFromTelemetry: no action at all, or one that has succeeded.
CanResolveFromTelemetry(r) == action[r] \in {"none", "SUCCEEDED"}

\* Mutant: deletion is inferred from a partial scrape too.
CleanedAnyway(b, r) ==
  incident[r] = "OPEN" /\ b.items[r] = "unseen" /\ action[r] # "PENDING" /\ r \notin Owned

\* The auto-clean loop: the incident's resource is taken to be deleted.
Cleaned(b, r) ==
  /\ incident[r] = "OPEN"
  /\ b.items[r] = "unseen" /\ b.complete
  /\ action[r] # "PENDING" /\ r \notin Owned

Recovered(b, r) ==
  b.items[r] = "healthy" /\ incident[r] = "OPEN" /\ CanResolveFromTelemetry(r)

\* Mutant: a resolved incident is not reopened.
IncidentsWithoutReopening(b) ==
  [r \in Resources |->
     IF b.items[r] = "failing" /\ incident[r] = "none" THEN "OPEN"
     ELSE IF Recovered(b, r) \/ Cleaned(b, r) THEN "RESOLVED" ELSE incident[r]]

\* evaluateResourceObservation creates, keeps or reopens the incident of a
\* failing resource and resolves that of a recovered one.
IncidentsAfter(b) ==
  [r \in Resources |->
     IF b.items[r] = "failing" THEN "OPEN"
     ELSE IF Recovered(b, r) \/ Cleaned(b, r) THEN "RESOLVED" ELSE incident[r]]

\* The verification loop: healthy verifies an action that succeeded; failing
\* leaves it so or, as verifyTelemetry finds for some actions, fails it.
ActionsAfter(b) ==
  {a \in [Resources -> {"none", "PENDING", "EXECUTING", "SUCCEEDED", "VERIFIED_RESOLVED", "FAILED"}] :
     \A r \in Resources :
       IF action[r] # "SUCCEEDED" \/ b.items[r] = "unseen" THEN a[r] = action[r]
       ELSE IF b.items[r] = "healthy" THEN a[r] = "VERIFIED_RESOLVED"
       ELSE a[r] \in {"SUCCEEDED", "FAILED"}}

SyncClusterResources(b) ==
  /\ view' = ViewAfter(b)
  /\ incident' = IncidentsAfter(b)
  /\ action' \in ActionsAfter(b)

-----------------------------------------------------------------------------
(* Uploads.                                                                *)

\* Mutant: nothing is pruned.
SpooledUnpruned(s, b) == Append(s, b)

\* WriteBatch prunes the oldest batch of a full spool.
Spooled(s, b) == Append(IF Len(s) = MaxSpooled THEN Tail(s) ELSE s, b)

FlushSucceeds ==
  /\ place = "flush"
  /\ SyncClusterResources(batch)
  /\ UNCHANGED spool
  /\ place' = "drain" /\ batch' = NoBatch
  /\ UNCHANGED <<world, changes, failures, actions>>

\* The upload fails, or its answer is lost or late and the server has the batch.
FlushFails ==
  /\ place = "flush" /\ failures < MaxFailures
  /\ failures' = failures + 1
  /\ spool' = Spooled(spool, batch)
  /\ \/ UNCHANGED server
     \/ SyncClusterResources(batch)
  /\ place' = "idle" /\ batch' = NoBatch
  /\ UNCHANGED <<world, changes, actions>>

\* Mutant: a drain leaves the batch it uploaded on disk.
DrainWithoutAck ==
  /\ place = "drain" /\ spool # << >>
  /\ SyncClusterResources(Head(spool))
  /\ UNCHANGED <<world, place, batch, spool, changes, failures, actions>>

DrainSucceeds ==
  /\ place = "drain" /\ spool # << >>
  /\ SyncClusterResources(Head(spool))
  /\ spool' = Tail(spool)
  /\ UNCHANGED <<world, place, batch, changes, failures, actions>>

DrainFails ==
  /\ place = "drain" /\ spool # << >> /\ failures < MaxFailures
  /\ failures' = failures + 1
  /\ place' = "idle"
  /\ UNCHANGED <<world, batch, spool, server, changes, actions>>

DrainEnds ==
  /\ place = "drain" /\ spool = << >>
  /\ place' = "idle"
  /\ UNCHANGED <<world, batch, spool, server, changes, failures, actions>>

-----------------------------------------------------------------------------
(* Remediation actions, as far as reconciliation sees them.                *)

\* An action is approved for an active incident without an active action.
Dispatch(r) ==
  /\ actions < MaxActions /\ actions' = actions + 1
  /\ incident[r] = "OPEN"
  /\ action[r] \in {"none", "VERIFIED_RESOLVED", "FAILED"}
  /\ action' = [action EXCEPT ![r] = "PENDING"]
  /\ UNCHANGED <<world, place, batch, spool, view, incident, changes, failures>>

ReportExecuting(r) ==
  /\ action[r] = "PENDING"
  /\ action' = [action EXCEPT ![r] = "EXECUTING"]
  /\ UNCHANGED <<world, place, batch, spool, view, incident, changes, failures, actions>>

\* recordRemediationResult, success: applyLiveResourceMutation may already show
\* the resource healthy, or a restarted pod without an owner gone.
ReportSucceeded(r) ==
  /\ action[r] = "EXECUTING"
  /\ action' = [action EXCEPT ![r] = "SUCCEEDED"]
  /\ view' \in {view} \cup (IF view[r] = "absent" THEN {}
                            ELSE {[view EXCEPT ![r] = s] : s \in {"healthy", "absent"}})
  /\ batch' = [batch EXCEPT !.predates = IF place = "flush" THEN @ \cup {r} ELSE @]
  /\ spool' = [i \in DOMAIN spool |-> [spool[i] EXCEPT !.predates = @ \cup {r}]]
  /\ UNCHANGED <<world, place, incident, changes, failures, actions>>

\* A failure report, a timeout, an expiry or a cancellation.
EndAction(r) ==
  /\ action[r] \in {"PENDING", "EXECUTING"}
  /\ action' = [action EXCEPT ![r] = "FAILED"]
  /\ UNCHANGED <<world, place, batch, spool, view, incident, changes, failures, actions>>

CollectorLoop == CollectFromKubernetes \/ FlushSucceeds \/ FlushFails \/ DrainSucceeds \/ DrainFails \/ DrainEnds

ReconNext ==
  \/ WorldChanges
  \/ CollectorLoop
  \/ \E r \in Resources :
       Dispatch(r) \/ ReportExecuting(r) \/ ReportSucceeded(r) \/ EndAction(r)

ReconSpec == ReconInit /\ [][ReconNext]_reconVars

\* The collector's loop keeps running, and an upload tried for ever succeeds:
\* failures are bounded, and every dispatched action is given up at some point.
FairRecon ==
  /\ ReconSpec
  /\ WF_reconVars(CollectorLoop)
  /\ \A r \in Resources : WF_reconVars(EndAction(r) \/ ReportSucceeded(r))

-----------------------------------------------------------------------------
(* Properties.                                                             *)

\* The batch whose upload is under way.
Sending == IF place = "flush" THEN batch ELSE Head(spool)

\* "Never infer deletion from a partial/failed scrape": an incident whose resource
\* a batch did not see is closed, and a resource leaves the view, only if the
\* cluster had lost it when it was scraped, or a restarted pod's action succeeds.
\* The code keeps this for the kinds snapshotComplete asks about and for scrapes
\* that fit into the agent's queue.
DeletionOnlyIfGone ==
  [][\A r \in Resources :
       /\ KindOf[r] \in CoreKinds /\ action'[r] = action[r]
       /\ \/ incident[r] = "OPEN" /\ incident'[r] = "RESOLVED" /\ Sending.items[r] = "unseen"
          \/ view[r] # "absent" /\ view'[r] = "absent"
       /\ Cardinality(Sending.present) <= QueueCapacity
       => r \notin Sending.present]_reconVars

\* Once the cluster and the network are quiet, a workload that keeps failing has
\* an active incident for good, whatever older batches said in between.
FailingIsReported ==
  \A r \in Resources :
    <>[](world[r] = "failing") => <>[](incident[r] = "OPEN")

\* Once they are quiet, the view of an existing workload is what the cluster is.
ViewConverges ==
  \A r \in Resources :
    /\ <>[](world[r] = "failing") => <>[](view[r] = "failing")
    /\ <>[](world[r] = "healthy") => <>[](view[r] = "healthy")

\* "The workload recovers. The incident is automatically marked RESOLVED": the
\* incident of a workload that stays healthy is closed for good, whatever older
\* batches are replayed, if it has no action of its own.  With one that did not
\* succeed it stays open: canResolveFromTelemetry refuses.
RecoveryCloses ==
  \A r \in Resources :
    <>[](world[r] = "healthy" /\ action[r] = "none") => <>[](incident[r] # "OPEN")

(* What comments of the repository say, and the code does not do.           *)

\* "observed after the action completion timestamp": the batch that verifies an
\* action was scraped after the action had succeeded.
VerifiedByFreshTelemetry ==
  [][\A r \in Resources :
       action[r] = "SUCCEEDED" /\ action'[r] = "VERIFIED_RESOLVED" =>
         r \notin Sending.predates]_reconVars
=============================================================================

--------------------------- MODULE RemediationEngine ---------------------------
(***************************************************************************)
(* The remediation engine of the backend (DataStore, server/store.ts):     *)
(* incidents, their remediation proposals, every way an action comes into  *)
(* being, the target lock, the agent's reports and the closed loop that    *)
(* verifies a success from telemetry.  The records of the actions behave   *)
(* as ActionStore says: Store!Spec, below.                                 *)
(*                                                                         *)
(* Whether a target is in the telemetry, a proposal is executable, a rate  *)
(* is reached or a value is stale is data that is not kept here: a handler *)
(* that such a check refuses changes nothing, so it simply does not occur. *)
(* An operator may switch the policy's mode between any two handlers, so a *)
(* handler that reads it finds either one.                                 *)
(* OPEN, ACKNOWLEDGED and IN_PROGRESS are one status, ACTIVE: no handler    *)
(* tells them apart.  Simulated clusters are left out.                     *)
(***************************************************************************)
EXTENDS ActionRecord, FiniteSets

CONSTANTS
  Actions,      \* identifiers of remediation actions
  None,         \* no action
  Incidents,    \* identifiers of incidents, and of resource operations
  Operations,   \* the latter: "op-..." identifiers that no incident has
  IncidentOf,   \* the incident or operation an action belongs to
  TargetOf,     \* the Kubernetes resource an action changes
  ContainerOf,  \* the container of that resource an action names
  NoContainer,  \* the action names none, as those of a resource operation
  Workloads,    \* targets that are Deployments, StatefulSets or DaemonSets
  Reversible,   \* actions of a type that has a rollback plan
  MaxAttempts,  \* maxAttemptsPerIncident of the policy
  MaxActions,   \* bound: actions before which another one may be created
  MaxReports    \* bound: reports that reach the backend in one behaviour

ASSUME EngineAssumption ==
  /\ IsFiniteSet(Actions) /\ None \notin Actions
  /\ Operations \subseteq Incidents
  /\ IncidentOf \in [Actions -> Incidents]
  /\ Reversible \subseteq Actions
  /\ MaxAttempts \in Nat /\ MaxActions \in Nat /\ MaxReports \in Nat

VARIABLES
  acts,        \* remediationActions
  handed,      \* actions that some claim has answered with
  reports,     \* number of reports received so far
  path,        \* the operation that created an action
  latest,      \* the newest action of an incident, by createdAt
  incident,    \* the incidents' statuses
  proposal,    \* remediations: the status of an incident's proposal
  reversing,   \* isRollback of the proposal
  paused,      \* autoHealingDisabled
  failures,    \* incidentFailures, not counted beyond MaxAttempts
  lapsed,      \* history: actions that gave up the lock other than for good
  disturbed    \* history: incidents whose proposal was replaced or declined, or
               \* given another action, before an action had come to its end

records == <<acts, handed, reports>>
dialogue == <<incident, proposal, reversing, failures>>
history == <<lapsed, disturbed>>
vars == <<records, path, latest, dialogue, paused, history>>

\* Approval and manual heal, which ask for the same locks, are one: "operator".
Path == {"operator", "autonomous", "autoHeal", "reversal", "image", "operation"}

IncidentStatus == {"ABSENT", "ACTIVE", "RESOLVED", "CLOSED", "DELETED"}

ProposalStatus ==
  {"NONE", "PROPOSED", "REJECTED", "DISPATCHED", "EXECUTING", "VERIFYING", "EXECUTED", "FAILED",
   "ROLLING_BACK", "ROLLED_BACK", "VERIFICATION_FAILED", "VERIFIED_RESOLVED"}

TypeOK ==
  /\ acts \in [Actions -> Record]
  /\ handed \subseteq Actions
  /\ reports \in 0 .. MaxReports
  /\ path \in [Actions -> Path \cup {"none"}]
  /\ latest \in [Incidents -> Actions \cup {None}]
  /\ \A i \in Incidents : latest[i] # None => IncidentOf[latest[i]] = i
  /\ incident \in [Incidents -> IncidentStatus]
  /\ proposal \in [Incidents -> ProposalStatus]
  /\ reversing \in [Incidents -> BOOLEAN]
  /\ paused \in [Incidents -> BOOLEAN]
  /\ failures \in [Incidents -> 0 .. MaxAttempts]
  /\ lapsed \subseteq Actions
  /\ disturbed \subseteq Incidents

Init ==
  /\ acts = [a \in Actions |-> NoRecord] /\ handed = {} /\ reports = 0
  /\ path = [a \in Actions |-> "none"]
  /\ latest = [i \in Incidents |-> None]
  /\ incident = [i \in Incidents |-> "ABSENT"]
  /\ proposal = [i \in Incidents |-> "NONE"]
  /\ reversing = [i \in Incidents |-> FALSE]
  /\ paused = [i \in Incidents |-> FALSE]
  /\ failures = [i \in Incidents |-> 0]
  /\ lapsed = {} /\ disturbed = {}

-----------------------------------------------------------------------------
(* What the handlers ask of the state.                                     *)

Known == {"ACTIVE", "RESOLVED", "CLOSED"}

ActionsOf(i) == {a \in Actions : IncidentOf[a] = i /\ acts[a].status # "ABSENT"}

\* Two actions change the same thing: the target as a whole if it is a workload or one
\* of them names no container, and otherwise the container both name.
Contend(a, b) ==
  /\ TargetOf[a] = TargetOf[b]
  /\ \/ TargetOf[a] \in Workloads
     \/ NoContainer \in {ContainerOf[a], ContainerOf[b]}
     \/ ContainerOf[a] = ContainerOf[b]

\* hasActiveTargetRemediation: the statuses that hold the lock of a target.
LockHolding == {"PENDING", "DELIVERED", "EXECUTING", "SUCCEEDED", "VERIFYING"}

Holds(a) == acts[a].status \in LockHolding

\* Mutant: a reported success no longer holds the lock.
TargetBusyUntilExecuted(a) ==
  \E b \in Actions : Holds(b) /\ acts[b].status # "SUCCEEDED" /\ Contend(a, b)

TargetBusy(a) == \E b \in Actions : Holds(b) /\ Contend(a, b)

IncidentBusy(i) == \E b \in ActionsOf(i) : Holds(b)

\* The incidents among these with an action that has not come to its end.
Unsettled(is) == {i \in is : \E a \in ActionsOf(i) : acts[a].status \notin Settled}

\* The action can be reversed.
RollbackPlanned(a) == a \in Reversible /\ path[a] # "reversal"

\* An action that reverses another one changes what that one changed.
Reverses(a, b) == TargetOf[a] = TargetOf[b] /\ ContainerOf[a] = ContainerOf[b]

\* An identifier that a new action can have.
Unused(a) ==
  /\ acts[a].status = "ABSENT"
  /\ Cardinality({b \in Actions : acts[b].status # "ABSENT"}) < MaxActions

-----------------------------------------------------------------------------
(* Incidents and proposals.                                                *)

CreateIncident(i) ==
  /\ i \notin Operations /\ incident[i] = "ABSENT"
  /\ incident' = [incident EXCEPT ![i] = "ACTIVE"]
  /\ UNCHANGED <<records, path, latest, proposal, reversing, failures, paused, history>>

\* The analysis is awaited, so the incident may have been deleted, and its
\* proposal dispatched, since it was asked for.
SaveAIAnalysis(i, succeeded) ==
  /\ incident[i] # "ABSENT"
  /\ succeeded \/ proposal[i] = "PROPOSED"
  /\ proposal' = [proposal EXCEPT ![i] = IF succeeded THEN "PROPOSED" ELSE "NONE"]
  /\ reversing' = [reversing EXCEPT ![i] = FALSE]
  /\ disturbed' = disturbed \cup Unsettled({i})
  /\ UNCHANGED <<records, path, latest, incident, failures, paused, lapsed>>

RejectRemediation(i) ==
  /\ incident[i] \in Known /\ proposal[i] # "NONE"
  /\ proposal' = [proposal EXCEPT ![i] = "REJECTED"]
  /\ disturbed' = disturbed \cup Unsettled({i})
  /\ UNCHANGED <<records, path, latest, incident, reversing, failures, paused, lapsed>>

\* updateIncident with status RESOLVED.
ResolveManually(i) ==
  /\ incident[i] \in Known \ {"RESOLVED"}
  /\ \A a \in ActionsOf(i) : acts[a].status \notin {"PENDING", "DELIVERED", "SUCCEEDED"}
  /\ proposal[i] \notin {"DISPATCHED", "EXECUTED", "VERIFYING"}
  /\ incident' = [incident EXCEPT ![i] = "RESOLVED"]
  /\ UNCHANGED <<records, path, latest, proposal, reversing, failures, paused, history>>

\* updateIncident with any other status.
UpdateIncident(i, status) ==
  /\ incident[i] \in Known \ {status} /\ status # "RESOLVED"
  /\ incident' = [incident EXCEPT ![i] = status]
  /\ UNCHANGED <<records, path, latest, proposal, reversing, failures, paused, history>>

\* deleteIncident, or clearAllIncidents: the actions stay.
DeleteIncidents(gone) ==
  /\ incident' = [i \in Incidents |-> IF i \in gone THEN "DELETED" ELSE incident[i]]
  /\ proposal' = [i \in Incidents |-> IF i \in gone THEN "NONE" ELSE proposal[i]]
  /\ reversing' = [i \in Incidents |-> reversing[i] /\ i \notin gone]
  /\ disturbed' = disturbed \cup Unsettled(gone)
  /\ UNCHANGED <<records, path, latest, failures, paused, lapsed>>

-----------------------------------------------------------------------------
(* Dispatch.                                                               *)

\* The new action is PENDING, its incident is being worked on.
Dispatch(a, by) ==
  /\ acts' = [acts EXCEPT ![a] = NewRecord]
  /\ path' = [path EXCEPT ![a] = by]
  /\ latest' = [latest EXCEPT ![IncidentOf[a]] = a]
  /\ incident' = [incident EXCEPT ![IncidentOf[a]] = "ACTIVE"]
  /\ proposal' = [proposal EXCEPT ![IncidentOf[a]] = "DISPATCHED"]
  /\ disturbed' = disturbed \cup Unsettled({IncidentOf[a]})
  /\ UNCHANGED <<handed, reports, failures, lapsed>>

ApproveRemediation(a) ==
  LET i == IncidentOf[a]
  IN /\ incident[i] = "ACTIVE" /\ proposal[i] \in {"PROPOSED", "REJECTED"}
     /\ Unused(a) /\ ~TargetBusy(a) /\ ~IncidentBusy(i)
     /\ Dispatch(a, "operator")
     /\ UNCHANGED <<reversing, paused>>

\* Manual heal takes the incident over, whatever its proposal says.
TriggerManualHeal(a) ==
  LET i == IncidentOf[a]
  IN /\ incident[i] = "ACTIVE"
     /\ Unused(a) /\ ~TargetBusy(a) /\ ~IncidentBusy(i)
     /\ Dispatch(a, "operator")
     /\ UNCHANGED <<reversing, paused>>

\* evaluateAutonomousRemediation dispatches: it asks for the lock of the target
\* only, and not for the incident's status.
DispatchAutonomously(a) ==
  /\ failures[IncidentOf[a]] < MaxAttempts
  /\ Unused(a) /\ ~TargetBusy(a)
  /\ Dispatch(a, "autonomous")

\* A new proposal, evaluated at once.
SaveRemediation(i) ==
  /\ incident[i] \in Known
  /\ reversing' = [reversing EXCEPT ![i] = FALSE]
  /\ disturbed' = disturbed \cup Unsettled({i})
  /\ \/ /\ proposal' = [proposal EXCEPT ![i] = "PROPOSED"]
        /\ UNCHANGED <<records, path, latest, incident, failures, paused, lapsed>>
     \/ /\ ~paused[i]
        /\ \E a \in Actions : IncidentOf[a] = i /\ DispatchAutonomously(a)
        /\ UNCHANGED paused

\* Mutant: pausing leaves what still waits.
PauseOnly(i) ==
  /\ incident[i] \in Known
  /\ paused' = [paused EXCEPT ![i] = TRUE]
  /\ UNCHANGED <<records, path, latest, dialogue, history>>

\* Mutant: pausing also cancels what an agent may already be running.
PauseDelivered(i) ==
  /\ incident[i] \in Known
  /\ paused' = [paused EXCEPT ![i] = TRUE]
  /\ acts' = [a \in Actions |-> IF IncidentOf[a] = i /\ acts[a].status \in {"PENDING", "DELIVERED"}
                                THEN Cancelled(acts[a]) ELSE acts[a]]
  /\ UNCHANGED <<handed, reports, path, latest, dialogue, history>>

\* Operator and policy alike: what still waits is cancelled, the proposal stays.
DisableIncidentAutoHealing(i) ==
  /\ incident[i] \in Known
  /\ paused' = [paused EXCEPT ![i] = TRUE]
  /\ acts' = [a \in Actions |-> IF IncidentOf[a] = i /\ acts[a].status = "PENDING"
                                THEN Cancelled(acts[a]) ELSE acts[a]]
  /\ UNCHANGED <<handed, reports, path, latest, dialogue, history>>

EnableIncidentAutoHealing(i) ==
  /\ incident[i] \in Known
  /\ paused' = [paused EXCEPT ![i] = FALSE]
  /\ \/ UNCHANGED <<records, path, latest, dialogue, history>>
     \/ /\ proposal[i] = "PROPOSED"
        /\ \E a \in Actions : IncidentOf[a] = i /\ DispatchAutonomously(a)
        /\ UNCHANGED reversing

\* approvePodImageReplacement asks for no lock; an incident without a proposal
\* stays without one.
ApprovePodImageReplacement(a) ==
  LET i == IncidentOf[a]
  IN /\ incident[i] \in Known /\ Unused(a)
     /\ acts' = [acts EXCEPT ![a] = NewRecord]
     /\ path' = [path EXCEPT ![a] = "image"]
     /\ latest' = [latest EXCEPT ![i] = a]
     /\ incident' = [incident EXCEPT ![i] = "ACTIVE"]
     /\ proposal' = [proposal EXCEPT ![i] = IF @ = "NONE" THEN @ ELSE "DISPATCHED"]
     /\ disturbed' = disturbed \cup Unsettled({i})
     /\ UNCHANGED <<handed, reports, reversing, failures, paused, lapsed>>

\* rollbackRemediation reverses the newest action, and asks for no lock either.
RollbackRemediation(a) ==
  LET i == IncidentOf[a]
  IN /\ incident[i] \in Known /\ proposal[i] # "NONE"
     /\ latest[i] # None /\ RollbackPlanned(latest[i]) /\ Reverses(a, latest[i])
     /\ Unused(a)
     /\ Dispatch(a, "reversal")
     /\ reversing' = [reversing EXCEPT ![i] = TRUE]
     /\ UNCHANGED paused

\* An operation on a resource has no incident and no proposal, and its own idea
\* of what is in progress: a success awaiting verification does not count, and
\* containers are not told apart.
ExecuteClusterResourceOperation(a) ==
  /\ IncidentOf[a] \in Operations /\ ActionsOf(IncidentOf[a]) = {} /\ Unused(a)
  /\ \A b \in Actions :
       TargetOf[b] = TargetOf[a] => acts[b].status \notin LockHolding \ {"SUCCEEDED"}
  /\ acts' = [acts EXCEPT ![a] = NewRecord]
  /\ path' = [path EXCEPT ![a] = "operation"]
  /\ latest' = [latest EXCEPT ![IncidentOf[a]] = a]
  /\ UNCHANGED <<handed, reports, dialogue, paused, history>>

\* executeAutoHeal for some active incidents (one, those of a cluster, or all):
\* the actions are recorded as succeeded, and the incidents resolved, at once.
ExecuteAutoHeal(healed) ==
  /\ healed # {}
  /\ \A a \in healed : Unused(a) /\ incident[IncidentOf[a]] = "ACTIVE"
  /\ \A a, b \in healed : IncidentOf[a] = IncidentOf[b] => a = b
  /\ acts' = [a \in Actions |-> IF a \in healed THEN [status |-> "SUCCEEDED", age |-> 0] ELSE acts[a]]
  /\ path' = [a \in Actions |-> IF a \in healed THEN "autoHeal" ELSE path[a]]
  /\ LET of(i) == {a \in healed : IncidentOf[a] = i}
     IN /\ latest' = [i \in Incidents |-> IF of(i) = {} THEN latest[i] ELSE CHOOSE a \in of(i) : TRUE]
        /\ incident' = [i \in Incidents |-> IF of(i) = {} THEN incident[i] ELSE "RESOLVED"]
        /\ proposal' = [i \in Incidents |-> IF of(i) = {} THEN proposal[i] ELSE "VERIFIED_RESOLVED"]
  /\ disturbed' = disturbed \cup Unsettled({IncidentOf[a] : a \in healed})
  /\ UNCHANGED <<handed, reports, reversing, failures, paused, lapsed>>

-----------------------------------------------------------------------------
(* Delivery, reports and the end of an action.                             *)

ClaimPendingRemediationActions ==
  /\ acts' = [a \in Actions |-> Claimed(acts[a])]
  /\ handed' = handed \cup {a \in Actions : Claimable(acts[a])}
  /\ UNCHANGED <<reports, path, latest, dialogue, paused, history>>

\* Mutant: the agent's word closes the loop.
ReportedAsVerified(rep) ==
  CASE rep.state \in {"RUNNING", "EXECUTING"} -> "EXECUTING"
    [] rep.state \in {"VERIFYING", "ROLLING_BACK", "ROLLED_BACK"} -> rep.state
    [] OTHER -> IF ReportsSuccess(rep) THEN "VERIFIED_RESOLVED" ELSE "FAILED"

\* What a report makes of the proposal, whichever action it is about.
ReportedProposal(rep) ==
  CASE rep.state \in {"RUNNING", "EXECUTING"} -> "EXECUTING"
    [] rep.state \in {"VERIFYING", "ROLLING_BACK", "ROLLED_BACK"} -> rep.state
    [] OTHER -> IF ReportsSuccess(rep) THEN "EXECUTED" ELSE "FAILED"

\* Mutant: failures are not counted.
CountedNever(n) == n

Counted(n) == IF n < MaxAttempts THEN n + 1 ELSE n

RecordRemediationResult(a, rep) ==
  LET i == IncidentOf[a]
      refused == acts[a].status \in ReportGuarded
  IN /\ a \in handed /\ reports < MaxReports
     /\ reports' = reports + 1
     /\ acts' = [acts EXCEPT ![a] = Recorded(@, rep)]
     /\ proposal' = [proposal EXCEPT ![i] = IF refused \/ @ = "NONE" THEN @ ELSE ReportedProposal(rep)]
     /\ failures' = [failures EXCEPT ![i] = IF ~refused /\ rep.state \notin UnderWay /\ ~ReportsSuccess(rep)
                                            THEN Counted(@) ELSE @]
     /\ lapsed' = lapsed \cup {b \in {a} : acts'[b].status = "ROLLING_BACK"}
     /\ UNCHANGED <<handed, path, latest, incident, reversing, paused, disturbed>>

CancelRemediationAction(a) ==
  LET i == IncidentOf[a]
  IN /\ Cancellable(acts[a]) /\ incident[i] \in Known
     /\ acts' = [acts EXCEPT ![a] = Cancelled(@)]
     /\ proposal' = [proposal EXCEPT ![i] = IF @ \in {"DISPATCHED", "PROPOSED"} THEN "REJECTED" ELSE @]
     /\ UNCHANGED <<handed, reports, path, latest, incident, reversing, failures, paused, history>>

\* The reaper changes the record alone: neither the proposal nor the incident
\* nor the count of failures learns of it.
ReconcileStalledActions ==
  /\ \E agentDown \in BOOLEAN : acts' = [a \in Actions |-> Reaped(acts[a], agentDown)]
  /\ UNCHANGED <<handed, reports, path, latest, dialogue, paused, history>>

Tick ==
  /\ acts' = [a \in Actions |-> Older(acts[a])]
  /\ UNCHANGED <<handed, reports, path, latest, dialogue, paused, history>>

-----------------------------------------------------------------------------
(* The handler of a telemetry batch, syncClusterResources: the detection   *)
(* rules first, then the closed loop over the proposals.                   *)

\* canResolveFromTelemetry, the observation being fresh enough.
ResolvableFromTelemetry(i) ==
  \/ ActionsOf(i) = {}
  \/ \E a \in ActionsOf(i) : acts[a].status = "SUCCEEDED"

\* Incidents that a failing resource opens or reopens.
Openable == {i \in Incidents \ Operations : incident[i] \in {"ABSENT", "RESOLVED"}}

\* Incidents that a recovered resource closes, or one that a complete snapshot leaves
\* out and no controller owns.
Closable ==
  {i \in Incidents \ Operations :
     /\ incident[i] = "ACTIVE"
     /\ \/ ResolvableFromTelemetry(i)
        \/ \A a \in ActionsOf(i) : acts[a].status \notin {"PENDING", "DELIVERED"}}

Observed(i, opened, closed) ==
  CASE i \in opened -> "ACTIVE" [] i \in closed -> "RESOLVED" [] OTHER -> incident[i]

InClosedLoop(i) == proposal[i] \in {"DISPATCHED", "EXECUTED", "VERIFYING"} /\ latest[i] # None

AwaitsVerdict(i) == InClosedLoop(i) /\ acts[latest[i]].status = "SUCCEEDED"

\* The reversal that a failed verification asks for: rollbackRemediation, whose refusal
\* (the incident was deleted) is caught.
RevertsItself(i, verdict, autonomous) ==
  /\ verdict = "VERIFICATION_FAILED" /\ incident[i] \in Known
  /\ autonomous \/ path[latest[i]] = "autonomous"
  /\ RollbackPlanned(latest[i])

JudgedProposal(i, verdict, autonomous) ==
  CASE ~InClosedLoop(i) -> proposal[i]
    [] acts[latest[i]].status = "FAILED" -> "FAILED"
    [] verdict = "VERIFIED" -> IF reversing[i] \/ path[latest[i]] = "reversal"
                               THEN "ROLLED_BACK" ELSE "VERIFIED_RESOLVED"
    [] verdict = "VERIFICATION_FAILED" ->
         IF RevertsItself(i, verdict, autonomous) THEN "DISPATCHED" ELSE "VERIFICATION_FAILED"
    [] verdict = "VERIFYING" \/ proposal[i] = "EXECUTED" \/ AwaitsVerdict(i) -> "VERIFYING"
    [] OTHER -> proposal[i]

\* opened, closed: incidents for what the batch shows of their resources; fresh: what verifyTelemetry
\* says of the newest actions that the batch holds an observation for, made
\* after they were completed; reversals: the actions that revert some of them.
SyncClusterResources(opened, closed, fresh, autonomous, reversals) ==
  LET verdict == [i \in Incidents |-> IF i \in DOMAIN fresh THEN fresh[i] ELSE "NONE"]
      judged == {a \in Actions : latest[IncidentOf[a]] = a /\ verdict[IncidentOf[a]] \in Verdict}
      reverted == {i \in Incidents : RevertsItself(i, verdict[i], autonomous)}
  IN /\ \A i \in reverted : \E a \in reversals :
          IncidentOf[a] = i /\ Reverses(a, latest[i])
     /\ \A a, b \in reversals : IncidentOf[a] \in reverted /\ (IncidentOf[a] = IncidentOf[b] => a = b)
     /\ acts' = [a \in Actions |->
                   CASE a \in judged -> Verified(acts[a], verdict[IncidentOf[a]],
                                                 reversing[IncidentOf[a]] \/ path[a] = "reversal")
                     [] a \in reversals -> NewRecord
                     [] OTHER -> acts[a]]
     /\ path' = [a \in Actions |-> IF a \in reversals THEN "reversal" ELSE path[a]]
     /\ latest' = [i \in Incidents |-> IF i \in reverted
                                       THEN CHOOSE a \in reversals : IncidentOf[a] = i ELSE latest[i]]
     /\ incident' = [i \in Incidents |->
                       CASE i \in reverted -> "ACTIVE"
                         [] verdict[i] = "VERIFIED" /\ Observed(i, opened, closed) = "ACTIVE" -> "RESOLVED"
                         [] OTHER -> Observed(i, opened, closed)]
     /\ proposal' = [i \in Incidents |-> JudgedProposal(i, verdict[i], autonomous)]
     /\ reversing' = [i \in Incidents |-> reversing[i] \/ i \in reverted]
     /\ failures' = [i \in Incidents |->
                       CASE verdict[i] = "VERIFIED" -> 0
                         [] verdict[i] = "VERIFICATION_FAILED" -> Counted(failures[i])
                         [] OTHER -> failures[i]]
     /\ lapsed' = lapsed \cup {a \in judged : verdict[IncidentOf[a]] = "VERIFICATION_FAILED"}
     /\ disturbed' = disturbed \cup reverted
     /\ UNCHANGED <<handed, reports, paused>>

Telemetry ==
  \E opened \in SUBSET Openable, closed \in SUBSET Closable,
     judged \in SUBSET {i \in Incidents : AwaitsVerdict(i)} :
    \E fresh \in [judged -> Verdict], autonomous \in {b \in BOOLEAN : b => judged # {}},
       reversals \in SUBSET {a \in Actions : judged # {} /\ Unused(a)} :
      SyncClusterResources(opened, closed, fresh, autonomous, reversals)

-----------------------------------------------------------------------------
Next ==
  \/ \E i \in Incidents : CreateIncident(i) \/ RejectRemediation(i) \/ ResolveManually(i)
                            \/ SaveRemediation(i)
                            \/ DisableIncidentAutoHealing(i) \/ EnableIncidentAutoHealing(i)
  \/ \E i \in Incidents, succeeded \in BOOLEAN : SaveAIAnalysis(i, succeeded)
  \/ \E i \in Incidents, status \in {"ACTIVE", "CLOSED"} : UpdateIncident(i, status)
  \/ \E gone \in SUBSET {i \in Incidents : incident[i] \in Known} : DeleteIncidents(gone)
  \/ \E a \in Actions : ApproveRemediation(a) \/ TriggerManualHeal(a)
                          \/ ApprovePodImageReplacement(a) \/ RollbackRemediation(a)
                          \/ ExecuteClusterResourceOperation(a) \/ CancelRemediationAction(a)
  \/ \E healed \in SUBSET Actions : ExecuteAutoHeal(healed)
  \/ ClaimPendingRemediationActions
  \/ \E a \in Actions, rep \in Report : RecordRemediationResult(a, rep)
  \/ ReconcileStalledActions
  \/ Tick
  \/ Telemetry

Spec == Init /\ [][Next]_vars

-----------------------------------------------------------------------------
(* Properties.                                                             *)

\* The records behave as ActionStore says, so that what holds there holds here.
Store == INSTANCE ActionStore
ImplementsStore == Store!Spec

\* Operations that ask for the lock of the target before they dispatch.
AskingPath == {"operator", "autonomous"}

\* Two actions that contend, for a workload or a container, both hold the lock only where one of them was created by
\* an operation that does not ask for it, or had given the lock up before and
\* was taken back by a late report.
TargetLock ==
  \A a, b \in Actions :
    /\ a # b /\ Contend(a, b)
    /\ Holds(a) /\ Holds(b)
    => path[a] \notin AskingPath \/ path[b] \notin AskingPath \/ {a, b} \cap lapsed # {}

\* Nothing that the policy dispatched waits for an agent while the incident is paused.
PausedHoldsBack ==
  \A a \in Actions :
    paused[IncidentOf[a]] => ~(path[a] = "autonomous" /\ acts[a].status = "PENDING")

\* Operations that carry out the incident's proposal, or reverse what it did.
ProposalPath == AskingPath \cup {"reversal"}

\* A success that came through the incident's proposal is the incident's newest action, and
\* stays in the closed loop until telemetry has judged it, unless the proposal was
\* replaced or declined, or another action dispatched, before an action had come to
\* its end.
SuccessStaysInLoop ==
  \A a \in Actions :
    LET i == IncidentOf[a]
    IN acts[a].status = "SUCCEEDED" /\ path[a] \in ProposalPath /\ i \notin disturbed
       => latest[i] = a /\ InClosedLoop(i)

FailedActions(i) == {a \in ActionsOf(i) : acts[a].status \in {"FAILED", "VERIFICATION_FAILED"}}

\* Telemetry has verified, or an agent rolled back, one of the incident's actions.
Redeemed(i) == \E a \in ActionsOf(i) : acts[a].status \in {"VERIFIED_RESOLVED", "ROLLED_BACK"}

\* The policy gives up: it dispatches nothing more for an incident with MaxAttempts failed
\* actions, until one has been verified or rolled back.
PolicyGivesUp ==
  [][\A a \in Actions :
       /\ acts[a].status = "ABSENT" /\ acts'[a].status # "ABSENT" /\ path'[a] = "autonomous"
       /\ ~Redeemed(IncidentOf[a])
       => Cardinality(FailedActions(IncidentOf[a])) < MaxAttempts]_vars
=============================================================================

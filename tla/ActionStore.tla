------------------------------ MODULE ActionStore ------------------------------
(***************************************************************************)
(* The remediation actions of one cluster in the backend (the map          *)
(* remediationActions of DataStore, server/store.ts), with every handler   *)
(* that changes an action's status.  Node.js runs each handler to its end  *)
(* without interleaving, so each one is a single step.                     *)
(*                                                                         *)
(* The agent is the most general one: once it has been handed an action    *)
(* it may report anything about it, at any time, in any order and any      *)
(* number of times.  An action may be created at any time, and judged at   *)
(* any time.  Two specifications implement this one: RemediationEngine     *)
(* says which incidents and proposals actions come from and when telemetry *)
(* judges them; RemediationSystem says what the real agent reports.        *)
(***************************************************************************)
EXTENDS ActionRecord

CONSTANTS
  Actions,     \* identifiers of remediation actions
  Incidents,   \* incidents of the cluster
  IncidentOf   \* the incident each action belongs to

ASSUME StoreAssumption == IncidentOf \in [Actions -> Incidents]

VARIABLES
  acts,       \* the stored records
  handed      \* actions that some claim has answered with

vars == <<acts, handed>>

TypeOK ==
  /\ acts \in [Actions -> Record]
  /\ handed \subseteq Actions

Init ==
  /\ acts = [a \in Actions |-> NoRecord]
  /\ handed = {}

-----------------------------------------------------------------------------
\* An operator or the autonomous policy dispatches an action.
Create(a) ==
  /\ acts[a].status = "ABSENT"
  /\ acts' = [acts EXCEPT ![a] = NewRecord]
  /\ UNCHANGED handed

\* GET /api/v1/agent/actions and the opening of the action stream.  The answer
\* may be lost on the way, so "handed" is what the agent may have received.
ClaimPendingRemediationActions ==
  /\ acts' = [a \in Actions |-> Claimed(acts[a])]
  /\ handed' = handed \cup {a \in Actions : Claimable(acts[a])}

\* POST /api/v1/agent/actions/:actionId/result
RecordRemediationResult(a, rep) ==
  /\ a \in handed
  /\ acts' = [acts EXCEPT ![a] = Recorded(@, rep)]
  /\ UNCHANGED handed

CancelRemediationAction(a) ==
  /\ Cancellable(acts[a])
  /\ acts' = [acts EXCEPT ![a] = Cancelled(@)]
  /\ UNCHANGED handed

\* Pausing auto-healing cancels what still waits for the incident.
DisableIncidentAutoHealing(i) ==
  /\ acts' = [a \in Actions |-> IF IncidentOf[a] = i /\ acts[a].status = "PENDING"
                                THEN Cancelled(acts[a]) ELSE acts[a]]
  /\ UNCHANGED handed

\* executeAutoHeal and its two bulk forms: the actions are recorded as succeeded
\* without an agent.
ExecuteAutoHeal(healed) ==
  /\ healed # {} /\ \A a \in healed : acts[a].status = "ABSENT"
  /\ acts' = [a \in Actions |-> IF a \in healed THEN [status |-> "SUCCEEDED", age |-> 0] ELSE acts[a]]
  /\ UNCHANGED handed

\* The monitor's timer, every 15 seconds; agentDown is what
\* isAgentDisconnected says of the cluster at that moment.
ReconcileStalledActions ==
  /\ \E agentDown \in BOOLEAN : acts' = [a \in Actions |-> Reaped(acts[a], agentDown)]
  /\ UNCHANGED handed

\* The closed loop of one telemetry batch judges some of the successes; where one
\* fails its verification, reversals may be dispatched.
SyncClusterResources ==
  /\ \E verdict \in [{a \in Actions : acts[a].status = "SUCCEEDED"} -> Verdict],
        isRollback \in [{a \in Actions : acts[a].status = "SUCCEEDED"} -> BOOLEAN],
        reversals \in SUBSET {a \in Actions : acts[a].status = "ABSENT"} :
       /\ reversals # {} => \E a \in DOMAIN verdict : verdict[a] = "VERIFICATION_FAILED"
       /\ acts' = [a \in Actions |->
                     CASE a \in DOMAIN verdict -> Verified(acts[a], verdict[a], isRollback[a])
                       [] a \in reversals -> NewRecord
                       [] OTHER -> acts[a]]
  /\ UNCHANGED handed

Tick ==
  /\ acts' = [a \in Actions |-> Older(acts[a])]
  /\ UNCHANGED handed

Next ==
  \/ \E a \in Actions : Create(a)
  \/ ClaimPendingRemediationActions
  \/ \E a \in Actions, rep \in Report : RecordRemediationResult(a, rep)
  \/ \E a \in Actions : CancelRemediationAction(a)
  \/ \E i \in Incidents : DisableIncidentAutoHealing(i)
  \/ ReconcileStalledActions
  \/ \E healed \in SUBSET Actions : ExecuteAutoHeal(healed)
  \/ SyncClusterResources
  \/ Tick

Spec == Init /\ [][Next]_vars

\* The interval timer of startHeartbeatMonitor keeps firing, and time passes.
\* Nothing else is promised: no agent has to claim or to report.
FairSpec == Spec /\ WF_vars(Tick) /\ WF_vars(ReconcileStalledActions)

-----------------------------------------------------------------------------
(* Properties.                                                             *)

\* An action that was withdrawn (cancelled, or expired unclaimed) was never
\* given to an agent: nobody cancels or expires what may already be running.
WithdrawnNeverHanded ==
  \A a \in Actions : acts[a].status \in {"EXPIRED", "CANCELLED"} => a \notin handed

\* Whatever agents report, and however late, a final status stays.  For
\* EXPIRED and CANCELLED recordRemediationResult has no guard: they stay
\* final because no agent can know the action (WithdrawnNeverHanded).
FinalStatusesStay ==
  [][\A a \in Actions : acts[a].status \in Settled => acts'[a].status = acts[a].status]_vars

\* A success reported by the agent is only ever revised by telemetry that
\* verifies it: never by a late report, the reaper or an operator.
SuccessRevisedOnlyByTelemetry ==
  [][\A a \in Actions : acts[a].status = "SUCCEEDED" =>
       acts'[a].status \in {"SUCCEEDED", "VERIFIED_RESOLVED", "ROLLED_BACK",
                            "VERIFICATION_FAILED"}]_vars

\* An undelivered action does not wait for ever: it is claimed, withdrawn or expires.
PendingResolves ==
  \A a \in Actions : acts[a].status = "PENDING" ~> acts[a].status # "PENDING"

\* An action in flight does not stay there for ever: the reaper's TIMEOUT releases
\* it, unless the agent keeps reporting, each RUNNING restarting the time the reaper
\* measures.  One that is only DELIVERED may stay, despite the "10 minutes max
\* execution lease", but only while agents keep claiming: each redelivery restarts
\* that time as well.
InFlightResolves ==
  \A a \in Actions :
    /\ <>[](acts[a].status \in InFlight)
         => []<><<\E rep \in Report : RecordRemediationResult(a, rep)>>_vars
    /\ <>[](acts[a].status = "DELIVERED") => []<><<ClaimPendingRemediationActions>>_vars

=============================================================================

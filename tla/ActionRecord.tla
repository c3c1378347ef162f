------------------------------ MODULE ActionRecord ------------------------------
(***************************************************************************)
(* One remediation action as the backend stores it (RemediationAction in   *)
(* server/store.ts), and what each store handler does to one such record.  *)
(* The operators are pure: the state machines that use them (ActionStore   *)
(* and RemediationSystem) apply them to their own state.                   *)
(*                                                                         *)
(* Time.  The code compares Date.now() with one stored timestamp:          *)
(*   PENDING     createdAt   (expiresAt = createdAt + actionExpirationMs)  *)
(*   DELIVERED   deliveredAt (lease, stall)                                *)
(*   in flight   executingAt || deliveredAt || createdAt (stall)           *)
(* Each of these is the last one written, so a record carries one number,  *)
(* "age": the time since the timestamp its status is compared with.  Ages  *)
(* saturate at Horizon, beyond which every comparison has the same result. *)
(***************************************************************************)
EXTENDS Integers

CONSTANTS
  ClaimLease,         \* CLAIM_RETRY_TIMEOUT_MS: a delivery may be repeated after it
  DisconnectTimeout,  \* DISCONNECTED_TIMEOUT_MS: stall limit while the agent is offline
  ExecTimeout,        \* MAX_EXECUTION_TIMEOUT_MS: stall limit in any case
  ExpiryWindow,       \* actionExpirationMs: life of an action nobody claims
  Horizon             \* bound: ages are not counted beyond it

ASSUME TimingAssumption ==
  /\ Horizon \in Nat
  /\ ClaimLease \in Nat /\ ClaimLease < Horizon
  /\ DisconnectTimeout \in Nat /\ DisconnectTimeout < Horizon
  /\ ExecTimeout \in Nat /\ ExecTimeout < Horizon
  /\ ExpiryWindow \in Nat /\ ExpiryWindow < Horizon

-----------------------------------------------------------------------------
(* Statuses.  ABSENT stands for an identifier that has no record yet.      *)

InFlight == {"EXECUTING", "VERIFYING", "ROLLING_BACK"}

\* The statuses in which recordRemediationResult refuses any further report.
ReportGuarded == {"SUCCEEDED", "FAILED", "VERIFIED_RESOLVED", "ROLLED_BACK", "TIMEOUT"}

\* The statuses reconcileStalledActions passes over.
ReaperSkips == {"SUCCEEDED", "FAILED", "TIMEOUT", "ROLLED_BACK",
                "EXPIRED", "CANCELLED", "REJECTED"}

Status == {"ABSENT", "PENDING", "DELIVERED"} \cup InFlight \cup ReportGuarded
            \cup {"EXPIRED", "CANCELLED", "VERIFICATION_FAILED"}

\* ALLOWED_TRANSITIONS, for the statuses the store ever assigns.
AllowedTransitions ==
  [s \in Status |->
     CASE s = "PENDING"   -> {"DELIVERED", "CANCELLED", "EXPIRED"}
       [] s = "DELIVERED" -> {"EXECUTING", "SUCCEEDED", "FAILED", "TIMEOUT", "EXPIRED"}
       [] s = "EXECUTING" -> {"SUCCEEDED", "FAILED", "TIMEOUT", "VERIFYING", "EXPIRED"}
       [] s = "VERIFYING" -> {"VERIFIED_RESOLVED", "VERIFICATION_FAILED", "ROLLING_BACK",
                              "ROLLED_BACK", "FAILED", "TIMEOUT", "EXPIRED"}
       [] s = "VERIFICATION_FAILED" -> {"ROLLING_BACK", "ROLLED_BACK", "FAILED"}
       [] s = "ROLLING_BACK" -> {"ROLLED_BACK", "FAILED", "TIMEOUT"}
       [] s = "SUCCEEDED" -> {"VERIFYING", "VERIFIED_RESOLVED", "VERIFICATION_FAILED",
                              "ROLLING_BACK", "ROLLED_BACK"}
       [] OTHER -> {}]

ValidTransition(from, to) == from = to \/ to \in AllowedTransitions[from]

Record == [status : Status, age : 0 .. Horizon]

NoRecord == [status |-> "ABSENT", age |-> 0]

\* createCanonicalRemediationAction: a new action is PENDING and its clock starts.
NewRecord == [status |-> "PENDING", age |-> 0]

\* Statuses that no timestamp is compared with any more, and that stay.
Settled == {"FAILED", "TIMEOUT", "ROLLED_BACK", "VERIFIED_RESOLVED", "EXPIRED", "CANCELLED"}

\* The record moves on to a status; a settled one needs no clock.
Moved(r, status) == [status |-> status, age |-> IF status \in Settled THEN 0 ELSE r.age]

\* Mutant: ages are counted past the bound.
OlderUnbounded(r) == [r EXCEPT !.age = r.age + 1]

\* Time passes for a record.
Older(r) ==
  IF r.status \notin Settled \cup {"ABSENT"} /\ r.age < Horizon
  THEN [r EXCEPT !.age = r.age + 1] ELSE r

-----------------------------------------------------------------------------
(* Claiming: claimPendingRemediationActions runs both loops over a record. *)

Expired(r) == r.status = "PENDING" /\ r.age > ExpiryWindow

Claimable(r) ==
  \/ r.status = "PENDING" /\ ~Expired(r)
  \/ r.status = "DELIVERED" /\ r.age > ClaimLease

Claimed(r) ==
  CASE Expired(r)   -> Moved(r, "EXPIRED")
    [] Claimable(r) -> [status |-> "DELIVERED", age |-> 0]
    [] OTHER        -> r

-----------------------------------------------------------------------------
(* Reaping: reconcileStalledActions, for one record.                       *)

StallLimitPassed(r, agentDown) ==
  r.age > ExecTimeout \/ (agentDown /\ r.age > DisconnectTimeout)

\* Mutant: the reaper no longer expires what nobody claimed.
ReapedStalledOnly(r, agentDown) ==
  IF r.status \in {"DELIVERED"} \cup InFlight /\ StallLimitPassed(r, agentDown)
  THEN Moved(r, "TIMEOUT") ELSE r

\* Mutant: the reaper forgets that a rollback can stall as well.
ReapedExceptRollback(r, agentDown) ==
  CASE Expired(r) -> Moved(r, "EXPIRED")
    [] /\ r.status \in {"DELIVERED", "EXECUTING", "VERIFYING"}
       /\ StallLimitPassed(r, agentDown) -> Moved(r, "TIMEOUT")
    [] OTHER -> r

Reaped(r, agentDown) ==
  CASE r.status \in ReaperSkips -> r
    [] Expired(r) -> Moved(r, "EXPIRED")
    [] /\ r.status \in {"DELIVERED"} \cup InFlight
       /\ StallLimitPassed(r, agentDown) -> Moved(r, "TIMEOUT")
    [] OTHER -> r

-----------------------------------------------------------------------------
(* Agent reports: recordRemediationResult, for the record it names.        *)

\* ActionResultSchema.state; NONE is a report without a state.
ReportState == {"NONE", "PENDING", "RUNNING", "EXECUTING", "VERIFYING", "SUCCEEDED",
                "FAILED", "TIMEOUT", "ROLLING_BACK", "ROLLED_BACK", "CANCELLED", "REJECTED"}

UnderWay == {"RUNNING", "EXECUTING", "VERIFYING", "ROLLING_BACK", "ROLLED_BACK"}

\* timedOut: the message contains "TimeoutException", read of conclusions only;
\* success counts only where no state is given.
Report ==
  {rep \in [state : ReportState, success : BOOLEAN, timedOut : BOOLEAN] :
     /\ rep.state \in UnderWay => ~rep.timedOut
     /\ rep.state # "NONE" => rep.success = (rep.state = "SUCCEEDED")}

ReportsSuccess(rep) == rep.state = "SUCCEEDED" \/ (rep.state = "NONE" /\ rep.success)

\* The status of the last branch, "Terminal states: SUCCEEDED or FAILED".
ConcludedStatus(rep) ==
  IF rep.state = "TIMEOUT" \/ rep.timedOut THEN "TIMEOUT"
  ELSE IF ReportsSuccess(rep) THEN "SUCCEEDED"
  ELSE "FAILED"

\* A report moves the record to the status it names, except that every state
\* without a branch of its own, PENDING among them, concludes the action.
Reported(r, rep) ==
  CASE rep.state \in {"RUNNING", "EXECUTING"} -> [status |-> "EXECUTING", age |-> 0]
    [] rep.state \in {"VERIFYING", "ROLLING_BACK", "ROLLED_BACK"} ->
         Moved(r, rep.state)
    [] OTHER -> Moved(r, ConcludedStatus(rep))

\* Mutant: no idempotency guard.
RecordedUnguarded(r, rep) == Reported(r, rep)

\* Mutant: the guard covers the failures only.
RecordedOverSuccess(r, rep) ==
  IF r.status \in ReportGuarded \ {"SUCCEEDED"} THEN r ELSE Reported(r, rep)

Recorded(r, rep) == IF r.status \in ReportGuarded THEN r ELSE Reported(r, rep)

-----------------------------------------------------------------------------
(* Cancellation and telemetry verification.                                *)

\* Mutant: cancellation without assertValidTransition.
CancellableAlways(r) == r.status # "ABSENT"

Cancellable(r) == ValidTransition(r.status, "CANCELLED") /\ r.status # "ABSENT"

Cancelled(r) == Moved(r, "CANCELLED")

\* The closed-loop verification of syncClusterResources looks only at an
\* action whose status is SUCCEEDED; isRollback marks a reversal action.
Verdict == {"VERIFIED", "VERIFYING", "VERIFICATION_FAILED"}

VerifiedStatus(verdict, isRollback) ==
  CASE verdict = "VERIFIED" -> IF isRollback THEN "ROLLED_BACK" ELSE "VERIFIED_RESOLVED"
    [] verdict = "VERIFICATION_FAILED" -> "VERIFICATION_FAILED"
    [] verdict = "VERIFYING" -> "SUCCEEDED"

Verified(r, verdict, isRollback) ==
  IF r.status = "SUCCEEDED"
  THEN Moved(r, VerifiedStatus(verdict, isRollback))
  ELSE r

=============================================================================

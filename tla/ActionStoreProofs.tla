--------------------------- MODULE ActionStoreProofs ---------------------------
(***************************************************************************)
(* Theorems about ActionStore, for every set of actions and every choice   *)
(* of the time-outs.                                                       *)
(*                                                                         *)
(* The first lemmas say what each operator of ActionRecord does to a       *)
(* record.  The proofs about RemediationEngine and RemediationSystem, which *)
(* apply the same operators, take them from here.                          *)
(*                                                                         *)
(* The inductive invariant is HandoverInv: an action is in the hands of an *)
(* agent exactly when its status has left PENDING by delivery.  It is what *)
(* makes the two statuses that recordRemediationResult does not guard,     *)
(* EXPIRED and CANCELLED, final.                                           *)
(*                                                                         *)
(* ClockStep is what is left of the liveness properties without fairness:  *)
(* whose step may restart the time the reaper measures.                    *)
(***************************************************************************)
EXTENDS ActionStore, TLAPS

-----------------------------------------------------------------------------
(* Time, claims and the reaper.                                            *)

\* A record that moves to a status has that status, and stays well-formed.
LEMMA MovedEffect ==
  ASSUME NEW r \in Record, NEW status \in Status
  PROVE  Moved(r, status) \in Record /\ Moved(r, status).status = status
BY TimingAssumption, SMT DEF Moved, Record

\* Time changes the age of a record and nothing else.
LEMMA OlderIsRecord ==
  ASSUME NEW r \in Record
  PROVE  /\ Older(r) \in Record
         /\ Older(r).status = r.status
BY TimingAssumption, SMT DEF Older, Record, Settled

\* A claim delivers, expires or leaves the record as it is.
LEMMA ClaimedEffect ==
  ASSUME NEW r \in Record
  PROVE  /\ Claimed(r) \in Record
         /\ Claimable(r) => Claimed(r).status = "DELIVERED"
         /\ ~ Claimable(r) => \/ Claimed(r) = r
                              \/ r.status = "PENDING" /\ Claimed(r).status = "EXPIRED"
         /\ Claimable(r) => r.status \in {"PENDING", "DELIVERED"}
<1>1. "EXPIRED" \in Status /\ "DELIVERED" \in Status /\ 0 \in 0 .. Horizon
  BY TimingAssumption, SMT DEF Status
<1> QED BY <1>1, MovedEffect, SMT DEF Claimed, Claimable, Expired, Record

\* The reaper expires what was never delivered and times out what was; it
\* touches no other record.
LEMMA ReapedEffect ==
  ASSUME NEW r \in Record, NEW down \in BOOLEAN
  PROVE  /\ Reaped(r, down) \in Record
         /\ \/ Reaped(r, down) = r
            \/ r.status = "PENDING" /\ Reaped(r, down).status = "EXPIRED"
            \/ /\ r.status \in {"DELIVERED", "EXECUTING", "VERIFYING", "ROLLING_BACK"}
               /\ Reaped(r, down).status = "TIMEOUT"
<1>1. "EXPIRED" \in Status /\ "TIMEOUT" \in Status
  BY SMT DEF Status, ReportGuarded
<1> QED BY <1>1, MovedEffect, SMT DEF Reaped, Expired, ReaperSkips, InFlight

\* The status a report can leave behind.
ReportedStatus == InFlight \cup {"SUCCEEDED", "FAILED", "TIMEOUT", "ROLLED_BACK"}

\* A report is refused in the guarded statuses; elsewhere it leaves a status
\* that only a handed action can have.
LEMMA RecordedEffect ==
  ASSUME NEW r \in Record, NEW rep \in Report
  PROVE  /\ Recorded(r, rep) \in Record
         /\ r.status \in ReportGuarded => Recorded(r, rep) = r
         /\ r.status \notin ReportGuarded => Recorded(r, rep).status \in ReportedStatus
<1>1. ConcludedStatus(rep) \in {"TIMEOUT", "SUCCEEDED", "FAILED"}
  BY SMT DEF ConcludedStatus
<1>2. 0 \in 0 .. Horizon
  BY TimingAssumption, SMT
<1>3. /\ Reported(r, rep) \in Record
      /\ Reported(r, rep).status \in ReportedStatus
  <2>1. ReportedStatus \subseteq Status
    BY SMT DEF ReportedStatus, Status, InFlight, ReportGuarded
  <2>2. CASE rep.state \in {"RUNNING", "EXECUTING"}
    BY <1>2, <2>2, SMT DEF Reported, ReportedStatus, Record, Status, InFlight
  <2>3. CASE rep.state \in {"VERIFYING", "ROLLING_BACK", "ROLLED_BACK"}
    <3>1. Reported(r, rep) = Moved(r, rep.state) /\ rep.state \in ReportedStatus
      BY <2>3, SMT DEF Reported, ReportedStatus, InFlight
    <3> QED BY <2>1, <3>1, MovedEffect
  <2>4. CASE rep.state \notin {"RUNNING", "EXECUTING", "VERIFYING", "ROLLING_BACK", "ROLLED_BACK"}
    <3>1. /\ Reported(r, rep) = Moved(r, ConcludedStatus(rep))
          /\ ConcludedStatus(rep) \in ReportedStatus
      BY <1>1, <2>4, SMT DEF Reported, ReportedStatus
    <3> QED BY <2>1, <3>1, MovedEffect
  <2> QED BY <2>2, <2>3, <2>4
<1> QED BY <1>3 DEF Recorded

\* Only an action that waits, or is already cancelled, can be cancelled: the
\* transition table has no way from a delivered status to CANCELLED.
LEMMA CancellableStatus ==
  ASSUME NEW r \in Record, Cancellable(r)
  PROVE  /\ r.status \in {"PENDING", "CANCELLED"}
         /\ Cancelled(r) \in Record
         /\ Cancelled(r).status = "CANCELLED"
<1>1. r.status \in Status
  BY DEF Record
<1>2. r.status \in {"PENDING", "CANCELLED"}
  BY <1>1, SMT DEF Cancellable, ValidTransition, AllowedTransitions, Status, InFlight,
                   ReportGuarded
<1>3. Cancelled(r) \in Record /\ Cancelled(r).status = "CANCELLED"
  <2>1. "CANCELLED" \in Status
    BY SMT DEF Status
  <2> QED BY <2>1, MovedEffect DEF Cancelled
<1> QED BY <1>2, <1>3

\* Telemetry revises a reported success and nothing else.
LEMMA VerifiedEffect ==
  ASSUME NEW r \in Record, NEW verdict \in Verdict, NEW isRollback \in BOOLEAN
  PROVE  /\ Verified(r, verdict, isRollback) \in Record
         /\ \/ Verified(r, verdict, isRollback) = r
            \/ /\ r.status = "SUCCEEDED"
               /\ Verified(r, verdict, isRollback).status
                    \in {"VERIFIED_RESOLVED", "ROLLED_BACK", "VERIFICATION_FAILED"}
<1>1. /\ VerifiedStatus(verdict, isRollback) \in Status
      /\ VerifiedStatus(verdict, isRollback)
           \in {"SUCCEEDED", "VERIFIED_RESOLVED", "ROLLED_BACK", "VERIFICATION_FAILED"}
  BY SMT DEF VerifiedStatus, Verdict, Status, InFlight, ReportGuarded
<1>2. r.status = "SUCCEEDED" => Moved(r, "SUCCEEDED") = r
  BY SMT DEF Moved, Record, Settled
<1> QED BY <1>1, <1>2, MovedEffect, SMT DEF Verified

\* A report concludes an action as succeeded or rolled back only if it says so.
LEMMA RecordedConclusion ==
  ASSUME NEW r \in Record, NEW rep \in Report,
         Recorded(r, rep).status # r.status
  PROVE  /\ Recorded(r, rep).status = "SUCCEEDED" => ReportsSuccess(rep)
         /\ Recorded(r, rep).status = "ROLLED_BACK" => rep.state = "ROLLED_BACK"
<1>1. Recorded(r, rep) = Reported(r, rep)
  BY DEF Recorded
<1>2. /\ ConcludedStatus(rep) # "ROLLED_BACK"
      /\ ConcludedStatus(rep) = "SUCCEEDED" => ReportsSuccess(rep)
  BY SMT DEF ConcludedStatus
<1>3. \A s : Moved(r, s).status = s
  BY SMT DEF Moved
<1> QED BY <1>1, <1>2, <1>3, SMT DEF Reported, Record

-----------------------------------------------------------------------------
(* The inductive invariant.                                                *)

\* An action that is absent, waiting or withdrawn is in nobody's hands.
Unhanded == {"ABSENT", "PENDING", "EXPIRED", "CANCELLED"}

HandoverInv == \A a \in Actions : acts[a].status \in Unhanded => a \notin handed

IInv == TypeOK /\ HandoverInv

\* One step, seen from one action: what it does to its status, and to
\* whether it is handed.
StatusStep(a) ==
  \/ acts'[a].status = acts[a].status
  \/ acts[a].status = "ABSENT" /\ acts'[a].status \in {"PENDING", "SUCCEEDED"}
  \/ acts[a].status \in {"PENDING", "DELIVERED"} /\ acts'[a].status = "DELIVERED"
  \/ acts[a].status = "PENDING" /\ acts'[a].status \in {"EXPIRED", "CANCELLED"}
  \/ acts[a].status \in {"DELIVERED"} \cup InFlight /\ acts'[a].status = "TIMEOUT"
  \/ /\ a \in handed
     /\ acts[a].status \notin ReportGuarded
     /\ acts'[a].status \in ReportedStatus
  \/ /\ acts[a].status = "SUCCEEDED"
     /\ acts'[a].status \in {"VERIFIED_RESOLVED", "ROLLED_BACK", "VERIFICATION_FAILED"}

HandoverStep(a) ==
  a \in handed' => \/ a \in handed
                   \/ acts'[a].status = "DELIVERED"

LEMMA InitIInv == Init => IInv
<1> SUFFICES ASSUME Init PROVE IInv
  OBVIOUS
<1>1. NoRecord \in Record
  BY TimingAssumption, SMT DEF NoRecord, Record, Status
<1>2. TypeOK
  BY <1>1, SMT DEF Init, TypeOK
<1>3. HandoverInv
  BY DEF Init, HandoverInv
<1> QED BY <1>2, <1>3 DEF IInv

\* Every step of the store is, for each action, one of the moves above.
LEMMA StepEffect ==
  ASSUME IInv, [Next]_vars
  PROVE  TypeOK' /\ \A a \in Actions : StatusStep(a) /\ HandoverStep(a)
<1> USE DEF IInv
<1>0. ASSUME NEW a \in Actions PROVE acts[a] \in Record
  BY DEF TypeOK
<1>1. ASSUME NEW a \in Actions, Create(a) PROVE TypeOK' /\ \A b \in Actions : StatusStep(b) /\ HandoverStep(b)
  <2>1. NewRecord \in Record /\ NewRecord.status = "PENDING"
    BY TimingAssumption, SMT DEF NewRecord, Record, Status
  <2> QED BY <1>1, <2>1, SMT DEF Create, TypeOK, StatusStep, HandoverStep
<1>2. CASE ClaimPendingRemediationActions
  <2>1. TypeOK'
    BY <1>0, <1>2, ClaimedEffect, SMT DEF ClaimPendingRemediationActions, TypeOK
  <2>2. ASSUME NEW b \in Actions PROVE StatusStep(b) /\ HandoverStep(b)
    <3>1. acts'[b] = Claimed(acts[b])
      BY <1>2 DEF ClaimPendingRemediationActions, TypeOK
    <3>2. b \in handed' => b \in handed \/ Claimable(acts[b])
      BY <1>2 DEF ClaimPendingRemediationActions
    <3> QED BY <1>0, <3>1, <3>2, ClaimedEffect DEF StatusStep, HandoverStep
  <2> QED BY <2>1, <2>2
<1>3. ASSUME NEW a \in Actions, NEW rep \in Report, RecordRemediationResult(a, rep)
      PROVE  TypeOK' /\ \A b \in Actions : StatusStep(b) /\ HandoverStep(b)
  <2>1. Recorded(acts[a], rep) \in Record
    BY <1>0, RecordedEffect
  <2>2. TypeOK'
    BY <1>3, <2>1, SMT DEF RecordRemediationResult, TypeOK
  <2>3. ASSUME NEW b \in Actions PROVE StatusStep(b) /\ HandoverStep(b)
    <3>1. CASE b = a
      <4>1. acts'[b] = Recorded(acts[b], rep) /\ b \in handed /\ handed' = handed
        BY <1>3, <3>1 DEF RecordRemediationResult, TypeOK
      <4> QED BY <1>0, <4>1, RecordedEffect DEF StatusStep, HandoverStep
    <3>2. CASE b # a
      BY <1>3, <3>2 DEF RecordRemediationResult, TypeOK, StatusStep, HandoverStep
    <3> QED BY <3>1, <3>2
  <2> QED BY <2>2, <2>3
<1>4. ASSUME NEW a \in Actions, CancelRemediationAction(a)
      PROVE  TypeOK' /\ \A b \in Actions : StatusStep(b) /\ HandoverStep(b)
  <2>1. /\ acts[a].status \in {"PENDING", "CANCELLED"}
        /\ Cancelled(acts[a]) \in Record
        /\ Cancelled(acts[a]).status = "CANCELLED"
    BY <1>0, <1>4, CancellableStatus DEF CancelRemediationAction
  <2> QED BY <1>4, <2>1, SMT DEF CancelRemediationAction, TypeOK, StatusStep, HandoverStep
<1>5. ASSUME NEW i \in Incidents, DisableIncidentAutoHealing(i)
      PROVE  TypeOK' /\ \A b \in Actions : StatusStep(b) /\ HandoverStep(b)
  <2>1. "CANCELLED" \in Status
    BY SMT DEF Status
  <2>2. \A r \in Record : Cancelled(r) \in Record /\ Cancelled(r).status = "CANCELLED"
    BY <2>1, MovedEffect DEF Cancelled
  <2> QED BY <1>0, <1>5, <2>2, SMT
             DEF DisableIncidentAutoHealing, TypeOK, StatusStep, HandoverStep
<1>6. CASE ReconcileStalledActions
  <2>1. PICK agentDown \in BOOLEAN : acts' = [a \in Actions |-> Reaped(acts[a], agentDown)]
    BY <1>6 DEF ReconcileStalledActions
  <2>2. TypeOK'
    BY <1>0, <1>6, <2>1, ReapedEffect, SMT DEF ReconcileStalledActions, TypeOK
  <2>3. ASSUME NEW b \in Actions PROVE StatusStep(b) /\ HandoverStep(b)
    <3>1. acts'[b] = Reaped(acts[b], agentDown) /\ handed' = handed
      BY <1>6, <2>1 DEF ReconcileStalledActions
    <3> QED BY <1>0, <3>1, ReapedEffect DEF StatusStep, HandoverStep, InFlight
  <2> QED BY <2>2, <2>3
<1>7. CASE SyncClusterResources
  <2>1. PICK verdict \in [{a \in Actions : acts[a].status = "SUCCEEDED"} -> Verdict],
             isRollback \in [{a \in Actions : acts[a].status = "SUCCEEDED"} -> BOOLEAN],
             reversals \in SUBSET {a \in Actions : acts[a].status = "ABSENT"} :
               acts' = [a \in Actions |->
                          CASE a \in DOMAIN verdict -> Verified(acts[a], verdict[a], isRollback[a])
                            [] a \in reversals -> NewRecord
                            [] OTHER -> acts[a]]
    BY <1>7 DEF SyncClusterResources
  <2>2. NewRecord \in Record /\ NewRecord.status = "PENDING"
    BY TimingAssumption, SMT DEF NewRecord, Record, Status
  <2>3. ASSUME NEW b \in Actions PROVE acts'[b] \in Record /\ StatusStep(b)
    <3>1. CASE acts[b].status = "SUCCEEDED"
      <4>1. verdict[b] \in Verdict /\ isRollback[b] \in BOOLEAN
        BY <3>1
      <4>2. acts'[b] = Verified(acts[b], verdict[b], isRollback[b])
        BY <2>1, <3>1
      <4>3. acts[b] \in Record
        BY <1>0
      <4> DEFINE v == verdict[b]
                 f == isRollback[b]
                 r == acts[b]
      <4> HIDE DEF v, f, r
      <4>4. /\ Verified(r, v, f) \in Record
            /\ \/ Verified(r, v, f) = r
               \/ /\ r.status = "SUCCEEDED"
                  /\ Verified(r, v, f).status
                       \in {"VERIFIED_RESOLVED", "ROLLED_BACK", "VERIFICATION_FAILED"}
        <5>1. r \in Record /\ v \in Verdict /\ f \in BOOLEAN
          BY <4>1, <4>3 DEF r, v, f
        <5> QED BY <5>1, VerifiedEffect
      <4>5. acts'[b] = Verified(r, v, f) /\ r = acts[b]
        BY <4>2 DEF r, v, f
      <4> QED BY <4>4, <4>5 DEF StatusStep
    <3>2. CASE acts[b].status # "SUCCEEDED" /\ b \in reversals
      <4>1. acts'[b] = NewRecord /\ acts[b].status = "ABSENT"
        BY <2>1, <3>2
      <4> QED BY <2>2, <4>1 DEF StatusStep
    <3>3. CASE acts[b].status # "SUCCEEDED" /\ b \notin reversals
      <4>1. acts'[b] = acts[b]
        BY <2>1, <3>3
      <4> QED BY <1>0, <4>1 DEF StatusStep
    <3> QED BY <3>1, <3>2, <3>3
  <2>4. TypeOK' /\ \A b \in Actions : HandoverStep(b)
    <3>1. acts' \in [Actions -> Record]
      <4>1. acts' = [b \in Actions |-> acts'[b]]
        BY <2>1
      <4> QED BY <2>3, <4>1
    <3> QED BY <1>7, <3>1 DEF SyncClusterResources, TypeOK, HandoverStep
  <2> QED BY <2>3, <2>4
<1>8. ASSUME NEW healed \in SUBSET Actions, ExecuteAutoHeal(healed)
      PROVE  TypeOK' /\ \A b \in Actions : StatusStep(b) /\ HandoverStep(b)
  <2>1. [status |-> "SUCCEEDED", age |-> 0] \in Record
    BY TimingAssumption, SMT DEF Record, Status, ReportGuarded
  <2> QED BY <1>0, <1>8, <2>1, SMT DEF ExecuteAutoHeal, TypeOK, StatusStep, HandoverStep
<1>9. CASE Tick
  <2>1. \A b \in Actions : acts'[b] = Older(acts[b]) /\ handed' = handed
    BY <1>9 DEF Tick, TypeOK
  <2>2. TypeOK'
    BY <1>0, <1>9, OlderIsRecord, SMT DEF Tick, TypeOK
  <2> QED BY <1>0, <2>1, <2>2, OlderIsRecord DEF StatusStep, HandoverStep
<1>10. CASE UNCHANGED vars
  BY <1>10 DEF vars, TypeOK, StatusStep, HandoverStep
<1> QED
  BY <1>1, <1>2, <1>3, <1>4, <1>5, <1>6, <1>7, <1>8, <1>9, <1>10 DEF Next

\* IInv is inductive.
LEMMA NextIInv == IInv /\ [Next]_vars => IInv'
<1> SUFFICES ASSUME IInv, [Next]_vars PROVE IInv'
  OBVIOUS
<1>1. TypeOK' /\ \A a \in Actions : StatusStep(a) /\ HandoverStep(a)
  BY StepEffect
<1>2. ASSUME NEW a \in Actions, acts'[a].status \in Unhanded PROVE a \notin handed'
  <2>1. StatusStep(a) /\ HandoverStep(a)
    BY <1>1
  <2>2. acts[a].status \in Unhanded => a \notin handed
    BY DEF IInv, HandoverInv
  <2>3. acts'[a].status # "DELIVERED" /\ acts[a].status \in Unhanded
    BY <1>2, <2>1, SMT DEF StatusStep, Unhanded, ReportedStatus, InFlight
  <2> QED BY <2>1, <2>2, <2>3 DEF HandoverStep
<1> QED BY <1>1, <1>2 DEF IInv, HandoverInv

LEMMA InvariantIInv == Spec => []IInv
BY InitIInv, NextIInv, PTL DEF Spec

-----------------------------------------------------------------------------
(* The clocks behind PendingResolves and InFlightResolves.                 *)

\* A step does not turn the clock back; time moves it on, up to the horizon, which
\* is beyond every limit; and the reaper leaves the record only below the limit.
ClockRuns(a, limit) ==
  /\ acts'[a].age >= acts[a].age
  /\ Tick => acts'[a].age = acts[a].age + 1 \/ acts[a].age = Horizon
  /\ ReconcileStalledActions => acts[a].age <= limit

\* What resets a clock: a claim that of a delivered action, a report that of one in
\* flight, and nothing that of one that waits.
ClockStep(a) ==
  /\ acts[a].status = "PENDING" /\ acts'[a].status = "PENDING" =>
       ClockRuns(a, ExpiryWindow)
  /\ acts[a].status = "DELIVERED" /\ acts'[a].status = "DELIVERED" =>
       ClaimPendingRemediationActions \/ ClockRuns(a, ExecTimeout)
  /\ acts[a].status \in InFlight /\ acts'[a].status \in InFlight =>
       (\E rep \in Report : RecordRemediationResult(a, rep)) \/ ClockRuns(a, ExecTimeout)

\* The statuses in which a record waits for something.
Timed == {"PENDING", "DELIVERED"} \cup InFlight

LEMMA TickMovesOn ==
  ASSUME TypeOK, Tick, NEW a \in Actions, acts[a].status \in Timed
  PROVE  /\ acts'[a].age >= acts[a].age
         /\ acts'[a].age = acts[a].age + 1 \/ acts[a].age = Horizon
<1>1. acts[a] \in Record /\ acts'[a] = Older(acts[a])
  BY DEF TypeOK, Tick
<1>2. acts[a].status \notin Settled \cup {"ABSENT"}
  BY DEF Timed, InFlight, Settled
<1> QED BY <1>1, <1>2, TimingAssumption, SMT DEF Older, Record

\* What the reaper leaves in a timed status is below the limit, and as it was.
LEMMA ReaperLeavesYoung ==
  ASSUME TypeOK, ReconcileStalledActions, NEW a \in Actions,
         acts[a].status \in Timed, acts'[a].status \in Timed
  PROVE  /\ acts'[a] = acts[a]
         /\ acts[a].status = "PENDING" => acts[a].age <= ExpiryWindow
         /\ acts[a].status # "PENDING" => acts[a].age <= ExecTimeout
<1>1. PICK down \in BOOLEAN : acts'[a] = Reaped(acts[a], down)
  BY DEF ReconcileStalledActions
<1>2. acts[a] \in Record /\ acts[a].age \in Nat /\ ExpiryWindow \in Nat /\ ExecTimeout \in Nat
  BY TimingAssumption, SMT DEF TypeOK, Record
<1>3. acts[a].status \notin ReaperSkips
  BY DEF Timed, InFlight, ReaperSkips
<1>4. \A s \in {"EXPIRED", "TIMEOUT"} : Moved(acts[a], s).status \notin Timed
  BY DEF Moved, Timed, InFlight
<1>5. ~ Expired(acts[a])
  BY <1>1, <1>3, <1>4 DEF Reaped
<1>6. ~ (acts[a].status \in {"DELIVERED"} \cup InFlight /\ StallLimitPassed(acts[a], down))
  BY <1>1, <1>3, <1>4, <1>5 DEF Reaped
<1>7. acts'[a] = acts[a]
  BY <1>1, <1>3, <1>5, <1>6 DEF Reaped
<1>8. acts[a].status = "PENDING" => acts[a].age <= ExpiryWindow
  BY <1>2, <1>5, SMT DEF Expired
<1>9. acts[a].status # "PENDING" => acts[a].age <= ExecTimeout
  BY <1>2, <1>6, SMT DEF StallLimitPassed, Timed
<1> QED BY <1>7, <1>8, <1>9

\* The other steps leave a timed record that they do not conclude as it is, with the
\* two exceptions of ClockStep.
LEMMA OthersLeaveClock ==
  ASSUME TypeOK, [Next]_vars, ~ Tick, ~ ReconcileStalledActions, NEW a \in Actions,
         acts[a].status \in Timed, acts'[a].status \in Timed,
         acts[a].status = "PENDING" => acts'[a].status = "PENDING",
         acts[a].status = "DELIVERED" => acts'[a].status = "DELIVERED"
  PROVE  \/ acts'[a] = acts[a]
         \/ acts[a].status = "DELIVERED" /\ ClaimPendingRemediationActions
         \/ acts[a].status \in InFlight /\ \E rep \in Report : RecordRemediationResult(a, rep)
<1>0. acts \in [Actions -> Record] /\ acts[a] \in Record
  BY DEF TypeOK
<1>1. ASSUME NEW b \in Actions, Create(b)
      PROVE  acts'[a] = acts[a]
  BY <1>0, <1>1 DEF Create, Timed, InFlight
<1>2. CASE ClaimPendingRemediationActions
  <2>1. acts'[a] = Claimed(acts[a])
    BY <1>2 DEF ClaimPendingRemediationActions
  <2>2. CASE acts[a].status = "PENDING"
    BY <1>0, <2>1, <2>2, ClaimedEffect DEF Claimable, Claimed
  <2>3. CASE acts[a].status \in InFlight
    BY <2>1, <2>3 DEF Claimed, Claimable, Expired, InFlight
  <2> QED BY <1>2, <2>2, <2>3 DEF Timed
<1>3. ASSUME NEW b \in Actions, NEW rep \in Report, RecordRemediationResult(b, rep)
      PROVE  \/ acts'[a] = acts[a]
             \/ acts[a].status \in InFlight /\ RecordRemediationResult(a, rep)
  <2>1. CASE b # a
    BY <1>0, <1>3, <2>1 DEF RecordRemediationResult
  <2>2. CASE b = a /\ acts[a].status \notin InFlight
    <3>1. acts'[a] = Recorded(acts[a], rep)
      BY <1>0, <1>3, <2>2 DEF RecordRemediationResult
    <3>2. acts[a].status \in {"PENDING", "DELIVERED"} /\ acts'[a].status \in ReportedStatus
      BY <1>0, <2>2, <3>1, RecordedEffect DEF Timed, ReportGuarded
    <3> QED BY <3>2 DEF ReportedStatus, InFlight
  <2> QED BY <1>3, <2>1, <2>2
<1>4. ASSUME NEW b \in Actions, CancelRemediationAction(b)
      PROVE  acts'[a] = acts[a]
  <2>1. CASE b # a
    BY <1>0, <1>4, <2>1 DEF CancelRemediationAction
  <2>2. CASE b = a
    <3>1. acts'[a].status = "CANCELLED"
      BY <1>0, <1>4, <2>2, CancellableStatus DEF CancelRemediationAction
    <3> QED BY <3>1 DEF Timed, InFlight
  <2> QED BY <2>1, <2>2
<1>5. ASSUME NEW i \in Incidents, DisableIncidentAutoHealing(i)
      PROVE  acts'[a] = acts[a]
  <2>1. acts'[a] \in {acts[a], Cancelled(acts[a])}
    BY <1>5 DEF DisableIncidentAutoHealing
  <2>2. Cancelled(acts[a]).status \notin Timed
    BY DEF Cancelled, Moved, Timed, InFlight
  <2> QED BY <2>1, <2>2
<1>6. CASE SyncClusterResources
  <2>1. acts[a].status \notin {"SUCCEEDED", "ABSENT"}
    BY DEF Timed, InFlight
  <2> QED BY <1>6, <2>1 DEF SyncClusterResources
<1>7. ASSUME NEW healed \in SUBSET Actions, ExecuteAutoHeal(healed)
      PROVE  acts'[a] = acts[a]
  BY <1>7 DEF ExecuteAutoHeal, Timed, InFlight
<1>8. CASE UNCHANGED vars
  BY <1>8 DEF vars
<1> QED BY <1>1, <1>2, <1>3, <1>4, <1>5, <1>6, <1>7, <1>8 DEF Next

LEMMA EveryClockStep ==
  ASSUME TypeOK, [Next]_vars, NEW a \in Actions
  PROVE  ClockStep(a)
<1>1. TypeOK /\ acts[a].age \in Nat /\ acts[a].age >= acts[a].age
  BY TimingAssumption, SMT DEF TypeOK, Record
<1>2. SUFFICES ASSUME acts[a].status \in Timed, acts'[a].status \in Timed,
                      acts[a].status = "PENDING" => acts'[a].status = "PENDING",
                      acts[a].status = "DELIVERED" => acts'[a].status = "DELIVERED"
               PROVE  \/ ClockRuns(a, IF acts[a].status = "PENDING" THEN ExpiryWindow ELSE ExecTimeout)
                      \/ acts[a].status = "DELIVERED" /\ ClaimPendingRemediationActions
                      \/ /\ acts[a].status \in InFlight
                         /\ \E rep \in Report : RecordRemediationResult(a, rep)
  BY Zenon DEF ClockStep, Timed, InFlight
<1>3. /\ Tick => /\ acts'[a].age >= acts[a].age
                 /\ acts'[a].age = acts[a].age + 1 \/ acts[a].age = Horizon
      /\ ReconcileStalledActions =>
           /\ acts'[a] = acts[a]
           /\ acts[a].status = "PENDING" => acts[a].age <= ExpiryWindow
           /\ acts[a].status # "PENDING" => acts[a].age <= ExecTimeout
  BY <1>1, <1>2, TickMovesOn, ReaperLeavesYoung
<1>4. Tick \/ ReconcileStalledActions =>
        ClockRuns(a, IF acts[a].status = "PENDING" THEN ExpiryWindow ELSE ExecTimeout)
  BY <1>1, <1>3 DEF ClockRuns
<1>5. ~ Tick /\ ~ ReconcileStalledActions /\ acts'[a] = acts[a] =>
        ClockRuns(a, IF acts[a].status = "PENDING" THEN ExpiryWindow ELSE ExecTimeout)
  BY <1>1 DEF ClockRuns
<1> QED BY <1>2, <1>4, <1>5, OthersLeaveClock

-----------------------------------------------------------------------------
(* The theorems.                                                           *)

\* The store's records stay well-formed whatever agents report.
THEOREM TypeCorrect == Spec => []TypeOK
<1>1. IInv => TypeOK
  BY DEF IInv
<1> QED BY <1>1, InvariantIInv, PTL

\* A cancelled or expired action was never given to an agent.
THEOREM WithdrawnSafe == Spec => []WithdrawnNeverHanded
<1>1. IInv => WithdrawnNeverHanded
  BY SMT DEF IInv, HandoverInv, WithdrawnNeverHanded, Unhanded
<1> QED BY <1>1, InvariantIInv, PTL

\* No report, claim, cancellation or time-out changes a final status.
THEOREM FinalityTheorem == Spec => FinalStatusesStay
<1>1. IInv /\ [Next]_vars =>
        [\A a \in Actions : acts[a].status \in Settled => acts'[a].status = acts[a].status]_vars
  <2> SUFFICES ASSUME IInv, [Next]_vars, NEW a \in Actions, acts[a].status \in Settled
               PROVE  acts'[a].status = acts[a].status
    OBVIOUS
  <2>1. StatusStep(a)
    BY StepEffect
  <2>2. acts[a].status \in {"EXPIRED", "CANCELLED"} => a \notin handed
    BY SMT DEF IInv, HandoverInv, Unhanded
  <2> QED BY <2>1, <2>2, SMT DEF StatusStep, Settled, InFlight, ReportGuarded
<1> QED BY <1>1, InvariantIInv, PTL DEF Spec, FinalStatusesStay

\* A reported success changes only when telemetry verifies it.
THEOREM SuccessTheorem == Spec => SuccessRevisedOnlyByTelemetry
<1>1. IInv /\ [Next]_vars =>
        [\A a \in Actions : acts[a].status = "SUCCEEDED" =>
           acts'[a].status \in {"SUCCEEDED", "VERIFIED_RESOLVED", "ROLLED_BACK",
                                "VERIFICATION_FAILED"}]_vars
  <2> SUFFICES ASSUME IInv, [Next]_vars, NEW a \in Actions, acts[a].status = "SUCCEEDED"
               PROVE  acts'[a].status \in {"SUCCEEDED", "VERIFIED_RESOLVED", "ROLLED_BACK",
                                           "VERIFICATION_FAILED"}
    OBVIOUS
  <2>1. StatusStep(a)
    BY StepEffect
  <2> QED BY <2>1, SMT DEF StatusStep, InFlight, ReportGuarded
<1> QED BY <1>1, InvariantIInv, PTL DEF Spec, SuccessRevisedOnlyByTelemetry

\* The part of PendingResolves and InFlightResolves that is not liveness: no step turns
\* back the clock of an action that waits, only a claim that of a delivered one and
\* only a report that of one in flight; each tick moves it on, and beyond its limit the
\* reaper releases the action.  What is left to fairness is that time passes and that
\* the reaper runs.
THEOREM ClockTheorem == Spec => [][\A a \in Actions : ClockStep(a)]_vars
<1>1. TypeOK /\ [Next]_vars => [\A a \in Actions : ClockStep(a)]_vars
  BY EveryClockStep
<1> QED BY <1>1, TypeCorrect, PTL DEF Spec

=============================================================================

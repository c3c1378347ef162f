------------------------ MODULE RemediationEngineProofs ------------------------
(***************************************************************************)
(* Theorems about RemediationEngine, for every set of actions, incidents   *)
(* and targets: the engine implements ActionStore, two actions share a     *)
(* target only where the code does not ask for the lock, a pause holds     *)
(* back what the policy dispatched, a success stays in the closed loop     *)
(* until telemetry has judged it, and the policy keeps to its attempts.    *)
(*                                                                         *)
(* StepOK says what one step of the engine is for the store and for each   *)
(* action; every action of the engine is shown to take such a step.  What  *)
(* the store's step does to a status is then the lemma StepEffect of       *)
(* ActionStoreProofs, which is used here through SP.                       *)
(***************************************************************************)
EXTENDS RemediationEngine, TLAPS, FiniteSetTheorems

SP == INSTANCE ActionStoreProofs

-----------------------------------------------------------------------------
(* What each operator of ActionRecord does to a record: the lemmas of      *)
(* ActionStoreProofs, for the records of the engine.                       *)

\* What the engine assumes of its constants is what the store asks for.
LEMMA SameAssumptions == SP!TimingAssumption /\ SP!StoreAssumption
BY TimingAssumption, EngineAssumption DEF SP!TimingAssumption, SP!StoreAssumption

\* The instance's copies of ActionRecord's operators are the operators.
LEMMA SameRecords ==
  /\ SP!Record = Record /\ SP!Report = Report /\ SP!Verdict = Verdict /\ SP!Status = Status
  /\ SP!ReportGuarded = ReportGuarded /\ SP!InFlight = InFlight
  /\ \A r : /\ SP!Older(r) = Older(r)
            /\ SP!Claimed(r) = Claimed(r)
            /\ SP!Claimable(r) = Claimable(r)
            /\ SP!Cancellable(r) = Cancellable(r)
            /\ SP!Cancelled(r) = Cancelled(r)
            /\ SP!ReportsSuccess(r) = ReportsSuccess(r)
  /\ \A r, x : /\ SP!Moved(r, x) = Moved(r, x)
               /\ SP!Reaped(r, x) = Reaped(r, x)
               /\ SP!Recorded(r, x) = Recorded(r, x)
  /\ \A r, v, b : SP!Verified(r, v, b) = Verified(r, v, b)
BY Zenon DEF SP!Record, Record, SP!Status, Status, SP!Settled, Settled, SP!Moved, Moved, SP!Older, Older,
       SP!Expired, Expired, SP!Claimable, Claimable, SP!Claimed, Claimed,
       SP!StallLimitPassed, StallLimitPassed, SP!Reaped, Reaped, SP!ReaperSkips, ReaperSkips,
       SP!InFlight, InFlight, SP!ReportGuarded, ReportGuarded, SP!ReportState, ReportState,
       SP!UnderWay, UnderWay, SP!Report, Report, SP!ReportsSuccess, ReportsSuccess,
       SP!ConcludedStatus, ConcludedStatus, SP!Reported, Reported, SP!Recorded, Recorded,
       SP!Cancellable, Cancellable, SP!Cancelled, Cancelled, SP!ValidTransition, ValidTransition,
       SP!AllowedTransitions, AllowedTransitions, SP!Verdict, Verdict,
       SP!VerifiedStatus, VerifiedStatus, SP!Verified, Verified

\* The statuses a report can leave behind.
ReportedStatus == InFlight \cup {"SUCCEEDED", "FAILED", "TIMEOUT", "ROLLED_BACK"}

LEMMA MovedEffect ==
  ASSUME NEW r \in Record, NEW status \in Status
  PROVE  Moved(r, status) \in Record /\ Moved(r, status).status = status
BY SP!MovedEffect, SameRecords, SameAssumptions DEF SP!TimingAssumption, SP!StoreAssumption

LEMMA OlderIsRecord ==
  ASSUME NEW r \in Record
  PROVE  /\ Older(r) \in Record
         /\ Older(r).status = r.status
BY SP!OlderIsRecord, SameRecords, SameAssumptions DEF SP!TimingAssumption, SP!StoreAssumption

LEMMA ClaimedEffect ==
  ASSUME NEW r \in Record
  PROVE  /\ Claimed(r) \in Record
         /\ Claimable(r) => Claimed(r).status = "DELIVERED"
         /\ ~ Claimable(r) => \/ Claimed(r) = r
                              \/ r.status = "PENDING" /\ Claimed(r).status = "EXPIRED"
         /\ Claimable(r) => r.status \in {"PENDING", "DELIVERED"}
BY SP!ClaimedEffect, SameRecords, SameAssumptions DEF SP!TimingAssumption, SP!StoreAssumption

LEMMA ReapedEffect ==
  ASSUME NEW r \in Record, NEW down \in BOOLEAN
  PROVE  /\ Reaped(r, down) \in Record
         /\ \/ Reaped(r, down) = r
            \/ r.status = "PENDING" /\ Reaped(r, down).status = "EXPIRED"
            \/ /\ r.status \in {"DELIVERED", "EXECUTING", "VERIFYING", "ROLLING_BACK"}
               /\ Reaped(r, down).status = "TIMEOUT"
BY SP!ReapedEffect, SameRecords, SameAssumptions DEF SP!TimingAssumption, SP!StoreAssumption

LEMMA RecordedEffect ==
  ASSUME NEW r \in Record, NEW rep \in Report
  PROVE  /\ Recorded(r, rep) \in Record
         /\ r.status \in ReportGuarded => Recorded(r, rep) = r
         /\ r.status \notin ReportGuarded => Recorded(r, rep).status \in ReportedStatus
BY SP!RecordedEffect, SameRecords, SameAssumptions
   DEF SP!TimingAssumption, SP!StoreAssumption, SP!ReportedStatus, ReportedStatus

LEMMA VerifiedEffect ==
  ASSUME NEW r \in Record, NEW verdict \in Verdict, NEW isRollback \in BOOLEAN
  PROVE  /\ Verified(r, verdict, isRollback) \in Record
         /\ \/ Verified(r, verdict, isRollback) = r
            \/ /\ r.status = "SUCCEEDED"
               /\ Verified(r, verdict, isRollback).status
                    \in {"VERIFIED_RESOLVED", "ROLLED_BACK", "VERIFICATION_FAILED"}
BY SP!VerifiedEffect, SameRecords, SameAssumptions DEF SP!TimingAssumption, SP!StoreAssumption

-----------------------------------------------------------------------------
(* One step, seen from the store and from one action.                      *)

\* An action keeps its path; a new one has asked for the lock when its path says
\* so, and is then the only one that changes.
PathStep(a) ==
  \/ path'[a] = path[a] /\ (acts[a].status = "ABSENT" => acts'[a].status = "ABSENT")
  \/ /\ acts[a].status = "ABSENT"
     /\ path'[a] \in AskingPath => ~TargetBusy(a) /\ \A b \in Actions \ {a} : acts'[b] = acts[b]
     /\ path'[a] = "autonomous"
        => ~paused'[IncidentOf[a]] /\ failures[IncidentOf[a]] < MaxAttempts

\* Whoever gives the lock up other than for good is remembered.
Lapses == {"ROLLING_BACK", "VERIFICATION_FAILED"}

LapsedStep(a) ==
  /\ lapsed \subseteq lapsed'
  /\ acts'[a].status \in Lapses => acts[a].status \in Lapses \/ a \in lapsed'

\* Only a pause may begin, and it leaves nothing of its incident waiting.
PauseStep(a) ==
  paused'[IncidentOf[a]] => paused[IncidentOf[a]] \/ acts'[a].status # "PENDING"

ActionStep(a) == PathStep(a) /\ LapsedStep(a) /\ PauseStep(a)

StepOK ==
  /\ TypeOK'
  /\ [Store!Next]_(Store!vars)
  /\ \A a \in Actions : ActionStep(a)

\* The copies of ActionRecord's operators that the two instances make.
LEMMA SameOperators ==
  /\ Store!NoRecord = NoRecord
  /\ Store!NewRecord = NewRecord
  /\ Store!Report = Report
  /\ Store!Verdict = Verdict
  /\ \A r : /\ Store!Claimed(r) = Claimed(r)
            /\ Store!Claimable(r) = Claimable(r)
            /\ Store!Cancellable(r) = Cancellable(r)
            /\ Store!Cancelled(r) = Cancelled(r)
            /\ Store!Older(r) = Older(r)
  /\ \A r, down : Store!Reaped(r, down) = Reaped(r, down)
  /\ \A r, rep : Store!Recorded(r, rep) = Recorded(r, rep)
  /\ \A r, verdict, rollback : Store!Verified(r, verdict, rollback) = Verified(r, verdict, rollback)
<1>1. /\ Store!NoRecord = NoRecord /\ Store!NewRecord = NewRecord
      /\ Store!Report = Report /\ Store!Verdict = Verdict
  BY DEF Store!NoRecord, NoRecord, Store!NewRecord, NewRecord, Store!Report, Report,
         Store!ReportState, ReportState, Store!UnderWay, UnderWay, Store!Verdict, Verdict
<1>2. \A r : /\ Store!Claimed(r) = Claimed(r)
             /\ Store!Claimable(r) = Claimable(r)
             /\ Store!Cancelled(r) = Cancelled(r)
             /\ Store!Older(r) = Older(r)
  BY DEF Store!Claimed, Claimed, Store!Claimable, Claimable, Store!Cancelled, Cancelled,
         Store!Older, Older, Store!Expired, Expired, Store!Moved, Moved, Store!Settled, Settled
<1>3. \A r : Store!Cancellable(r) = Cancellable(r)
  BY DEF Store!Cancellable, Cancellable, Store!ValidTransition, ValidTransition,
         Store!AllowedTransitions, AllowedTransitions, Store!Status, Status,
         Store!InFlight, InFlight, Store!ReportGuarded, ReportGuarded
<1>4. \A r, down : Store!Reaped(r, down) = Reaped(r, down)
  BY DEF Store!Reaped, Reaped, Store!Expired, Expired, Store!Moved, Moved, Store!Settled, Settled,
         Store!ReaperSkips, ReaperSkips, Store!InFlight, InFlight,
         Store!StallLimitPassed, StallLimitPassed
<1>5. \A r, rep : Store!Recorded(r, rep) = Recorded(r, rep)
  BY DEF Store!Recorded, Recorded, Store!ReportGuarded, ReportGuarded, Store!Reported, Reported,
         Store!ConcludedStatus, ConcludedStatus, Store!ReportsSuccess, ReportsSuccess,
         Store!Moved, Moved, Store!Settled, Settled
<1>6. \A r, verdict, rollback : Store!Verified(r, verdict, rollback) = Verified(r, verdict, rollback)
  BY DEF Store!Verified, Verified, Store!VerifiedStatus, VerifiedStatus,
         Store!Moved, Moved, Store!Settled, Settled
<1> QED BY <1>1, <1>2, <1>3, <1>4, <1>5, <1>6

\* Both instances are the same store.
LEMMA SameStore ==
  /\ Store!Next <=> SP!Next
  /\ Store!vars = SP!vars
BY DEF Store!vars, SP!vars, Store!Next, SP!Next, Store!Create, SP!Create,
       Store!ClaimPendingRemediationActions, SP!ClaimPendingRemediationActions,
       Store!RecordRemediationResult, SP!RecordRemediationResult,
       Store!CancelRemediationAction, SP!CancelRemediationAction,
       Store!DisableIncidentAutoHealing, SP!DisableIncidentAutoHealing,
       Store!ExecuteAutoHeal, SP!ExecuteAutoHeal,
       Store!ReconcileStalledActions, SP!ReconcileStalledActions,
       Store!SyncClusterResources, SP!SyncClusterResources, Store!Tick, SP!Tick,
       Store!NewRecord, SP!NewRecord, Store!Status, SP!Status, Store!Settled, SP!Settled,
       Store!Moved, SP!Moved, Store!Older, SP!Older, Store!Expired, SP!Expired,
       Store!Claimable, SP!Claimable, Store!Claimed, SP!Claimed,
       Store!StallLimitPassed, SP!StallLimitPassed, Store!Reaped, SP!Reaped,
       Store!ReaperSkips, SP!ReaperSkips, Store!InFlight, SP!InFlight,
       Store!ReportGuarded, SP!ReportGuarded, Store!ReportState, SP!ReportState,
       Store!UnderWay, SP!UnderWay, Store!Report, SP!Report,
       Store!ReportsSuccess, SP!ReportsSuccess, Store!ConcludedStatus, SP!ConcludedStatus,
       Store!Reported, SP!Reported, Store!Recorded, SP!Recorded,
       Store!Cancellable, SP!Cancellable, Store!Cancelled, SP!Cancelled,
       Store!ValidTransition, SP!ValidTransition,
       Store!AllowedTransitions, SP!AllowedTransitions, Store!Verdict, SP!Verdict,
       Store!VerifiedStatus, SP!VerifiedStatus, Store!Verified, SP!Verified

-----------------------------------------------------------------------------
(* Steps that leave the actions alone.                                     *)

\* A handler that changes neither an action nor its path, and lets no pause begin.
LEMMA QuietStep ==
  ASSUME TypeOK, TypeOK', UNCHANGED <<records, path>>, lapsed \subseteq lapsed',
         \A i \in Incidents : paused'[i] => paused[i]
  PROVE  StepOK
<1>1. UNCHANGED Store!vars
  BY DEF records, Store!vars
<1>2. ASSUME NEW a \in Actions PROVE ActionStep(a)
  <2>1. acts'[a] = acts[a] /\ path'[a] = path[a] /\ IncidentOf[a] \in Incidents
    BY EngineAssumption DEF records
  <2> QED BY <2>1 DEF ActionStep, PathStep, LapsedStep, PauseStep
<1> QED BY <1>1, <1>2 DEF StepOK

LEMMA DialogueStep ==
  ASSUME TypeOK, NEW i \in Incidents,
         \/ CreateIncident(i)
         \/ \E succeeded \in BOOLEAN : SaveAIAnalysis(i, succeeded)
         \/ RejectRemediation(i)
         \/ ResolveManually(i)
         \/ \E status \in {"ACTIVE", "CLOSED"} : UpdateIncident(i, status)
  PROVE  StepOK
<1>1. UNCHANGED <<records, path, latest, failures, paused>> /\ lapsed' = lapsed
  BY DEF CreateIncident, SaveAIAnalysis, RejectRemediation, ResolveManually, UpdateIncident, history
<1>2. Unsettled({i}) \subseteq Incidents
  BY DEF Unsettled
<1>3. /\ incident' \in [Incidents -> IncidentStatus]
      /\ proposal' \in [Incidents -> ProposalStatus]
      /\ reversing' \in [Incidents -> BOOLEAN]
      /\ disturbed' \subseteq Incidents
  BY <1>2 DEF CreateIncident, SaveAIAnalysis, RejectRemediation, ResolveManually, UpdateIncident,
              history, TypeOK, IncidentStatus, ProposalStatus
<1>4. TypeOK'
  BY <1>1, <1>3 DEF TypeOK, records
<1> QED BY <1>1, <1>4, QuietStep

LEMMA DeleteStep ==
  ASSUME TypeOK, NEW gone \in SUBSET Incidents, DeleteIncidents(gone)
  PROVE  StepOK
<1>1. UNCHANGED <<records, path, latest, failures, paused>> /\ lapsed' = lapsed
  BY DEF DeleteIncidents
<1>2. Unsettled(gone) \subseteq Incidents
  BY DEF Unsettled
<1>3. /\ incident' \in [Incidents -> IncidentStatus]
      /\ proposal' \in [Incidents -> ProposalStatus]
      /\ reversing' \in [Incidents -> BOOLEAN]
      /\ disturbed' \subseteq Incidents
  BY <1>2 DEF DeleteIncidents, TypeOK, IncidentStatus, ProposalStatus
<1>4. TypeOK'
  BY <1>1, <1>3 DEF TypeOK, records
<1> QED BY <1>1, <1>4, QuietStep

-----------------------------------------------------------------------------
(* Steps that create actions.                                              *)

LEMMA NewRecordIsRecord == NewRecord \in Record /\ NewRecord.status = "PENDING"
BY TimingAssumption, SMT DEF NewRecord, Record, Status

\* One new action, waiting: the store creates it.
LEMMA NewActionStep ==
  ASSUME TypeOK, TypeOK', NEW a \in Actions, Unused(a), NEW by \in Path,
         acts' = [acts EXCEPT ![a] = NewRecord], path' = [path EXCEPT ![a] = by],
         UNCHANGED <<handed, reports>>, lapsed' = lapsed,
         \A i \in Incidents : paused'[i] => paused[i],
         by \in AskingPath => ~TargetBusy(a),
         by = "autonomous" => ~paused'[IncidentOf[a]] /\ failures[IncidentOf[a]] < MaxAttempts
  PROVE  StepOK
<1>1. Store!Create(a)
  BY SameOperators DEF Unused, Store!Create
<1>2. ASSUME NEW b \in Actions PROVE ActionStep(b)
  <2>1. CASE b = a
    <3>1. acts[b].status = "ABSENT" /\ acts'[b] = NewRecord /\ path'[b] = by
      BY <2>1 DEF Unused, TypeOK
    <3>2. \A c \in Actions \ {b} : acts'[c] = acts[c]
      BY <2>1 DEF TypeOK
    <3>3. PathStep(b)
      BY <2>1, <3>1, <3>2 DEF PathStep
    <3>4. LapsedStep(b)
      BY <3>1, NewRecordIsRecord DEF LapsedStep, Lapses
    <3>5. PauseStep(b)
      BY EngineAssumption DEF PauseStep
    <3> QED BY <3>3, <3>4, <3>5 DEF ActionStep
  <2>2. CASE b # a
    <3>1. acts'[b] = acts[b] /\ path'[b] = path[b]
      BY <2>2 DEF TypeOK
    <3> QED BY <3>1, EngineAssumption DEF ActionStep, PathStep, LapsedStep, PauseStep
  <2> QED BY <2>1, <2>2
<1> QED BY <1>1, <1>2 DEF StepOK, Store!Next

\* Dispatch keeps every variable it assigns well-formed.
LEMMA DispatchTypes ==
  ASSUME TypeOK, NEW a \in Actions, NEW by \in Path, Dispatch(a, by),
         reversing' \in [Incidents -> BOOLEAN], paused' \in [Incidents -> BOOLEAN]
  PROVE  TypeOK'
<1>1. acts' \in [Actions -> Record]
  BY NewRecordIsRecord DEF Dispatch, TypeOK
<1>2. path' \in [Actions -> Path \cup {"none"}]
  BY DEF Dispatch, TypeOK
<1>3. /\ latest' \in [Incidents -> Actions \cup {None}]
      /\ \A i \in Incidents : latest'[i] # None => IncidentOf[latest'[i]] = i
  BY EngineAssumption DEF Dispatch, TypeOK
<1>4. /\ incident' \in [Incidents -> IncidentStatus]
      /\ proposal' \in [Incidents -> ProposalStatus]
  BY EngineAssumption DEF Dispatch, TypeOK, IncidentStatus, ProposalStatus
<1>5. disturbed' \subseteq Incidents
  BY EngineAssumption DEF Dispatch, TypeOK, Unsettled
<1>6. UNCHANGED <<handed, reports, failures, lapsed>>
  BY DEF Dispatch
<1> QED BY <1>1, <1>2, <1>3, <1>4, <1>5, <1>6 DEF TypeOK

\* An operator dispatches the proposal, or takes the incident over.
LEMMA OperatorStep ==
  ASSUME TypeOK, NEW a \in Actions,
         ApproveRemediation(a) \/ TriggerManualHeal(a) \/ RollbackRemediation(a)
  PROVE  StepOK
<1>1. CASE ApproveRemediation(a)
  <2>1. Dispatch(a, "operator") /\ Unused(a) /\ ~TargetBusy(a) /\ UNCHANGED <<reversing, paused>>
    BY <1>1 DEF ApproveRemediation
  <2>2. TypeOK'
    BY <2>1, DispatchTypes DEF TypeOK, Path
  <2> QED BY <2>1, <2>2, NewActionStep DEF Dispatch, Path, AskingPath
<1>2. CASE TriggerManualHeal(a)
  <2>1. Dispatch(a, "operator") /\ Unused(a) /\ ~TargetBusy(a) /\ UNCHANGED <<reversing, paused>>
    BY <1>2 DEF TriggerManualHeal
  <2>2. TypeOK'
    BY <2>1, DispatchTypes DEF TypeOK, Path
  <2> QED BY <2>1, <2>2, NewActionStep DEF Dispatch, Path, AskingPath
<1>3. CASE RollbackRemediation(a)
  <2>1. /\ Dispatch(a, "reversal") /\ Unused(a) /\ UNCHANGED paused
        /\ reversing' = [reversing EXCEPT ![IncidentOf[a]] = TRUE]
    BY <1>3 DEF RollbackRemediation
  <2>2. TypeOK'
    BY <2>1, DispatchTypes DEF TypeOK, Path
  <2> QED BY <2>1, <2>2, NewActionStep DEF Dispatch, Path, AskingPath
<1> QED BY <1>1, <1>2, <1>3

\* The policy dispatches where no pause is in force.
LEMMA PolicyStep ==
  ASSUME TypeOK, NEW a \in Actions, DispatchAutonomously(a),
         reversing' \in [Incidents -> BOOLEAN], paused' \in [Incidents -> BOOLEAN],
         \A i \in Incidents : paused'[i] => paused[i],
         ~paused'[IncidentOf[a]]
  PROVE  StepOK
<1>1. /\ Dispatch(a, "autonomous") /\ Unused(a) /\ ~TargetBusy(a)
      /\ failures[IncidentOf[a]] < MaxAttempts
  BY DEF DispatchAutonomously
<1>2. TypeOK'
  BY <1>1, DispatchTypes DEF Path
<1> QED BY <1>1, <1>2, NewActionStep DEF Dispatch, Path

LEMMA SaveRemediationStep ==
  ASSUME TypeOK, NEW i \in Incidents, SaveRemediation(i)
  PROVE  StepOK
<1>1. reversing' \in [Incidents -> BOOLEAN]
  BY DEF SaveRemediation, TypeOK
<1>2. CASE /\ proposal' = [proposal EXCEPT ![i] = "PROPOSED"]
           /\ UNCHANGED <<records, path, latest, incident, failures, paused, lapsed>>
  <2>1. disturbed' \subseteq Incidents
    BY DEF SaveRemediation, TypeOK, Unsettled
  <2>2. TypeOK'
    BY <1>1, <1>2, <2>1 DEF TypeOK, records, ProposalStatus
  <2> QED BY <1>2, <2>2, QuietStep
<1>3. CASE /\ ~paused[i]
           /\ \E a \in Actions : IncidentOf[a] = i /\ DispatchAutonomously(a)
           /\ UNCHANGED paused
  BY <1>1, <1>3, PolicyStep DEF TypeOK
<1> QED BY <1>2, <1>3 DEF SaveRemediation

LEMMA EnableStep ==
  ASSUME TypeOK, NEW i \in Incidents, EnableIncidentAutoHealing(i)
  PROVE  StepOK
<1>1. paused' \in [Incidents -> BOOLEAN] /\ ~paused'[i] /\ \A j \in Incidents : paused'[j] => paused[j]
  BY DEF EnableIncidentAutoHealing, TypeOK
<1>2. CASE UNCHANGED <<records, path, latest, dialogue, history>>
  <2>1. TypeOK'
    BY <1>1, <1>2 DEF TypeOK, records, dialogue, history
  <2> QED BY <1>1, <1>2, <2>1, QuietStep DEF history
<1>3. CASE /\ \E a \in Actions : IncidentOf[a] = i /\ DispatchAutonomously(a)
           /\ UNCHANGED reversing
  BY <1>1, <1>3, PolicyStep DEF TypeOK
<1> QED BY <1>2, <1>3 DEF EnableIncidentAutoHealing

LEMMA ImageStep ==
  ASSUME TypeOK, NEW a \in Actions, ApprovePodImageReplacement(a)
  PROVE  StepOK
<1>1. /\ acts' = [acts EXCEPT ![a] = NewRecord]
      /\ path' = [path EXCEPT ![a] = "image"]
      /\ Unused(a)
      /\ UNCHANGED <<handed, reports, reversing, failures, paused, lapsed>>
  BY DEF ApprovePodImageReplacement
<1>2. acts' \in [Actions -> Record] /\ path' \in [Actions -> Path \cup {"none"}]
  BY <1>1, NewRecordIsRecord DEF TypeOK, Path
<1>3. /\ latest' \in [Incidents -> Actions \cup {None}]
      /\ \A i \in Incidents : latest'[i] # None => IncidentOf[latest'[i]] = i
      /\ incident' \in [Incidents -> IncidentStatus]
  BY EngineAssumption DEF ApprovePodImageReplacement, TypeOK, IncidentStatus
<1>4. proposal' \in [Incidents -> ProposalStatus]
  BY EngineAssumption DEF ApprovePodImageReplacement, TypeOK, ProposalStatus
<1>5. disturbed' \subseteq Incidents
  BY EngineAssumption DEF ApprovePodImageReplacement, TypeOK, Unsettled
<1>6. TypeOK'
  BY <1>1, <1>2, <1>3, <1>4, <1>5 DEF TypeOK
<1> QED BY <1>1, <1>6, NewActionStep DEF Path, AskingPath

LEMMA OperationStep ==
  ASSUME TypeOK, NEW a \in Actions, ExecuteClusterResourceOperation(a)
  PROVE  StepOK
<1>1. /\ acts' = [acts EXCEPT ![a] = NewRecord]
      /\ path' = [path EXCEPT ![a] = "operation"]
      /\ Unused(a)
      /\ UNCHANGED <<handed, reports, dialogue, paused, history>>
  BY DEF ExecuteClusterResourceOperation
<1>2. acts' \in [Actions -> Record] /\ path' \in [Actions -> Path \cup {"none"}]
  BY <1>1, NewRecordIsRecord DEF TypeOK, Path
<1>3. /\ latest' \in [Incidents -> Actions \cup {None}]
      /\ \A i \in Incidents : latest'[i] # None => IncidentOf[latest'[i]] = i
  BY EngineAssumption DEF ExecuteClusterResourceOperation, TypeOK
<1>4. TypeOK'
  BY <1>1, <1>2, <1>3 DEF TypeOK, dialogue, history
<1> QED BY <1>1, <1>4, NewActionStep DEF Path, AskingPath, history

-----------------------------------------------------------------------------
(* Steps that change the records of actions.                               *)

\* The action has been created and has not come to its end.
Open(r) == r.status \notin Settled \cup {"ABSENT"}

\* A record changes, and none comes into being, is taken up again, returns to
\* PENDING, lapses, succeeds or fails.
Mild(r, n) ==
  /\ n \in Record
  /\ r.status = "ABSENT" => n.status = "ABSENT"
  /\ n.status \in {"PENDING", "SUCCEEDED", "FAILED"} \cup Lapses => r.status = n.status
  /\ Open(n) => Open(r)

\* Claims, the reaper, time and cancellation are of this kind.
LEMMA MildOperators ==
  ASSUME NEW r \in Record
  PROVE  /\ Mild(r, r)
         /\ Mild(r, Claimed(r))
         /\ \A down \in BOOLEAN : Mild(r, Reaped(r, down))
         /\ Mild(r, Older(r))
         /\ r.status # "ABSENT" => Mild(r, Cancelled(r))
         /\ Cancelled(r).status = "CANCELLED"
<1>1. Cancelled(r) \in Record /\ Cancelled(r).status = "CANCELLED"
  <2>1. "CANCELLED" \in Status
    BY SMT DEF Status
  <2> QED BY <2>1, MovedEffect DEF Cancelled
<1>2. Mild(r, Claimed(r))
  BY ClaimedEffect, SMT DEF Mild, Lapses, Open, Settled
<1>3. ASSUME NEW down \in BOOLEAN PROVE Mild(r, Reaped(r, down))
  BY ReapedEffect, SMT DEF Mild, Lapses, Open, Settled
<1>4. Mild(r, Older(r))
  BY OlderIsRecord DEF Mild, Open
<1> QED BY <1>1, <1>2, <1>3, <1>4, SMT DEF Mild, Lapses, Open, Settled

\* These are the handlers that change records so.
LEMMA MildHandlers ==
  ASSUME TypeOK,
         \/ ClaimPendingRemediationActions
         \/ ReconcileStalledActions
         \/ Tick
         \/ \E i \in Incidents : DisableIncidentAutoHealing(i)
         \/ \E a \in Actions : CancelRemediationAction(a)
  PROVE  \A b \in Actions : Mild(acts[b], acts'[b])
<1> SUFFICES ASSUME NEW b \in Actions PROVE Mild(acts[b], acts'[b])
  OBVIOUS
<1>0. acts[b] \in Record
  BY DEF TypeOK
<1>1. CASE ClaimPendingRemediationActions
  <2>1. acts'[b] = Claimed(acts[b])
    BY <1>1 DEF ClaimPendingRemediationActions
  <2> QED BY <1>0, <2>1, MildOperators
<1>2. CASE ReconcileStalledActions
  <2>1. PICK down \in BOOLEAN : acts' = [a \in Actions |-> Reaped(acts[a], down)]
    BY <1>2 DEF ReconcileStalledActions
  <2>2. acts'[b] = Reaped(acts[b], down)
    BY <2>1
  <2> QED BY <1>0, <2>2, MildOperators
<1>3. CASE Tick
  <2>1. acts'[b] = Older(acts[b])
    BY <1>3 DEF Tick
  <2> QED BY <1>0, <2>1, MildOperators
<1>4. ASSUME NEW i \in Incidents, DisableIncidentAutoHealing(i)
      PROVE  Mild(acts[b], acts'[b])
  <2>1. \/ acts'[b] = acts[b]
        \/ acts'[b] = Cancelled(acts[b]) /\ acts[b].status # "ABSENT"
    BY <1>4 DEF DisableIncidentAutoHealing
  <2> QED BY <1>0, <2>1, MildOperators
<1>5. ASSUME NEW a \in Actions, CancelRemediationAction(a)
      PROVE  Mild(acts[b], acts'[b])
  <2>1. \/ acts'[b] = acts[b]
        \/ acts'[b] = Cancelled(acts[b]) /\ acts[b].status # "ABSENT"
    BY <1>5 DEF CancelRemediationAction, Cancellable, TypeOK
  <2> QED BY <1>0, <2>1, MildOperators
<1> QED BY <1>1, <1>2, <1>3, <1>4, <1>5

\* A step of the store that creates nothing and begins no pause but with the
\* cancellation that belongs to it.
LEMMA StoreStepOK ==
  ASSUME TypeOK, TypeOK', Store!Next, path' = path, lapsed \subseteq lapsed',
         \A b \in Actions :
           /\ acts[b].status = "ABSENT" => acts'[b].status = "ABSENT"
           /\ acts'[b].status \in Lapses => acts[b].status \in Lapses \/ b \in lapsed'
           /\ PauseStep(b)
  PROVE  StepOK
BY DEF StepOK, ActionStep, PathStep, LapsedStep

LEMMA MildStep ==
  ASSUME TypeOK, Store!Next, UNCHANGED <<path, latest, dialogue, paused, history>>,
         handed' \subseteq Actions, reports' = reports,
         DOMAIN acts' = Actions, acts' = [b \in Actions |-> acts'[b]],
         \A b \in Actions : Mild(acts[b], acts'[b])
  PROVE  StepOK
<1>1. acts' \in [Actions -> Record]
  BY DEF Mild
<1>2. TypeOK'
  BY <1>1 DEF TypeOK, dialogue, history
<1>3. path' = path /\ lapsed \subseteq lapsed' /\ paused' = paused
  BY DEF history
<1>4. ASSUME NEW b \in Actions
      PROVE  /\ acts[b].status = "ABSENT" => acts'[b].status = "ABSENT"
             /\ acts'[b].status \in Lapses => acts[b].status \in Lapses
             /\ PauseStep(b)
  <2>1. Mild(acts[b], acts'[b])
    OBVIOUS
  <2> QED BY <1>3, <2>1 DEF Mild, PauseStep
<1> QED BY <1>2, <1>3, <1>4, StoreStepOK

LEMMA ClaimStep ==
  ASSUME TypeOK, ClaimPendingRemediationActions
  PROVE  StepOK
<1>1. Store!ClaimPendingRemediationActions
  BY SameOperators DEF ClaimPendingRemediationActions, Store!ClaimPendingRemediationActions
<1>2. \A b \in Actions : Mild(acts[b], acts'[b])
  BY MildHandlers
<1>3. handed' \subseteq Actions
  BY DEF ClaimPendingRemediationActions, TypeOK
<1> QED BY <1>1, <1>2, <1>3, MildStep DEF ClaimPendingRemediationActions, Store!Next

LEMMA ReaperStep ==
  ASSUME TypeOK, ReconcileStalledActions
  PROVE  StepOK
<1>1. Store!ReconcileStalledActions
  BY SameOperators DEF ReconcileStalledActions, Store!ReconcileStalledActions
<1>2. \A b \in Actions : Mild(acts[b], acts'[b])
  BY MildHandlers
<1>3. handed' \subseteq Actions
  BY DEF ReconcileStalledActions, TypeOK
<1> QED BY <1>1, <1>2, <1>3, MildStep DEF ReconcileStalledActions, Store!Next

LEMMA TickStep ==
  ASSUME TypeOK, Tick
  PROVE  StepOK
<1>1. Store!Tick
  BY SameOperators DEF Tick, Store!Tick
<1>2. \A b \in Actions : Mild(acts[b], acts'[b])
  BY MildHandlers
<1>3. handed' \subseteq Actions
  BY DEF Tick, TypeOK
<1> QED BY <1>1, <1>2, <1>3, MildStep DEF Tick, Store!Next

LEMMA DisableStep ==
  ASSUME TypeOK, NEW i \in Incidents, DisableIncidentAutoHealing(i)
  PROVE  StepOK
<1>1. Store!DisableIncidentAutoHealing(i)
  BY SameOperators DEF DisableIncidentAutoHealing, Store!DisableIncidentAutoHealing
<1>2. ASSUME NEW b \in Actions
      PROVE  /\ Mild(acts[b], acts'[b])
             /\ IncidentOf[b] = i => acts'[b].status # "PENDING"
  <2>1. Mild(acts[b], acts'[b])
    BY MildHandlers
  <2>2. IncidentOf[b] = i /\ acts[b].status = "PENDING" => acts'[b] = Cancelled(acts[b])
    BY DEF DisableIncidentAutoHealing
  <2>3. acts[b] \in Record
    BY DEF TypeOK
  <2> QED BY <2>1, <2>2, <2>3, MildOperators DEF Mild
<1>3. TypeOK'
  <2>1. acts' \in [Actions -> Record]
    BY <1>2 DEF DisableIncidentAutoHealing, Mild
  <2> QED BY <2>1 DEF DisableIncidentAutoHealing, TypeOK, dialogue, history
<1>4. UNCHANGED <<path, lapsed>> /\ \A j \in Incidents : paused'[j] => paused[j] \/ j = i
  BY DEF DisableIncidentAutoHealing, history, TypeOK
<1>5. ASSUME NEW b \in Actions
      PROVE  /\ acts[b].status = "ABSENT" => acts'[b].status = "ABSENT"
             /\ acts'[b].status \in Lapses => acts[b].status \in Lapses
             /\ PauseStep(b)
  BY <1>2, <1>4, EngineAssumption DEF PauseStep, Mild
<1> QED BY <1>1, <1>3, <1>4, <1>5, StoreStepOK DEF Store!Next

LEMMA CancelStep ==
  ASSUME TypeOK, NEW a \in Actions, CancelRemediationAction(a)
  PROVE  StepOK
<1>1. Store!CancelRemediationAction(a)
  BY SameOperators DEF CancelRemediationAction, Store!CancelRemediationAction
<1>2. \A b \in Actions : Mild(acts[b], acts'[b])
  BY MildHandlers
<1>3. TypeOK'
  <2>1. acts' \in [Actions -> Record]
    BY <1>2 DEF CancelRemediationAction, TypeOK, Mild
  <2>2. proposal' \in [Incidents -> ProposalStatus]
    BY DEF CancelRemediationAction, TypeOK, ProposalStatus
  <2> QED BY <2>1, <2>2 DEF CancelRemediationAction, TypeOK, history
<1>4. UNCHANGED <<path, lapsed, paused>>
  BY DEF CancelRemediationAction, history
<1>5. ASSUME NEW b \in Actions
      PROVE  /\ acts[b].status = "ABSENT" => acts'[b].status = "ABSENT"
             /\ acts'[b].status \in Lapses => acts[b].status \in Lapses
             /\ PauseStep(b)
  BY <1>2, <1>4 DEF PauseStep, Mild
<1> QED BY <1>1, <1>3, <1>4, <1>5, StoreStepOK DEF Store!Next

\* A report is about an action that exists, and may let it lapse.
LEMMA ReportStep ==
  ASSUME TypeOK, NEW a \in Actions, NEW rep \in Report, RecordRemediationResult(a, rep),
         acts[a].status # "ABSENT"
  PROVE  StepOK
<1>1. Store!RecordRemediationResult(a, rep)
  BY SameOperators DEF RecordRemediationResult, Store!RecordRemediationResult
<1>2. acts[a] \in Record /\ Recorded(acts[a], rep) \in Record
  BY RecordedEffect DEF TypeOK
<1>3. TypeOK'
  <2>1. acts' \in [Actions -> Record]
    BY <1>2 DEF RecordRemediationResult, TypeOK
  <2>2. reports' \in 0 .. MaxReports
    BY EngineAssumption, SMT DEF RecordRemediationResult, TypeOK
  <2>3. ReportedProposal(rep) \in ProposalStatus
    BY SMT DEF ReportedProposal, ProposalStatus
  <2>4. proposal' \in [Incidents -> ProposalStatus]
    BY <2>3, EngineAssumption DEF RecordRemediationResult, TypeOK
  <2>5. \A n \in 0 .. MaxAttempts : Counted(n) \in 0 .. MaxAttempts
    BY EngineAssumption, SMT DEF Counted
  <2>6. failures' \in [Incidents -> 0 .. MaxAttempts]
    BY <2>5, EngineAssumption DEF RecordRemediationResult, TypeOK
  <2>7. lapsed' \subseteq Actions
    BY DEF RecordRemediationResult, TypeOK
  <2> QED BY <2>1, <2>2, <2>4, <2>6, <2>7 DEF RecordRemediationResult, TypeOK
<1>4. path' = path /\ lapsed \subseteq lapsed' /\ paused' = paused
  BY DEF RecordRemediationResult
<1>5. ASSUME NEW b \in Actions
      PROVE  /\ acts[b].status = "ABSENT" => acts'[b].status = "ABSENT"
             /\ acts'[b].status \in Lapses => acts[b].status \in Lapses \/ b \in lapsed'
             /\ PauseStep(b)
  <2>1. CASE b = a
    <3>1. acts'[b] = Recorded(acts[b], rep) /\ acts[b] \in Record
      BY <1>2, <2>1 DEF RecordRemediationResult, TypeOK
    <3>2. acts'[b].status = "ROLLING_BACK" => b \in lapsed'
      BY <2>1 DEF RecordRemediationResult
    <3>3. \/ acts'[b] = acts[b]
          \/ acts'[b].status \in ReportedStatus
      BY <3>1, RecordedEffect
    <3>4. "PENDING" \notin ReportedStatus /\ "VERIFICATION_FAILED" \notin ReportedStatus
      BY SMT DEF ReportedStatus, InFlight
    <3> QED BY <1>4, <2>1, <3>2, <3>3, <3>4 DEF PauseStep, Lapses
  <2>2. CASE b # a
    BY <1>4, <2>2 DEF RecordRemediationResult, TypeOK, PauseStep
  <2> QED BY <2>1, <2>2
<1>6. Store!Next
  BY <1>1, SameOperators DEF Store!Next
<1> QED BY <1>3, <1>4, <1>5, <1>6, StoreStepOK

-----------------------------------------------------------------------------
(* Steps that conclude: auto-healing and the closed loop.                  *)

LEMMA AutoHealStep ==
  ASSUME TypeOK, NEW healed \in SUBSET Actions, ExecuteAutoHeal(healed)
  PROVE  StepOK
<1> DEFINE done == [status |-> "SUCCEEDED", age |-> 0]
           of(i) == {a \in healed : IncidentOf[a] = i}
<1>1. done \in Record
  BY TimingAssumption, SMT DEF Record, Status, ReportGuarded
<1>2. Store!Next
  <2>1. Store!ExecuteAutoHeal(healed)
    BY DEF ExecuteAutoHeal, Store!ExecuteAutoHeal, Unused
  <2> QED BY <2>1 DEF Store!Next
<1>3. ASSUME NEW b \in Actions
      PROVE  /\ b \in healed => acts[b].status = "ABSENT" /\ acts'[b] = done /\ path'[b] = "autoHeal"
             /\ b \notin healed => acts'[b] = acts[b] /\ path'[b] = path[b]
  BY DEF ExecuteAutoHeal, Unused
<1>4. TypeOK'
  <2>1. acts' \in [Actions -> Record] /\ path' \in [Actions -> Path \cup {"none"}]
    BY <1>1, SMT DEF ExecuteAutoHeal, TypeOK, Path
  <2>2. /\ latest' \in [Incidents -> Actions \cup {None}]
        /\ \A i \in Incidents : latest'[i] # None => IncidentOf[latest'[i]] = i
    <3>1. \A i \in Incidents : of(i) # {} => (CHOOSE a \in of(i) : TRUE) \in of(i)
      OBVIOUS
    <3> QED BY <3>1 DEF ExecuteAutoHeal, TypeOK
  <2>3. /\ incident' \in [Incidents -> IncidentStatus]
        /\ proposal' \in [Incidents -> ProposalStatus]
    BY DEF ExecuteAutoHeal, TypeOK, IncidentStatus, ProposalStatus
  <2>4. disturbed' \subseteq Incidents
    BY EngineAssumption DEF ExecuteAutoHeal, TypeOK, Unsettled
  <2> QED BY <2>1, <2>2, <2>3, <2>4 DEF ExecuteAutoHeal, TypeOK
<1>5. lapsed' = lapsed /\ paused' = paused
  BY DEF ExecuteAutoHeal
<1>6. ASSUME NEW b \in Actions PROVE ActionStep(b)
  <2>1. CASE b \in healed
    BY <1>3, <1>5, <2>1 DEF ActionStep, PathStep, LapsedStep, PauseStep, AskingPath, Lapses
  <2>2. CASE b \notin healed
    BY <1>3, <1>5, <2>2 DEF ActionStep, PathStep, LapsedStep, PauseStep
  <2> QED BY <2>1, <2>2
<1> QED BY <1>2, <1>4, <1>6 DEF StepOK

LEMMA SyncStep ==
  ASSUME TypeOK, Telemetry
  PROVE  StepOK
<1>1. PICK opened \in SUBSET Openable, closed \in SUBSET Closable,
           awaited \in SUBSET {i \in Incidents : AwaitsVerdict(i)} :
        \E fresh \in [awaited -> Verdict], autonomous \in BOOLEAN,
           reversals \in SUBSET {a \in Actions : Unused(a)} :
          SyncClusterResources(opened, closed, fresh, autonomous, reversals)
  BY Zenon DEF Telemetry
<1>2. PICK fresh \in [awaited -> Verdict], autonomous \in BOOLEAN,
           reversals \in SUBSET {a \in Actions : Unused(a)} :
        SyncClusterResources(opened, closed, fresh, autonomous, reversals)
  BY <1>1
<1> DEFINE verdict == [i \in Incidents |-> IF i \in DOMAIN fresh THEN fresh[i] ELSE "NONE"]
           judged == {a \in Actions : latest[IncidentOf[a]] = a /\ verdict[IncidentOf[a]] \in Verdict}
           reverted == {i \in Incidents : RevertsItself(i, verdict[i], autonomous)}
           rollback(a) == reversing[IncidentOf[a]] \/ path[a] = "reversal"
           succeeded == {a \in Actions : acts[a].status = "SUCCEEDED"}
<1>3. /\ \A i \in reverted : \E a \in reversals :
           IncidentOf[a] = i /\ Reverses(a, latest[i])
      /\ \A a, b \in reversals : IncidentOf[a] \in reverted /\ (IncidentOf[a] = IncidentOf[b] => a = b)
      /\ acts' = [a \in Actions |->
                    CASE a \in judged -> Verified(acts[a], verdict[IncidentOf[a]], rollback(a))
                      [] a \in reversals -> NewRecord
                      [] OTHER -> acts[a]]
      /\ path' = [a \in Actions |-> IF a \in reversals THEN "reversal" ELSE path[a]]
      /\ latest' = [i \in Incidents |-> IF i \in reverted
                                        THEN CHOOSE a \in reversals : IncidentOf[a] = i ELSE latest[i]]
      /\ proposal' = [i \in Incidents |-> JudgedProposal(i, verdict[i], autonomous)]
      /\ incident' = [i \in Incidents |->
                       CASE i \in reverted -> "ACTIVE"
                         [] verdict[i] = "VERIFIED" /\ Observed(i, opened, closed) = "ACTIVE" -> "RESOLVED"
                         [] OTHER -> Observed(i, opened, closed)]
      /\ reversing' = [i \in Incidents |-> reversing[i] \/ i \in reverted]
      /\ failures' = [i \in Incidents |->
                       CASE verdict[i] = "VERIFIED" -> 0
                         [] verdict[i] = "VERIFICATION_FAILED" -> Counted(failures[i])
                         [] OTHER -> failures[i]]
      /\ lapsed' = lapsed \cup {a \in judged : verdict[IncidentOf[a]] = "VERIFICATION_FAILED"}
      /\ disturbed' = disturbed \cup reverted
      /\ UNCHANGED <<handed, reports, paused>>
  BY <1>2, Zenon DEF SyncClusterResources
<1>4. \A i \in Incidents : verdict[i] \in Verdict \cup {"NONE"} /\ (verdict[i] \in Verdict => i \in awaited)
  BY SMT DEF Verdict
<1>5. judged \subseteq succeeded
  BY <1>4, EngineAssumption DEF AwaitsVerdict
<1>6. reversals \cap succeeded = {} /\ \A a \in reversals : acts[a].status = "ABSENT"
  BY DEF Unused
<1>7. ASSUME NEW i \in reverted
      PROVE  /\ verdict[i] = "VERIFICATION_FAILED"
             /\ latest[i] \in judged
  <2>1. verdict[i] = "VERIFICATION_FAILED" /\ verdict[i] \in Verdict
    BY DEF RevertsItself, Verdict
  <2>2. latest[i] # None
    BY <1>4, <2>1 DEF AwaitsVerdict, InClosedLoop
  <2>3. latest[i] \in Actions /\ IncidentOf[latest[i]] = i
    BY <2>2 DEF TypeOK
  <2> QED BY <2>1, <2>3
<1>8. ASSUME NEW b \in Actions
      PROVE  /\ b \in judged => acts'[b] = Verified(acts[b], verdict[IncidentOf[b]], rollback(b))
             /\ b \in reversals => acts'[b] = NewRecord /\ path'[b] = "reversal"
             /\ b \notin judged \cup reversals => acts'[b] = acts[b]
             /\ b \notin reversals => path'[b] = path[b]
  BY <1>3, <1>5, <1>6
<1>9. ASSUME NEW b \in Actions PROVE rollback(b) \in BOOLEAN /\ acts[b] \in Record
  BY EngineAssumption DEF TypeOK
<1>10. ASSUME NEW b \in judged
       PROVE  LET n == Verified(acts[b], verdict[IncidentOf[b]], rollback(b))
              IN /\ n \in Record
                 /\ n.status \in {"SUCCEEDED", "VERIFIED_RESOLVED", "ROLLED_BACK", "VERIFICATION_FAILED"}
                 /\ n.status = "VERIFICATION_FAILED" => verdict[IncidentOf[b]] = "VERIFICATION_FAILED"
  <2> DEFINE v == verdict[IncidentOf[b]]
             f == rollback(b)
             r == acts[b]
  <2>1. v \in Verdict /\ f \in BOOLEAN /\ r \in Record /\ r.status = "SUCCEEDED"
    BY <1>5, <1>9
  <2> HIDE DEF v, f, r
  <2>2. /\ Verified(r, v, f) \in Record
        /\ Verified(r, v, f).status
             \in {"SUCCEEDED", "VERIFIED_RESOLVED", "ROLLED_BACK", "VERIFICATION_FAILED"}
    BY <2>1, VerifiedEffect
  <2>3. Verified(r, v, f).status = VerifiedStatus(v, f)
    BY <2>1, SMT DEF Verified, Moved
  <2>4. VerifiedStatus(v, f) = "VERIFICATION_FAILED" => v = "VERIFICATION_FAILED"
    BY <2>1, SMT DEF VerifiedStatus, Verdict
  <2>5. /\ Verified(r, v, f) \in Record
        /\ Verified(r, v, f).status
             \in {"SUCCEEDED", "VERIFIED_RESOLVED", "ROLLED_BACK", "VERIFICATION_FAILED"}
        /\ Verified(r, v, f).status = "VERIFICATION_FAILED" => v = "VERIFICATION_FAILED"
    BY <2>2, <2>3, <2>4
  <2> QED BY <2>5 DEF v, f, r
<1>11. Store!Next
  <2> DEFINE V == [a \in succeeded |-> IF a \in judged THEN verdict[IncidentOf[a]] ELSE "VERIFYING"]
             R == [a \in succeeded |-> rollback(a)]
  <2>1. V \in [succeeded -> Store!Verdict] /\ R \in [succeeded -> BOOLEAN]
    BY <1>9, SameOperators, SMT DEF Verdict
  <2>2. reversals \in SUBSET {a \in Actions : acts[a].status = "ABSENT"}
    BY <1>6
  <2>3. reversals # {} => \E a \in DOMAIN V : V[a] = "VERIFICATION_FAILED"
    <3> SUFFICES ASSUME NEW c \in reversals PROVE \E a \in DOMAIN V : V[a] = "VERIFICATION_FAILED"
      OBVIOUS
    <3>1. IncidentOf[c] \in reverted
      BY <1>3
    <3>2. /\ latest[IncidentOf[c]] \in judged
          /\ verdict[IncidentOf[c]] = "VERIFICATION_FAILED"
      BY <1>7, <3>1
    <3>3. IncidentOf[latest[IncidentOf[c]]] = IncidentOf[c]
      BY <3>2, EngineAssumption DEF TypeOK
    <3>4. latest[IncidentOf[c]] \in succeeded /\ V[latest[IncidentOf[c]]] = "VERIFICATION_FAILED"
      BY <1>5, <3>2, <3>3
    <3> QED BY <3>4
  <2>4. ASSUME NEW a \in Actions
        PROVE  acts'[a] = CASE a \in DOMAIN V -> Store!Verified(acts[a], V[a], R[a])
                            [] a \in reversals -> Store!NewRecord
                            [] OTHER -> acts[a]
    <3>1. CASE a \in judged
      BY <1>5, <1>8, <3>1, SameOperators
    <3>2. CASE a \in succeeded \ judged
      <4>1. Verified(acts[a], "VERIFYING", rollback(a)) = acts[a]
        BY <1>9, <3>2, SMT DEF Verified, VerifiedStatus, Moved, Settled, Record
      <4>2. acts'[a] = acts[a]
        BY <1>6, <1>8, <3>2
      <4>3. V[a] = "VERIFYING" /\ R[a] = rollback(a) /\ a \in DOMAIN V
        BY <3>2
      <4> HIDE DEF V, R, rollback
      <4>4. Store!Verified(acts[a], V[a], R[a]) = acts[a]
        BY <4>1, <4>3, SameOperators
      <4>5. a \notin reversals
        BY <1>6, <3>2
      <4> QED BY <4>2, <4>3, <4>4, <4>5
    <3>3. CASE a \notin succeeded
      BY <1>5, <1>8, <3>3, SameOperators
    <3> QED BY <3>1, <3>2, <3>3
  <2>5. acts' = [a \in Actions |-> CASE a \in DOMAIN V -> Store!Verified(acts[a], V[a], R[a])
                                     [] a \in reversals -> Store!NewRecord
                                     [] OTHER -> acts[a]]
    <3>1. acts' = [a \in Actions |-> acts'[a]]
      BY <1>3
    <3> QED BY <2>4, <3>1
  <2>6. Store!SyncClusterResources
    <3>1. UNCHANGED <<handed, reports>>
      BY <1>3
    <3> HIDE DEF V, R, reverted, judged, verdict, rollback
    <3>2. \E v \in [succeeded -> Store!Verdict], r \in [succeeded -> BOOLEAN],
             revs \in SUBSET {a \in Actions : acts[a].status = "ABSENT"} :
            /\ revs # {} => \E a \in DOMAIN v : v[a] = "VERIFICATION_FAILED"
            /\ acts' = [a \in Actions |-> CASE a \in DOMAIN v -> Store!Verified(acts[a], v[a], r[a])
                                             [] a \in revs -> Store!NewRecord
                                             [] OTHER -> acts[a]]
      <4> USE <2>1, <2>2
      <4> WITNESS V \in [succeeded -> Store!Verdict], R \in [succeeded -> BOOLEAN],
                  reversals \in SUBSET {a \in Actions : acts[a].status = "ABSENT"}
      <4> QED BY <2>3, <2>5
    <3> QED BY <3>1, <3>2, Zenon DEF Store!SyncClusterResources
  <2> QED BY <2>6 DEF Store!Next
<1>12. TypeOK'
  <2>1. acts' \in [Actions -> Record]
    <3>1. ASSUME NEW b \in Actions PROVE acts'[b] \in Record
      <4>1. CASE b \in judged
        BY <1>8, <1>10, <4>1
      <4>2. CASE b \in reversals
        BY <1>8, <4>2, NewRecordIsRecord
      <4>3. CASE b \notin judged \cup reversals
        BY <1>8, <1>9, <4>3
      <4> QED BY <4>1, <4>2, <4>3
    <3>2. acts' = [b \in Actions |-> acts'[b]]
      BY <1>3
    <3> QED BY <3>1, <3>2
  <2>2. path' \in [Actions -> Path \cup {"none"}]
    BY <1>3 DEF TypeOK, Path
  <2>3. /\ latest' \in [Incidents -> Actions \cup {None}]
        /\ \A i \in Incidents : latest'[i] # None => IncidentOf[latest'[i]] = i
    <3>1. ASSUME NEW i \in reverted
          PROVE  /\ (CHOOSE a \in reversals : IncidentOf[a] = i) \in Actions
                 /\ IncidentOf[CHOOSE a \in reversals : IncidentOf[a] = i] = i
      BY <1>3
    <3> HIDE DEF reverted
    <3> QED BY <1>3, <3>1 DEF TypeOK
  <2>4. incident' \in [Incidents -> IncidentStatus]
    <3>1. \A i \in Incidents : Observed(i, opened, closed) \in IncidentStatus
      BY SMT DEF Observed, TypeOK, IncidentStatus
    <3> HIDE DEF reverted, verdict
    <3> QED BY <1>3, <3>1 DEF IncidentStatus
  <2>5. proposal' \in [Incidents -> ProposalStatus]
    <3>1. ASSUME NEW i \in Incidents PROVE JudgedProposal(i, verdict[i], autonomous) \in ProposalStatus
      <4> HIDE DEF verdict
      <4> QED BY SMT DEF JudgedProposal, TypeOK, ProposalStatus
    <3> HIDE DEF verdict
    <3> QED BY <1>3, <3>1
  <2>6. reversing' \in [Incidents -> BOOLEAN]
    BY <1>3
  <2>7. failures' \in [Incidents -> 0 .. MaxAttempts]
    <3>1. \A n \in 0 .. MaxAttempts : Counted(n) \in 0 .. MaxAttempts /\ 0 \in 0 .. MaxAttempts
      BY EngineAssumption, SMT DEF Counted
    <3> HIDE DEF verdict
    <3> QED BY <1>3, <3>1 DEF TypeOK
  <2>8. lapsed' \subseteq Actions /\ disturbed' \subseteq Incidents
    BY <1>3 DEF TypeOK
  <2> QED BY <1>3, <2>1, <2>2, <2>3, <2>4, <2>5, <2>6, <2>7, <2>8 DEF TypeOK
<1>13. ASSUME NEW b \in Actions PROVE ActionStep(b)
  <2>1. lapsed \subseteq lapsed' /\ paused' = paused
    BY <1>3
  <2>2. CASE b \in judged
    <3>1. /\ acts[b].status = "SUCCEEDED"
          /\ acts'[b].status \in {"SUCCEEDED", "VERIFIED_RESOLVED", "ROLLED_BACK", "VERIFICATION_FAILED"}
          /\ acts'[b].status = "VERIFICATION_FAILED" => verdict[IncidentOf[b]] = "VERIFICATION_FAILED"
      BY <1>5, <1>8, <1>10, <2>2
    <3>2. path'[b] = path[b]
      BY <1>6, <1>8, <3>1
    <3>3. acts'[b].status = "VERIFICATION_FAILED" => b \in lapsed'
      BY <1>3, <2>2, <3>1
    <3> HIDE DEF judged, verdict
    <3> QED BY <2>1, <3>1, <3>2, <3>3 DEF ActionStep, PathStep, LapsedStep, PauseStep, Lapses
  <2>3. CASE b \in reversals
    <3>1. acts[b].status = "ABSENT" /\ acts'[b] = NewRecord /\ path'[b] = "reversal"
      BY <1>6, <1>8, <2>3
    <3>2. IncidentOf[b] \in Incidents
      BY EngineAssumption
    <3>3. PauseStep(b)
      BY <2>1 DEF PauseStep
    <3> HIDE DEF judged, verdict, reverted
    <3> QED BY <2>1, <3>1, <3>3, NewRecordIsRecord DEF ActionStep, PathStep, LapsedStep, AskingPath, Lapses
  <2>4. CASE b \notin judged \cup reversals
    <3>1. acts'[b] = acts[b] /\ path'[b] = path[b]
      BY <1>8, <2>4
    <3> HIDE DEF judged, verdict, reverted
    <3> QED BY <2>1, <3>1 DEF ActionStep, PathStep, LapsedStep, PauseStep
  <2> QED BY <2>2, <2>3, <2>4
<1> QED BY <1>11, <1>12, <1>13 DEF StepOK

-----------------------------------------------------------------------------
(* The closed loop: SuccessStaysInLoop.                                    *)

\* An action of an undisturbed incident that has not come to its end is the newest one;
\* one that carries out the proposal has it, and its success put it into the loop.
InLoop(a) ==
  LET i == IncidentOf[a]
  IN i \notin disturbed /\ Open(acts[a])
     => /\ latest[i] = a
        /\ path[a] \in ProposalPath
           => /\ proposal[i] # "NONE"
              /\ acts[a].status = "SUCCEEDED" => proposal[i] \in {"EXECUTED", "VERIFYING"}

LoopInv == \A a \in Actions : InLoop(a)

\* Whoever takes a proposal over disturbs the incidents with an unfinished action.
LEMMA UnsettledIsOpen ==
  ASSUME NEW is, NEW a \in Actions, Open(acts[a]), IncidentOf[a] \in is
  PROVE  IncidentOf[a] \in Unsettled(is)
BY DEF Unsettled, ActionsOf, Open

\* Handlers that work on proposals and leave the actions alone.
LEMMA ReplacedInLoop ==
  ASSUME LoopInv, NEW is \in SUBSET Incidents, UNCHANGED <<acts, path, latest>>,
         \A i \in Incidents \ is : proposal'[i] = proposal[i],
         disturbed \cup Unsettled(is) \subseteq disturbed'
  PROVE  LoopInv'
<1> SUFFICES ASSUME NEW a \in Actions, IncidentOf[a] \notin disturbed', Open(acts'[a])
             PROVE  InLoop(a)'
  BY DEF LoopInv, InLoop
<1>1. InLoop(a) /\ IncidentOf[a] \notin disturbed /\ IncidentOf[a] \in Incidents
  BY EngineAssumption DEF LoopInv
<1>2. IncidentOf[a] \notin is
  BY UnsettledIsOpen
<1> QED BY <1>1, <1>2 DEF InLoop

\* Handlers that create actions, one for an incident.
LEMMA CreatedInLoop ==
  ASSUME LoopInv, NEW created \in SUBSET Actions,
         \A a \in Actions \ created : acts'[a] = acts[a] /\ path'[a] = path[a],
         \A a \in created :
           /\ latest'[IncidentOf[a]] = a
           /\ path'[a] \in ProposalPath
              => acts'[a].status # "SUCCEEDED" /\ proposal'[IncidentOf[a]] # "NONE",
         \A i \in Incidents \ {IncidentOf[a] : a \in created} :
           latest'[i] = latest[i] /\ proposal'[i] = proposal[i],
         disturbed \cup Unsettled({IncidentOf[a] : a \in created}) \subseteq disturbed'
  PROVE  LoopInv'
<1> SUFFICES ASSUME NEW a \in Actions, IncidentOf[a] \notin disturbed', Open(acts'[a])
             PROVE  InLoop(a)'
  BY DEF LoopInv, InLoop
<1>1. CASE a \in created
  BY <1>1 DEF InLoop
<1>2. CASE a \notin created
  <2>1. /\ InLoop(a) /\ Open(acts[a]) /\ IncidentOf[a] \notin disturbed
        /\ acts'[a] = acts[a] /\ path'[a] = path[a]
    BY <1>2 DEF LoopInv
  <2>2. IncidentOf[a] \in Incidents \ {IncidentOf[b] : b \in created}
    BY <2>1, EngineAssumption, UnsettledIsOpen
  <2> QED BY <2>1, <2>2 DEF InLoop
<1> QED BY <1>1, <1>2

LEMMA OneCreatedInLoop ==
  ASSUME LoopInv, NEW a \in Actions,
         \A b \in Actions \ {a} : acts'[b] = acts[b] /\ path'[b] = path[b],
         latest'[IncidentOf[a]] = a,
         path'[a] \in ProposalPath
           => acts'[a].status # "SUCCEEDED" /\ proposal'[IncidentOf[a]] # "NONE",
         \A i \in Incidents \ {IncidentOf[a]} : latest'[i] = latest[i] /\ proposal'[i] = proposal[i],
         disturbed \cup Unsettled({IncidentOf[a]}) \subseteq disturbed'
  PROVE  LoopInv'
<1> DEFINE created == {a}
<1>1. {IncidentOf[b] : b \in created} = {IncidentOf[a]}
  OBVIOUS
<1>2. /\ created \in SUBSET Actions
      /\ \A b \in Actions \ created : acts'[b] = acts[b] /\ path'[b] = path[b]
      /\ \A b \in created :
           /\ latest'[IncidentOf[b]] = b
           /\ path'[b] \in ProposalPath
              => acts'[b].status # "SUCCEEDED" /\ proposal'[IncidentOf[b]] # "NONE"
  OBVIOUS
<1> HIDE DEF created
<1>3. /\ \A i \in Incidents \ {IncidentOf[b] : b \in created} :
           latest'[i] = latest[i] /\ proposal'[i] = proposal[i]
      /\ disturbed \cup Unsettled({IncidentOf[b] : b \in created}) \subseteq disturbed'
  BY <1>1
<1> QED BY <1>2, <1>3, CreatedInLoop

\* Every handler that creates one action.
LEMMA CreatorsInLoop ==
  ASSUME TypeOK, LoopInv, NEW a \in Actions,
         \/ ApproveRemediation(a)
         \/ TriggerManualHeal(a)
         \/ RollbackRemediation(a)
         \/ DispatchAutonomously(a)
         \/ ApprovePodImageReplacement(a)
         \/ ExecuteClusterResourceOperation(a)
  PROVE  LoopInv'
<1>1. ASSUME NEW by, Dispatch(a, by) PROVE LoopInv'
  <2>1. /\ acts'[a] = NewRecord /\ latest'[IncidentOf[a]] = a
        /\ proposal'[IncidentOf[a]] = "DISPATCHED"
        /\ \A b \in Actions \ {a} : acts'[b] = acts[b] /\ path'[b] = path[b]
        /\ \A i \in Incidents \ {IncidentOf[a]} : latest'[i] = latest[i] /\ proposal'[i] = proposal[i]
        /\ disturbed \cup Unsettled({IncidentOf[a]}) \subseteq disturbed'
    BY <1>1, EngineAssumption DEF Dispatch, TypeOK
  <2> QED BY <2>1, NewRecordIsRecord, OneCreatedInLoop
<1>2. CASE \/ ApproveRemediation(a) \/ TriggerManualHeal(a)
           \/ RollbackRemediation(a) \/ DispatchAutonomously(a)
  BY <1>1, <1>2
     DEF ApproveRemediation, TriggerManualHeal, RollbackRemediation, DispatchAutonomously
<1>3. CASE ApprovePodImageReplacement(a) \/ ExecuteClusterResourceOperation(a)
  <2>1. /\ path'[a] \notin ProposalPath /\ latest'[IncidentOf[a]] = a
        /\ \A b \in Actions \ {a} : acts'[b] = acts[b] /\ path'[b] = path[b]
        /\ \A i \in Incidents \ {IncidentOf[a]} : latest'[i] = latest[i] /\ proposal'[i] = proposal[i]
    BY <1>3, EngineAssumption
       DEF ApprovePodImageReplacement, ExecuteClusterResourceOperation, dialogue, TypeOK,
           ProposalPath, AskingPath
  <2>2. disturbed \cup Unsettled({IncidentOf[a]}) \subseteq disturbed'
    <3>1. CASE ApprovePodImageReplacement(a)
      BY <3>1 DEF ApprovePodImageReplacement
    <3>2. CASE ExecuteClusterResourceOperation(a)
      BY <3>2 DEF ExecuteClusterResourceOperation, Unsettled, history
    <3> QED BY <1>3, <3>1, <3>2
  <2> QED BY <2>1, <2>2, OneCreatedInLoop
<1> QED BY <1>2, <1>3

LEMMA AutoHealInLoop ==
  ASSUME TypeOK, LoopInv, NEW healed \in SUBSET Actions, ExecuteAutoHeal(healed)
  PROVE  LoopInv'
<1> DEFINE of(i) == {a \in healed : IncidentOf[a] = i}
<1>1. \A a \in Actions \ healed : acts'[a] = acts[a] /\ path'[a] = path[a]
  BY DEF ExecuteAutoHeal
<1>2. ASSUME NEW a \in healed
      PROVE  latest'[IncidentOf[a]] = a /\ path'[a] \notin ProposalPath
  <2>1. of(IncidentOf[a]) = {a} /\ IncidentOf[a] \in Incidents
    BY EngineAssumption DEF ExecuteAutoHeal
  <2>2. latest'[IncidentOf[a]] = CHOOSE b \in of(IncidentOf[a]) : TRUE
    BY <2>1 DEF ExecuteAutoHeal
  <2> QED BY <2>1, <2>2 DEF ExecuteAutoHeal, ProposalPath, AskingPath
<1>3. ASSUME NEW i \in Incidents \ {IncidentOf[a] : a \in healed}
      PROVE  latest'[i] = latest[i] /\ proposal'[i] = proposal[i]
  <2>1. of(i) = {}
    OBVIOUS
  <2> QED BY <2>1 DEF ExecuteAutoHeal
<1>4. disturbed \cup Unsettled({IncidentOf[a] : a \in healed}) \subseteq disturbed'
  BY DEF ExecuteAutoHeal
<1> QED BY <1>1, <1>2, <1>3, <1>4, CreatedInLoop

\* Handlers that change records mildly, and no proposal that is executed.
LEMMA MildInLoop ==
  ASSUME LoopInv, UNCHANGED <<path, latest, disturbed>>,
         \A a \in Actions : Mild(acts[a], acts'[a]),
         \A i \in Incidents :
           /\ proposal[i] # "NONE" => proposal'[i] # "NONE"
           /\ proposal[i] \in {"EXECUTED", "VERIFYING"} => proposal'[i] = proposal[i]
  PROVE  LoopInv'
<1> SUFFICES ASSUME NEW a \in Actions, IncidentOf[a] \notin disturbed', Open(acts'[a])
             PROVE  InLoop(a)'
  BY DEF LoopInv, InLoop
<1>1. /\ InLoop(a) /\ Open(acts[a]) /\ IncidentOf[a] \in Incidents
      /\ acts'[a].status = "SUCCEEDED" => acts[a].status = "SUCCEEDED"
  BY EngineAssumption DEF LoopInv, Mild
<1> QED BY <1>1 DEF InLoop

\* A report that counts is about the newest action of an undisturbed incident.
LEMMA ReportInLoop ==
  ASSUME TypeOK, SP!HandoverInv, LoopInv, NEW a \in Actions, NEW rep \in Report,
         RecordRemediationResult(a, rep)
  PROVE  LoopInv'
<1> DEFINE i == IncidentOf[a]
<1>1. /\ acts' = [acts EXCEPT ![a] = Recorded(@, rep)]
      /\ UNCHANGED <<path, latest, disturbed>>
      /\ a \in handed /\ i \in Incidents /\ acts[a] \in Record
  BY EngineAssumption DEF RecordRemediationResult, TypeOK
<1>2. CASE acts[a].status \in ReportGuarded
  <2>1. proposal' = proposal /\ acts' = acts
    BY <1>1, <1>2, RecordedEffect DEF RecordRemediationResult, TypeOK
  <2> QED BY <1>1, <2>1 DEF LoopInv, InLoop
<1>3. CASE acts[a].status \notin ReportGuarded
  <2>1. Open(acts[a])
    BY <1>1, <1>3, SMT DEF SP!HandoverInv, SP!Unhanded, Open, Settled, ReportGuarded
  <2>2. proposal' = [proposal EXCEPT ![i] = IF @ = "NONE" THEN @ ELSE ReportedProposal(rep)]
    BY <1>3 DEF RecordRemediationResult
  <2> SUFFICES ASSUME NEW b \in Actions, IncidentOf[b] \notin disturbed', Open(acts'[b])
               PROVE  InLoop(b)'
    BY DEF LoopInv, InLoop
  <2>3. CASE IncidentOf[b] # i
    <3>1. acts'[b] = acts[b] /\ proposal'[IncidentOf[b]] = proposal[IncidentOf[b]]
      BY <1>1, <2>2, <2>3, EngineAssumption DEF TypeOK
    <3> QED BY <1>1, <3>1 DEF LoopInv, InLoop
  <2>4. CASE IncidentOf[b] = i
    <3>1. b = a
      <4>1. b # a => acts'[b] = acts[b]
        BY <1>1 DEF TypeOK
      <4> QED BY <1>1, <2>1, <2>4, <4>1 DEF LoopInv, InLoop
    <3>2. acts'[a].status = "SUCCEEDED" => ReportedProposal(rep) = "EXECUTED"
      <4>1. acts'[a] = Reported(acts[a], rep)
        BY <1>1, <1>3 DEF TypeOK, Recorded
      <4> QED BY <4>1, SMT DEF Reported, Moved, ConcludedStatus, ReportedProposal
    <3>3. ReportedProposal(rep) # "NONE"
      BY SMT DEF ReportedProposal
    <3>4. proposal[i] # "NONE" => proposal'[i] = ReportedProposal(rep)
      BY <1>1, <2>2 DEF TypeOK
    <3>5. InLoop(a)
      BY DEF LoopInv
    <3> QED BY <1>1, <2>1, <2>4, <3>1, <3>2, <3>3, <3>4, <3>5 DEF InLoop
  <2> QED BY <2>3, <2>4
<1> QED BY <1>2, <1>3

\* What a batch does to the actions it finds, to the proposals and to the counts.
SyncEffect(verdict, autonomous) ==
  LET reverted == {i \in Incidents : RevertsItself(i, verdict[i], autonomous)}
      judged(a) == latest[IncidentOf[a]] = a /\ verdict[IncidentOf[a]] \in Verdict
      rollback(a) == reversing[IncidentOf[a]] \/ path[a] = "reversal"
  IN /\ \A i \in Incidents : verdict[i] \in Verdict => AwaitsVerdict(i)
     /\ \A a \in Actions :
          IF acts[a].status = "ABSENT"
          THEN acts'[a] = acts[a] \/ (acts'[a] = NewRecord /\ IncidentOf[a] \in reverted)
          ELSE /\ path'[a] = path[a]
               /\ acts'[a] = IF judged(a) THEN Verified(acts[a], verdict[IncidentOf[a]], rollback(a))
                                          ELSE acts[a]
     /\ \A i \in Incidents \ reverted : latest'[i] = latest[i]
     /\ \A i \in Incidents : proposal'[i] = JudgedProposal(i, verdict[i], autonomous)
     /\ \A i \in Incidents : failures'[i] = CASE verdict[i] = "VERIFIED" -> 0
                                              [] verdict[i] = "VERIFICATION_FAILED" -> Counted(failures[i])
                                              [] OTHER -> failures[i]
     /\ disturbed' = disturbed \cup reverted

LEMMA TelemetryEffect ==
  ASSUME TypeOK, Telemetry
  PROVE  \E verdict \in [Incidents -> Verdict \cup {"NONE"}], autonomous \in BOOLEAN :
           SyncEffect(verdict, autonomous)
<1>1. PICK opened \in SUBSET Openable, closed \in SUBSET Closable,
           awaited \in SUBSET {i \in Incidents : AwaitsVerdict(i)} :
        \E fresh \in [awaited -> Verdict], autonomous \in BOOLEAN,
           reversals \in SUBSET {a \in Actions : Unused(a)} :
          SyncClusterResources(opened, closed, fresh, autonomous, reversals)
  BY Zenon DEF Telemetry
<1>2. PICK fresh \in [awaited -> Verdict], autonomous \in BOOLEAN,
           reversals \in SUBSET {a \in Actions : Unused(a)} :
        SyncClusterResources(opened, closed, fresh, autonomous, reversals)
  BY <1>1
<1> DEFINE verdict == [i \in Incidents |-> IF i \in DOMAIN fresh THEN fresh[i] ELSE "NONE"]
           reverted == {i \in Incidents : RevertsItself(i, verdict[i], autonomous)}
           judged(a) == latest[IncidentOf[a]] = a /\ verdict[IncidentOf[a]] \in Verdict
           rollback(a) == reversing[IncidentOf[a]] \/ path[a] = "reversal"
<1>3. /\ \A a \in reversals : IncidentOf[a] \in reverted
      /\ acts' = [a \in Actions |->
                    CASE a \in {b \in Actions : judged(b)} ->
                           Verified(acts[a], verdict[IncidentOf[a]], rollback(a))
                      [] a \in reversals -> NewRecord
                      [] OTHER -> acts[a]]
      /\ path' = [a \in Actions |-> IF a \in reversals THEN "reversal" ELSE path[a]]
      /\ latest' = [i \in Incidents |-> IF i \in reverted
                                        THEN CHOOSE a \in reversals : IncidentOf[a] = i ELSE latest[i]]
      /\ proposal' = [i \in Incidents |-> JudgedProposal(i, verdict[i], autonomous)]
      /\ failures' = [i \in Incidents |->
                       CASE verdict[i] = "VERIFIED" -> 0
                         [] verdict[i] = "VERIFICATION_FAILED" -> Counted(failures[i])
                         [] OTHER -> failures[i]]
      /\ disturbed' = disturbed \cup reverted
  BY <1>2, Zenon DEF SyncClusterResources
<1>4. verdict \in [Incidents -> Verdict \cup {"NONE"}]
  OBVIOUS
<1>5. \A i \in Incidents : verdict[i] \in Verdict => AwaitsVerdict(i)
  BY SMT DEF Verdict
<1> HIDE DEF verdict
<1>6. ASSUME NEW a \in Actions
      PROVE  IF acts[a].status = "ABSENT"
             THEN acts'[a] = acts[a] \/ (acts'[a] = NewRecord /\ IncidentOf[a] \in reverted)
             ELSE /\ path'[a] = path[a]
                  /\ acts'[a] = IF judged(a)
                                THEN Verified(acts[a], verdict[IncidentOf[a]], rollback(a)) ELSE acts[a]
  <2>1. judged(a) => acts[a].status = "SUCCEEDED"
    BY <1>5, EngineAssumption DEF AwaitsVerdict
  <2>2. a \in reversals => acts[a].status = "ABSENT"
    BY DEF Unused
  <2>3. CASE judged(a)
    <3>1. acts'[a] = Verified(acts[a], verdict[IncidentOf[a]], rollback(a)) /\ a \notin reversals
      BY <1>3, <2>1, <2>2, <2>3
    <3> QED BY <1>3, <2>1, <2>3, <3>1
  <2>4. CASE ~judged(a)
    <3>1. acts'[a] = IF a \in reversals THEN NewRecord ELSE acts[a]
      BY <1>3, <2>4
    <3> QED BY <1>3, <2>2, <2>4, <3>1
  <2> QED BY <2>3, <2>4
<1>7. SyncEffect(verdict, autonomous)
  BY <1>3, <1>5, <1>6, Zenon DEF SyncEffect
<1> QED BY <1>4, <1>7

LEMMA TelemetryInLoop ==
  ASSUME TypeOK, LoopInv, Telemetry
  PROVE  LoopInv'
<1>1. PICK verdict \in [Incidents -> Verdict \cup {"NONE"}], autonomous \in BOOLEAN :
        SyncEffect(verdict, autonomous)
  BY TelemetryEffect
<1> SUFFICES ASSUME NEW a \in Actions, IncidentOf[a] \notin disturbed', Open(acts'[a])
             PROVE  InLoop(a)'
  BY DEF LoopInv, InLoop
<1> DEFINE i == IncidentOf[a]
           v == verdict[i]
           r == acts[a]
           rollback == reversing[i] \/ path[a] = "reversal"
<1>2. /\ i \in Incidents /\ i \notin disturbed /\ ~RevertsItself(i, v, autonomous)
      /\ latest'[i] = latest[i] /\ proposal'[i] = JudgedProposal(i, v, autonomous)
      /\ v \in Verdict => AwaitsVerdict(i)
      /\ r \in Record /\ rollback \in BOOLEAN /\ v \in Verdict \cup {"NONE"}
  BY <1>1, EngineAssumption DEF SyncEffect, TypeOK
<1>3. r.status # "ABSENT"
  BY <1>1, <1>2 DEF SyncEffect, Open
<1>4. /\ path'[a] = path[a]
      /\ acts'[a] = IF latest[i] = a /\ v \in Verdict THEN Verified(r, v, rollback) ELSE r
  BY <1>1, <1>3 DEF SyncEffect
<1>5. /\ Open(r)
      /\ acts'[a].status = "SUCCEEDED"
           => r.status = "SUCCEEDED" /\ (latest[i] = a => v \in {"VERIFYING", "NONE"})
  <2>1. CASE latest[i] = a /\ v \in Verdict
    <3>1. r.status = "SUCCEEDED"
      BY <1>2, <2>1 DEF AwaitsVerdict
    <3>2. acts'[a].status = VerifiedStatus(v, rollback)
      BY <1>4, <2>1, <3>1, SMT DEF Verified, Moved
    <3> HIDE DEF v, rollback
    <3>3. acts'[a].status = "SUCCEEDED" => v = "VERIFYING"
      BY <1>2, <2>1, <3>2, SMT DEF VerifiedStatus, Verdict
    <3> QED BY <3>1, <3>3 DEF Open, Settled
  <2>2. CASE ~(latest[i] = a /\ v \in Verdict)
    BY <1>2, <1>4, <2>2
  <2> QED BY <2>1, <2>2
<1>6. /\ latest[i] = a
      /\ path[a] \in ProposalPath
         => /\ proposal[i] # "NONE"
            /\ r.status = "SUCCEEDED" => proposal[i] \in {"EXECUTED", "VERIFYING"}
  BY <1>2, <1>5 DEF LoopInv, InLoop
<1>7. proposal[i] # "NONE" => JudgedProposal(i, v, autonomous) # "NONE"
  <2> HIDE DEF v, i
  <2> QED BY SMT DEF JudgedProposal
<1>8. acts'[a].status = "SUCCEEDED" /\ proposal[i] \in {"EXECUTED", "VERIFYING"}
      => JudgedProposal(i, v, autonomous) = "VERIFYING"
  <2> SUFFICES ASSUME acts'[a].status = "SUCCEEDED", proposal[i] \in {"EXECUTED", "VERIFYING"}
               PROVE  JudgedProposal(i, v, autonomous) = "VERIFYING"
    OBVIOUS
  <2>1. /\ InClosedLoop(i) /\ AwaitsVerdict(i) /\ acts[latest[i]].status = "SUCCEEDED"
        /\ v \in {"VERIFYING", "NONE"}
    BY <1>5, <1>6, EngineAssumption DEF InClosedLoop, AwaitsVerdict
  <2> HIDE DEF v, i
  <2> QED BY <2>1, SMT DEF JudgedProposal
<1> HIDE DEF v
<1> QED BY <1>2, <1>4, <1>5, <1>6, <1>7, <1>8 DEF InLoop

\* Every step of the engine.
LEMMA NextInLoop ==
  ASSUME TypeOK, SP!HandoverInv, LoopInv, [Next]_vars
  PROVE  LoopInv'
<1>1. CASE UNCHANGED vars
  BY <1>1 DEF vars, records, dialogue, history, LoopInv, InLoop
<1>2. ASSUME NEW i \in Incidents,
             \/ CreateIncident(i) \/ ResolveManually(i) \/ RejectRemediation(i)
             \/ \E succeeded \in BOOLEAN : SaveAIAnalysis(i, succeeded)
             \/ \E status \in {"ACTIVE", "CLOSED"} : UpdateIncident(i, status)
      PROVE  LoopInv'
  <2>1. UNCHANGED <<acts, path, latest>> /\ \A j \in Incidents \ {i} : proposal'[j] = proposal[j]
    BY <1>2 DEF CreateIncident, ResolveManually, UpdateIncident, RejectRemediation, SaveAIAnalysis,
                records, TypeOK
  <2>2. \/ proposal' = proposal /\ disturbed' = disturbed
        \/ disturbed' = disturbed \cup Unsettled({i})
    BY <1>2 DEF CreateIncident, ResolveManually, UpdateIncident, RejectRemediation, SaveAIAnalysis, history
  <2>3. CASE disturbed' = disturbed \cup Unsettled({i})
    BY <2>1, <2>3, ReplacedInLoop
  <2>4. CASE proposal' = proposal /\ disturbed' = disturbed
    BY <2>1, <2>4 DEF LoopInv, InLoop
  <2> QED BY <2>2, <2>3, <2>4
<1>3. ASSUME NEW gone \in SUBSET Incidents, DeleteIncidents(gone)
      PROVE  LoopInv'
  <2>1. /\ UNCHANGED <<acts, path, latest>>
        /\ \A j \in Incidents \ gone : proposal'[j] = proposal[j]
        /\ disturbed' = disturbed \cup Unsettled(gone)
    BY <1>3 DEF DeleteIncidents, records
  <2> QED BY <2>1, ReplacedInLoop
<1>4. ASSUME NEW i \in Incidents, SaveRemediation(i) \/ EnableIncidentAutoHealing(i)
      PROVE  LoopInv'
  <2>1. CASE \E a \in Actions : DispatchAutonomously(a)
    BY <2>1, CreatorsInLoop
  <2>2. CASE UNCHANGED <<records, path, latest, dialogue, history>>
    BY <2>2 DEF records, dialogue, history, LoopInv, InLoop
  <2>3. CASE /\ proposal' = [proposal EXCEPT ![i] = "PROPOSED"]
             /\ UNCHANGED <<records, path, latest>>
             /\ disturbed' = disturbed \cup Unsettled({i})
    <3>1. UNCHANGED <<acts, path, latest>> /\ \A j \in Incidents \ {i} : proposal'[j] = proposal[j]
      BY <2>3 DEF records, TypeOK
    <3> QED BY <2>3, <3>1, ReplacedInLoop
  <2> QED BY <1>4, <2>1, <2>2, <2>3 DEF SaveRemediation, EnableIncidentAutoHealing
<1>5. CASE \/ ClaimPendingRemediationActions \/ ReconcileStalledActions \/ Tick
           \/ \E i \in Incidents : DisableIncidentAutoHealing(i)
           \/ \E a \in Actions : CancelRemediationAction(a)
  <2>1. \A a \in Actions : Mild(acts[a], acts'[a])
    BY <1>5, MildHandlers
  <2>2. UNCHANGED <<path, latest, disturbed>>
    BY <1>5 DEF ClaimPendingRemediationActions, ReconcileStalledActions, Tick,
                DisableIncidentAutoHealing, CancelRemediationAction, history
  <2>3. \A i \in Incidents :
          /\ proposal[i] # "NONE" => proposal'[i] # "NONE"
          /\ proposal[i] \in {"EXECUTED", "VERIFYING"} => proposal'[i] = proposal[i]
    BY <1>5 DEF ClaimPendingRemediationActions, ReconcileStalledActions, Tick,
                DisableIncidentAutoHealing, CancelRemediationAction, dialogue, TypeOK
  <2> QED BY <2>1, <2>2, <2>3, MildInLoop
<1>6. ASSUME NEW a \in Actions,
             ApproveRemediation(a) \/ TriggerManualHeal(a) \/ ApprovePodImageReplacement(a)
               \/ RollbackRemediation(a) \/ ExecuteClusterResourceOperation(a)
      PROVE  LoopInv'
  BY <1>6, CreatorsInLoop
<1>7. ASSUME NEW healed \in SUBSET Actions, ExecuteAutoHeal(healed)
      PROVE  LoopInv'
  BY <1>7, AutoHealInLoop
<1>8. ASSUME NEW a \in Actions, NEW rep \in Report, RecordRemediationResult(a, rep)
      PROVE  LoopInv'
  BY <1>8, ReportInLoop
<1>9. CASE Telemetry
  BY <1>9, TelemetryInLoop
<1> QED BY <1>1, <1>2, <1>3, <1>4, <1>5, <1>6, <1>7, <1>8, <1>9 DEF Next

\* The loop at the state that the property names.
LEMMA LoopSuffices == TypeOK /\ LoopInv => SuccessStaysInLoop
<1> SUFFICES ASSUME TypeOK, LoopInv, NEW a \in Actions, acts[a].status = "SUCCEEDED",
                    path[a] \in ProposalPath, IncidentOf[a] \notin disturbed
             PROVE  latest[IncidentOf[a]] = a /\ InClosedLoop(IncidentOf[a])
  BY DEF SuccessStaysInLoop
<1>1. Open(acts[a])
  BY SMT DEF Open, Settled
<1> QED BY <1>1, EngineAssumption DEF LoopInv, InLoop, InClosedLoop

-----------------------------------------------------------------------------
(* The count of failures: PolicyGivesUp.                                   *)

FailedStatus == {"FAILED", "VERIFICATION_FAILED"}

\* Until one of its actions is verified or rolled back, an incident has no more failed
\* actions than are counted, as long as the count has not reached its limit.
FailureInv ==
  \A i \in Incidents :
    ~Redeemed(i) /\ failures[i] < MaxAttempts => Cardinality(FailedActions(i)) <= failures[i]

\* The step adds no failure.
NothingFails == \A a \in Actions : acts'[a].status \in FailedStatus => acts[a].status \in FailedStatus

\* What a step does to the failed actions of an incident, and to its count.
FailureStep(i) ==
  \/ Redeemed(i)'
  \/ failures'[i] = failures[i] /\ FailedActions(i)' \subseteq FailedActions(i)
  \/ /\ failures'[i] = Counted(failures[i])
     /\ \E a \in Actions : FailedActions(i)' \subseteq FailedActions(i) \cup {a}

\* Handlers that neither count nor let an action fail.
LEMMA NothingFailsStep ==
  ASSUME NothingFails, failures' = failures, NEW i \in Incidents,
         TypeOK
  PROVE  FailureStep(i)
<1>1. FailedActions(i)' \subseteq FailedActions(i)
  BY SMT DEF FailedActions, ActionsOf, NothingFails, FailedStatus
<1> QED BY <1>1 DEF FailureStep

LEMMA ReportFailureStep ==
  ASSUME TypeOK, NEW a \in Actions, NEW rep \in Report, RecordRemediationResult(a, rep),
         NEW i \in Incidents
  PROVE  FailureStep(i)
<1>1. /\ acts' = [acts EXCEPT ![a] = Recorded(@, rep)]
      /\ failures' = [failures EXCEPT ![IncidentOf[a]] =
                        IF acts[a].status \notin ReportGuarded /\ rep.state \notin UnderWay
                           /\ ~ReportsSuccess(rep)
                        THEN Counted(@) ELSE @]
  BY DEF RecordRemediationResult
<1>2. \A b \in Actions \ {a} : acts'[b] = acts[b]
  BY <1>1 DEF TypeOK
<1>3. acts'[a] = Recorded(acts[a], rep) /\ acts[a] \in Record
  BY <1>1 DEF TypeOK
<1>4. FailedActions(i)' \subseteq FailedActions(i) \cup {a}
  BY <1>2 DEF FailedActions, ActionsOf
<1>5. CASE IncidentOf[a] = i /\ acts[a].status \notin ReportGuarded /\ rep.state \notin UnderWay
           /\ ~ReportsSuccess(rep)
  BY <1>1, <1>4, <1>5 DEF FailureStep, TypeOK
<1>6. CASE ~ (acts[a].status \notin ReportGuarded /\ rep.state \notin UnderWay
              /\ ~ReportsSuccess(rep))
  <2>1. acts'[a].status \in FailedStatus => acts[a].status \in FailedStatus
    <3>1. CASE acts[a].status \in ReportGuarded
      BY <1>3, <3>1, RecordedEffect
    <3>2. CASE acts[a].status \notin ReportGuarded
      <4>1. acts'[a] = Reported(acts[a], rep) /\ (rep.state \in UnderWay \/ ReportsSuccess(rep))
        BY <1>3, <1>6, <3>2 DEF Recorded
      <4>2. \A s : Moved(acts[a], s).status = s
        BY SMT DEF Moved
      <4> QED BY <4>1, <4>2, SMT DEF Reported, ConcludedStatus, ReportsSuccess, UnderWay, FailedStatus
    <3> QED BY <3>1, <3>2
  <2>2. failures'[i] = failures[i]
    BY <1>1, <1>6 DEF TypeOK
  <2>3. FailedActions(i)' \subseteq FailedActions(i)
    BY <1>2, <1>3, <2>1, SMT DEF FailedActions, ActionsOf, FailedStatus
  <2> QED BY <2>2, <2>3 DEF FailureStep
<1>7. CASE IncidentOf[a] # i
  <2>1. failures'[i] = failures[i]
    BY <1>1, <1>7 DEF TypeOK
  <2>2. FailedActions(i)' \subseteq FailedActions(i)
    BY <1>2, <1>7 DEF FailedActions, ActionsOf
  <2> QED BY <2>1, <2>2 DEF FailureStep
<1> QED BY <1>5, <1>6, <1>7

LEMMA TelemetryFailureStep ==
  ASSUME TypeOK, Telemetry, NEW i \in Incidents
  PROVE  FailureStep(i)
<1>1. PICK verdict \in [Incidents -> Verdict \cup {"NONE"}], autonomous \in BOOLEAN :
        SyncEffect(verdict, autonomous)
  BY TelemetryEffect
<1> DEFINE v == verdict[i]
           n == latest[i]
           rollback == reversing[i] \/ path[n] = "reversal"
<1>2. /\ v \in Verdict => AwaitsVerdict(i)
      /\ failures'[i] = CASE v = "VERIFIED" -> 0
                          [] v = "VERIFICATION_FAILED" -> Counted(failures[i])
                          [] OTHER -> failures[i]
      /\ v \in Verdict \cup {"NONE"}
  BY <1>1 DEF SyncEffect
<1>3. v \in Verdict
      => /\ n \in Actions /\ IncidentOf[n] = i /\ acts[n].status = "SUCCEEDED"
         /\ acts'[n].status = VerifiedStatus(v, rollback)
  <2> SUFFICES ASSUME v \in Verdict
               PROVE  /\ n \in Actions /\ IncidentOf[n] = i /\ acts[n].status = "SUCCEEDED"
                      /\ acts'[n].status = VerifiedStatus(v, rollback)
    OBVIOUS
  <2>1. n \in Actions /\ IncidentOf[n] = i /\ acts[n].status = "SUCCEEDED"
    BY <1>2 DEF AwaitsVerdict, InClosedLoop, TypeOK
  <2>2. acts'[n] = Verified(acts[n], v, rollback)
    BY <1>1, <2>1 DEF SyncEffect
  <2> HIDE DEF v, rollback
  <2> QED BY <2>1, <2>2, SMT DEF Verified, Moved
<1>4. ASSUME NEW a \in Actions, a # n \/ v # "VERIFICATION_FAILED", IncidentOf[a] = i,
             acts'[a].status \in FailedStatus
      PROVE  acts[a].status \in FailedStatus /\ acts[a].status # "ABSENT"
  <2>1. acts[a].status # "ABSENT"
    BY <1>1, <1>4, NewRecordIsRecord DEF SyncEffect, FailedStatus
  <2>2. CASE a = n /\ v \in Verdict
    <3>1. v \in {"VERIFIED", "VERIFYING"}
      BY <1>4, <2>2, SMT DEF Verdict
    <3>2. VerifiedStatus(v, rollback) \notin FailedStatus
      <4> HIDE DEF v, rollback
      <4> QED BY <3>1, SMT DEF VerifiedStatus, FailedStatus
    <3> QED BY <1>3, <1>4, <2>2, <3>2
  <2>3. CASE ~(a = n /\ v \in Verdict)
    <3>1. acts'[a] = acts[a]
      BY <1>1, <1>4, <2>1, <2>3 DEF SyncEffect
    <3> QED BY <1>4, <2>1, <3>1
  <2> QED BY <2>2, <2>3
<1>5. CASE v = "VERIFIED"
  <2>1. v \in Verdict
    BY <1>5, SMT DEF Verdict
  <2>2. VerifiedStatus(v, rollback) \in {"VERIFIED_RESOLVED", "ROLLED_BACK"}
    <3> HIDE DEF v, rollback
    <3> QED BY <1>5, SMT DEF VerifiedStatus
  <2>3. Redeemed(i)'
    BY <1>3, <2>1, <2>2 DEF Redeemed, ActionsOf
  <2> QED BY <2>3 DEF FailureStep
<1>6. CASE v = "VERIFICATION_FAILED"
  <2>1. v \in Verdict
    BY <1>6, SMT DEF Verdict
  <2>2. n \in Actions /\ failures'[i] = Counted(failures[i])
    BY <1>2, <1>3, <1>6, <2>1
  <2>3. FailedActions(i)' \subseteq FailedActions(i) \cup {n}
    BY <1>4, SMT DEF FailedActions, ActionsOf, FailedStatus
  <2> QED BY <2>2, <2>3 DEF FailureStep
<1>7. CASE v \notin {"VERIFIED", "VERIFICATION_FAILED"}
  <2>1. failures'[i] = failures[i]
    BY <1>2, <1>7
  <2>2. FailedActions(i)' \subseteq FailedActions(i)
    BY <1>4, <1>7, SMT DEF FailedActions, ActionsOf, FailedStatus
  <2> QED BY <2>1, <2>2 DEF FailureStep
<1> QED BY <1>5, <1>6, <1>7

\* Every step of the engine.
LEMMA EveryFailureStep ==
  ASSUME TypeOK, [Next]_vars, NEW i \in Incidents
  PROVE  FailureStep(i)
<1>1. CASE \/ ClaimPendingRemediationActions \/ ReconcileStalledActions \/ Tick
           \/ \E j \in Incidents : DisableIncidentAutoHealing(j)
           \/ \E a \in Actions : CancelRemediationAction(a)
  <2>1. \A a \in Actions : Mild(acts[a], acts'[a])
    BY <1>1, MildHandlers
  <2>2. NothingFails
    BY <2>1, SMT DEF NothingFails, Mild, FailedStatus, Lapses
  <2>3. failures' = failures
    BY <1>1 DEF ClaimPendingRemediationActions, ReconcileStalledActions, Tick,
                DisableIncidentAutoHealing, CancelRemediationAction, dialogue
  <2> QED BY <2>2, <2>3, NothingFailsStep
<1>2. ASSUME NEW a \in Actions, NEW rep \in Report, RecordRemediationResult(a, rep)
      PROVE  FailureStep(i)
  BY <1>2, ReportFailureStep
<1>3. CASE Telemetry
  BY <1>3, TelemetryFailureStep
<1>4. CASE UNCHANGED <<acts, failures>>
  BY <1>4, NothingFailsStep DEF NothingFails
<1>5. ASSUME NEW a \in Actions, acts' = [acts EXCEPT ![a] = NewRecord], failures' = failures
      PROVE  FailureStep(i)
  <2>1. NothingFails
    BY <1>5, NewRecordIsRecord DEF NothingFails, FailedStatus, TypeOK
  <2> QED BY <1>5, <2>1, NothingFailsStep
<1>6. ASSUME NEW healed \in SUBSET Actions, ExecuteAutoHeal(healed)
      PROVE  FailureStep(i)
  <2>1. NothingFails
    BY <1>6 DEF ExecuteAutoHeal, NothingFails, FailedStatus
  <2> QED BY <1>6, <2>1, NothingFailsStep DEF ExecuteAutoHeal
<1>7. ASSUME NEW j \in Incidents,
             CreateIncident(j) \/ RejectRemediation(j) \/ ResolveManually(j)
               \/ SaveRemediation(j) \/ EnableIncidentAutoHealing(j)
      PROVE  FailureStep(i)
  BY <1>4, <1>5, <1>7 DEF CreateIncident, RejectRemediation, ResolveManually, SaveRemediation,
        EnableIncidentAutoHealing, DispatchAutonomously, Dispatch, records, dialogue
<1>8. ASSUME NEW a \in Actions,
             ApproveRemediation(a) \/ TriggerManualHeal(a) \/ ApprovePodImageReplacement(a)
               \/ RollbackRemediation(a) \/ ExecuteClusterResourceOperation(a)
      PROVE  FailureStep(i)
  BY <1>5, <1>8 DEF ApproveRemediation, TriggerManualHeal, ApprovePodImageReplacement,
        RollbackRemediation, ExecuteClusterResourceOperation, Dispatch, dialogue
<1>9. CASE \/ \E j \in Incidents, succeeded \in BOOLEAN : SaveAIAnalysis(j, succeeded)
           \/ \E j \in Incidents, status \in {"ACTIVE", "CLOSED"} : UpdateIncident(j, status)
           \/ \E gone \in SUBSET {j \in Incidents : incident[j] \in Known} : DeleteIncidents(gone)
           \/ UNCHANGED vars
  BY <1>4, <1>9 DEF SaveAIAnalysis, UpdateIncident, DeleteIncidents, records, dialogue, vars
<1> QED BY <1>1, <1>2, <1>3, <1>6, <1>7, <1>8, <1>9 DEF Next

\* The invariant, given that a verified action stays verified.
LEMMA NextFailureInv ==
  ASSUME TypeOK, TypeOK', FailureInv, \A i \in Incidents : FailureStep(i),
         \A i \in Incidents : Redeemed(i) => Redeemed(i)'
  PROVE  FailureInv'
<1> SUFFICES ASSUME NEW i \in Incidents, ~Redeemed(i)', failures'[i] < MaxAttempts
             PROVE  Cardinality(FailedActions(i)') <= failures'[i]
  BY DEF FailureInv
<1>1. FailureStep(i) /\ ~Redeemed(i)
  OBVIOUS
<1>2. failures[i] \in 0 .. MaxAttempts /\ MaxAttempts \in Nat
  BY EngineAssumption DEF TypeOK
<1>3. IsFiniteSet(FailedActions(i)) /\ Cardinality(FailedActions(i)) \in Nat
  <2>1. FailedActions(i) \subseteq Actions
    BY DEF FailedActions, ActionsOf
  <2> QED BY <2>1, EngineAssumption, FS_Subset, FS_CardinalityType
<1>4. CASE failures'[i] = failures[i] /\ FailedActions(i)' \subseteq FailedActions(i)
  <2>1. Cardinality(FailedActions(i)) <= failures[i]
    BY <1>1, <1>4 DEF FailureInv
  <2>2. /\ Cardinality(FailedActions(i)') <= Cardinality(FailedActions(i))
        /\ IsFiniteSet(FailedActions(i)')
    BY <1>3, <1>4, FS_Subset
  <2>3. Cardinality(FailedActions(i)') \in Nat
    BY <2>2, FS_CardinalityType
  <2> QED BY <1>2, <1>3, <1>4, <2>1, <2>2, <2>3, SMT
<1>5. ASSUME NEW a \in Actions, FailedActions(i)' \subseteq FailedActions(i) \cup {a},
             failures'[i] = Counted(failures[i])
      PROVE  Cardinality(FailedActions(i)') <= failures'[i]
  <2>1. failures[i] < MaxAttempts /\ failures'[i] = failures[i] + 1
    BY <1>2, <1>5, SMT DEF Counted
  <2>2. Cardinality(FailedActions(i)) <= failures[i]
    BY <1>1, <2>1 DEF FailureInv
  <2>3. /\ IsFiniteSet(FailedActions(i) \cup {a})
        /\ Cardinality(FailedActions(i) \cup {a}) <= Cardinality(FailedActions(i)) + 1
    <3>1. /\ IsFiniteSet(FailedActions(i) \cup {a})
          /\ Cardinality(FailedActions(i) \cup {a}) =
               IF a \in FailedActions(i) THEN Cardinality(FailedActions(i))
                                         ELSE Cardinality(FailedActions(i)) + 1
      BY <1>3, FS_AddElement
    <3> QED BY <1>3, <3>1, SMT
  <2>4. /\ Cardinality(FailedActions(i)') <= Cardinality(FailedActions(i) \cup {a})
        /\ IsFiniteSet(FailedActions(i)')
    BY <1>5, <2>3, FS_Subset
  <2>5. Cardinality(FailedActions(i)') \in Nat /\ Cardinality(FailedActions(i) \cup {a}) \in Nat
    BY <2>3, <2>4, FS_CardinalityType
  <2> QED BY <1>2, <1>3, <2>1, <2>2, <2>3, <2>4, <2>5, SMT
<1> QED BY <1>1, <1>4, <1>5 DEF FailureStep

-----------------------------------------------------------------------------
(* Every step of the engine, and the inductive invariant.                  *)

\* An action that can lapse is remembered once it does.
LapsedInv == \A a \in Actions : acts[a].status \in Lapses => a \in lapsed

\* TypeOK, the store's own invariant, what the loop and the count keep, and the two
\* properties the steps preserve as they are.
IInv ==
  /\ TypeOK /\ SP!HandoverInv /\ LapsedInv
  /\ LoopInv /\ FailureInv
  /\ PausedHoldsBack /\ TargetLock

\* Every step of the engine is one of the steps above.
LEMMA EveryStep ==
  ASSUME TypeOK, SP!HandoverInv, [Next]_vars
  PROVE  StepOK
<1>1. CASE UNCHANGED vars
  <2>1. TypeOK'
    BY <1>1 DEF vars, records, dialogue, history, TypeOK
  <2> QED BY <1>1, <2>1, QuietStep DEF vars, history
<1>2. ASSUME NEW i \in Incidents,
             CreateIncident(i) \/ RejectRemediation(i) \/ ResolveManually(i)
               \/ SaveRemediation(i) \/ DisableIncidentAutoHealing(i) \/ EnableIncidentAutoHealing(i)
      PROVE  StepOK
  BY <1>2, DialogueStep, SaveRemediationStep, DisableStep, EnableStep
<1>3. ASSUME NEW i \in Incidents, NEW succeeded \in BOOLEAN, SaveAIAnalysis(i, succeeded)
      PROVE  StepOK
  BY <1>3, DialogueStep
<1>4. ASSUME NEW i \in Incidents, NEW status \in {"ACTIVE", "CLOSED"}, UpdateIncident(i, status)
      PROVE  StepOK
  BY <1>4, DialogueStep
<1>5. ASSUME NEW gone \in SUBSET {i \in Incidents : incident[i] \in Known}, DeleteIncidents(gone)
      PROVE  StepOK
  BY <1>5, DeleteStep
<1>6. ASSUME NEW a \in Actions,
             ApproveRemediation(a) \/ TriggerManualHeal(a) \/ ApprovePodImageReplacement(a)
               \/ RollbackRemediation(a) \/ ExecuteClusterResourceOperation(a)
               \/ CancelRemediationAction(a)
      PROVE  StepOK
  BY <1>6, OperatorStep, ImageStep, OperationStep, CancelStep
<1>7. ASSUME NEW healed \in SUBSET Actions, ExecuteAutoHeal(healed)
      PROVE  StepOK
  BY <1>7, AutoHealStep
<1>8. ASSUME NEW a \in Actions, NEW rep \in Report, RecordRemediationResult(a, rep)
      PROVE  StepOK
  <2>1. acts[a].status # "ABSENT"
    BY <1>8 DEF RecordRemediationResult, SP!HandoverInv, SP!Unhanded
  <2> QED BY <1>8, <2>1, ReportStep
<1>9. CASE ClaimPendingRemediationActions \/ ReconcileStalledActions \/ Tick \/ Telemetry
  BY <1>9, ClaimStep, ReaperStep, TickStep, SyncStep
<1> QED BY <1>1, <1>2, <1>3, <1>4, <1>5, <1>6, <1>7, <1>8, <1>9 DEF Next

\* What the step means for a status, in the words of ActionStoreProofs.
LEMMA StoreEffect ==
  ASSUME IInv, [Next]_vars
  PROVE  /\ StepOK
         /\ SP!IInv
         /\ SP!IInv'
         /\ \A a \in Actions : SP!StatusStep(a)
<1>1. StepOK
  BY EveryStep DEF IInv
<1>2. SP!IInv
  <2>1. SP!TypeOK
    BY DEF IInv, TypeOK, SP!TypeOK, SP!Record, Record, SP!Status, Status,
           SP!InFlight, InFlight, SP!ReportGuarded, ReportGuarded
  <2> QED BY <2>1 DEF IInv, SP!IInv
<1>3. [SP!Next]_(SP!vars)
  BY <1>1, SameStore DEF StepOK, Store!vars, SP!vars
<1>4. SP!TimingAssumption /\ SP!StoreAssumption
  BY TimingAssumption, EngineAssumption DEF SP!TimingAssumption, SP!StoreAssumption
<1>5. SP!IInv'
  BY <1>2, <1>3, <1>4, SP!NextIInv DEF SP!TimingAssumption, SP!StoreAssumption
<1>6. \A a \in Actions : SP!StatusStep(a)
  BY <1>2, <1>3, <1>4, SP!StepEffect DEF SP!TimingAssumption, SP!StoreAssumption
<1> QED BY <1>1, <1>2, <1>5, <1>6

\* An action that has come to its end stays as it is.
LEMMA SettledStay ==
  ASSUME IInv, [Next]_vars, NEW a \in Actions, acts[a].status \in Settled
  PROVE  acts'[a].status = acts[a].status
<1>1. SP!StatusStep(a)
  BY StoreEffect
<1>2. acts[a].status \in {"EXPIRED", "CANCELLED"} => a \notin handed
  BY SMT DEF IInv, SP!HandoverInv, SP!Unhanded
<1> QED BY <1>1, <1>2, SMT DEF SP!StatusStep, Settled, SP!InFlight, SP!ReportGuarded

LEMMA InitIInv == Init => IInv
<1> SUFFICES ASSUME Init PROVE IInv
  OBVIOUS
<1>1. NoRecord \in Record
  BY TimingAssumption, SMT DEF NoRecord, Record, Status
<1>2. \A a \in Actions : acts[a].status = "ABSENT" /\ a \notin handed
  BY DEF Init, NoRecord
<1>3. TypeOK
  BY <1>1, EngineAssumption, SMT DEF Init, TypeOK, IncidentStatus, ProposalStatus
<1>4. SP!HandoverInv /\ LapsedInv /\ PausedHoldsBack /\ TargetLock
  BY <1>2 DEF SP!HandoverInv, LapsedInv, Lapses, PausedHoldsBack, TargetLock, Holds, LockHolding
<1>5. LoopInv
  BY <1>2 DEF LoopInv, InLoop, Open
<1>6. FailureInv
  <2>1. \A i \in Incidents : FailedActions(i) = {} /\ failures[i] = 0
    BY <1>2 DEF Init, FailedActions, ActionsOf
  <2>2. Cardinality({}) = 0
    BY FS_EmptySet
  <2> QED BY <2>1, <2>2 DEF FailureInv
<1> QED BY <1>3, <1>4, <1>5, <1>6 DEF IInv

\* Whoever comes second finds the first one in its way.
LEMMA ContendBoth ==
  ASSUME NEW a \in Actions, NEW b \in Actions
  PROVE  Contend(a, b) <=> Contend(b, a)
BY Zenon DEF Contend

LEMMA NextIInv == IInv /\ [Next]_vars => IInv'
<1> SUFFICES ASSUME IInv, [Next]_vars PROVE IInv'
  OBVIOUS
<1>1. /\ StepOK /\ SP!IInv'
      /\ \A a \in Actions : SP!StatusStep(a) /\ ActionStep(a)
  BY StoreEffect DEF StepOK
<1>2. TypeOK' /\ SP!HandoverInv'
  BY <1>1 DEF StepOK, SP!IInv
<1>3. LapsedInv'
  <2> SUFFICES ASSUME NEW a \in Actions, acts'[a].status \in Lapses PROVE a \in lapsed'
    BY DEF LapsedInv
  <2>1. ActionStep(a)
    BY <1>1
  <2> QED BY <2>1 DEF ActionStep, LapsedStep, IInv, LapsedInv
<1>4. PausedHoldsBack'
  <2> SUFFICES ASSUME NEW a \in Actions, paused'[IncidentOf[a]], path'[a] = "autonomous"
               PROVE  acts'[a].status # "PENDING"
    BY DEF PausedHoldsBack
  <2>1. SP!StatusStep(a) /\ PathStep(a) /\ PauseStep(a)
    BY <1>1 DEF ActionStep
  <2>2. acts'[a].status = "PENDING" => acts[a].status \in {"PENDING", "ABSENT"}
    BY <2>1, SMT DEF SP!StatusStep, SP!ReportedStatus, SP!InFlight
  <2>3. CASE path'[a] = path[a] /\ (acts[a].status = "ABSENT" => acts'[a].status = "ABSENT")
    BY <2>1, <2>2, <2>3 DEF PauseStep, IInv, PausedHoldsBack
  <2> QED BY <2>1, <2>3 DEF PathStep
<1>5. TargetLock'
  <2> SUFFICES ASSUME NEW a \in Actions, NEW b \in Actions, a # b, Contend(a, b),
                      Holds(a)', Holds(b)', path'[a] \in AskingPath, path'[b] \in AskingPath,
                      {a, b} \cap lapsed' = {}
               PROVE  FALSE
    BY DEF TargetLock
  <2>1. ASSUME NEW c \in {a, b}
        PROVE  \/ Holds(c) /\ path[c] \in AskingPath /\ c \notin lapsed
               \/ ~TargetBusy(c) /\ \A d \in Actions \ {c} : acts'[d] = acts[d]
    <3>1. /\ SP!StatusStep(c) /\ PathStep(c) /\ lapsed \subseteq lapsed'
          /\ Holds(c)' /\ path'[c] \in AskingPath /\ c \notin lapsed'
      BY <1>1 DEF ActionStep, LapsedStep
    <3>2. CASE path'[c] = path[c] /\ (acts[c].status = "ABSENT" => acts'[c].status = "ABSENT")
      <4>1. acts[c].status \notin Lapses \cup {"ABSENT"} /\ path[c] \in AskingPath /\ c \notin lapsed
        BY <3>1, <3>2 DEF IInv, LapsedInv, Holds, LockHolding
      <4>2. acts[c].status \in {"EXPIRED", "CANCELLED"} => c \notin handed
        BY SMT DEF IInv, SP!HandoverInv, SP!Unhanded
      <4>3. acts[c].status \in Status
        BY DEF IInv, TypeOK, Record
      <4>4. acts'[c].status \in LockHolding
        BY <3>1 DEF Holds
      <4>5. acts[c].status \in LockHolding
        BY <3>1, <4>1, <4>2, <4>3, <4>4, SMT
           DEF SP!StatusStep, SP!ReportedStatus, SP!InFlight, SP!ReportGuarded, Lapses, LockHolding,
               Status, InFlight, ReportGuarded
      <4> QED BY <4>1, <4>5 DEF Holds
    <3> QED BY <3>1, <3>2 DEF PathStep
  <2>2. CASE Holds(a) /\ path[a] \in AskingPath /\ a \notin lapsed
    <3>1. CASE Holds(b) /\ path[b] \in AskingPath /\ b \notin lapsed
      BY <2>2, <3>1 DEF IInv, TargetLock
    <3>2. CASE ~TargetBusy(b)
      BY <2>2, <3>2, ContendBoth DEF TargetBusy
    <3> QED BY <2>1, <3>1, <3>2
  <2>3. CASE ~TargetBusy(a) /\ \A d \in Actions \ {a} : acts'[d] = acts[d]
    <3>1. acts'[b] = acts[b]
      BY <2>3
    <3>2. Holds(b)
      BY <3>1 DEF Holds
    <3> QED BY <2>3, <3>2, ContendBoth DEF TargetBusy
  <2> QED BY <2>1, <2>2, <2>3
<1>6. LoopInv'
  BY NextInLoop DEF IInv
<1>7. FailureInv'
  <2>1. \A i \in Incidents : FailureStep(i)
    BY EveryFailureStep DEF IInv
  <2>2. \A i \in Incidents : Redeemed(i) => Redeemed(i)'
    BY SettledStay, SMT DEF Redeemed, ActionsOf, Settled
  <2> QED BY <1>2, <2>1, <2>2, NextFailureInv DEF IInv
<1> QED BY <1>2, <1>3, <1>4, <1>5, <1>6, <1>7 DEF IInv

LEMMA InvariantIInv == Spec => []IInv
BY InitIInv, NextIInv, PTL DEF Spec

-----------------------------------------------------------------------------
(* The theorems.                                                           *)

\* Every variable of the engine stays well-formed.
THEOREM TypeCorrect == Spec => []TypeOK
<1>1. IInv => TypeOK
  BY DEF IInv
<1> QED BY <1>1, InvariantIInv, PTL

\* Whatever creates, cancels, judges or reports actions, their records behave as
\* ActionStore says: the engine adds rules and breaks none.
THEOREM ImplementsStoreTheorem == Spec => ImplementsStore
<1>1. Init => Store!Init
  BY SameOperators DEF Init, Store!Init
<1>2. IInv /\ [Next]_vars => [Store!Next]_(Store!vars)
  BY EveryStep DEF IInv, StepOK
<1> QED BY <1>1, <1>2, InvariantIInv, PTL DEF Spec, ImplementsStore, Store!Spec

\* What ActionStore promises, among pauses, dispatches, proposals and verdicts: no agent
\* was given a withdrawn action, a final status stays, and only telemetry revises a
\* reported success.
THEOREM StorePromisesTheorem ==
  Spec => /\ []Store!WithdrawnNeverHanded
          /\ Store!FinalStatusesStay
          /\ Store!SuccessRevisedOnlyByTelemetry
<1>1. IInv => Store!WithdrawnNeverHanded
  BY SMT DEF IInv, SP!HandoverInv, SP!Unhanded, Store!WithdrawnNeverHanded
<1>2. Store!Settled = Settled
  BY DEF Store!Settled, Settled
<1>3. IInv /\ [Next]_vars =>
        [\A a \in Actions : acts[a].status \in Store!Settled =>
           acts'[a].status = acts[a].status]_(Store!vars)
  BY <1>2, SettledStay
<1>4. IInv /\ [Next]_vars =>
        [\A a \in Actions : acts[a].status = "SUCCEEDED" =>
           acts'[a].status \in {"SUCCEEDED", "VERIFIED_RESOLVED", "ROLLED_BACK",
                                "VERIFICATION_FAILED"}]_(Store!vars)
  <2> SUFFICES ASSUME IInv, [Next]_vars, NEW a \in Actions, acts[a].status = "SUCCEEDED"
               PROVE  acts'[a].status \in {"SUCCEEDED", "VERIFIED_RESOLVED", "ROLLED_BACK",
                                           "VERIFICATION_FAILED"}
    OBVIOUS
  <2>1. SP!StatusStep(a)
    BY StoreEffect
  <2> QED BY <2>1, SMT DEF SP!StatusStep, SP!InFlight, SP!ReportGuarded
<1> QED BY <1>1, <1>3, <1>4, InvariantIInv, PTL
        DEF Spec, Store!FinalStatusesStay, Store!SuccessRevisedOnlyByTelemetry

\* Two actions that contend for a workload, or for a container of another resource,
\* both hold the lock only by way of an operation that does not ask for it, or of an
\* action that had given the lock up before.
THEOREM TargetLockTheorem == Spec => []TargetLock
<1>1. IInv => TargetLock
  BY DEF IInv
<1> QED BY <1>1, InvariantIInv, PTL

\* While an incident is paused, nothing the policy dispatched for it waits for an agent.
THEOREM PausedHoldsBackTheorem == Spec => []PausedHoldsBack
<1>1. IInv => PausedHoldsBack
  BY DEF IInv
<1> QED BY <1>1, InvariantIInv, PTL

\* A success that came through the proposal waits for its verdict where telemetry
\* looks for it, whatever else happens to the incident short of disturbing it.
THEOREM SuccessStaysInLoopTheorem == Spec => []SuccessStaysInLoop
<1>1. IInv => SuccessStaysInLoop
  BY LoopSuffices DEF IInv
<1> QED BY <1>1, InvariantIInv, PTL

\* The policy dispatches nothing for an incident with MaxAttempts failed actions, none
\* of them verified or rolled back, however reports, verdicts and dispatches come in
\* between.
THEOREM PolicyGivesUpTheorem == Spec => PolicyGivesUp
<1>1. IInv /\ [Next]_vars =>
        [\A a \in Actions :
           /\ acts[a].status = "ABSENT" /\ acts'[a].status # "ABSENT" /\ path'[a] = "autonomous"
           /\ ~Redeemed(IncidentOf[a])
           => Cardinality(FailedActions(IncidentOf[a])) < MaxAttempts]_vars
  <2> SUFFICES ASSUME IInv, [Next]_vars, NEW a \in Actions,
                      acts[a].status = "ABSENT", acts'[a].status # "ABSENT",
                      path'[a] = "autonomous", ~Redeemed(IncidentOf[a])
               PROVE  Cardinality(FailedActions(IncidentOf[a])) < MaxAttempts
    OBVIOUS
  <2>1. PathStep(a)
    BY StoreEffect DEF StepOK, ActionStep
  <2>2. failures[IncidentOf[a]] < MaxAttempts /\ IncidentOf[a] \in Incidents
    BY <2>1, EngineAssumption DEF PathStep
  <2>3. Cardinality(FailedActions(IncidentOf[a])) <= failures[IncidentOf[a]]
    BY <2>2 DEF IInv, FailureInv
  <2>4. FailedActions(IncidentOf[a]) \subseteq Actions
    BY DEF FailedActions, ActionsOf
  <2>5. Cardinality(FailedActions(IncidentOf[a])) \in Nat
    BY <2>4, EngineAssumption, FS_Subset, FS_CardinalityType
  <2> QED BY <2>2, <2>3, <2>5, EngineAssumption, SMT DEF IInv, TypeOK
<1> QED BY <1>1, InvariantIInv, PTL DEF Spec, PolicyGivesUp

=============================================================================

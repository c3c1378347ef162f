------------------------- MODULE CircuitBreakerProofs -------------------------
(***************************************************************************)
(* Theorems about CircuitBreaker, for every number of goroutines and every *)
(* setting of the breaker.                                                 *)
(*                                                                         *)
(* What the checked properties need beside the types: outside HALF_OPEN    *)
(* nobody is a probe, inside it the breaker's count covers the probes that *)
(* are really on their way (SuccessThreshold = 1, the only value in use),  *)
(* and a closed breaker never counts more failures than came in a row.     *)
(***************************************************************************)
EXTENDS CircuitBreaker, FiniteSetTheorems, TLAPS

\* The strengthening of TypeOK and CountersFitState that is inductive.
IInv ==
  /\ TypeOK
  /\ CountersFit(cb)
  /\ cb.state = "CLOSED" => cb.failureCount <= failuresInARow
  /\ \A c \in Callers : req[c].phase = "backoff" => req[c].attempt < MaxRetries

\* What is added for the quota.
ProbesCounted ==
  /\ cb.state # "HALF_OPEN" => probes = {}
  /\ Cardinality(probes) <= cb.halfOpenInFlight

-----------------------------------------------------------------------------
(* Lemmas about the three methods.                                         *)

\* A probe is let through only into a half-open breaker, within its quota.
LEMMA ProbeEffect ==
  ASSUME NEW b \in Breaker, NEW since \in 0 .. Cooldown, CountersFit(b), MayProbe(b, since)
  PROVE  /\ WithProbe(b) \in Breaker
         /\ CountersFit(WithProbe(b))
         /\ WithProbe(b).state = "HALF_OPEN"
         /\ WithProbe(b).halfOpenInFlight = b.halfOpenInFlight + 1
<1>1. CASE b.state = "OPEN"
  BY <1>1, BreakerAssumption, SMT DEF Breaker, CountersFit, WithProbe, Fields
<1>2. CASE b.state = "HALF_OPEN"
  BY <1>2, BreakerAssumption, SMT DEF Breaker, CountersFit, MayProbe, WithProbe, Fields
<1> QED BY <1>1, <1>2, SMT DEF MayProbe

\* A success never opens the breaker; with a threshold of one it closes it.
LEMMA SuccessEffect ==
  ASSUME NEW b \in Breaker, CountersFit(b)
  PROVE  /\ AfterSuccess(b) \in Breaker
         /\ CountersFit(AfterSuccess(b))
         /\ AfterSuccess(b).state # "OPEN"
         /\ AfterSuccess(b).state = "CLOSED" => AfterSuccess(b).failureCount = 0
         /\ SuccessThreshold = 1 => AfterSuccess(b).state = "CLOSED"
<1>1. CASE b.state = "HALF_OPEN" /\ b.consecutiveSuccesses + 1 < SuccessThreshold
  BY <1>1, BreakerAssumption, SMT DEF Breaker, CountersFit, AfterSuccess, Fields
<1>2. CASE ~ (b.state = "HALF_OPEN" /\ b.consecutiveSuccesses + 1 < SuccessThreshold)
  BY <1>2, BreakerAssumption, SMT DEF Breaker, CountersFit, AfterSuccess, Fields
<1> QED BY <1>1, <1>2

\* A failure leaves the breaker open, or closed with one failure more.
LEMMA FailureEffect ==
  ASSUME NEW b \in Breaker, CountersFit(b)
  PROVE  /\ AfterFailure(b) \in Breaker
         /\ CountersFit(AfterFailure(b))
         /\ AfterFailure(b).state # "HALF_OPEN"
         /\ AfterFailure(b).state = "CLOSED" =>
              b.state = "CLOSED" /\ AfterFailure(b).failureCount = b.failureCount + 1
         /\ b.state = "CLOSED" /\ AfterFailure(b).state = "OPEN" =>
              b.failureCount + 1 = Threshold
<1>1. CASE b.state = "CLOSED"
  BY <1>1, BreakerAssumption, SMT DEF Breaker, CountersFit, AfterFailure, Fields
<1>2. CASE b.state # "CLOSED"
  BY <1>2, BreakerAssumption, SMT DEF Breaker, CountersFit, AfterFailure, Fields
<1> QED BY <1>1, <1>2

-----------------------------------------------------------------------------
(* The invariant.  Every step changes the breaker by one of the three      *)
(* methods or not at all, which BreakerStep says.                          *)

Unchanged == UNCHANGED <<cb, sinceFailure, failuresInARow>>

BreakerStep ==
  \/ Unchanged
  \/ UNCHANGED <<cb, failuresInARow>> /\ sinceFailure' \in 0 .. Cooldown
  \/ MayProbe(cb, sinceFailure) /\ cb' = WithProbe(cb) /\ UNCHANGED <<sinceFailure, failuresInARow>>
  \/ RecordSuccess
  \/ RecordFailure

\* Init establishes the invariant.
LEMMA InitIInv == Init => IInv /\ ProbesCounted
<1> SUFFICES ASSUME Init PROVE IInv /\ ProbesCounted
  OBVIOUS
<1>1. TypeOK
  <2>1. cb \in Breaker
    BY BreakerAssumption, SMT DEF Init, Breaker, Fields
  <2>2. Idle \in [phase : {"idle", "sending", "backoff"}, attempt : 0 .. MaxRetries]
    BY BreakerAssumption, SMT DEF Idle
  <2>3. sinceFailure \in 0 .. Cooldown /\ failuresInARow \in 0 .. Threshold
    BY BreakerAssumption, SMT DEF Init
  <2>4. req \in [Callers -> [phase : {"idle", "sending", "backoff"}, attempt : 0 .. MaxRetries]]
    BY <2>2 DEF Init
  <2> QED BY <2>1, <2>3, <2>4 DEF Init, TypeOK
<1>2. CountersFit(cb)
  BY BreakerAssumption, SMT DEF Init, CountersFit, Fields
<1>3. Cardinality(probes) = 0
  BY FS_EmptySet DEF Init
<1> QED BY <1>1, <1>2, <1>3, SMT DEF IInv, ProbesCounted, Init, Fields, Idle

RequestType == [phase : {"idle", "sending", "backoff"}, attempt : 0 .. MaxRetries]

OthersOK ==
  /\ req \in [Callers -> RequestType]
  /\ streamUp \in BOOLEAN
  /\ healthy \in BOOLEAN
  /\ probes \subseteq Callers

\* The requests, the stream and the history keep their types; the breaker
\* changes by one of its methods.
LEMMA StepShape ==
  ASSUME IInv, [Next]_vars
  PROVE  BreakerStep /\ OthersOK'
<1> USE BreakerAssumption
<1>0. OthersOK
  BY DEF IInv, TypeOK, OthersOK, RequestType
<1>1. ASSUME NEW c \in Callers, NEW attempt \in {0, MaxRetries}, Begin(c, attempt)
      PROVE  BreakerStep /\ OthersOK'
  <2>1. attempt \in 0 .. MaxRetries
    BY SMT
  <2>2. [phase |-> "sending", attempt |-> attempt] \in RequestType
    BY <2>1, SMT DEF RequestType
  <2>3. BreakerStep
    BY <1>1, SMT DEF Begin, BreakerStep, Unchanged
  <2>4. OthersOK'
    BY <1>0, <1>1, <2>2, SMT DEF Begin, OthersOK
  <2> QED BY <2>3, <2>4
<1>2. ASSUME NEW c \in Callers, End(c)
      PROVE  OthersOK'
  <2>1. Idle \in RequestType
    BY SMT DEF Idle, RequestType
  <2> QED BY <1>0, <1>2, <2>1, SMT DEF End, OthersOK, ProbesWithout
<1>3. ASSUME NEW c \in Callers, Succeed(c) \/ Fail(c) \/ Abandon(c)
      PROVE  BreakerStep /\ OthersOK'
  BY <1>2, <1>3, SMT DEF Succeed, Fail, Abandon, BreakerStep, Unchanged
<1>4. ASSUME NEW c \in Callers, RetryLater(c)
      PROVE  BreakerStep /\ OthersOK'
  <2>1. req[c] \in RequestType /\ [req[c] EXCEPT !.phase = "backoff"] \in RequestType
    BY <1>0, SMT DEF OthersOK, RequestType
  <2>2. req' = [req EXCEPT ![c] = [req[c] EXCEPT !.phase = "backoff"]]
    BY <1>4 DEF RetryLater
  <2> QED BY <1>0, <1>4, <2>1, <2>2, SMT DEF RetryLater, OthersOK, BreakerStep, Unchanged
<1>5. ASSUME NEW c \in Callers, Retry(c)
      PROVE  BreakerStep /\ OthersOK'
  <2>1. req[c].attempt < MaxRetries
    BY <1>5 DEF IInv, Retry
  <2>2. [phase |-> "sending", attempt |-> req[c].attempt + 1] \in RequestType
    BY <1>0, <2>1, SMT DEF OthersOK, RequestType
  <2> QED BY <1>0, <1>5, <2>2, SMT DEF Retry, OthersOK, BreakerStep, Unchanged
<1>6. CASE StreamOpens \/ StreamFails
  BY <1>0, <1>6, Zenon DEF StreamOpens, StreamFails, OthersOK, BreakerStep, ProbesWithout
<1>7. CASE StreamDrops
  BY <1>0, <1>7, Zenon DEF StreamDrops, OthersOK, BreakerStep, Unchanged
<1>8. CASE BackendChanges
  BY <1>0, <1>8, Zenon DEF BackendChanges, OthersOK, BreakerStep, Unchanged
<1>9. CASE UNCHANGED vars
  BY <1>0, <1>9, SMT DEF vars, OthersOK, BreakerStep, Unchanged
<1>10. CASE Tick
  <2>1. sinceFailure' \in 0 .. Cooldown
    BY <1>10, SMT DEF IInv, TypeOK, Tick
  <2> QED BY <1>0, <1>10, <2>1, SMT DEF Tick, OthersOK, BreakerStep
<1> QED
  BY <1>1, <1>3, <1>4, <1>5, <1>6, <1>7, <1>8, <1>9, <1>10 DEF Next

\* What a step does to the breaker, its clock and the run of failures.
LEMMA BreakerStepSafe ==
  ASSUME IInv, BreakerStep
  PROVE  /\ cb' \in Breaker
         /\ CountersFit(cb')
         /\ sinceFailure' \in 0 .. Cooldown
         /\ failuresInARow' \in 0 .. Threshold
         /\ cb'.state = "CLOSED" => cb'.failureCount <= failuresInARow'
         /\ cb.state = "CLOSED" /\ cb'.state = "OPEN" => failuresInARow' = Threshold
<1> USE BreakerAssumption
<1>0. /\ cb \in Breaker /\ CountersFit(cb)
      /\ sinceFailure \in 0 .. Cooldown /\ failuresInARow \in 0 .. Threshold
      /\ cb.state = "CLOSED" => cb.failureCount <= failuresInARow
  BY DEF IInv, TypeOK
<1>1. CASE Unchanged
  BY <1>0, <1>1, SMT DEF Unchanged
<1>2. CASE UNCHANGED <<cb, failuresInARow>> /\ sinceFailure' \in 0 .. Cooldown
  BY <1>0, <1>2, SMT
<1>3. CASE MayProbe(cb, sinceFailure) /\ cb' = WithProbe(cb)
             /\ UNCHANGED <<sinceFailure, failuresInARow>>
  BY <1>0, <1>3, ProbeEffect
<1>4. CASE RecordSuccess
  <2>1. /\ cb' \in Breaker /\ CountersFit(cb') /\ cb'.state # "OPEN"
        /\ cb'.state = "CLOSED" => cb'.failureCount = 0
    BY <1>0, <1>4, SuccessEffect DEF RecordSuccess
  <2> QED BY <1>0, <1>4, <2>1, SMT DEF RecordSuccess
<1>5. CASE RecordFailure
  <2>1. /\ cb' \in Breaker /\ CountersFit(cb')
        /\ cb'.state = "CLOSED" => cb.state = "CLOSED" /\ cb'.failureCount = cb.failureCount + 1
        /\ cb.state = "CLOSED" /\ cb'.state = "OPEN" => cb.failureCount + 1 = Threshold
    BY <1>0, <1>5, FailureEffect DEF RecordFailure
  <2>2. cb.failureCount \in Nat
    BY <1>0, SMT DEF Breaker
  <2>3. /\ sinceFailure' \in 0 .. Cooldown
        /\ failuresInARow' \in 0 .. Threshold
        /\ failuresInARow' = failuresInARow + 1 \/ failuresInARow' = Threshold
    BY <1>0, <1>5, SMT DEF RecordFailure
  <2>4. cb'.state = "CLOSED" => cb'.failureCount <= failuresInARow'
    BY <1>0, <2>1, <2>2, <2>3, SMT DEF CountersFit
  <2>5. cb.state = "CLOSED" /\ cb'.state = "OPEN" => failuresInARow' = Threshold
    BY <1>0, <1>5, <2>1, <2>2, SMT DEF RecordFailure
  <2> QED BY <2>1, <2>3, <2>4, <2>5
<1> QED BY <1>1, <1>2, <1>3, <1>4, <1>5 DEF BreakerStep

\* A request that backs off has an attempt left.
LEMMA BackoffStep ==
  ASSUME IInv, [Next]_vars, NEW d \in Callers, req'[d].phase = "backoff"
  PROVE  req'[d].attempt < MaxRetries
<1>0. req \in [Callers -> RequestType] /\ (req[d].phase = "backoff" => req[d].attempt < MaxRetries)
  BY DEF IInv, TypeOK, RequestType
<1>1. ASSUME NEW c \in Callers, NEW attempt \in {0, MaxRetries}, Begin(c, attempt)
      PROVE  req'[d].attempt < MaxRetries
  BY <1>0, <1>1, SMT DEF Begin
<1>2. ASSUME NEW c \in Callers, Succeed(c) \/ Fail(c) \/ Abandon(c)
      PROVE  req'[d].attempt < MaxRetries
  BY <1>0, <1>2, SMT DEF Succeed, Fail, Abandon, End, Idle
<1>3. ASSUME NEW c \in Callers, RetryLater(c)
      PROVE  req'[d].attempt < MaxRetries
  <2>1. CASE c = d
    <3>1. req'[d] = [req[d] EXCEPT !.phase = "backoff"] /\ req[d] \in RequestType
      BY <1>0, <1>3, <2>1 DEF RetryLater
    <3> QED BY <1>3, <2>1, <3>1, SMT DEF RetryLater, RequestType
  <2>2. CASE c # d
    BY <1>0, <1>3, <2>2, SMT DEF RetryLater
  <2> QED BY <2>1, <2>2
<1>4. ASSUME NEW c \in Callers, Retry(c)
      PROVE  req'[d].attempt < MaxRetries
  BY <1>0, <1>4, SMT DEF Retry
<1>5. CASE req' = req
  BY <1>0, <1>5
<1>6. CASE StreamOpens \/ StreamFails \/ StreamDrops \/ Tick \/ BackendChanges \/ UNCHANGED vars
  BY <1>5, <1>6 DEF StreamOpens, StreamFails, StreamDrops, Tick, BackendChanges, vars
<1> QED BY <1>1, <1>2, <1>3, <1>4, <1>6 DEF Next

\* Every step keeps the invariant.
LEMMA NextIInv == IInv /\ [Next]_vars => IInv'
<1> SUFFICES ASSUME IInv, [Next]_vars PROVE IInv'
  OBVIOUS
<1>1. BreakerStep /\ OthersOK'
  BY StepShape
<1>2. /\ cb' \in Breaker /\ CountersFit(cb')
      /\ sinceFailure' \in 0 .. Cooldown /\ failuresInARow' \in 0 .. Threshold
      /\ cb'.state = "CLOSED" => cb'.failureCount <= failuresInARow'
  BY <1>1, BreakerStepSafe
<1>3. TypeOK'
  BY <1>1, <1>2 DEF TypeOK, OthersOK, RequestType
<1>4. \A c \in Callers : req'[c].phase = "backoff" => req'[c].attempt < MaxRetries
  BY BackoffStep
<1> QED BY <1>2, <1>3, <1>4 DEF IInv

\* With a success threshold of one, the count of a half-open period covers
\* its probes: it is lowered only when the period ends.
LEMMA NextProbesCounted ==
  ASSUME SuccessThreshold = 1, IInv, ProbesCounted, [Next]_vars
  PROVE  ProbesCounted'
<1> USE BreakerAssumption
<1>0. /\ cb \in Breaker /\ CountersFit(cb) /\ sinceFailure \in 0 .. Cooldown
      /\ probes \subseteq Callers /\ IsFiniteSet(probes)
      /\ cb.halfOpenInFlight \in Nat /\ Cardinality(probes) \in Nat
  <2>1. cb \in Breaker /\ CountersFit(cb) /\ sinceFailure \in 0 .. Cooldown /\ probes \subseteq Callers
    BY DEF IInv, TypeOK
  <2>2. cb.halfOpenInFlight \in Nat
    BY <2>1, SMT DEF Breaker
  <2> QED BY <2>1, <2>2, FS_Subset, FS_CardinalityType
<1>1. ASSUME NEW gone, probes' = ProbesWithout(gone), cb' = cb
      PROVE  ProbesCounted'
  <2>1. CASE cb.state = "HALF_OPEN"
    <3>1. probes' \subseteq probes
      BY <1>1, <2>1 DEF ProbesWithout
    <3>2. Cardinality(probes') \in Nat /\ Cardinality(probes') <= Cardinality(probes)
      BY <1>0, <3>1, FS_Subset, FS_CardinalityType
    <3> QED BY <1>0, <1>1, <2>1, <3>2, SMT DEF ProbesCounted
  <2>2. CASE cb.state # "HALF_OPEN"
    <3>1. probes' = {}
      BY <1>1, <2>2 DEF ProbesWithout
    <3> QED BY <1>0, <1>1, <2>2, <3>1, FS_EmptySet, SMT DEF ProbesCounted
  <2> QED BY <2>1, <2>2
<1>2. ASSUME NEW gone, probes' = ProbesWithout(gone), RecordSuccess \/ RecordFailure
      PROVE  ProbesCounted'
  <2>1. cb' \in Breaker /\ cb'.state # "HALF_OPEN"
    <3>1. CASE RecordSuccess
      BY <1>0, <3>1, SuccessEffect DEF RecordSuccess
    <3>2. CASE RecordFailure
      BY <1>0, <3>2, FailureEffect DEF RecordFailure
    <3> QED BY <1>2, <3>1, <3>2
  <2>2. probes' = {} /\ cb'.halfOpenInFlight \in Nat
    <3>1. probes' = {}
      BY <1>2, <2>1 DEF ProbesWithout
    <3>2. cb'.halfOpenInFlight \in Nat
      BY <2>1, SMT DEF Breaker
    <3> QED BY <3>1, <3>2
  <2> QED BY <2>1, <2>2, FS_EmptySet, SMT DEF ProbesCounted
<1>3. ASSUME NEW c \in Callers, NEW attempt \in {0, MaxRetries}, Begin(c, attempt)
      PROVE  ProbesCounted'
  <2>1. CASE UNCHANGED <<cb, probes>>
    BY <2>1 DEF ProbesCounted
  <2>2. CASE MayProbe(cb, sinceFailure) /\ cb' = WithProbe(cb) /\ probes' = probes \cup {c}
    <3>1. cb'.state = "HALF_OPEN" /\ cb'.halfOpenInFlight = cb.halfOpenInFlight + 1
      BY <1>0, <2>2, ProbeEffect
    <3>2. /\ Cardinality(probes') \in Nat
          /\ Cardinality(probes') = Cardinality(probes) \/ Cardinality(probes') = Cardinality(probes) + 1
      BY <1>0, <2>2, FS_AddElement, FS_CardinalityType
    <3> QED BY <1>0, <3>1, <3>2, SMT DEF ProbesCounted
  <2> QED BY <1>3, <2>1, <2>2 DEF Begin
<1>4. ASSUME NEW c \in Callers, Succeed(c) \/ Fail(c) \/ Abandon(c)
      PROVE  ProbesCounted'
  BY <1>1, <1>2, <1>4 DEF Succeed, Fail, Abandon, End
<1>5. ASSUME NEW c \in Callers, RetryLater(c) \/ Retry(c)
      PROVE  ProbesCounted'
  BY <1>5 DEF RetryLater, Retry, ProbesCounted
<1>6. CASE StreamOpens \/ StreamFails
  BY <1>2, <1>6 DEF StreamOpens, StreamFails
<1>7. CASE StreamDrops \/ Tick \/ BackendChanges \/ UNCHANGED vars
  BY <1>7 DEF StreamDrops, Tick, BackendChanges, vars, ProbesCounted
<1> QED BY <1>3, <1>4, <1>5, <1>6, <1>7 DEF Next

LEMMA InvariantIInv == Spec => []IInv
<1>1. Init => IInv
  BY InitIInv
<1> QED BY <1>1, NextIInv, PTL DEF Spec

-----------------------------------------------------------------------------
(* The theorems.                                                           *)

\* The breaker's fields and the requests keep their types.
THEOREM TypeCorrect == Spec => []TypeOK
<1>1. IInv => TypeOK
  BY DEF IInv
<1> QED BY <1>1, InvariantIInv, PTL

\* The counters fit the state: no reset is missing on any path.
THEOREM CountersTheorem == Spec => []CountersFitState
<1>1. IInv => CountersFitState
  BY DEF IInv, CountersFitState
<1> QED BY <1>1, InvariantIInv, PTL

\* Only Threshold failures in a row trip a closed breaker.
THEOREM TripTheorem == Spec => TripsOnConsecutiveFailures
<1>1. IInv /\ [Next]_vars =>
        [cb.state = "CLOSED" /\ cb'.state = "OPEN" => failuresInARow' = Threshold]_vars
  BY StepShape, BreakerStepSafe
<1> QED BY <1>1, InvariantIInv, PTL DEF Spec, TripsOnConsecutiveFailures

\* At most MaxProbes requests of a half-open period are on their way.
THEOREM QuotaTheorem == SuccessThreshold = 1 => (Spec => []ProbeQuota)
<1> SUFFICES ASSUME SuccessThreshold = 1 PROVE Spec => []ProbeQuota
  OBVIOUS
<1>1. Init => IInv /\ ProbesCounted
  BY InitIInv
<1>2. (IInv /\ ProbesCounted) /\ [Next]_vars => (IInv /\ ProbesCounted)'
  BY NextIInv, NextProbesCounted
<1>3. IInv /\ ProbesCounted => ProbeQuota
  <2> SUFFICES ASSUME IInv, ProbesCounted PROVE Cardinality(probes) <= MaxProbes
    BY DEF ProbeQuota
  <2>1. Cardinality(probes) \in Nat
    BY BreakerAssumption, FS_Subset, FS_CardinalityType DEF IInv, TypeOK
  <2>2. cb.halfOpenInFlight \in 0 .. MaxProbes
    BY SMT DEF IInv, TypeOK, Breaker
  <2> QED BY BreakerAssumption, <2>1, <2>2, SMT DEF ProbesCounted
<1> QED BY <1>1, <1>2, <1>3, PTL DEF Spec

=============================================================================

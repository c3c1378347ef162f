---------------------------- MODULE CircuitBreaker ----------------------------
(***************************************************************************)
(* The agent's circuit breaker (agent/internal/transport) together with    *)
(* the code that consults it: postWithRetry and the Poll functions of the  *)
(* client, run by several goroutines at once, and OpenActionStream, which  *)
(* reports to the breaker without asking it for permission.                *)
(*                                                                         *)
(* Allow, RecordSuccess and RecordFailure hold the breaker's mutex, so     *)
(* each is one step; everything between them interleaves.                  *)
(***************************************************************************)
EXTENDS Integers, FiniteSets

CONSTANTS
  Callers,           \* goroutines that send requests through the client
  Threshold,         \* consecutive failures that trip the breaker
  SuccessThreshold,  \* successes in HALF_OPEN that close it (always 1: no caller sets it)
  MaxProbes,         \* halfOpenMaxProbes
  Cooldown,          \* ticks that an OPEN breaker waits after the last failure
  MaxRetries         \* retries of one postWithRetry call

ASSUME BreakerAssumption ==
  /\ IsFiniteSet(Callers)
  /\ Threshold \in Nat \ {0}
  /\ SuccessThreshold \in Nat \ {0}
  /\ MaxProbes \in Nat \ {0}
  /\ Cooldown \in Nat \ {0}
  /\ MaxRetries \in Nat

Breaker == [state : {"CLOSED", "OPEN", "HALF_OPEN"}, failureCount : 0 .. Threshold,
            consecutiveSuccesses : 0 .. SuccessThreshold, halfOpenInFlight : 0 .. MaxProbes]

Fields(state, failures, successes, inFlight) ==
  [state |-> state, failureCount |-> failures,
   consecutiveSuccesses |-> successes, halfOpenInFlight |-> inFlight]

VARIABLES
  cb,            \* the breaker's fields
  sinceFailure,  \* ticks since lastFailure, counted up to Cooldown
  req,           \* the request each caller is in
  streamUp,      \* the action stream is connected
  healthy,       \* the backend answers every request with success
  probes,        \* history: callers admitted in the current HALF_OPEN period, still active
  failuresInARow \* history: failures recorded since the last success, up to Threshold

vars == <<cb, sinceFailure, req, streamUp, healthy, probes, failuresInARow>>

Idle == [phase |-> "idle", attempt |-> 0]

TypeOK ==
  /\ cb \in Breaker
  /\ sinceFailure \in 0 .. Cooldown
  /\ req \in [Callers -> [phase : {"idle", "sending", "backoff"}, attempt : 0 .. MaxRetries]]
  /\ streamUp \in BOOLEAN
  /\ healthy \in BOOLEAN
  /\ probes \subseteq Callers
  /\ failuresInARow \in 0 .. Threshold

\* NewCircuitBreaker: lastFailure is the zero time, long ago.
Init ==
  /\ cb = Fields("CLOSED", 0, 0, 0)
  /\ sinceFailure = Cooldown
  /\ req = [c \in Callers |-> Idle]
  /\ streamUp = FALSE
  /\ healthy \in BOOLEAN
  /\ probes = {}
  /\ failuresInARow = 0

-----------------------------------------------------------------------------
(* The breaker's three methods.                                            *)

\* Mutant: the cooldown is compared the wrong way round.
MayProbeEarly(b, since) ==
  \/ b.state = "OPEN" /\ since < Cooldown
  \/ b.state = "HALF_OPEN" /\ b.halfOpenInFlight < MaxProbes

\* Mutant: an off-by-one in the probe quota.
MayProbeOneMore(b, since) ==
  \/ b.state = "OPEN" /\ since >= Cooldown
  \/ b.state = "HALF_OPEN" /\ b.halfOpenInFlight <= MaxProbes

\* Allow in OPEN and HALF_OPEN: when a probe is let through.
MayProbe(b, since) ==
  \/ b.state = "OPEN" /\ since >= Cooldown
  \/ b.state = "HALF_OPEN" /\ b.halfOpenInFlight < MaxProbes

\* Mutant: the probe that begins a half-open period is not counted.
WithProbeUncounted(b) ==
  Fields("HALF_OPEN", b.failureCount, 0, IF b.state = "OPEN" THEN 0 ELSE b.halfOpenInFlight + 1)

WithProbe(b) ==
  IF b.state = "OPEN"
  THEN Fields("HALF_OPEN", b.failureCount, 0, 1)
  ELSE Fields("HALF_OPEN", b.failureCount, b.consecutiveSuccesses, b.halfOpenInFlight + 1)

\* Mutant: the failures before a success still count.
AfterSuccessKeepingFailures(b) ==
  IF b.state = "CLOSED" THEN b ELSE Fields("CLOSED", 0, 0, 0)

\* RecordSuccess
AfterSuccess(b) ==
  IF b.state = "HALF_OPEN" /\ b.consecutiveSuccesses + 1 < SuccessThreshold
  THEN Fields("HALF_OPEN", b.failureCount, b.consecutiveSuccesses + 1,
              IF b.halfOpenInFlight > 0 THEN b.halfOpenInFlight - 1 ELSE 0)
  ELSE Fields("CLOSED", 0, 0, 0)

\* RecordFailure
AfterFailure(b) ==
  IF b.state = "CLOSED"
  THEN Fields(IF b.failureCount + 1 >= Threshold THEN "OPEN" ELSE "CLOSED",
              b.failureCount + 1, 0, b.halfOpenInFlight)
  ELSE Fields("OPEN", b.failureCount, 0, 0)

RecordSuccess ==
  /\ cb' = AfterSuccess(cb)
  /\ failuresInARow' = 0
  /\ UNCHANGED sinceFailure

RecordFailure ==
  /\ cb' = AfterFailure(cb)
  /\ sinceFailure' = 0
  /\ failuresInARow' = IF failuresInARow < Threshold THEN failuresInARow + 1 ELSE Threshold

\* The history variable follows the half-open period: a caller that ends, or
\* a period that ends, takes probes out of it.
ProbesWithout(gone) == IF cb'.state = "HALF_OPEN" THEN probes \ gone ELSE {}

-----------------------------------------------------------------------------
(* Requests.  A post makes up to MaxRetries + 1 attempts, a poll only one; *)
(* a poll is a request that begins at its last attempt.                    *)

Begin(c, attempt) ==
  /\ req[c].phase = "idle"
  /\ req' = [req EXCEPT ![c] = [phase |-> "sending", attempt |-> attempt]]
  /\ \/ /\ cb.state = "CLOSED"
        /\ UNCHANGED <<cb, probes>>
     \/ /\ MayProbe(cb, sinceFailure)
        /\ cb' = WithProbe(cb)
        /\ probes' = probes \cup {c}
  /\ UNCHANGED <<sinceFailure, streamUp, healthy, failuresInARow>>

End(c) ==
  /\ req' = [req EXCEPT ![c] = Idle]
  /\ probes' = ProbesWithout({c})
  /\ UNCHANGED <<streamUp, healthy>>

\* An answer 2xx.
Succeed(c) ==
  /\ req[c].phase = "sending"
  /\ RecordSuccess
  /\ End(c)

\* A network error, a 429 or a 5xx before the last attempt: wait and retry.
RetryLater(c) ==
  /\ req[c].phase = "sending" /\ ~healthy
  /\ req[c].attempt < MaxRetries
  /\ req' = [req EXCEPT ![c].phase = "backoff"]
  /\ UNCHANGED <<cb, sinceFailure, streamUp, healthy, probes, failuresInARow>>

Retry(c) ==
  /\ req[c].phase = "backoff"
  /\ req' = [req EXCEPT ![c] = [phase |-> "sending", attempt |-> @.attempt + 1]]
  /\ UNCHANGED <<cb, sinceFailure, streamUp, healthy, probes, failuresInARow>>

\* The same at the last attempt.
Fail(c) ==
  /\ req[c].phase = "sending" /\ ~healthy
  /\ req[c].attempt = MaxRetries
  /\ RecordFailure
  /\ End(c)

\* A 400, 401, 403 or 404, or the context ends during a backoff: the call
\* returns and the breaker hears nothing of it.
Abandon(c) ==
  /\ req[c].phase \in {"sending", "backoff"} /\ ~healthy
  /\ UNCHANGED <<cb, sinceFailure, failuresInARow>>
  /\ End(c)

-----------------------------------------------------------------------------
(* The action stream.  A status other than 200 is not recorded.            *)

StreamOpens ==
  /\ ~streamUp
  /\ streamUp' = TRUE
  /\ RecordSuccess
  /\ probes' = ProbesWithout({})
  /\ UNCHANGED <<req, healthy>>

StreamFails ==
  /\ ~streamUp /\ ~healthy
  /\ RecordFailure
  /\ probes' = ProbesWithout({})
  /\ UNCHANGED <<req, streamUp, healthy>>

StreamDrops ==
  /\ streamUp /\ ~healthy
  /\ streamUp' = FALSE
  /\ UNCHANGED <<cb, sinceFailure, req, healthy, probes, failuresInARow>>

Tick ==
  /\ sinceFailure < Cooldown
  /\ sinceFailure' = sinceFailure + 1
  /\ UNCHANGED <<cb, req, streamUp, healthy, probes, failuresInARow>>

BackendChanges ==
  /\ healthy' = ~healthy
  /\ UNCHANGED <<cb, sinceFailure, req, streamUp, probes, failuresInARow>>

Next ==
  \/ \E c \in Callers :
       \/ \E attempt \in {0, MaxRetries} : Begin(c, attempt)
       \/ Succeed(c)
       \/ RetryLater(c)
       \/ Retry(c)
       \/ Fail(c)
       \/ Abandon(c)
  \/ StreamOpens
  \/ StreamFails
  \/ StreamDrops
  \/ Tick
  \/ BackendChanges

Spec == Init /\ [][Next]_vars

\* The workers of the agent are loops on tickers: each asks again and again,
\* requests have time-outs and so end, streamWorker reconnects, and time passes.
FairSpec ==
  /\ Spec
  /\ WF_vars(Tick)
  /\ WF_vars(StreamOpens \/ StreamFails)
  /\ \A c \in Callers :
       /\ WF_vars(\E attempt \in {0, MaxRetries} : Begin(c, attempt))
       /\ WF_vars(Retry(c))
       /\ WF_vars(Succeed(c) \/ RetryLater(c) \/ Fail(c) \/ Abandon(c))

-----------------------------------------------------------------------------
(* Properties.                                                             *)

\* The counters agree with the state: a breaker that is not half open has no
\* probe in flight and no success to its credit, a closed one has not reached
\* the threshold.  A reset that is forgotten on one of the paths between the
\* states breaks it.
CountersFit(b) ==
  /\ b.state # "HALF_OPEN" => b.halfOpenInFlight = 0 /\ b.consecutiveSuccesses = 0
  /\ b.state = "CLOSED" => b.failureCount < Threshold
  /\ b.consecutiveSuccesses < SuccessThreshold

CountersFitState == CountersFit(cb)

\* "Controlled probe limiting": at any moment at most MaxProbes of the
\* requests admitted in this half-open period are on their way, whatever
\* requests of earlier periods still end in it.
ProbeQuota == Cardinality(probes) <= MaxProbes

\* The breaker trips only after Threshold failures with no success between
\* them, from whichever goroutine or stream they come.
TripsOnConsecutiveFailures ==
  [][cb.state = "CLOSED" /\ cb'.state = "OPEN" => failuresInARow' = Threshold]_vars

\* Once the backend is well again, an open breaker does not stay open, and it
\* closes, as long as every probe that is counted is still under way.  Without the
\* condition it need not: a probe that is abandoned stays counted, and "reject
\* subsequent requests until trial probe completes" then rejects for ever.
ClosesOnceHealthy ==
  /\ <>[]healthy => []<>(cb.state # "OPEN")
  /\ <>[](healthy /\ cb.halfOpenInFlight = Cardinality(probes)) => []<>(cb.state = "CLOSED")

=============================================================================

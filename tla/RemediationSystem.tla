-------------------------- MODULE RemediationSystem --------------------------
(***************************************************************************)
(* A remediation action end to end: the record the server keeps            *)
(* (ActionRecord), its delivery to the agent, the agent's worker that      *)
(* executes it (Manager.ProcessAction in agent/internal/remediation), and  *)
(* the queue of state reports that several goroutines drain concurrently   *)
(* (reportJobState, drainLocalQueue).  Requests and answers get lost, and  *)
(* the agent may be restarted at any step.                                 *)
(*                                                                         *)
(* The idempotency key is taken to be the action's id: two actions with    *)
(* one key, which createCanonicalRemediationAction can produce, are left   *)
(* out.                                                                    *)
(***************************************************************************)
EXTENDS ActionRecord, Sequences, FiniteSets, SequencesExt

CONSTANTS
  Actions,       \* identifiers of remediation actions
  None,          \* no action
  Drains,        \* goroutines that may be in drainLocalQueue at once
  ChanCapacity,  \* capacity of actionChan
  MaxPending,    \* reports pendingUpdates keeps
  MaxRestarts    \* bound: restarts of the agent in one behaviour

ASSUME SystemAssumption ==
  /\ IsFiniteSet(Actions)
  /\ None \notin Actions
  /\ ChanCapacity \in Nat /\ MaxPending \in Nat \ {0} /\ MaxRestarts \in Nat

VARIABLES
  rec,         \* the server's records
  inbox,       \* actionChan; what exceeds its capacity is held by the poller
  job, phase,  \* the action ProcessAction works on, and the last state it reported
  completed,   \* keys of idempotencyMap
  pending,     \* pendingUpdates
  batch, kept, \* per drain: what it still has to send, and "unacked"
  draining,    \* drains that are under way
  received,    \* history: reports of which a post has been acknowledged
  executions,  \* history: calls of Execute, per action, ended or not
  outcome,     \* history: how the agent's attempts at an action ended
  restarts     \* restarts so far

agent == <<inbox, job, phase, completed>>
reports == <<pending, batch, kept, draining, received>>
history == <<executions, outcome, restarts>>
vars == <<rec, agent, reports, history>>

Ending == {"SUCCEEDED", "FAILED", "ROLLED_BACK"}
Phase == {"PENDING", "RUNNING", "EXECUTING", "VERIFYING", "ROLLING_BACK"}
Update == [action : Actions, state : Phase \cup Ending]

TypeOK ==
  /\ rec \in [Actions -> Record]
  /\ inbox \in Seq(Actions)
  /\ job \in Actions \cup {None} /\ phase \in Phase
  /\ completed \subseteq Actions
  /\ pending \in Seq(Update) /\ Len(pending) <= MaxPending
  /\ batch \in [Drains -> Seq(Update)] /\ kept \in [Drains -> Seq(Update)]
  /\ draining \subseteq Drains
  /\ received \subseteq Update
  /\ executions \in [Actions -> Nat]
  /\ outcome \in [Actions -> SUBSET Ending]
  /\ restarts \in 0 .. MaxRestarts

Init ==
  /\ rec = [a \in Actions |-> NoRecord]
  /\ inbox = << >> /\ job = None /\ phase = "PENDING" /\ completed = {}
  /\ pending = << >> /\ received = {}
  /\ batch = [d \in Drains |-> << >>] /\ kept = batch /\ draining = {}
  /\ executions = [a \in Actions |-> 0]
  /\ outcome = [a \in Actions |-> {}]
  /\ restarts = 0

-----------------------------------------------------------------------------
(* The server on its own.                                                  *)

\* An operator or the autonomous policy dispatches an action.
Create(a) ==
  /\ rec[a].status = "ABSENT"
  /\ rec' = [rec EXCEPT ![a] = NewRecord]
  /\ UNCHANGED <<agent, reports, history>>

Tick ==
  /\ rec' = [a \in Actions |-> Older(rec[a])]
  /\ rec' # rec
  /\ UNCHANGED <<agent, reports, history>>

Cancel(a) ==
  /\ Cancellable(rec[a])
  /\ rec' = [rec EXCEPT ![a] = Cancelled(rec[a])]
  /\ UNCHANGED <<agent, reports, history>>

\* The heartbeat monitor; agentDown is what it thinks of the agent.
Reap ==
  /\ \E agentDown \in BOOLEAN : rec' = [a \in Actions |-> Reaped(rec[a], agentDown)]
  /\ rec' # rec
  /\ UNCHANGED <<agent, reports, history>>

-----------------------------------------------------------------------------
(* Delivery: the server claims, and the answer may be lost on the way.     *)

ClaimAll == [a \in Actions |-> Claimed(rec[a])]

Claimables == {a \in Actions : Claimable(rec[a])}

\* The claimed actions, in any order.
Answers == SetToSeqs(Claimables)

\* Mutant: the answer goes out even if the delivery is not recorded.
PollUnrecorded ==
  /\ Len(inbox) <= ChanCapacity
  /\ ClaimAll # rec
  /\ rec' \in {rec, ClaimAll}
  /\ \E s \in Answers : inbox' = inbox \o s
  /\ UNCHANGED <<job, phase, completed, reports, history>>

\* pollAndQueue waits for room in the channel, and polls again only after that.
Poll ==
  /\ Len(inbox) <= ChanCapacity
  /\ ClaimAll # rec
  /\ rec' = ClaimAll
  /\ \E s \in Answers, lost \in BOOLEAN : inbox' = IF lost THEN inbox ELSE inbox \o s
  /\ UNCHANGED <<job, phase, completed, reports, history>>

\* The stream may break, and handleSSEEvent drops what does not fit into the
\* channel: some of the claimed actions arrive.
Stream ==
  /\ ClaimAll # rec
  /\ rec' = ClaimAll
  /\ \E fit \in SUBSET Claimables :
       /\ fit # {} => Len(inbox) + Cardinality(fit) <= ChanCapacity
       /\ \E s \in SetToSeqs(fit) : inbox' = inbox \o s
  /\ UNCHANGED <<job, phase, completed, reports, history>>

-----------------------------------------------------------------------------
(* ProcessAction.  Every report enters pendingUpdates.                     *)

\* Mutant: the queue is not limited.
BufferedUnlimited(u) == Append(pending, u)

\* The oldest reports give way when there are too many.
Buffered(u) ==
  LET all == Append(pending, u)
  IN IF Len(all) > MaxPending THEN Tail(all) ELSE all

\* Mutant: the idempotency map is not consulted.
TakeAgain ==
  /\ job = None /\ inbox # << >>
  /\ inbox' = Tail(inbox)
  /\ job' = Head(inbox) /\ phase' = "PENDING"
  /\ pending' = Buffered([action |-> Head(inbox), state |-> "PENDING"])
  /\ UNCHANGED <<rec, completed, batch, kept, draining, received, history>>

\* An action already completed is dropped without a report.
Take ==
  /\ job = None /\ inbox # << >>
  /\ inbox' = Tail(inbox)
  /\ IF Head(inbox) \in completed
     THEN UNCHANGED <<job, phase, pending>>
     ELSE /\ job' = Head(inbox) /\ phase' = "PENDING"
          /\ pending' = Buffered([action |-> Head(inbox), state |-> "PENDING"])
  /\ UNCHANGED <<rec, completed, batch, kept, draining, received, history>>

\* The job goes on to a further phase and reports it.
Enter(p) ==
  /\ phase' = p
  /\ pending' = Buffered([action |-> job, state |-> p])
  /\ UNCHANGED <<rec, inbox, job, completed, batch, kept, draining, received, outcome, restarts>>

\* recordCompletion, the last report, and the worker is free.
Conclude(e) ==
  /\ completed' = completed \cup {job}
  /\ outcome' = [outcome EXCEPT ![job] = @ \cup {e}]
  /\ pending' = Buffered([action |-> job, state |-> e])
  /\ job' = None /\ phase' = "PENDING"
  /\ UNCHANGED <<rec, inbox, batch, kept, draining, received, restarts>>

CountExecution == executions' = [executions EXCEPT ![job] = @ + 1]

\* The policy, the slots or a missing client refuse the action.
Refuse == job # None /\ phase = "PENDING" /\ Conclude("FAILED") /\ UNCHANGED executions

Begin == job # None /\ phase = "PENDING" /\ Enter("RUNNING") /\ UNCHANGED executions

\* A failed precondition, a timeout, a desired state already reached, a dry run.
SkipExecution ==
  /\ job # None /\ phase = "RUNNING"
  /\ \E e \in {"FAILED", "SUCCEEDED"} : Conclude(e)
  /\ UNCHANGED executions

\* From here on the cluster may have been changed.
StartExecution == job # None /\ phase = "RUNNING" /\ Enter("EXECUTING") /\ CountExecution

ExecuteSucceeds ==
  job # None /\ phase = "EXECUTING" /\ Enter("VERIFYING") /\ UNCHANGED executions

\* An error or a timeout.
ExecuteFails ==
  job # None /\ phase = "EXECUTING" /\ Conclude("FAILED") /\ UNCHANGED executions

\* Verified, or timed out.
VerifyEnds ==
  /\ job # None /\ phase = "VERIFYING"
  /\ \E e \in {"SUCCEEDED", "FAILED"} : Conclude(e)
  /\ UNCHANGED executions

VerifyFails ==
  job # None /\ phase = "VERIFYING" /\ Enter("ROLLING_BACK") /\ UNCHANGED executions

RollbackEnds ==
  /\ job # None /\ phase = "ROLLING_BACK"
  /\ \E e \in {"ROLLED_BACK", "FAILED"} : Conclude(e)
  /\ UNCHANGED executions

Worker ==
  \/ Take \/ Refuse \/ Begin \/ SkipExecution \/ StartExecution
  \/ ExecuteSucceeds \/ ExecuteFails \/ VerifyEnds \/ VerifyFails \/ RollbackEnds

\* Everything the manager keeps is in memory.
AgentRestarts ==
  /\ restarts < MaxRestarts
  /\ restarts' = restarts + 1
  /\ inbox' = << >> /\ job' = None /\ phase' = "PENDING" /\ completed' = {}
  /\ pending' = << >>
  /\ batch' = [d \in Drains |-> << >>] /\ kept' = batch' /\ draining' = {}
  /\ UNCHANGED <<rec, received, executions, outcome>>

-----------------------------------------------------------------------------
(* drainLocalQueue.                                                        *)

\* What ReportDetailedActionResult posts; "TimeoutException" is in stdErr only.
Detailed(u) == [state |-> u.state, success |-> u.state = "SUCCEEDED", timedOut |-> FALSE]

\* Mutant: the reports of phases under way claim success.
PlainOptimistic(u) ==
  [state |-> "NONE", success |-> u.state \notin {"FAILED", "ROLLED_BACK"}, timedOut |-> FALSE]

\* What the fallback ReportActionResult posts.
Plain(u) == [state |-> "NONE", success |-> u.state = "SUCCEEDED", timedOut |-> FALSE]

DrainBegins(d) ==
  /\ d \notin draining /\ pending # << >>
  /\ draining' = draining \cup {d}
  /\ batch' = [batch EXCEPT ![d] = pending]
  /\ kept' = [kept EXCEPT ![d] = << >>]
  /\ UNCHANGED <<rec, agent, pending, received, history>>

\* The detailed post is acknowledged; or it fails, the server having got it or
\* not, and the plain one is acknowledged.
SendAcknowledged(d) ==
  /\ d \in draining /\ batch[d] # << >>
  /\ LET u == Head(batch[d])
         r == rec[u.action]
     IN /\ rec' \in {[rec EXCEPT ![u.action] = s] :
                       s \in {Recorded(r, Detailed(u)), Recorded(r, Plain(u)),
                              Recorded(Recorded(r, Detailed(u)), Plain(u))}}
        /\ received' = received \cup {u}
  /\ batch' = [batch EXCEPT ![d] = Tail(@)]
  /\ UNCHANGED <<agent, pending, kept, draining, history>>

\* Neither post is acknowledged; the server may have got any of them.
SendFails(d) ==
  /\ d \in draining /\ batch[d] # << >>
  /\ LET u == Head(batch[d])
         r == rec[u.action]
     IN /\ rec' \in {[rec EXCEPT ![u.action] = s] :
                       s \in {r, Recorded(r, Detailed(u)), Recorded(r, Plain(u)),
                              Recorded(Recorded(r, Detailed(u)), Plain(u))}}
        /\ kept' = [kept EXCEPT ![d] = Append(@, u)]
  /\ batch' = [batch EXCEPT ![d] = Tail(@)]
  /\ UNCHANGED <<agent, pending, draining, received, history>>

\* The context ends before the batch does: the queue stays as it is.
DrainAborts(d) ==
  /\ d \in draining /\ batch[d] # << >>
  /\ draining' = draining \ {d}
  /\ batch' = [batch EXCEPT ![d] = << >>] /\ kept' = [kept EXCEPT ![d] = << >>]
  /\ UNCHANGED <<rec, agent, pending, received, history>>

\* The queue becomes what this drain could not send.
DrainEnds(d) ==
  /\ d \in draining /\ batch[d] = << >>
  /\ draining' = draining \ {d}
  /\ pending' = kept[d]
  /\ kept' = [kept EXCEPT ![d] = << >>]
  /\ UNCHANGED <<rec, agent, batch, received, history>>

Next ==
  \/ Tick \/ Reap \/ Poll \/ Stream
  \/ \E a \in Actions : Create(a) \/ Cancel(a)
  \/ Worker \/ AgentRestarts
  \/ \E d \in Drains : DrainBegins(d) \/ SendAcknowledged(d) \/ SendFails(d)
                         \/ DrainAborts(d) \/ DrainEnds(d)

Spec == Init /\ [][Next]_vars

-----------------------------------------------------------------------------
(* Properties.                                                             *)

\* No claim has answered with an action in one of these.
Undelivered == {"ABSENT", "PENDING", "CANCELLED", "EXPIRED"}

HandedOut == {a \in Actions : rec[a].status \notin Undelivered}

\* ActionStore lets an agent report anything about what it was handed.  This agent is
\* one of those: the server never receives a report about an action it has not handed
\* out, and its records behave as ActionStore says.
Store == INSTANCE ActionStore
           WITH acts <- rec, handed <- HandedOut,
                Incidents <- {None}, IncidentOf <- [a \in Actions |-> None]
ImplementsStore == Store!Spec

\* The server shows an action as succeeded or rolled back only if an attempt of
\* the agent ended that way, whatever was lost, repeated or reordered.
ConclusionIsEarned ==
  \A a \in Actions :
    rec[a].status \in {"SUCCEEDED", "ROLLED_BACK"} => rec[a].status \in outcome[a]

\* An action that was cancelled, or expired before delivery, has not been
\* executed and is nowhere in the agent that could still execute it.
WithdrawnNeverRuns ==
  \A a \in Actions :
    rec[a].status \in {"CANCELLED", "EXPIRED"} =>
      executions[a] = 0 /\ job # a /\ a \notin ToSet(inbox)

\* Redelivery does not execute an action twice; only a restart of the agent,
\* which forgets what it has done, lets it run once more.
OneRunPerLife == \A a \in Actions : executions[a] <= restarts + 1

(* What comments and documents of the repository say, and the code does not do. *)

\* "flushes pending state updates to the server with zero data loss guarantee":
\* at the end of a drain a report leaves the queue only if it was acknowledged.
NoReportLost ==
  [][\A d \in Drains :
       d \in draining /\ d \notin draining' /\ restarts' = restarts =>
         \A u \in ToSet(pending) \ ToSet(pending') : u \in received]_vars
=============================================================================

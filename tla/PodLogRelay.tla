------------------------------ MODULE PodLogRelay ------------------------------
(***************************************************************************)
(* The logs of one container as the console gets them (server/store.ts):   *)
(* getPodLogs queues a request, the agent's poll claims it, its workers    *)
(* fetch and upload, and every upload, also one of the continuous          *)
(* collection (LogScrape), wakes who waits for that log.                   *)
(*                                                                         *)
(* The times of this part are left out: a pending request may be young     *)
(* enough to be shared or not (1.5 s), a viewer may stop waiting at any    *)
(* time (3.5 s), and podLogsCache, which decides only whether a call of    *)
(* getPodLogs asks the agent at all (5 s), is not kept: any call may ask.  *)
(***************************************************************************)
EXTENDS LogScrape, Sequences, SequencesExt

CONSTANTS
  Viewers,     \* calls of getPodLogs at a time
  MaxPending   \* pending requests, 20

ASSUME RelayAssumption == IsFiniteSet(Viewers) /\ MaxPending \in Nat \ {0}

VARIABLES
  waiting,  \* pendingLogResolvers: the log each viewer waits for, or Nothing
  pending,  \* pendingLogRequests: the logs asked for, oldest first
  working,  \* how many requests for a log the agent's queue and workers hold
  unlucky   \* history: viewers for whose log a request was lost since they asked

relayVars == <<waiting, pending, working, unlucky>>
vars == <<scrapeVars, relayVars>>

Keys == {"curr", "prev"}
Nothing == "nothing"

TypeOK ==
  /\ ScrapeTypeOK
  /\ waiting \in [Viewers -> Keys \cup {Nothing}]
  /\ pending \in Seq(Keys) /\ Len(pending) <= MaxPending
  /\ working \in [Keys -> Nat]
  /\ unlucky \subseteq Viewers

Init ==
  /\ ScrapeInit
  /\ waiting = [v \in Viewers |-> Nothing]
  /\ pending = <<>>
  /\ working = [k \in Keys |-> 0]
  /\ unlucky = {}

-------------------------------------------------------------------------------
(* The backend *)

WaitingFor(k) == {v \in Viewers : waiting[v] = k}

\* storePodLogs: whoever waits for the log is woken, whichever request it answers.
Stored(k) ==
  /\ waiting' = [v \in Viewers |-> IF waiting[v] = k THEN Nothing ELSE waiting[v]]
  /\ unlucky' = unlucky \ WaitingFor(k)

\* A request for one of these logs will not be answered.
Lost(keys) == unlucky' = unlucky \cup UNION {WaitingFor(k) : k \in keys}

\* Mutant: a request that finds no room is dropped, not the oldest one.
QueuedIfRoom(k) == IF Len(pending) < MaxPending THEN Append(pending, k) ELSE pending

\* Mutant: the list is not cut.
QueuedAlways(k) == Append(pending, k)

Queued(k) ==
  LET requests == Append(pending, k)
  IN  IF Len(requests) > MaxPending THEN Tail(requests) ELSE requests

Evicted == IF Len(pending) < MaxPending THEN {} ELSE {Head(pending)}

\* queuePodLogRequest: a pending request for the same log is shared if it is young.
Shares(k) ==
  /\ k \in ToSet(pending)
  /\ UNCHANGED <<pending, unlucky>>

Queues(k) ==
  /\ pending' = Queued(k)
  /\ Lost(Evicted)

GetPodLogs(v, k) ==
  /\ waiting[v] = Nothing
  /\ budget > 0 /\ budget' = budget - 1
  /\ waiting' = [waiting EXCEPT ![v] = k]
  /\ Shares(k) \/ Queues(k)
  /\ UNCHANGED <<container, memory, pass, collected, history, working>>

WaitTimesOut(v) ==
  /\ waiting[v] # Nothing
  /\ waiting' = [waiting EXCEPT ![v] = Nothing]
  /\ unlucky' = unlucky \ {v}
  /\ UNCHANGED <<scrapeVars, pending, working>>

-------------------------------------------------------------------------------
(* The agent *)

Asked(k) == Cardinality({i \in DOMAIN pending : pending[i] = k})

\* claimPendingLogRequests forgets the requests; the answer arrives or not.
PollAndProcess(arrives) ==
  /\ pending # <<>>
  /\ pending' = <<>>
  /\ working' = IF arrives THEN [k \in Keys |-> working[k] + Asked(k)] ELSE working
  /\ Lost(IF arrives THEN {} ELSE ToSet(pending))
  /\ UNCHANGED <<scrapeVars, waiting>>

\* What the answer to a request brings: the newest lines of the log.
Fetched(k) == Newest(IF k = "curr" THEN RunningLog ELSE CrashedLog, MaxTail)

Done(k) == working[k] > 0 /\ working' = [working EXCEPT ![k] = @ - 1]

\* The worker uploads what it fetched, or the reason why there is nothing.
ProcessLogRequest(k, lines) ==
  /\ Done(k)
  /\ Stored(k)
  /\ collected' = collected \cup lines
  /\ UNCHANGED <<container, memory, pass, budget, history, pending>>

\* Its upload does not arrive.
ProcessLogRequestFails(k) ==
  /\ Done(k)
  /\ Lost({k})
  /\ UNCHANGED <<scrapeVars, waiting, pending>>

\* What the continuous collection uploads is stored like an answer to a request.
Uploads(k, arrives) ==
  /\ IF arrives THEN Stored(k) ELSE UNCHANGED <<waiting, unlucky>>
  /\ UNCHANGED <<pending, working>>

CollectContinuousLogs ==
  \/ /\ Tick \/ Restart \/ PassBegins \/ FetchCurrent \/ FetchCurrentFails
     /\ UNCHANGED relayVars
  \/ \E arrives \in BOOLEAN :
       SendCurrent(arrives) /\ Uploads("curr", arrives /\ pass.lines # {})
  \/ \E end \in Ends(PreviousWindow), arrives \in BOOLEAN :
       LET lines == IF arrives THEN {l \in PreviousWindow : l <= end} ELSE {} IN
         CollectPrevious(lines) /\ Uploads("prev", lines # {})

\* The process of the agent ends and another one starts.
AgentEnds ==
  /\ AgentRestarts
  /\ working' = [k \in Keys |-> 0]
  /\ Lost({k \in Keys : working[k] > 0})
  /\ UNCHANGED <<waiting, pending>>

OnDemand ==
  \/ \E v \in Viewers : WaitTimesOut(v) \/ \E k \in Keys : GetPodLogs(v, k)
  \/ \E arrives \in BOOLEAN : PollAndProcess(arrives)
  \/ \E k \in Keys : \/ \E lines \in {{}, Fetched(k)} : ProcessLogRequest(k, lines)
                     \/ ProcessLogRequestFails(k)

Next == CollectContinuousLogs \/ OnDemand \/ AgentEnds

Spec == Init /\ [][Next]_vars

-------------------------------------------------------------------------------
(* Properties *)

\* Whoever waits for a log has a request for it before them, in the list of the
\* backend or in the hands of the agent, unless one was lost since they asked: with
\* a poll's answer, the agent's process or an upload, or because the list was full.
\* Sharing a request, the claim that forgets the requests and the wake-up by every
\* upload of the log leave nobody waiting for an answer that nobody works on.
WaiterIsServed ==
  \A v \in Viewers :
    waiting[v] = Nothing \/ v \in unlucky \/
    waiting[v] \in ToSet(pending) \/ working[waiting[v]] > 0

===============================================================================

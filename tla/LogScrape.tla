------------------------------- MODULE LogScrape -------------------------------
(***************************************************************************)
(* The continuous log collection of the agent                              *)
(* (agent/internal/collector/log_collector.go) for one container: passes   *)
(* that scrape what was written since the last one, the checkpoint and the *)
(* restart count they remember, the logs of a crashed container, and the   *)
(* backend's record of the lines that arrive (server.ts, logManager.ts).   *)
(*                                                                         *)
(* Time is counted in ticks so short that at most one line is written in   *)
(* each; a line is named by the tick it was written in.  The agent reads   *)
(* its clock in whole seconds, which are Second ticks long, and asks for a *)
(* window by its length, its largest number of lines and its bytes; the    *)
(* last cut an answer off anywhere.  The pruning of checkpoints is left    *)
(* out: the pod exists throughout.                                         *)
(*                                                                         *)
(* The module has no next-state relation of its own: PodLogRelay composes  *)
(* its actions with the requests for logs.                                 *)
(***************************************************************************)
EXTENDS Integers, FiniteSets

CONSTANTS
  Lines,        \* the lines: the ticks in which the container writes one
  Second,       \* ticks in a second
  Grace,        \* overlap of two windows, 3 s
  MinSince,     \* a window covers at least this much without the overlap, 2 s
  FirstWindow,  \* window of a scrape without a checkpoint, 300 s
  MaxWindow,    \* the largest window, 600 s
  PrevWindow,   \* window on a crashed container, 600 s
  FirstTail, MaxTail, PrevTail,  \* the lines these windows hold: 100, 250, 150
  Prompt,       \* delay of a prompt fetch or upload: two fit into the overlap,
                \* with what the clock's whole seconds may take away
  MaxTime,      \* bound: ticks
  MaxEvents     \* bound: crashes, restarts of the agent and calls of viewers

ASSUME ScrapeAssumption ==
  /\ Second \in Nat \ {0}
  /\ Grace \in Nat /\ MinSince \in Nat /\ Prompt \in Nat
  /\ FirstWindow \in Nat /\ MaxWindow \in Nat /\ PrevWindow \in Nat
  /\ FirstTail \in Nat /\ MaxTail \in Nat /\ PrevTail \in Nat
  /\ MaxTime \in Nat /\ Second <= MaxTime /\ MaxEvents \in Nat
  /\ Lines \subseteq 1 .. MaxTime
  /\ 2 * Prompt + Second - 2 <= Grace /\ Grace <= MaxWindow

VARIABLES
  now,        \* the time
  born,       \* first tick of the running container
  prevBorn,   \* first tick of the container that ran before it
  restarts,   \* RestartCount of the container
  checkpoint, \* checkpoints: the second in which the last scrape ended, or None
  seen,       \* restartCounts: the count that scrape went with
  pass,       \* the pass of collectContinuousLogs under way
  collected,  \* lines the backend has recorded
  budget,     \* events that are still to come
  reached,    \* history: time up to which scrapes with a checkpoint have read
  atRisk      \* history: lines that something which went wrong may cost

container == <<now, born, prevBorn, restarts>>
memory == <<checkpoint, seen>>
history == <<reached, atRisk>>
scrapeVars == <<container, memory, pass, collected, budget, history>>

None == 0
Times == None .. MaxTime
Larger(a, b) == IF a > b THEN a ELSE b
Smaller(a, b) == IF a < b THEN a ELSE b

\* One pass: the goroutine of the running container fetches and uploads, and
\* the one of the crashed container, if there is one, does both in a step.
Pass ==
  [start: Times, listed: 0 .. MaxEvents, since: Nat,
   current: {"due", "fetched", "done"}, lines: SUBSET Lines, high: Times,
   previous: {"due", "done"}]

NoPass ==
  [start |-> None, listed |-> 0, since |-> 0,
   current |-> "done", lines |-> {}, high |-> None, previous |-> "done"]

ScrapeTypeOK ==
  /\ now \in Times \ {None}
  /\ born \in 1 .. MaxTime + 1 /\ prevBorn \in 1 .. MaxTime + 1
  /\ restarts \in 0 .. MaxEvents
  /\ checkpoint \in Times /\ seen \in 0 .. MaxEvents
  /\ pass \in Pass
  /\ collected \subseteq Lines
  /\ budget \in 0 .. MaxEvents
  /\ reached \in Times /\ atRisk \subseteq Lines

\* The clock has been running, so that no checkpoint is None.
ScrapeInit ==
  /\ now = Second /\ born = 1 /\ prevBorn = 1 /\ restarts = 0
  /\ checkpoint = None /\ seen = 0
  /\ pass = NoPass
  /\ collected = {}
  /\ budget = MaxEvents
  /\ reached = None /\ atRisk = {}

-------------------------------------------------------------------------------
(* The container *)

Tick ==
  /\ now < MaxTime
  /\ now' = now + 1
  /\ UNCHANGED <<born, prevBorn, restarts, memory, pass, collected, budget, history>>

Written == {l \in Lines : l <= now}
RunningLog == {l \in Written : l >= born}
CrashedLog == {l \in Written : prevBorn <= l /\ l < born}

\* TailLines
Newest(log, n) == {l \in log : Cardinality({m \in log : m > l}) < n}

\* A crash whose log the collector is still to fetch: it remembers a smaller count,
\* or will do so at the end of its first scrape.
CrashPending ==
  \/ pass.previous = "due"
  \/ checkpoint # None /\ restarts > seen
  \/ checkpoint = None /\ pass.current # "done" /\ restarts > pass.listed

Risk(problem, lines) == IF problem THEN lines ELSE {}

\* Kubernetes keeps the log of one crashed container.  A second crash drops that
\* of the first; and nobody fetches the log of a container that crashes while the
\* collector remembers no count.
Restart ==
  /\ budget > 0 /\ budget' = budget - 1
  /\ restarts' = restarts + 1
  /\ prevBorn' = born
  /\ born' = now + 1
  /\ atRisk' = atRisk \cup Risk(CrashPending, CrashedLog)
                      \cup Risk(checkpoint = None /\ pass.current = "done", RunningLog)
  /\ UNCHANGED <<now, memory, pass, collected, reached>>

-------------------------------------------------------------------------------
(* A pass of the collector *)

\* time.Now().Unix()
WholeSecond(t) == t - (t % Second)

\* Mutant: a window begins exactly where the last scrape ended.
SinceWithoutGrace ==
  IF checkpoint = None
  THEN FirstWindow
  ELSE Smaller(Larger(WholeSecond(now) - checkpoint, MinSince), MaxWindow)

Since ==
  IF checkpoint = None
  THEN FirstWindow
  ELSE Smaller(Larger(WholeSecond(now) - checkpoint, MinSince) + Grace, MaxWindow)

TailLines == IF checkpoint = None THEN FirstTail ELSE MaxTail

ShouldCollectPrevious == checkpoint # None /\ restarts > seen

\* The pass comes so late that its window does not reach back to the last one.
Overdue == checkpoint # None /\ WholeSecond(now) - checkpoint + Grace > MaxWindow

\* What the running container has written since t.
WrittenSince(t) == {l \in RunningLog : l > t}

PassBegins ==
  /\ pass.current = "done" /\ pass.previous = "done"
  /\ pass' = [pass EXCEPT !.start = now, !.listed = restarts, !.since = Since,
                          !.current = "due",
                          !.previous = IF ShouldCollectPrevious THEN "due" ELSE "done"]
  /\ atRisk' = atRisk \cup Risk(Overdue, WrittenSince(reached))
  /\ UNCHANGED <<container, memory, collected, budget, reached>>

Late(t) == now - t > Prompt

\* An agent that remembers nothing was away for longer than the first window.
AwayTooLong == checkpoint = None /\ now - reached > FirstWindow

\* Where an answer of these lines ends in time: now, or before the line at which
\* LimitBytes or the end of the connection cuts it off.
Ends(lines) == {now} \cup {l - 1 : l \in lines}

\* GetPodLogs answers with what the running container wrote within the window.
FetchCurrent ==
  /\ pass.current = "due"
  /\ LET window == Newest(WrittenSince(now - pass.since - 1), TailLines) IN
       \E end \in Ends(window) :
         pass' = [pass EXCEPT !.current = "fetched",
                              !.lines = {l \in window : l <= end}, !.high = end]
  /\ LET unread == WrittenSince(reached) IN
       atRisk' = atRisk \cup Risk(Late(pass.start) \/ AwayTooLong, unread)
                        \cup (unread \ Newest(unread, TailLines))
  /\ UNCHANGED <<container, memory, collected, budget, reached>>

\* It answers with an error: no checkpoint, and the next pass asks for more.
FetchCurrentFails ==
  /\ pass.current = "due"
  /\ pass' = [pass EXCEPT !.current = "done"]
  /\ atRisk' = atRisk \cup Risk(checkpoint = None /\ restarts > pass.listed, CrashedLog)
  /\ UNCHANGED <<container, memory, collected, budget, reached>>

Checkpointed ==
  /\ checkpoint' = WholeSecond(now)
  /\ seen' = pass.listed
  /\ pass' = [pass EXCEPT !.current = "done", !.lines = {}, !.high = None]
  /\ reached' = Larger(reached, pass.high)

\* The upload arrives or not; the checkpoint is written all the same.  An empty
\* log is not uploaded.
SendCurrent(arrives) ==
  /\ pass.current = "fetched"
  /\ Checkpointed
  /\ collected' = IF arrives THEN collected \cup pass.lines ELSE collected
  /\ atRisk' = atRisk \cup Risk(Late(reached'), WrittenSince(reached'))
                      \cup Risk(~arrives, pass.lines)
  /\ UNCHANGED <<container, budget>>

\* The log of the crashed container, or as much of it as one answer holds: what
\* does not arrive is not fetched again once the running one has its checkpoint.
PreviousWindow == Newest({l \in CrashedLog : l >= now - PrevWindow}, PrevTail)

CollectPrevious(lines) ==
  /\ pass.previous = "due"
  /\ pass' = [pass EXCEPT !.previous = "done"]
  /\ collected' = collected \cup lines
  /\ atRisk' = atRisk \cup (CrashedLog \ lines)
  /\ UNCHANGED <<container, memory, budget, reached>>

\* A new process of the agent remembers nothing.
AgentRestarts ==
  /\ budget > 0 /\ budget' = budget - 1
  /\ checkpoint' = None /\ seen' = 0
  /\ pass' = NoPass
  /\ atRisk' = atRisk \cup Risk(CrashPending, CrashedLog)
  /\ UNCHANGED <<container, collected, reached>>

-------------------------------------------------------------------------------
(* Properties *)

\* No line is skipped silently: what was written before the end of the last scrape
\* with a checkpoint, or by a container that has crashed, has reached the backend,
\* or it is in the log of a crashed container that is still to be fetched, or one of
\* these mishaps may cost it:
\*  - an upload that does not arrive (its lines, although the checkpoint moves on);
\*  - a fetch that comes more than Prompt after its pass began (what is unread);
\*  - an answer that ends more than Prompt before its checkpoint, because it was cut
\*    off at 256 KiB or its upload took so long (what was written after its end);
\*  - more unread lines than a window holds (the oldest of them);
\*  - passes further apart than the largest window, or an agent away, or a container
\*    that ran without one, for longer than the first (what is unread);
\*  - a crash before the log of the crash before was fetched, one the agent has no
\*    count for, and whatever one answer does not bring of a crashed log.
\* With prompt fetches and uploads and windows that hold their lines, the overlap is
\* enough, although the clock's whole seconds take up to a second of it.
NothingSkipped ==
  \A l \in Written :
    l <= reached \/ l < born
    => l \in collected \/ l \in atRisk \/ (CrashPending /\ l \in CrashedLog)

===============================================================================

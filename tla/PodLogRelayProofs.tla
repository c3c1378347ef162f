--------------------------- MODULE PodLogRelayProofs ---------------------------
(***************************************************************************)
(* Theorems about PodLogRelay and the collection of LogScrape in it.       *)
(*                                                                         *)
(* No line is skipped because, at any time, every line up to the end of    *)
(* the last scrape and every line of a container that has crashed is safe, *)
(* and because each window reaches back to that end: it begins as much     *)
(* before the checkpoint as the overlap says and as the clock's whole      *)
(* seconds leave of it, the checkpoint is at most Prompt after the end of  *)
(* its scrape, and the window is evaluated at most Prompt after it was     *)
(* computed.  What such a window has no room for, the newest lines that    *)
(* are unread have no room for either.                                     *)
(***************************************************************************)
EXTENDS PodLogRelay, FiniteSetTheorems, TLAPS

\* Steps as the collection sees them: requests for logs only bring lines.
LinesArrive ==
  /\ UNCHANGED <<container, memory, pass, history>>
  /\ collected \subseteq collected' /\ collected' \subseteq Lines
  /\ budget' = budget \/ (budget > 0 /\ budget' = budget - 1)

ScrapeStep ==
  \/ Tick \/ Restart \/ PassBegins \/ FetchCurrent \/ FetchCurrentFails
  \/ \E arrives \in BOOLEAN : SendCurrent(arrives)
  \/ \E lines \in SUBSET CrashedLog : CollectPrevious(lines)
  \/ AgentRestarts \/ LinesArrive

\* How the times and the counts relate to each other.
Clocks ==
  /\ Second <= now /\ prevBorn <= born /\ born <= now + 1
  /\ reached <= now /\ checkpoint <= now
  /\ restarts + budget <= MaxEvents
  /\ seen <= restarts /\ pass.listed <= restarts
  /\ pass.start <= now /\ pass.high <= now

\* The lines a scrape asks for.
Window == Newest(WrittenSince(now - pass.since - 1), TailLines)

-----------------------------------------------------------------------------
(* Types *)

\* A clock that counts whole seconds is less than a second behind.
LEMMA WholeSecondNear ==
  ASSUME NEW t \in Nat
  PROVE  /\ WholeSecond(t) \in Nat
         /\ WholeSecond(t) <= t /\ t - WholeSecond(t) <= Second - 1
         /\ Second <= t => WholeSecond(t) # None
<1>1. t % Second \in 0 .. Second - 1
  BY ScrapeAssumption
<1>2. t % Second <= t
  BY ScrapeAssumption
<1> QED BY <1>1, <1>2, ScrapeAssumption DEF WholeSecond, None

LEMMA PassFields ==
  ASSUME NEW p \in Pass
  PROVE  /\ p.start \in Times /\ p.listed \in 0 .. MaxEvents /\ p.since \in Nat
         /\ p.current \in {"due", "fetched", "done"} /\ p.previous \in {"due", "done"}
         /\ p.lines \subseteq Lines /\ p.high \in Times
BY DEF Pass

\* The facts about times and windows that a step of the proof may need.
LEMMA Numbers ==
  ASSUME ScrapeTypeOK
  PROVE  /\ now \in Nat \ {0} /\ born \in Nat \ {0} /\ prevBorn \in Nat \ {0}
         /\ restarts \in Nat /\ seen \in Nat /\ checkpoint \in Nat /\ reached \in Nat
         /\ pass.start \in Nat /\ pass.listed \in Nat /\ pass.since \in Nat
         /\ pass.high \in Nat
         /\ pass.current \in {"due", "fetched", "done"} /\ pass.previous \in {"due", "done"}
BY PassFields, ScrapeAssumption DEF ScrapeTypeOK, Times, None

LEMMA WindowTypes ==
  ASSUME ScrapeTypeOK, Clocks
  PROVE  Since \in Nat
<1>1. WholeSecond(now) \in Nat
  BY Numbers, WholeSecondNear
<1> QED BY <1>1, Numbers, ScrapeAssumption DEF Since, Smaller, Larger

\* Logs are sets of lines up to now.
LEMMA LogTypes ==
  ASSUME ScrapeTypeOK
  PROVE  /\ Lines \subseteq Nat \ {0} /\ Written \subseteq Lines /\ \A l \in Written : l <= now
         /\ RunningLog \subseteq Written /\ CrashedLog \subseteq Written
         /\ \A t : WrittenSince(t) \subseteq RunningLog
         /\ \A log, n : Newest(log, n) \subseteq log
         /\ Window \subseteq RunningLog
         /\ PreviousWindow \subseteq CrashedLog
BY ScrapeAssumption
   DEF Written, RunningLog, CrashedLog, WrittenSince, Newest, Window, PreviousWindow

\* What each step of a pass leaves in its record.
LEMMA PassAfter ==
  ASSUME ScrapeTypeOK, Clocks
  PROVE  /\ PassBegins =>
              /\ pass' \in Pass
              /\ pass'.current = "due" /\ pass'.start = now /\ pass'.listed = restarts
              /\ pass'.since = Since
              /\ pass'.previous = IF ShouldCollectPrevious THEN "due" ELSE "done"
              /\ UNCHANGED <<pass.lines, pass.high>>
         /\ FetchCurrent =>
              /\ pass' \in Pass
              /\ pass'.current = "fetched" /\ pass'.high <= now
              /\ pass'.lines = {l \in Window : l <= pass'.high}
              /\ UNCHANGED <<pass.start, pass.listed, pass.previous>>
         /\ FetchCurrentFails =>
              /\ pass' \in Pass
              /\ pass'.current = "done"
              /\ UNCHANGED <<pass.start, pass.listed, pass.high, pass.previous>>
         /\ \A arrives \in BOOLEAN :
              SendCurrent(arrives) =>
                /\ pass' \in Pass
                /\ pass'.current = "done" /\ pass'.high = None
                /\ UNCHANGED <<pass.start, pass.listed, pass.previous>>
         /\ \A lines \in SUBSET CrashedLog :
              CollectPrevious(lines) =>
                /\ pass' \in Pass
                /\ pass'.previous = "done"
                /\ UNCHANGED <<pass.start, pass.listed, pass.since, pass.current,
                               pass.lines, pass.high>>
<1>1. /\ pass \in Pass /\ now \in Times /\ None \in Times
      /\ restarts \in 0 .. MaxEvents /\ Since \in Nat
  BY ScrapeAssumption, WindowTypes DEF ScrapeTypeOK, Times, None
<1>2. ASSUME PassBegins
      PROVE  /\ pass' \in Pass
             /\ pass'.current = "due" /\ pass'.start = now /\ pass'.listed = restarts
             /\ pass'.since = Since
             /\ pass'.previous = IF ShouldCollectPrevious THEN "due" ELSE "done"
             /\ UNCHANGED <<pass.lines, pass.high>>
  <2>1. pass' = [pass EXCEPT !.start = now, !.listed = restarts, !.since = Since,
                             !.current = "due",
                             !.previous = IF ShouldCollectPrevious THEN "due" ELSE "done"]
    BY <1>2 DEF PassBegins
  <2> QED BY ONLY <1>1, <2>1 DEF Pass
<1>3. ASSUME FetchCurrent
      PROVE  /\ pass' \in Pass
             /\ pass'.current = "fetched" /\ pass'.high <= now
             /\ pass'.lines = {l \in Window : l <= pass'.high}
             /\ UNCHANGED <<pass.start, pass.listed, pass.previous>>
  <2>1. PICK end \in Ends(Window) :
          pass' = [pass EXCEPT !.current = "fetched",
                               !.lines = {l \in Window : l <= end}, !.high = end]
    BY <1>3 DEF FetchCurrent, Window
  <2>2. end \in Times /\ end <= now
    <3>1. now \in Nat /\ now <= MaxTime /\ MaxTime \in Nat
      BY <1>1, ScrapeAssumption DEF Times, None
    <3>2. CASE end = now
      BY <3>1, <3>2 DEF Times, None
    <3>3. ASSUME NEW l \in Window, end = l - 1
          PROVE  end \in Times /\ end <= now
      <4>1. l \in Nat \ {0} /\ l <= now
        BY LogTypes
      <4> QED BY <3>1, <3>3, <4>1 DEF Times, None
    <3> QED BY <3>2, <3>3 DEF Ends
  <2> DEFINE lines == {l \in Window : l <= end}
  <2>3. lines \subseteq Lines
    BY LogTypes
  <2>4. pass' = [pass EXCEPT !.current = "fetched", !.lines = lines, !.high = end]
    BY <2>1
  <2> HIDE DEF lines
  <2>5. /\ pass' \in Pass
        /\ pass'.current = "fetched" /\ pass'.high = end /\ pass'.lines = lines
        /\ UNCHANGED <<pass.start, pass.listed, pass.previous>>
    BY ONLY <1>1, <2>2, <2>3, <2>4 DEF Pass
  <2> QED BY <2>2, <2>5 DEF lines
<1>4. ASSUME FetchCurrentFails
      PROVE  /\ pass' \in Pass
             /\ pass'.current = "done"
             /\ UNCHANGED <<pass.start, pass.listed, pass.high, pass.previous>>
  <2>1. pass' = [pass EXCEPT !.current = "done"] BY <1>4 DEF FetchCurrentFails
  <2> QED BY ONLY <1>1, <2>1 DEF Pass
<1>5. ASSUME NEW arrives \in BOOLEAN, SendCurrent(arrives)
      PROVE  /\ pass' \in Pass
             /\ pass'.current = "done" /\ pass'.high = None
             /\ UNCHANGED <<pass.start, pass.listed, pass.previous>>
  <2>1. pass' = [pass EXCEPT !.current = "done", !.lines = {}, !.high = None]
    BY <1>5 DEF SendCurrent, Checkpointed
  <2> QED BY ONLY <1>1, <2>1 DEF Pass
<1>6. ASSUME NEW lines \in SUBSET CrashedLog, CollectPrevious(lines)
      PROVE  /\ pass' \in Pass
             /\ pass'.previous = "done"
             /\ UNCHANGED <<pass.start, pass.listed, pass.since, pass.current,
                            pass.lines, pass.high>>
  <2>1. pass' = [pass EXCEPT !.previous = "done"] BY <1>6 DEF CollectPrevious
  <2> QED BY ONLY <1>1, <2>1 DEF Pass
<1> QED BY <1>2, <1>3, <1>4, <1>5, <1>6

\* The step of an action keeps the types and the order of the times.
LEMMA ScrapeTypeStep ==
  ASSUME ScrapeTypeOK, Clocks, ScrapeStep
  PROVE  ScrapeTypeOK' /\ Clocks'
<1> DEFINE Fields(p) ==
      /\ p.start \in Times /\ p.listed \in 0 .. MaxEvents /\ p.since \in Nat
      /\ p.current \in {"due", "fetched", "done"} /\ p.previous \in {"due", "done"}
      /\ p.lines \subseteq Lines /\ p.high \in Times
<1>1. pass \in Pass /\ Fields(pass)
  BY PassFields DEF ScrapeTypeOK
<1>2. /\ now \in Times \ {None} /\ born \in 1 .. MaxTime + 1 /\ prevBorn \in 1 .. MaxTime + 1
      /\ restarts \in 0 .. MaxEvents /\ checkpoint \in Times /\ seen \in 0 .. MaxEvents
      /\ collected \subseteq Lines /\ budget \in 0 .. MaxEvents
      /\ reached \in Times /\ atRisk \subseteq Lines
      /\ MaxTime \in Nat /\ MaxEvents \in Nat /\ Second \in Nat
  BY ScrapeAssumption DEF ScrapeTypeOK
<1>l. /\ RunningLog \subseteq Lines /\ CrashedLog \subseteq Lines
      /\ \A t : WrittenSince(t) \subseteq Lines
  BY LogTypes
<1> HIDE DEF Fields
<1>3. CASE Tick
  <2>1. pass' = pass BY <1>3 DEF Tick
  <2>2. ScrapeTypeOK'
    BY <1>1, <1>2, <1>3, <2>1 DEF Tick, ScrapeTypeOK, memory, history, Times, None
  <2>3. Clocks'
    BY <1>1, <1>2, <1>3, <2>1 DEF Tick, Clocks, memory, history, Times, None, Fields
  <2> QED BY <2>2, <2>3
<1>4. CASE Restart
  <2>1. pass' = pass BY <1>4 DEF Restart
  <2>2. atRisk' \subseteq Lines
    BY <1>2, <1>4, <1>l DEF Restart, Risk
  <2>3. ScrapeTypeOK'
    BY <1>1, <1>2, <1>4, <2>1, <2>2 DEF Restart, Clocks, ScrapeTypeOK, memory, Times, None
  <2>4. Clocks'
    BY <1>1, <1>2, <1>4, <2>1 DEF Restart, Clocks, memory, Times, None, Fields
  <2> QED BY <2>3, <2>4
<1>5. CASE PassBegins
  <2>1. /\ pass' \in Pass /\ pass'.start = now /\ pass'.high = pass.high
        /\ pass'.listed = restarts
    BY <1>5, PassAfter
  <2>2. atRisk' \subseteq Lines BY <1>2, <1>5, <1>l DEF PassBegins, Risk
  <2>3. ScrapeTypeOK'
    BY <1>2, <1>5, <2>1, <2>2 DEF PassBegins, ScrapeTypeOK, container, memory
  <2>4. Clocks'
    BY <1>1, <1>2, <1>5, <2>1 DEF PassBegins, Clocks, container, memory, Times, None, Fields
  <2> QED BY <2>3, <2>4
<1>6. CASE FetchCurrent
  <2>1. /\ pass' \in Pass /\ pass'.high <= now
        /\ pass'.start = pass.start /\ pass'.listed = pass.listed
    BY <1>6, PassAfter
  <2>2. atRisk' \subseteq Lines BY <1>2, <1>6, <1>l DEF FetchCurrent, Risk
  <2>3. ScrapeTypeOK'
    BY <1>2, <1>6, <2>1, <2>2 DEF FetchCurrent, ScrapeTypeOK, container, memory
  <2>4. Clocks'
    BY <1>1, <1>2, <1>6, <2>1 DEF FetchCurrent, Clocks, container, memory, Times, None, Fields
  <2> QED BY <2>3, <2>4
<1>7. CASE FetchCurrentFails
  <2>1. /\ pass' \in Pass
        /\ pass'.start = pass.start /\ pass'.listed = pass.listed /\ pass'.high = pass.high
    BY <1>7, PassAfter
  <2>2. atRisk' \subseteq Lines BY <1>2, <1>7, <1>l DEF FetchCurrentFails, Risk
  <2>3. ScrapeTypeOK'
    BY <1>2, <1>7, <2>1, <2>2 DEF FetchCurrentFails, ScrapeTypeOK, container, memory
  <2>4. Clocks'
    BY <1>1, <1>2, <1>7, <2>1 DEF FetchCurrentFails, Clocks, container, memory, Fields
  <2> QED BY <2>3, <2>4
<1>8. ASSUME NEW arrives \in BOOLEAN, SendCurrent(arrives)
      PROVE  ScrapeTypeOK' /\ Clocks'
  <2>1. /\ pass' \in Pass /\ pass'.high = None
        /\ pass'.start = pass.start /\ pass'.listed = pass.listed
    BY <1>8, PassAfter
  <2>2. WrittenSince(reached') \subseteq Lines
    BY <1>l
  <2>3. /\ collected' \subseteq Lines
        /\ atRisk' \subseteq atRisk \cup WrittenSince(reached') \cup pass.lines
    BY <1>1, <1>2, <1>8 DEF SendCurrent, Risk, Fields
  <2>4. /\ checkpoint' = WholeSecond(now) /\ seen' = pass.listed
        /\ reached' = Larger(reached, pass.high)
        /\ UNCHANGED <<container, budget>>
    BY <1>8 DEF SendCurrent, Checkpointed
  <2>5. WholeSecond(now) \in Times /\ WholeSecond(now) <= now
    BY <1>2, WholeSecondNear, Numbers DEF Times, None
  <2>6. ScrapeTypeOK'
    BY <1>1, <1>2, <2>1, <2>2, <2>3, <2>4, <2>5
       DEF ScrapeTypeOK, container, Larger, Times, None, Fields
  <2>7. Clocks'
    BY <1>1, <1>2, <2>1, <2>4, <2>5 DEF Clocks, container, Larger, Times, None, Fields
  <2> QED BY <2>6, <2>7
<1>9. ASSUME NEW lines \in SUBSET CrashedLog, CollectPrevious(lines)
      PROVE  ScrapeTypeOK' /\ Clocks'
  <2>1. /\ pass' \in Pass
        /\ pass'.high = pass.high /\ pass'.start = pass.start /\ pass'.listed = pass.listed
    BY <1>9, PassAfter
  <2>2. collected' \subseteq Lines /\ atRisk' \subseteq Lines
    BY <1>2, <1>9, <1>l DEF CollectPrevious
  <2>3. UNCHANGED <<container, memory, budget, reached>>
    BY <1>9 DEF CollectPrevious
  <2>4. ScrapeTypeOK'
    BY <1>2, <2>1, <2>2, <2>3 DEF ScrapeTypeOK, container, memory
  <2>5. Clocks'
    BY <1>1, <1>2, <2>1, <2>3 DEF Clocks, container, memory, Fields
  <2> QED BY <2>4, <2>5
<1>10. CASE AgentRestarts
  <2>1. /\ pass' \in Pass /\ pass'.high = None
        /\ pass'.start = None /\ pass'.listed = 0
    BY <1>10, ScrapeAssumption DEF AgentRestarts, NoPass, Pass, Times, None
  <2>2. atRisk' \subseteq Lines BY <1>2, <1>10, <1>l DEF AgentRestarts, Risk
  <2>3. ScrapeTypeOK'
    BY <1>2, <1>10, <2>1, <2>2 DEF AgentRestarts, ScrapeTypeOK, container, Times, None
  <2>4. Clocks'
    BY <1>2, <1>10, <2>1 DEF AgentRestarts, Clocks, container, Times, None
  <2> QED BY <2>3, <2>4
<1>11. CASE LinesArrive
  <2>1. ScrapeTypeOK'
    BY <1>1, <1>2, <1>11 DEF LinesArrive, ScrapeTypeOK, container, memory, history
  <2>2. /\ now' = now /\ born' = born /\ prevBorn' = prevBorn /\ restarts' = restarts
        /\ checkpoint' = checkpoint /\ seen' = seen /\ pass' = pass
        /\ reached' = reached
        /\ budget' = budget \/ (budget > 0 /\ budget' = budget - 1)
    BY <1>11 DEF LinesArrive, container, memory, history
  <2>3. restarts + budget' <= MaxEvents
    BY <1>2, <2>2 DEF Clocks
  <2>4. Clocks'
    BY <2>2, <2>3 DEF Clocks
  <2> QED BY <2>1, <2>4
<1> QED
  BY <1>3, <1>4, <1>5, <1>6, <1>7, <1>8, <1>9, <1>10, <1>11 DEF ScrapeStep

-----------------------------------------------------------------------------
(* Lines are safe, and stay so *)

Safe(l) == l \in collected \/ l \in atRisk \/ (CrashPending /\ l \in CrashedLog)

\* The checkpoint is soon after the end of the scrape, or what came between is at
\* risk.
CheckpointNear ==
  checkpoint # None =>
    \/ checkpoint - reached <= Prompt
    \/ \A l \in WrittenSince(reached) : l <= checkpoint => l \in atRisk

\* The window of a pass covers what was written since the checkpoint and the overlap.
WindowReaches ==
  pass.current = "due" =>
    IF checkpoint = None
    THEN pass.since = FirstWindow
    ELSE \/ pass.since >= WholeSecond(pass.start) - checkpoint + Grace
         \/ /\ pass.since >= MaxWindow
            /\ \A l \in WrittenSince(reached) : l <= pass.start => l \in atRisk

\* What an answer leaves out before its end is safe.
FetchReaches ==
  pass.current = "fetched" =>
    \A l \in Written : l <= pass.high => l \in pass.lines \/ Safe(l)

\* A pass that learns of a crash sees to the log of the crashed container itself.
PreviousSeenTo ==
  /\ pass.current # "done" /\ checkpoint # None
  /\ seen < restarts /\ restarts = pass.listed /\ pass.previous = "done"
  => CrashedLog \subseteq collected \cup atRisk

ScrapeInv ==
  /\ ScrapeTypeOK /\ Clocks
  /\ NothingSkipped /\ CheckpointNear /\ WindowReaches /\ FetchReaches /\ PreviousSeenTo

\* What the steps do to the logs.
LEMMA LogsAfter ==
  ASSUME ScrapeTypeOK, Clocks
  PROVE  /\ UNCHANGED now => Written' = Written
         /\ UNCHANGED container => RunningLog' = RunningLog /\ CrashedLog' = CrashedLog
         /\ Tick => /\ Written \subseteq Written' /\ Written' \subseteq Written \cup {now + 1}
                    /\ RunningLog' \subseteq RunningLog \cup {now + 1}
                    /\ CrashedLog' = CrashedLog
         /\ Restart => RunningLog' = {} /\ CrashedLog' = RunningLog
<1>1. /\ now \in Nat /\ born \in Nat /\ prevBorn \in Nat /\ born <= now + 1
      /\ \A l \in Lines : l \in Nat
  BY Numbers, LogTypes DEF Clocks
<1>2. UNCHANGED now => Written' = Written
  BY DEF Written
<1>3. ASSUME UNCHANGED container
      PROVE  RunningLog' = RunningLog /\ CrashedLog' = CrashedLog
  BY <1>3 DEF container, RunningLog, CrashedLog, Written
<1>4. ASSUME Tick
      PROVE  /\ Written \subseteq Written' /\ Written' \subseteq Written \cup {now + 1}
             /\ RunningLog' \subseteq RunningLog \cup {now + 1}
             /\ CrashedLog' = CrashedLog
  <2>1. now' = now + 1 /\ born' = born /\ prevBorn' = prevBorn
    BY <1>4 DEF Tick
  <2>2. Written \subseteq Written' /\ Written' \subseteq Written \cup {now + 1}
    <3>1. Written' = {l \in Lines : l <= now + 1}
      BY <2>1 DEF Written
    <3>2. ASSUME NEW l \in Lines
          PROVE  /\ l <= now => l <= now + 1
                 /\ l <= now + 1 => l <= now \/ l = now + 1
      BY <1>1
    <3> QED BY <3>1, <3>2, Zenon DEF Written
  <2>3. RunningLog' \subseteq RunningLog \cup {now + 1}
    BY <2>1, <2>2 DEF RunningLog
  <2>4. CrashedLog' = CrashedLog
    <3>1. CrashedLog' = {l \in Lines : l <= now + 1 /\ prevBorn <= l /\ l < born}
      BY <2>1 DEF CrashedLog, Written
    <3>2. CrashedLog = {l \in Lines : l <= now /\ prevBorn <= l /\ l < born}
      BY DEF CrashedLog, Written
    <3>3. ASSUME NEW l \in Lines
          PROVE  l < born => l <= now /\ l <= now + 1
      BY <1>1
    <3> QED BY <3>1, <3>2, <3>3, Zenon
  <2> QED BY <2>2, <2>3, <2>4
<1>5. ASSUME Restart
      PROVE  RunningLog' = {} /\ CrashedLog' = RunningLog
  <2>1. now' = now /\ born' = now + 1 /\ prevBorn' = born
    BY <1>5 DEF Restart
  <2>2. RunningLog' = {l \in Lines : l <= now /\ l >= now + 1}
    BY <2>1 DEF RunningLog, Written
  <2>3. CrashedLog' = {l \in Lines : l <= now /\ born <= l /\ l < now + 1}
    BY <2>1 DEF CrashedLog, Written
  <2>4. RunningLog = {l \in Lines : l <= now /\ l >= born}
    BY DEF RunningLog, Written
  <2>5. ASSUME NEW l \in Lines
        PROVE  /\ ~(l <= now /\ l >= now + 1)
               /\ l <= now => l < now + 1
               /\ born <= l <=> l >= born
    BY <1>1
  <2> QED BY <2>2, <2>3, <2>4, <2>5, Zenon
<1> QED BY <1>2, <1>3, <1>4, <1>5

LEMMA SafeStays ==
  ASSUME ScrapeTypeOK, Clocks, PreviousSeenTo, ScrapeStep, NEW l \in Int, Safe(l)
  PROVE  Safe(l)'
<1>1. CASE Tick
  BY <1>1, LogsAfter DEF Tick, Safe, CrashPending, memory, history
<1>2. CASE Restart
  BY <1>2 DEF Restart, Safe, Risk
<1>3. CASE PassBegins
  <2>1. CrashPending /\ l \in CrashedLog => pass'.previous = "due"
    BY <1>3, PassAfter DEF PassBegins, CrashPending, ShouldCollectPrevious
  <2>2. CrashedLog' = CrashedLog BY <1>3, LogsAfter DEF PassBegins
  <2> QED BY <1>3, <2>1, <2>2 DEF PassBegins, Safe, Risk, CrashPending
<1>4. CASE FetchCurrent
  <2>1. /\ pass'.current = "fetched"
        /\ UNCHANGED <<pass.listed, pass.previous>>
    BY <1>4, PassAfter
  <2>2. CrashedLog' = CrashedLog BY <1>4, LogsAfter DEF FetchCurrent
  <2>3. /\ pass.current = "due" /\ collected' = collected /\ atRisk \subseteq atRisk'
        /\ UNCHANGED <<container, memory>>
    BY <1>4 DEF FetchCurrent
  <2> QED BY <2>1, <2>2, <2>3 DEF Safe, CrashPending, container, memory
<1>5. CASE FetchCurrentFails
  <2>1. UNCHANGED <<pass.previous>>
    BY <1>5, PassAfter
  <2>2. CrashedLog' = CrashedLog BY <1>5, LogsAfter DEF FetchCurrentFails
  <2> QED BY <1>5, <2>1, <2>2 DEF FetchCurrentFails, Safe, Risk, CrashPending, container, memory
<1>6. ASSUME NEW arrives \in BOOLEAN, SendCurrent(arrives)
      PROVE  Safe(l)'
  <2>1. UNCHANGED <<pass.listed, pass.previous>>
    BY <1>6, PassAfter
  <2>2. /\ pass.current = "fetched"
        /\ checkpoint' = WholeSecond(now) /\ seen' = pass.listed
        /\ UNCHANGED <<now, born, prevBorn, restarts>>
    BY <1>6 DEF SendCurrent, Checkpointed, container
  <2>3. collected \subseteq collected' /\ atRisk \subseteq atRisk'
    BY <1>6 DEF SendCurrent
  <2>4. checkpoint' # None /\ CrashedLog' = CrashedLog
    BY <2>2, LogsAfter, Numbers, WholeSecondNear DEF Clocks, container
  <2>5. CASE pass.previous = "due" \/ pass.listed < restarts
    BY <2>1, <2>2, <2>3, <2>4, <2>5 DEF Safe, CrashPending
  <2>6. CASE pass.previous # "due" /\ restarts = pass.listed
    <3>1. pass.previous = "done" BY <2>6, PassFields DEF ScrapeTypeOK
    <3>2. CrashPending => CrashedLog \subseteq collected \cup atRisk
      BY <2>2, <2>6, <3>1 DEF CrashPending, PreviousSeenTo, Clocks, ScrapeTypeOK
    <3> QED BY <2>3, <3>2 DEF Safe
  <2> QED BY <2>5, <2>6, PassFields DEF Clocks, ScrapeTypeOK
<1>7. ASSUME NEW lines \in SUBSET CrashedLog, CollectPrevious(lines)
      PROVE  Safe(l)'
  BY <1>7 DEF CollectPrevious, Safe
<1>8. CASE AgentRestarts
  BY <1>8 DEF AgentRestarts, Safe, Risk
<1>9. CASE LinesArrive
  <2>1. /\ collected \subseteq collected'
        /\ UNCHANGED <<now, born, prevBorn, restarts, checkpoint, seen, pass, atRisk>>
    BY <1>9 DEF LinesArrive, container, memory, history
  <2>2. CrashedLog' = CrashedLog BY <2>1, LogsAfter DEF container
  <2> QED BY <2>1, <2>2 DEF Safe, CrashPending
<1> QED BY <1>1, <1>2, <1>3, <1>4, <1>5, <1>6, <1>7, <1>8, <1>9 DEF ScrapeStep

-----------------------------------------------------------------------------
(* The parts of the invariant *)

LEMMA NothingSkippedStep ==
  ASSUME ScrapeInv, ScrapeStep
  PROVE  NothingSkipped'
<1> USE DEF ScrapeInv
<1> SUFFICES ASSUME NEW l \in Written', l <= reached' \/ l < born'
             PROVE  Safe(l)'
  BY Zenon DEF NothingSkipped, Safe
<1>1. l \in Nat
  BY ScrapeAssumption DEF Written
<1>2. Safe(l) => Safe(l)'
  BY <1>1, SafeStays
<1>3. l \in Written /\ (l <= reached \/ l < born) => Safe(l)
  BY Zenon DEF NothingSkipped, Safe
<1>4. ASSUME UNCHANGED <<now, born, reached>>
      PROVE  Safe(l)'
  BY <1>2, <1>3, <1>4, LogsAfter
<1>5. CASE Tick
  BY <1>1, <1>2, <1>3, <1>5, LogsAfter, Numbers DEF Tick, history, Clocks
<1>6. CASE PassBegins \/ FetchCurrent \/ FetchCurrentFails \/ AgentRestarts \/ LinesArrive
  BY <1>4, <1>6 DEF PassBegins, FetchCurrent, FetchCurrentFails, AgentRestarts, LinesArrive,
     container, history
<1>7. ASSUME NEW lines \in SUBSET CrashedLog, CollectPrevious(lines)
      PROVE  Safe(l)'
  BY <1>4, <1>7 DEF CollectPrevious, container
<1>8. CASE Restart
  <2>1. /\ UNCHANGED <<now, reached, checkpoint, seen, pass>>
        /\ restarts' = restarts + 1
        /\ Risk(checkpoint = None /\ pass.current = "done", RunningLog) \subseteq atRisk'
    BY <1>8 DEF Restart, memory
  <2>2. Written' = Written /\ CrashedLog' = RunningLog
    BY <1>8, <2>1, LogsAfter
  <2>3. CASE l <= reached \/ l < born
    BY <1>2, <1>3, <2>2, <2>3
  <2>4. CASE l \in RunningLog
    <3>1. CASE checkpoint = None /\ pass.current = "done"
      BY <2>1, <2>4, <3>1 DEF Safe, Risk
    <3>2. CASE ~(checkpoint = None /\ pass.current = "done")
      <4>1. CrashPending' BY <2>1, <3>2, Numbers DEF CrashPending, Clocks
      <4> QED BY <2>2, <2>4, <4>1 DEF Safe
    <3> QED BY <3>1, <3>2
  <2> QED BY <1>1, <2>2, <2>3, <2>4, Numbers DEF RunningLog
<1>9. ASSUME NEW arrives \in BOOLEAN, SendCurrent(arrives)
      PROVE  Safe(l)'
  <2>1. /\ pass.current = "fetched" /\ reached' = Larger(reached, pass.high)
        /\ UNCHANGED <<now, born>>
    BY <1>9 DEF SendCurrent, Checkpointed, container
  <2>2. l \in Written BY <2>1, LogsAfter
  <2>3. CASE l <= reached \/ l < born
    BY <1>2, <1>3, <2>2, <2>3
  <2>4. CASE l <= pass.high
    <3>1. l \in pass.lines => Safe(l)'
      BY <1>9 DEF SendCurrent, Safe, Risk
    <3>2. l \in pass.lines \/ Safe(l)
      BY <2>1, <2>2, <2>4 DEF FetchReaches
    <3> QED BY <1>2, <3>1, <3>2
  <2> QED BY <1>1, <2>1, <2>3, <2>4, Numbers DEF Larger
<1> QED BY <1>5, <1>6, <1>7, <1>8, <1>9 DEF ScrapeStep

\* What is unread does not grow in another way than by new lines.
LEMMA UnreadAfter ==
  ASSUME ScrapeTypeOK, Clocks, ScrapeStep, UNCHANGED reached,
         NEW l \in WrittenSince(reached)', l <= now
  PROVE  l \in WrittenSince(reached)
<1>1. WrittenSince(reached)' = {k \in RunningLog' : k > reached}
  BY DEF WrittenSince
<1>2. RunningLog' \subseteq RunningLog \cup {now + 1}
  BY LogsAfter DEF ScrapeStep, PassBegins, FetchCurrent, FetchCurrentFails, SendCurrent,
     CollectPrevious, AgentRestarts, LinesArrive
<1> QED BY <1>1, <1>2, Numbers DEF WrittenSince

LEMMA CheckpointNearStep ==
  ASSUME ScrapeInv, ScrapeStep
  PROVE  CheckpointNear'
<1> USE DEF ScrapeInv
<1>1. ASSUME NEW arrives \in BOOLEAN, SendCurrent(arrives)
      PROVE  CheckpointNear'
  <2>1. /\ checkpoint' = WholeSecond(now)
        /\ Risk(Late(reached'), WrittenSince(reached')) \subseteq atRisk'
        /\ UNCHANGED <<now, born>>
    BY <1>1 DEF SendCurrent, Checkpointed, container
  <2>2. WholeSecond(now) \in Nat /\ WholeSecond(now) <= now
    BY Numbers, WholeSecondNear
  <2>3. reached' \in Nat BY ScrapeTypeStep, Numbers DEF ScrapeTypeOK, Times, None
  <2>4. CASE Late(reached')
    <3>1. WrittenSince(reached)' = WrittenSince(reached')
      BY <2>1, LogsAfter DEF WrittenSince, RunningLog
    <3> QED BY <2>1, <2>4, <3>1 DEF CheckpointNear, Risk
  <2>5. CASE ~Late(reached')
    BY <2>1, <2>2, <2>3, <2>5, Numbers, ScrapeAssumption DEF CheckpointNear, Late
  <2> QED BY <2>4, <2>5
<1>2. ASSUME checkpoint' = None \/ UNCHANGED <<checkpoint, reached>>, atRisk \subseteq atRisk'
      PROVE  CheckpointNear'
  <2> SUFFICES ASSUME UNCHANGED <<checkpoint, reached>>, checkpoint # None,
                      ~(checkpoint - reached <= Prompt),
                      NEW l \in WrittenSince(reached)', l <= checkpoint
               PROVE  l \in atRisk'
    BY <1>2 DEF CheckpointNear
  <2>1. l \in Nat /\ l <= now
    BY Numbers, ScrapeAssumption DEF WrittenSince, RunningLog, Written, Clocks
  <2>2. l \in WrittenSince(reached) BY <2>1, UnreadAfter
  <2> QED BY <1>2, <2>2 DEF CheckpointNear
<1>3. CASE ~\E arrives \in BOOLEAN : SendCurrent(arrives)
  BY <1>2, <1>3 DEF ScrapeStep, Tick, Restart, PassBegins, FetchCurrent, FetchCurrentFails,
     CollectPrevious, AgentRestarts, LinesArrive, memory, history
<1> QED BY <1>1, <1>3

LEMMA WindowReachesStep ==
  ASSUME ScrapeInv, ScrapeStep
  PROVE  WindowReaches'
<1> USE DEF ScrapeInv
<1>1. CASE PassBegins
  <2>1. /\ pass'.start = now /\ pass'.since = Since
        /\ UNCHANGED <<container, checkpoint, reached>>
        /\ Risk(Overdue, WrittenSince(reached)) \subseteq atRisk'
    BY <1>1, PassAfter DEF PassBegins, memory
  <2>2. WholeSecond(now) \in Nat
    BY Numbers, WholeSecondNear
  <2>3. CASE checkpoint = None
    BY <2>1, <2>3 DEF WindowReaches, Since
  <2>4. CASE checkpoint # None /\ ~Overdue
    <3>1. Since >= WholeSecond(now) - checkpoint + Grace
      BY <2>2, <2>4, Numbers, ScrapeAssumption DEF Since, Overdue, Smaller, Larger
    <3> QED BY <2>1, <2>4, <3>1 DEF WindowReaches
  <2>5. CASE checkpoint # None /\ Overdue
    <3>1. Since >= MaxWindow
      BY <2>2, <2>5, Numbers, ScrapeAssumption DEF Since, Overdue, Smaller, Larger
    <3>2. WrittenSince(reached)' = WrittenSince(reached)
      BY <2>1, LogsAfter DEF WrittenSince
    <3>3. WrittenSince(reached) \subseteq atRisk'
      BY <2>1, <2>5 DEF Risk
    <3> QED BY <2>1, <2>5, <3>1, <3>2, <3>3 DEF WindowReaches
  <2> QED BY <2>3, <2>4, <2>5
<1>2. ASSUME \/ pass'.current # "due"
             \/ UNCHANGED <<pass.current, pass.start, pass.since, checkpoint, reached>>,
             atRisk \subseteq atRisk'
      PROVE  WindowReaches'
  <2>1. CASE pass'.current # "due"
    BY <2>1 DEF WindowReaches
  <2>2. CASE /\ UNCHANGED <<pass.current, pass.start, pass.since, checkpoint, reached>>
             /\ pass.current = "due"
    <3>1. CASE checkpoint = None \/ pass.since >= WholeSecond(pass.start) - checkpoint + Grace
      <4>1. WholeSecond(pass.start)' = WholeSecond(pass.start)
        BY <2>2 DEF WholeSecond
      <4> QED BY <2>2, <3>1, <4>1 DEF WindowReaches
    <3>2. CASE /\ checkpoint # None /\ pass.since >= MaxWindow
               /\ \A l \in WrittenSince(reached) : l <= pass.start => l \in atRisk
      <4>1. ASSUME NEW l \in WrittenSince(reached)', l <= pass.start
            PROVE  l \in atRisk'
        <5>1. l \in Nat /\ l <= now
          BY <4>1, Numbers, ScrapeAssumption DEF WrittenSince, RunningLog, Written, Clocks
        <5>2. l \in WrittenSince(reached) BY <2>2, <5>1, UnreadAfter
        <5> QED BY <1>2, <3>2, <4>1, <5>2
      <4> QED BY <2>2, <3>2, <4>1 DEF WindowReaches
    <3> QED BY <2>2, <3>1, <3>2 DEF WindowReaches
  <2> QED BY <1>2, <2>1, <2>2
<1>3. CASE Tick \/ Restart \/ AgentRestarts \/ LinesArrive
  BY <1>2, <1>3 DEF Tick, Restart, AgentRestarts, NoPass, LinesArrive, memory, history
<1>4. CASE FetchCurrent \/ FetchCurrentFails
  BY <1>2, <1>4, PassAfter DEF FetchCurrent, FetchCurrentFails
<1>5. ASSUME NEW arrives \in BOOLEAN, SendCurrent(arrives)
      PROVE  WindowReaches'
  BY <1>2, <1>5, PassAfter DEF SendCurrent
<1>6. ASSUME NEW lines \in SUBSET CrashedLog, CollectPrevious(lines)
      PROVE  WindowReaches'
  BY <1>2, <1>6, PassAfter DEF CollectPrevious, memory
<1> QED BY <1>1, <1>3, <1>4, <1>5, <1>6 DEF ScrapeStep

\* A scrape reaches back to the end of the last one, unless what is between them is
\* at risk.
LEMMA WindowSuffices ==
  ASSUME ScrapeInv, FetchCurrent, NEW l \in WrittenSince(reached), l < now - pass.since
  PROVE  l \in atRisk'
<1> USE DEF ScrapeInv
<1>1. /\ pass.current = "due" /\ atRisk \subseteq atRisk'
      /\ Risk(Late(pass.start) \/ AwayTooLong, WrittenSince(reached)) \subseteq atRisk'
  BY DEF FetchCurrent
<1>2. l \in Nat /\ reached < l
  BY Numbers, ScrapeAssumption DEF WrittenSince, RunningLog, Written
<1>3. CASE Late(pass.start) \/ AwayTooLong
  BY <1>1, <1>3 DEF Risk
<1>4. CASE ~Late(pass.start) /\ ~AwayTooLong
  <2>1. now - pass.start <= Prompt
    BY <1>4, Numbers, ScrapeAssumption DEF Late
  <2>2. CASE checkpoint = None
    BY <1>1, <1>2, <1>4, <2>2, Numbers, ScrapeAssumption DEF WindowReaches, AwayTooLong
  <2>3. CASE checkpoint # None /\ pass.since >= WholeSecond(pass.start) - checkpoint + Grace
    <3>1. /\ WholeSecond(pass.start) \in Nat
          /\ pass.start - WholeSecond(pass.start) <= Second - 1
      BY Numbers, WholeSecondNear
    <3>2. l <= checkpoint /\ ~(checkpoint - reached <= Prompt)
      BY <1>2, <2>1, <2>3, <3>1, Numbers, ScrapeAssumption
    <3> QED BY <1>1, <2>3, <3>2 DEF CheckpointNear
  <2>4. CASE /\ checkpoint # None /\ pass.since >= MaxWindow
             /\ \A k \in WrittenSince(reached) : k <= pass.start => k \in atRisk
    <3>1. l <= pass.start
      BY <1>2, <2>1, <2>4, Numbers, ScrapeAssumption
    <3> QED BY <1>1, <2>4, <3>1
  <2> QED BY <1>1, <2>2, <2>3, <2>4 DEF WindowReaches
<1> QED BY <1>3, <1>4

\* An unread line that the window has no room for is not among the newest unread
\* ones: the lines after it are the same.
LEMMA TailSuffices ==
  ASSUME ScrapeInv, FetchCurrent, NEW l \in WrittenSince(reached), l >= now - pass.since,
         l \notin Window
  PROVE  l \in atRisk'
<1> USE DEF ScrapeInv
<1> DEFINE asked == WrittenSince(now - pass.since - 1)
           unread == WrittenSince(reached)
<1>1. l \in RunningLog /\ RunningLog \subseteq Nat /\ l > reached
  BY LogTypes DEF WrittenSince
<1>2. l \in asked
  BY <1>1, Numbers DEF WrittenSince
<1>3. {m \in asked : m > l} = {m \in unread : m > l}
  <2>1. ASSUME NEW m \in RunningLog, m > l
        PROVE  m > reached /\ m > now - pass.since - 1
    BY <1>1, <2>1, Numbers
  <2> QED BY <2>1 DEF WrittenSince
<1>4. unread \ Newest(unread, TailLines) \subseteq atRisk'
  BY DEF FetchCurrent
<1> HIDE DEF asked, unread
<1>5. ~(Cardinality({m \in asked : m > l}) < TailLines)
  BY <1>2 DEF Window, Newest, asked
<1>6. l \notin Newest(unread, TailLines)
  BY <1>3, <1>5 DEF Newest
<1> QED BY <1>4, <1>6 DEF unread

LEMMA FetchReachesStep ==
  ASSUME ScrapeInv, ScrapeStep
  PROVE  FetchReaches'
<1> USE DEF ScrapeInv
<1>1. ASSUME NEW l \in Nat, Safe(l)
      PROVE  Safe(l)'
  BY <1>1, SafeStays
<1>2. CASE FetchCurrent
  <2>1. /\ pass'.lines = {l \in Window : l <= pass'.high}
        /\ UNCHANGED <<now, born, reached>>
    BY <1>2, PassAfter DEF FetchCurrent, container
  <2> SUFFICES ASSUME NEW l \in Written', l <= pass'.high, l \notin pass'.lines
               PROVE  Safe(l)'
    BY Zenon DEF FetchReaches, Safe
  <2>2. l \in Written /\ l \in Nat /\ l \notin Window
    BY <2>1, LogsAfter, LogTypes
  <2>3. CASE l <= reached \/ l < born
    <3>1. Safe(l) BY <2>2, <2>3, Zenon DEF NothingSkipped, Safe
    <3> QED BY <1>1, <2>2, <3>1
  <2>4. CASE ~(l <= reached \/ l < born)
    <3>1. l \in WrittenSince(reached)
      BY <2>2, <2>4, Numbers DEF WrittenSince, RunningLog
    <3>2. l \in atRisk'
      BY <1>2, <2>2, <3>1, Numbers, WindowSuffices, TailSuffices
    <3> QED BY <3>2 DEF Safe
  <2> QED BY <2>3, <2>4
<1>3. ASSUME UNCHANGED <<pass.lines, pass.high, pass.current>>,
             \A l \in Written' : l <= pass.high => l \in Written
      PROVE  FetchReaches'
  <2> SUFFICES ASSUME pass.current = "fetched",
                      NEW l \in Written', l <= pass.high, l \notin pass.lines
               PROVE  Safe(l)'
    BY <1>3, Zenon DEF FetchReaches, Safe
  <2>1. l \in Written /\ l \in Nat BY <1>3, LogTypes
  <2>2. Safe(l) BY <2>1 DEF FetchReaches
  <2> QED BY <1>1, <2>1, <2>2
<1>4. CASE Tick
  <2>1. \A l \in Written' : l <= pass.high => l \in Written
    BY <1>4, LogsAfter, Numbers DEF Clocks
  <2> QED BY <1>3, <1>4, <2>1 DEF Tick
<1>5. CASE Restart \/ LinesArrive
  BY <1>3, <1>5, LogsAfter DEF Restart, LinesArrive, container
<1>6. ASSUME NEW lines \in SUBSET CrashedLog, CollectPrevious(lines)
      PROVE  FetchReaches'
  BY <1>3, <1>6, PassAfter, LogsAfter DEF CollectPrevious, container
<1>7. ASSUME pass'.current # "fetched"
      PROVE  FetchReaches'
  BY <1>7 DEF FetchReaches
<1>8. CASE PassBegins \/ FetchCurrentFails \/ AgentRestarts
  BY <1>7, <1>8, PassAfter DEF AgentRestarts, NoPass
<1>9. ASSUME NEW arrives \in BOOLEAN, SendCurrent(arrives)
      PROVE  FetchReaches'
  BY <1>7, <1>9, PassAfter
<1> QED BY <1>2, <1>4, <1>5, <1>6, <1>8, <1>9 DEF ScrapeStep

LEMMA PreviousSeenToStep ==
  ASSUME ScrapeInv, ScrapeStep
  PROVE  PreviousSeenTo'
<1> USE DEF ScrapeInv
<1>1. CASE PassBegins
  <2>1. /\ pass'.previous = IF ShouldCollectPrevious THEN "due" ELSE "done"
        /\ UNCHANGED <<checkpoint, seen, restarts>>
    BY <1>1, PassAfter DEF PassBegins, container, memory
  <2> QED BY <2>1 DEF PreviousSeenTo, ShouldCollectPrevious
<1>2. CASE Restart
  BY <1>2, Numbers DEF Restart, memory, PreviousSeenTo, Clocks
<1>3. CASE FetchCurrent
  <2>1. /\ pass.current = "due"
        /\ UNCHANGED <<pass.listed, pass.previous, checkpoint, seen, restarts>>
        /\ collected' = collected /\ atRisk \subseteq atRisk'
        /\ UNCHANGED container
    BY <1>3, PassAfter DEF FetchCurrent, container, memory
  <2> QED BY <2>1, LogsAfter DEF PreviousSeenTo
<1>4. ASSUME pass'.current = "done"
      PROVE  PreviousSeenTo'
  BY <1>4 DEF PreviousSeenTo
<1>5. CASE FetchCurrentFails \/ AgentRestarts
  BY <1>4, <1>5, PassAfter DEF AgentRestarts, NoPass
<1>6. ASSUME NEW arrives \in BOOLEAN, SendCurrent(arrives)
      PROVE  PreviousSeenTo'
  BY <1>4, <1>6, PassAfter
<1>7. ASSUME NEW lines \in SUBSET CrashedLog, CollectPrevious(lines)
      PROVE  PreviousSeenTo'
  <2>1. CrashedLog' = CrashedLog BY <1>7, LogsAfter DEF CollectPrevious
  <2>2. CrashedLog \subseteq collected' \cup atRisk'
    BY <1>7 DEF CollectPrevious
  <2> QED BY <2>1, <2>2 DEF PreviousSeenTo
<1>8. CASE Tick \/ LinesArrive
  <2>1. /\ UNCHANGED <<pass, checkpoint, seen, restarts, atRisk>>
        /\ collected \subseteq collected'
    BY <1>8 DEF Tick, LinesArrive, container, memory, history
  <2>2. CrashedLog' = CrashedLog BY <1>8, LogsAfter DEF LinesArrive
  <2> QED BY <2>1, <2>2 DEF PreviousSeenTo
<1> QED BY <1>1, <1>2, <1>3, <1>5, <1>6, <1>7, <1>8 DEF ScrapeStep

LEMMA ScrapeInvInit ==
  ASSUME ScrapeInit
  PROVE  ScrapeInv
<1>1. pass \in Pass
  BY ScrapeAssumption DEF ScrapeInit, NoPass, Pass, Times, None
<1>2. ScrapeTypeOK
  BY <1>1, ScrapeAssumption DEF ScrapeInit, ScrapeTypeOK, Times, None
<1>3. Clocks
  BY ScrapeAssumption DEF ScrapeInit, NoPass, Clocks, None
<1>4. NothingSkipped
  BY ScrapeAssumption DEF ScrapeInit, NothingSkipped, Written, None
<1> QED
  BY <1>2, <1>3, <1>4 DEF ScrapeInit, NoPass, ScrapeInv, CheckpointNear, WindowReaches,
     FetchReaches, PreviousSeenTo

LEMMA ScrapeInvStep ==
  ASSUME ScrapeInv, ScrapeStep
  PROVE  ScrapeInv'
BY ScrapeTypeStep, NothingSkippedStep, CheckpointNearStep, WindowReachesStep,
   FetchReachesStep, PreviousSeenToStep DEF ScrapeInv

-----------------------------------------------------------------------------
(* Requests *)

\* A request is in the list once it is queued, and only the oldest one may be gone.
LEMMA QueuedLemma ==
  ASSUME pending \in Seq(Keys), Len(pending) <= MaxPending, NEW k \in Keys
  PROVE  /\ Queued(k) \in Seq(Keys) /\ Len(Queued(k)) <= MaxPending
         /\ k \in ToSet(Queued(k))
         /\ ToSet(pending) \subseteq ToSet(Queued(k)) \cup Evicted
<1> DEFINE requests == Append(pending, k)
<1>1. /\ requests \in Seq(Keys) /\ Len(requests) = Len(pending) + 1
      /\ requests[Len(pending) + 1] = k
      /\ \A i \in 1 .. Len(pending) : requests[i] = pending[i]
      /\ Len(pending) \in Nat /\ MaxPending \in Nat \ {0}
  BY RelayAssumption
<1> HIDE DEF requests
<1>2. CASE Len(pending) < MaxPending
  <2>1. Queued(k) = requests
    BY <1>1, <1>2 DEF Queued, requests
  <2>2. DOMAIN requests = 1 .. Len(pending) + 1 /\ DOMAIN pending = 1 .. Len(pending)
    BY <1>1
  <2>3. k \in ToSet(requests) /\ ToSet(pending) \subseteq ToSet(requests)
    BY <1>1, <2>2 DEF ToSet
  <2> QED BY <1>1, <1>2, <2>1, <2>3
<1>3. CASE ~(Len(pending) < MaxPending)
  <2> DEFINE rest == Tail(requests)
  <2>1. Queued(k) = rest /\ Evicted = {pending[1]}
    BY <1>1, <1>3 DEF Queued, requests, Evicted
  <2>2. /\ rest \in Seq(Keys) /\ Len(rest) = Len(pending)
        /\ \A i \in 1 .. Len(pending) : rest[i] = requests[i + 1]
    BY <1>1
  <2> HIDE DEF rest
  <2>3. DOMAIN rest = 1 .. Len(pending) /\ DOMAIN pending = 1 .. Len(pending) /\ Len(pending) > 0
    BY <1>1, <1>3, <2>2
  <2>4. k \in ToSet(rest)
    <3>1. Len(pending) \in DOMAIN rest /\ rest[Len(pending)] = k
      BY <1>1, <2>2, <2>3
    <3> QED BY <3>1 DEF ToSet
  <2>5. ASSUME NEW i \in DOMAIN pending, i # 1
        PROVE  pending[i] \in ToSet(rest)
    <3>1. i - 1 \in DOMAIN rest /\ rest[i - 1] = pending[i]
      BY <1>1, <2>2, <2>3, <2>5
    <3> QED BY <3>1 DEF ToSet
  <2>6. ToSet(pending) \subseteq ToSet(rest) \cup {pending[1]}
    BY <2>5 DEF ToSet
  <2> QED BY <1>1, <2>1, <2>2, <2>4, <2>6
<1> QED BY <1>2, <1>3

LEMMA AskedLemma ==
  ASSUME pending \in Seq(Keys), NEW k \in Keys
  PROVE  /\ Asked(k) \in Nat
         /\ k \in ToSet(pending) => Asked(k) > 0
<1> DEFINE asking == {i \in DOMAIN pending : pending[i] = k}
<1>1. IsFiniteSet(asking)
  <2>1. asking \subseteq 1 .. Len(pending) /\ Len(pending) \in Nat OBVIOUS
  <2>2. IsFiniteSet(1 .. Len(pending)) BY <2>1, FS_Interval
  <2> QED BY <2>1, <2>2, FS_Subset
<1>2. Cardinality(asking) \in Nat /\ (Cardinality(asking) = 0 <=> asking = {})
  BY <1>1, FS_CardinalityType, FS_EmptySet
<1>3. k \in ToSet(pending) => asking # {}
  BY DEF ToSet
<1>4. Asked(k) = Cardinality(asking)
  BY DEF Asked
<1> QED BY <1>2, <1>3, <1>4

RelayTypeOK ==
  /\ waiting \in [Viewers -> Keys \cup {Nothing}]
  /\ pending \in Seq(Keys) /\ Len(pending) <= MaxPending
  /\ working \in [Keys -> Nat]
  /\ unlucky \subseteq Viewers

\* Steps as the requests see them.
RelayStep ==
  \/ UNCHANGED relayVars
  \/ \E k \in Keys : Stored(k) /\ UNCHANGED <<pending, working>>
  \/ \E v \in Viewers, k \in Keys :
       /\ waiting[v] = Nothing /\ waiting' = [waiting EXCEPT ![v] = k]
       /\ Shares(k) \/ Queues(k)
       /\ UNCHANGED working
  \/ \E v \in Viewers :
       /\ waiting' = [waiting EXCEPT ![v] = Nothing] /\ unlucky' = unlucky \ {v}
       /\ UNCHANGED <<pending, working>>
  \/ \E arrives \in BOOLEAN : PollAndProcess(arrives)
  \/ \E k \in Keys : Done(k) /\ Stored(k) /\ UNCHANGED pending
  \/ \E k \in Keys : Done(k) /\ Lost({k}) /\ UNCHANGED <<waiting, pending>>
  \/ /\ working' = [k \in Keys |-> 0] /\ Lost({k \in Keys : working[k] > 0})
     /\ UNCHANGED <<waiting, pending>>

LEMMA NextIsBoth ==
  ASSUME ScrapeTypeOK, Clocks, [Next]_vars
  PROVE  ScrapeStep /\ RelayStep
<1>1. ASSUME UNCHANGED scrapeVars
      PROVE  ScrapeStep
  BY <1>1 DEF scrapeVars, ScrapeStep, LinesArrive, ScrapeTypeOK
<1>2. CASE UNCHANGED vars
  BY <1>1, <1>2 DEF vars, RelayStep
<1>3. CASE CollectContinuousLogs
  <2>1. ASSUME NEW k \in Keys, NEW b \in BOOLEAN, Uploads(k, b)
        PROVE  RelayStep
    BY <2>1 DEF Uploads, RelayStep, relayVars
  <2>2. CASE /\ Tick \/ Restart \/ PassBegins \/ FetchCurrent \/ FetchCurrentFails
             /\ UNCHANGED relayVars
    BY <2>2 DEF ScrapeStep, RelayStep
  <2>3. ASSUME NEW arrives \in BOOLEAN,
               SendCurrent(arrives) /\ Uploads("curr", arrives /\ pass.lines # {})
        PROVE  ScrapeStep /\ RelayStep
    <3>1. RelayStep BY <2>1, <2>3 DEF Keys
    <3> QED BY <2>3, <3>1 DEF ScrapeStep
  <2>4. ASSUME NEW end \in Ends(PreviousWindow), NEW arrives \in BOOLEAN,
               LET lines == IF arrives THEN {l \in PreviousWindow : l <= end} ELSE {} IN
                 CollectPrevious(lines) /\ Uploads("prev", lines # {})
        PROVE  ScrapeStep /\ RelayStep
    <3> DEFINE lines == IF arrives THEN {l \in PreviousWindow : l <= end} ELSE {}
    <3>1. lines \in SUBSET CrashedLog
      BY LogTypes
    <3>2. CollectPrevious(lines) /\ Uploads("prev", lines # {})
      BY <2>4
    <3> HIDE DEF lines
    <3>3. RelayStep BY <2>1, <3>2 DEF Keys
    <3> QED BY <3>1, <3>2, <3>3 DEF ScrapeStep
  <2> QED BY <1>3, <2>2, <2>3, <2>4 DEF CollectContinuousLogs
<1>4. CASE AgentEnds
  BY <1>4 DEF AgentEnds, ScrapeStep, RelayStep
<1>5. ASSUME NEW v \in Viewers, NEW k \in Keys, GetPodLogs(v, k)
      PROVE  ScrapeStep /\ RelayStep
  <2>1. LinesArrive
    BY <1>5 DEF GetPodLogs, LinesArrive, ScrapeTypeOK
  <2> QED BY <1>5, <2>1 DEF GetPodLogs, ScrapeStep, RelayStep
<1>6. ASSUME NEW v \in Viewers, WaitTimesOut(v)
      PROVE  ScrapeStep /\ RelayStep
  BY <1>1, <1>6 DEF WaitTimesOut, RelayStep
<1>7. ASSUME NEW arrives \in BOOLEAN, PollAndProcess(arrives)
      PROVE  ScrapeStep /\ RelayStep
  BY <1>1, <1>7 DEF PollAndProcess, RelayStep
<1>8. ASSUME NEW k \in Keys, NEW lines \in {{}, Fetched(k)}, ProcessLogRequest(k, lines)
      PROVE  ScrapeStep /\ RelayStep
  <2>1. Fetched(k) \subseteq Lines
    BY LogTypes DEF Fetched
  <2>2. LinesArrive
    BY <1>8, <2>1 DEF ProcessLogRequest, LinesArrive, ScrapeTypeOK
  <2> QED BY <1>8, <2>2 DEF ProcessLogRequest, ScrapeStep, RelayStep
<1>9. ASSUME NEW k \in Keys, ProcessLogRequestFails(k)
      PROVE  ScrapeStep /\ RelayStep
  BY <1>1, <1>9 DEF ProcessLogRequestFails, RelayStep
<1> QED BY <1>2, <1>3, <1>4, <1>5, <1>6, <1>7, <1>8, <1>9 DEF Next, OnDemand

LEMMA RelayTypeStep ==
  ASSUME RelayTypeOK, RelayStep
  PROVE  RelayTypeOK'
<1> USE DEF RelayTypeOK
<1>1. ASSUME NEW k \in Keys, Stored(k)
      PROVE  waiting' \in [Viewers -> Keys \cup {Nothing}] /\ unlucky' \subseteq Viewers
  BY <1>1 DEF Stored
<1>2. ASSUME NEW keys, Lost(keys)
      PROVE  unlucky' \subseteq Viewers
  BY <1>2 DEF Lost, WaitingFor
<1>3. ASSUME NEW k \in Keys, Done(k)
      PROVE  working' \in [Keys -> Nat]
  <2>1. working[k] - 1 \in Nat BY <1>3 DEF Done
  <2> QED BY <1>3, <2>1 DEF Done
<1>4. CASE UNCHANGED relayVars
  BY <1>4 DEF relayVars
<1>5. ASSUME NEW k \in Keys, Stored(k), UNCHANGED <<pending, working>>
      PROVE  RelayTypeOK'
  BY <1>1, <1>5
<1>6. ASSUME NEW v \in Viewers, NEW k \in Keys,
             waiting' = [waiting EXCEPT ![v] = k], UNCHANGED working,
             Shares(k) \/ Queues(k)
      PROVE  RelayTypeOK'
  <2>1. waiting' \in [Viewers -> Keys \cup {Nothing}] BY <1>6
  <2>2. CASE Shares(k) BY <1>6, <2>1, <2>2 DEF Shares
  <2>3. CASE Queues(k) BY <1>2, <1>6, <2>1, <2>3, QueuedLemma DEF Queues
  <2> QED BY <1>6, <2>2, <2>3
<1>7. ASSUME NEW v \in Viewers, waiting' = [waiting EXCEPT ![v] = Nothing],
             unlucky' = unlucky \ {v}, UNCHANGED <<pending, working>>
      PROVE  RelayTypeOK'
  BY <1>7
<1>8. ASSUME NEW arrives \in BOOLEAN, PollAndProcess(arrives)
      PROVE  RelayTypeOK'
  <2>1. working' \in [Keys -> Nat]
    BY <1>8, AskedLemma DEF PollAndProcess
  <2>2. pending' \in Seq(Keys) /\ Len(pending') <= MaxPending
    BY <1>8, RelayAssumption DEF PollAndProcess
  <2> QED BY <1>2, <1>8, <2>1, <2>2 DEF PollAndProcess
<1>9. ASSUME NEW k \in Keys, Done(k), Stored(k), UNCHANGED pending
      PROVE  RelayTypeOK'
  BY <1>1, <1>3, <1>9
<1>10. ASSUME NEW k \in Keys, Done(k), Lost({k}), UNCHANGED <<waiting, pending>>
       PROVE  RelayTypeOK'
  BY <1>2, <1>3, <1>10
<1>11. ASSUME working' = [k \in Keys |-> 0], Lost({k \in Keys : working[k] > 0}),
              UNCHANGED <<waiting, pending>>
       PROVE  RelayTypeOK'
  BY <1>2, <1>11
<1> QED BY <1>4, <1>5, <1>6, <1>7, <1>8, <1>9, <1>10, <1>11 DEF RelayStep

\* One viewer's part of WaiterIsServed.
Served(v) ==
  waiting[v] = Nothing \/ v \in unlucky \/
  waiting[v] \in ToSet(pending) \/ working[waiting[v]] > 0

LEMMA ServedStep ==
  ASSUME RelayTypeOK, RelayStep, NEW v \in Viewers, Served(v)
  PROVE  Served(v)'
<1> USE DEF RelayTypeOK
<1> DEFINE key == waiting[v]
<1>1. key \in Keys \cup {Nothing} /\ Nothing \notin Keys
  BY DEF Keys, Nothing
\* Who is woken is served, and for the others nothing changes.
<1>2. ASSUME NEW k \in Keys, Stored(k)
      PROVE  /\ key = k => waiting'[v] = Nothing
             /\ key # k => waiting'[v] = key /\ (v \in unlucky' <=> v \in unlucky)
  BY <1>2 DEF Stored, WaitingFor
\* Whose request is lost is unlucky, and who was so still is.
<1>3. ASSUME NEW keys, Lost(keys)
      PROVE  /\ key \in keys => v \in unlucky'
             /\ v \in unlucky => v \in unlucky'
  BY <1>3 DEF Lost, WaitingFor
<1>4. ASSUME NEW k \in Keys, Done(k), key \in Keys, key # k
      PROVE  working'[key] = working[key]
  BY <1>4 DEF Done
<1>5. CASE UNCHANGED relayVars
  BY <1>5 DEF relayVars, Served
<1>6. ASSUME NEW k \in Keys, Stored(k), UNCHANGED <<pending, working>>
      PROVE  Served(v)'
  BY <1>2, <1>6 DEF Served
<1>7. ASSUME NEW w \in Viewers, NEW k \in Keys, waiting[w] = Nothing,
             waiting' = [waiting EXCEPT ![w] = k], UNCHANGED working,
             Shares(k) \/ Queues(k)
      PROVE  Served(v)'
  <2>1. k \in ToSet(pending')
    BY <1>7, QueuedLemma DEF Shares, Queues
  <2>2. CASE v = w
    BY <1>7, <2>1, <2>2 DEF Served
  <2>3. CASE v # w
    <3>1. waiting'[v] = key BY <1>7, <2>3
    <3>2. CASE Shares(k) BY <1>7, <3>1, <3>2 DEF Shares, Served
    <3>3. CASE Queues(k)
      <4>1. v \in unlucky => v \in unlucky' BY <1>3, <3>3 DEF Queues
      <4>2. key \in ToSet(pending) => key \in ToSet(pending') \/ v \in unlucky'
        BY <1>3, <3>3, QueuedLemma DEF Queues
      <4> QED BY <1>7, <3>1, <4>1, <4>2 DEF Served
    <3> QED BY <1>7, <3>2, <3>3
  <2> QED BY <2>2, <2>3
<1>8. ASSUME NEW w \in Viewers, waiting' = [waiting EXCEPT ![w] = Nothing],
             unlucky' = unlucky \ {w}, UNCHANGED <<pending, working>>
      PROVE  Served(v)'
  BY <1>8 DEF Served
<1>9. ASSUME NEW arrives \in BOOLEAN, PollAndProcess(arrives)
      PROVE  Served(v)'
  <2>1. CASE arrives
    <3>1. ASSUME key \in Keys
          PROVE  working'[key] = working[key] + Asked(key)
      BY <1>9, <2>1, <3>1 DEF PollAndProcess
    <3>2. ASSUME key \in Keys, key \in ToSet(pending) \/ working[key] > 0
          PROVE  working'[key] > 0
      BY <3>1, <3>2, AskedLemma
    <3>3. v \in unlucky => v \in unlucky'
      BY <1>3, <1>9 DEF PollAndProcess
    <3>4. waiting' = waiting BY <1>9 DEF PollAndProcess
    <3> QED BY <1>1, <3>2, <3>3, <3>4 DEF Served
  <2>2. CASE ~arrives
    <3>1. Lost(ToSet(pending)) /\ UNCHANGED <<waiting, working>>
      BY <1>9, <2>2 DEF PollAndProcess
    <3> QED BY <1>3, <3>1 DEF Served
  <2> QED BY <2>1, <2>2
<1>10. ASSUME NEW k \in Keys, Done(k), Stored(k), UNCHANGED pending
       PROVE  Served(v)'
  BY <1>1, <1>2, <1>4, <1>10 DEF Served
<1>11. ASSUME NEW k \in Keys, Done(k), Lost({k}), UNCHANGED <<waiting, pending>>
       PROVE  Served(v)'
  BY <1>1, <1>3, <1>4, <1>11 DEF Served
<1>12. ASSUME working' = [k \in Keys |-> 0], Lost({k \in Keys : working[k] > 0}),
              UNCHANGED <<waiting, pending>>
       PROVE  Served(v)'
  BY <1>1, <1>3, <1>12 DEF Served
<1> QED BY <1>5, <1>6, <1>7, <1>8, <1>9, <1>10, <1>11, <1>12 DEF RelayStep

-----------------------------------------------------------------------------
(* The theorems *)

Inv == ScrapeInv /\ RelayTypeOK /\ WaiterIsServed

LEMMA InvHolds == Spec => []Inv
<1>1. Init => Inv
  <2> SUFFICES ASSUME Init PROVE Inv OBVIOUS
  <2>1. ScrapeInv BY ScrapeInvInit DEF Init
  <2>2. RelayTypeOK BY RelayAssumption DEF Init, RelayTypeOK
  <2>3. WaiterIsServed BY DEF Init, WaiterIsServed
  <2> QED BY <2>1, <2>2, <2>3 DEF Inv
<1>2. Inv /\ [Next]_vars => Inv'
  <2> SUFFICES ASSUME Inv, [Next]_vars PROVE Inv' OBVIOUS
  <2>1. ScrapeStep /\ RelayStep BY NextIsBoth DEF Inv, ScrapeInv
  <2>2. ScrapeInv' BY <2>1, ScrapeInvStep DEF Inv
  <2>3. RelayTypeOK' BY <2>1, RelayTypeStep DEF Inv
  <2>4. WaiterIsServed'
    <3>1. \A v \in Viewers : Served(v) BY DEF Inv, WaiterIsServed, Served
    <3>2. \A v \in Viewers : Served(v)' BY <2>1, <3>1, ServedStep DEF Inv
    <3> QED BY <3>2, Zenon DEF WaiterIsServed, Served
  <2> QED BY <2>2, <2>3, <2>4 DEF Inv
<1> QED BY <1>1, <1>2, PTL DEF Spec

\* Every state of the collection and of the requests is well typed; in particular
\* the list of pending requests never outgrows its limit.
THEOREM TypeCorrect == Spec => []TypeOK
<1>1. Inv => TypeOK BY DEF Inv, ScrapeInv, RelayTypeOK, TypeOK
<1> QED BY <1>1, InvHolds, PTL

\* No line is skipped but by one of the mishaps that LogScrape names: whenever the
\* container writes, however long a second is, and for every choice of the windows in
\* time and in lines whose overlap holds two prompt delays and the part of a second
\* that the clock leaves out.
THEOREM NothingSkippedTheorem == Spec => []NothingSkipped
<1>1. Inv => NothingSkipped BY DEF Inv, ScrapeInv
<1> QED BY <1>1, InvHolds, PTL

\* Nobody waits for a log that nobody works on, unless a request for it was lost.
THEOREM WaiterIsServedTheorem == Spec => []WaiterIsServed
<1>1. Inv => WaiterIsServed BY DEF Inv
<1> QED BY <1>1, InvHolds, PTL

=============================================================================

\* One container that writes a burst of lines and one more, two viewers, two events;
\* a tick is half a second.
SPECIFICATION Spec

CONSTANTS
  Viewers = {v1, v2}
  Lines = {2, 3, 4, 8}
  Second = 2
  Grace = 2
  MinSince = 1
  FirstWindow = 2
  MaxWindow = 4
  PrevWindow = 2
  FirstTail = 1
  MaxTail = 2
  PrevTail = 1
  Prompt = 1
  MaxTime = 9
  MaxEvents = 2
  MaxPending = 1

SYMMETRY Symmetry

INVARIANTS
  TypeOK
  NothingSkipped
  WaiterIsServed

\* Time is bounded, and nobody has to ask for a log.
CHECK_DEADLOCK FALSE

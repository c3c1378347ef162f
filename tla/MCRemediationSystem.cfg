CONSTANTS
  a1 = a1
  a2 = a2
  d1 = d1
  d2 = d2
  None = None
  ClaimLease = 0
  DisconnectTimeout = 0
  ExecTimeout = 0
  ExpiryWindow = 0
  Horizon = 1
  Actions = {a1}
  Drains = {d1, d2}
  ChanCapacity = 1
  MaxPending = 2
  MaxRestarts = 1
SPECIFICATION Spec
SYMMETRY Interchangeable
INVARIANTS
  TypeOK
  ConclusionIsEarned
  WithdrawnNeverRuns
  OneRunPerLife
PROPERTY ImplementsStore
VIEW Distinguished
CHECK_DEADLOCK FALSE

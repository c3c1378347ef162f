CONSTANTS
  a1 = a1
  a2 = a2
  b1 = b1
  b2 = b2
  o1 = o1
  i1 = i1
  op = op
  t1 = t1
  c1 = c1
  c2 = c2
  NoContainer = NoContainer
  Workloads = {}
  None = None
  ClaimLease = 0
  DisconnectTimeout = 0
  ExecTimeout = 0
  ExpiryWindow = 0
  Horizon = 1
  Actions <- MCActions
  Incidents <- MCIncidents
  Operations <- MCOperations
  IncidentOf <- MCIncidentOf
  TargetOf <- MCTargetOf
  ContainerOf <- MCContainerOf
  Reversible <- MCReversible
  MaxAttempts = 1
  MaxActions = 2
  MaxReports = 2
SPECIFICATION Spec
SYMMETRY Alike
INVARIANTS
  TypeOK
  TargetLock
  PausedHoldsBack
  SuccessStaysInLoop
PROPERTIES
  ImplementsStore
  PolicyGivesUp

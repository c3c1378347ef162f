CONSTANTS
  a1 = a1
  a2 = a2
  i1 = i1
  i2 = i2
  ClaimLease = 1
  DisconnectTimeout = 2
  ExecTimeout = 3
  ExpiryWindow = 4
  Horizon = 5
  Actions <- TwoActions
  Incidents <- OneIncident
  IncidentOf <- BothOfOne
SPECIFICATION FairSpec
INVARIANTS
  WithdrawnNeverHanded
PROPERTIES
  FinalStatusesStay
  SuccessRevisedOnlyByTelemetry
  PendingResolves
  InFlightResolves

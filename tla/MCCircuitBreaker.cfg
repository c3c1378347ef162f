CONSTANTS
  c1 = c1
  c2 = c2
  c3 = c3
  SuccessThreshold = 1
  Cooldown = 2
  MaxRetries = 1
  Callers <- ThreeCallers
  Threshold = 3
  MaxProbes = 1
SPECIFICATION FairSpec
INVARIANTS
  TypeOK
  ProbeQuota
PROPERTIES
  TripsOnConsecutiveFailures
  ClosesOnceHealthy

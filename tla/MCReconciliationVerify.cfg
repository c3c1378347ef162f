SPECIFICATION ReconSpec
CONSTANTS
  pod = pod
  db = db
  pods = pods
  deployments = deployments
  statefulsets = statefulsets
  Resources = {pod}
  CoreKinds = {pods, deployments}
  OtherKinds = {statefulsets}
  KindOf <- MCKindOf
  Early = {pod}
  Owned = {}
  QueueCapacity = 2
  MaxSpooled = 1
  MaxChanges = 1
  MaxFailures = 1
  MaxActions = 1
PROPERTY VerifiedByFreshTelemetry

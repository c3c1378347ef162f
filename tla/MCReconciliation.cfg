SPECIFICATION FairRecon
CONSTANTS
  pod = pod
  db = db
  pods = pods
  deployments = deployments
  statefulsets = statefulsets
  Resources = {pod, db}
  CoreKinds = {pods, deployments}
  OtherKinds = {statefulsets}
  KindOf <- MCKindOf
  Early = {pod}
  Owned = {}
  QueueCapacity = 2
  MaxSpooled = 2
  MaxChanges = 2
  MaxFailures = 3
  MaxActions = 1
INVARIANT ReconTypeOK
PROPERTIES DeletionOnlyIfGone FailingIsReported ViewConverges RecoveryCloses

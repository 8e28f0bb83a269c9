SPECIFICATION FairSpec
CONSTANTS
  work = work
  sensors = sensors
  remote = remote
  claim = claim
  plan = plan
  refresh = refresh
  arm = arm
  disengage = disengage
  missing = missing
  foreign = foreign
  t1 = t1
  t2 = t2
  Task = {t1, t2}
  Broker <- TraceBroker
  Registered <- MCBroker
  Pipeline <- TracePipeline
  BrokerOf <- TraceBrokerOf
  Catalog <- TraceCatalog
  Step <- TraceSteps
  Implements <- TraceImplements
  Request <- TraceRequest
  Key = {"k"}
  Val = {1, 2}
  Ceiling = 9
  Limited = {}
  Limit = 1
  TraceMayFail = TRUE
  MaxDispatch = 2
  MaxEnv = 1
CHECK_DEADLOCK FALSE
INVARIANT AuditComplete
INVARIANT DeltaChainSound
PROPERTY DispatchEnds

SPECIFICATION Spec
CONSTANTS
  work = work
  sensors = sensors
  remote = remote
  claim = claim
  plan = plan
  refresh = refresh
  arm = arm
  disengage = disengage
  missing = missing
  foreign = foreign
  t1 = t1
  t2 = t2
  Task = {t1, t2}
  Broker <- MCBroker
  Registered <- MCBroker
  Pipeline <- MCPipeline
  BrokerOf <- MCOnWork
  Catalog <- GovCatalog
  Step <- GovSteps
  Implements <- GovImplements
  Request <- GovRequest
  Key = {}
  Val = {}
  Ceiling = 2
  Limited = {claim}
  Limit = 1
  TraceMayFail = FALSE
  MaxDispatch = 2
  MaxEnv = 1
CHECK_DEADLOCK FALSE
SYMMETRY TaskSymmetry
INVARIANT BudgetOvershootBounded
INVARIANT KillSwitchLatencyBounded
INVARIANT ChargeMatchesOutcome

SPECIFICATION Spec
CONSTANTS
  t1 = t1
  t2 = t2
  t3 = t3
  p1 = p1
  self = self
  other = other
  Task = {t1, t2, t3}
  Peer = {p1}
  Foreign = {}
  Self = self
  MaxInflight = 2
  MinInterval = 2
  RecvMax = 2
  RecvWindow = 1
  MaxEmits = 4
  MaxForeign = 1
  MaxClock = 1
CHECK_DEADLOCK FALSE
INVARIANTS GrantsPerInterval QuotaExact
 

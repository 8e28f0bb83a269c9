SPECIFICATION Spec
CONSTANTS
  c1 = c1
  c2 = c2
  m1 = m1
  m2 = m2
  u1 = u1
  u2 = u2
  NoUnit = NoUnit
  Client = {c1, c2}
  Slot = {m1, m2}
  Unit = {u1, u2}
  Window = 1
  MaxWrites = 1
  MaxClock = 1
  Order <- MCOrder
  SegmentOrder <- MCSegmentOrder
  MaxDispatch = 2
  MaxEnv = 1
SYMMETRY HostSymmetry
CHECK_DEADLOCK FALSE
INVARIANTS ClaimedOncePerOffer OverlayFollows  WritesPerWindow QuietIsCurrent StaleBounded

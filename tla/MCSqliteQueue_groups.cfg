SPECIFICATION FairSpec
CONSTANTS
  g1 = g1
  g2 = g2
  w1 = w1
  w2 = w2
  w3 = w3
  Limit = 2
  Group = {g1, g2}
  Member = {w1, w2, w3}
  GroupOf <- MCGroupOf
  MaxRows = 3
  MaxFaults = 1
CHECK_DEADLOCK FALSE
INVARIANTS  ReaderMissesNothing
PROPERTIES KeepsPromise EventuallyAcked

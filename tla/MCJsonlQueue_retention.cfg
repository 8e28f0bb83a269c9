SPECIFICATION Spec
CONSTANTS
  m1 = m1
  m2 = m2
  m3 = m3
  Msgs = {m1, m2, m3}
  Expirable = {m1}
  MaxMessages = 2
  Compactions = 2
  Crashes = 1
SYMMETRY Alike
CHECK_DEADLOCK FALSE
INVARIANTS  DamageContained  DeliveredOnce

SPECIFICATION FairSpec
CONSTANTS
  a1 = a1
  a2 = a2
  b1 = b1
  b2 = b2
  A = A
  B = B
  x = x
  y = y
  z = z
  Caller = {a1, a2, b1, b2}
  Client = {A, B}
  ClientOf <- MCClientOf
  Mid = {x, y, z}
  MidOf <- MCMidOf
  Unacceptable = {z}
  MaxAttempts = 2
  MaxCalls = 3
  MaxFaults = 2
CHECK_DEADLOCK FALSE
INVARIANTS AnswerGenuine AcceptedPollable RunsExcused
PROPERTY InvocationEnds

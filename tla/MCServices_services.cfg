SPECIFICATION ServicesSpec
CONSTANTS
  p1 = p1
  r1 = r1
  r2 = r2
  q1 = q1
  q2 = q2
  Peer = {p1}
  Port = {q1}
  NoPort = NoPort
  Request = {r1, r2}
  MaxSpawns = 2
  MaxPolls = 1
  MaxCrashes = 1
CHECK_DEADLOCK FALSE
INVARIANTS StoppedIsDead  HistoryKept
PROPERTY StartupResolved

SPECIFICATION GFairSpec
CONSTANTS
  None = None
  User = {u1}
  ColonUser = {}
  Session = {s1, s2}
  Socket = {k1, k2}
  Worker = {w1}
  Sweeper = {}
  MaxCollisions = 0
  MaxFailures = 0
  MaxCrashes = 0
  MaxClock = 1
PROPERTIES
  AbsentUserTurnsOffline
  LapsedSocketCloses
CHECK_DEADLOCK FALSE

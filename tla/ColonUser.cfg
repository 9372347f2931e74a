SPECIFICATION FairSpec
CONSTANTS
  None = None
  User = {u1}
  ColonUser = {u1}
  Session = {s1, s2}
  Worker = {w1}
  Sweeper = {sw1}
  MaxCollisions = 0
  MaxFailures = 0
  MaxCrashes = 1
  MaxClock = 1
PROPERTIES
  StaleMemberSwept
CHECK_DEADLOCK FALSE

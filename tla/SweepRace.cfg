SPECIFICATION Spec
CONSTANTS
  None = None
  User = {u1}
  ColonUser = {}
  Session = {s1, s2}
  Worker = {w1}
  Sweeper = {sw1}
  MaxCollisions = 0
  MaxFailures = 0
  MaxCrashes = 0
  MaxClock = 1
SYMMETRY Symmetry
INVARIANTS
  AnnouncementMatchesSessions
CHECK_DEADLOCK FALSE

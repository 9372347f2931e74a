SPECIFICATION FairSpec
CONSTANTS
  None = None
  User = {u1}
  ColonUser = {}
  Session = {s1}
  Worker = {w1}
  Sweeper = {sw1}
  MaxCollisions = 0
  MaxFailures = 0
  MaxCrashes = 1
  MaxClock = 1
PROPERTIES
  OfflineEventuallyAnnounced
CHECK_DEADLOCK FALSE

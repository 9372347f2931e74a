SPECIFICATION GSpec
CONSTANTS
  None = None
  User = {u1}
  ColonUser = {}
  Session = {s1, s2}
  Socket = {k1, k2}
  Worker = {w1, w2}
  Sweeper = {}
  MaxCollisions = 2
  MaxFailures = 1
  MaxCrashes = 1
  MaxClock = 2
SYMMETRY GatewaySymmetry
INVARIANTS
  GTypeOK
  GatewayInv
  SocketKeepsSession
  OnlineMatchesSockets
  AnnouncementMatchesSessions
  SetsMatchSessions
  NoRepeatedOffline
PROPERTIES
  LastSeenMonotonic
CHECK_DEADLOCK FALSE

SPECIFICATION FairSpec
CONSTANTS
  None = None
  User = {u1}
  ColonUser = {}
  Session = {s1, s2}
  Worker = {w1}
  Sweeper = {sw1}
  MaxCollisions = 2
  MaxFailures = 1
  MaxCrashes = 1
  MaxClock = 1
INVARIANTS
  TypeOK
  RedisInv
  LiveSessionIsMember
  CacheNotLeaked
  OfflineHasLastSeen
PROPERTIES
  RegistrySpec
  StaleMemberSwept
  OfflineAnnouncedUnlessFault
CHECK_DEADLOCK FALSE

SPECIFICATION Spec
CONSTANTS
  None = None
  User = {u1, u2}
  Interval = 3
  MinGap = 1
  Ttl = 6
  Latency = 2
  MaxDelay = 3
  MaxEvents = 2
SYMMETRY Symmetry
INVARIANTS
  TypeOK
  NeverGivesUp
  DownStaysDown
  TimerSparesSocket
  HeartbeatKeepsSession
  
  BatchSettles
  TypingSettles
  ShownIsOwn
CHECK_DEADLOCK FALSE

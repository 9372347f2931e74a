SPECIFICATION FairSpec
CONSTANTS
  None = None
  User = {u1, u2}
  ColonUser = {u2}
  Worker = {w1, w2}
  MaxCalls = 3
  MaxFailures = 1
  MaxCrashes = 1
INVARIANTS
  TypeOK
  EveryStartStopped
  NoGhostTyping
PROPERTIES
  TypingEnds
CHECK_DEADLOCK FALSE

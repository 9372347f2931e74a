SPECIFICATION QSpec
CONSTANTS
  None = None
  User = {u1, u2}
  ColonUser = {}
  Session = {s1, s2}
  Worker = {w1}
  Sweeper = {}
  Asker = {q1}
  MaxCollisions = 0
  MaxFailures = 0
  MaxCrashes = 1
  MaxClock = 1
SYMMETRY Symmetry
INVARIANTS
  QTypeOK
  OfflineAnswerHasLastSeen
PROPERTIES
  OnlineAnswerTrue
  OfflineAnswerTrue
CHECK_DEADLOCK FALSE

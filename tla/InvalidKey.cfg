SPECIFICATION Spec
CONSTANTS
  None = None
  Tenant = {t1}
  Secret = {x1}
  Request = {r1}
  Socket = {k1}
  Address = {a1}
  MaxAttempts = 2
  MaxFaults = 0
PROPERTIES
  EveryReadServed
CHECK_DEADLOCK FALSE

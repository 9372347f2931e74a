SPECIFICATION Spec
CONSTANTS
  None = None
  Tenant = {t1, t2}
  Secret = {x1, x2}
  Request = {r1, r2}
  Socket = {k1}
  Address = {a1}
  MaxAttempts = 2
  MaxFaults = 2
SYMMETRY Symmetries
INVARIANTS
  TypeOK
  RevokedSocketsDrained
  IssuedKeyOpens
  CounterEnds
PROPERTIES
  RegistrySpec
CHECK_DEADLOCK FALSE

SPECIFICATION Spec
CONSTANTS
  g1 = g1
  g2 = g2
  u = u
  Managed = {g1, g2}
  Foreign = {u}
  MaxFiles = 2
  None = None
  Init_ = Init_
  Capacity = 2
  MaxMishaps = 2
INVARIANTS ReadyIsReceipted
CHECK_DEADLOCK FALSE

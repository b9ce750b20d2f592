SPECIFICATION Spec
CONSTANTS
  Num = 8
  IdxMod = 8
  Sectors = {s1, s2}
  Buffers = {b1, b2}
  Fresh <- FreshPrepared
  DataPos = 3
  StopOnError = TRUE
  MayTimeout = TRUE
  None = None
INVARIANTS ReadDelivers
CHECK_DEADLOCK FALSE

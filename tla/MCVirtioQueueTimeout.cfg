SPECIFICATION Spec
CONSTANTS
  Num = 16
  IdxMod = 32
  Sectors = {s1, s2}
  Buffers = {b1, b2}
  Fresh <- FreshStack
  DataPos = 2
  StopOnError = FALSE
  MayTimeout = TRUE
  None = None
INVARIANTS ReplyIsToThisRequest

SPECIFICATION FairSpec
CONSTANTS
  Num = 4
  IdxMod = 8
  Sectors = {s1, s2}
  Buffers = {b1, b2}
  Fresh <- FreshStack
  DataPos = 2
  StopOnError = FALSE
  MayTimeout = FALSE
  None = None
INVARIANTS PublishedChainsWhole HostIdleBetweenCalls
PROPERTIES CallsReturn ImplementsRead

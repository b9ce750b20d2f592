SPECIFICATION FairSpec
CONSTANTS
  VCpus = {v1}
  Vectors = {3, 4}
  Tprs = {0, 3}
  SubPri = 2
  Regs = {"eax"}
INVARIANTS NoInterruptForgotten ReadOnlyForGuest
PROPERTIES TprInForce InterruptsGetIn

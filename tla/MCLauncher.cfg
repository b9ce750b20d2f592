SPECIFICATION Spec
CONSTANTS
  Images = {i1, i2}
  Cds = {c1}
  Nics = {n1}
  Procs = {p1, p2}
  MaxTools = 2
  None = None
SYMMETRY Symmetry
INVARIANTS StopReachable NoLostVM
PROPERTIES ForgottenOnlyIf

SPECIFICATION Spec
CONSTANTS
  MaxSch = 2
  Geometries <- MCGeometries
  Limits = {0, 1, 5}
  BlockLengths = {512, 520, 2048}
  MAX_SECTORS = 3
INVARIANTS TypeOK OnlyLimitInherited GuessIsWhole
CHECK_DEADLOCK FALSE

SPECIFICATION CioFairSpec
CONSTANTS
  MaxCalls = 3
  MaxNoise = 3
  MaxForeign = 2
  SensesAtEnd = TRUE
INVARIANTS CioTypeOK ResultIsRight
PROPERTIES NotRunTwice CallsEnd
CHECK_DEADLOCK FALSE

SPECIFICATION FairSpec
CONSTANTS
  Images <- MCImages
  Loadparms = {0, 1, 2, 3, 4, 5}
  MAX_DEPTH = 3
  SECTOR = 4
  WORD = 1000
INVARIANTS TypeOK Accounting RightImage
PROPERTIES Ends
CHECK_DEADLOCK FALSE

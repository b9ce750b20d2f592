SPECIFICATION MapFairSpec
CONSTANTS
  WORD = 128
  MapDisks <- MCMapDisks
  Loadparms = {0, 1, 2, 3}
  SECTORS = 3
  HEADS = 2
  MAX_BOOT_ENTRIES = 3
  STAGE2_BLK_CNT_MAX = 3
  MAX_COMPONENTS = 5
  MaxBprs <- MCMaxBprs
  MEMORY = 16
INVARIANTS MapTypeOK LoadedWhole MenuWhole
PROPERTIES SoundDisksBoot
CHECK_DEADLOCK FALSE

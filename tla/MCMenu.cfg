SPECIFICATION FairSpec
CONSTANTS
  WORD = 32
  MAX_BOOT_ENTRIES = 2
  BUF_LEN = 2
  Keys = {"1", "3", "."}
  MaxKeys = 4
INVARIANTS TypeOK NoSpuriousRead BootsWhatWasTyped
PROPERTIES TimedPromptEnds
CHECK_DEADLOCK FALSE

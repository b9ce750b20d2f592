SPECIFICATION FairSpec
CONSTANTS
  Networks <- MCNetworks
  Names <- MCNames
  NoName = "none"
  RETRIES = 2
  Words = 14
  KERNEL_MAX_SIZE = 12
  LoadAddr = 3
  MinSize = 2
  CfgSize = 3
  PageWords = 4
  SubchannelId = 1
  ConsoleWords = {2}
  S390EP = 4
  KERN_IMAGE_START = 3
  InitrdParams = 5
  CommandLine = 6
INVARIANTS FirmwareKept StartsWhole EnteredAsItAsks
PROPERTY EndsReleased
CHECK_DEADLOCK FALSE

SPECIFICATION FairSpec
CONSTANTS
  Disks <- MCDisks
  Words = 32
  SubchannelId = 8
  IoNewPsw = 10
  IoOldPsw = 11
  ConsoleWords = {9, 26}
  S390EP = 29
  KERN_IMAGE_START = 30
INVARIANTS GuestMemoryKept SoundDisksSupported
PROPERTIES ImplementsUncut SoundDisksStart
CHECK_DEADLOCK FALSE

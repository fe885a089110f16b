\* Raw and smart clones, verified or not, between disks of eight bytes.
CONSTANTS
  SrcTotal = 8
  DstTotal = 8
  BytesPerCluster = 2
  Occupied = {1, 2}
  Word = 32
  Configs <- AllConfigs
  MaxSourceWrites = 1
  MaxShortReads = 1
SPECIFICATION CSpec
INVARIANTS
  VerifiedMeansCopied
  SuccessMeansWritten
  OnlyRangeWritten
  LocksHeld
PROPERTIES
  CloneReturns
CHECK_DEADLOCK FALSE

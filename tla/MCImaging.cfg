SPECIFICATION ImagingSpec
CONSTANTS
    Disks <- MCDisks
    SrcSector = 2
    CreateConfigs <- MCCreate
    Fresh = 50
    Shared = {0, 3}
    MaxFaults = 1
    RestoreConfigs <- MCRestore
    DstTotal = 6
    OldByte = 99
    MaxCreates = 2
    MaxRestores = 1
INVARIANTS
  RestoredIsImaged
  NeverWrongBytes
  VerifiedIsImaged
  ExitsClean
CHECK_DEADLOCK FALSE

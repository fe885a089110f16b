CONSTANTS
  TotalSectors = 13
  AlignStep = 4
  CHSStep = 3
  Existing <- MCExisting
  ClusterSize = 2
  Clusters = 6
  MaxDirect = 2
  MaxExtents = 2
  CarveChunk = 2
  CarveMax = 4
  MaxFaults = 1
  Volumes <- MCVolumes
  Disks <- MCDisks
  BootDisk = 0
  MaxActs = 3
  RepairActs = 3
  MaxRefreshes = 1
SPECIFICATION RSpec
INVARIANTS
  ScanFindsOnce
  RecoveredIsOriginal
  OneGoodGpt
  RepairedMeans
CHECK_DEADLOCK FALSE

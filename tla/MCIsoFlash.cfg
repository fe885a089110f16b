SPECIFICATION ISpec
CONSTANTS
  Contents <- MCContents
  Exts = {"iso", "img"}
  Buffers = {1, 3}
  Sectors = {1, 2}
  DiskUnits = 4
  Volumes = {"E", "F"}
  MaxFaults = 1
  MaxReplace = 1
INVARIANTS
  WritesGuarded
  SuccessMeansFlashed
CHECK_DEADLOCK FALSE

\* Any contents of the extended partition.
CONSTANTS
  DiskSectors = 10
  GptSlots = 0
  ExtStart = 4
  ExtSize = 4
  Sectors <- AnySector
  Primary0 = 1
  MAX_LOGICAL_PARTITIONS = 3
SPECIFICATION CSpec
INVARIANTS
  WalkFindsLogicals
PROPERTIES
  CountedWalkEnds
CHECK_DEADLOCK FALSE

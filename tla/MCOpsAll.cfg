\* Disks of every kind, three operations.
CONSTANTS
  DiskSectors = 16
  GptSlots = 3
  Layouts <- AllLayouts
  Starts = {7, 11}
  Counts = {0, 3}
  Labels <- SomeLabels
  MaxIndex = 2
  MaxSteps = 3
SPECIFICATION OSpec
INVARIANTS
  UndoRestores
PROPERTIES
  OthersUntouched
  MapSpec
CHECK_DEADLOCK FALSE

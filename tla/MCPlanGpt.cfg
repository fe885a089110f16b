\* Plans of up to three operations on a GPT disk.
CONSTANTS
  DiskSectors = 16
  GptSlots = 3
  DEFAULT_ALIGNMENT = 1
  Layouts <- PlanLayouts
  Unlisted = {7}
  Starts = {}
  Counts = {1, 4}
  Labels <- SomeLabels
  MaxIndex = 3
  MaxSteps = 3
SPECIFICATION PSpec
INVARIANTS
  ActsOnWhatWasShown
PROPERTIES
  PlannedWritesSafe
CHECK_DEADLOCK FALSE

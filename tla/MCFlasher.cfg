SPECIFICATION LSpec
CONSTANTS
  Images = {"a", "c"}
  Local = {"c"}
  Ranges = {"a"}
  Catalogs <- MCCatalogs
  Drives = {"d1", "d2"}
  Parts = 2
  MaxJobs = 2
  MaxRefresh = 1
INVARIANTS
  OneAtATime
  ConfirmedUnlessTouched
  FlashedIsImage
PROPERTIES
  NoFlashAfterCancel
  PipelineEnds
CHECK_DEADLOCK FALSE

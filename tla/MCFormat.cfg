SPECIFICATION FSpec
CONSTANTS
    Jobs <- MCJobs
    OldVolumes <- MCOld
    Fat32Limit <- MCLimit
INVARIANTS
  DetectsWhatWasFormatted
  WritesInside
  LayoutSound

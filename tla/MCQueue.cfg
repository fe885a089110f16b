\* Two workers in applyAll(), arbitrary caller.
CONSTANTS
  w1 = w1
  w2 = w2
  Workers <- TwoWorkers
  MaxOps = 2
  MaxApplies = 3
SPECIFICATION QFairSpec
INVARIANTS
  SingleOwner
PROPERTIES
  NeverRerun
  ApplyReturns
CHECK_DEADLOCK FALSE

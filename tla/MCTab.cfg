\* Two runs of applyAll(), on two threads if they overlap, with a refresh.
CONSTANTS
  w1 = w1
  w2 = w2
  r1 = r1
  Workers <- TwoWorkers
  Refreshers <- OneRefresher
  MaxOps = 2
  MaxApplies = 2
  MaxRefreshes = 1
SPECIFICATION MCTabSpec
INVARIANTS
  ModalGuard
  ButtonsTellTruth
PROPERTIES
  DialogCloses
CHECK_DEADLOCK FALSE

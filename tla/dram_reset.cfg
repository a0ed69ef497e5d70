SPECIFICATION Spec
CONSTANTS
  NumWords = 2
  IDs = {1, 2}
  Lens = {0, 1}
  Offsets = {0}
  FullStores = TRUE
  DrainedReset = FALSE
  MaxTraffic = 1
  MaxResets = 1
  None = None
INVARIANT ResetDrops
CHECK_DEADLOCK FALSE

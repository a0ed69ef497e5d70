SPECIFICATION Spec
CONSTANTS
  NumWords = 2
  IDs = {1, 2}
  Lens = {0, 1}
  Offsets = {0, 1}
  FullStores = FALSE
  DrainedReset = TRUE
  MaxTraffic = 1
  MaxResets = 0
  None = None
INVARIANT StoresReachMemory
CHECK_DEADLOCK FALSE

SPECIFICATION Spec
CONSTANTS
  NumWords = 2
  IDs = {1, 2}
  Lens = {0, 1}
  Offsets = {0, 5}
  FullStores = TRUE
  DrainedReset = TRUE
  MaxTraffic = 3
  MaxResets = 1
  None = None
INVARIANTS TypeOK TransfersAgree BurstsAligned
CHECK_DEADLOCK FALSE

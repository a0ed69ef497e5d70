SPECIFICATION Spec
CONSTANTS
  PCs = {"boot", "a", "b"}
  BootPC = "boot"
  NoPC = "none"
  Ports = {2}
  NUM_RETIRED = 5
  MAX_INSTR_TICKS = 2
  SAME_INST = 2
  MaxRuns = 1
INVARIANT StuckMeansSamePC
CHECK_DEADLOCK FALSE

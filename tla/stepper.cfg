SPECIFICATION FairSpec
CONSTANTS
  PCs = {"boot", "a", "b"}
  BootPC = "boot"
  NoPC = "none"
  Ports = {1, 2}
  NUM_RETIRED = 5
  MAX_INSTR_TICKS = 2
  SAME_INST = 2
  MaxRuns = 2
INVARIANTS TypeOK RetiredBound TicksBound StuckExact
PROPERTY Terminates
CHECK_DEADLOCK FALSE

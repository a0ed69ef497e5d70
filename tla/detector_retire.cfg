SPECIFICATION Spec
CONSTANTS
  ROB_SIZE = 2
  N_ROBS = 1
  PCs <- IntPCs
  Uop <- IntUop
  NoPC = "zero"
  Faults = {}
  BrTags = {1, 2}
  MaxInsts = 2
  MaxRegs = 4
  Sources = {"ALL"}
INVARIANT RetiredTaintIsArchitectural
CHECK_DEADLOCK FALSE

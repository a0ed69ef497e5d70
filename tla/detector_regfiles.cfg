SPECIFICATION Spec
CONSTANTS
  ROB_SIZE = 2
  N_ROBS = 2
  PCs <- LoadPCs
  Uop <- LoadUop
  NoPC = "zero"
  Faults = {}
  BrTags = {1, 2}
  MaxInsts = 2
  MaxRegs = 4
  Sources = {"ALL"}
INVARIANT BlamesTheWriter
CHECK_DEADLOCK FALSE

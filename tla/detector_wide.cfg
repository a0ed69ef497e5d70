SPECIFICATION Spec
CONSTANTS
  ROB_SIZE = 2
  N_ROBS = 2
  PCs <- IntPCs
  Uop <- IntUop
  NoPC = "zero"
  Faults = {"fault"}
  BrTags = {1, 2}
  MaxInsts = 4
  MaxRegs = 4
  Sources = {"ALL"}
INVARIANTS BlamesTheWriter NoMissedSquash RecordedFlushKillsTaint ArchitecturalTaintRetires
CHECK_DEADLOCK FALSE
PROPERTY ImplementsVerdict

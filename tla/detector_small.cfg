SPECIFICATION Spec
CONSTANTS
  ROB_SIZE = 3
  N_ROBS = 1
  PCs <- AllPCs
  Uop <- AllUop
  NoPC = "zero"
  Faults = {"fault", "ordering", "replay"}
  BrTags = {1, 2}
  MaxInsts = 3
  MaxRegs = 4
  Sources = {"ALL", "STORE_BUFFER"}
INVARIANTS TypeOK BlamesTheWriter NoMissedSquash RecordedFlushKillsTaint ArchitecturalTaintRetires
CHECK_DEADLOCK FALSE
PROPERTY ImplementsVerdict

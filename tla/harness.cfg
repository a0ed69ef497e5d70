SPECIFICATION Spec
CONSTANTS
  RamBase = 6
  RamSize = 10
  Rom = 1
  OnBus = {1, 2, 4}
  AllowedDevices <- Devices
  StuckLimit = 0
  TrapHandler = 7
  MdsPage = 14
  DataAddrs = {2, 3, 4, 10, 12, 14}
  JumpTargets = {3, 4, 6, 7, 8, 10}
  Configs <- AllCampaigns
  ForbiddenRegion <- Forbidden
INVARIANTS TypeOK TaintIsExact FilteredIsDiscarded DiscardedHasCause ImageLoaded RerunSameProgram

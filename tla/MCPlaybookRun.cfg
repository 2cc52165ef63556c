CONSTANTS
  MaxImportDepth = 3
  MaxImportFiles = 5
  MaxImportNodes = 12
  MergeConfigMaps <- MergedMaps
  CompileSelector <- ParsedSelector
  AllSteps <- NestedSteps
  Preflight <- PreflightDevice
  MaxWorkflowDepth = 4
  MaxRepeatDepth = 1
  MaxFromItems = 2
  Launches <- MCLaunches
SPECIFICATION Spec
INVARIANTS OnlyTreesAreAccepted ImportersWin SelectionIsExact SecretsAreEarned VettedReadsAreProduced OutputStaysOutOfCommands PlanCoversRun
PROPERTIES PlaybookEnds
CHECK_DEADLOCK FALSE

CONSTANTS
  MaxImportDepth = 3
  MaxImportFiles = 5
  MaxImportNodes = 12
  MergeConfigMaps <- MergedMaps
  CompileSelector <- ParsedSelector
  AllSteps <- NestedSteps
  Preflight <- PreflightDevice
  MaxWorkflowDepth = 4
  MaxRepeatDepth = 1
  MaxFromItems = 2
  Launches <- MCVerified
SPECIFICATION Spec
INVARIANT CheckModeSends
CHECK_DEADLOCK FALSE

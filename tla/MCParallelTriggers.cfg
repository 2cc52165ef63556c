SPECIFICATION FairSpec
CONSTANTS
  Scenarios <- MCScenarios
  Names = {"x", "y", "event"}
  Unset = Unset
  DeviceFires = 3
  DefaultFires = 5
  MaxDepth = 3
  MaxTime = 2
INVARIANTS
  TriggersKeepLimits
  AlarmsAreExact
  MergeIsDeclared
PROPERTIES
  ParallelReturns

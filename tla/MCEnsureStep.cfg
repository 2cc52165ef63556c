SPECIFICATION Spec
CONSTANTS
  Values <- MCValues
  Targets <- MCTargets
  Scenarios <- MCScenarios
  Unset = unset
  Keep = keep
  MaxChanges = 1
  MaxRuns = 2
  t1 = t1 t2 = t2 unset = unset keep = keep
  oldText = oldText newText = newText rd1 = rd1 rd2 = rd2
INVARIANTS
  SuccessIsTrue
  RollbackRestores

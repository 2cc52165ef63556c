SPECIFICATION Spec
CONSTANTS
  Nodes <- MCNodes
  Root = "root"
  Names <- MCNames
  Playbooks <- RepeatedCommand
  MaxAttempts = 2
  MaxProcesses = 2
PROPERTY SkipsOnlyCompleted

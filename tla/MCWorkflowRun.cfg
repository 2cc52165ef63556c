SPECIFICATION FairSpec
CONSTANTS
  Nodes <- MCNodes
  Root = "root"
  Names <- MCNames
  Playbooks <- MCPlaybooks
  MaxAttempts = 2
  MaxProcesses = 2
INVARIANTS
  JournalCoversDevice
  NoResend
  
  CleanVerdict
  AlwaysIsEntered
PROPERTIES
  ProcessEnds

SPECIFICATION FairSpec
CONSTANTS
  Emitters <- MCEmitters
  Closers <- MCClosers
  QueueSize = 2
  MaxEvents = 2
  e1 = e1 e2 = e2 c1 = c1 c2 = c2
INVARIANTS
  SendsAreSafe
  CloseDeliversEverything
PROPERTIES
  CloseReturns

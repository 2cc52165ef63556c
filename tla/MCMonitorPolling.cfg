SPECIFICATION FairSpec
CONSTANTS
  Devices <- MCDevices
  NetconfDevices <- MCNetconfDevices
  Nobody = Nobody
  Stages = 2
  CaptureConfig = TRUE
  MaxTicks <- MCMaxTicks
  MaxSessions = 2
  MaxFaults = 1
  xr = xr junos = junos
INVARIANTS
  OnePromptAtATime
  SessionsAreClosed
  CompletedIsEarned
PROPERTIES
  ShutdownReturns

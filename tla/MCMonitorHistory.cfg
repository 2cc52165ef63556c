SPECIFICATION Spec
CONSTANTS
  Runs <- MCRuns
  Left <- MCLeft
  Bounds <- MCBounds
  Samples <- MCSamples
  Days = 1
  RotateAfter = 2
  Consecutive = 2
  Cooldown = 2
  RouteDrop = 20
  TrafficShift = 50
  TrafficMinimum = 10
  ErrorDelta = 1
INVARIANTS
  HealthIsBacked
  OnlySealedIsPruned
  AlertsAreDue

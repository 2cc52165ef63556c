SPECIFICATION FairFleetSpec
CONSTANTS
  N = 3
  Policies <- MCPolicies
  Hosts <- MCHosts
  Domains <- MCDomains
  NoDomain = NoDomain
  Fleets <- MCFleets
  h1 = h1 h2 = h2 h3 = h3 d1 = d1 d2 = d2
INVARIANTS
  SchedulerLimits
  ActiveExclusion
  FirstOccurrenceOrder
PROPERTIES
  RunReturns
  RolloutSpec

SPECIFICATION FairFleetSpec
CONSTANTS
  N = 3
  Policies <- SerialRepeatedPolicies
  Hosts <- MCHosts
  Domains <- MCDomains
  NoDomain = NoDomain
  Fleets <- SerialRepeatedFleets
  h1 = h1 h2 = h2 h3 = h3 d1 = d1 d2 = d2
PROPERTY LaunchedEntriesFinish
CHECK_DEADLOCK FALSE

SPECIFICATION LimitsSpec
CONSTANTS
  a1 = a1
  a2 = a2
  b = b
  p = p
  garbage = garbage
  Networks = {a1, b, p}
  Addresses <- MCAddresses
  NetworkOf <- MCNetworkOf
  Trusted = {p}
  Origins = {a1, a2, b}
  Forgeries <- MCForgeries
  Users = {u1, u2}
  Overflow = overflow
  MaxEntries = 3
  MaxHops = 3
  MaxStates = 1
  Limit = 1
  SearchLimit = 1
  Window = 2
  PruneAge = 2
  PruneEvery = 2
  MaxProxies = 2
  MaxRequests = 5
  Horizon = 4
SYMMETRY Symmetry
INVARIANTS
  LimitsTypeOK
  SourceIsLimited
  UserIsLimited
  RefusalIsJustified

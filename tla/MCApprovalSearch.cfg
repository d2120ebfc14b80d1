SPECIFICATION SearchSpec
CONSTANTS
  Requests = {r1, r2}
  Users = {u1, u2}
  Last = 3
  Limit = 2
  DetailConcurrency = 2
  CursorTTL = 1
  Disconnects = TRUE
  Horizon = 2
SYMMETRY Symmetry
INVARIANTS
  SearchIsAudited
  ChainIsWhole

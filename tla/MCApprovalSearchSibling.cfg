SPECIFICATION SearchSpec
CONSTANTS
  Requests = {r1}
  Users = {u1}
  Last = 2
  Limit = 2
  DetailConcurrency = 2
  CursorTTL = 1
  Disconnects = FALSE
  Horizon = 0
INVARIANT SiblingsAreNotAudited

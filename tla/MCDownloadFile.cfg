SPECIFICATION FileSpec
CONSTANTS
  Requests = {r1, r2}
  Users = {u1}
  Administrators = {}
  None = None
  Foreign = Foreign
  Limit = 1
  MaxBytes = 2
  Buffer = 2
  MaxSize = 3
SYMMETRY Symmetry
INVARIANTS
  NothingLeaks
  SentIsAudited
  CompleteIsWhole
  PublishedHasItsSize
PROPERTIES
  ImplementsDelivery

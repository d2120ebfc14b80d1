SPECIFICATION CatalogSpec
CONSTANTS
  Walkers = {w1, w2}
  Users = {u1, u2}
  Nobody = Nobody
  Templates = {1, 2}
  CacheTTL = 2
  LoadTimeout = 1
  CursorTTL = 1
  MaxEntries = 1
  MaxPages = 2
  PageSize = 1
  MaxChanges = 1
  Horizon = 3
SYMMETRY Symmetry
INVARIANTS
  CatalogTypeOK
  CatalogIsFresh
  ListingIsWhole
  LoadsOutliveRequests

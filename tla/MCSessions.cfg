SPECIFICATION SessionSpec
CONSTANTS
  SessionIds = {s1, s2, s3}
  Requests = {r1, r2}
  None = None
  AccessTTL = 1
  RefreshTTL = 2
  Retention = 0
  Horizon = 2
  Faults <- AnyFault
SYMMETRY Symmetry
INVARIANTS
  OneActivePerLine
  RefreshIsSound
  RevocationEndsLine
PROPERTIES
  ImplementsLine
  RefusedForAReason

SPECIFICATION ClientSpec
CONSTANTS
  SessionIds = {s1, s2, s3}
  Requests = {p1, p2, p3, p4}
  None = None
  AccessTTL = 1
  RefreshTTL = 3
  Retention = 1
  Horizon = 1
  Faults <- AnyFault
  ClientFaults <- AnyClientFault
SYMMETRY Symmetry
INVARIANTS
  LogoutIsFinal
  LogoutRemovesDeadTokens
PROPERTY FileMovesForward

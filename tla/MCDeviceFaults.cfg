SPECIFICATION Spec
CONSTANTS
  Devices = {d1}
  Confirmations = {k1, k2}
  Users = {u1, u2}
  Callbacks = {c1, c2}
  Polls = {p1, p2}
  None = None
  TTL = 2
  Retention = 0
  Horizon = 3
  Faults <- AnyFault
SYMMETRY Symmetry
INVARIANTS
  OneSessionPerDevice
  Inv
  OneBrowserPerDevice
  ExpiryIsFinal
  AnswersStand
PROPERTY ImplementsGrant

SPECIFICATION TokenSpec
CONSTANTS
  Callers = {c1, c2}
  Lifetimes = {1, 4}
  RefreshBefore = 2
  Backoff = 2
  MaxRefreshes = 3
  Horizon = 6
INVARIANTS
  TokenInv
  ServedTokensAreLive
PROPERTY WaitersAreAnswered

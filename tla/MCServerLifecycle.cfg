SPECIFICATION LifecycleSpec
CONSTANTS
  Requests = {r1, r2, r3}
INVARIANTS
  CleanExitCutsNothing
  PoolClosesLast
PROPERTY StopEndsTheProcess

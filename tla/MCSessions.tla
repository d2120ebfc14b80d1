----------------------------- MODULE MCSessions -----------------------------
(* Instances of Sessions for TLC.                                          *)
EXTENDS Sessions, TLC

Symmetry == Permutations(SessionIds) \cup Permutations(Requests)
AnyFault == AllFaults
=============================================================================

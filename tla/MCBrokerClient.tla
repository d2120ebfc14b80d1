--------------------------- MODULE MCBrokerClient ---------------------------
(* Instances of BrokerClient for TLC.                                      *)
EXTENDS BrokerClient, TLC

Symmetry == Permutations(SessionIds) \cup Permutations(Requests)
AnyFault == AllFaults
AnyClientFault == AllClientFaults
=============================================================================

--------------------------- MODULE MCApprovalSearch ---------------------------
(* Instances of ApprovalSearch for TLC.                                    *)
EXTENDS ApprovalSearch, TLC

Symmetry == Permutations(Requests) \cup Permutations(Users)
=============================================================================

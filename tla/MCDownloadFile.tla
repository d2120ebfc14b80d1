--------------------------- MODULE MCDownloadFile ---------------------------
(* Instances of DownloadFile for TLC.                                      *)
EXTENDS DownloadFile, TLC

Symmetry == Permutations(Requests)
=============================================================================

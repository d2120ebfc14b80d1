--------------------------- MODULE MCVisibleCatalog ---------------------------
(* An instance of VisibleCatalog for TLC: a cache for one of two users, pages *)
(* of one of two templates.                                                *)
EXTENDS VisibleCatalog, TLC

Symmetry == Permutations(Walkers) \cup Permutations(Users)
=============================================================================

--------------------------- MODULE MCAppTokenCache ---------------------------
(* An instance of AppTokenCache for TLC.  A lifetime of 1 is shorter than   *)
(* RefreshBefore and than Backoff, so a token is due at once; one of 4 is   *)
(* served first, then renewed, then expires.                               *)
EXTENDS AppTokenCache
=============================================================================

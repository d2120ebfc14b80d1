----------------------------- MODULE MCRateLimits -----------------------------
(* An instance of RateLimits for TLC: two clients of one IPv6 network, one of *)
(* another, and a trusted proxy.                                              *)
EXTENDS RateLimits, TLC

CONSTANTS a1, a2, b, p, garbage

MCAddresses == {a1, a2, b, p}
MCNetworkOf == [x \in MCAddresses |-> IF x = a2 THEN a1 ELSE x]
MCForgeries == {[hops |-> h, long |-> FALSE] : h \in {<< >>, <<b>>, <<garbage>>, <<p, p, p>>}}
                 \cup {[hops |-> <<garbage>>, long |-> TRUE]}

Symmetry == Permutations(Users)
=============================================================================

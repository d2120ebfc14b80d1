----------------------------- MODULE SessionLine -----------------------------
(***************************************************************************)
(* What the broker promises about the sessions that descend from a login:  *)
(* they follow one another, one at a time.  A login starts its line, a     *)
(* refresh replaces the current session by a fresh one, and once the line  *)
(* has ended (revoked, or expired and deleted) it never comes back.        *)
(* Module Sessions is shown to implement this specification.               *)
(***************************************************************************)
CONSTANT Sessions    \* sessions (a pair of tokens each); a line is named by its first

VARIABLES head,      \* head[l]: the current session of line l, a set of at most one
          started    \* lines ever started

lineVars == <<head, started>>

LInit == /\ head = [l \in Sessions |-> {}]
         /\ started = {}

Start(l) == /\ l \notin started
            /\ started' = started \cup {l}
            /\ head' = [head EXCEPT ![l] = {l}]

Renew(l, t) == /\ head[l] # {}
               /\ t \notin started /\ \A k \in Sessions : t \notin head[k]
               /\ head' = [head EXCEPT ![l] = {t}]
               /\ UNCHANGED started

\* The retention job ends a whole set of lines at once.
End(L) == /\ L \subseteq started
          /\ head' = [l \in Sessions |-> IF l \in L THEN {} ELSE head[l]]
          /\ UNCHANGED started

LNext == \/ \E l \in Sessions : Start(l) \/ \E t \in Sessions : Renew(l, t)
         \/ \E L \in SUBSET Sessions : End(L)

LSpec == LInit /\ [][LNext]_lineVars
=============================================================================

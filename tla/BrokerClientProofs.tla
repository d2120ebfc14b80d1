------------------------- MODULE BrokerClientProofs -------------------------
(***************************************************************************)
(* Proofs about Sessions and BrokerClient: the sessions table and the      *)
(* client processes, for any number of processes, token pairs and          *)
(* requests, any lifetimes, and any of the faults of client and broker.    *)
(*                                                                         *)
(* The first part is about Sessions alone.  Its invariant is shown for     *)
(* AnyStep, which allows every step of the clients of that module and of   *)
(* those of BrokerClient.  In the second part every step of a process is a *)
(* step AnyStep, so SessionInv is kept; what is added is who knows which   *)
(* tokens, and from when on a process holds dead ones.                     *)
(***************************************************************************)
EXTENDS BrokerClient, TLAPS

-----------------------------------------------------------------------------
(* The sessions table.                                                     *)

\* A login that answers its client in request slot r, or in none.
LoginAnswered(s) ==
  /\ Login(s)
  /\ \/ UNCHANGED req
     \/ \E r \in Requests : req' = [req EXCEPT ![r] = [NoRequest EXCEPT !.new = s]]

Arrival(r) ==
  \/ \E s \in SessionIds, op \in Ops : AccessArrives(r, s, op)
  \/ \E s \in SessionIds, t \in SessionIds : RefreshArrives(r, s, t)

AnyStep ==
  \/ ServerStep
  \/ \E s \in SessionIds : LoginAnswered(s)
  \/ \E r \in Requests : Arrival(r)

-----------------------------------------------------------------------------
(* What a step does to the table, whoever takes it.                        *)

\* A pair is drawn, at most.
Untouched == drawn \subseteq drawn' /\ UNCHANGED <<table, line, past, tx>>

Inserted(s) ==
  /\ s \notin drawn /\ drawn' = drawn \cup {s}
  /\ \E at \in 0..Horizon : /\ table' = [table EXCEPT ![s] = NewSession(at)]
                            /\ past' = [past EXCEPT ![s] = NewSession(at)]
  /\ line' = [line EXCEPT ![s] = s]
  /\ UNCHANGED tx

\* Session s is withdrawn, or replaced by t, by a request or by an open write.
Written(s, t) ==
  /\ UNCHANGED drawn
  /\ Active(s)
  /\ \E at \in 0..Horizon : Write(s, t, at)
  /\ \/ ~Locked(s) /\ UNCHANGED tx
     \/ Locked(s) /\ t = tx[s].next /\ tx' = [tx EXCEPT ![s] = NoTx]

Opened(s, t) ==
  /\ UNCHANGED <<drawn, table, line, past>>
  /\ Active(s) /\ ~Locked(s)
  /\ \E at \in 0..Horizon : tx' = [tx EXCEPT ![s] = [open |-> TRUE, at |-> at, next |-> t]]

Closed(s) == UNCHANGED <<drawn, table, line, past>> /\ tx' = [tx EXCEPT ![s] = NoTx]

Pruned ==
  /\ \A s \in Prunable : ~Locked(s)
  /\ table' = [s \in SessionIds |-> IF s \in Prunable THEN NoSession ELSE table[s]]
  /\ UNCHANGED <<drawn, line, past, tx>>

\* The writes of request r on its session, each of them once.
WrittenBy(r) ==
  /\ req'[r].pc # "rotate"
  /\ \/ req[r].pc = "revoke" /\ Written(req[r].on, None)
     \/ req[r].pc = "rotate" /\ Written(req[r].on, req[r].new)

OpenedBy(r) ==
  /\ req'[r].pc # "rotate"
  /\ \/ req[r].pc = "revoke" /\ Opened(req[r].on, None)
     \/ req[r].pc = "rotate" /\ Opened(req[r].on, req[r].new)

StoreStep ==
  \/ Untouched
  \/ \E s \in SessionIds : Inserted(s) \/ Closed(s)
  \/ \E s \in SessionIds : Locked(s) /\ Written(s, tx[s].next)
  \/ \E r \in Requests : WrittenBy(r) \/ OpenedBy(r)
  \/ Pruned

\* A request in flight works on a session, with a clock reading; a rotation has
\* drawn its replacement.
LEMMA InFlight ==
  ASSUME SessionInv, NEW r \in Requests
  PROVE  /\ req[r].pc \in {"authenticate", "rotate", "confirm", "revoke"} =>
              req[r].on \in SessionIds
         /\ req[r].pc \in {"rotate", "confirm"} =>
              req[r].op = "refresh" /\ req[r].new \in drawn /\ req[r].new \in SessionIds
         /\ req[r].at \in 0..Horizon
BY DEF SessionInv, TypeOK, RefreshesOK, RequestsOK, Request

\* A handler step of r moves the program counter of r only.
LEMMA HandlerMoves ==
  ASSUME SessionInv, NEW r \in Requests, HandlerStep(r)
  PROVE  /\ \A q \in Requests \ {r} : req'[q] = req[q]
         /\ req'[r].op = req[r].op /\ req'[r].on = req[r].on /\ req'[r].new = req[r].new
         /\ req'[r].pc \notin {"authenticate", "rotate"}
         /\ req'[r].pc = "confirm" => req[r].pc = "rotate"
         /\ req'[r].pc = "revoke" => req[r].pc = "authenticate"
         /\ req'[r].pc = "ok" =>
              \/ req[r].pc = "authenticate" /\ req[r].op # "revoke"
              \/ /\ req[r].pc = "revoke" /\ Active(req[r].on) /\ RevokeSession(r)
                 /\ Commit(req[r].on, None, req[r].at)
              \/ /\ req[r].pc = "rotate" /\ Active(req[r].on)
                 /\ Commit(req[r].on, req[r].new, req[r].at)
              \/ req[r].pc = "confirm" /\ Active(req[r].new) /\ UNCHANGED line
<1>0. req \in [Requests -> Request]
  BY DEF SessionInv, TypeOK
<1>1. ASSUME NEW pc, Goto(r, pc) \/ Answer(r, pc)
      PROVE  /\ \A q \in Requests \ {r} : req'[q] = req[q]
             /\ req'[r].op = req[r].op /\ req'[r].on = req[r].on /\ req'[r].new = req[r].new
             /\ req'[r].pc = pc
  BY <1>0, <1>1 DEF Goto, Answer, Request
<1>2. ASSUME req' = [req EXCEPT ![r] = [@ EXCEPT !.pc = "confirm"]]
      PROVE  /\ \A q \in Requests \ {r} : req'[q] = req[q]
             /\ req'[r].op = req[r].op /\ req'[r].on = req[r].on /\ req'[r].new = req[r].new
             /\ req'[r].pc = "confirm"
  BY <1>0, <1>2 DEF Request
<1>3. CASE Authenticate(r)
  BY <1>1, <1>3 DEF Authenticate
<1>4. CASE RevokeSession(r)
  BY <1>1, <1>4 DEF RevokeSession, Active
<1>5. CASE RevokeRefused(r) \/ RequestFails(r) \/ RotateRefused(r)
  BY <1>1, <1>5 DEF RevokeRefused, RequestFails, RotateRefused
<1>6. CASE RotateSession(r)
  BY <1>1, <1>2, <1>6 DEF RotateSession, CanRotate, Active
<1>7. CASE ConfirmRotation(r)
  BY <1>1, <1>7 DEF ConfirmRotation, Usable, Active
<1>8. QED
  BY <1>3, <1>4, <1>5, <1>6, <1>7 DEF HandlerStep

LEMMA StoreEffect == ASSUME SessionInv, AnyStep PROVE StoreStep
<1>1. ASSUME NEW s \in SessionIds, LoginAnswered(s) PROVE StoreStep
  <2>1. now \in 0..Horizon
    BY DEF SessionInv, TypeOK
  <2>2. Inserted(s)
    BY <1>1, <2>1 DEF LoginAnswered, Login, Inserted
  <2>3. QED
    BY <2>2 DEF StoreStep
<1>2. ASSUME NEW r \in Requests, Arrival(r) PROVE StoreStep
  <2>1. Untouched
    BY <1>2 DEF Arrival, AccessArrives, RefreshArrives, Untouched
  <2>2. QED
    BY <2>1 DEF StoreStep
<1>3. ASSUME NEW s \in SessionIds, WriteLands(s) PROVE StoreStep
  <2>1. Active(s)
    BY <1>3 DEF WriteLands, SessionInv, StoreOK
  <2>2. tx[s].at \in 0..Horizon
    BY DEF SessionInv, TypeOK, Tx
  <2>3. Locked(s) /\ Written(s, tx[s].next)
    BY <1>3, <2>1, <2>2 DEF WriteLands, Written
  <2>4. QED
    BY <2>3 DEF StoreStep
<1>4. ASSUME NEW s \in SessionIds, WriteLost(s) PROVE StoreStep
  BY <1>4 DEF WriteLost, Closed, StoreStep
<1>5. CASE Tick
  BY <1>5 DEF Tick, Untouched, StoreStep
<1>6. CASE Prune
  BY <1>6 DEF Prune, Pruned, StoreStep
<1>7. ASSUME NEW r \in Requests, RevokeSession(r) PROVE StoreStep
  <2>1. /\ req[r].pc = "revoke" /\ Active(req[r].on) /\ ~Locked(req[r].on)
        /\ req[r].at \in 0..Horizon /\ req'[r].pc # "rotate"
    BY <1>7, InFlight, HandlerMoves DEF RevokeSession, Active, HandlerStep
  <2>2. CASE Commit(req[r].on, None, req[r].at)
    <3>1. Written(req[r].on, None)
      BY <1>7, <2>1, <2>2 DEF RevokeSession, Commit, Written
    <3>2. QED
      BY <2>1, <3>1 DEF WrittenBy, StoreStep
  <2>3. CASE CommitUnknown(req[r].on, None, req[r].at)
    <3>1. Opened(req[r].on, None)
      BY <1>7, <2>1, <2>3 DEF RevokeSession, CommitUnknown, Opened
    <3>2. QED
      BY <2>1, <3>1 DEF OpenedBy, StoreStep
  <2>4. QED
    BY <1>7, <2>2, <2>3 DEF RevokeSession
<1>8. ASSUME NEW r \in Requests, RotateSession(r) PROVE StoreStep
  <2>1. /\ req[r].pc = "rotate" /\ Active(req[r].on) /\ ~Locked(req[r].on)
        /\ req[r].at \in 0..Horizon /\ req'[r].pc # "rotate"
    BY <1>8, InFlight, HandlerMoves DEF RotateSession, CanRotate, Active, HandlerStep
  <2>2. CASE Commit(req[r].on, req[r].new, req[r].at)
    <3>1. Written(req[r].on, req[r].new)
      BY <1>8, <2>1, <2>2 DEF RotateSession, Commit, Written
    <3>2. QED
      BY <2>1, <3>1 DEF WrittenBy, StoreStep
  <2>3. CASE CommitUnknown(req[r].on, req[r].new, req[r].at)
    <3>1. Opened(req[r].on, req[r].new)
      BY <1>8, <2>1, <2>3 DEF RotateSession, CommitUnknown, Opened
    <3>2. QED
      BY <2>1, <3>1 DEF OpenedBy, StoreStep
  <2>4. QED
    BY <1>8, <2>2, <2>3 DEF RotateSession
<1>9. ASSUME NEW r \in Requests,
             \/ Authenticate(r) \/ RevokeRefused(r) \/ RequestFails(r)
             \/ RotateRefused(r) \/ ConfirmRotation(r)
      PROVE  StoreStep
  BY <1>9 DEF Authenticate, RevokeRefused, RequestFails, RotateRefused, ConfirmRotation,
              Untouched, StoreStep
<1>10. QED
  BY <1>1, <1>2, <1>3, <1>4, <1>5, <1>6, <1>7, <1>8, <1>9
  DEF AnyStep, ServerStep, DatabaseStep, HandlerStep

\* The pair t is drawn, not inserted, and planned by the write on s only.
Fresh(s, t) ==
  t # None =>
    /\ t \in drawn /\ t \in SessionIds /\ line[t] = None
    /\ \A u \in SessionIds : Locked(u) /\ tx[u].next = t => u = s

\* The refresh that drew t, if it is still in flight, is the one it is written for.
Matches(s, t) ==
  \A q \in Requests : req[q].op = "refresh" /\ req[q].new = t =>
    /\ req[q].on = s
    /\ req[q].pc = "rotate" => req'[q].pc # "rotate"

\* The same, whoever writes.
StoreChange ==
  \/ Untouched
  \/ \E s \in SessionIds : Inserted(s) \/ Closed(s)
  \/ \E s \in SessionIds, t \in SessionIds \cup {None} :
       Fresh(s, t) /\ Matches(s, t) /\ (Written(s, t) \/ Opened(s, t))
  \/ Pruned

LEMMA StoreChanges == ASSUME SessionInv, StoreStep PROVE StoreChange
<1>1. ASSUME NEW s \in SessionIds, Locked(s), Written(s, tx[s].next) PROVE StoreChange
  <2>1. tx[s].next \in SessionIds \cup {None}
    BY DEF SessionInv, TypeOK, Tx
  <2>2. Fresh(s, tx[s].next) /\ Matches(s, tx[s].next)
    BY <1>1, <2>1 DEF SessionInv, StoreOK, RefreshesOK, Fresh, Matches
  <2>3. QED
    BY <1>1, <2>1, <2>2 DEF StoreChange
<1>2. ASSUME NEW r \in Requests, WrittenBy(r) \/ OpenedBy(r) PROVE StoreChange
  <2>1. req[r].on \in SessionIds
    BY <1>2, InFlight DEF WrittenBy, OpenedBy
  <2>2. CASE req[r].pc = "revoke"
    <3>1. Fresh(req[r].on, None) /\ Matches(req[r].on, None)
      BY SessionAssumption DEF Fresh, Matches, SessionInv, RefreshesOK, TypeOK
    <3>2. QED
      BY <1>2, <2>1, <2>2, <3>1 DEF WrittenBy, OpenedBy, StoreChange
  <2>3. CASE req[r].pc = "rotate"
    <3>1. Fresh(req[r].on, req[r].new) /\ req[r].new \in SessionIds
      BY <2>3, InFlight DEF Fresh, SessionInv, RefreshesOK
    <3>2. Matches(req[r].on, req[r].new)
      BY <1>2, <2>3, InFlight DEF Matches, WrittenBy, OpenedBy, SessionInv, RefreshesOK
    <3>3. QED
      BY <1>2, <2>1, <2>3, <3>1, <3>2 DEF WrittenBy, OpenedBy, StoreChange
  <2>4. QED
    BY <1>2, <2>2, <2>3 DEF WrittenBy, OpenedBy
<1>3. QED
  BY <1>1, <1>2 DEF StoreStep, StoreChange

\* A write, session by session.
LEMMA WriteEffect ==
  ASSUME SessionInv, NEW s \in SessionIds, NEW t \in SessionIds \cup {None},
         Fresh(s, t), Written(s, t)
  PROVE  /\ \A u \in SessionIds \ {s, t} : table'[u] = table[u] /\ line'[u] = line[u]
         /\ table'[s].status = "revoked" /\ line'[s] = line[s]
         /\ t # None => t # s /\ table'[t].status = "active" /\ line'[t] = line[s]
         /\ \A u \in SessionIds \ {s} : tx'[u] = tx[u]
         /\ tx'[s].open = FALSE
         /\ line[s] # None
<1>1. line[s] # None
  BY DEF Written, Active, SessionInv, StoreOK
<1>2. PICK at \in 0..Horizon : Write(s, t, at)
  BY DEF Written
<1>3. /\ \A u \in SessionIds \ {s} : tx'[u] = tx[u]
      /\ tx'[s].open = FALSE
  <2>1. tx[s].open \in BOOLEAN
    BY DEF SessionInv, TypeOK, Tx
  <2>2. QED
    BY <2>1 DEF Written, Locked, NoTx, SessionInv, TypeOK
<1>4. table[s] \in SessionRow
  BY DEF SessionInv, TypeOK
<1>5. Revoked(table[s], at).status = "revoked" /\ NewSession(at).status = "active"
  BY <1>4 DEF Revoked, NewSession, SessionRow
<1>6. CASE t = None
  BY <1>1, <1>2, <1>3, <1>5, <1>6 DEF Write, Withdraw, SessionInv, TypeOK
<1>7. CASE t # None
  <2>1. t \in SessionIds /\ t # s
    BY <1>1, <1>7 DEF Fresh
  <2>2. QED
    BY <1>1, <1>2, <1>3, <1>5, <1>7, <2>1 DEF Write, Replace, SessionInv, TypeOK
<1>8. QED
  BY <1>6, <1>7

\* What no step undoes: drawn pairs stay drawn, a session keeps its line, and
\* once it is no longer active it never is again.
Framed ==
  /\ drawn \subseteq drawn'
  /\ \A s \in SessionIds : line[s] # None =>
       line'[s] = line[s] /\ (table[s].status # "active" => table'[s].status # "active")

LEMMA StoreFrame == ASSUME SessionInv, StoreChange PROVE Framed
<1>1. CASE Untouched
  BY <1>1 DEF Untouched, Framed
<1>2. ASSUME NEW s \in SessionIds, Inserted(s) PROVE Framed
  <2>1. line[s] = None
    BY <1>2 DEF Inserted, SessionInv, StoreOK
  <2>2. QED
    BY <1>2, <2>1 DEF Inserted, Framed, SessionInv, TypeOK
<1>3. ASSUME NEW s \in SessionIds, Closed(s) PROVE Framed
  BY <1>3 DEF Closed, Framed
<1>4. ASSUME NEW s \in SessionIds, NEW t \in SessionIds \cup {None}, Fresh(s, t), Written(s, t)
      PROVE  Framed
  <2>1. t # None => line[t] = None
    BY <1>4 DEF Fresh
  <2>2. ASSUME NEW u \in SessionIds, line[u] # None
        PROVE  line'[u] = line[u] /\ (table[u].status # "active" => table'[u].status # "active")
    <3>1. u # t
      BY <2>1, <2>2, SessionAssumption
    <3>2. CASE u = s
      BY <1>4, <3>2, WriteEffect
    <3>3. CASE u # s
      <4>1. u \in SessionIds \ {s, t}
        BY <3>1, <3>3
      <4>2. table'[u] = table[u] /\ line'[u] = line[u]
        BY <1>4, <4>1, WriteEffect, ZenonT(40)
      <4>3. QED
        BY <4>2
    <3>4. QED
      BY <3>2, <3>3
  <2>3. QED
    BY <1>4, <2>2 DEF Framed, Written
<1>5. ASSUME NEW s \in SessionIds, NEW t \in SessionIds \cup {None}, Opened(s, t) PROVE Framed
  BY <1>5 DEF Opened, Framed
<1>6. CASE Pruned
  BY <1>6 DEF Pruned, Framed, NoSession
<1>7. QED
  BY <1>1, <1>2, <1>3, <1>4, <1>5, <1>6 DEF StoreChange

-----------------------------------------------------------------------------
(* The invariant of the table.                                             *)

LEMMA ActiveStep == ASSUME SessionInv, StoreChange PROVE OneActivePerLine'
<1> DEFINE Live(s) == table[s].status = "active"
<1>0. /\ \A s, u \in SessionIds : Live(s) /\ Live(u) /\ line[s] = line[u] => s = u
      /\ \A s \in SessionIds : Live(s) => line[s] # None
  BY DEF SessionInv, OneActivePerLine, StoreOK, Active
<1>1. SUFFICES ASSUME NEW u \in SessionIds, NEW v \in SessionIds,
                      table'[u].status = "active", table'[v].status = "active",
                      line'[u] = line'[v]
               PROVE  u = v
  BY <1>1 DEF OneActivePerLine, Active
<1>2. CASE UNCHANGED <<table, line>>
  BY <1>0, <1>1, <1>2
<1>3. ASSUME NEW s \in SessionIds, Inserted(s) PROVE u = v
  <2>1. /\ line[s] = None
        /\ \A w \in SessionIds : line[w] # s
    BY <1>3, SessionAssumption DEF Inserted, SessionInv, StoreOK, TypeOK
  <2>2. /\ \A w \in SessionIds \ {s} : table'[w] = table[w] /\ line'[w] = line[w]
        /\ line'[s] = s
    BY <1>3 DEF Inserted, SessionInv, TypeOK
  <2>3. QED
    BY <1>0, <1>1, <2>1, <2>2
<1>4. ASSUME NEW s \in SessionIds, NEW t \in SessionIds \cup {None}, Fresh(s, t), Written(s, t)
      PROVE  u = v
  <2>1. /\ \A w \in SessionIds \ {s, t} : table'[w] = table[w] /\ line'[w] = line[w]
        /\ table'[s].status # "active"
        /\ t # None => line'[t] = line[s]
    BY <1>4, WriteEffect
  <2>2. Live(s)
    BY <1>4 DEF Written, Active
  <2>3. u # s /\ v # s
    BY <1>1, <2>1
  <2>4. CASE u # t /\ v # t
    BY <1>0, <1>1, <2>1, <2>3, <2>4
  <2>5. CASE u = t /\ v # t
    BY <1>0, <1>1, <2>1, <2>2, <2>3, <2>5, SessionAssumption
  <2>6. CASE u # t /\ v = t
    BY <1>0, <1>1, <2>1, <2>2, <2>3, <2>6, SessionAssumption
  <2>7. QED
    BY <2>4, <2>5, <2>6
<1>5. CASE Pruned
  <2>1. \A w \in SessionIds : table'[w].status = "active" => table[w].status = "active"
    BY <1>5 DEF Pruned, NoSession
  <2>2. QED
    BY <1>0, <1>1, <1>5, <2>1 DEF Pruned
<1>6. QED
  BY <1>2, <1>3, <1>4, <1>5 DEF StoreChange, Untouched, Opened, Closed

LEMMA StoreOKStep == ASSUME SessionInv, StoreChange PROVE StoreOK'
<1> DEFINE RowOK(s) == /\ table[s].status # "absent" => line[s] # None
                       /\ line[s] # None => s \in drawn /\ line[line[s]] = line[s]
           LockOK(s) == Locked(s) =>
                          /\ table[s].status = "active"
                          /\ tx[s].next # None => tx[s].next \in drawn /\ line[tx[s].next] = None
           Apart(s, u) == Locked(s) /\ Locked(u) /\ tx[s].next # None /\ tx[s].next = tx[u].next
                            => s = u
<1>0. /\ \A s \in SessionIds : RowOK(s) /\ LockOK(s)
      /\ \A s, u \in SessionIds : Apart(s, u)
      /\ \A s \in SessionIds : line[s] # None => line[s] \in SessionIds
      /\ \A s \in SessionIds : tx[s].next # None => tx[s].next \in SessionIds
  BY DEF SessionInv, StoreOK, Active, TypeOK, Tx
<1>1. SUFFICES /\ \A s \in SessionIds : RowOK(s)' /\ LockOK(s)'
               /\ \A s, u \in SessionIds : Apart(s, u)'
  BY <1>1 DEF StoreOK, Active
<1>2. CASE Untouched
  BY <1>0, <1>2 DEF Untouched, Locked
<1>3. ASSUME NEW s \in SessionIds, Inserted(s)
      PROVE  /\ \A u \in SessionIds : RowOK(u)' /\ LockOK(u)'
             /\ \A u, v \in SessionIds : Apart(u, v)'
  <2>1. line[s] = None /\ ~Locked(s) /\ s # None
    BY <1>0, <1>3, SessionAssumption DEF Inserted
  <2>2. /\ \A w \in SessionIds \ {s} : table'[w] = table[w] /\ line'[w] = line[w]
        /\ line'[s] = s /\ s \in drawn' /\ drawn \subseteq drawn' /\ tx' = tx
        /\ table'[s].status = "active"
    BY <1>3 DEF Inserted, NewSession, SessionInv, TypeOK
  <2>3. ASSUME NEW u \in SessionIds PROVE RowOK(u)'
    BY <1>0, <2>1, <2>2
  <2>4. ASSUME NEW u \in SessionIds PROVE LockOK(u)'
    <3>1. Locked(u)' => Locked(u) /\ u # s
      BY <2>1, <2>2 DEF Locked
    <3>2. Locked(u) /\ tx[u].next # None => tx[u].next # s
      BY <1>0, <1>3 DEF Inserted
    <3>3. QED
      BY <1>0, <2>2, <3>1, <3>2
  <2>5. QED
    BY <1>0, <2>2, <2>3, <2>4 DEF Locked
<1>4. ASSUME NEW s \in SessionIds, Closed(s)
      PROVE  /\ \A u \in SessionIds : RowOK(u)' /\ LockOK(u)'
             /\ \A u, v \in SessionIds : Apart(u, v)'
  <2>1. \A u \in SessionIds : Locked(u)' => Locked(u) /\ tx'[u] = tx[u]
    BY <1>4 DEF Closed, Locked, NoTx, SessionInv, TypeOK, Tx
  <2>2. QED
    BY <1>0, <1>4, <2>1 DEF Closed
<1>5. ASSUME NEW s \in SessionIds, NEW t \in SessionIds \cup {None}, Fresh(s, t), Written(s, t)
      PROVE  /\ \A u \in SessionIds : RowOK(u)' /\ LockOK(u)'
             /\ \A u, v \in SessionIds : Apart(u, v)'
  <2>1. /\ \A u \in SessionIds \ {s, t} : table'[u] = table[u] /\ line'[u] = line[u]
        /\ line'[s] = line[s] /\ line[s] # None
        /\ t # None => t # s /\ table'[t].status = "active" /\ line'[t] = line[s]
        /\ \A u \in SessionIds \ {s} : tx'[u] = tx[u]
        /\ tx'[s].open = FALSE
    BY <1>5, WriteEffect
  <2>2. drawn' = drawn
    BY <1>5 DEF Written
  <2>3. t # None => t \in drawn /\ line[t] = None
    BY <1>5 DEF Fresh
  <2>4. \A u \in SessionIds : Locked(u)' => u # s /\ Locked(u) /\ tx'[u] = tx[u]
    BY <2>1 DEF Locked
  <2>5. \A u \in SessionIds : Locked(u)' => tx[u].next # t \/ t = None
    BY <1>5, <2>4 DEF Fresh
  <2>6. line'[line[s]] = line[s]
    BY <1>0, <2>1, <2>3
  <2>7. ASSUME NEW u \in SessionIds PROVE RowOK(u)'
    <3>1. CASE u = s
      BY <1>0, <2>1, <2>2, <2>6, <3>1
    <3>2. CASE u # s /\ u = t
      <4>1. t # None
        BY <3>2, SessionAssumption
      <4>2. line'[u] = line[s] /\ line'[line'[u]] = line'[u] /\ u \in drawn'
        BY <2>1, <2>2, <2>3, <2>6, <3>2, <4>1
      <4>3. QED
        BY <2>1, <4>2
    <3>3. CASE u # s /\ u # t
      <4>1. line[u] # None => line'[line[u]] = line[u]
        BY <1>0, <2>1, <2>3
      <4>2. QED
        BY <1>0, <2>1, <2>2, <3>3, <4>1
    <3>4. QED
      BY <3>1, <3>2, <3>3
  <2>8. ASSUME NEW u \in SessionIds PROVE LockOK(u)'
    <3>1. SUFFICES ASSUME Locked(u)'
                   PROVE  /\ table'[u].status = "active"
                          /\ tx'[u].next # None =>
                               tx'[u].next \in drawn' /\ line'[tx'[u].next] = None
      BY DEF Locked
    <3>2. u # s /\ Locked(u) /\ tx'[u] = tx[u]
      BY <2>4, <3>1
    <3>3. u # t
      BY <1>0, <2>3, <3>2, SessionAssumption
    <3>4. tx[u].next # None => tx[u].next # s /\ tx[u].next # t
      BY <1>0, <2>1, <2>5, <3>1, <3>2
    <3>5. QED
      BY <1>0, <2>1, <2>2, <3>2, <3>3, <3>4
  <2>9. ASSUME NEW u \in SessionIds, NEW v \in SessionIds PROVE Apart(u, v)'
    BY <1>0, <2>4 DEF Locked
  <2>10. QED
    BY <2>7, <2>8, <2>9
<1>6. ASSUME NEW s \in SessionIds, NEW t \in SessionIds \cup {None}, Fresh(s, t), Opened(s, t)
      PROVE  /\ \A u \in SessionIds : RowOK(u)' /\ LockOK(u)'
             /\ \A u, v \in SessionIds : Apart(u, v)'
  <2>1. /\ UNCHANGED <<drawn, table, line>>
        /\ \A u \in SessionIds \ {s} : tx'[u] = tx[u]
        /\ tx'[s].next = t
    BY <1>6 DEF Opened, SessionInv, TypeOK
  <2>2. table[s].status = "active" /\ ~Locked(s)
    BY <1>6 DEF Opened, Active
  <2>3. t # None => /\ t \in drawn /\ line[t] = None
                    /\ \A u \in SessionIds : Locked(u) => tx[u].next # t
    BY <1>6, <2>2 DEF Fresh
  <2>4. ASSUME NEW u \in SessionIds PROVE RowOK(u)' /\ LockOK(u)'
    <3>1. CASE u = s
      BY <1>0, <2>1, <2>2, <2>3, <3>1
    <3>2. CASE u # s
      BY <1>0, <2>1, <3>2 DEF Locked
    <3>3. QED
      BY <3>1, <3>2
  <2>5. ASSUME NEW u \in SessionIds, NEW v \in SessionIds PROVE Apart(u, v)'
    BY <1>0, <2>1, <2>2, <2>3 DEF Locked
  <2>6. QED
    BY <2>4, <2>5
<1>7. ASSUME Pruned
      PROVE  /\ \A u \in SessionIds : RowOK(u)' /\ LockOK(u)'
             /\ \A u, v \in SessionIds : Apart(u, v)'
  BY <1>0, <1>7 DEF Pruned, NoSession, Locked
<1>8. QED
  BY <1>2, <1>3, <1>4, <1>5, <1>6, <1>7 DEF StoreChange

-----------------------------------------------------------------------------
(* What a step does to the refreshes.                                      *)

\* Refresh q goes on: it does not start again, and it is told the truth.
GoesOn(q) ==
  /\ req[q].op = "refresh"
  /\ req'[q].on = req[q].on /\ req'[q].new = req[q].new
  /\ req'[q].pc = "rotate" => req[q].pc = "rotate"
  /\ req'[q].pc = "ok" => line'[req[q].new] # None

\* Refresh q has just arrived.
Arrived(q) ==
  /\ \E s \in SessionIds, t \in SessionIds : RefreshArrives(q, s, t)
  /\ req'[q].pc = "rotate"
  /\ req'[q].on \in SessionIds
  /\ req'[q].new \in SessionIds \ drawn /\ req'[q].new \in drawn'

LEMMA RefreshEffect ==
  ASSUME SessionInv, AnyStep, NEW q \in Requests, req'[q].op = "refresh"
  PROVE  GoesOn(q) \/ Arrived(q)
<1>0. req \in [Requests -> Request]
  BY DEF SessionInv, TypeOK
<1>1. ASSUME req[q].op = "refresh", req[q].pc = "ok"
      PROVE  line'[req[q].new] # None
  <2>1. req[q].new \in SessionIds /\ line[req[q].new] # None
    BY <1>1 DEF SessionInv, RefreshesOK, TypeOK
  <2>2. Framed
    BY StoreEffect, StoreChanges, StoreFrame
  <2>3. QED
    BY <2>1, <2>2 DEF Framed
<1>2. CASE req'[q] = req[q]
  BY <1>1, <1>2 DEF GoesOn
<1>3. CASE UNCHANGED req
  BY <1>2, <1>3
<1>4. ASSUME NEW s \in SessionIds, LoginAnswered(s) PROVE GoesOn(q)
  <2>1. ASSUME NEW r \in Requests, req' = [req EXCEPT ![r] = [NoRequest EXCEPT !.new = s]]
        PROVE  req'[q] = req[q]
    BY <1>0, <2>1 DEF NoRequest
  <2>2. QED
    BY <1>1, <1>4, <2>1 DEF LoginAnswered, GoesOn
<1>5. ASSUME NEW r \in Requests, NEW s \in SessionIds, NEW op \in Ops, AccessArrives(r, s, op)
      PROVE  GoesOn(q)
  <2>1. req'[q] = req[q]
    BY <1>0, <1>5 DEF AccessArrives
  <2>2. QED
    BY <1>1, <2>1 DEF GoesOn
<1>6. ASSUME NEW r \in Requests, NEW s \in SessionIds, NEW t \in SessionIds,
             RefreshArrives(r, s, t)
      PROVE  GoesOn(q) \/ Arrived(q)
  <2>1. CASE q = r
    BY <1>0, <1>6, <2>1 DEF RefreshArrives, Arrived
  <2>2. CASE q # r
    BY <1>0, <1>2, <1>6, <2>2 DEF RefreshArrives
  <2>3. QED
    BY <2>1, <2>2
<1>7. ASSUME NEW r \in Requests, HandlerStep(r) PROVE GoesOn(q)
  <2>1. CASE q # r
    BY <1>1, <1>7, <2>1, HandlerMoves DEF GoesOn
  <2>2. CASE q = r
    <3>1. req[q].op = "refresh" /\ req'[q].on = req[q].on /\ req'[q].new = req[q].new
      BY <1>7, <2>2, HandlerMoves
    <3>2. ASSUME req'[q].pc = "ok" PROVE line'[req[q].new] # None
      <4>1. req[q].pc \notin {"authenticate", "revoke"}
        BY <3>1 DEF SessionInv, RequestsOK
      <4>2. CASE /\ req[q].pc = "rotate" /\ Active(req[q].on)
                 /\ Commit(req[q].on, req[q].new, req[q].at)
        <5>1. req[q].on \in SessionIds /\ req[q].new \in SessionIds /\ req[q].new # None
          BY <4>2, InFlight, SessionAssumption
        <5>2. line[req[q].on] # None
          BY <4>2, <5>1 DEF SessionInv, StoreOK, Active
        <5>3. QED
          BY <4>2, <5>1, <5>2 DEF Commit, Write, Replace, SessionInv, TypeOK
      <4>3. CASE req[q].pc = "confirm" /\ Active(req[q].new) /\ UNCHANGED line
        BY <4>3, InFlight DEF SessionInv, StoreOK, Active
      <4>4. QED
        BY <1>7, <2>2, <3>2, <4>1, <4>2, <4>3, HandlerMoves
    <3>3. QED
      BY <1>7, <2>2, <3>1, <3>2, HandlerMoves DEF GoesOn
  <2>3. QED
    BY <2>1, <2>2
<1>8. QED
  BY <1>3, <1>4, <1>5, <1>6, <1>7
  DEF AnyStep, ServerStep, DatabaseStep, Tick, Prune, WriteLands, WriteLost, Arrival

\* One refresh, as RefreshesOK has it.
RefreshOK(r) ==
  /\ req[r].new \in drawn /\ req[r].on \in SessionIds
  /\ req[r].pc = "rotate" => line[req[r].new] = None
  /\ req[r].pc = "ok" => line[req[r].new] # None
  /\ line[req[r].new] # None =>
       line[req[r].new] = line[req[r].on] /\ table[req[r].on].status # "active"
  /\ \A s \in SessionIds : Locked(s) /\ tx[s].next = req[r].new =>
       s = req[r].on /\ req[r].pc # "rotate"

LEMMA OldRefresh ==
  ASSUME SessionInv, NEW q \in Requests, req[q].op = "refresh"
  PROVE  RefreshOK(q) /\ req[q].new \in SessionIds
BY DEF SessionInv, RefreshesOK, RefreshOK, Active, TypeOK

\* A refresh that has just arrived has a pair that no row and no write knows.
LEMMA ArrivedOK ==
  ASSUME SessionInv, NEW q \in Requests, Arrived(q)
  PROVE  RefreshOK(q)'
<1>1. /\ req'[q].pc = "rotate" /\ req'[q].on \in SessionIds
      /\ req'[q].new \in SessionIds \ drawn /\ req'[q].new \in drawn'
      /\ UNCHANGED <<table, line, tx>>
  BY DEF Arrived, RefreshArrives
<1>2. line[req'[q].new] = None
  BY <1>1 DEF SessionInv, StoreOK
<1>3. \A s \in SessionIds : Locked(s) => tx[s].next # req'[q].new
  BY <1>1, SessionAssumption DEF SessionInv, StoreOK
<1>4. QED
  BY <1>1, <1>2, <1>3 DEF RefreshOK, Locked

\* Steps that insert no drawn pair, and open no write.
Quiet ==
  /\ \A s \in drawn : line[s] = None => line'[s] = None
  /\ \A s \in SessionIds : Locked(s)' => Locked(s) /\ tx'[s] = tx[s]

LEMMA QuietOrWrites ==
  ASSUME SessionInv, StoreChange
  PROVE  \/ Quiet
         \/ \E s \in SessionIds, t \in SessionIds \cup {None} :
              Fresh(s, t) /\ Matches(s, t) /\ (Written(s, t) \/ Opened(s, t))
<1>0. /\ drawn \subseteq SessionIds /\ line \in [SessionIds -> SessionIds \cup {None}]
      /\ tx \in [SessionIds -> Tx]
  BY DEF SessionInv, TypeOK
<1>1. CASE Untouched \/ Pruned
  BY <1>1 DEF Untouched, Pruned, Quiet, Locked
<1>2. ASSUME NEW s \in SessionIds, Inserted(s) PROVE Quiet
  BY <1>0, <1>2 DEF Inserted, Quiet, Locked
<1>3. ASSUME NEW s \in SessionIds, Closed(s) PROVE Quiet
  BY <1>0, <1>3 DEF Closed, Quiet, Locked, NoTx, Tx
<1>4. QED
  BY <1>1, <1>2, <1>3 DEF StoreChange

LEMMA GoesOnOK ==
  ASSUME SessionInv, StoreChange, NEW q \in Requests, GoesOn(q)
  PROVE  RefreshOK(q)'
<1> DEFINE n == req[q].new
           o == req[q].on
<1>1. /\ n \in drawn /\ n \in SessionIds /\ o \in SessionIds
      /\ req[q].pc = "rotate" => line[n] = None
      /\ line[n] # None => line[n] = line[o] /\ table[o].status # "active"
      /\ \A s \in SessionIds : Locked(s) /\ tx[s].next = n => s = o /\ req[q].pc # "rotate"
  BY OldRefresh DEF RefreshOK, GoesOn
<1>2. /\ req'[q].on = o /\ req'[q].new = n
      /\ req'[q].pc = "rotate" => req[q].pc = "rotate"
      /\ req'[q].pc = "ok" => line'[n] # None
  BY DEF GoesOn
<1>3. /\ n \in drawn'
      /\ line[n] # None => line'[n] = line[n]
      /\ line[o] # None => /\ line'[o] = line[o]
                           /\ table[o].status # "active" => table'[o].status # "active"
  BY <1>1, StoreFrame DEF Framed
<1> HIDE DEF n, o
<1>4. SUFFICES /\ req'[q].pc = "rotate" => line'[n] = None
               /\ line'[n] # None => line'[n] = line'[o] /\ table'[o].status # "active"
               /\ \A s \in SessionIds : Locked(s)' /\ tx'[s].next = n =>
                    s = o /\ req'[q].pc # "rotate"
  BY <1>1, <1>2, <1>3, <1>4 DEF RefreshOK
<1>5. line[n] # None => line'[n] = line'[o] /\ table'[o].status # "active"
  BY <1>1, <1>3
<1>6. CASE Quiet
  BY <1>1, <1>2, <1>5, <1>6 DEF Quiet
<1>7. ASSUME NEW s \in SessionIds, NEW t \in SessionIds \cup {None},
             Fresh(s, t), Matches(s, t), Written(s, t)
      PROVE  /\ req'[q].pc = "rotate" => line'[n] = None
             /\ line'[n] # None => line'[n] = line'[o] /\ table'[o].status # "active"
             /\ \A u \in SessionIds : Locked(u)' /\ tx'[u].next = n =>
                  u = o /\ req'[q].pc # "rotate"
  <2>1. /\ \A u \in SessionIds \ {s, t} : line'[u] = line[u]
        /\ table'[s].status = "revoked" /\ line'[s] = line[s] /\ line[s] # None
        /\ t # None => line'[t] = line[s]
        /\ \A u \in SessionIds \ {s} : tx'[u] = tx[u]
        /\ tx'[s].open = FALSE
    BY <1>7, WriteEffect, ZenonT(40)
  <2>2. \A u \in SessionIds : Locked(u)' => Locked(u) /\ tx'[u] = tx[u]
    BY <2>1 DEF Locked
  <2>3. t = n => s = o /\ (req[q].pc = "rotate" => req'[q].pc # "rotate")
    BY <1>7 DEF Matches, GoesOn, n, o
  <2>4. CASE t = n
    BY <1>1, <1>2, <2>1, <2>2, <2>3, <2>4, SessionAssumption
  <2>5. CASE t # n
    BY <1>1, <1>2, <1>5, <2>1, <2>2, <2>5
  <2>6. QED
    BY <2>4, <2>5
<1>8. ASSUME NEW s \in SessionIds, NEW t \in SessionIds \cup {None},
             Fresh(s, t), Matches(s, t), Opened(s, t)
      PROVE  /\ req'[q].pc = "rotate" => line'[n] = None
             /\ line'[n] # None => line'[n] = line'[o] /\ table'[o].status # "active"
             /\ \A u \in SessionIds : Locked(u)' /\ tx'[u].next = n =>
                  u = o /\ req'[q].pc # "rotate"
  <2>1. /\ line' = line /\ \A u \in SessionIds \ {s} : tx'[u] = tx[u]
        /\ tx'[s].next = t
    BY <1>8 DEF Opened, SessionInv, TypeOK
  <2>2. t = n => s = o /\ (req[q].pc = "rotate" => req'[q].pc # "rotate")
    BY <1>8 DEF Matches, GoesOn, n, o
  <2>3. ASSUME NEW u \in SessionIds, Locked(u)', tx'[u].next = n
        PROVE  u = o /\ req'[q].pc # "rotate"
    <3>1. CASE u = s
      BY <1>2, <2>1, <2>2, <2>3, <3>1
    <3>2. CASE u # s
      BY <1>1, <1>2, <2>1, <2>3, <3>2 DEF Locked
    <3>3. QED
      BY <3>1, <3>2
  <2>4. QED
    BY <1>1, <1>2, <1>5, <2>1, <2>3
<1>9. QED
  BY <1>6, <1>7, <1>8, QuietOrWrites

\* Of the refreshes of a session at most one is inserted.
LEMMA PairOK ==
  ASSUME SessionInv, StoreChange, NEW q \in Requests, NEW r \in Requests,
         GoesOn(q), GoesOn(r)
  PROVE  /\ req[q].new = req[r].new => q = r
         /\ /\ req[q].on = req[r].on
            /\ line'[req[q].new] # None /\ line'[req[r].new] # None
            => q = r
<1>1. /\ req[q].new = req[r].new => q = r
      /\ req[q].on = req[r].on /\ line[req[q].new] # None /\ line[req[r].new] # None => q = r
  BY DEF GoesOn, SessionInv, RefreshesOK
<1>2. RefreshOK(q) /\ req[q].new \in SessionIds /\ RefreshOK(r) /\ req[r].new \in SessionIds
  BY OldRefresh DEF GoesOn
<1>3. CASE Quiet
  BY <1>1, <1>2, <1>3 DEF Quiet, RefreshOK
<1>4. ASSUME NEW s \in SessionIds, NEW t \in SessionIds \cup {None},
             Fresh(s, t), Matches(s, t), Written(s, t) \/ Opened(s, t),
             req[q].on = req[r].on, line'[req[q].new] # None, line'[req[r].new] # None
      PROVE  q = r
  <2>1. table[s].status = "active"
    BY <1>4 DEF Written, Opened, Active
  <2>2. ASSUME NEW x \in SessionIds, x # t, line'[x] # None PROVE line[x] # None
    <3>1. CASE Opened(s, t)
      BY <2>2, <3>1 DEF Opened
    <3>2. CASE Written(s, t)
      <4>0. Fresh(s, t) /\ Written(s, t)
        BY <1>4, <3>2
      <4>1. /\ \A u \in SessionIds \ {s, t} : line'[u] = line[u]
            /\ line'[s] = line[s]
        BY <4>0, WriteEffect, ZenonT(40)
      <4>2. CASE x = s
        BY <2>2, <4>1, <4>2
      <4>3. CASE x # s
        <5>1. x \in SessionIds \ {s, t}
          BY <2>2, <4>3
        <5>2. line'[x] = line[x]
          BY <4>1, <5>1
        <5>3. QED
          BY <2>2, <5>2
      <4>4. QED
        BY <4>2, <4>3
    <3>3. QED
      BY <1>4, <3>1, <3>2
  <2>3. /\ req[q].new = t => req[q].on = s
        /\ req[r].new = t => req[r].on = s
    BY <1>4 DEF Matches, GoesOn
  <2>4. QED
    BY <1>1, <1>2, <1>4, <2>1, <2>2, <2>3 DEF RefreshOK
<1>5. QED
  BY <1>1, <1>3, <1>4, QuietOrWrites

LEMMA RefreshesStep == ASSUME SessionInv, AnyStep PROVE RefreshesOK'
<1>0. StoreChange
  BY StoreEffect, StoreChanges
<1>1. ASSUME NEW q \in Requests, req'[q].op = "refresh" PROVE RefreshOK(q)'
  BY <1>0, <1>1, RefreshEffect, ArrivedOK, GoesOnOK
<1>2. ASSUME NEW q \in Requests, NEW r \in Requests,
             req'[q].op = "refresh", req'[r].op = "refresh"
      PROVE  /\ req'[q].new = req'[r].new => q = r
             /\ /\ req'[q].on = req'[r].on
                /\ line'[req'[q].new] # None /\ line'[req'[r].new] # None
                => q = r
  <2>1. \A p \in Requests : req'[p].op = "refresh" => GoesOn(p) \/ Arrived(p)
    BY RefreshEffect
  <2>2. CASE GoesOn(q) /\ GoesOn(r)
    BY <1>0, <2>2, PairOK DEF GoesOn
  <2>3. ASSUME NEW p \in Requests, Arrived(p)
        PROVE  /\ line'[req'[p].new] = None
               /\ \A x \in Requests \ {p} : req'[x] = req[x]
               /\ req'[p].new \notin drawn
    <3>1. line' = line /\ req'[p].new \in SessionIds \ drawn
      BY <2>3 DEF Arrived, RefreshArrives
    <3>2. \A x \in Requests \ {p} : req'[x] = req[x]
      BY <2>3 DEF Arrived, RefreshArrives, SessionInv, TypeOK
    <3>3. QED
      BY <3>1, <3>2 DEF SessionInv, StoreOK
  <2>4. ASSUME NEW x \in Requests, req[x].op = "refresh" PROVE req[x].new \in drawn
    BY <2>4 DEF SessionInv, RefreshesOK
  <2>5. CASE Arrived(q) \/ Arrived(r)
    BY <1>2, <2>3, <2>4, <2>5
  <2>6. QED
    BY <1>2, <2>1, <2>2, <2>5
<1>3. QED
  BY <1>1, <1>2 DEF RefreshesOK, RefreshOK, Active

-----------------------------------------------------------------------------
(* What a step does to the other requests, and the invariant.              *)

\* A revocation that was confirmed leaves its line without an active session,
\* and no step can bring one back: a session joins a line only in place of an
\* active one, or as the start of a line of its own.
LEMMA LineStaysEnded ==
  ASSUME SessionInv, StoreChange, NEW l \in SessionIds,
         \E s \in SessionIds : line[s] = l,
         \A s \in SessionIds : line[s] = l => table[s].status # "active"
  PROVE  \A s \in SessionIds : line'[s] = l => table'[s].status # "active"
<1>1. l \in drawn
  BY SessionAssumption DEF SessionInv, StoreOK
<1>2. CASE Untouched \/ \E s \in SessionIds : Closed(s)
  BY <1>2 DEF Untouched, Closed
<1>3. ASSUME NEW s \in SessionIds, Inserted(s), NEW u \in SessionIds, line'[u] = l
      PROVE  table'[u].status # "active"
  BY <1>1, <1>3 DEF Inserted, SessionInv, TypeOK
<1>4. ASSUME NEW s \in SessionIds, NEW t \in SessionIds \cup {None}, Fresh(s, t), Written(s, t),
             NEW u \in SessionIds, line'[u] = l
      PROVE  table'[u].status # "active"
  <2>1. /\ \A w \in SessionIds \ {s, t} : table'[w] = table[w] /\ line'[w] = line[w]
        /\ table'[s].status = "revoked" /\ line'[s] = line[s]
        /\ t # None => line'[t] = line[s]
    BY <1>4, WriteEffect, ZenonT(40)
  <2>2. table[s].status = "active"
    BY <1>4 DEF Written, Active
  <2>3. u # t
    BY <1>4, <2>1, <2>2, SessionAssumption
  <2>4. CASE u = s
    BY <2>1, <2>4
  <2>5. CASE u # s
    BY <1>4, <2>1, <2>3, <2>5
  <2>6. QED
    BY <2>4, <2>5
<1>5. ASSUME NEW s \in SessionIds, NEW t \in SessionIds \cup {None}, Opened(s, t)
      PROVE  \A u \in SessionIds : line'[u] = l => table'[u].status # "active"
  BY <1>5 DEF Opened
<1>6. CASE Pruned
  BY <1>6 DEF Pruned, NoSession
<1>7. QED
  BY <1>2, <1>3, <1>4, <1>5, <1>6 DEF StoreChange

\* One request, as RequestsOK has it.
RequestOK(r) ==
  /\ req[r].pc \in {"rotate", "confirm"} => req[r].op = "refresh"
  /\ req[r].pc \in {"authenticate", "revoke"} => req[r].op # "refresh"
  /\ req[r].pc \in {"authenticate", "revoke"} => req[r].on \in SessionIds
  /\ req[r].op = "revoke" /\ req[r].pc = "ok" =>
       /\ req[r].on \in SessionIds /\ line[req[r].on] # None
       /\ \A s \in SessionIds : line[s] = line[req[r].on] => table[s].status # "active"

\* A request that a step does not move.
LEMMA RequestKept ==
  ASSUME SessionInv, StoreChange, NEW r \in Requests, req'[r] = req[r]
  PROVE  RequestOK(r)'
<1>1. RequestOK(r)
  BY DEF SessionInv, RequestsOK, RequestOK, Active
<1>2. ASSUME req[r].op = "revoke", req[r].pc = "ok"
      PROVE  /\ req[r].on \in SessionIds /\ line'[req[r].on] # None
             /\ \A s \in SessionIds : line'[s] = line'[req[r].on] => table'[s].status # "active"
  <2>1. /\ req[r].on \in SessionIds /\ line[req[r].on] # None
        /\ \A s \in SessionIds : line[s] = line[req[r].on] => table[s].status # "active"
    BY <1>1, <1>2 DEF RequestOK
  <2>2. PICK l \in SessionIds : l = line[req[r].on]
    BY <2>1 DEF SessionInv, TypeOK
  <2>3. line'[req[r].on] = l
    BY <2>1, <2>2, StoreFrame DEF Framed
  <2>4. \A s \in SessionIds : line'[s] = l => table'[s].status # "active"
    BY <2>1, <2>2, LineStaysEnded
  <2>5. QED
    BY <2>1, <2>2, <2>3, <2>4, SessionAssumption
<1>3. QED
  BY <1>1, <1>2 DEF RequestOK

\* A revocation ends the line it finds active.
LEMMA RevocationOK ==
  ASSUME SessionInv, NEW r \in Requests, req[r].pc = "revoke", Active(req[r].on),
         RevokeSession(r), Commit(req[r].on, None, req[r].at)
  PROVE  /\ req[r].on \in SessionIds /\ line'[req[r].on] # None
         /\ \A s \in SessionIds : line'[s] = line'[req[r].on] => table'[s].status # "active"
<1>1. req[r].on \in SessionIds /\ line[req[r].on] # None
  BY InFlight DEF SessionInv, StoreOK, Active
<1>2. /\ line' = line
      /\ table' = [table EXCEPT ![req[r].on] = Revoked(table[req[r].on], req[r].at)]
  BY DEF Commit, Write, Withdraw
<1>3. table[req[r].on] \in SessionRow
  BY <1>1 DEF SessionInv, TypeOK
<1>4. table'[req[r].on].status = "revoked"
  BY <1>1, <1>2, <1>3 DEF Revoked, SessionRow, SessionInv, TypeOK
<1>5. ASSUME NEW s \in SessionIds, line[s] = line[req[r].on], s # req[r].on
      PROVE  table'[s].status # "active"
  BY <1>1, <1>2, <1>5 DEF SessionInv, OneActivePerLine, Active, TypeOK
<1>6. QED
  BY <1>1, <1>2, <1>4, <1>5

LEMMA RequestsStep == ASSUME SessionInv, AnyStep PROVE RequestsOK'
<1>0. StoreChange /\ req \in [Requests -> Request]
  BY StoreEffect, StoreChanges DEF SessionInv, TypeOK
<1>1. SUFFICES ASSUME NEW q \in Requests, req'[q] # req[q] PROVE RequestOK(q)'
  BY <1>0, <1>1, RequestKept DEF RequestsOK, RequestOK, Active
<1>2. ASSUME NEW s \in SessionIds, LoginAnswered(s) PROVE RequestOK(q)'
  BY <1>0, <1>1, <1>2 DEF LoginAnswered, NoRequest, RequestOK
<1>3. ASSUME NEW r \in Requests, NEW s \in SessionIds, NEW op \in Ops, AccessArrives(r, s, op)
      PROVE  RequestOK(q)'
  BY <1>0, <1>1, <1>3 DEF AccessArrives, RequestOK
<1>4. ASSUME NEW r \in Requests, NEW s \in SessionIds, NEW t \in SessionIds,
             RefreshArrives(r, s, t)
      PROVE  RequestOK(q)'
  BY <1>0, <1>1, <1>4 DEF RefreshArrives, RequestOK
<1>5. ASSUME NEW r \in Requests, HandlerStep(r) PROVE RequestOK(q)'
  <2>1. q = r
    BY <1>1, <1>5, HandlerMoves
  <2>2. /\ req'[q].op = req[q].op /\ req'[q].on = req[q].on
        /\ req'[q].pc \in {"rotate", "confirm"} => req[q].pc = "rotate"
        /\ req'[q].pc \in {"authenticate", "revoke"} => req[q].pc = "authenticate"
    BY <1>5, <2>1, HandlerMoves
  <2>3. RequestOK(q)
    BY DEF SessionInv, RequestsOK, RequestOK, Active
  <2>4. ASSUME req[q].op = "revoke", req'[q].pc = "ok"
        PROVE  /\ req[q].pc = "revoke" /\ Active(req[q].on) /\ RevokeSession(q)
               /\ Commit(req[q].on, None, req[q].at)
    BY <1>5, <2>1, <2>3, <2>4, HandlerMoves DEF RequestOK
  <2>5. ASSUME req[q].op = "revoke", req'[q].pc = "ok"
        PROVE  /\ req'[q].on \in SessionIds /\ line'[req'[q].on] # None
               /\ \A s \in SessionIds : line'[s] = line'[req'[q].on] => table'[s].status # "active"
    BY <2>2, <2>4, <2>5, RevocationOK
  <2>6. QED
    BY <2>2, <2>3, <2>5, InFlight DEF RequestOK
<1>6. QED
  BY <1>1, <1>2, <1>3, <1>4, <1>5
  DEF AnyStep, ServerStep, DatabaseStep, Tick, Prune, WriteLands, WriteLost, Arrival

-----------------------------------------------------------------------------
(* Types.                                                                  *)

LEMMA WriteType ==
  ASSUME TypeOK, NEW s \in SessionIds, NEW t \in SessionIds \cup {None}, NEW at \in 0..Horizon,
         Write(s, t, at)
  PROVE  /\ table' \in [SessionIds -> SessionRow] /\ past' \in [SessionIds -> SessionRow]
         /\ line' \in [SessionIds -> SessionIds \cup {None}]
<1>1. table[s] \in SessionRow
  BY DEF TypeOK
<1>2. Revoked(table[s], at) \in SessionRow /\ NewSession(at) \in SessionRow
  <2>1. at \in Times /\ at + AccessTTL \in Times /\ at + RefreshTTL \in Times /\ 0 \in Times
    BY SessionAssumption DEF Times
  <2>2. QED
    BY <1>1, <2>1 DEF Revoked, NewSession, SessionRow
<1>3. CASE t = None
  BY <1>2, <1>3 DEF Write, Withdraw, TypeOK
<1>4. CASE t # None
  BY <1>2, <1>4 DEF Write, Replace, TypeOK
<1>5. QED
  BY <1>3, <1>4

LEMMA TypeStore ==
  ASSUME SessionInv, StoreChange
  PROVE  /\ table' \in [SessionIds -> SessionRow] /\ past' \in [SessionIds -> SessionRow]
         /\ line' \in [SessionIds -> SessionIds \cup {None}]
         /\ tx' \in [SessionIds -> Tx]
<1>0. TypeOK
  BY DEF SessionInv
<1>1. NoTx \in Tx
  BY SessionAssumption DEF NoTx, Tx
<1>2. CASE Untouched
  BY <1>0, <1>2 DEF Untouched, TypeOK
<1>3. ASSUME NEW s \in SessionIds, Inserted(s)
      PROVE  /\ table' \in [SessionIds -> SessionRow] /\ past' \in [SessionIds -> SessionRow]
             /\ line' \in [SessionIds -> SessionIds \cup {None}]
             /\ tx' \in [SessionIds -> Tx]
  <2>1. PICK at \in 0..Horizon : /\ table' = [table EXCEPT ![s] = NewSession(at)]
                                 /\ past' = [past EXCEPT ![s] = NewSession(at)]
    BY <1>3 DEF Inserted
  <2>2. NewSession(at) \in SessionRow
    BY SessionAssumption DEF NewSession, SessionRow, Times
  <2>3. QED
    BY <1>0, <1>3, <2>1, <2>2 DEF Inserted, TypeOK
<1>4. ASSUME NEW s \in SessionIds, Closed(s)
      PROVE  /\ table' \in [SessionIds -> SessionRow] /\ past' \in [SessionIds -> SessionRow]
             /\ line' \in [SessionIds -> SessionIds \cup {None}]
             /\ tx' \in [SessionIds -> Tx]
  BY <1>0, <1>1, <1>4 DEF Closed, TypeOK
<1>5. ASSUME NEW s \in SessionIds, NEW t \in SessionIds \cup {None}, Written(s, t)
      PROVE  /\ table' \in [SessionIds -> SessionRow] /\ past' \in [SessionIds -> SessionRow]
             /\ line' \in [SessionIds -> SessionIds \cup {None}]
             /\ tx' \in [SessionIds -> Tx]
  <2>1. /\ table' \in [SessionIds -> SessionRow] /\ past' \in [SessionIds -> SessionRow]
        /\ line' \in [SessionIds -> SessionIds \cup {None}]
    BY <1>0, <1>5, WriteType DEF Written
  <2>2. tx' \in [SessionIds -> Tx]
    BY <1>0, <1>1, <1>5 DEF Written, TypeOK
  <2>3. QED
    BY <2>1, <2>2
<1>6. ASSUME NEW s \in SessionIds, NEW t \in SessionIds \cup {None}, Opened(s, t)
      PROVE  /\ table' \in [SessionIds -> SessionRow] /\ past' \in [SessionIds -> SessionRow]
             /\ line' \in [SessionIds -> SessionIds \cup {None}]
             /\ tx' \in [SessionIds -> Tx]
  BY <1>0, <1>6 DEF Opened, TypeOK, Tx
<1>7. CASE Pruned
  <2>1. NoSession \in SessionRow
    BY SessionAssumption DEF NoSession, SessionRow, Times
  <2>2. QED
    BY <1>0, <1>7, <2>1 DEF Pruned, TypeOK
<1>8. QED
  BY <1>2, <1>3, <1>4, <1>5, <1>6, <1>7 DEF StoreChange

LEMMA TypeStep == ASSUME SessionInv, AnyStep PROVE TypeOK'
<1>0. TypeOK
  BY DEF SessionInv
<1>1. /\ table' \in [SessionIds -> SessionRow] /\ past' \in [SessionIds -> SessionRow]
      /\ line' \in [SessionIds -> SessionIds \cup {None}]
      /\ tx' \in [SessionIds -> Tx]
  BY StoreEffect, StoreChanges, TypeStore
<1>2. SUFFICES now' \in 0..Horizon /\ drawn' \subseteq SessionIds /\ req' \in [Requests -> Request]
  BY <1>1, <1>2 DEF TypeOK
<1>3. ASSUME NEW s \in SessionIds, LoginAnswered(s)
      PROVE  now' \in 0..Horizon /\ drawn' \subseteq SessionIds /\ req' \in [Requests -> Request]
  <2>1. [NoRequest EXCEPT !.new = s] \in Request
    BY SessionAssumption DEF NoRequest, Request, Ops, Answers
  <2>2. QED
    BY <1>0, <1>3, <2>1 DEF LoginAnswered, Login, TypeOK
<1>4. ASSUME NEW r \in Requests, NEW s \in SessionIds, NEW op \in Ops, AccessArrives(r, s, op)
      PROVE  now' \in 0..Horizon /\ drawn' \subseteq SessionIds /\ req' \in [Requests -> Request]
  BY <1>0, <1>4 DEF AccessArrives, TypeOK, Request, Ops
<1>5. ASSUME NEW r \in Requests, NEW s \in SessionIds, NEW t \in SessionIds,
             RefreshArrives(r, s, t)
      PROVE  now' \in 0..Horizon /\ drawn' \subseteq SessionIds /\ req' \in [Requests -> Request]
  BY <1>0, <1>5 DEF RefreshArrives, TypeOK, Request, Ops
<1>6. CASE Tick
  BY <1>0, <1>6, SessionAssumption DEF Tick, TypeOK
<1>7. CASE DatabaseStep
  BY <1>0, <1>7 DEF DatabaseStep, Prune, WriteLands, WriteLost, TypeOK
<1>8. ASSUME NEW r \in Requests, HandlerStep(r)
      PROVE  now' \in 0..Horizon /\ drawn' \subseteq SessionIds /\ req' \in [Requests -> Request]
  <2>1. req[r] \in Request /\ now \in 0..Horizon /\ 0 \in 0..Horizon
    BY <1>0, SessionAssumption DEF TypeOK
  <2>2. \A pc \in {"revoke", "confirm"} \cup Answers :
          /\ [req[r] EXCEPT !.pc = pc, !.at = now] \in Request
          /\ [req[r] EXCEPT !.pc = pc, !.at = 0] \in Request
          /\ [req[r] EXCEPT !.pc = pc] \in Request
    BY <2>1 DEF Request
  <2>3. \A pc \in {"revoke", "confirm"} \cup Answers :
          \/ Goto(r, pc) \/ Answer(r, pc) \/ req' = [req EXCEPT ![r] = [@ EXCEPT !.pc = pc]]
          => req' \in [Requests -> Request]
    BY <1>0, <2>2 DEF Goto, Answer, TypeOK
  <2>4. UNCHANGED <<now, drawn>>
    BY <1>8 DEF HandlerStep, Authenticate, RevokeSession, RevokeRefused, RequestFails,
                RotateSession, RotateRefused, ConfirmRotation
  <2>5. \E pc \in {"revoke", "confirm"} \cup Answers :
          Goto(r, pc) \/ Answer(r, pc) \/ req' = [req EXCEPT ![r] = [@ EXCEPT !.pc = pc]]
    BY <1>8 DEF HandlerStep, Authenticate, RevokeSession, RevokeRefused, RequestFails,
                RotateSession, RotateRefused, ConfirmRotation, Answers
  <2>6. QED
    BY <1>0, <2>3, <2>4, <2>5 DEF TypeOK
<1>9. QED
  BY <1>3, <1>4, <1>5, <1>6, <1>7, <1>8 DEF AnyStep, ServerStep, Arrival

\* The clock goes forward, and requests read it.
LEMMA Readings ==
  ASSUME SessionInv, AnyStep
  PROVE  /\ now <= now'
         /\ \A r \in Requests : req'[r].at <= now'
<1>0. /\ now \in Nat /\ req \in [Requests -> Request]
      /\ \A r \in Requests : req[r] \in Request /\ req[r].at \in Nat /\ req[r].at <= now
  BY SessionAssumption DEF SessionInv, TypeOK, HistoryOK, Request
<1>1. ASSUME NEW r \in Requests, NEW v, req' = [req EXCEPT ![r] = v], v.at <= now, now' = now
      PROVE  now <= now' /\ \A q \in Requests : req'[q].at <= now'
  <2>1. \A q \in Requests : req'[q] = IF q = r THEN v ELSE req[q]
    BY <1>0, <1>1
  <2>2. QED
    BY <1>0, <1>1, <2>1
<1>2. CASE Tick \/ DatabaseStep
  <2>1. req' = req /\ now <= now' /\ now' \in Nat
    BY <1>0, <1>2 DEF Tick, DatabaseStep, Prune, WriteLands, WriteLost
  <2>2. QED
    BY <1>0, <2>1
<1>3. ASSUME NEW s \in SessionIds, LoginAnswered(s)
      PROVE  now <= now' /\ \A q \in Requests : req'[q].at <= now'
  <2>1. [NoRequest EXCEPT !.new = s].at <= now
    BY <1>0 DEF NoRequest
  <2>2. now' = now
    BY <1>3 DEF LoginAnswered, Login
  <2>3. CASE UNCHANGED req
    BY <1>0, <2>2, <2>3
  <2>4. CASE \E r \in Requests : req' = [req EXCEPT ![r] = [NoRequest EXCEPT !.new = s]]
    BY <1>1, <2>1, <2>2, <2>4
  <2>5. QED
    BY <1>3, <2>3, <2>4 DEF LoginAnswered
<1>4. ASSUME NEW r \in Requests, Arrival(r)
      PROVE  now <= now' /\ \A q \in Requests : req'[q].at <= now'
  BY <1>0, <1>1, <1>4 DEF Arrival, AccessArrives, RefreshArrives
<1>5. ASSUME NEW r \in Requests, HandlerStep(r)
      PROVE  now <= now' /\ \A q \in Requests : req'[q].at <= now'
  <2>1. now' = now
    BY <1>5 DEF HandlerStep, Authenticate, RevokeSession, RevokeRefused, RequestFails,
                RotateSession, RotateRefused, ConfirmRotation
  <2>2. \E pc \in {"revoke", "confirm"} \cup Answers :
          Goto(r, pc) \/ Answer(r, pc) \/ req' = [req EXCEPT ![r] = [@ EXCEPT !.pc = pc]]
    BY <1>5 DEF HandlerStep, Authenticate, RevokeSession, RevokeRefused, RequestFails,
                RotateSession, RotateRefused, ConfirmRotation, Answers
  <2>3. PICK pc \in {"revoke", "confirm"} \cup Answers :
          \/ req' = [req EXCEPT ![r] = [req[r] EXCEPT !.pc = pc, !.at = now]]
          \/ req' = [req EXCEPT ![r] = [req[r] EXCEPT !.pc = pc, !.at = 0]]
          \/ req' = [req EXCEPT ![r] = [req[r] EXCEPT !.pc = pc]]
    BY <2>2 DEF Goto, Answer
  <2>4. /\ [req[r] EXCEPT !.pc = pc, !.at = now].at <= now
        /\ [req[r] EXCEPT !.pc = pc, !.at = 0].at <= now
        /\ [req[r] EXCEPT !.pc = pc].at <= now
    BY <1>0 DEF Request
  <2>5. QED
    BY <1>1, <2>1, <2>3, <2>4
<1>6. QED
  BY <1>2, <1>3, <1>4, <1>5 DEF AnyStep, ServerStep

\* A write changes a row and its history alike.
LEMMA HistoryStep == ASSUME SessionInv, AnyStep PROVE HistoryOK'
<1> DEFINE Kept(s) == IF table'[s].status # "absent" THEN past'[s] = table'[s]
                      ELSE past'[s].status = "active" =>
                             past'[s].access <= now' /\ past'[s].refresh <= now'
<1>0. /\ TypeOK /\ HistoryOK /\ StoreChange /\ table' \in [SessionIds -> SessionRow]
      /\ now \in Nat /\ now' \in Nat /\ now <= now'
  <2>1. TypeOK /\ TypeOK'
    BY TypeStep DEF SessionInv
  <2>2. now \in Nat /\ now' \in Nat
    BY <2>1, SessionAssumption DEF TypeOK
  <2>3. QED
    BY <2>1, <2>2, Readings, StoreEffect, StoreChanges DEF SessionInv, TypeOK
<1>1. ASSUME NEW s \in SessionIds, table'[s] = table[s], past'[s] = past[s] PROVE Kept(s)
  <2>1. past[s].access \in Nat /\ past[s].refresh \in Nat
    BY <1>0, SessionAssumption DEF TypeOK, SessionRow, Times
  <2>2. QED
    BY <1>0, <1>1, <2>1 DEF HistoryOK
<1>2. ASSUME UNCHANGED <<table, past>>, NEW s \in SessionIds PROVE Kept(s)
  BY <1>1, <1>2
<1>3. ASSUME NEW s \in SessionIds, Inserted(s), NEW u \in SessionIds PROVE Kept(u)
  <2>1. PICK at \in 0..Horizon : /\ table' = [table EXCEPT ![s] = NewSession(at)]
                                 /\ past' = [past EXCEPT ![s] = NewSession(at)]
    BY <1>3 DEF Inserted
  <2>2. CASE u = s
    BY <1>0, <2>1, <2>2 DEF TypeOK, NewSession
  <2>3. CASE u # s
    BY <1>0, <1>1, <2>1, <2>3 DEF TypeOK
  <2>4. QED
    BY <2>2, <2>3
<1>4. ASSUME NEW s \in SessionIds, NEW t \in SessionIds \cup {None}, Written(s, t),
             NEW u \in SessionIds
      PROVE  Kept(u)
  <2>1. PICK at \in 0..Horizon : Write(s, t, at)
    BY <1>4 DEF Written
  <2>2. \/ table'[u] = table[u] /\ past'[u] = past[u]
        \/ table'[u] = past'[u] /\ table'[u] \in {Revoked(table[s], at), NewSession(at)}
    BY <1>0, <2>1 DEF Write, Withdraw, Replace, TypeOK
  <2>3. Revoked(table[s], at).status # "absent" /\ NewSession(at).status # "absent"
    BY <1>0 DEF TypeOK, Revoked, NewSession, SessionRow
  <2>4. QED
    BY <1>1, <2>2, <2>3
<1>5. ASSUME Pruned, NEW s \in SessionIds PROVE Kept(s)
  <2>1. CASE s \in Prunable
    <3>1. /\ table'[s].status = "absent" /\ past'[s] = past[s] /\ table[s] \in SessionRow
      BY <1>0, <1>5, <2>1 DEF Pruned, NoSession, TypeOK
    <3>2. table[s].status # "absent"
      BY <2>1 DEF Prunable
    <3>3. past[s] = table[s]
      BY <1>0, <3>2 DEF HistoryOK
    <3>4. table[s].status = "active" =>
            table[s].refresh + Retention < now /\ table[s].access + Retention < now
      BY <2>1 DEF Prunable
    <3>5. table[s].refresh \in Nat /\ table[s].access \in Nat /\ Retention \in Nat
      BY <3>1, SessionAssumption DEF SessionRow, Times
    <3>6. table[s].status = "active" => table[s].access <= now' /\ table[s].refresh <= now'
      BY <1>0, <3>4, <3>5
    <3>7. QED
      BY <3>1, <3>3, <3>6
  <2>2. CASE s \notin Prunable
    BY <1>0, <1>1, <1>5, <2>2 DEF Pruned, TypeOK
  <2>3. QED
    BY <2>1, <2>2
<1>6. \A s \in SessionIds : Kept(s)
  BY <1>0, <1>2, <1>3, <1>4, <1>5 DEF StoreChange, Untouched, Opened, Closed
<1>7. ASSUME NEW u \in SessionIds, line'[u] = None PROVE past'[u].status = "absent"
  <2>1. line[u] = None /\ past[u].status = "absent"
    BY <1>0, <1>7, StoreFrame DEF Framed, HistoryOK
  <2>2. ASSUME NEW s \in SessionIds, Inserted(s) PROVE past'[u] = past[u]
    <3>1. u # s
      BY <1>0, <1>7, <2>2, SessionAssumption DEF Inserted, TypeOK
    <3>2. QED
      BY <1>0, <2>2, <3>1 DEF Inserted, TypeOK
  <2>3. ASSUME NEW s \in SessionIds, NEW t \in SessionIds \cup {None}, Fresh(s, t), Written(s, t)
        PROVE  past'[u] = past[u]
    <3>1. line'[s] # None /\ (t # None => line'[t] # None)
      BY <2>3, WriteEffect, ZenonT(60)
    <3>2. u # s /\ u # t
      BY <1>7, <3>1, SessionAssumption
    <3>3. QED
      BY <1>0, <2>3, <3>2 DEF Written, Write, Withdraw, Replace, TypeOK
  <2>4. QED
    BY <1>0, <2>1, <2>2, <2>3 DEF StoreChange, Untouched, Opened, Closed, Pruned
<1>8. QED
  BY <1>6, <1>7, Readings DEF HistoryOK

-----------------------------------------------------------------------------
(* The theorems.                                                           *)

LEMMA InitInv == SessionInit => SessionInv
<1> SUFFICES ASSUME SessionInit PROVE SessionInv
  OBVIOUS
<1>1. TypeOK
  <2>1. NoSession \in SessionRow /\ NoTx \in Tx /\ NoRequest \in Request /\ 0 \in 0..Horizon
    BY SessionAssumption DEF NoSession, SessionRow, Times, NoTx, Tx, NoRequest, Request, Ops, Answers
  <2>2. QED
    BY <2>1 DEF SessionInit, TypeOK
<1>2. StoreOK /\ RefreshesOK /\ RequestsOK /\ OneActivePerLine /\ HistoryOK
  BY DEF SessionInit, StoreOK, RefreshesOK, RequestsOK, OneActivePerLine, HistoryOK, Active,
         Locked, NoSession, NoTx, NoRequest
<1>3. QED
  BY <1>1, <1>2 DEF SessionInv

\* The invariant is kept by the steps of this module and of BrokerClient.
LEMMA AnyStepInv == SessionInv /\ (AnyStep \/ UNCHANGED sessionVars) => SessionInv'
<1>1. CASE SessionInv /\ AnyStep
  BY <1>1, StoreEffect, StoreChanges, TypeStep, StoreOKStep, RefreshesStep, RequestsStep, ActiveStep,
     HistoryStep, TypeStep
  DEF SessionInv
<1>2. CASE SessionInv /\ UNCHANGED sessionVars
  BY <1>2 DEF sessionVars, SessionInv, TypeOK, StoreOK, RefreshesOK, RequestsOK, OneActivePerLine,
              HistoryOK, Active, Locked
<1>3. QED
  BY <1>1, <1>2

LEMMA NextIsAnyStep == SessionInv /\ [SessionNext]_sessionVars => AnyStep \/ UNCHANGED sessionVars
<1>1. SessionInv => drawn \subseteq SessionIds
  BY DEF SessionInv, TypeOK
<1>2. QED
  BY <1>1 DEF SessionNext, ClientStep, SessionQuiescent, AnyStep, LoginAnswered, Arrival

\* The invariant of the sessions table holds in every reachable state.
THEOREM SessionInvariance == SessionSpec => []SessionInv
<1>1. SessionInv /\ [SessionNext]_sessionVars => SessionInv'
  BY NextIsAnyStep, AnyStepInv
<1>2. QED
  BY <1>1, InitInv, PTL DEF SessionSpec

\* However refreshes, retries, lost commits and revocations overlap, a login has
\* at most one active session.
THEOREM OneActiveSession == SessionSpec => []OneActivePerLine
<1>1. SessionInv => OneActivePerLine
  BY DEF SessionInv
<1>2. QED
  BY <1>1, SessionInvariance, PTL

\* A refresh token is good for one refresh, and its new tokens are stored.
THEOREM RefreshTokensAreUsedOnce == SessionSpec => []RefreshIsSound
<1>1. SessionInv => RefreshIsSound
  BY DEF SessionInv, RefreshesOK, RefreshIsSound, RefreshedOnce, RefreshedIsStored
<1>2. QED
  BY <1>1, SessionInvariance, PTL

\* A confirmed revocation ends every session of the login, for good.
THEOREM RevocationIsFinal == SessionSpec => []RevocationEndsLine
<1>1. SessionInv => RevocationEndsLine
  BY DEF SessionInv, StoreOK, RequestsOK, RevocationEndsLine
<1>2. QED
  BY <1>1, SessionInvariance, PTL

\* A handler refuses what has expired, or what was revoked or is not stored.
LEMMA RefusalHasAReason ==
  ASSUME SessionInv, NEW r \in Requests, HandlerStep(r), req'[r].pc = "unauthorized"
  PROVE  past[req[r].on].status # "active" \/ Deadline(r) <= now
<1> DEFINE s == req[r].on
<1>1. /\ s \in SessionIds /\ req[r].at <= now /\ req[r].at \in Nat /\ now \in Nat
      /\ table[s].status # "active" \/ (req[r].op # "refresh" /\ table[s].access <= req[r].at)
                                    \/ (req[r].op = "refresh" /\ table[s].refresh <= req[r].at)
  <2>1. req \in [Requests -> Request] /\ req[r] \in Request
    BY DEF SessionInv, TypeOK
  <2>2. ASSUME NEW pc, pc # "unauthorized",
               \/ Goto(r, pc) \/ Answer(r, pc) \/ req' = [req EXCEPT ![r] = [@ EXCEPT !.pc = pc]]
        PROVE  FALSE
    BY <2>1, <2>2 DEF Goto, Answer, Request
  <2>3. /\ s \in SessionIds /\ req[r].at <= now /\ req[r].at \in Nat /\ now \in Nat
        /\ table \in [SessionIds -> SessionRow]
    <3>1. req[r].pc \in {"authenticate", "rotate", "confirm", "revoke"}
      BY DEF HandlerStep, Authenticate, RevokeSession, RevokeRefused, RequestFails,
                  RotateSession, RotateRefused, ConfirmRotation
    <3>2. QED
      BY <3>1, InFlight, SessionAssumption DEF SessionInv, TypeOK, HistoryOK
  <2>4. table[s].access \in Nat /\ table[s].refresh \in Nat
    BY <2>3, SessionAssumption DEF SessionRow, Times
  <2>5. CASE Authenticate(r)
    <3>1. req[r].op # "refresh" /\ ~Usable(s, req[r].at)
      BY <2>2, <2>5 DEF Authenticate, SessionInv, RequestsOK
    <3>2. QED
      BY <2>3, <2>4, <3>1 DEF Usable
  <2>6. CASE RotateRefused(r)
    <3>1. req[r].op = "refresh" /\ ~CanRotate(s, req[r].at)
      BY <2>6 DEF RotateRefused, SessionInv, RequestsOK
    <3>2. QED
      BY <2>3, <2>4, <3>1 DEF CanRotate
  <2>7. CASE RevokeRefused(r)
    BY <2>3, <2>7 DEF RevokeRefused
  <2>8. CASE RevokeSession(r) \/ RequestFails(r) \/ RotateSession(r) \/ ConfirmRotation(r)
    BY <2>2, <2>8 DEF RevokeSession, RequestFails, RotateSession, ConfirmRotation
  <2>9. QED
    BY <2>5, <2>6, <2>7, <2>8 DEF HandlerStep
<1>2. /\ table[s].status # "absent" => past[s] = table[s]
      /\ table[s].status = "absent" /\ past[s].status = "active" =>
           past[s].access <= now /\ past[s].refresh <= now
  BY <1>1 DEF SessionInv, HistoryOK
<1>3. table \in [SessionIds -> SessionRow] /\ table[s].access \in Nat /\ table[s].refresh \in Nat
  BY <1>1, SessionAssumption DEF SessionInv, TypeOK, SessionRow, Times
<1>4. QED
  BY <1>1, <1>2, <1>3 DEF Deadline

\* A token is refused only when it has expired, or when its session was revoked or
\* is not stored: the retention job deletes nothing a client could still use.
THEOREM RefusalsHaveAReason == SessionSpec => RefusedForAReason
<1> DEFINE Reason == \A r \in Requests :
                       req'[r].pc = "unauthorized" /\ req[r].pc # "unauthorized" =>
                         past[req[r].on].status # "active" \/ Deadline(r) <= now
<1>1. SessionInv /\ [SessionNext]_sessionVars => Reason \/ UNCHANGED sessionVars
  <2>1. SUFFICES ASSUME SessionInv, SessionNext, NEW r \in Requests,
                        req'[r].pc = "unauthorized", req[r].pc # "unauthorized"
                 PROVE  past[req[r].on].status # "active" \/ Deadline(r) <= now
    OBVIOUS
  <2>2. req \in [Requests -> Request]
    BY <2>1 DEF SessionInv, TypeOK
  <2>3. HandlerStep(r)
    <3>1. ASSUME UNCHANGED req PROVE FALSE
      BY <2>1, <3>1
    <3>2. ASSUME NEW q \in Requests, NEW v, req' = [req EXCEPT ![q] = v], v.pc # "unauthorized"
          PROVE  FALSE
      BY <2>1, <2>2, <3>2
    <3>3. CASE ClientStep
      <4>1. ASSUME NEW q \in Requests, NEW u, NEW op, AccessArrives(q, u, op) PROVE FALSE
        <5>1. [pc |-> "authenticate", op |-> op, on |-> u, new |-> None, at |-> now].pc
                # "unauthorized"
          OBVIOUS
        <5>2. QED
          BY <3>2, <4>1, <5>1 DEF AccessArrives
      <4>2. ASSUME NEW q \in Requests, NEW u, NEW t, RefreshArrives(q, u, t) PROVE FALSE
        <5>1. [pc |-> "rotate", op |-> "refresh", on |-> u, new |-> t, at |-> now].pc
                # "unauthorized"
          OBVIOUS
        <5>2. QED
          BY <3>2, <4>2, <5>1 DEF RefreshArrives
      <4>3. QED
        BY <3>1, <3>3, <4>1, <4>2 DEF ClientStep
    <3>4. CASE Tick \/ DatabaseStep \/ SessionQuiescent
      BY <3>1, <3>4
      DEF Tick, DatabaseStep, Prune, WriteLands, WriteLost, SessionQuiescent, sessionVars
    <3>5. ASSUME NEW q \in Requests, HandlerStep(q) PROVE q = r
      BY <2>1, <3>5, HandlerMoves
    <3>6. QED
      BY <2>1, <3>3, <3>4, <3>5 DEF SessionNext, ServerStep
  <2>4. QED
    BY <2>1, <2>3, RefusalHasAReason
<1>2. QED
  BY <1>1, SessionInvariance, PTL DEF SessionSpec, RefusedForAReason

-----------------------------------------------------------------------------
(* Refinement: the active sessions of the lines behave as SessionLine says. *)

Live(s) == table[s].status = "active"

LEMMA HeadBar ==
  /\ headBar \in [SessionIds -> SUBSET SessionIds]
  /\ \A l \in SessionIds : headBar[l] = {s \in SessionIds : Live(s) /\ line[s] = l}
BY DEF headBar, Active, Live

LEMMA HeadBarNext ==
  /\ headBar' = [l \in SessionIds |-> headBar'[l]]
  /\ \A l \in SessionIds : headBar'[l] = {s \in SessionIds : Live(s)' /\ line'[s] = l}
BY DEF headBar, Active, Live

LEMMA LineStep ==
  ASSUME SessionInv, StoreChange
  PROVE  [Line!LNext]_(Line!lineVars)
<1> DEFINE started == {s \in SessionIds : line[s] = s}
<1>0. /\ line \in [SessionIds -> SessionIds \cup {None}] /\ tx \in [SessionIds -> Tx]
      /\ table \in [SessionIds -> SessionRow] /\ drawn \subseteq SessionIds
      /\ \A s \in SessionIds : Live(s) => line[s] # None
      /\ \A s \in SessionIds : line[s] # None => s \in drawn /\ line[s] \in SessionIds /\ line[line[s]] = line[s]
      /\ \A s, t \in SessionIds : Live(s) /\ Live(t) /\ line[s] = line[t] => s = t
  BY DEF SessionInv, TypeOK, StoreOK, OneActivePerLine, Active, Live
<1>1. CASE UNCHANGED <<table, line>>
  <2>1. UNCHANGED <<headBar, started>>
    BY <1>1 DEF headBar, Active
  <2>2. QED
    BY <2>1 DEF Line!lineVars
<1>2. ASSUME NEW s \in SessionIds, Inserted(s) PROVE Line!Start(s)
  <2>1. /\ s \notin drawn /\ line[s] = None /\ s # None
        /\ \A w \in SessionIds : line[w] # s
    BY <1>0, <1>2, SessionAssumption DEF Inserted
  <2>2. /\ \A w \in SessionIds \ {s} : table'[w] = table[w] /\ line'[w] = line[w]
        /\ line'[s] = s /\ table'[s].status = "active"
    BY <1>0, <1>2 DEF Inserted, NewSession
  <2>3. s \notin started /\ started' = started \cup {s}
    BY <2>1, <2>2
  <2>4. ASSUME NEW l \in SessionIds
        PROVE  headBar'[l] = IF l = s THEN {s} ELSE headBar[l]
    <3>1. \A w \in SessionIds : Live(w)' /\ line'[w] = l <=>
            IF l = s THEN w = s ELSE Live(w) /\ line[w] = l
      BY <2>1, <2>2, SessionAssumption DEF Live
    <3>2. CASE l = s
      BY <3>1, <3>2, HeadBar, HeadBarNext
    <3>3. CASE l # s
      <4>1. {w \in SessionIds : Live(w)' /\ line'[w] = l} = {w \in SessionIds : Live(w) /\ line[w] = l}
        BY <3>1, <3>3
      <4>2. QED
        BY <3>3, <4>1, HeadBar, HeadBarNext
    <3>4. QED
      BY <3>2, <3>3
  <2>5. headBar' = [headBar EXCEPT ![s] = {s}]
    BY <2>4, HeadBar, HeadBarNext
  <2>6. QED
    BY <2>3, <2>5 DEF Line!Start
<1>3. ASSUME NEW s \in SessionIds, NEW t \in SessionIds \cup {None}, Fresh(s, t), Written(s, t)
      PROVE  Line!LNext
  <2>1. /\ \A u \in SessionIds \ {s, t} : table'[u] = table[u] /\ line'[u] = line[u]
        /\ table'[s].status = "revoked" /\ line'[s] = line[s] /\ line[s] # None
        /\ t # None => t # s /\ table'[t].status = "active" /\ line'[t] = line[s]
    BY <1>3, WriteEffect
  <2>2. Live(s)
    BY <1>3 DEF Written, Active, Live
  <2>3. PICK k \in SessionIds : k = line[s]
    BY <1>0, <2>1
  <2>4. CASE t = None
    <3>1. started' = started
      BY <2>1, <2>4, SessionAssumption
    <3>2. k \in started
      BY <1>0, <2>1, <2>3
    <3>3. ASSUME NEW l \in SessionIds
          PROVE  headBar'[l] = IF l \in {k} THEN {} ELSE headBar[l]
      <4>1. \A w \in SessionIds : Live(w)' /\ line'[w] = l <=>
              IF l \in {k} THEN FALSE ELSE Live(w) /\ line[w] = l
        BY <1>0, <2>1, <2>2, <2>3, <2>4, SessionAssumption DEF Live
      <4>2. QED
        BY <4>1, HeadBar, HeadBarNext, ZenonT(40)
    <3>4. headBar' = [l \in SessionIds |-> IF l \in {k} THEN {} ELSE headBar[l]]
      BY <3>3, HeadBarNext
    <3>5. Line!End({k})
      BY <3>1, <3>2, <3>4 DEF Line!End
    <3>6. QED
      BY <3>5 DEF Line!LNext
  <2>5. CASE t # None
    <3>1. t \in SessionIds /\ line[t] = None
      BY <1>3, <2>5 DEF Fresh
    <3>2. k # t
      BY <1>0, <2>1, <2>3, <3>1
    <3>3. started' = started
      BY <1>0, <2>1, <2>3, <2>5, <3>1, <3>2
    <3>4. ASSUME NEW l \in SessionIds
          PROVE  headBar'[l] = IF l = k THEN {t} ELSE headBar[l]
      <4>1. \A w \in SessionIds : Live(w)' /\ line'[w] = l <=>
              IF l = k THEN w = t ELSE Live(w) /\ line[w] = l
        BY <1>0, <2>1, <2>2, <2>3, <2>5, <3>1, SessionAssumption DEF Live
      <4>2. QED
        BY <3>1, <4>1, HeadBar, HeadBarNext
    <3>5. headBar' = [headBar EXCEPT ![k] = {t}]
      BY <3>4, HeadBar, HeadBarNext
    <3>6. headBar[k] # {} /\ t \notin started
      BY <2>2, <2>3, <3>1, HeadBar, SessionAssumption
    <3>7. \A l \in SessionIds : t \notin headBar[l]
      BY <1>0, <3>1, HeadBar
    <3>8. Line!Renew(k, t)
      BY <3>3, <3>5, <3>6, <3>7 DEF Line!Renew
    <3>9. QED
      BY <3>1, <3>8 DEF Line!LNext
  <2>6. QED
    BY <2>4, <2>5
<1>4. CASE Pruned
  <2> DEFINE L == {l \in SessionIds : \E s \in Prunable : Live(s) /\ line[s] = l}
  <2>1. L \subseteq started /\ L \in SUBSET SessionIds
    BY <1>0 DEF Prunable
  <2>2. started' = started
    BY <1>4 DEF Pruned
  <2>3. ASSUME NEW l \in SessionIds
        PROVE  headBar'[l] = IF l \in L THEN {} ELSE headBar[l]
    <3>1. \A w \in SessionIds : Live(w)' /\ line'[w] = l <=>
            IF l \in L THEN FALSE ELSE Live(w) /\ line[w] = l
      <4>1. \A w \in SessionIds : Live(w)' <=> Live(w) /\ w \notin Prunable
        BY <1>4 DEF Pruned, Live, NoSession
      <4>2. line' = line /\ Prunable \subseteq SessionIds
        BY <1>4 DEF Pruned, Prunable
      <4>3. QED
        BY <1>0, <4>1, <4>2
    <3>2. CASE l \in L
      <4>1. {w \in SessionIds : Live(w)' /\ line'[w] = l} = {}
        BY <3>1, <3>2
      <4>2. QED
        BY <3>2, <4>1, HeadBarNext
    <3>3. CASE l \notin L
      <4>1. {w \in SessionIds : Live(w)' /\ line'[w] = l} = {w \in SessionIds : Live(w) /\ line[w] = l}
        BY <3>1, <3>3
      <4>2. QED
        BY <3>3, <4>1, HeadBar, HeadBarNext
    <3>4. QED
      BY <3>2, <3>3
  <2>4. headBar' = [l \in SessionIds |-> IF l \in L THEN {} ELSE headBar[l]]
    BY <2>3, HeadBarNext
  <2>5. Line!End(L)
    BY <2>1, <2>2, <2>4 DEF Line!End
  <2>6. QED
    BY <2>1, <2>5 DEF Line!LNext
<1>5. QED
  BY <1>1, <1>2, <1>3, <1>4 DEF StoreChange, Untouched, Closed, Opened, Line!LNext

\* The sessions of a login follow one another as SessionLine says: each refresh
\* replaces the current one by a fresh one, and an ended line stays ended.
THEOREM LineRefinement == SessionSpec => ImplementsLine
<1>1. SessionInit => Line!LInit
  BY SessionAssumption DEF SessionInit, Line!LInit, headBar, Active, NoSession
<1>2. SessionInv /\ [SessionNext]_sessionVars => [Line!LNext]_(Line!lineVars)
  <2>1. ASSUME SessionInv, UNCHANGED sessionVars PROVE UNCHANGED Line!lineVars
    BY <2>1 DEF sessionVars, Line!lineVars, headBar, Active
  <2>2. QED
    BY <2>1, NextIsAnyStep, StoreEffect, StoreChanges, LineStep
<1>3. QED
  BY <1>1, <1>2, SessionInvariance, PTL DEF SessionSpec, ImplementsLine, Line!LSpec

-----------------------------------------------------------------------------
(* The client processes.                                                   *)

\* A process moves, and nothing else changes.
Moves(p, pc) ==
  /\ Step(p, pc)
  /\ UNCHANGED <<sessionVars, file>>

\* A process that moves to pc without a request or new credentials.
MayMove(p, pc) ==
  /\ pc \in {"checked", "load", "read", "refresh", "save", "recover", "delete"} \cup Done
  /\ pc # "loggedOut"
  /\ pc \in {"refresh", "recover"} => proc[p].creds # None
  /\ pc = "save" => proc[p].pc = "refreshing" /\ req[p].pc = "ok"
  /\ pc # "failed" => ~proc[p].revoked

LEMMA StepEffect ==
  ASSUME ClientInv, NEW p \in Requests, NEW pc, NEW s
  PROVE  /\ Step(p, pc) =>
              /\ \A q \in Requests \ {p} : proc'[q] = proc[q]
              /\ proc'[p].pc = pc /\ proc'[p].cmd = proc[p].cmd
              /\ proc'[p].creds = proc[p].creds /\ proc'[p].revoked = proc[p].revoked
         /\ StepWith(p, pc, s) =>
              /\ \A q \in Requests \ {p} : proc'[q] = proc[q]
              /\ proc'[p].pc = pc /\ proc'[p].cmd = proc[p].cmd
              /\ proc'[p].creds = s /\ proc'[p].revoked = proc[p].revoked
         /\ Succeed(p) /\ proc[p].cmd = "logout" =>
              /\ \A q \in Requests \ {p} : proc'[q] = proc[q]
              /\ proc'[p].pc = "delete" /\ proc'[p].cmd = proc[p].cmd
              /\ proc'[p].creds = proc[p].creds /\ proc'[p].revoked = TRUE
<1>1. proc \in [Requests -> Process]
  BY DEF ClientInv, ClientTypeOK
<1>2. ASSUME Step(p, pc)
      PROVE  /\ \A q \in Requests \ {p} : proc'[q] = proc[q]
             /\ proc'[p].pc = pc /\ proc'[p].cmd = proc[p].cmd
             /\ proc'[p].creds = proc[p].creds /\ proc'[p].revoked = proc[p].revoked
  BY <1>1, <1>2 DEF Step, Process
<1>3. ASSUME StepWith(p, pc, s)
      PROVE  /\ \A q \in Requests \ {p} : proc'[q] = proc[q]
             /\ proc'[p].pc = pc /\ proc'[p].cmd = proc[p].cmd
             /\ proc'[p].creds = s /\ proc'[p].revoked = proc[p].revoked
  BY <1>1, <1>3 DEF StepWith, Process
<1>4. ASSUME Succeed(p), proc[p].cmd = "logout"
      PROVE  /\ \A q \in Requests \ {p} : proc'[q] = proc[q]
             /\ proc'[p].pc = "delete" /\ proc'[p].cmd = proc[p].cmd
             /\ proc'[p].creds = proc[p].creds /\ proc'[p].revoked = TRUE
  <2> DEFINE r == [proc[p] EXCEPT !.pc = "delete", !.revoked = TRUE]
  <2>1. r.pc = "delete" /\ r.cmd = proc[p].cmd /\ r.creds = proc[p].creds /\ r.revoked = TRUE
    BY <1>1 DEF Process
  <2>2. proc' = [proc EXCEPT ![p] = r]
    BY <1>4 DEF Succeed
  <2> HIDE DEF r
  <2>3. proc'[p] = r /\ \A q \in Requests \ {p} : proc'[q] = proc[q]
    BY <1>1, <2>2
  <2>4. QED
    BY <2>1, <2>3
<1>5. QED
  BY <1>2, <1>3, <1>4

LEMMA StepType ==
  ASSUME ClientInv, NEW p \in Requests, NEW pc \in {"idle"} \cup Working \cup Done,
         NEW s \in SessionIds \cup {None}
  PROVE  Step(p, pc) \/ StepWith(p, pc, s) => proc' \in [Requests -> Process]
<1>1. proc \in [Requests -> Process]
  BY DEF ClientInv, ClientTypeOK
<1>2. Step(p, pc) => proc' \in [Requests -> Process]
  BY <1>1 DEF Step, Process
<1>3. StepWith(p, pc, s) => proc' \in [Requests -> Process]
  BY <1>1 DEF StepWith, Process
<1>4. QED
  BY <1>2, <1>3

-----------------------------------------------------------------------------
(* Steps that leave the broker alone.                                      *)

LEMMA SessionsKept == ASSUME SessionInv, UNCHANGED sessionVars PROVE SessionInv'
BY AnyStepInv

\* What a step must establish when the sessions and the requests stay as they are.
LEMMA MovesInv ==
  ASSUME ClientInv, NEW p \in Requests, NEW pc, Moves(p, pc), MayMove(p, pc)
  PROVE  ClientInv'
<1>0. SessionInv /\ SessionInv'
  BY SessionsKept DEF ClientInv, Moves
<1>1. /\ \A q \in Requests \ {p} : proc'[q] = proc[q]
      /\ proc'[p].pc = pc /\ proc'[p].cmd = proc[p].cmd
      /\ proc'[p].creds = proc[p].creds /\ proc'[p].revoked = proc[p].revoked
  BY StepEffect DEF Moves
<1>2. /\ UNCHANGED <<now, drawn, table, line, past, tx, req>> /\ file' = file
  BY DEF Moves, sessionVars
<1>3. ClientTypeOK'
  <2>1. pc \in {"idle"} \cup Working \cup Done
    BY DEF MayMove, Working
  <2>2. proc' \in [Requests -> Process]
    BY <2>1, StepType DEF Moves
  <2>3. QED
    BY <1>0, <1>2, <2>2 DEF ClientInv, ClientTypeOK, SessionInv
<1>4. KnownOK'
  BY <1>1, <1>2 DEF ClientInv, KnownOK
<1>5. \A q \in Requests : proc'[q].creds = proc[q].creds
  BY <1>1
<1>6. \A q \in Requests : Unsaved(q)' => Unsaved(q)
  BY <1>1 DEF MayMove, Unsaved, Done
<1>7. ProcessesOK'
  <2> SUFFICES ASSUME NEW q \in Requests
               PROVE ProcessesOK!(q)'
    BY DEF ProcessesOK
  <2>1. CASE q # p
    BY <1>1, <1>2, <2>1 DEF ClientInv, ProcessesOK, Free
  <2>2. CASE q = p
    <3>1. pc = "save" => Free(p) /\ line[req[p].new] # None
      <4>1. pc = "save" => req[p].op = "refresh" /\ req[p].pc = "ok"
        BY DEF MayMove, ClientInv, ProcessesOK
      <4>2. QED
        BY <1>0, <4>1 DEF SessionInv, RefreshesOK, Free, Answers
    <3>2. pc \notin {"send", "wait", "refreshing", "resend", "final"}
      BY DEF MayMove, Done
    <3>3. proc[p].revoked => req[p].op = "revoke" /\ req[p].pc = "ok" /\ req[p].on = proc[p].creds
      BY DEF ClientInv, ProcessesOK
    <3>4. QED
      BY <1>1, <1>2, <2>2, <3>1, <3>2, <3>3 DEF MayMove, Free
  <2>3. QED
    BY <2>1, <2>2
<1>8. UnsavedOK'
  BY <1>2, <1>5, <1>6 DEF ClientInv, UnsavedOK, Secret, Locked, Active
<1>9. LoggedOutOK'
  <2>1. \A q \in Requests : proc'[q].pc = "loggedOut" => proc'[q] = proc[q]
    BY <1>1 DEF MayMove
  <2>2. QED
    BY <1>2, <1>6, <2>1 DEF ClientInv, LoggedOutOK
<1>10. QED
  BY <1>0, <1>3, <1>4, <1>7, <1>8, <1>9 DEF ClientInv

\* A process takes over the session of the file.
LEMMA LoadsInv ==
  ASSUME ClientInv, NEW p \in Requests, NEW pc \in {"send", "resend"}, file # None,
         proc[p].pc \in {"read", "recover"}, StepWith(p, pc, file),
         UNCHANGED <<sessionVars, file>>
  PROVE  ClientInv'
<1>0. SessionInv /\ SessionInv'
  BY SessionsKept DEF ClientInv
<1>1. /\ \A q \in Requests \ {p} : proc'[q] = proc[q]
      /\ proc'[p].pc = pc /\ proc'[p].cmd = proc[p].cmd
      /\ proc'[p].creds = file /\ proc'[p].revoked = proc[p].revoked
  BY StepEffect
<1>2. UNCHANGED <<now, drawn, table, line, past, tx, req>> /\ file' = file
  BY DEF sessionVars
<1>3. ClientTypeOK'
  <2>1. file \in SessionIds \cup {None} /\ pc \in {"idle"} \cup Working \cup Done
    BY DEF ClientInv, ClientTypeOK, Working
  <2>2. proc' \in [Requests -> Process]
    BY <2>1, StepType
  <2>3. QED
    BY <1>0, <1>2, <2>1, <2>2 DEF ClientTypeOK, SessionInv
<1>4. KnownOK'
  BY <1>1, <1>2 DEF ClientInv, KnownOK
<1>5. \A q \in Requests : proc'[q].creds \in {proc[q].creds, file}
  BY <1>1
<1>6. \A q \in Requests : Unsaved(q)' => Unsaved(q)
  BY <1>1 DEF Unsaved
<1>7. ProcessesOK'
  <2> SUFFICES ASSUME NEW q \in Requests
               PROVE ProcessesOK!(q)'
    BY DEF ProcessesOK
  <2>1. CASE q # p
    BY <1>1, <1>2, <2>1 DEF ClientInv, ProcessesOK, Free
  <2>2. CASE q = p
    <3>1. ~proc[p].revoked
      BY DEF ClientInv, ProcessesOK
    <3>2. QED
      BY <1>1, <1>2, <2>2, <3>1
  <2>3. QED
    BY <2>1, <2>2
<1>8. UnsavedOK'
  BY <1>2, <1>5, <1>6 DEF ClientInv, UnsavedOK, Secret, Locked, Active
<1>9. LoggedOutOK'
  <2>1. \A q \in Requests : proc'[q].pc = "loggedOut" => proc'[q] = proc[q]
    BY <1>1
  <2>2. QED
    BY <1>2, <1>6, <2>1 DEF ClientInv, LoggedOutOK
<1>10. QED
  BY <1>0, <1>3, <1>4, <1>7, <1>8, <1>9 DEF ClientInv

LEMMA BeginInv ==
  ASSUME ClientInv, NEW p \in Requests, NEW cmd \in Commands, Begin(p, cmd)
  PROVE  ClientInv'
<1>0. SessionInv /\ SessionInv'
  BY SessionsKept DEF ClientInv, Begin
<1>1. PICK pc \in {"load", "check", "exchange"} :
        proc' = [proc EXCEPT ![p] = [@ EXCEPT !.cmd = cmd, !.pc = pc]]
  BY DEF Begin, Commands
<1>2. /\ proc' \in [Requests -> Process]
      /\ \A q \in Requests \ {p} : proc'[q] = proc[q]
      /\ proc'[p].pc = pc /\ proc'[p].cmd = cmd
      /\ proc'[p].creds = proc[p].creds /\ proc'[p].revoked = proc[p].revoked
  <2> DEFINE r == [proc[p] EXCEPT !.cmd = cmd, !.pc = pc]
  <2>0. proc \in [Requests -> Process]
    BY DEF ClientInv, ClientTypeOK
  <2>1. /\ r \in Process
        /\ r.pc = pc /\ r.cmd = cmd /\ r.creds = proc[p].creds /\ r.revoked = proc[p].revoked
    BY <2>0 DEF Process, Working
  <2>2. proc' = [proc EXCEPT ![p] = r]
    BY <1>1
  <2> HIDE DEF r
  <2>3. proc'[p] = r /\ (\A q \in Requests \ {p} : proc'[q] = proc[q]) /\ proc' \in [Requests -> Process]
    BY <2>0, <2>1, <2>2
  <2>4. QED
    BY <2>1, <2>3
<1>3. /\ UNCHANGED <<now, drawn, table, line, past, tx, req>> /\ file' = file
      /\ proc[p].pc = "idle"
  BY DEF Begin, sessionVars
<1>4. ClientTypeOK' /\ KnownOK'
  BY <1>0, <1>2, <1>3 DEF ClientInv, ClientTypeOK, KnownOK, SessionInv
<1>5. ProcessesOK'
  <2> SUFFICES ASSUME NEW q \in Requests
               PROVE ProcessesOK!(q)'
    BY DEF ProcessesOK
  <2>1. CASE q # p
    BY <1>2, <1>3, <2>1 DEF ClientInv, ProcessesOK, Free
  <2>2. CASE q = p
    <3>1. ~proc[p].revoked
      BY <1>3 DEF ClientInv, ProcessesOK
    <3>2. QED
      BY <1>2, <1>3, <2>2, <3>1
  <2>3. QED
    BY <2>1, <2>2
<1>6. \A q \in Requests : Unsaved(q)' => Unsaved(q)
  BY <1>2 DEF Unsaved
<1>7. UnsavedOK'
  <2>1. \A q \in Requests : proc'[q].creds = proc[q].creds
    BY <1>2
  <2>2. QED
    BY <1>3, <1>6, <2>1 DEF ClientInv, UnsavedOK, Secret, Locked, Active
<1>8. LoggedOutOK'
  <2>1. \A q \in Requests : proc'[q].pc = "loggedOut" => proc'[q] = proc[q]
    BY <1>2
  <2>2. QED
    BY <1>3, <1>6, <2>1 DEF ClientInv, LoggedOutOK
<1>9. QED
  BY <1>0, <1>4, <1>5, <1>7, <1>8 DEF ClientInv

\* The tokens in hand replace those of the file.  Nobody else held them, and no
\* other unsaved tokens are the same.
LEMMA SaveInv ==
  ASSUME ClientInv, NEW p \in Requests, Save(p)
  PROVE  ClientInv'
<1>0. SessionInv /\ SessionInv'
  BY SessionsKept DEF ClientInv, Save
<1>1. PICK pc \in {"ok", "resend"} : StepWith(p, pc, req[p].new)
  BY DEF Save
<1>2. /\ \A q \in Requests \ {p} : proc'[q] = proc[q]
      /\ proc'[p].pc = pc /\ proc'[p].cmd = proc[p].cmd
      /\ proc'[p].creds = req[p].new /\ proc'[p].revoked = proc[p].revoked
  BY <1>1, StepEffect
<1>3. /\ UNCHANGED <<now, drawn, table, line, past, tx, req>>
      /\ file' = req[p].new /\ proc[p].pc = "save"
  BY DEF Save, sessionVars
<1>4. /\ Unsaved(p) /\ req[p].new \in drawn /\ line[req[p].new] # None
      /\ req[p].new \in SessionIds
  BY <1>0, <1>3 DEF ClientInv, Unsaved, UnsavedOK, Secret, ProcessesOK, SessionInv, TypeOK
<1>5. ClientTypeOK'
  <2>1. pc \in {"idle"} \cup Working \cup Done
    BY DEF Working, Done
  <2>2. proc' \in [Requests -> Process]
    BY <1>1, <1>4, <2>1, StepType
  <2>3. QED
    BY <1>0, <1>3, <1>4, <2>2 DEF ClientTypeOK, SessionInv
<1>6. KnownOK'
  BY <1>2, <1>3, <1>4 DEF ClientInv, KnownOK
<1>7. ProcessesOK'
  <2> SUFFICES ASSUME NEW q \in Requests
               PROVE ProcessesOK!(q)'
    BY DEF ProcessesOK
  <2>1. CASE q # p
    BY <1>2, <1>3, <2>1 DEF ClientInv, ProcessesOK, Free
  <2>2. CASE q = p
    <3>1. ~proc[p].revoked
      BY <1>3 DEF ClientInv, ProcessesOK
    <3>2. req[p].new # None
      BY <1>4, SessionAssumption
    <3>3. QED
      BY <1>2, <1>3, <2>2, <3>1, <3>2
  <2>3. QED
    BY <2>1, <2>2
<1>8. \A q \in Requests : Unsaved(q)' => Unsaved(q) /\ q # p
  BY <1>2 DEF Unsaved
<1>9. UnsavedOK'
  <2>1. \A q \in Requests : proc'[q].creds \in {proc[q].creds, req[p].new}
    BY <1>2
  <2>2. \A q \in Requests : Unsaved(q) /\ q # p => req[q].new # req[p].new
    BY <1>4 DEF ClientInv, UnsavedOK
  <2>3. QED
    BY <1>3, <1>8, <2>1, <2>2 DEF ClientInv, UnsavedOK, Secret, Locked, Active
<1>10. LoggedOutOK'
  <2>1. \A q \in Requests : proc'[q].pc = "loggedOut" => proc'[q] = proc[q]
    BY <1>2
  <2>2. ASSUME NEW q \in Requests, proc[q].pc = "loggedOut", proc[q].revoked
        PROVE  line[req[p].new] # line[proc[q].creds]
    BY <1>4, <2>2 DEF ClientInv, LoggedOutOK, ProcessesOK
  <2>3. QED
    BY <1>3, <1>8, <2>1, <2>2 DEF ClientInv, LoggedOutOK
<1>11. QED
  BY <1>0, <1>5, <1>6, <1>7, <1>9, <1>10 DEF ClientInv

LEMMA DeleteInv ==
  ASSUME ClientInv, NEW p \in Requests, Delete(p)
  PROVE  ClientInv'
<1>0. SessionInv /\ SessionInv'
  BY SessionsKept DEF ClientInv, Delete
<1>1. /\ \A q \in Requests \ {p} : proc'[q] = proc[q]
      /\ proc'[p].pc = "loggedOut" /\ proc'[p].cmd = proc[p].cmd
      /\ proc'[p].creds = proc[p].creds /\ proc'[p].revoked = proc[p].revoked
  BY StepEffect DEF Delete
<1>2. UNCHANGED <<now, drawn, table, line, past, tx, req>> /\ file' = None /\ proc[p].pc = "delete"
  BY DEF Delete, sessionVars
<1>3. ClientTypeOK'
  <2>1. "loggedOut" \in {"idle"} \cup Working \cup Done
    BY DEF Done
  <2>2. proc' \in [Requests -> Process]
    BY <2>1, StepType DEF Delete
  <2>3. QED
    BY <1>0, <1>2, <2>2 DEF ClientTypeOK, SessionInv
<1>4. KnownOK'
  BY <1>1, <1>2 DEF ClientInv, KnownOK
<1>5. ProcessesOK'
  <2> SUFFICES ASSUME NEW q \in Requests
               PROVE ProcessesOK!(q)'
    BY DEF ProcessesOK
  <2>1. CASE q # p
    BY <1>1, <1>2, <2>1 DEF ClientInv, ProcessesOK, Free
  <2>2. CASE q = p
    <3>1. proc[p].revoked => req[p].op = "revoke" /\ req[p].pc = "ok" /\ req[p].on = proc[p].creds
      BY DEF ClientInv, ProcessesOK
    <3>2. QED
      BY <1>1, <1>2, <2>2, <3>1
  <2>3. QED
    BY <2>1, <2>2
<1>6. \A q \in Requests : Unsaved(q)' => Unsaved(q)
  BY <1>1 DEF Unsaved
<1>7. UnsavedOK'
  <2>1. \A q \in Requests : proc'[q].creds = proc[q].creds
    BY <1>1
  <2>2. \A q \in Requests : Unsaved(q) => req[q].new # None
    BY <1>0, SessionAssumption DEF ClientInv, UnsavedOK, Secret, SessionInv, TypeOK
  <2>3. QED
    BY <1>2, <1>6, <2>1, <2>2 DEF ClientInv, UnsavedOK, Secret, Locked, Active
<1>8. LoggedOutOK'
  BY <1>2, <1>6 DEF ClientInv, LoggedOutOK
<1>9. QED
  BY <1>0, <1>3, <1>4, <1>5, <1>7, <1>8 DEF ClientInv

\* A logout learns that its session is revoked.
LEMMA SucceedInv ==
  ASSUME ClientInv, NEW p \in Requests, proc[p].pc \in {"wait", "final"}, req[p].pc = "ok",
         Succeed(p), UNCHANGED <<sessionVars, file>>
  PROVE  ClientInv'
<1>1. CASE proc[p].cmd # "logout"
  <2>1. Moves(p, "ok")
    BY <1>1 DEF Succeed, Moves
  <2>2. MayMove(p, "ok")
    BY DEF MayMove, Done, ClientInv, ProcessesOK
  <2>3. QED
    BY <2>1, <2>2, MovesInv
<1>2. CASE proc[p].cmd = "logout"
  <2>0. SessionInv /\ SessionInv'
    BY SessionsKept DEF ClientInv
  <2>1. /\ \A q \in Requests \ {p} : proc'[q] = proc[q]
        /\ proc'[p].pc = "delete" /\ proc'[p].cmd = proc[p].cmd
        /\ proc'[p].creds = proc[p].creds /\ proc'[p].revoked = TRUE
    BY <1>2, StepEffect
  <2>2. UNCHANGED <<now, drawn, table, line, past, tx, req>> /\ file' = file
    BY DEF sessionVars
  <2>3. ClientTypeOK'
    <3> DEFINE r == [proc[p] EXCEPT !.pc = "delete", !.revoked = TRUE]
    <3>1. proc \in [Requests -> Process]
      BY DEF ClientInv, ClientTypeOK
    <3>2. r \in Process
      BY <3>1 DEF Process, Working
    <3>3. proc' = [proc EXCEPT ![p] = r]
      BY <1>2 DEF Succeed
    <3> HIDE DEF r
    <3>4. proc' \in [Requests -> Process]
      BY <3>1, <3>2, <3>3
    <3>5. QED
      BY <2>0, <2>2, <3>4 DEF ClientTypeOK, ClientInv, SessionInv
  <2>4. KnownOK'
    BY <2>1, <2>2 DEF ClientInv, KnownOK
  <2>5. ProcessesOK'
    <3> SUFFICES ASSUME NEW q \in Requests
                 PROVE ProcessesOK!(q)'
      BY DEF ProcessesOK
    <3>1. CASE q # p
      BY <2>1, <2>2, <3>1 DEF ClientInv, ProcessesOK, Free
    <3>2. CASE q = p
      <4>1. req[p].op = "revoke" /\ req[p].on = proc[p].creds
        BY <1>2 DEF ClientInv, ProcessesOK
      <4>2. QED
        BY <2>1, <2>2, <3>2, <4>1
    <3>3. QED
      BY <3>1, <3>2
  <2>6. \A q \in Requests : Unsaved(q)' => Unsaved(q)
    BY <2>1 DEF Unsaved
  <2>7. UnsavedOK'
    <3>1. \A q \in Requests : proc'[q].creds = proc[q].creds
      BY <2>1
    <3>2. QED
      BY <2>2, <2>6, <3>1 DEF ClientInv, UnsavedOK, Secret, Locked, Active
  <2>8. LoggedOutOK'
    <3>1. \A q \in Requests : proc'[q].pc = "loggedOut" => proc'[q] = proc[q]
      BY <2>1
    <3>2. QED
      BY <2>2, <2>6, <3>1 DEF ClientInv, LoggedOutOK
  <2>9. QED
    BY <2>0, <2>3, <2>4, <2>5, <2>7, <2>8 DEF ClientInv
<1>3. QED
  BY <1>1, <1>2

-----------------------------------------------------------------------------
(* Requests.                                                               *)

LEMMA SendInv ==
  ASSUME ClientInv, NEW p \in Requests, Send(p)
  PROVE  ClientInv'
<1>1. proc[p].creds \in drawn /\ proc[p].creds \in SessionIds
  BY DEF Send, ClientInv, ProcessesOK, KnownOK, SessionInv, TypeOK
<1>2. PICK op \in {"get", "revoke"} :
        /\ AccessArrives(p, proc[p].creds, op)
        /\ proc[p].cmd = "logout" => op = "revoke"
  BY DEF Send
<1>3. SessionInv /\ SessionInv'
  <2>1. AnyStep
    BY <1>1, <1>2 DEF AnyStep, Arrival, Ops
  <2>2. QED
    BY <2>1, AnyStepInv DEF ClientInv
<1>4. PICK pc \in {"wait", "final"} : Step(p, pc)
  BY DEF Send
<1>5. /\ \A q \in Requests \ {p} : proc'[q] = proc[q]
      /\ proc'[p].pc = pc /\ proc'[p].cmd = proc[p].cmd
      /\ proc'[p].creds = proc[p].creds /\ proc'[p].revoked = proc[p].revoked
  BY <1>4, StepEffect
<1>6. /\ \A q \in Requests \ {p} : req'[q] = req[q]
      /\ req'[p].pc = "authenticate" /\ req'[p].op = op /\ req'[p].on = proc[p].creds
      /\ UNCHANGED <<now, drawn, table, line, past, tx>> /\ file' = file
      /\ proc[p].pc \in {"send", "resend"}
  <2>1. req \in [Requests -> Request]
    BY <1>3 DEF SessionInv, TypeOK
  <2>2. QED
    BY <1>2, <2>1 DEF Send, AccessArrives
<1>7. ClientTypeOK'
  <2>1. pc \in {"idle"} \cup Working \cup Done
    BY DEF Working
  <2>2. proc' \in [Requests -> Process]
    BY <1>4, <2>1, StepType
  <2>3. QED
    BY <1>3, <1>6, <2>2 DEF ClientTypeOK, ClientInv, SessionInv
<1>8. KnownOK'
  BY <1>1, <1>5, <1>6 DEF ClientInv, KnownOK
<1>9. ~proc[p].revoked
  BY <1>6 DEF ClientInv, ProcessesOK
<1>10. ProcessesOK'
  <2> SUFFICES ASSUME NEW q \in Requests
               PROVE ProcessesOK!(q)'
    BY DEF ProcessesOK
  <2>1. CASE q # p
    BY <1>5, <1>6, <2>1 DEF ClientInv, ProcessesOK, Free
  <2>2. CASE q = p
    <3>1. proc[p].creds # None
      BY <1>6 DEF ClientInv, ProcessesOK
    <3>2. QED
      BY <1>2, <1>5, <1>6, <1>9, <2>2, <3>1
  <2>3. QED
    BY <2>1, <2>2
<1>11. \A q \in Requests : Unsaved(q)' => Unsaved(q) /\ req'[q] = req[q] /\ q # p
  BY <1>5, <1>6 DEF Unsaved
<1>12. UnsavedOK'
  <2>1. \A q \in Requests : proc'[q].creds = proc[q].creds
    BY <1>5
  <2>2. \A q \in Requests : req'[q].on \in {req[q].on, proc[q].creds}
    BY <1>6
  <2>3. QED
    BY <1>6, <1>11, <2>1, <2>2 DEF ClientInv, UnsavedOK, Secret, Locked, Active
<1>13. LoggedOutOK'
  <2>1. \A q \in Requests : proc'[q].pc = "loggedOut" => proc'[q] = proc[q]
    BY <1>5
  <2>2. \A q \in Requests : req'[q].pc = "ok" => req'[q] = req[q]
    BY <1>6
  <2>3. QED
    BY <1>6, <1>11, <2>1, <2>2 DEF ClientInv, LoggedOutOK
<1>14. QED
  BY <1>3, <1>7, <1>8, <1>10, <1>12, <1>13 DEF ClientInv

\* A fresh pair is in nobody's hands, in no line, and in no open write.
LEMMA FreshIsUnknown ==
  ASSUME ClientInv, NEW t \in SessionIds, t \notin drawn
  PROVE  /\ t # file /\ line[t] = None /\ ~Locked(t) /\ past[t].status = "absent"
         /\ \A q \in Requests : t # proc[q].creds /\ t # req[q].on
         /\ \A q \in Requests : Unsaved(q) => t # req[q].new
         /\ \A s \in SessionIds : line[s] # t
<1>1. SessionInv
  BY DEF ClientInv
<1>2. t # file /\ \A q \in Requests : t # proc[q].creds /\ t # req[q].on
  BY SessionAssumption DEF ClientInv, ClientTypeOK, KnownOK
<1>3. line[t] = None
  BY <1>1 DEF SessionInv, StoreOK
<1>4. ~Locked(t)
  BY <1>1, <1>3 DEF SessionInv, StoreOK, Active
<1>5. \A s \in SessionIds : line[s] # t
  BY <1>1, <1>3, SessionAssumption DEF SessionInv, StoreOK
<1>6. \A q \in Requests : Unsaved(q) => t # req[q].new
  BY DEF ClientInv, UnsavedOK, Secret
<1>7. past[t].status = "absent"
  BY <1>1, <1>3 DEF SessionInv, HistoryOK
<1>8. QED
  BY <1>2, <1>3, <1>4, <1>5, <1>6, <1>7

LEMMA RefreshInv ==
  ASSUME ClientInv, NEW p \in Requests, NEW t \in SessionIds, Refresh(p, t)
  PROVE  ClientInv'
<1>1. proc[p].creds \in drawn /\ proc[p].creds \in SessionIds /\ proc[p].creds # None
  BY DEF Refresh, ClientInv, ProcessesOK, KnownOK, SessionInv, TypeOK
<1>2. t \notin drawn
  BY DEF Refresh, RefreshArrives
<1>3. SessionInv /\ SessionInv'
  <2>1. AnyStep
    BY <1>1 DEF Refresh, AnyStep, Arrival
  <2>2. QED
    BY <2>1, AnyStepInv DEF ClientInv
<1>5. /\ \A q \in Requests \ {p} : proc'[q] = proc[q]
      /\ proc'[p].pc = "refreshing" /\ proc'[p].cmd = proc[p].cmd
      /\ proc'[p].creds = proc[p].creds /\ proc'[p].revoked = proc[p].revoked
  BY StepEffect DEF Refresh
<1>6. /\ \A q \in Requests \ {p} : req'[q] = req[q]
      /\ req'[p].pc = "rotate" /\ req'[p].op = "refresh" /\ req'[p].on = proc[p].creds
      /\ req'[p].new = t
      /\ UNCHANGED <<now, table, line, past, tx>> /\ file' = file /\ drawn' = drawn \cup {t}
      /\ proc[p].pc = "refresh"
  <2>1. req \in [Requests -> Request]
    BY <1>3 DEF SessionInv, TypeOK
  <2>2. QED
    BY <2>1 DEF Refresh, RefreshArrives
<1>7. ClientTypeOK'
  <2>1. "refreshing" \in {"idle"} \cup Working \cup Done
    BY DEF Working
  <2>2. proc' \in [Requests -> Process]
    BY <2>1, StepType DEF Refresh
  <2>3. QED
    BY <1>3, <1>6, <2>2 DEF ClientTypeOK, ClientInv, SessionInv
<1>8. KnownOK'
  BY <1>1, <1>5, <1>6 DEF ClientInv, KnownOK
<1>9. ~proc[p].revoked
  BY <1>6 DEF ClientInv, ProcessesOK
<1>10. ProcessesOK'
  <2> SUFFICES ASSUME NEW q \in Requests
               PROVE ProcessesOK!(q)'
    BY DEF ProcessesOK
  <2>1. CASE q # p
    BY <1>5, <1>6, <2>1 DEF ClientInv, ProcessesOK, Free
  <2>2. CASE q = p
    BY <1>1, <1>5, <1>6, <1>9, <2>2
  <2>3. QED
    BY <2>1, <2>2
<1>11. \A q \in Requests \ {p} : Unsaved(q)' => Unsaved(q) /\ req'[q] = req[q]
  BY <1>5, <1>6 DEF Unsaved
<1>12. UnsavedOK'
  <2>1. \A q \in Requests : proc'[q].creds = proc[q].creds
    BY <1>5
  <2>2. \A q \in Requests : req'[q].on \in {req[q].on, proc[q].creds}
    BY <1>6
  <2>3. ASSUME NEW q \in Requests, Unsaved(q)'
        PROVE  Secret(q)'
    <3>1. CASE q = p
      <4>1. \A u \in Requests : t # proc'[u].creds /\ t # req'[u].on
        BY <1>2, <2>1, <2>2, FreshIsUnknown
      <4>2. QED
        BY <1>2, <1>6, <3>1, <4>1, FreshIsUnknown DEF Secret, Locked
    <3>2. CASE q # p
      <4>1. Secret(q) /\ req'[q] = req[q]
        BY <1>11, <2>3, <3>2 DEF ClientInv, UnsavedOK
      <4>2. \A u \in Requests : req[q].new # proc'[u].creds /\ req[q].new # req'[u].on
        BY <2>1, <2>2, <4>1 DEF Secret
      <4>3. QED
        BY <1>6, <4>1, <4>2 DEF Secret, Locked, Active
    <3>3. QED
      BY <3>1, <3>2
  <2>4. ASSUME NEW q \in Requests, NEW r \in Requests, Unsaved(q)', Unsaved(r)',
               req'[q].new = req'[r].new
        PROVE  q = r
    BY <1>2, <1>6, <1>11, <2>4, FreshIsUnknown DEF ClientInv, UnsavedOK
  <2>5. QED
    BY <2>3, <2>4 DEF UnsavedOK
<1>13. LoggedOutOK'
  <2>1. \A q \in Requests : proc'[q].pc = "loggedOut" => proc'[q] = proc[q]
    BY <1>5
  <2>2. \A q \in Requests : req'[q].pc = "ok" => req'[q] = req[q]
    BY <1>6
  <2>3. \A q \in Requests : req[q].op = "revoke" /\ req[q].pc = "ok" => line[req[q].on] # None
    BY <1>3 DEF SessionInv, RequestsOK
  <2>4. line[t] = None
    BY <1>2, FreshIsUnknown
  <2>5. QED
    BY <1>6, <1>11, <2>1, <2>2, <2>3, <2>4 DEF ClientInv, LoggedOutOK
<1>14. QED
  BY <1>3, <1>7, <1>8, <1>10, <1>12, <1>13 DEF ClientInv

LEMMA ExchangeInv ==
  ASSUME ClientInv, NEW p \in Requests, NEW t \in SessionIds, Exchange(p, t)
  PROVE  ClientInv'
<1>2. t \notin drawn
  BY DEF Exchange, Login
<1>3. SessionInv /\ SessionInv'
  <2>1. AnyStep
    BY DEF Exchange, AnyStep, LoginAnswered
  <2>2. QED
    BY <2>1, AnyStepInv DEF ClientInv
<1>5. /\ \A q \in Requests \ {p} : proc'[q] = proc[q]
      /\ proc'[p].pc = "save" /\ proc'[p].cmd = proc[p].cmd
      /\ proc'[p].creds = proc[p].creds /\ proc'[p].revoked = proc[p].revoked
  BY StepEffect DEF Exchange
<1>6. /\ \A q \in Requests \ {p} : req'[q] = req[q]
      /\ req'[p].pc = "idle" /\ req'[p].op = "get" /\ req'[p].on = None
      /\ req'[p].new = t
      /\ UNCHANGED <<now, tx>> /\ file' = file /\ drawn' = drawn \cup {t}
      /\ proc[p].pc = "exchange"
  <2>1. req \in [Requests -> Request]
    BY <1>3 DEF SessionInv, TypeOK
  <2>2. QED
    BY <2>1 DEF Exchange, Login, NoRequest
<1>4. /\ \A s \in SessionIds \ {t} :
           line'[s] = line[s] /\ table'[s] = table[s] /\ past'[s] = past[s]
      /\ line'[t] = t /\ past'[t].status = "active"
  BY <1>3 DEF Exchange, Login, NewSession, SessionInv, TypeOK
<1>7. ClientTypeOK'
  <2>1. "save" \in {"idle"} \cup Working \cup Done
    BY DEF Working
  <2>2. proc' \in [Requests -> Process]
    BY <2>1, StepType DEF Exchange
  <2>3. QED
    BY <1>3, <1>6, <2>2 DEF ClientTypeOK, ClientInv, SessionInv
<1>8. KnownOK'
  <2>1. file # None => line'[file] = line[file]
    BY <1>2, <1>4 DEF ClientInv, ClientTypeOK, KnownOK
  <2>2. QED
    BY <1>5, <1>6, <2>1 DEF ClientInv, KnownOK
<1>9. ~proc[p].revoked
  BY <1>6 DEF ClientInv, ProcessesOK
<1>0. \A q \in Requests : Unsaved(q) =>
        /\ req[q].new \in SessionIds \ {t}
        /\ line'[req[q].new] = line[req[q].new] /\ table'[req[q].new] = table[req[q].new]
  <2>1. \A q \in Requests : Unsaved(q) => req[q].new \in SessionIds \ {t}
    BY <1>2, <1>3 DEF ClientInv, UnsavedOK, Secret, SessionInv, TypeOK
  <2>2. QED
    BY <1>4, <2>1
<1>10. ProcessesOK'
  <2> SUFFICES ASSUME NEW q \in Requests
               PROVE ProcessesOK!(q)'
    BY DEF ProcessesOK
  <2>1. CASE q # p
    <3>1. proc[q].pc = "save" => line'[req[q].new] = line[req[q].new]
      BY <1>0 DEF Unsaved
    <3>2. QED
      BY <1>5, <1>6, <2>1, <3>1 DEF ClientInv, ProcessesOK, Free
  <2>2. CASE q = p
    BY <1>4, <1>5, <1>6, <1>9, <2>2, SessionAssumption DEF Free
  <2>3. QED
    BY <2>1, <2>2
<1>11. \A q \in Requests \ {p} : Unsaved(q)' => Unsaved(q) /\ req'[q] = req[q]
  BY <1>5, <1>6 DEF Unsaved
<1>12. UnsavedOK'
  <2>1. \A q \in Requests : proc'[q].creds = proc[q].creds
    BY <1>5
  <2>2. \A q \in Requests : req'[q].on \in {req[q].on, None}
    BY <1>6
  <2>3. ASSUME NEW q \in Requests, Unsaved(q)'
        PROVE  Secret(q)'
    <3>1. CASE q = p
      <4>1. \A s \in SessionIds : line'[s] = t => s = t
        BY <1>2, <1>4, FreshIsUnknown
      <4>2. \A u \in Requests : t # proc'[u].creds /\ t # req'[u].on
        BY <1>2, <2>1, <2>2, FreshIsUnknown, SessionAssumption
      <4>3. t # file' /\ ~Locked(t)' /\ t \in drawn' /\ req'[q].new = t
        BY <1>2, <1>6, <3>1, FreshIsUnknown DEF Locked
      <4>4. QED
        BY <1>4, <4>1, <4>2, <4>3 DEF Secret
    <3>2. CASE q # p
      <4>1. /\ Unsaved(q) /\ req'[q].new = req[q].new /\ req[q].new \in SessionIds \ {t}
            /\ line'[req[q].new] = line[req[q].new]
        BY <1>0, <1>11, <2>3, <3>2
      <4>2. line[req[q].new] # t /\ req[q].new # None
        BY <1>2, <4>1, FreshIsUnknown, SessionAssumption
      <4>3. ASSUME NEW s \in SessionIds, line[req[q].new] # None,
                   line'[s] = line[req[q].new], Active(s)'
            PROVE  s = req[q].new
        <5>1. s # t
          BY <1>4, <4>2, <4>3
        <5>2. line[s] = line[req[q].new] /\ Active(s)
          BY <1>4, <4>3, <5>1 DEF Active
        <5>3. QED
          BY <4>1, <4>3, <5>2 DEF ClientInv, UnsavedOK, Secret
      <4>4. Secret(q) /\ past'[req[q].new] = past[req[q].new]
        BY <1>4, <4>1 DEF ClientInv, UnsavedOK
      <4>5. QED
        BY <1>6, <2>1, <2>2, <4>1, <4>2, <4>3, <4>4 DEF Secret, Locked
    <3>3. QED
      BY <3>1, <3>2
  <2>4. ASSUME NEW q \in Requests, NEW r \in Requests, Unsaved(q)', Unsaved(r)',
               req'[q].new = req'[r].new
        PROVE  q = r
    BY <1>2, <1>6, <1>11, <2>4, FreshIsUnknown DEF ClientInv, UnsavedOK
  <2>5. QED
    BY <2>3, <2>4 DEF UnsavedOK
<1>13. LoggedOutOK'
  <2>1. \A q \in Requests : proc'[q].pc = "loggedOut" => proc'[q] = proc[q]
    BY <1>5
  <2>2. \A q \in Requests : req'[q].pc = "ok" => req'[q] = req[q]
    BY <1>6
  <2>3. \A q \in Requests : req[q].op = "revoke" /\ req[q].pc = "ok" =>
          req[q].on \in SessionIds \ {t} /\ line[req[q].on] # None
    BY <1>2, <1>3, FreshIsUnknown DEF SessionInv, RequestsOK
  <2>4. \A s \in SessionIds \ {t} : line'[s] = line[s] /\ line[s] # t
    BY <1>2, <1>4, FreshIsUnknown
  <2>5. ASSUME NEW r \in Requests, NEW q \in Requests, req'[r].op = "revoke", req'[r].pc = "ok",
               Unsaved(q)'
        PROVE  line'[req'[q].new] # line'[req'[r].on]
    <3>1. req'[r] = req[r] /\ line'[req[r].on] = line[req[r].on] /\ line[req[r].on] # t
      BY <2>2, <2>3, <2>4, <2>5
    <3>2. CASE q = p
      BY <1>4, <1>6, <3>1, <3>2
    <3>3. CASE q # p
      BY <1>0, <1>11, <2>5, <3>1, <3>3 DEF ClientInv, LoggedOutOK
    <3>4. QED
      BY <3>2, <3>3
  <2>6. ASSUME NEW r \in Requests, proc'[r].pc = "loggedOut", proc'[r].revoked, file' # None
        PROVE  line'[file'] # line'[proc'[r].creds]
    <3>1. proc'[r] = proc[r] /\ req[r].op = "revoke" /\ req[r].pc = "ok" /\ req[r].on = proc[r].creds
      BY <2>1, <2>6 DEF ClientInv, ProcessesOK
    <3>2. file \in SessionIds \ {t}
      BY <1>2, <1>6, <2>6, FreshIsUnknown DEF ClientInv, ClientTypeOK
    <3>3. QED
      BY <1>6, <2>3, <2>4, <2>6, <3>1, <3>2 DEF ClientInv, LoggedOutOK
  <2>7. QED
    BY <2>5, <2>6 DEF LoggedOutOK
<1>14. QED
  BY <1>3, <1>7, <1>8, <1>10, <1>12, <1>13 DEF ClientInv

-----------------------------------------------------------------------------
(* The server's steps.                                                     *)

\* The server answers requests; it never changes what they are.
LEMMA ServerMoves ==
  ASSUME SessionInv, ServerStep, NEW q \in Requests
  PROVE  /\ req'[q].op = req[q].op /\ req'[q].on = req[q].on /\ req'[q].new = req[q].new
         /\ Free(q) => req'[q] = req[q]
         /\ req'[q].op = "revoke" /\ req'[q].pc = "ok" =>
              \/ req[q].pc = "ok"
              \/ req[q].pc = "revoke" /\ Active(req[q].on) /\ line' = line
<1>1. CASE UNCHANGED req
  BY <1>1
<1>2. ASSUME NEW r \in Requests, HandlerStep(r)
      PROVE  /\ req'[q].op = req[q].op /\ req'[q].on = req[q].on /\ req'[q].new = req[q].new
             /\ Free(q) => req'[q] = req[q]
             /\ req'[q].op = "revoke" /\ req'[q].pc = "ok" =>
                  \/ req[q].pc = "ok"
                  \/ req[q].pc = "revoke" /\ Active(req[q].on) /\ line' = line
  <2>1. ~Free(r)
    BY <1>2 DEF HandlerStep, Authenticate, RevokeSession, RevokeRefused, RequestFails,
                RotateSession, RotateRefused, ConfirmRotation, Free, Answers
  <2>2. req[r].pc \in {"rotate", "confirm"} => req[r].op = "refresh"
    BY DEF SessionInv, RequestsOK
  <2>3. req'[r].op = "revoke" /\ req'[r].pc = "ok" =>
          req[r].pc = "revoke" /\ Active(req[r].on) /\ line' = line
    BY <1>2, <2>2, HandlerMoves DEF Commit, Write, Withdraw
  <2>4. QED
    BY <1>2, <2>1, <2>3, HandlerMoves
<1>3. QED
  BY <1>1, <1>2 DEF ServerStep, DatabaseStep, Tick, Prune, WriteLands, WriteLost

\* A write of the server is on a session that is locked, or that a request presented.
LEMMA ServerWrites ==
  ASSUME SessionInv, ServerStep
  PROVE  \/ line' = line /\ \A s \in SessionIds : Active(s)' => Active(s)
         \/ \E s \in SessionIds, n \in SessionIds \cup {None} :
              /\ Fresh(s, n) /\ Written(s, n)
              /\ Locked(s) \/ \E r \in Requests : req[r].on = s
<1>1. StoreStep
  BY StoreEffect DEF AnyStep
<1>2. drawn' = drawn
  BY DEF ServerStep, Tick, DatabaseStep, Prune, WriteLands, WriteLost, HandlerStep, Authenticate,
         RevokeSession, RevokeRefused, RequestFails, RotateSession, RotateRefused, ConfirmRotation
<1>3. \A s \in SessionIds : ~Inserted(s)
  BY <1>2 DEF Inserted
<1>4. ASSUME NEW s \in SessionIds, Locked(s), Written(s, tx[s].next)
      PROVE  Fresh(s, tx[s].next) /\ tx[s].next \in SessionIds \cup {None}
  <2>1. tx[s].next \in SessionIds \cup {None}
    BY DEF SessionInv, TypeOK, Tx
  <2>2. QED
    BY <1>4, <2>1 DEF SessionInv, StoreOK, Fresh
<1>5. ASSUME NEW r \in Requests, WrittenBy(r)
      PROVE  \E s \in SessionIds, n \in SessionIds \cup {None} :
               Fresh(s, n) /\ Written(s, n) /\ req[r].on = s
  <2>1. req[r].on \in SessionIds
    BY <1>5, InFlight DEF WrittenBy
  <2>2. CASE req[r].pc = "revoke"
    BY <1>5, <2>1, <2>2 DEF WrittenBy, Fresh
  <2>3. CASE req[r].pc = "rotate"
    <3>1. Fresh(req[r].on, req[r].new) /\ req[r].new \in SessionIds
      BY <2>3, InFlight DEF Fresh, SessionInv, RefreshesOK
    <3>2. QED
      BY <1>5, <2>1, <2>3, <3>1 DEF WrittenBy
  <2>4. QED
    BY <1>5, <2>2, <2>3 DEF WrittenBy
<1>6. Pruned => line' = line /\ \A s \in SessionIds : Active(s)' => Active(s)
  BY DEF Pruned, Active, NoSession
<1>7. QED
  BY <1>1, <1>3, <1>4, <1>5, <1>6 DEF StoreStep, Untouched, Closed, OpenedBy, Opened, Active

\* What the server does to a session that no request presents: its line may get
\* it as its only active session, and then keeps it.
LEMMA SecretKept ==
  ASSUME ClientInv, ServerStep, UNCHANGED clientVars, SessionInv', NEW p \in Requests, Secret(p)
  PROVE  Secret(p)'
<1>0. SessionInv /\ AnyStep /\ StoreStep /\ StoreChange
  BY StoreEffect, StoreChanges DEF ClientInv, AnyStep
<1>1. Framed
  BY <1>0, StoreFrame
<1>2. PICK t \in SessionIds : t = req[p].new /\ t = req'[p].new
  BY <1>0, ServerMoves DEF Secret, SessionInv, TypeOK
<1>3. /\ t \in drawn /\ t # file /\ ~Locked(t)
      /\ \A q \in Requests : t # proc[q].creds /\ t # req[q].on
      /\ line[t] # None => \A u \in SessionIds : line[u] = line[t] /\ Active(u) => u = t
  BY <1>2 DEF Secret
<1>4. t \in drawn' /\ t # file'
  BY <1>1, <1>3 DEF Framed, clientVars
<1>5. \A q \in Requests : t # proc'[q].creds /\ t # req'[q].on
  BY <1>0, <1>3, ServerMoves DEF clientVars
<1>6. tx'[t] = tx[t] \/ tx'[t] = NoTx
  <2>1. tx \in [SessionIds -> Tx]
    BY <1>0 DEF SessionInv, TypeOK
  <2>2. \A s \in SessionIds : Closed(s) => tx'[t] = tx[t] \/ tx'[t] = NoTx
    BY <2>1 DEF Closed
  <2>3. \A s \in SessionIds : \A u : Written(s, u) => tx'[t] = tx[t] \/ tx'[t] = NoTx
    BY <2>1 DEF Written
  <2>4. \A s \in SessionIds : \A u : Opened(s, u) /\ s # t => tx'[t] = tx[t]
    BY <2>1 DEF Opened
  <2>5. \A r \in Requests : OpenedBy(r) => tx'[t] = tx[t]
    BY <1>0, <1>3, <2>4, InFlight DEF OpenedBy
  <2>6. \A r \in Requests : WrittenBy(r) => tx'[t] = tx[t] \/ tx'[t] = NoTx
    BY <1>0, <2>3, InFlight DEF WrittenBy
  <2>7. QED
    BY <1>0, <2>2, <2>3, <2>5, <2>6 DEF StoreStep, Untouched, Inserted, Pruned
<1>7. ~Locked(t)'
  BY <1>3, <1>6 DEF Locked, NoTx
<1>8. ASSUME line'[t] # None, NEW u \in SessionIds, line'[u] = line'[t], Active(u)'
      PROVE  u = t
  <2>1. CASE line[t] = None
    <3>1. Active(t)'
      <4>2. PICK s \in SessionIds, n \in SessionIds \cup {None} :
              /\ Fresh(s, n) /\ Written(s, n)
              /\ Locked(s) \/ \E r \in Requests : req[r].on = s
        BY <1>0, <1>8, <2>1, ServerWrites
      <4>1. t # s
        BY <1>3, <4>2
      <4>3. /\ \A w \in SessionIds \ {s, n} : line'[w] = line[w]
            /\ n # None => table'[n].status = "active"
        <5>1. SessionInv /\ Fresh(s, n) /\ Written(s, n)
          BY <1>0, <4>2
        <5>2. /\ \A w \in SessionIds \ {s, n} : table'[w] = table[w] /\ line'[w] = line[w]
              /\ table'[s].status = "revoked" /\ line'[s] = line[s]
              /\ n # None => n # s /\ table'[n].status = "active" /\ line'[n] = line[s]
          BY <5>1, WriteEffect, ZenonT(60)
        <5>3. QED
          BY <5>2
      <4>4. t = n
        BY <1>8, <2>1, <4>1, <4>3
      <4>5. QED
        BY <4>3, <4>4, SessionAssumption DEF Active
    <3>2. QED
      BY <1>8, <3>1 DEF SessionInv, OneActivePerLine
  <2>2. CASE line[t] # None
    <3>1. line'[t] = line[t]
      BY <1>1, <2>2 DEF Framed
    <3>2. CASE line[u] # None
      <4>1. line[u] = line[t] /\ Active(u)
        BY <1>1, <1>8, <3>1, <3>2 DEF Framed, Active
      <4>2. QED
        BY <1>3, <2>2, <4>1
    <3>3. CASE line[u] = None
      <4>2. PICK s \in SessionIds, n \in SessionIds \cup {None} :
              /\ Fresh(s, n) /\ Written(s, n)
              /\ Locked(s) \/ \E r \in Requests : req[r].on = s
        BY <1>0, <1>8, <2>2, <3>1, <3>3, ServerWrites
      <4>3. /\ \A w \in SessionIds \ {s, n} : line'[w] = line[w]
            /\ line'[s] = line[s] /\ (n # None => line'[n] = line[s])
        <5>1. SessionInv /\ Fresh(s, n) /\ Written(s, n)
          BY <1>0, <4>2
        <5>2. /\ \A w \in SessionIds \ {s, n} : table'[w] = table[w] /\ line'[w] = line[w]
              /\ table'[s].status = "revoked" /\ line'[s] = line[s]
              /\ n # None => n # s /\ table'[n].status = "active" /\ line'[n] = line[s]
          BY <5>1, WriteEffect, ZenonT(60)
        <5>3. QED
          BY <5>2
      <4>4. u \in {s, n}
        BY <1>8, <2>2, <3>1, <3>3, <4>3
      <4>5. u # s
        BY <1>8, <2>2, <3>1, <3>3, <4>3
      <4>6. line[s] = line[t]
        BY <1>8, <3>1, <4>3, <4>4, <4>5, SessionAssumption
      <4>7. Active(s)
        BY <4>2 DEF Written
      <4>8. QED
        BY <1>3, <2>2, <4>2, <4>6, <4>7
    <3>4. QED
      BY <3>2, <3>3
  <2>3. QED
    BY <2>1, <2>2
<1>9. past'[t].status # "revoked"
  <2>1. past \in [SessionIds -> SessionRow] /\ past[t].status # "revoked"
    BY <1>0, <1>2 DEF SessionInv, TypeOK, Secret
  <2>2. \A at : NewSession(at).status # "revoked"
    BY DEF NewSession
  <2>3. ASSUME NEW s \in SessionIds, Inserted(s) PROVE past'[t].status # "revoked"
    BY <2>1, <2>2, <2>3 DEF Inserted
  <2>4. ASSUME NEW s \in SessionIds, s # t, NEW n \in SessionIds \cup {None}, Written(s, n)
        PROVE  past'[t].status # "revoked"
    <3>1. PICK at \in 0..Horizon : Write(s, n, at)
      BY <2>4 DEF Written
    <3>2. past'[t] = past[t] \/ past'[t] = NewSession(at)
      BY <2>1, <2>4, <3>1 DEF Write, Withdraw, Replace
    <3>3. QED
      BY <2>1, <2>2, <3>2
  <2>5. ASSUME NEW r \in Requests, WrittenBy(r) PROVE past'[t].status # "revoked"
    BY <1>0, <1>3, <2>4, <2>5, InFlight DEF WrittenBy
  <2>6. ASSUME NEW s \in SessionIds, Locked(s), Written(s, tx[s].next)
        PROVE  past'[t].status # "revoked"
    <3>1. tx[s].next \in SessionIds \cup {None}
      BY <1>0 DEF SessionInv, TypeOK, Tx
    <3>2. QED
      BY <1>3, <2>4, <2>6, <3>1
  <2>7. QED
    BY <1>0, <2>1, <2>3, <2>5, <2>6 DEF StoreStep, Untouched, Opened, OpenedBy, Closed, Pruned
<1>10. QED
  BY <1>2, <1>4, <1>5, <1>7, <1>8, <1>9 DEF Secret

\* Nobody joins the line of a session that was revoked.
LEMMA NobodyJoins ==
  ASSUME SessionInv, ServerStep, NEW l, l # None,
         \A s \in SessionIds : line[s] = l => ~Active(s),
         NEW u \in SessionIds, line'[u] = l
  PROVE  line[u] = l
<1>1. CASE line' = line
  BY <1>1
<1>2. ASSUME NEW s \in SessionIds, NEW n \in SessionIds \cup {None}, Fresh(s, n), Written(s, n)
      PROVE  line[u] = l
  <2>1. Active(s) /\ line[s] # l
    BY <1>2 DEF Written
  <2>2. /\ \A w \in SessionIds \ {s, n} : line'[w] = line[w]
        /\ line'[s] = line[s] /\ (n # None => line'[n] = line[s])
    BY <1>2, WriteEffect, ZenonT(40)
  <2>3. QED
    BY <2>1, <2>2, SessionAssumption
<1>3. QED
  BY <1>1, <1>2, ServerWrites

LEMMA ServerInv ==
  ASSUME ClientInv, ServerStep, UNCHANGED clientVars
  PROVE  ClientInv'
<1>0. SessionInv /\ SessionInv' /\ Framed
  BY AnyStepInv, StoreEffect, StoreChanges, StoreFrame DEF ClientInv, AnyStep
<1>1. proc' = proc /\ file' = file
  BY DEF clientVars
<1>2. \A q \in Requests :
        /\ req'[q].op = req[q].op /\ req'[q].on = req[q].on /\ req'[q].new = req[q].new
        /\ Free(q) => req'[q] = req[q]
  BY <1>0, ServerMoves
<1>3. ClientTypeOK'
  BY <1>0, <1>1 DEF ClientTypeOK, ClientInv, SessionInv
<1>4. KnownOK'
  <2>1. file # None => file \in SessionIds
    BY DEF ClientInv, ClientTypeOK
  <2>2. QED
    BY <1>0, <1>1, <1>2, <2>1 DEF ClientInv, KnownOK, Framed
<1>5. \A q \in Requests : Unsaved(q)' <=> Unsaved(q)
  BY <1>1 DEF Unsaved
<1>6. ProcessesOK'
  <2> SUFFICES ASSUME NEW q \in Requests
               PROVE ProcessesOK!(q)'
    BY DEF ProcessesOK
  <2>1. proc[q].pc = "save" => Free(q)' /\ line'[req'[q].new] # None
    <3>1. proc[q].pc = "save" => req[q].new \in SessionIds /\ Free(q) /\ line[req[q].new] # None
      BY <1>0 DEF ClientInv, ProcessesOK, UnsavedOK, Secret, Unsaved, SessionInv, TypeOK
    <3>2. QED
      BY <1>0, <1>2, <3>1 DEF Framed, Free
  <2>2. proc[q].revoked => req'[q] = req[q]
    BY <1>2 DEF ClientInv, ProcessesOK, Free, Answers
  <2>3. QED
    BY <1>1, <1>2, <2>1, <2>2 DEF ClientInv, ProcessesOK
<1>7. UnsavedOK'
  <2>1. \A q \in Requests : Unsaved(q)' => Secret(q)'
    BY <1>0, <1>5, SecretKept DEF ClientInv, UnsavedOK
  <2>2. QED
    BY <1>2, <1>5, <2>1 DEF ClientInv, UnsavedOK
<1>8. LoggedOutOK'
  <2>1. ASSUME NEW r \in Requests, NEW q \in Requests, req'[r].op = "revoke", req'[r].pc = "ok",
               Unsaved(q)'
        PROVE  line'[req'[q].new] # line'[req'[r].on]
    <3>1. /\ Secret(q) /\ req[q].new \in SessionIds
          /\ req[r].op = "revoke" /\ req[r].on \in SessionIds /\ req[r].on # req[q].new
      <4>1. Secret(q) /\ req[q].new \in SessionIds
        BY <1>0, <1>5, <2>1 DEF ClientInv, UnsavedOK, Secret, SessionInv, TypeOK
      <4>2. req'[r].on \in SessionIds
        BY <1>0, <2>1 DEF SessionInv, RequestsOK
      <4>3. QED
        BY <1>2, <2>1, <4>1, <4>2 DEF Secret
    <3>2. CASE req[r].pc = "ok"
      <4>1. /\ line[req[r].on] # None
            /\ \A s \in SessionIds : line[s] = line[req[r].on] => ~Active(s)
        BY <1>0, <3>1, <3>2 DEF SessionInv, RequestsOK
      <4>2. line[req[q].new] # line[req[r].on]
        BY <1>5, <2>1, <3>1, <3>2 DEF ClientInv, LoggedOutOK
      <4>3. line'[req[q].new] # line[req[r].on]
        BY <1>0, <3>1, <4>1, <4>2, NobodyJoins
      <4>4. QED
        BY <1>0, <1>2, <3>1, <4>1, <4>3 DEF Framed
    <3>3. CASE req[r].pc = "revoke" /\ Active(req[r].on) /\ line' = line
      <4>1. line[req[r].on] # None
        BY <1>0, <3>1, <3>3 DEF SessionInv, StoreOK, Active
      <4>2. line[req[q].new] # line[req[r].on]
        BY <3>1, <3>3, <4>1 DEF Secret
      <4>3. QED
        BY <1>2, <3>3, <4>2
    <3>4. QED
      BY <1>0, <2>1, <3>2, <3>3, ServerMoves
  <2>2. ASSUME NEW r \in Requests, proc'[r].pc = "loggedOut", proc'[r].revoked, file' # None
        PROVE  line'[file'] # line'[proc'[r].creds]
    <3>1. req[r].op = "revoke" /\ req[r].pc = "ok" /\ req[r].on = proc[r].creds
      BY <1>1, <2>2 DEF ClientInv, ProcessesOK
    <3>2. req[r].on \in SessionIds /\ line[req[r].on] # None
      BY <1>0, <3>1 DEF SessionInv, RequestsOK
    <3>3. file \in SessionIds /\ line[file] # None
      BY <1>1, <2>2 DEF ClientInv, ClientTypeOK, KnownOK
    <3>4. QED
      BY <1>0, <1>1, <2>2, <3>1, <3>2, <3>3 DEF ClientInv, LoggedOutOK, Framed
  <2>3. QED
    BY <2>1, <2>2 DEF LoggedOutOK
<1>9. QED
  BY <1>0, <1>3, <1>4, <1>6, <1>7, <1>8 DEF ClientInv

-----------------------------------------------------------------------------
(* The theorems.                                                           *)

LEMMA ClientInitInv == ClientInit => ClientInv
<1> SUFFICES ASSUME ClientInit PROVE ClientInv
  OBVIOUS
<1>1. SessionInv
  BY InitInv DEF ClientInit
<1>2. /\ file = None
      /\ \A p \in Requests : /\ proc[p].pc = "idle" /\ proc[p].creds = None
                             /\ proc[p].revoked = FALSE
                             /\ req[p].op = "get" /\ req[p].on = None
      /\ proc \in [Requests -> Process]
  BY DEF ClientInit, SessionInit, NoRequest, Process, Commands
<1>3. QED
  BY <1>1, <1>2 DEF ClientInv, ClientTypeOK, SessionInv, KnownOK, ProcessesOK, UnsavedOK, Unsaved,
                    LoggedOutOK

LEMMA ClientStepInv == ClientInv /\ [ClientNext]_allVars => ClientInv'
<1> SUFFICES ASSUME ClientInv, [ClientNext]_allVars PROVE ClientInv'
  OBVIOUS
<1>1. CASE UNCHANGED allVars
  <2>1. SessionInv' /\ UNCHANGED <<now, drawn, table, line, past, tx, req, file, proc>>
    BY <1>1, SessionsKept DEF allVars, sessionVars, clientVars, ClientInv
  <2>2. QED
    BY <2>1 DEF ClientInv, ClientTypeOK, SessionInv, KnownOK, ProcessesOK, UnsavedOK, Secret,
                Unsaved, LoggedOutOK, Free, Locked, Active
<1>2. CASE ServerStep /\ UNCHANGED clientVars
  BY <1>2, ServerInv
<1>3. ASSUME NEW p \in Requests, NEW cmd \in Commands, Begin(p, cmd) PROVE ClientInv'
  BY <1>3, BeginInv
<1>4. ASSUME NEW p \in Requests, ProcessStep(p) PROVE ClientInv'
  <2>0. /\ \A pc : Moves(p, pc) /\ MayMove(p, pc) => ClientInv'
        /\ proc[p].revoked => proc[p].pc \in {"delete", "loggedOut", "failed"}
        /\ proc[p].pc \in {"wait", "recover", "refreshing", "final"} => proc[p].creds # None
    BY MovesInv DEF ClientInv, ProcessesOK
  <2>1. CASE Check(p)
    BY <2>0, <2>1 DEF Check, Moves, MayMove, Done
  <2>2. CASE Load(p)
    BY <2>0, <2>2 DEF Load, Reauthenticate, Moves, MayMove, Done
  <2>3. CASE Read(p)
    <3>1. CASE file = None
      BY <2>0, <2>3, <3>1 DEF Read, Moves, MayMove, Done
    <3>2. CASE file # None
      BY <2>3, <3>2, LoadsInv DEF Read
    <3>3. QED
      BY <3>1, <3>2
  <2>4. CASE Send(p)
    BY <2>4, SendInv
  <2>5. CASE Receive(p)
    <3>1. CASE req[p].pc = "ok" /\ Succeed(p)
      BY <2>5, <3>1, SucceedInv DEF Receive
    <3>2. CASE Step(p, "refresh") \/ Step(p, "failed")
      BY <2>0, <2>5, <3>2 DEF Receive, Moves, MayMove, Done
    <3>3. QED
      BY <2>5, <3>1, <3>2 DEF Receive
  <2>6. CASE ReceiveTokens(p)
    BY <2>0, <2>6 DEF ReceiveTokens, Moves, MayMove, Done
  <2>7. CASE Save(p)
    BY <2>7, SaveInv
  <2>8. CASE Recover(p)
    BY <2>8, LoadsInv DEF Recover
  <2>9. CASE RecoveryTimesOut(p)
    BY <2>0, <2>9 DEF RecoveryTimesOut, Reauthenticate, Moves, MayMove, Done
  <2>10. CASE ReceiveFinal(p)
    <3>1. CASE req[p].pc = "ok" /\ Succeed(p)
      BY <2>10, <3>1, SucceedInv DEF ReceiveFinal
    <3>2. CASE Step(p, "delete") \/ Step(p, "failed")
      BY <2>0, <2>10, <3>2 DEF ReceiveFinal, Moves, MayMove, Done
    <3>3. QED
      BY <2>10, <3>1, <3>2 DEF ReceiveFinal
  <2>11. CASE Delete(p)
    BY <2>11, DeleteInv
  <2>12. CASE \E s \in SessionIds : Exchange(p, s) \/ Refresh(p, s)
    BY <2>12, ExchangeInv, RefreshInv
  <2>13. QED
    BY <1>4, <2>1, <2>2, <2>3, <2>4, <2>5, <2>6, <2>7, <2>8, <2>9, <2>10, <2>11, <2>12
    DEF ProcessStep
<1>5. ASSUME NEW p \in Requests, GivesUp(p) \/ ClientCrashes(p) PROVE ClientInv'
  BY <1>5, MovesInv DEF GivesUp, ClientCrashes, Moves, MayMove, Done
<1>6. QED
  BY <1>1, <1>2, <1>3, <1>4, <1>5 DEF ClientNext, ClientQuiescent

\* Whatever the processes of a user do at the same time, tokens that are waiting to
\* be saved are known to one process only, and the invariant of the sessions holds.
THEOREM ClientInvariance == ClientSpec => []ClientInv
BY ClientInitInv, ClientStepInv, PTL DEF ClientSpec

\* A logout that revoked its session is final, for the broker and for the file.
THEOREM LogoutStays == ClientSpec => []LogoutIsFinal
<1>1. ASSUME ClientInv, NEW p \in Requests, proc[p].pc = "loggedOut", proc[p].revoked
      PROVE  /\ \A s \in SessionIds : line[s] = line[proc[p].creds] => ~Active(s)
             /\ file # None => line[file] # line[proc[p].creds]
  <2>1. req[p].op = "revoke" /\ req[p].pc = "ok" /\ req[p].on = proc[p].creds
    BY <1>1 DEF ClientInv, ProcessesOK
  <2>2. QED
    BY <1>1, <2>1 DEF ClientInv, SessionInv, RequestsOK, LoggedOutOK
<1>2. ClientInv => LogoutIsFinal
  BY <1>1 DEF LogoutIsFinal
<1>3. QED
  BY <1>2, ClientInvariance, PTL

\* Without a lock on the file, a save writes no tokens that were replaced or revoked,
\* and overwrites none of the same login that are still good.
THEOREM SavesMoveForward == ClientSpec => FileMovesForward
<1> DEFINE Forward == file' \notin {None, file} =>
                        /\ past[file'].status # "revoked"
                        /\ file # None /\ line[file'] = line[file] => ~Active(file)
<1>1. ASSUME ClientInv, [ClientNext]_allVars, file' \notin {None, file}
      PROVE  /\ past[file'].status # "revoked"
             /\ file # None /\ line[file'] = line[file] => ~Active(file)
  <2>1. PICK p \in Requests : Save(p)
    BY <1>1 DEF ClientNext, ServerStep, ClientQuiescent, allVars, clientVars, ProcessStep, Begin,
                Check, Load, Read, Send, Receive, ReceiveTokens, Recover, RecoveryTimesOut,
                ReceiveFinal, Delete, GivesUp, ClientCrashes, Exchange, Refresh
  <2>2. Secret(p) /\ file' = req[p].new /\ line[req[p].new] # None
    BY <1>1, <2>1 DEF Save, ClientInv, UnsavedOK, Unsaved, ProcessesOK
  <2>3. QED
    BY <1>1, <2>2 DEF Secret, ClientInv, ClientTypeOK
<1>2. ClientInv /\ [ClientNext]_allVars => [Forward]_allVars
  BY <1>1
<1>3. QED
  BY <1>2, ClientInvariance, PTL DEF ClientSpec, FileMovesForward

-----------------------------------------------------------------------------
(* What a process knows of its tokens.                                     *)

\* A session of a login stays one, and once it is dead it stays dead.
DeadIsFinal ==
  \A s \in SessionIds : line[s] # None => line'[s] # None /\ (Dead(s) => Dead(s)')

LEMMA DeadStays ==
  ASSUME SessionInv, PastOK, AnyStep \/ UNCHANGED sessionVars
  PROVE  PastOK' /\ DeadIsFinal
<1> DEFINE Kept(u) == /\ line'[u] # None => past'[u].status # "absent"
                      /\ line[u] # None => (Dead(u) => Dead(u)')
<1>1. CASE UNCHANGED sessionVars
  BY <1>1 DEF sessionVars, PastOK, DeadIsFinal, Dead
<1>2. CASE AnyStep
  <2>1. /\ TypeOK /\ StoreChange /\ Framed
        /\ now \in Nat /\ now' \in Nat /\ now <= now'
    <3>1. TypeOK /\ TypeOK' /\ StoreChange
      BY <1>2, TypeStep, StoreEffect, StoreChanges DEF SessionInv
    <3>2. now \in Nat /\ now' \in Nat
      BY <3>1, SessionAssumption DEF TypeOK
    <3>3. QED
      BY <1>2, <3>1, <3>2, StoreFrame, Readings
  <2>2. ASSUME NEW u \in SessionIds, past'[u] = past[u], line'[u] = line[u] PROVE Kept(u)
    <3>1. past[u].access \in Nat
      BY <2>1, SessionAssumption DEF TypeOK, SessionRow, Times
    <3>2. QED
      BY <2>1, <2>2, <3>1 DEF PastOK, Dead
  <2>3. ASSUME NEW s \in SessionIds, Inserted(s), NEW u \in SessionIds PROVE Kept(u)
    <3>1. CASE u = s
      <4>1. past'[u].status = "active" /\ line[u] = None
        BY <2>1, <2>3, <3>1 DEF Inserted, TypeOK, NewSession, SessionInv, StoreOK
      <4>2. QED
        BY <4>1
    <3>2. CASE u # s
      BY <2>1, <2>2, <2>3, <3>2 DEF Inserted, TypeOK
    <3>3. QED
      BY <3>1, <3>2
  <2>4. ASSUME NEW s \in SessionIds, NEW t \in SessionIds \cup {None}, Fresh(s, t), Written(s, t),
               NEW u \in SessionIds
        PROVE  Kept(u)
    <3>1. PICK at \in 0..Horizon : Write(s, t, at)
      BY <2>4 DEF Written
    <3>2. Revoked(table[s], at).status = "revoked" /\ NewSession(at).status = "active"
      BY <2>1 DEF TypeOK, Revoked, NewSession, SessionRow
    <3>3. t # None => t \in SessionIds /\ line[t] = None
      BY <2>4 DEF Fresh
    <3>4. CASE u = t
      <4>1. past'[u].status # "absent" /\ line[u] = None
        BY <2>1, <3>1, <3>2, <3>3, <3>4, SessionAssumption DEF Write, Replace, TypeOK
      <4>2. QED
        BY <4>1
    <3>5. CASE u = s /\ u # t
      <4>1. past'[u].status = "revoked"
        BY <2>1, <3>1, <3>2, <3>3, <3>5 DEF Write, Withdraw, Replace, TypeOK
      <4>2. QED
        BY <4>1 DEF Dead
    <3>6. CASE u # s /\ u # t
      <4>1. past'[u] = past[u] /\ line'[u] = line[u]
        BY <2>1, <3>1, <3>3, <3>6 DEF Write, Withdraw, Replace, TypeOK
      <4>2. QED
        BY <2>2, <4>1
    <3>7. QED
      BY <3>4, <3>5, <3>6
  <2>5. \A u \in SessionIds : Kept(u)
    BY <2>1, <2>2, <2>3, <2>4 DEF StoreChange, Untouched, Opened, Closed, Pruned
  <2>6. QED
    BY <2>1, <2>5, SessionAssumption DEF PastOK, DeadIsFinal, Framed, TypeOK
<1>3. QED
  BY <1>1, <1>2

\* A refused or a revoked session is dead.
LEMMA RefusedIsDead ==
  ASSUME SessionInv, PastOK, NEW r \in Requests, NEW s \in SessionIds,
         req[r].on = s, line[s] # None
  PROVE  /\ HandlerStep(r) /\ req[r].op # "refresh" /\ req'[r].pc = "unauthorized" => Dead(s)
         /\ req[r].op = "revoke" /\ req[r].pc = "ok" => Dead(s)
<1>0. past[s] \in SessionRow /\ past[s].status # "absent"
  BY DEF PastOK, SessionInv, TypeOK
<1>1. ASSUME HandlerStep(r), req[r].op # "refresh", req'[r].pc = "unauthorized" PROVE Dead(s)
  <2>1. past[s].status # "active" \/ past[s].access <= now
    BY <1>1, RefusalHasAReason DEF Deadline
  <2>2. QED
    BY <1>0, <2>1 DEF Dead, SessionRow
<1>2. ASSUME req[r].op = "revoke", req[r].pc = "ok" PROVE Dead(s)
  <2>1. table[s].status # "active"
    BY <1>2 DEF SessionInv, RequestsOK, Active
  <2>2. CASE table[s].status = "absent"
    BY <1>0, <2>2 DEF SessionInv, HistoryOK, Dead, SessionRow
  <2>3. CASE table[s].status # "absent"
    BY <1>0, <2>1, <2>3 DEF SessionInv, HistoryOK, Dead, SessionRow
  <2>4. QED
    BY <2>2, <2>3
<1>3. QED
  BY <1>1, <1>2

\* A process that takes no step, and whose request takes none, knows what it knew.
LEMMA SeenKept ==
  ASSUME ClientInv, DeadIsFinal, NEW q \in Requests, SeenBy(q),
         proc'[q] = proc[q], req'[q] = req[q]
  PROVE  SeenBy(q)'
<1>1. proc[q].creds # None => proc[q].creds \in SessionIds
  BY DEF ClientInv, ClientTypeOK, Process
<1>2. proc[q].pc \in {"wait", "final", "refresh", "refreshing", "recover"} => proc[q].creds # None
  BY DEF ClientInv, ProcessesOK
<1>3. QED
  BY <1>1, <1>2 DEF SeenBy, DeadIsFinal

LEMMA ServerSeen ==
  ASSUME ClientInv, SeenOK, ServerStep, UNCHANGED clientVars
  PROVE  SeenOK'
<1>0. SessionInv /\ PastOK /\ PastOK' /\ DeadIsFinal
  BY DeadStays DEF ClientInv, SeenOK, AnyStep
<1>1. ASSUME NEW q \in Requests PROVE SeenBy(q)'
  <2>0. SeenBy(q) /\ proc' = proc
    BY DEF SeenOK, clientVars
  <2>1. CASE req'[q] = req[q]
    BY <1>0, <2>0, <2>1, SeenKept
  <2>2. CASE req'[q] # req[q]
    <3> DEFINE s == proc[q].creds
    <3>1. HandlerStep(q)
      BY <1>0, <2>2, HandlerMoves
      DEF ServerStep, DatabaseStep, Tick, Prune, WriteLands, WriteLost
    <3>2. req'[q].op = req[q].op
      BY <1>0, ServerMoves
    <3>3. CASE proc[q].pc \in {"wait", "final"}
      <4>1. s \in SessionIds /\ s # None /\ req[q].on = s /\ line[s] # None /\ req[q].op # "refresh"
        BY <2>0, <3>3 DEF ClientInv, ClientTypeOK, Process, ProcessesOK, SeenBy
      <4>2. req'[q].pc = "unauthorized" => Dead(s)'
        BY <1>0, <2>0, <3>1, <4>1, RefusedIsDead DEF DeadIsFinal, Dead
      <4>3. line'[s] # None
        BY <1>0, <4>1 DEF DeadIsFinal
      <4>4. QED
        BY <2>0, <3>2, <3>3, <4>1, <4>2, <4>3 DEF SeenBy
    <3>4. CASE proc[q].pc \notin {"wait", "final"}
      <4>1. s # None => s \in SessionIds
        BY DEF ClientInv, ClientTypeOK, Process
      <4>2. proc[q].pc \in {"refresh", "refreshing", "recover"} => s # None
        BY DEF ClientInv, ProcessesOK
      <4>3. QED
        BY <1>0, <2>0, <3>4, <4>1, <4>2 DEF SeenBy, DeadIsFinal
    <3>5. QED
      BY <3>3, <3>4
  <2>3. QED
    BY <2>1, <2>2
<1>2. QED
  BY <1>0, <1>1 DEF SeenOK

\* What a process must know after a step of its own.
LEMMA OwnStepSeen ==
  ASSUME ClientInv, SeenOK, NEW p \in Requests, AnyStep \/ UNCHANGED sessionVars,
         \A q \in Requests \ {p} : proc'[q] = proc[q] /\ req'[q] = req[q],
         SeenBy(p)'
  PROVE  SeenOK'
<1>1. PastOK' /\ DeadIsFinal
  BY DeadStays DEF ClientInv, SeenOK
<1>2. QED
  BY <1>1, SeenKept DEF SeenOK

LEMMA MovesSeen ==
  ASSUME ClientInv, SeenOK, NEW p \in Requests, NEW pc, Moves(p, pc),
         pc \in {"checked", "load", "read"} => proc[p].creds = None,
         pc \in {"refresh", "refreshing", "recover"} => Dead(proc[p].creds),
         pc = "delete" /\ proc[p].creds # None => Dead(proc[p].creds),
         pc \notin {"idle", "check", "exchange", "wait", "final"}
  PROVE  SeenOK'
<1>1. /\ \A q \in Requests \ {p} : proc'[q] = proc[q]
      /\ proc'[p].pc = pc /\ proc'[p].creds = proc[p].creds
  BY StepEffect DEF Moves
<1>2. UNCHANGED <<now, line, past, req>>
  BY DEF Moves, sessionVars
<1>3. SeenBy(p)'
  BY <1>1, <1>2 DEF SeenOK, SeenBy, Dead
<1>4. QED
  BY <1>1, <1>2, <1>3, OwnStepSeen DEF Moves

\* A process that takes over the tokens of the file, or of an answer.
LEMMA TakesSeen ==
  ASSUME ClientInv, SeenOK, UNCHANGED sessionVars, NEW p \in Requests, NEW s, line[s] # None,
         NEW pc \in {"send", "resend", "ok"}, StepWith(p, pc, s)
  PROVE  SeenOK'
<1>1. /\ \A q \in Requests \ {p} : proc'[q] = proc[q]
      /\ proc'[p].pc = pc /\ proc'[p].creds = s
  <2>1. proc \in [Requests -> Process]
    BY DEF ClientInv, ClientTypeOK
  <2>2. QED
    BY <2>1 DEF StepWith, Process
<1>2. line' = line /\ req' = req
  BY DEF sessionVars
<1>3. SeenBy(p)'
  BY <1>1, <1>2 DEF SeenBy
<1>4. QED
  BY <1>1, <1>2, <1>3, OwnStepSeen

LEMMA SeenStep == ClientInv /\ SeenOK /\ [ClientNext]_allVars => SeenOK'
<1> SUFFICES ASSUME ClientInv, SeenOK, [ClientNext]_allVars PROVE SeenOK'
  OBVIOUS
<1>0. /\ SessionInv /\ PastOK
      /\ \A q \in Requests :
           /\ SeenBy(q)
           /\ proc[q].creds \in SessionIds \cup {None}
           /\ proc[q].pc \in {"send", "wait", "refresh", "refreshing", "recover", "resend", "final"} =>
                proc[q].creds # None
  BY DEF ClientInv, ClientTypeOK, Process, ProcessesOK, SeenOK
<1>1. CASE UNCHANGED allVars
  BY <1>1 DEF allVars, sessionVars, clientVars, SeenOK, PastOK, SeenBy, Dead
<1>2. CASE ServerStep /\ UNCHANGED clientVars
  BY <1>2, ServerSeen
<1>3. ASSUME NEW p \in Requests, NEW cmd \in Commands, Begin(p, cmd) PROVE SeenOK'
  <2>1. PICK pc \in {"load", "check", "exchange"} :
          proc' = [proc EXCEPT ![p] = [@ EXCEPT !.cmd = cmd, !.pc = pc]]
    BY <1>3 DEF Begin, Commands
  <2>2. /\ proc'[p].pc = pc /\ proc'[p].creds = None
        /\ \A q \in Requests \ {p} : proc'[q] = proc[q]
    <3>1. proc \in [Requests -> Process] /\ proc[p].creds = None
      BY <1>0, <1>3 DEF Begin, SeenBy, ClientInv, ClientTypeOK
    <3>2. QED
      BY <2>1, <3>1 DEF Process
  <2>3. SeenBy(p)'
    BY <2>2 DEF SeenBy
  <2>4. QED
    BY <1>3, <2>2, <2>3, OwnStepSeen DEF Begin, sessionVars
<1>4. ASSUME NEW p \in Requests, ProcessStep(p) PROVE SeenOK'
  <2> DEFINE s == proc[p].creds
  <2>0. SeenBy(p) /\ (s # None => line[s] # None)
    BY <1>0 DEF SeenBy
  <2>1. CASE Check(p)
    BY <2>0, <2>1, MovesSeen DEF Check, Moves, SeenBy
  <2>2. CASE Load(p)
    BY <2>0, <2>2, MovesSeen DEF Load, Reauthenticate, Moves, SeenBy
  <2>3. CASE Read(p) \/ Recover(p)
    <3>1. CASE Read(p) /\ file = None
      BY <2>0, <3>1, MovesSeen DEF Read, Moves, SeenBy
    <3>2. CASE Recover(p) \/ (Read(p) /\ file # None)
      <4>1. StepWith(p, "send", file) \/ StepWith(p, "resend", file)
        BY <3>2 DEF Read, Recover
      <4>2. UNCHANGED sessionVars /\ line[file] # None
        BY <3>2 DEF Read, Recover, sessionVars, ClientInv, KnownOK
      <4>3. QED
        BY <4>1, <4>2, TakesSeen
    <3>3. QED
      BY <2>3, <3>1, <3>2
  <2>4. CASE Send(p)
    <3>1. s \in SessionIds /\ s # None
      BY <1>0, <2>4 DEF Send
    <3>2. PICK op \in {"get", "revoke"} : AccessArrives(p, s, op)
      BY <2>4 DEF Send
    <3>3. PICK pc \in {"wait", "final"} : Step(p, pc)
      BY <2>4 DEF Send
    <3>4. /\ \A q \in Requests \ {p} : proc'[q] = proc[q]
          /\ proc'[p].pc = pc /\ proc'[p].creds = s
      BY <3>3, StepEffect
    <3>5. /\ \A q \in Requests \ {p} : req'[q] = req[q]
          /\ req'[p].pc = "authenticate" /\ req'[p].op = op /\ line' = line
      BY <3>2 DEF AccessArrives, ClientInv, ClientTypeOK, TypeOK
    <3>6. SeenBy(p)'
      BY <2>0, <3>1, <3>4, <3>5 DEF SeenBy
    <3>7. AnyStep
      BY <3>1, <3>2 DEF AnyStep, Arrival, Ops
    <3>8. QED
      BY <3>4, <3>5, <3>6, <3>7, OwnStepSeen
  <2>5. CASE Receive(p) \/ ReceiveFinal(p)
    <3>1. /\ s \in SessionIds /\ s # None /\ req[p].on = s /\ line[s] # None
          /\ proc[p].cmd = "logout" => req[p].op = "revoke"
          /\ req[p].pc = "unauthorized" => Dead(s)
      BY <1>0, <2>0, <2>5 DEF Receive, ReceiveFinal, ClientInv, ProcessesOK, SeenBy
    <3>2. CASE req[p].pc = "ok" /\ Succeed(p) /\ proc[p].cmd = "logout"
      <4>1. Dead(s)
        BY <1>0, <3>1, <3>2, RefusedIsDead
      <4>2. /\ \A q \in Requests \ {p} : proc'[q] = proc[q]
            /\ proc'[p].pc = "delete" /\ proc'[p].creds = s
        BY <3>2, StepEffect
      <4>3. UNCHANGED <<sessionVars, now, line, past, req>>
        BY <2>5 DEF Receive, ReceiveFinal, sessionVars
      <4>4. SeenBy(p)'
        BY <3>1, <4>1, <4>2, <4>3 DEF SeenBy, Dead
      <4>5. QED
        BY <4>2, <4>3, <4>4, OwnStepSeen
    <3>3. CASE \/ Step(p, "ok") \/ Step(p, "failed")
               \/ req[p].pc = "unauthorized" /\ (Step(p, "refresh") \/ Step(p, "delete"))
      BY <2>5, <3>1, <3>3, MovesSeen DEF Receive, ReceiveFinal, Moves
    <3>4. QED
      BY <2>5, <3>2, <3>3 DEF Receive, ReceiveFinal, Succeed
  <2>6. CASE ReceiveTokens(p)
    BY <2>0, <2>6, MovesSeen DEF ReceiveTokens, Moves, SeenBy
  <2>7. CASE Save(p)
    <3>1. line[req[p].new] # None
      BY <2>7 DEF Save, ClientInv, ProcessesOK
    <3>2. StepWith(p, "ok", req[p].new) \/ StepWith(p, "resend", req[p].new)
      BY <2>7 DEF Save
    <3>3. UNCHANGED sessionVars
      BY <2>7 DEF Save
    <3>4. QED
      BY <3>1, <3>2, <3>3, TakesSeen
  <2>8. CASE RecoveryTimesOut(p)
    BY <2>0, <2>8, MovesSeen DEF RecoveryTimesOut, Reauthenticate, Moves, SeenBy
  <2>9. CASE Delete(p)
    <3>1. /\ \A q \in Requests \ {p} : proc'[q] = proc[q]
          /\ proc'[p].pc = "loggedOut" /\ proc'[p].creds = s
      BY <2>9, StepEffect DEF Delete
    <3>2. UNCHANGED <<sessionVars, line, req>>
      BY <2>9 DEF Delete, sessionVars
    <3>3. SeenBy(p)'
      BY <2>0, <3>1, <3>2 DEF SeenBy
    <3>4. QED
      BY <3>1, <3>2, <3>3, OwnStepSeen
  <2>10. ASSUME NEW t \in SessionIds, Exchange(p, t) PROVE SeenOK'
    <3>1. /\ \A q \in Requests \ {p} : proc'[q] = proc[q]
          /\ proc'[p].pc = "save" /\ proc'[p].creds = None
      BY <2>0, <2>10, StepEffect DEF Exchange, SeenBy
    <3>2. \A q \in Requests \ {p} : req'[q] = req[q]
      BY <2>10 DEF Exchange, ClientInv, ClientTypeOK, TypeOK
    <3>3. SeenBy(p)'
      BY <3>1 DEF SeenBy
    <3>4. AnyStep
      BY <2>10 DEF Exchange, AnyStep, LoginAnswered
    <3>5. QED
      BY <3>1, <3>2, <3>3, <3>4, OwnStepSeen
  <2>11. ASSUME NEW t \in SessionIds, Refresh(p, t) PROVE SeenOK'
    <3>1. /\ \A q \in Requests \ {p} : proc'[q] = proc[q]
          /\ proc'[p].pc = "refreshing" /\ proc'[p].creds = s
      BY <2>11, StepEffect DEF Refresh
    <3>2. /\ \A q \in Requests \ {p} : req'[q] = req[q]
          /\ UNCHANGED <<now, line, past>>
      BY <2>11 DEF Refresh, RefreshArrives, ClientInv, ClientTypeOK, TypeOK
    <3>3. s \in SessionIds /\ Dead(s)
      BY <1>0, <2>0, <2>11 DEF Refresh, SeenBy
    <3>4. SeenBy(p)'
      BY <2>0, <3>1, <3>2, <3>3 DEF SeenBy, Dead
    <3>5. AnyStep
      BY <2>11, <3>3 DEF Refresh, AnyStep, Arrival
    <3>6. QED
      BY <3>1, <3>2, <3>4, <3>5, OwnStepSeen
  <2>12. QED
    BY <1>4, <2>1, <2>2, <2>3, <2>4, <2>5, <2>6, <2>7, <2>8, <2>9, <2>10, <2>11 DEF ProcessStep
<1>5. ASSUME NEW p \in Requests, GivesUp(p) \/ ClientCrashes(p) PROVE SeenOK'
  BY <1>5, MovesSeen DEF GivesUp, ClientCrashes, Moves
<1>6. QED
  BY <1>1, <1>2, <1>3, <1>4, <1>5 DEF ClientNext, ClientQuiescent

\* Of the tokens it has read itself, a logout removes only dead ones from the file.
THEOREM LogoutRemovesTheDead == ClientSpec => []LogoutRemovesDeadTokens
<1>1. ClientInit => SeenOK
  <2>1. ASSUME ClientInit, NEW p \in Requests
        PROVE  proc[p].pc = "idle" /\ proc[p].creds = None
    BY <2>1 DEF ClientInit
  <2>2. ClientInit => PastOK
    BY DEF ClientInit, SessionInit, PastOK
  <2>3. QED
    BY <2>1, <2>2 DEF SeenOK, SeenBy
<1>2. SeenOK => LogoutRemovesDeadTokens
  BY DEF SeenOK, SeenBy, LogoutRemovesDeadTokens
<1>3. QED
  BY <1>1, <1>2, SeenStep, ClientInvariance, PTL DEF ClientSpec
=============================================================================

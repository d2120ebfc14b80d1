------------------------------ MODULE Sessions ------------------------------
(***************************************************************************)
(* The sessions table of the broker and the requests on it: Authenticate,  *)
(* Refresh and Revoke of internal/auth/service.go over the statements of   *)
(* internal/postgres/store.go.                                             *)
(*                                                                         *)
(* As in DeviceAuthorization, a transaction is one step under its row      *)
(* lock, unless Commit (or the answer of a single statement) is lost; then *)
(* it stays open in tx[s] until the database decides it.                   *)
(*                                                                         *)
(* A session is one pair of tokens; a client that presents a token         *)
(* presents the session.  The line of a session, the login it descends     *)
(* from, is not stored, nor is a row that was deleted: both are kept here   *)
(* to state what rotation and the retention job promise.                   *)
(***************************************************************************)
EXTENDS Integers, FiniteSets

CONSTANTS
  SessionIds,  \* pairs of tokens (random, never drawn twice)
  Requests,    \* executions of the session handlers
  None,        \* SQL NULL
  AccessTTL, RefreshTTL, Retention,
  Horizon,     \* bound: the clock stops here
  Faults       \* which of AllFaults may happen

\* "commit": the outcome of a write may be unknown to its handler;
\* "outage": a statement may fail or outlast its deadline.
AllFaults == {"commit", "outage"}

ASSUME SessionAssumption ==
  /\ None \notin SessionIds \cup Requests
  /\ AccessTTL \in Nat /\ RefreshTTL \in Nat
  /\ Retention \in Nat
  /\ Horizon \in Nat
  /\ Faults \subseteq AllFaults

VARIABLES
  now,     \* the clock
  drawn,   \* token pairs drawn so far
  table,   \* the sessions table
  line,    \* line[s]: the login that session s descends from (ghost)
  past,    \* past[s]: the row of s, also after its deletion (ghost)
  tx,      \* tx[s]: a write on s whose outcome is open
  req      \* the requests

sessionVars == <<now, drawn, table, line, past, tx, req>>

-----------------------------------------------------------------------------
(* The table.                                                              *)

Times == 0..(Horizon + AccessTTL + RefreshTTL)

SessionRow == [status : {"absent", "active", "revoked"},
               access : Times, refresh : Times, revokedAt : Times]

NoSession == [status |-> "absent", access |-> 0, refresh |-> 0, revokedAt |-> 0]

\* insertSession, with the expiries newSession computed at `at`.
NewSession(at) == [status |-> "active", access |-> at + AccessTTL,
                   refresh |-> at + RefreshTTL, revokedAt |-> 0]

Revoked(r, at) == [r EXCEPT !.status = "revoked", !.revokedAt = at]

\* An open write revokes its session at `at` and inserts `next`, if any.
Tx == [open : BOOLEAN, at : 0..Horizon, next : SessionIds \cup {None}]
NoTx == [open |-> FALSE, at |-> 0, next |-> None]
Locked(s) == tx[s].open

\* Operators named Defect... are faulty variants of the operator that follows
\* them; each property of a run is known to fail with one of them in its place.
DefectKeepOld(s, t, at) ==
  /\ table' = [table EXCEPT ![t] = NewSession(at)]
  /\ past' = [past EXCEPT ![t] = NewSession(at)]
  /\ line' = [line EXCEPT ![t] = line[s]]

\* s is revoked and t inserted in its place.
Replace(s, t, at) ==
  /\ table' = [table EXCEPT ![s] = Revoked(table[s], at), ![t] = NewSession(at)]
  /\ past' = [past EXCEPT ![s] = Revoked(table[s], at), ![t] = NewSession(at)]
  /\ line' = [line EXCEPT ![t] = line[s]]

Withdraw(s, at) ==
  /\ table' = [table EXCEPT ![s] = Revoked(table[s], at)]
  /\ past' = [past EXCEPT ![s] = Revoked(table[s], at)]
  /\ UNCHANGED line

Write(s, t, at) == IF t = None THEN Withdraw(s, at) ELSE Replace(s, t, at)

\* The write on s commits, or its outcome is left to the database.
Commit(s, t, at) == Write(s, t, at) /\ UNCHANGED tx
CommitUnknown(s, t, at) ==
  /\ "commit" \in Faults
  /\ tx' = [tx EXCEPT ![s] = [open |-> TRUE, at |-> at, next |-> t]]
  /\ UNCHANGED <<table, line, past>>

-----------------------------------------------------------------------------
(* Requests.                                                               *)

Ops == {"get", "refresh", "revoke"}
Answers == {"ok", "unauthorized", "unavailable"}
Request == [pc : {"idle", "authenticate", "rotate", "confirm", "revoke"} \cup Answers,
            op : Ops, on : SessionIds \cup {None}, new : SessionIds \cup {None}, at : 0..Horizon]

NoRequest == [pc |-> "idle", op |-> "get", on |-> None, new |-> None, at |-> 0]

TypeOK ==
  /\ now \in 0..Horizon
  /\ drawn \subseteq SessionIds
  /\ table \in [SessionIds -> SessionRow]
  /\ line \in [SessionIds -> SessionIds \cup {None}]
  /\ past \in [SessionIds -> SessionRow]
  /\ tx \in [SessionIds -> Tx]
  /\ req \in [Requests -> Request]

SessionInit ==
  /\ now = 0
  /\ drawn = {}
  /\ table = [s \in SessionIds |-> NoSession]
  /\ line = [s \in SessionIds |-> None]
  /\ past = [s \in SessionIds |-> NoSession]
  /\ tx = [s \in SessionIds |-> NoTx]
  /\ req = [r \in Requests |-> NoRequest]

\* Request r proceeds to pc with a new clock reading, or is answered.
Goto(r, pc) == req' = [req EXCEPT ![r] = [@ EXCEPT !.pc = pc, !.at = now]]
Answer(r, pc) == req' = [req EXCEPT ![r] = [@ EXCEPT !.pc = pc, !.at = 0]]

\* A request slot is free, or its client has its answer.
Free(r) == req[r].pc \in {"idle"} \cup Answers

-----------------------------------------------------------------------------
(* The clock, the retention job and the database finishing open writes.    *)

Tick == /\ now < Horizon
        /\ now' = now + 1
        /\ UNCHANGED <<drawn, table, line, past, tx, req>>

WriteLands(s) ==
  /\ Locked(s)
  /\ Write(s, tx[s].next, tx[s].at)
  /\ tx' = [tx EXCEPT ![s] = NoTx]
  /\ UNCHANGED <<now, drawn, req>>

WriteLost(s) ==
  /\ Locked(s)
  /\ tx' = [tx EXCEPT ![s] = NoTx]
  /\ UNCHANGED <<now, drawn, table, line, past, req>>

\* PruneAuthenticationState, the session half.
DefectPruneEarly ==
  {s \in SessionIds :
     \/ table[s].status # "absent" /\ table[s].access + Retention <= now
     \/ table[s].status = "revoked" /\ table[s].revokedAt + Retention < now}

Prunable ==
  {s \in SessionIds :
     \/ /\ table[s].status # "absent"
        /\ table[s].refresh + Retention < now /\ table[s].access + Retention < now
     \/ table[s].status = "revoked" /\ table[s].revokedAt + Retention < now}

Prune ==
  /\ Prunable # {}
  /\ \A s \in Prunable : ~Locked(s)
  /\ table' = [s \in SessionIds |-> IF s \in Prunable THEN NoSession ELSE table[s]]
  /\ UNCHANGED <<now, drawn, line, past, tx, req>>

-----------------------------------------------------------------------------
(* The handlers.                                                           *)

\* ExchangeDeviceAuthorization inserts the first session of a login.
Login(s) ==
  /\ s \notin drawn
  /\ drawn' = drawn \cup {s}
  /\ table' = [table EXCEPT ![s] = NewSession(now)]
  /\ past' = [past EXCEPT ![s] = NewSession(now)]
  /\ line' = [line EXCEPT ![s] = s]
  /\ UNCHANGED <<now, tx>>

\* Authenticate of a request with the access token of s; DELETE sessions/current
\* goes on to Revoke.
AccessArrives(r, s, op) ==
  /\ Free(r)
  /\ op \in {"get", "revoke"}
  /\ req' = [req EXCEPT ![r] = [pc |-> "authenticate", op |-> op, on |-> s,
                                new |-> None, at |-> now]]
  /\ UNCHANGED <<now, drawn, table, line, past, tx>>

\* GetSessionByAccessToken finds s.
Usable(s, at) == table[s].status = "active" /\ table[s].access > at

Authenticate(r) ==
  LET s == req[r].on IN
  /\ req[r].pc = "authenticate"
  /\ \/ /\ Usable(s, req[r].at)
        /\ IF req[r].op = "revoke" THEN Goto(r, "revoke") ELSE Answer(r, "ok")
     \/ ~Usable(s, req[r].at) /\ Answer(r, "unauthorized")
     \/ "outage" \in Faults /\ Answer(r, "unavailable")
  /\ UNCHANGED <<now, drawn, table, line, past, tx>>

\* RevokeSession: one UPDATE of a session not revoked yet, expired or not.
RevokeSession(r) ==
  LET s == req[r].on IN
  /\ req[r].pc = "revoke"
  /\ ~Locked(s)
  /\ table[s].status = "active"
  /\ \/ Commit(s, None, req[r].at) /\ Answer(r, "ok")
     \/ CommitUnknown(s, None, req[r].at) /\ Answer(r, "unavailable")
  /\ UNCHANGED <<now, drawn>>

RevokeRefused(r) ==
  /\ req[r].pc = "revoke"
  /\ ~Locked(req[r].on)
  /\ table[req[r].on].status # "active"
  /\ Answer(r, "unauthorized")
  /\ UNCHANGED <<now, drawn, table, line, past, tx>>

\* Refresh with the refresh token of s: newSession draws the replacement t.
RefreshArrives(r, s, t) ==
  /\ Free(r)
  /\ t \notin drawn
  /\ drawn' = drawn \cup {t}
  /\ req' = [req EXCEPT ![r] = [pc |-> "rotate", op |-> "refresh", on |-> s,
                                new |-> t, at |-> now]]
  /\ UNCHANGED <<now, table, line, past, tx>>

DefectRotateRevoked(s, at) == table[s].status # "absent" /\ table[s].refresh > at
CanRotate(s, at) == table[s].status = "active" /\ table[s].refresh > at

RotateSession(r) ==
  LET s == req[r].on IN
  /\ req[r].pc = "rotate"
  /\ ~Locked(s)
  /\ CanRotate(s, req[r].at)
  /\ \/ Commit(s, req[r].new, req[r].at) /\ Answer(r, "ok")
     \/ /\ CommitUnknown(s, req[r].new, req[r].at)
        /\ req' = [req EXCEPT ![r] = [@ EXCEPT !.pc = "confirm"]]
  /\ UNCHANGED <<now, drawn>>

RotateRefused(r) ==
  /\ req[r].pc = "rotate"
  /\ ~Locked(req[r].on)
  /\ ~CanRotate(req[r].on, req[r].at)
  /\ Answer(r, "unauthorized")
  /\ UNCHANGED <<now, drawn, table, line, past, tx>>

\* confirmSessionCommit looks the replacement up by its access token.
DefectTrustCommit(r) ==
  /\ req[r].pc = "confirm"
  /\ Answer(r, "ok")
  /\ UNCHANGED <<now, drawn, table, line, past, tx>>

ConfirmRotation(r) ==
  /\ req[r].pc = "confirm"
  /\ \/ Usable(req[r].new, req[r].at) /\ Answer(r, "ok")
     \/ /\ ~Usable(req[r].new, req[r].at) \/ "outage" \in Faults
        /\ Answer(r, "unavailable")
  /\ UNCHANGED <<now, drawn, table, line, past, tx>>

RequestFails(r) ==
  /\ req[r].pc \in {"rotate", "revoke"} /\ "outage" \in Faults
  /\ Answer(r, "unavailable")
  /\ UNCHANGED <<now, drawn, table, line, past, tx>>

-----------------------------------------------------------------------------

HandlerStep(r) ==
  \/ Authenticate(r) \/ RevokeSession(r) \/ RevokeRefused(r) \/ RequestFails(r)
  \/ RotateSession(r) \/ RotateRefused(r) \/ ConfirmRotation(r)

DatabaseStep == Prune \/ \E s \in SessionIds : WriteLands(s) \/ WriteLost(s)

\* The server's own steps.
ServerStep == Tick \/ DatabaseStep \/ \E r \in Requests : HandlerStep(r)

\* What any client may send: a token of a session that was ever drawn.
ClientStep ==
  \/ \E s \in SessionIds : Login(s) /\ UNCHANGED req
  \/ \E r \in Requests, s \in drawn :
       \/ \E op \in Ops : AccessArrives(r, s, op)
       \/ \E t \in SessionIds : RefreshArrives(r, s, t)

\* The bounds are used up.
SessionQuiescent ==
  /\ now = Horizon /\ drawn = SessionIds
  /\ \A s \in SessionIds : ~Locked(s)
  /\ \A r \in Requests : Free(r)
  /\ UNCHANGED sessionVars

SessionNext == ServerStep \/ ClientStep \/ SessionQuiescent

SessionSpec == SessionInit /\ [][SessionNext]_sessionVars

-----------------------------------------------------------------------------
(* Properties.                                                             *)

Active(s) == table[s].status = "active"

\* Of the sessions that descend from one login at most one is active, however
\* its refreshes, their retries and lost commits overlap ("Transactional rotation
\* and revocation under row lock", docs/threat-model.md).
OneActivePerLine ==
  \A s, t \in SessionIds : Active(s) /\ Active(t) /\ line[s] = line[t] => s = t

\* A refresh token is good for one refresh: of two requests that presented it at
\* most one was given new tokens.
RefreshedOnce ==
  \A q, r \in Requests :
    /\ req[q].op = "refresh" /\ req[r].op = "refresh"
    /\ req[q].pc = "ok" /\ req[r].pc = "ok"
    /\ req[q].on = req[r].on
    => q = r

\* The tokens handed out by a refresh belong to a session that was committed, in
\* the line of the session that was refreshed.
RefreshedIsStored ==
  \A r \in Requests :
    req[r].op = "refresh" /\ req[r].pc = "ok" =>
      line[req[r].new] # None /\ line[req[r].new] = line[req[r].on]

\* A refresh buys its caller a stored session, and no other caller a second one.
RefreshIsSound == RefreshedOnce /\ RefreshedIsStored

\* A revocation that was confirmed ends the whole line: no descendant of the
\* login is active, nor is about to be by a write that is still open.
RevocationEndsLine ==
  \A r \in Requests :
    req[r].op = "revoke" /\ req[r].pc = "ok" =>
      \A s \in SessionIds : line[s] = line[req[r].on] => ~Active(s) /\ ~Locked(s)

\* Nobody is logged out without a reason: a token is refused when it has expired, or
\* its session was revoked or not (yet) stored.  The retention job must not make that of
\* a session which is still good for a refresh.
Deadline(r) == IF req[r].op = "refresh" THEN past[req[r].on].refresh ELSE past[req[r].on].access

RefusedForAReason ==
  [][\A r \in Requests : req'[r].pc = "unauthorized" /\ req[r].pc # "unauthorized" =>
       past[req[r].on].status # "active" \/ Deadline(r) <= now]_sessionVars

\* Implementation of the abstract line.
headBar == [l \in SessionIds |-> {s \in SessionIds : Active(s) /\ line[s] = l}]

Line == INSTANCE SessionLine WITH
          Sessions <- SessionIds,
          head <- headBar,
          started <- {s \in SessionIds : line[s] = s}

ImplementsLine == Line!LSpec

-----------------------------------------------------------------------------
(* The inductive invariant.                                                *)

\* A row was inserted once, of a drawn pair, into the line of a login; an open
\* write holds an active row, and inserts a pair nobody else will insert.
StoreOK ==
  /\ \A s \in SessionIds :
       /\ table[s].status # "absent" => line[s] # None
       /\ line[s] # None => s \in drawn /\ line[line[s]] = line[s]
       /\ Locked(s) => Active(s)
       /\ Locked(s) /\ tx[s].next # None => tx[s].next \in drawn /\ line[tx[s].next] = None
  /\ \A s, u \in SessionIds :
       Locked(s) /\ Locked(u) /\ tx[s].next # None /\ tx[s].next = tx[u].next => s = u

\* A refresh inserts its own pair, in place of the session it presented.
RefreshesOK ==
  /\ \A r \in Requests : req[r].op = "refresh" =>
       /\ req[r].new \in drawn /\ req[r].on \in SessionIds
       /\ req[r].pc = "rotate" => line[req[r].new] = None
       /\ req[r].pc = "ok" => line[req[r].new] # None
       /\ line[req[r].new] # None => line[req[r].new] = line[req[r].on] /\ ~Active(req[r].on)
       /\ \A s \in SessionIds : Locked(s) /\ tx[s].next = req[r].new =>
            s = req[r].on /\ req[r].pc # "rotate"
  /\ \A q, r \in Requests : req[q].op = "refresh" /\ req[r].op = "refresh" =>
       /\ req[q].new = req[r].new => q = r
       /\ /\ req[q].on = req[r].on
          /\ line[req[q].new] # None /\ line[req[r].new] # None
          => q = r

\* Where a request is decides what it is, and what its session was.
RequestsOK ==
  \A r \in Requests :
    /\ req[r].pc \in {"rotate", "confirm"} => req[r].op = "refresh"
    /\ req[r].pc \in {"authenticate", "revoke"} => req[r].op # "refresh"
    /\ req[r].pc \in {"authenticate", "revoke"} => req[r].on \in SessionIds
    /\ req[r].op = "revoke" /\ req[r].pc = "ok" =>
         /\ req[r].on \in SessionIds /\ line[req[r].on] # None
         /\ \A s \in SessionIds : line[s] = line[req[r].on] => ~Active(s)

\* A row is deleted when it is revoked, or when both its tokens have expired; a request
\* carries a reading of the past.
HistoryOK ==
  /\ \A s \in SessionIds :
       /\ IF table[s].status # "absent" THEN past[s] = table[s]
          ELSE past[s].status = "active" => past[s].access <= now /\ past[s].refresh <= now
       /\ line[s] = None => past[s].status = "absent"
  /\ \A r \in Requests : req[r].at <= now

\* One active session per line is inductive only with what rotation relies on:
\* a pair is inserted once, a locked row does not change, and a refresh inserts
\* into the line of the session it presented.
SessionInv == TypeOK /\ StoreOK /\ RefreshesOK /\ RequestsOK /\ OneActivePerLine /\ HistoryOK
=============================================================================

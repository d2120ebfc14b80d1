------------------------- MODULE DeviceAuthorization -------------------------
(***************************************************************************)
(* The device flow of the broker: the device_authorizations table, the     *)
(* transactions of internal/postgres/store.go on it, and the two handlers  *)
(* of internal/auth/service.go that run over several of them, the OAuth    *)
(* callback (CompleteAuthorization) and the token poll                     *)
(* (ExchangeDeviceAuthorization).                                          *)
(*                                                                         *)
(* A transaction locks its row with SELECT ... FOR UPDATE, so it is one    *)
(* step, except when Commit returns an error: then nobody knows whether    *)
(* PostgreSQL applied it.  Such a transaction stays in tx[d], holding the  *)
(* row lock, until it lands or is lost, while its handler carries on.      *)
(*                                                                         *)
(* service.now() is evaluated before the repository is called; `at` is     *)
(* that reading, and the clock may move before the row is locked.          *)
(***************************************************************************)
EXTENDS Integers, FiniteSets

CONSTANTS
  Devices,        \* device codes (random, never issued twice)
  Confirmations,  \* values of the browser's confirmation cookie
  Users,          \* enterprise users that DingTalk may identify
  Callbacks,      \* executions of the OAuth callback handler
  Polls,          \* executions of the device token handler
  None,           \* SQL NULL
  TTL,            \* lifetime of a device code
  Retention,      \* how long an expired row is kept
  Horizon,        \* bound: the clock stops here
  Faults          \* which of AllFaults may happen

\* "commit": Commit may fail with an unknown outcome;
\* "outage": a statement or a lookup may fail, or outlast its deadline;
\* "crash": a request may die with its process.
AllFaults == {"commit", "outage", "crash"}

ASSUME DeviceAssumption ==
  /\ None \notin Confirmations \cup Users \cup Polls \cup Devices
  /\ TTL \in Nat \ {0}
  /\ Retention \in Nat
  /\ Horizon \in Nat
  /\ Faults \subseteq AllFaults

VARIABLES
  now,        \* the clock
  issued,     \* device codes ever created
  row,        \* the device_authorizations table
  tx,         \* tx[d]: a transaction on d whose commit outcome is open
  redirects,  \* OAuth states handed to a browser: <<device, confirmation>>
  cb,         \* the callback requests
  poll,       \* the poll requests
  sessions    \* every session ever inserted by an exchange

vars == <<now, issued, row, tx, redirects, cb, poll, sessions>>

-----------------------------------------------------------------------------
(* The table.  A missing row has status "absent".  The state hash is an    *)
(* HMAC of the user code and the confirmation, so within a row it is       *)
(* identified by the confirmation.                                         *)

Statuses == {"absent", "pending", "authorizing", "approved", "denied", "consumed"}
Times == 0..(Horizon + TTL)

Row == [status  : Statuses,
        state   : Confirmations \cup {None},
        user    : Users \cup {None},
        expires : Times]

NoRow == [status |-> "absent", state |-> None, user |-> None, expires |-> 0]
NewRow == [status |-> "pending", state |-> None, user |-> None, expires |-> now + TTL]

\* Operators named Defect... are faulty variants of the operator that follows
\* them; each property of a run is known to fail with one of them in its place.
DefectNotConsumed(r) == r

Bound(r, k)    == [r EXCEPT !.state = k]
Claimed(r)     == [r EXCEPT !.status = "authorizing"]
Approved(r, u) == [r EXCEPT !.status = "approved", !.user = u, !.state = None]
Denied(r)      == [r EXCEPT !.status = "denied", !.state = None]
Consumed(r)    == [r EXCEPT !.status = "consumed"]

Exists(r)      == r.status # "absent"
Expired(r, at) == r.expires <= at

SessionRecord == [dev : Devices, user : Users, poll : Polls]
Session(d, p) == [dev |-> d, user |-> row[d].user, poll |-> p]

\* An open transaction: the row and the sessions it would commit.
Tx == [open : BOOLEAN, row : Row, sessions : SUBSET SessionRecord]
NoTx == [open |-> FALSE, row |-> NoRow, sessions |-> {}]
Locked(d) == tx[d].open

\* A transaction on d that writes r and inserts the sessions S commits.
Commit(d, r, S) ==
  /\ row' = [row EXCEPT ![d] = r]
  /\ sessions' = sessions \cup S
  /\ UNCHANGED tx

\* Its Commit call fails and its outcome is left to the database.
CommitUnknown(d, r, S) ==
  /\ "commit" \in Faults
  /\ tx' = [tx EXCEPT ![d] = [open |-> TRUE, row |-> r, sessions |-> S]]
  /\ UNCHANGED <<row, sessions>>

table == <<row, tx, sessions>>

-----------------------------------------------------------------------------
(* Requests.                                                               *)

CallbackPCs == {"idle", "claim", "confirm", "identify", "complete", "reject",
                "ok", "refused", "rejected", "failed", "crashed", "abandoned"}
CallbackDone == {"ok", "refused", "rejected", "failed", "crashed", "abandoned"}

Callback == [pc : CallbackPCs, dev : Devices \cup {None},
             state : Confirmations \cup {None}, user : Users \cup {None}, at : 0..Horizon]

PollPCs == {"idle", "exchange", "confirm", "granted", "pending", "denied", "used",
            "expired", "conflict", "unauthorized", "unavailable", "crashed"}
PollDone == PollPCs \ {"idle", "exchange", "confirm"}

Poll == [pc : PollPCs, dev : Devices \cup {None}, at : 0..Horizon]

TypeOK ==
  /\ now \in 0..Horizon
  /\ issued \subseteq Devices
  /\ row \in [Devices -> Row]
  /\ tx \in [Devices -> Tx]
  /\ redirects \subseteq Devices \X Confirmations
  /\ cb \in [Callbacks -> Callback]
  /\ poll \in [Polls -> Poll]
  /\ sessions \subseteq SessionRecord

Init ==
  /\ now = 0
  /\ issued = {}
  /\ row = [d \in Devices |-> NoRow]
  /\ tx = [d \in Devices |-> NoTx]
  /\ redirects = {}
  /\ cb = [c \in Callbacks |->
             [pc |-> "idle", dev |-> None, state |-> None, user |-> None, at |-> 0]]
  /\ poll = [p \in Polls |-> [pc |-> "idle", dev |-> None, at |-> 0]]
  /\ sessions = {}

\* Callback c proceeds to step pc; a step that calls the repository reads the clock.
Goto(c, pc) == cb' = [cb EXCEPT ![c] = [@ EXCEPT !.pc = pc, !.at = now]]

\* Answers that tell how the row was judged at the reading a request carried; with any
\* other answer the reading is forgotten.
CallbackVerdicts == {"ok", "rejected"}
PollVerdicts == {"granted", "pending", "denied", "used", "expired"}

\* A poll that found its device alive, and one that waits to learn whether it has its session.
PollJudged == (PollVerdicts \ {"expired"}) \cup {"confirm"}

CallbackReading(c, pc) == IF pc \in CallbackVerdicts THEN cb[c].at ELSE 0
PollReading(p, pc)     == IF pc \in PollVerdicts THEN poll[p].at ELSE 0

\* Callback c, or poll p, is answered.
Return(c, pc) == cb' = [cb EXCEPT ![c] = [@ EXCEPT !.pc = pc, !.at = CallbackReading(c, pc)]]
Answer(p, pc) == poll' = [poll EXCEPT ![p] = [@ EXCEPT !.pc = pc, !.at = PollReading(p, pc)]]

-----------------------------------------------------------------------------
(* The clock, and the database finishing what a handler left open.         *)

Tick == /\ now < Horizon
        /\ now' = now + 1
        /\ UNCHANGED <<issued, row, tx, redirects, cb, poll, sessions>>

CommitLands(d) ==
  /\ Locked(d)
  /\ row' = [row EXCEPT ![d] = tx[d].row]
  /\ sessions' = sessions \cup tx[d].sessions
  /\ tx' = [tx EXCEPT ![d] = NoTx]
  /\ UNCHANGED <<now, issued, redirects, cb, poll>>

CommitLost(d) ==
  /\ Locked(d)
  /\ tx' = [tx EXCEPT ![d] = NoTx]
  /\ UNCHANGED <<now, issued, row, redirects, cb, poll, sessions>>

-----------------------------------------------------------------------------
(* Requests of one transaction.                                            *)

\* CreateDeviceAuthorization: a fresh pair of codes (the loop draws another
\* pair when the user code is taken) is inserted.
CreateDevice(d) ==
  /\ d \notin issued
  /\ issued' = issued \cup {d}
  /\ row' = [row EXCEPT ![d] = NewRow]
  /\ UNCHANGED <<now, tx, redirects, cb, poll, sessions>>

\* The clock readings a request on d may carry: it was made after d was.
Readings(d) == (row[d].expires - TTL)..now

\* Whoever asks last is bound.
DefectRebound(r, k, at) == r.status = "pending" /\ ~Expired(r, at)

\* BindOAuthState would accept confirmation k: a first binding, or the same again.
CanBind(r, k, at) ==
  /\ r.status = "pending"
  /\ ~Expired(r, at)
  /\ r.state \in {None, k}

\* StartAuthorization: the state is bound and the browser redirected with it.
StartAuthorization(d, k) ==
  /\ Exists(row[d]) /\ ~Locked(d)
  /\ \E at \in Readings(d) : CanBind(row[d], k, at)
  /\ row' = [row EXCEPT ![d] = Bound(row[d], k)]
  /\ redirects' = redirects \cup {<<d, k>>}
  /\ UNCHANGED <<now, issued, tx, cb, poll, sessions>>

\* Its commit landed but was reported as a failure: bound, no redirect.
StartAuthorizationUnknown(d, k) ==
  /\ "commit" \in Faults
  /\ Exists(row[d]) /\ ~Locked(d)
  /\ row[d].state = None
  /\ \E at \in Readings(d) : CanBind(row[d], k, at)
  /\ row' = [row EXCEPT ![d] = Bound(row[d], k)]
  /\ UNCHANGED <<now, issued, tx, redirects, cb, poll, sessions>>

\* RejectAuthorization: the user declined consent, DingTalk calls back with an error.
RejectAuthorization(d, k) ==
  /\ <<d, k>> \in redirects
  /\ ~Locked(d)
  /\ row[d].status = "pending" /\ row[d].state = k
  /\ \E at \in Readings(d) : ~Expired(row[d], at)
  /\ row' = [row EXCEPT ![d] = Denied(row[d])]
  /\ UNCHANGED <<now, issued, tx, redirects, cb, poll, sessions>>

\* PruneAuthenticationState, the device half: rows expired before the retention
\* window are deleted in one statement, which waits for their locks.
Prunable == {d \in Devices : Exists(row[d]) /\ row[d].expires + Retention < now}

Prune ==
  /\ Prunable # {}
  /\ \A d \in Prunable : ~Locked(d)
  /\ row' = [d \in Devices |-> IF d \in Prunable THEN NoRow ELSE row[d]]
  /\ UNCHANGED <<now, issued, tx, redirects, cb, poll, sessions>>

-----------------------------------------------------------------------------
(* The OAuth callback: CompleteAuthorization and its deferred              *)
(* rejectClaimedAuthorization.                                             *)

\* DingTalk redirects the browser back with a code; a reload repeats it.
CallbackArrives(c, d, k) ==
  /\ cb[c].pc = "idle"
  /\ <<d, k>> \in redirects
  /\ cb' = [cb EXCEPT ![c] = [pc |-> "claim", dev |-> d, state |-> k,
                              user |-> None, at |-> now]]
  /\ UNCHANGED <<now, issued, row, tx, redirects, poll, sessions>>

\* ClaimOAuthState takes the row whose state hash matches.
DefectClaimAgain(r, k, at) == r.state = k /\ ~Expired(r, at)
CanClaim(r, k, at) ==
  /\ r.status = "pending" /\ r.state = k
  /\ ~Expired(r, at)

ClaimRefused(c) ==
  /\ cb[c].pc = "claim"
  /\ \/ "outage" \in Faults
     \/ /\ ~Locked(cb[c].dev)
        /\ ~CanClaim(row[cb[c].dev], cb[c].state, cb[c].at)
  /\ Return(c, "refused")
  /\ UNCHANGED <<now, issued, row, tx, redirects, poll, sessions>>

ClaimOAuthState(c) ==
  LET d == cb[c].dev IN
  /\ cb[c].pc = "claim"
  /\ ~Locked(d)
  /\ CanClaim(row[d], cb[c].state, cb[c].at)
  /\ \/ /\ Commit(d, Claimed(row[d]), {})
        /\ Return(c, "identify")
     \/ /\ CommitUnknown(d, Claimed(row[d]), {})
        /\ cb' = [cb EXCEPT ![c] = [@ EXCEPT !.pc = "confirm"]]
  /\ UNCHANGED <<now, issued, redirects, poll>>

\* confirmOAuthStateClaim: a plain read, which waits for no lock and takes any
\* row with this state that is being authorized for its own.
ClaimVisible(r, k, at) ==
  /\ r.status = "authorizing" /\ r.state = k
  /\ ~Expired(r, at)

ConfirmClaim(c) ==
  /\ cb[c].pc = "confirm"
  /\ \/ /\ ClaimVisible(row[cb[c].dev], cb[c].state, cb[c].at)
        /\ Return(c, "identify")
     \/ /\ \/ ~ClaimVisible(row[cb[c].dev], cb[c].state, cb[c].at)
           \/ "outage" \in Faults
        /\ Return(c, "refused")
  /\ UNCHANGED <<now, issued, row, tx, redirects, poll, sessions>>

\* DingTalk exchanges the code and names the user, or one of the three calls
\* fails or fails its check.
DefectNoRejection(c) ==
  /\ cb[c].pc = "identify"
  /\ \/ \E u \in Users :
          cb' = [cb EXCEPT ![c] = [@ EXCEPT !.pc = "complete", !.user = u, !.at = now]]
     \/ Return(c, "failed")
  /\ UNCHANGED <<now, issued, row, tx, redirects, poll, sessions>>

Identify(c) ==
  /\ cb[c].pc = "identify"
  /\ \/ \E u \in Users :
          cb' = [cb EXCEPT ![c] = [@ EXCEPT !.pc = "complete", !.user = u, !.at = now]]
     \/ Goto(c, "reject")
  /\ UNCHANGED <<now, issued, row, tx, redirects, poll, sessions>>

\* CompleteDeviceAuthorization approves a row that is being authorized.
CanComplete(r, at) == r.status = "authorizing" /\ ~Expired(r, at)

\* It is refused when the row is not being authorized any more, and when the user's
\* union ID is stored for another user: the upsert of the user then violates a
\* constraint, whatever the row.
CompleteRefused(c) ==
  /\ cb[c].pc = "complete"
  /\ "outage" \in Faults \/ ~Locked(cb[c].dev)
  /\ Goto(c, "reject")
  /\ UNCHANGED <<now, issued, row, tx, redirects, poll, sessions>>

CompleteDeviceAuthorization(c) ==
  LET d == cb[c].dev IN
  /\ cb[c].pc = "complete"
  /\ ~Locked(d)
  /\ CanComplete(row[d], cb[c].at)
  /\ \/ /\ Commit(d, Approved(row[d], cb[c].user), {})
        /\ Return(c, "ok")
     \/ /\ CommitUnknown(d, Approved(row[d], cb[c].user), {})
        /\ Goto(c, "reject")
  /\ UNCHANGED <<now, issued, redirects, poll>>

\* RejectDeviceAuthorization denies a row that is being authorized.
DefectRejectApproved(r, at) == r.status \in {"authorizing", "approved"} /\ ~Expired(r, at)
CanReject(r, at) == r.status = "authorizing" /\ ~Expired(r, at)
AlreadyRejected(r, at) == r.status = "denied" /\ ~Expired(r, at)

RejectDeviceAuthorization(c) ==
  LET d == cb[c].dev IN
  /\ cb[c].pc = "reject"
  /\ ~Locked(d)
  /\ CanReject(row[d], cb[c].at)
  /\ \/ /\ Commit(d, Denied(row[d]), {})
        /\ Return(c, "rejected")
     \/ /\ CommitUnknown(d, Denied(row[d]), {})
        /\ Goto(c, "reject")
  /\ UNCHANGED <<now, issued, redirects, poll>>

\* Nothing is left to reject: nil for a denied row, an error for any other.
RejectRefused(c) ==
  LET d == cb[c].dev IN
  /\ cb[c].pc = "reject"
  /\ ~Locked(d)
  /\ ~CanReject(row[d], cb[c].at)
  /\ Return(c, IF AlreadyRejected(row[d], cb[c].at) THEN "rejected" ELSE "failed")
  /\ UNCHANGED <<now, issued, row, tx, redirects, poll, sessions>>

\* An unavailable database is tried again with a new clock reading ...
RejectRetries(c) ==
  /\ cb[c].pc = "reject" /\ "outage" \in Faults
  /\ Goto(c, "reject")
  /\ UNCHANGED <<now, issued, row, tx, redirects, poll, sessions>>

\* ... until the five seconds of the rejection are over: the device is left as it is.
RejectTimesOut(c) ==
  /\ cb[c].pc = "reject" /\ "outage" \in Faults
  /\ Return(c, "abandoned")
  /\ UNCHANGED <<now, issued, row, tx, redirects, poll, sessions>>

\* The process dies; a callback past its claim leaves the device "authorizing", since
\* the deferred rejection dies with it.
CallbackCrashes(c) ==
  /\ "crash" \in Faults
  /\ \/ cb[c].pc \in {"claim", "confirm"} /\ Return(c, "crashed")
     \/ cb[c].pc \in {"identify", "complete", "reject"} /\ Return(c, "abandoned")
  /\ UNCHANGED <<now, issued, row, tx, redirects, poll, sessions>>

-----------------------------------------------------------------------------
(* The token poll: ExchangeDeviceAuthorization.                            *)

PollArrives(p, d) ==
  /\ poll[p].pc = "idle"
  /\ d \in issued
  /\ poll' = [poll EXCEPT ![p] = [pc |-> "exchange", dev |-> d, at |-> now]]
  /\ UNCHANGED <<now, issued, row, tx, redirects, cb, sessions>>

\* The expiry is left to the status.
DefectNoExpiry(r, at) == r.status = "approved" /\ r.user # None
CanExchange(r, at) == r.status = "approved" /\ ~Expired(r, at) /\ r.user # None

\* What a row that cannot be exchanged is answered.
ExchangeError(r, at) ==
  CASE r.status = "absent" -> "unauthorized"
    [] Exists(r) /\ Expired(r, at) -> "expired"
    [] ~Expired(r, at) /\ r.status \in {"pending", "authorizing"} -> "pending"
    [] ~Expired(r, at) /\ r.status = "denied" -> "denied"
    [] ~Expired(r, at) /\ r.status = "consumed" -> "used"
    [] ~Expired(r, at) /\ r.status = "approved" -> "conflict"  \* it has no user

ExchangeRefused(p) ==
  LET r == row[poll[p].dev] IN
  /\ poll[p].pc = "exchange"
  /\ ~Locked(poll[p].dev)
  /\ ~CanExchange(r, poll[p].at)
  /\ Answer(p, ExchangeError(r, poll[p].at))
  /\ UNCHANGED <<now, issued, row, tx, redirects, cb, sessions>>

ExchangeDeviceAuthorization(p) ==
  LET d == poll[p].dev IN
  /\ poll[p].pc = "exchange"
  /\ ~Locked(d)
  /\ CanExchange(row[d], poll[p].at)
  /\ \/ /\ Commit(d, Consumed(row[d]), {Session(d, p)})
        /\ Answer(p, "granted")
     \/ /\ CommitUnknown(d, Consumed(row[d]), {Session(d, p)})
        /\ poll' = [poll EXCEPT ![p] = [@ EXCEPT !.pc = "confirm"]]
  /\ UNCHANGED <<now, issued, redirects, cb>>

\* confirmSessionCommit looks for the session by the access token it made up.
DefectTrustCommit(p) ==
  /\ poll[p].pc = "confirm"
  /\ Answer(p, "granted")
  /\ UNCHANGED <<now, issued, row, tx, redirects, cb, sessions>>

ConfirmSession(p) ==
  LET found == \E s \in sessions : s.poll = p IN
  /\ poll[p].pc = "confirm"
  /\ \/ found /\ Answer(p, "granted")
     \/ (~found \/ "outage" \in Faults) /\ Answer(p, "unavailable")
  /\ UNCHANGED <<now, issued, row, tx, redirects, cb, sessions>>

PollFails(p) ==
  /\ poll[p].pc = "exchange" /\ "outage" \in Faults
  /\ Answer(p, "unavailable")
  /\ UNCHANGED <<now, issued, row, tx, redirects, cb, sessions>>

\* command_login goes on polling while it is told "pending" or "unavailable".
PollAgain(p) ==
  /\ poll[p].pc \in {"pending", "unavailable"}
  /\ poll' = [poll EXCEPT ![p] = [@ EXCEPT !.pc = "exchange", !.at = now]]
  /\ UNCHANGED <<now, issued, row, tx, redirects, cb, sessions>>

PollCrashes(p) ==
  /\ "crash" \in Faults
  /\ poll[p].pc \in {"exchange", "confirm"}
  /\ Answer(p, "crashed")
  /\ UNCHANGED <<now, issued, row, tx, redirects, cb, sessions>>

-----------------------------------------------------------------------------

\* The bounds are used up: no request is left, the clock is at the horizon.
Quiescent ==
  /\ now = Horizon
  /\ \A d \in Devices : ~Locked(d)
  /\ \A c \in Callbacks : cb[c].pc \in CallbackDone \cup {"idle"}
  /\ \A p \in Polls : poll[p].pc \in PollDone \cup {"idle"}
  /\ UNCHANGED vars

DatabaseStep(d) == CommitLands(d) \/ CommitLost(d)

BrowserStep(d) ==
  \/ CreateDevice(d)
  \/ \E k \in Confirmations :
       StartAuthorization(d, k) \/ StartAuthorizationUnknown(d, k) \/ RejectAuthorization(d, k)

CallbackStep(c) ==
  \/ ClaimRefused(c) \/ ClaimOAuthState(c) \/ ConfirmClaim(c) \/ Identify(c)
  \/ CompleteRefused(c) \/ CompleteDeviceAuthorization(c)
  \/ RejectDeviceAuthorization(c) \/ RejectRefused(c) \/ RejectTimesOut(c)

PollStep(p) ==
  ExchangeRefused(p) \/ ExchangeDeviceAuthorization(p) \/ ConfirmSession(p) \/ PollFails(p)

Next ==
  \/ Tick \/ Prune \/ Quiescent
  \/ \E d \in Devices : DatabaseStep(d) \/ BrowserStep(d)
  \/ \E c \in Callbacks :
       \/ \E d \in Devices, k \in Confirmations : CallbackArrives(c, d, k)
       \/ CallbackStep(c) \/ RejectRetries(c) \/ CallbackCrashes(c)
  \/ \E p \in Polls :
       \/ \E d \in Devices : PollArrives(p, d)
       \/ PollStep(p) \/ PollAgain(p) \/ PollCrashes(p)

Spec == Init /\ [][Next]_vars

\* The handlers run to their end under their deadlines and PostgreSQL decides
\* every open transaction; nobody promises that a browser or a client acts.
Fairness ==
  /\ \A d \in Devices : WF_vars(DatabaseStep(d))
  /\ \A c \in Callbacks : WF_vars(CallbackStep(c))
  /\ \A p \in Polls : WF_vars(PollStep(p))

FairSpec == Spec /\ Fairness

-----------------------------------------------------------------------------
(* Properties.                                                             *)

\* A device code buys at most one session, however its polls, their retries
\* and commits of unknown outcome overlap ("Atomically consume device code").
OneSessionPerDevice ==
  \A s, t \in sessions : s.dev = t.dev => s = t

\* The callbacks that got past the claim of a device.
Claimants(d) ==
  {c \in Callbacks : /\ cb[c].dev = d
                     /\ cb[c].pc \in {"identify", "complete", "reject",
                                      "ok", "rejected", "failed", "abandoned"}}

\* A device belongs to the browser that confirmed it first (BindOAuthState): whoever
\* opens the link later is not sent to DingTalk for it, only callbacks of that browser
\* get past the claim, and a session goes to a user whom DingTalk named to one of them.
OneBrowserPerDevice ==
  \A d \in Devices, k \in Confirmations : <<d, k>> \in redirects =>
    /\ \A c \in Claimants(d) : cb[c].state = k
    /\ \A s \in sessions : s.dev = d =>
         \E c \in Callbacks : cb[c].dev = d /\ cb[c].state = k /\ cb[c].user = s.user

\* "Authorization complete" on a user's screen is final: the row is approved for
\* that user, or was exchanged by that user, or has been pruned.
ReportedApprovalStands ==
  \A c \in Callbacks : cb[c].pc = "ok" =>
    \/ row[cb[c].dev].status \in {"approved", "consumed"} /\ row[cb[c].dev].user = cb[c].user
    \/ ~Exists(row[cb[c].dev])

\* A rejection that succeeded is final: no session comes out of that device.
ReportedRejectionStands ==
  \A c \in Callbacks : cb[c].pc = "rejected" =>
    /\ row[cb[c].dev].status \in {"denied", "absent"}
    /\ ~\E s \in sessions : s.dev = cb[c].dev

\* What a poll is told agrees with the sessions table: tokens are handed out only
\* for a session that was committed, "used" only after a session was issued, and
\* "denied" only for a device that never gets one.
PollAnswersAgree ==
  \A p \in Polls :
    /\ poll[p].pc = "granted" => \E s \in sessions : s.poll = p /\ s.dev = poll[p].dev
    /\ poll[p].pc = "used" => \E s \in sessions : s.dev = poll[p].dev
    /\ poll[p].pc = "denied" => ~\E s \in sessions : s.dev = poll[p].dev

\* What callbacks and polls were told is never contradicted, whatever else happens
\* to the device: later callbacks, polls, lost commits, expiry or pruning.
AnswersStand == PollAnswersAgree /\ ReportedApprovalStands /\ ReportedRejectionStands

\* The answers about a device agree on one moment at which it expired, although each
\* request reads the clock before it waits for the row and meanwhile others commit,
\* expire or prune it.  Once a poll was told "expired", a request that comes later, and
\* so reads a later clock, neither gets the session nor decides the device.
ExpiryIsFinal ==
  \A q \in Polls : poll[q].pc = "expired" =>
    /\ \A p \in Polls :
         poll[p].dev = poll[q].dev /\ poll[p].pc \in PollJudged => poll[p].at < poll[q].at
    /\ \A c \in Callbacks :
         cb[c].dev = poll[q].dev /\ cb[c].pc \in CallbackVerdicts => cb[c].at < poll[q].at

\* One callback at most ever works on a claimed device, also after the process that
\* claimed it died: nobody approves in its place
\* ("HMAC state claimed atomically before token exchange", docs/threat-model.md).
ClaimedOnce ==
  \A d \in Devices : Cardinality(Claimants(d)) <= 1

\* A claimed device does not keep its client polling: it is decided, or expires, unless
\* the callback that claimed it died, or found no database for its rejection in time.
\* No other callback's death or failure leaves it undecided.
ClaimIsDecided ==
  \A d \in Devices :
    (row[d].status = "authorizing") ~>
      \/ row[d].status # "authorizing" \/ Expired(row[d], now)
      \/ \E c \in Claimants(d) : cb[c].pc = "abandoned"

\* Implementation of the abstract grant.  Claiming is invisible there, and an
\* open transaction counts for nothing until it lands.
Decision(d) ==
  CASE d \notin issued -> "unknown"
    [] d \in issued /\ row[d].status = "absent" -> "forgotten"
    [] d \in issued /\ row[d].status \in {"pending", "authorizing"} -> "requested"
    [] d \in issued /\ row[d].status \in {"approved", "denied", "consumed"} -> row[d].status

grantBar == [d \in Devices |-> Decision(d)]

Grant == INSTANCE DeviceGrant WITH
           grant <- grantBar,
           holder <- [d \in Devices |-> row[d].user],
           Tickets <- Polls

ImplementsGrant == Grant!GSpec

-----------------------------------------------------------------------------
(* The inductive invariant behind the safety properties above.  Each part  *)
(* says what the others rely on.                                           *)

\* DingTalk named u to a callback for device d.
Verified(d, u) == \E c \in Callbacks : cb[c].dev = d /\ cb[c].user = u

\* A request works on a device that exists, a callback with a state handed out.
RequestsOK ==
  /\ \A c \in Callbacks :
       /\ cb[c].pc # "idle" => <<cb[c].dev, cb[c].state>> \in redirects
       /\ cb[c].pc \in {"complete", "ok"} => cb[c].user \in Users
       /\ cb[c].pc \in {"idle", "claim", "confirm", "identify"} => cb[c].user = None
  /\ \A p \in Polls : poll[p].pc # "idle" => poll[p].dev \in issued

\* Exactly the approved and the consumed rows carry a user, a verified one.
RowsOK ==
  \A d \in Devices :
    /\ d \notin issued => row[d].status = "absent"
    /\ row[d].status \in {"approved", "consumed"}
         => row[d].user \in Users /\ Verified(d, row[d].user)
    /\ row[d].status \notin {"approved", "consumed"} => row[d].user = None

\* An open transaction still starts from the current row: its lock kept all
\* other writers out.
OpenTx(d) ==
  \/ /\ row[d].status = "pending"
     /\ tx[d].row = Claimed(row[d]) /\ tx[d].sessions = {}
  \/ /\ row[d].status = "authorizing" /\ tx[d].sessions = {}
     /\ \E u \in Users : tx[d].row = Approved(row[d], u) /\ Verified(d, u)
  \/ /\ row[d].status = "authorizing"
     /\ tx[d].row = Denied(row[d]) /\ tx[d].sessions = {}
  \/ /\ row[d].status = "approved" /\ tx[d].row = Consumed(row[d])
     /\ \E p \in Polls : /\ tx[d].sessions = {Session(d, p)}
                         /\ poll[p].dev = d /\ poll[p].pc # "idle"

TxOK == \A d \in Devices : Locked(d) => OpenTx(d)

\* Sessions exist for consumed (or since pruned) devices only, one each.
SessionsOK ==
  /\ \A s \in sessions : /\ s.dev \in issued
                         /\ row[s.dev].status \in {"consumed", "absent"}
                         /\ Verified(s.dev, s.user)
                         /\ poll[s.poll].dev = s.dev /\ poll[s.poll].pc # "idle"
  /\ \A d \in Devices : row[d].status = "consumed" => \E s \in sessions : s.dev = d

\* A device is bound to one browser for as long as it can still be decided.
BindingOK ==
  /\ \A d \in Devices, k \in Confirmations :
       <<d, k>> \in redirects =>
         /\ d \in issued
         /\ row[d].status \in {"pending", "authorizing"} => row[d].state = k
  /\ \A d \in Devices, k, l \in Confirmations :
       <<d, k>> \in redirects /\ <<d, l>> \in redirects => k = l

\* What was answered stays true of the row.
AnswersOK ==
  /\ \A p \in Polls : poll[p].pc = "denied" => row[poll[p].dev].status \in {"denied", "absent"}
  /\ AnswersStand

\* As long as the row is there, its expiry separates the readings.
ExpiryOK ==
  /\ \A d \in Devices : Exists(row[d]) =>
       /\ \A p \in Polls : poll[p].dev = d =>
            /\ poll[p].pc \in PollJudged => ~Expired(row[d], poll[p].at)
            /\ poll[p].pc = "expired" => Expired(row[d], poll[p].at)
       /\ \A c \in Callbacks : cb[c].dev = d /\ cb[c].pc \in CallbackVerdicts =>
            ~Expired(row[d], cb[c].at)
  /\ ExpiryIsFinal

\* While no commit is of unknown outcome, nothing stays locked, and whoever works on a
\* device has taken it out of "pending", for good.
ClaimsOK ==
  /\ \A d \in Devices : ~Locked(d)
  /\ \A c \in Callbacks : cb[c].pc # "confirm"
  /\ \A d \in Devices : \A b, c \in Claimants(d) : b = c /\ row[d].status # "pending"

\* Without faults a claim that has not expired has a callback at work on it: what is
\* safe about ClaimIsDecided, the rest is that callbacks run.
Attended(d) ==
  \E c \in Callbacks : cb[c].dev = d /\ cb[c].pc \in {"identify", "complete", "reject"}

ClaimIsAttended ==
  \A d \in Devices : row[d].status = "authorizing" /\ ~Expired(row[d], now) => Attended(d)

AttendedOK == ClaimIsAttended /\ \A c \in Callbacks : cb[c].at <= now

Inv ==
  /\ TypeOK
  /\ RequestsOK
  /\ RowsOK
  /\ TxOK
  /\ SessionsOK
  /\ OneSessionPerDevice
  /\ BindingOK
  /\ AnswersOK
  /\ ExpiryOK
=============================================================================

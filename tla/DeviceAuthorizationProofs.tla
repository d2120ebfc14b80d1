---------------------- MODULE DeviceAuthorizationProofs ----------------------
(***************************************************************************)
(* Proofs about the device flow for any number of devices, browsers,       *)
(* users, callbacks and polls, any lifetimes, and any of the faults.       *)
(***************************************************************************)
EXTENDS DeviceAuthorization, FiniteSetTheorems, TLAPS

-----------------------------------------------------------------------------
(* The row updates keep rows well-formed.                                  *)

LEMMA RowUpdates ==
  ASSUME NEW r \in Row, NEW k \in Confirmations, NEW u \in Users
  PROVE  /\ Bound(r, k) \in Row
         /\ Claimed(r) \in Row
         /\ Approved(r, u) \in Row
         /\ Denied(r) \in Row
         /\ Consumed(r) \in Row
BY DEF Row, Statuses, Bound, Claimed, Approved, Denied, Consumed

LEMMA NoRowType == NoRow \in Row /\ NoTx \in Tx
BY DeviceAssumption DEF NoRow, NoTx, Row, Tx, Statuses, Times

\* Callback and poll records after the three ways a request proceeds.
LEMMA RequestUpdates ==
  ASSUME TypeOK
  PROVE  /\ \A c \in Callbacks, pc \in CallbackPCs :
              /\ Goto(c, pc) => cb' \in [Callbacks -> Callback]
              /\ Return(c, pc) => cb' \in [Callbacks -> Callback]
         /\ \A p \in Polls, pc \in PollPCs : Answer(p, pc) => poll' \in [Polls -> Poll]
<1>1. ASSUME NEW c \in Callbacks, NEW pc \in CallbackPCs
      PROVE  /\ Goto(c, pc) => cb' \in [Callbacks -> Callback]
             /\ Return(c, pc) => cb' \in [Callbacks -> Callback]
  <2>1. cb[c] \in Callback /\ now \in 0..Horizon /\ 0 \in 0..Horizon
    BY DeviceAssumption DEF TypeOK
  <2>2. CallbackReading(c, pc) \in 0..Horizon
    BY <2>1 DEF CallbackReading, Callback
  <2>3. /\ [cb[c] EXCEPT !.pc = pc, !.at = now] \in Callback
        /\ [cb[c] EXCEPT !.pc = pc, !.at = CallbackReading(c, pc)] \in Callback
    BY <2>1, <2>2 DEF Callback
  <2>4. QED
    BY <2>3 DEF Goto, Return, TypeOK
<1>2. ASSUME NEW p \in Polls, NEW pc \in PollPCs
      PROVE  Answer(p, pc) => poll' \in [Polls -> Poll]
  <2>1. poll[p] \in Poll /\ 0 \in 0..Horizon
    BY DeviceAssumption DEF TypeOK
  <2>2. PollReading(p, pc) \in 0..Horizon
    BY <2>1 DEF PollReading, Poll
  <2>3. [poll[p] EXCEPT !.pc = pc, !.at = PollReading(p, pc)] \in Poll
    BY <2>1, <2>2 DEF Poll
  <2>4. QED
    BY <2>3 DEF Answer, TypeOK
<1>3. QED
  BY <1>1, <1>2

\* Both outcomes of a commit keep the tables well-formed.
LEMMA CommitType ==
  ASSUME TypeOK, NEW d \in Devices, NEW r \in Row, NEW S \in SUBSET SessionRecord
  PROVE  /\ Commit(d, r, S) => /\ row' \in [Devices -> Row]
                               /\ tx' \in [Devices -> Tx]
                               /\ sessions' \subseteq SessionRecord
         /\ CommitUnknown(d, r, S) => /\ row' \in [Devices -> Row]
                                      /\ tx' \in [Devices -> Tx]
                                      /\ sessions' \subseteq SessionRecord
<1>1. Commit(d, r, S) => /\ row' \in [Devices -> Row]
                         /\ tx' \in [Devices -> Tx]
                         /\ sessions' \subseteq SessionRecord
  BY DEF TypeOK, Commit
<1>2. [open |-> TRUE, row |-> r, sessions |-> S] \in Tx
  BY DEF Tx
<1>3. CommitUnknown(d, r, S) => /\ row' \in [Devices -> Row]
                                /\ tx' \in [Devices -> Tx]
                                /\ sessions' \subseteq SessionRecord
  BY <1>2 DEF TypeOK, CommitUnknown
<1>4. QED
  BY <1>1, <1>3

\* A request that has arrived works on a device.
LEMMA RequestDevices ==
  ASSUME Inv
  PROVE  /\ \A c \in Callbacks : cb[c].pc # "idle" =>
              cb[c].dev \in Devices /\ cb[c].state \in Confirmations
         /\ \A p \in Polls : poll[p].pc # "idle" => poll[p].dev \in Devices
BY DEF Inv, TypeOK, RequestsOK

-----------------------------------------------------------------------------
(* Type correctness.                                                       *)

LEMMA TypeStep == ASSUME Inv, [Next]_vars PROVE TypeOK'
<1> USE DEF Inv
<1>1. CASE UNCHANGED vars
  BY <1>1 DEF TypeOK, vars
<1>2. CASE Tick \/ Prune \/ Quiescent
  BY <1>2, NoRowType, DeviceAssumption DEF Tick, Prune, Quiescent, TypeOK, vars
<1>3. ASSUME NEW d \in Devices, CommitLands(d) PROVE TypeOK'
  BY <1>3, NoRowType DEF CommitLands, TypeOK, Tx
<1>4. ASSUME NEW d \in Devices, CommitLost(d) PROVE TypeOK'
  BY <1>4, NoRowType DEF CommitLost, TypeOK
<1>5. ASSUME NEW d \in Devices, CreateDevice(d) PROVE TypeOK'
  <2>1. NewRow \in Row
    BY DeviceAssumption DEF TypeOK, NewRow, Row, Statuses, Times
  <2>2. QED
    BY <1>5, <2>1 DEF CreateDevice, TypeOK
<1>6. ASSUME NEW d \in Devices, NEW k \in Confirmations,
             \/ StartAuthorization(d, k)
             \/ StartAuthorizationUnknown(d, k)
             \/ RejectAuthorization(d, k)
      PROVE  TypeOK'
  <2>1. Bound(row[d], k) \in Row /\ Denied(row[d]) \in Row
    BY DEF TypeOK, Row, Statuses, Bound, Denied
  <2>2. QED
    BY <1>6, <2>1 DEF StartAuthorization, StartAuthorizationUnknown, RejectAuthorization, TypeOK
<1>7. ASSUME NEW c \in Callbacks, NEW d \in Devices, NEW k \in Confirmations,
             CallbackArrives(c, d, k)
      PROVE  TypeOK'
  BY <1>7 DEF CallbackArrives, TypeOK, Callback, CallbackPCs
<1>8. ASSUME NEW c \in Callbacks, ClaimOAuthState(c) PROVE TypeOK'
  <2>1. cb[c].dev \in Devices
    BY <1>8, RequestDevices DEF ClaimOAuthState
  <2>2. Claimed(row[cb[c].dev]) \in Row
    BY <2>1 DEF TypeOK, Row, Statuses, Claimed
  <2>3. cb' \in [Callbacks -> Callback]
    BY <1>8, RequestUpdates DEF ClaimOAuthState, TypeOK, Callback, CallbackPCs
  <2>4. QED
    BY <1>8, <2>1, <2>2, <2>3, CommitType DEF ClaimOAuthState, TypeOK
<1>9. ASSUME NEW c \in Callbacks,
             \/ ClaimRefused(c) \/ ConfirmClaim(c) \/ Identify(c) \/ CompleteRefused(c)
             \/ RejectRefused(c) \/ RejectTimesOut(c) \/ RejectRetries(c) \/ CallbackCrashes(c)
      PROVE  TypeOK'
  <2>1. CASE \E pc \in CallbackPCs : Goto(c, pc) \/ Return(c, pc)
    BY <1>9, <2>1, RequestUpdates
    DEF ClaimRefused, ConfirmClaim, Identify, CompleteRefused, RejectRefused, RejectTimesOut,
        RejectRetries, CallbackCrashes, TypeOK
  <2>2. CASE Identify(c)
    <3>1. ASSUME NEW u \in Users
          PROVE  [cb EXCEPT ![c] = [@ EXCEPT !.pc = "complete", !.user = u, !.at = now]]
                   \in [Callbacks -> Callback]
      BY DEF TypeOK, Callback, CallbackPCs
    <3>2. "reject" \in CallbackPCs
      BY DEF CallbackPCs
    <3>3. QED
      BY <2>2, <3>1, <3>2, RequestUpdates DEF Identify, TypeOK
  <2>3. QED
    BY <1>9, <2>1, <2>2
    DEF ClaimRefused, ConfirmClaim, CompleteRefused, RejectRefused, RejectTimesOut,
        RejectRetries, CallbackCrashes, CallbackPCs
<1>10. ASSUME NEW c \in Callbacks, CompleteDeviceAuthorization(c) PROVE TypeOK'
  <2>1. cb[c].dev \in Devices /\ cb[c].user \in Users
    BY <1>10, RequestDevices DEF CompleteDeviceAuthorization, RequestsOK
  <2>2. Approved(row[cb[c].dev], cb[c].user) \in Row
    BY <2>1 DEF TypeOK, Row, Statuses, Approved
  <2>3. cb' \in [Callbacks -> Callback]
    BY <1>10, RequestUpdates DEF CompleteDeviceAuthorization, CallbackPCs
  <2>4. QED
    BY <1>10, <2>1, <2>2, <2>3, CommitType DEF CompleteDeviceAuthorization, TypeOK
<1>11. ASSUME NEW c \in Callbacks, RejectDeviceAuthorization(c) PROVE TypeOK'
  <2>1. cb[c].dev \in Devices
    BY <1>11, RequestDevices DEF RejectDeviceAuthorization
  <2>2. Denied(row[cb[c].dev]) \in Row
    BY <2>1 DEF TypeOK, Row, Statuses, Denied
  <2>3. cb' \in [Callbacks -> Callback]
    BY <1>11, RequestUpdates DEF RejectDeviceAuthorization, CallbackPCs
  <2>4. QED
    BY <1>11, <2>1, <2>2, <2>3, CommitType DEF RejectDeviceAuthorization, TypeOK
<1>12. ASSUME NEW p \in Polls, NEW d \in Devices, PollArrives(p, d) PROVE TypeOK'
  BY <1>12 DEF PollArrives, TypeOK, Poll, PollPCs
<1>13. ASSUME NEW p \in Polls, ExchangeDeviceAuthorization(p) PROVE TypeOK'
  <2>1. poll[p].dev \in Devices
    BY <1>13, RequestDevices DEF ExchangeDeviceAuthorization
  <2>2. row[poll[p].dev].user \in Users
    BY <1>13, <2>1 DEF ExchangeDeviceAuthorization, CanExchange, RowsOK
  <2>3. Consumed(row[poll[p].dev]) \in Row /\ {Session(poll[p].dev, p)} \subseteq SessionRecord
    BY <2>1, <2>2 DEF TypeOK, Row, Statuses, Consumed, Session, SessionRecord
  <2>4. poll' \in [Polls -> Poll]
    BY <1>13, RequestUpdates DEF ExchangeDeviceAuthorization, TypeOK, Poll, PollPCs
  <2>5. QED
    BY <1>13, <2>1, <2>3, <2>4, CommitType DEF ExchangeDeviceAuthorization, TypeOK
<1>14. ASSUME NEW p \in Polls, ExchangeRefused(p) PROVE TypeOK'
  <2>1. poll[p].dev \in Devices
    BY <1>14, RequestDevices DEF ExchangeRefused
  <2>2. ExchangeError(row[poll[p].dev], poll[p].at) \in PollPCs
    BY <1>14, <2>1
    DEF ExchangeRefused, ExchangeError, CanExchange, Exists, PollPCs, TypeOK, Row, Statuses
  <2>3. QED
    BY <1>14, <2>2, RequestUpdates DEF ExchangeRefused, TypeOK
<1>15. ASSUME NEW p \in Polls,
              ConfirmSession(p) \/ PollFails(p) \/ PollAgain(p) \/ PollCrashes(p)
       PROVE  TypeOK'
  <2>1. poll' \in [Polls -> Poll]
    BY <1>15, RequestUpdates, ZenonT(40)
    DEF ConfirmSession, PollFails, PollAgain, PollCrashes, TypeOK, Poll, PollPCs
  <2>2. QED
    BY <1>15, <2>1 DEF ConfirmSession, PollFails, PollAgain, PollCrashes, TypeOK
<1>16. QED
  BY <1>1, <1>2, <1>3, <1>4, <1>5, <1>6, <1>7, <1>8, <1>9, <1>10, <1>11, <1>12, <1>13,
     <1>14, <1>15 DEF Next, DatabaseStep, BrowserStep, CallbackStep, PollStep

-----------------------------------------------------------------------------
(* Frames: what no step changes.                                           *)

\* A request keeps its device and state, a callback the user it was told.
LEMMA RequestFrame ==
  ASSUME Inv, [Next]_vars
  PROVE  /\ \A c \in Callbacks :
              /\ cb[c].pc # "idle" => /\ cb'[c].pc # "idle"
                                     /\ cb'[c].dev = cb[c].dev /\ cb'[c].state = cb[c].state
              /\ cb[c].user # None => cb'[c].user = cb[c].user /\ cb'[c].dev = cb[c].dev
         /\ \A p \in Polls : poll[p].pc # "idle" =>
              poll'[p].pc # "idle" /\ poll'[p].dev = poll[p].dev
<1> USE DEF Inv
<1>1. CASE UNCHANGED vars
  BY <1>1 DEF vars
<1>2. CASE UNCHANGED <<cb, poll>>
  BY <1>2
<1>3. ASSUME NEW c \in Callbacks, UNCHANGED poll,
             \/ \E d \in Devices, k \in Confirmations : CallbackArrives(c, d, k)
             \/ CallbackStep(c) \/ RejectRetries(c) \/ CallbackCrashes(c)
      PROVE  \A e \in Callbacks :
              /\ cb[e].pc # "idle" => /\ cb'[e].pc # "idle"
                                     /\ cb'[e].dev = cb[e].dev /\ cb'[e].state = cb[e].state
              /\ cb[e].user # None => cb'[e].user = cb[e].user /\ cb'[e].dev = cb[e].dev
  <2>1. \A e \in Callbacks : e # c => cb'[e] = cb[e]
    BY <1>3
    DEF CallbackStep, CallbackArrives, ClaimRefused, ClaimOAuthState, ConfirmClaim, Identify,
        CompleteRefused, CompleteDeviceAuthorization, RejectDeviceAuthorization, RejectRefused,
        RejectTimesOut, RejectRetries, CallbackCrashes, Goto, Return, TypeOK
  <2>2. CASE \E d \in Devices, k \in Confirmations : CallbackArrives(c, d, k)
    BY <2>1, <2>2 DEF CallbackArrives, TypeOK, RequestsOK
  <2>3. CASE Identify(c)
    <3>1. cb[c] \in Callback /\ cb[c].user = None
      BY <2>3 DEF Identify, TypeOK, RequestsOK
    <3>2. \/ \E u \in Users :
               cb'[c] = [cb[c] EXCEPT !.pc = "complete", !.user = u, !.at = now]
          \/ cb'[c] = [cb[c] EXCEPT !.pc = "reject", !.at = now]
      BY <2>3 DEF Identify, Goto, TypeOK
    <3>3. cb'[c].pc # "idle" /\ cb'[c].dev = cb[c].dev /\ cb'[c].state = cb[c].state
      BY <3>1, <3>2 DEF Callback
    <3>4. QED
      BY <2>1, <3>1, <3>3
  <2>4. ASSUME NEW pc \in CallbackPCs \ {"idle"},
               \/ Goto(c, pc) \/ Return(c, pc)
               \/ cb' = [cb EXCEPT ![c] = [@ EXCEPT !.pc = "confirm"]]
        PROVE  /\ cb'[c].pc # "idle" /\ cb'[c].dev = cb[c].dev
               /\ cb'[c].state = cb[c].state /\ cb'[c].user = cb[c].user
    <3>1. cb[c] \in Callback
      BY DEF TypeOK
    <3>2. \/ cb'[c] = [cb[c] EXCEPT !.pc = pc, !.at = now]
          \/ cb'[c] = [cb[c] EXCEPT !.pc = pc, !.at = CallbackReading(c, pc)]
          \/ cb'[c] = [cb[c] EXCEPT !.pc = "confirm"]
      BY <2>4 DEF Goto, Return, TypeOK
    <3>3. QED
      BY <3>1, <3>2 DEF Callback
  <2>5. QED
    BY <1>3, <2>1, <2>2, <2>3, <2>4
    DEF CallbackStep, ClaimRefused, ClaimOAuthState, ConfirmClaim, CompleteRefused,
        CompleteDeviceAuthorization, RejectDeviceAuthorization, RejectRefused, RejectTimesOut,
        RejectRetries, CallbackCrashes, CallbackPCs
<1>4. ASSUME NEW p \in Polls, UNCHANGED cb,
             \/ \E d \in Devices : PollArrives(p, d)
             \/ PollStep(p) \/ PollAgain(p) \/ PollCrashes(p)
      PROVE  \A q \in Polls : poll[q].pc # "idle" =>
               poll'[q].pc # "idle" /\ poll'[q].dev = poll[q].dev
  <2> DEFINE Kept == \A q \in Polls : poll[q].pc # "idle" =>
                        poll'[q].pc # "idle" /\ poll'[q].dev = poll[q].dev
  <2>1. ASSUME NEW pc \in PollPCs \ {"idle"}, Answer(p, pc) PROVE Kept
    BY <2>1 DEF Answer, TypeOK, Poll
  <2>2. CASE \E d \in Devices : PollArrives(p, d)
    BY <2>2 DEF PollArrives, TypeOK, Poll
  <2>3. CASE ExchangeRefused(p)
    <3>1. ExchangeError(row[poll[p].dev], poll[p].at) \in PollPCs \ {"idle"}
      BY <2>3, RequestDevices
      DEF ExchangeRefused, ExchangeError, CanExchange, Exists, TypeOK, Row, Statuses, PollPCs
    <3>2. QED
      BY <2>1, <2>3, <3>1 DEF ExchangeRefused
  <2>4. CASE ExchangeDeviceAuthorization(p)
    <3>1. CASE poll' = [poll EXCEPT ![p] = [@ EXCEPT !.pc = "confirm"]]
      BY <3>1 DEF TypeOK, Poll
    <3>2. QED
      BY <2>1, <2>4, <3>1 DEF ExchangeDeviceAuthorization, PollPCs
  <2>5. CASE ConfirmSession(p) \/ PollFails(p) \/ PollCrashes(p)
    BY <2>1, <2>5 DEF ConfirmSession, PollFails, PollCrashes, PollPCs
  <2>6. CASE PollAgain(p)
    BY <2>6 DEF PollAgain, TypeOK, Poll
  <2>7. QED
    BY <1>4, <2>2, <2>3, <2>4, <2>5, <2>6 DEF PollStep
<1>5. QED
  <2>1. CASE \E c \in Callbacks :
               \/ \E d \in Devices, k \in Confirmations : CallbackArrives(c, d, k)
               \/ CallbackStep(c) \/ RejectRetries(c) \/ CallbackCrashes(c)
    <3>1. UNCHANGED poll
      BY <2>1
      DEF CallbackStep, CallbackArrives, ClaimRefused, ClaimOAuthState, ConfirmClaim, Identify,
          CompleteRefused, CompleteDeviceAuthorization, RejectDeviceAuthorization,
          RejectRefused, RejectTimesOut, RejectRetries, CallbackCrashes
    <3>2. QED
      BY <1>3, <2>1, <3>1
  <2>2. CASE \E p \in Polls :
               \/ \E d \in Devices : PollArrives(p, d)
               \/ PollStep(p) \/ PollAgain(p) \/ PollCrashes(p)
    <3>1. UNCHANGED cb
      BY <2>2
      DEF PollStep, PollArrives, ExchangeRefused, ExchangeDeviceAuthorization, ConfirmSession,
          PollFails, PollAgain, PollCrashes
    <3>2. QED
      BY <1>4, <2>2, <3>1
  <2>3. CASE Tick \/ Prune \/ Quiescent \/ \E d \in Devices : DatabaseStep(d) \/ BrowserStep(d)
    BY <1>2, <2>3
    DEF Tick, Prune, Quiescent, DatabaseStep, BrowserStep, CommitLands, CommitLost, CreateDevice,
        StartAuthorization, StartAuthorizationUnknown, RejectAuthorization, vars
  <2>4. QED
    BY <1>1, <2>1, <2>2, <2>3 DEF Next

\* A user once verified for a device stays verified.
VerifiedNext(d, u) == \E c \in Callbacks : cb'[c].dev = d /\ cb'[c].user = u

LEMMA VerifiedStable ==
  ASSUME Inv, [Next]_vars, NEW d \in Devices, NEW u \in Users, Verified(d, u)
  PROVE  VerifiedNext(d, u)
BY RequestFrame, DeviceAssumption DEF Verified, VerifiedNext

-----------------------------------------------------------------------------
(* Whatever the step, the table changes in one of these ways: a commit     *)
(* that lands late has the effect of the commit of its handler.            *)

Untouched == UNCHANGED <<issued, row, redirects, sessions>>

RowCreated(d) ==
  /\ d \notin issued /\ issued' = issued \cup {d}
  /\ row' = [row EXCEPT ![d] = NewRow]
  /\ UNCHANGED <<redirects, sessions>>

RowBound(d, k) ==
  /\ row[d].status = "pending" /\ row[d].state \in {None, k}
  /\ row' = [row EXCEPT ![d] = Bound(row[d], k)]
  /\ redirects' \in {redirects, redirects \cup {<<d, k>>}}
  /\ UNCHANGED <<issued, sessions>>

RowClaimed(d) ==
  /\ row[d].status = "pending"
  /\ row' = [row EXCEPT ![d] = Claimed(row[d])]
  /\ UNCHANGED <<issued, redirects, sessions>>

RowDenied(d) ==
  /\ row[d].status \in {"pending", "authorizing"}
  /\ row' = [row EXCEPT ![d] = Denied(row[d])]
  /\ UNCHANGED <<issued, redirects, sessions>>

RowApproved(d, u) ==
  /\ row[d].status = "authorizing" /\ Verified(d, u)
  /\ row' = [row EXCEPT ![d] = Approved(row[d], u)]
  /\ UNCHANGED <<issued, redirects, sessions>>

RowConsumed(d, p) ==
  /\ row[d].status = "approved"
  /\ poll[p].dev = d /\ poll[p].pc # "idle"
  /\ row' = [row EXCEPT ![d] = Consumed(row[d])]
  /\ sessions' = sessions \cup {Session(d, p)}
  /\ UNCHANGED <<issued, redirects>>

RowsPruned ==
  /\ row' = [d \in Devices |-> IF d \in Prunable THEN NoRow ELSE row[d]]
  /\ UNCHANGED <<issued, redirects, sessions>>

TableStep ==
  \/ Untouched
  \/ RowsPruned
  \/ \E d \in Devices :
       \/ RowCreated(d) \/ RowClaimed(d) \/ RowDenied(d)
       \/ \E k \in Confirmations : RowBound(d, k)
       \/ \E u \in Users : RowApproved(d, u)
       \/ \E p \in Polls : RowConsumed(d, p)

LEMMA TableEffect == ASSUME Inv, [Next]_vars PROVE TableStep
<1> USE DEF Inv
<1>1. CASE UNCHANGED vars
  BY <1>1 DEF vars, TableStep, Untouched
<1>2. CASE Tick \/ Prune \/ Quiescent
  BY <1>2 DEF Tick, Prune, Quiescent, vars, TableStep, Untouched, RowsPruned
<1>3. ASSUME NEW d \in Devices, CommitLands(d) PROVE TableStep
  <2>1. OpenTx(d) /\ UNCHANGED <<issued, redirects>>
    BY <1>3 DEF CommitLands, TxOK
  <2>2. row' = [row EXCEPT ![d] = tx[d].row] /\ sessions' = sessions \cup tx[d].sessions
    BY <1>3 DEF CommitLands
  <2>3. QED
    BY <2>1, <2>2 DEF OpenTx, TableStep, RowClaimed, RowApproved, RowDenied, RowConsumed
<1>4. ASSUME NEW d \in Devices, CommitLost(d) \/ CreateDevice(d) PROVE TableStep
  BY <1>4 DEF CommitLost, CreateDevice, TableStep, Untouched, RowCreated
<1>5. ASSUME NEW d \in Devices, NEW k \in Confirmations,
             \/ StartAuthorization(d, k) \/ StartAuthorizationUnknown(d, k)
             \/ RejectAuthorization(d, k)
      PROVE  TableStep
  BY <1>5
  DEF StartAuthorization, StartAuthorizationUnknown, RejectAuthorization, CanBind, TableStep,
      RowBound, RowDenied
<1>6. ASSUME NEW c \in Callbacks,
             \/ ClaimRefused(c) \/ ConfirmClaim(c) \/ Identify(c) \/ CompleteRefused(c)
             \/ RejectRefused(c) \/ RejectTimesOut(c) \/ RejectRetries(c) \/ CallbackCrashes(c)
             \/ \E d \in Devices, k \in Confirmations : CallbackArrives(c, d, k)
      PROVE  TableStep
  BY <1>6
  DEF ClaimRefused, ConfirmClaim, Identify, CompleteRefused, RejectRefused, RejectTimesOut,
      RejectRetries, CallbackCrashes, CallbackArrives, TableStep, Untouched
<1>7. ASSUME NEW p \in Polls,
             \/ ExchangeRefused(p) \/ ConfirmSession(p) \/ PollFails(p) \/ PollAgain(p)
             \/ PollCrashes(p) \/ \E d \in Devices : PollArrives(p, d)
      PROVE  TableStep
  BY <1>7
  DEF ExchangeRefused, ConfirmSession, PollFails, PollAgain, PollCrashes, PollArrives, TableStep,
      Untouched
<1>8. ASSUME NEW d \in Devices, NEW r, NEW S, CommitUnknown(d, r, S), UNCHANGED <<issued, redirects>>
      PROVE  TableStep
  BY <1>8 DEF CommitUnknown, TableStep, Untouched
<1>9. ASSUME NEW c \in Callbacks, ClaimOAuthState(c) PROVE TableStep
  <2>1. cb[c].dev \in Devices /\ row[cb[c].dev].status = "pending"
    BY <1>9, RequestDevices DEF ClaimOAuthState, CanClaim
  <2>2. QED
    BY <1>8, <1>9, <2>1 DEF ClaimOAuthState, Commit, TableStep, RowClaimed
<1>10. ASSUME NEW c \in Callbacks, CompleteDeviceAuthorization(c) PROVE TableStep
  <2>1. /\ cb[c].dev \in Devices /\ cb[c].user \in Users
        /\ row[cb[c].dev].status = "authorizing" /\ Verified(cb[c].dev, cb[c].user)
    BY <1>10, RequestDevices DEF CompleteDeviceAuthorization, CanComplete, RequestsOK, Verified
  <2>2. QED
    BY <1>8, <1>10, <2>1 DEF CompleteDeviceAuthorization, Commit, TableStep, RowApproved
<1>11. ASSUME NEW c \in Callbacks, RejectDeviceAuthorization(c) PROVE TableStep
  <2>1. cb[c].dev \in Devices /\ row[cb[c].dev].status = "authorizing"
    BY <1>11, RequestDevices DEF RejectDeviceAuthorization, CanReject
  <2>2. QED
    BY <1>8, <1>11, <2>1 DEF RejectDeviceAuthorization, Commit, TableStep, RowDenied
<1>12. ASSUME NEW p \in Polls, ExchangeDeviceAuthorization(p) PROVE TableStep
  <2>1. poll[p].dev \in Devices /\ row[poll[p].dev].status = "approved"
    BY <1>12, RequestDevices DEF ExchangeDeviceAuthorization, CanExchange
  <2>2. QED
    BY <1>8, <1>12, <2>1 DEF ExchangeDeviceAuthorization, Commit, TableStep, RowConsumed
<1>13. QED
  BY <1>1, <1>2, <1>3, <1>4, <1>5, <1>6, <1>7, <1>9, <1>10, <1>11, <1>12
  DEF Next, DatabaseStep, BrowserStep, CallbackStep, PollStep

-----------------------------------------------------------------------------
(* The parts about the table follow from its steps.                        *)

LEMMA RowsStep == ASSUME Inv, [Next]_vars PROVE RowsOK'
<1> USE DEF Inv
<1> SUFFICES ASSUME NEW d \in Devices
             PROVE  /\ d \notin issued' => row'[d].status = "absent"
                    /\ row'[d].status \in {"approved", "consumed"}
                         => row'[d].user \in Users /\ VerifiedNext(d, row'[d].user)
                    /\ row'[d].status \notin {"approved", "consumed"} => row'[d].user = None
  BY DEF RowsOK, Verified, VerifiedNext
<1>1. row[d] \in Row /\ row \in [Devices -> Row]
  BY DEF TypeOK
<1>2. /\ d \notin issued => row[d].status = "absent"
      /\ row[d].status \in {"approved", "consumed"}
           => row[d].user \in Users /\ VerifiedNext(d, row[d].user)
      /\ row[d].status \notin {"approved", "consumed"} => row[d].user = None
  BY VerifiedStable DEF RowsOK
<1>3. CASE Untouched \/ RowsPruned
  BY <1>1, <1>2, <1>3 DEF Untouched, RowsPruned, NoRow
<1>4. ASSUME NEW e \in Devices,
             \/ RowCreated(e) \/ RowClaimed(e) \/ RowDenied(e)
             \/ \E k \in Confirmations : RowBound(e, k)
             \/ \E p \in Polls : RowConsumed(e, p)
      PROVE  /\ d \notin issued' => row'[d].status = "absent"
             /\ row'[d].status \in {"approved", "consumed"}
                  => row'[d].user \in Users /\ VerifiedNext(d, row'[d].user)
             /\ row'[d].status \notin {"approved", "consumed"} => row'[d].user = None
  <2>1. CASE RowCreated(e)
    BY <1>1, <1>2, <2>1 DEF RowCreated, NewRow
  <2>2. CASE RowClaimed(e)
    BY <1>1, <1>2, <2>2 DEF RowClaimed, Claimed, Row
  <2>3. CASE RowDenied(e)
    BY <1>1, <1>2, <2>3 DEF RowDenied, Denied, Row
  <2>4. CASE \E k \in Confirmations : RowBound(e, k)
    BY <1>1, <1>2, <2>4 DEF RowBound, Bound, Row
  <2>5. CASE \E p \in Polls : RowConsumed(e, p)
    BY <1>1, <1>2, <2>5 DEF RowConsumed, Consumed, Row
  <2>6. QED
    BY <1>4, <2>1, <2>2, <2>3, <2>4, <2>5
<1>5. ASSUME NEW e \in Devices, NEW u \in Users, RowApproved(e, u)
      PROVE  /\ d \notin issued' => row'[d].status = "absent"
             /\ row'[d].status \in {"approved", "consumed"}
                  => row'[d].user \in Users /\ VerifiedNext(d, row'[d].user)
             /\ row'[d].status \notin {"approved", "consumed"} => row'[d].user = None
  <2>1. VerifiedNext(e, u)
    BY <1>5, VerifiedStable DEF RowApproved
  <2>2. e \in issued
    BY <1>5 DEF RowApproved, RowsOK
  <2>3. QED
    BY <1>1, <1>2, <1>5, <2>1, <2>2 DEF RowApproved, Approved, Row
<1>6. QED
  BY <1>3, <1>4, <1>5, TableEffect DEF TableStep

LEMMA SessionsStep == ASSUME Inv, [Next]_vars PROVE SessionsOK' /\ OneSessionPerDevice'
<1> USE DEF Inv
<1>1. row \in [Devices -> Row] /\ sessions \subseteq SessionRecord /\ issued \subseteq Devices
  BY DEF TypeOK
<1>2. \A s \in sessions : /\ s.dev \in Devices /\ s.user \in Users /\ s.poll \in Polls
                          /\ s.dev \in issued /\ row[s.dev].status \in {"consumed", "absent"}
                          /\ VerifiedNext(s.dev, s.user)
                          /\ poll'[s.poll].dev = s.dev /\ poll'[s.poll].pc # "idle"
  BY <1>1, VerifiedStable, RequestFrame DEF SessionsOK, SessionRecord
<1>3. \A d \in Devices : row[d].status = "consumed" => \E s \in sessions : s.dev = d
  BY DEF SessionsOK
<1>4. CASE Untouched
  BY <1>1, <1>2, <1>3, <1>4 DEF Untouched, SessionsOK, OneSessionPerDevice, Verified, VerifiedNext
<1>5. CASE RowsPruned
  BY <1>1, <1>2, <1>3, <1>5 DEF RowsPruned, NoRow, SessionsOK, OneSessionPerDevice, Verified, VerifiedNext
<1>6. ASSUME NEW d \in Devices,
             \/ RowCreated(d) \/ RowClaimed(d) \/ RowDenied(d)
             \/ \E k \in Confirmations : RowBound(d, k)
             \/ \E u \in Users : RowApproved(d, u)
      PROVE  SessionsOK' /\ OneSessionPerDevice'
  <2>1. /\ sessions' = sessions /\ issued \subseteq issued'
        /\ \A e \in Devices : e # d => row'[e] = row[e]
        /\ row'[d].status # "consumed"
        /\ row[d].status \notin {"consumed", "absent"} \/ d \notin issued
    <3>1. CASE RowCreated(d)
      BY <1>1, <3>1 DEF RowCreated, NewRow
    <3>2. CASE RowClaimed(d) \/ RowDenied(d)
      BY <1>1, <3>2 DEF RowClaimed, RowDenied, Claimed, Denied, Row
    <3>3. CASE \E k \in Confirmations : RowBound(d, k)
      BY <1>1, <3>3 DEF RowBound, Bound, Row
    <3>4. CASE \E u \in Users : RowApproved(d, u)
      BY <1>1, <3>4 DEF RowApproved, Approved, Row
    <3>5. QED
      BY <1>6, <3>1, <3>2, <3>3, <3>4
  <2>2. QED
    BY <1>1, <1>2, <1>3, <2>1 DEF SessionsOK, OneSessionPerDevice, Verified, VerifiedNext
<1>7. ASSUME NEW d \in Devices, NEW p \in Polls, RowConsumed(d, p)
      PROVE  SessionsOK' /\ OneSessionPerDevice'
  <2> DEFINE new == Session(d, p)
  <2>1. new.dev = d /\ new.user = row[d].user /\ new.poll = p
    BY DEF Session
  <2>2. d \in issued /\ row[d].user \in Users /\ VerifiedNext(d, row[d].user)
    BY <1>7, VerifiedStable DEF RowConsumed, RowsOK
  <2>3. poll'[p].dev = d /\ poll'[p].pc # "idle"
    BY <1>7, RequestFrame DEF RowConsumed
  <2>4. /\ row'[d].status = "consumed" /\ \A e \in Devices : e # d => row'[e] = row[e]
        /\ row[d].status = "approved"
        /\ sessions' = sessions \cup {new} /\ issued' = issued
    BY <1>1, <1>7 DEF RowConsumed, Consumed, Row
  <2>5. \A s \in sessions : s.dev # d
    BY <1>2, <2>4
  <2>6. QED
    BY <1>2, <1>3, <2>1, <2>2, <2>3, <2>4, <2>5 DEF SessionsOK, OneSessionPerDevice, Verified, VerifiedNext
<1>8. QED
  BY <1>4, <1>5, <1>6, <1>7, TableEffect DEF TableStep

LEMMA BindingStep == ASSUME Inv, [Next]_vars PROVE BindingOK'
<1> USE DEF Inv
<1>1. /\ row \in [Devices -> Row] /\ redirects \subseteq Devices \X Confirmations
      /\ None \notin Confirmations
  BY DeviceAssumption DEF TypeOK
<1>2. CASE Untouched \/ RowsPruned
  BY <1>1, <1>2 DEF Untouched, RowsPruned, NoRow, BindingOK
<1>3. ASSUME NEW d \in Devices,
             \/ RowCreated(d) \/ RowClaimed(d) \/ RowDenied(d)
             \/ \E u \in Users : RowApproved(d, u)
             \/ \E p \in Polls : RowConsumed(d, p)
      PROVE  BindingOK'
  <2>1. /\ redirects' = redirects /\ issued \subseteq issued'
        /\ \A e \in Devices : e # d => row'[e] = row[e]
        /\ \/ row'[d].status \notin {"pending", "authorizing"}
           \/ row[d].status = "pending" /\ row'[d].state = row[d].state
           \/ d \notin issued
    BY <1>1, <1>3, ZenonT(40)
    DEF RowCreated, RowClaimed, RowDenied, RowApproved, RowConsumed, Claimed, Denied, Approved,
        Consumed, Row
  <2>2. QED
    BY <1>1, <2>1 DEF BindingOK
<1>4. ASSUME NEW d \in Devices, NEW k \in Confirmations, RowBound(d, k) PROVE BindingOK'
  <2>1. /\ \A e \in Devices : e # d => row'[e] = row[e]
        /\ row[d].status = "pending" /\ row[d].state \in {None, k} /\ row'[d].state = k
        /\ issued' = issued /\ d \in issued
    BY <1>1, <1>4 DEF RowBound, Bound, Row, RowsOK
  <2>2. \A l \in Confirmations : <<d, l>> \in redirects' => l = k
    BY <1>1, <1>4, <2>1 DEF RowBound, BindingOK
  <2>3. \A e \in Devices, l \in Confirmations :
          e # d /\ <<e, l>> \in redirects' => <<e, l>> \in redirects
    BY <1>4 DEF RowBound
  <2>4. QED
    BY <2>1, <2>2, <2>3 DEF BindingOK
<1>5. QED
  BY <1>2, <1>3, <1>4, TableEffect DEF TableStep

-----------------------------------------------------------------------------
(* Open transactions: only an unlocked row is written, so the row a        *)
(* transaction started from is still there when it lands.                  *)

LEMMA TxStep == ASSUME Inv, [Next]_vars PROVE TxOK'
<1> USE DEF Inv
<1>1. /\ row \in [Devices -> Row] /\ tx \in [Devices -> Tx] /\ ~NoTx.open
  BY DEF TypeOK, NoTx
<1>2. ASSUME NEW d \in Devices, Locked(d), tx'[d] = tx[d], row'[d] = row[d] PROVE OpenTx(d)'
  <2>1. OpenTx(d)
    BY <1>2 DEF TxOK
  <2>2. CASE /\ row[d].status = "pending"
             /\ tx[d].row = Claimed(row[d]) /\ tx[d].sessions = {}
    BY <1>2, <2>2 DEF OpenTx, Claimed
  <2>3. CASE /\ row[d].status = "authorizing" /\ tx[d].sessions = {}
             /\ \E u \in Users : tx[d].row = Approved(row[d], u) /\ Verified(d, u)
    <3>1. PICK u \in Users : tx[d].row = Approved(row[d], u) /\ VerifiedNext(d, u)
      BY <2>3, VerifiedStable
    <3>2. QED
      BY <1>2, <2>3, <3>1 DEF OpenTx, Verified, VerifiedNext, Approved
  <2>4. CASE /\ row[d].status = "authorizing"
             /\ tx[d].row = Denied(row[d]) /\ tx[d].sessions = {}
    BY <1>2, <2>4 DEF OpenTx, Denied
  <2>5. CASE /\ row[d].status = "approved" /\ tx[d].row = Consumed(row[d])
             /\ \E p \in Polls : /\ tx[d].sessions = {Session(d, p)}
                                 /\ poll[p].dev = d /\ poll[p].pc # "idle"
    <3>1. PICK p \in Polls : /\ tx[d].sessions = {Session(d, p)}
                             /\ poll[p].dev = d /\ poll[p].pc # "idle"
      BY <2>5
    <3>2. poll'[p].dev = d /\ poll'[p].pc # "idle"
      BY <3>1, RequestFrame
    <3>3. QED
      BY <1>2, <2>5, <3>1, <3>2 DEF OpenTx, Consumed, Session
  <2>6. QED
    BY <2>1, <2>2, <2>3, <2>4, <2>5 DEF OpenTx
<1>3. ASSUME \A d \in Devices : \/ tx'[d] = tx[d] /\ (Locked(d) => row'[d] = row[d])
                               \/ tx'[d] = NoTx
      PROVE  TxOK'
  <2>1. ASSUME NEW d \in Devices, Locked(d)' PROVE OpenTx(d)'
    BY <1>1, <1>2, <1>3, <2>1 DEF Locked
  <2>2. QED
    BY <2>1 DEF TxOK
<1>4. ASSUME NEW d \in Devices, NEW r, NEW S, ~Locked(d), Commit(d, r, S) PROVE TxOK'
  BY <1>1, <1>3, <1>4 DEF Commit
<1>5. ASSUME NEW d \in Devices, NEW r, NEW S, CommitUnknown(d, r, S), OpenTx(d)'
      PROVE  TxOK'
  <2>1. row' = row /\ tx' = [tx EXCEPT ![d] = [open |-> TRUE, row |-> r, sessions |-> S]]
    BY <1>5 DEF CommitUnknown
  <2>2. ASSUME NEW e \in Devices, Locked(e)' PROVE OpenTx(e)'
    BY <1>1, <1>2, <1>5, <2>1, <2>2 DEF Locked
  <2>3. QED
    BY <2>2 DEF TxOK
<1>6. CASE UNCHANGED <<row, tx>>
  BY <1>3, <1>6
<1>7. CASE Prune
  BY <1>3, <1>7 DEF Prune, TypeOK
<1>8. ASSUME NEW d \in Devices, CommitLands(d) \/ CommitLost(d) PROVE TxOK'
  BY <1>1, <1>3, <1>8 DEF CommitLands, CommitLost
<1>9. ASSUME NEW d \in Devices, BrowserStep(d) PROVE TxOK'
  <2>1. CASE CreateDevice(d)
    <3>1. ~Locked(d)
      BY <2>1 DEF CreateDevice, RowsOK, TxOK, OpenTx
    <3>2. QED
      BY <1>1, <1>3, <2>1, <3>1 DEF CreateDevice
  <2>2. CASE ~CreateDevice(d)
    BY <1>1, <1>3, <1>9, <2>2
    DEF BrowserStep, StartAuthorization, StartAuthorizationUnknown, RejectAuthorization
  <2>3. QED
    BY <2>1, <2>2
<1>10. ASSUME NEW c \in Callbacks, NEW d \in Devices, d = cb[c].dev, ClaimOAuthState(c)
       PROVE  TxOK'
  <2>1. row[d].status = "pending" /\ ~Locked(d)
    BY <1>10 DEF ClaimOAuthState, CanClaim
  <2>2. CASE CommitUnknown(d, Claimed(row[d]), {})
    <3>1. row' = row /\ tx'[d].row = Claimed(row[d]) /\ tx'[d].sessions = {}
      BY <1>1, <2>2 DEF CommitUnknown
    <3>2. OpenTx(d)'
      BY <2>1, <3>1 DEF OpenTx, Claimed
    <3>3. QED
      BY <1>5, <2>2, <3>2
  <2>3. CASE Commit(d, Claimed(row[d]), {})
    BY <1>4, <2>1, <2>3
  <2>4. QED
    BY <1>10, <2>2, <2>3 DEF ClaimOAuthState
<1>11. ASSUME NEW c \in Callbacks, NEW d \in Devices, NEW u \in Users,
              d = cb[c].dev, u = cb[c].user, CompleteDeviceAuthorization(c)
       PROVE  TxOK'
  <2>1. row[d].status = "authorizing" /\ Verified(d, u) /\ ~Locked(d)
    BY <1>11 DEF CompleteDeviceAuthorization, CanComplete, Verified
  <2>2. CASE CommitUnknown(d, Approved(row[d], u), {})
    <3>1. VerifiedNext(d, u)
      BY <2>1, VerifiedStable
    <3>2. row' = row /\ tx'[d].row = Approved(row[d], u) /\ tx'[d].sessions = {}
      BY <1>1, <2>2 DEF CommitUnknown
    <3>3. OpenTx(d)'
      BY <2>1, <3>1, <3>2 DEF OpenTx, Approved, Verified, VerifiedNext
    <3>4. QED
      BY <1>5, <2>2, <3>3
  <2>3. CASE Commit(d, Approved(row[d], u), {})
    BY <1>4, <2>1, <2>3
  <2>4. QED
    BY <1>11, <2>2, <2>3 DEF CompleteDeviceAuthorization
<1>12. ASSUME NEW c \in Callbacks, NEW d \in Devices, d = cb[c].dev, RejectDeviceAuthorization(c)
       PROVE  TxOK'
  <2>1. row[d].status = "authorizing" /\ ~Locked(d)
    BY <1>12 DEF RejectDeviceAuthorization, CanReject
  <2>2. CASE CommitUnknown(d, Denied(row[d]), {})
    <3>1. row' = row /\ tx'[d].row = Denied(row[d]) /\ tx'[d].sessions = {}
      BY <1>1, <2>2 DEF CommitUnknown
    <3>2. OpenTx(d)'
      BY <2>1, <3>1 DEF OpenTx, Denied
    <3>3. QED
      BY <1>5, <2>2, <3>2
  <2>3. CASE Commit(d, Denied(row[d]), {})
    BY <1>4, <2>1, <2>3
  <2>4. QED
    BY <1>12, <2>2, <2>3 DEF RejectDeviceAuthorization
<1>13. ASSUME NEW p \in Polls, NEW d \in Devices, d = poll[p].dev, ExchangeDeviceAuthorization(p)
       PROVE  TxOK'
  <2>1. row[d].status = "approved" /\ ~Locked(d) /\ poll[p].pc # "idle"
    BY <1>13 DEF ExchangeDeviceAuthorization, CanExchange
  <2>2. CASE CommitUnknown(d, Consumed(row[d]), {Session(d, p)})
    <3>1. /\ row' = row /\ poll'[p].dev = d /\ poll'[p].pc # "idle"
          /\ tx'[d].row = Consumed(row[d]) /\ tx'[d].sessions = {Session(d, p)}
      BY <1>1, <1>13, <2>1, <2>2, RequestFrame DEF CommitUnknown
    <3>2. OpenTx(d)'
      BY <2>1, <3>1 DEF OpenTx, Consumed, Session
    <3>3. QED
      BY <1>5, <2>2, <3>2
  <2>3. CASE Commit(d, Consumed(row[d]), {Session(d, p)})
    BY <1>4, <2>1, <2>3
  <2>4. QED
    BY <1>13, <2>2, <2>3 DEF ExchangeDeviceAuthorization
<1>14. ASSUME NEW c \in Callbacks,
              \/ ClaimOAuthState(c) \/ CompleteDeviceAuthorization(c)
              \/ RejectDeviceAuthorization(c)
       PROVE  TxOK'
  <2>1. cb[c].dev \in Devices /\ (cb[c].pc = "complete" => cb[c].user \in Users)
    BY <1>14, RequestDevices
    DEF ClaimOAuthState, CompleteDeviceAuthorization, RejectDeviceAuthorization, RequestsOK
  <2>2. QED
    BY <1>10, <1>11, <1>12, <1>14, <2>1 DEF CompleteDeviceAuthorization
<1>15. ASSUME NEW p \in Polls, ExchangeDeviceAuthorization(p) PROVE TxOK'
  <2>1. poll[p].dev \in Devices
    BY <1>15, RequestDevices DEF ExchangeDeviceAuthorization
  <2>2. QED
    BY <1>13, <1>15, <2>1
<1>16. QED
  BY <1>6, <1>7, <1>8, <1>9, <1>14, <1>15
  DEF Next, vars, Tick, Quiescent, DatabaseStep, CallbackStep, PollStep, CallbackArrives,
      ClaimRefused, ConfirmClaim, Identify, CompleteRefused, RejectRefused, RejectTimesOut,
      RejectRetries, CallbackCrashes, PollArrives, ExchangeRefused, ConfirmSession, PollFails,
      PollAgain, PollCrashes

-----------------------------------------------------------------------------
(* Requests.                                                               *)

\* A callback keeps to the order of its steps.
LEMMA CallbackUser ==
  ASSUME Inv, [Next]_vars, NEW c \in Callbacks
  PROVE  /\ cb'[c].pc \in {"complete", "ok"} => cb'[c].user \in Users
         /\ cb'[c].pc \in {"idle", "claim", "confirm", "identify"} => cb'[c].user = None
<1> USE DEF Inv
<1> DEFINE Good == /\ cb'[c].pc \in {"complete", "ok"} => cb'[c].user \in Users
                   /\ cb'[c].pc \in {"idle", "claim", "confirm", "identify"}
                        => cb'[c].user = None
<1>1. /\ cb \in [Callbacks -> Callback] /\ cb[c] \in Callback
      /\ cb[c].pc \in {"complete", "ok"} => cb[c].user \in Users
      /\ cb[c].pc \in {"idle", "claim", "confirm", "identify"} => cb[c].user = None
  BY DEF TypeOK, RequestsOK
<1>2. CASE cb'[c] = cb[c]
  BY <1>1, <1>2
<1>3. CASE \E d \in Devices, k \in Confirmations : CallbackArrives(c, d, k)
  BY <1>1, <1>3 DEF CallbackArrives
<1>4. ASSUME NEW pc \in CallbackPCs \ {"idle", "claim", "confirm", "identify", "complete", "ok"},
             Goto(c, pc) \/ Return(c, pc)
      PROVE  Good
  <2>1. cb'[c].pc = pc
    BY <1>1, <1>4, ZenonT(40) DEF Goto, Return, Callback
  <2>2. QED
    BY <1>4, <2>1
<1>5. CASE ClaimOAuthState(c) \/ ConfirmClaim(c)
  <2>1. cb[c].user = None
    BY <1>1, <1>5 DEF ClaimOAuthState, ConfirmClaim
  <2>2. \/ \E pc \in {"identify", "refused"} :
             cb'[c] = [cb[c] EXCEPT !.pc = pc, !.at = CallbackReading(c, pc)]
        \/ cb'[c] = [cb[c] EXCEPT !.pc = "confirm"]
    BY <1>1, <1>5 DEF ClaimOAuthState, ConfirmClaim, Return
  <2>3. cb'[c].user = None /\ cb'[c].pc \in {"identify", "refused", "confirm"}
    BY <1>1, <2>1, <2>2 DEF Callback
  <2>4. QED
    BY <2>3
<1>6. CASE Identify(c)
  <2>1. CASE Goto(c, "reject")
    BY <1>4, <2>1 DEF CallbackPCs
  <2>2. ASSUME NEW u \in Users,
               cb' = [cb EXCEPT ![c] = [@ EXCEPT !.pc = "complete", !.user = u, !.at = now]]
        PROVE  Good
    <3>1. cb'[c].pc = "complete" /\ cb'[c].user = u
      BY <1>1, <2>2 DEF Callback
    <3>2. QED
      BY <3>1
  <2>3. QED
    BY <1>6, <2>1, <2>2 DEF Identify
<1>7. CASE CompleteDeviceAuthorization(c)
  <2>1. CASE Goto(c, "reject")
    BY <1>4, <2>1 DEF CallbackPCs
  <2>2. CASE Return(c, "ok")
    <3>1. cb'[c].pc = "ok" /\ cb'[c].user = cb[c].user
      BY <1>1, <2>2 DEF Return, Callback
    <3>2. QED
      BY <1>1, <1>7, <3>1 DEF CompleteDeviceAuthorization
  <2>3. QED
    BY <1>7, <2>1, <2>2 DEF CompleteDeviceAuthorization
<1>8. CASE \/ ClaimRefused(c) \/ CompleteRefused(c) \/ RejectDeviceAuthorization(c)
           \/ RejectRefused(c) \/ RejectTimesOut(c) \/ RejectRetries(c) \/ CallbackCrashes(c)
  <2>1. \E pc \in {"refused", "reject", "rejected", "failed", "crashed", "abandoned"} :
          Goto(c, pc) \/ Return(c, pc)
    BY <1>8
    DEF ClaimRefused, CompleteRefused, RejectDeviceAuthorization, RejectRefused, RejectTimesOut,
        RejectRetries, CallbackCrashes
  <2>2. QED
    BY <1>4, <2>1 DEF CallbackPCs
<1>9. QED
  <2>1. ASSUME NEW e \in Callbacks, e # c,
               \/ \E d \in Devices, k \in Confirmations : CallbackArrives(e, d, k)
               \/ CallbackStep(e) \/ RejectRetries(e) \/ CallbackCrashes(e)
        PROVE  cb'[c] = cb[c]
    BY <1>1, <2>1
    DEF CallbackStep, CallbackArrives, ClaimRefused, ClaimOAuthState, ConfirmClaim, Identify,
        CompleteRefused, CompleteDeviceAuthorization, RejectDeviceAuthorization, RejectRefused,
        RejectTimesOut, RejectRetries, CallbackCrashes, Goto, Return
  <2>2. CASE \E e \in Callbacks :
               \/ \E d \in Devices, k \in Confirmations : CallbackArrives(e, d, k)
               \/ CallbackStep(e) \/ RejectRetries(e) \/ CallbackCrashes(e)
    BY <1>2, <1>3, <1>5, <1>6, <1>7, <1>8, <2>1, <2>2 DEF CallbackStep
  <2>3. CASE \E p \in Polls :
               \/ \E d \in Devices : PollArrives(p, d)
               \/ PollStep(p) \/ PollAgain(p) \/ PollCrashes(p)
    BY <1>2, <2>3
    DEF PollStep, PollArrives, ExchangeRefused, ExchangeDeviceAuthorization, ConfirmSession,
        PollFails, PollAgain, PollCrashes
  <2>4. CASE \/ Tick \/ Prune \/ Quiescent \/ UNCHANGED vars
             \/ \E d \in Devices : DatabaseStep(d) \/ BrowserStep(d)
    BY <1>2, <2>4
    DEF Tick, Prune, Quiescent, DatabaseStep, BrowserStep, CommitLands, CommitLost, CreateDevice,
        StartAuthorization, StartAuthorizationUnknown, RejectAuthorization, vars
  <2>5. QED
    BY <2>2, <2>3, <2>4 DEF Next

\* A request starts with a state that was handed out, or a device that was issued.
LEMMA Arrivals ==
  ASSUME Inv, [Next]_vars
  PROVE  /\ \A c \in Callbacks : cb[c].pc = "idle" /\ cb'[c].pc # "idle" =>
              <<cb'[c].dev, cb'[c].state>> \in redirects
         /\ \A p \in Polls : poll[p].pc = "idle" /\ poll'[p].pc # "idle" =>
              poll'[p].dev \in issued
<1> USE DEF Inv
<1>1. cb \in [Callbacks -> Callback] /\ poll \in [Polls -> Poll]
  BY DEF TypeOK
<1>2. ASSUME NEW c \in Callbacks, NEW e \in Callbacks, UNCHANGED poll,
             \/ \E d \in Devices, k \in Confirmations : CallbackArrives(e, d, k)
             \/ CallbackStep(e) \/ RejectRetries(e) \/ CallbackCrashes(e),
             cb[c].pc = "idle", cb'[c].pc # "idle"
      PROVE  <<cb'[c].dev, cb'[c].state>> \in redirects
  <2>1. CASE \E d \in Devices, k \in Confirmations : CallbackArrives(e, d, k)
    BY <1>1, <1>2, <2>1 DEF CallbackArrives
  <2>2. CASE CallbackStep(e) \/ RejectRetries(e) \/ CallbackCrashes(e)
    BY <1>1, <1>2, <2>2
    DEF CallbackStep, ClaimRefused, ClaimOAuthState, ConfirmClaim, Identify, CompleteRefused,
        CompleteDeviceAuthorization, RejectDeviceAuthorization, RejectRefused, RejectTimesOut,
        RejectRetries, CallbackCrashes, Goto, Return
  <2>3. QED
    BY <1>2, <2>1, <2>2
<1>3. ASSUME NEW p \in Polls, NEW q \in Polls, UNCHANGED cb,
             \/ \E d \in Devices : PollArrives(q, d)
             \/ PollStep(q) \/ PollAgain(q) \/ PollCrashes(q),
             poll[p].pc = "idle", poll'[p].pc # "idle"
      PROVE  poll'[p].dev \in issued
  <2>1. CASE \E d \in Devices : PollArrives(q, d)
    BY <1>1, <1>3, <2>1 DEF PollArrives
  <2>2. CASE PollStep(q) \/ PollAgain(q) \/ PollCrashes(q)
    BY <1>1, <1>3, <2>2
    DEF PollStep, ExchangeRefused, ExchangeDeviceAuthorization, ConfirmSession, PollFails,
        PollAgain, PollCrashes, Answer
  <2>3. QED
    BY <1>3, <2>1, <2>2
<1>4. CASE \E e \in Callbacks :
             \/ \E d \in Devices, k \in Confirmations : CallbackArrives(e, d, k)
             \/ CallbackStep(e) \/ RejectRetries(e) \/ CallbackCrashes(e)
  <2>1. UNCHANGED poll
    BY <1>4
    DEF CallbackStep, CallbackArrives, ClaimRefused, ClaimOAuthState, ConfirmClaim, Identify,
        CompleteRefused, CompleteDeviceAuthorization, RejectDeviceAuthorization,
        RejectRefused, RejectTimesOut, RejectRetries, CallbackCrashes
  <2>2. QED
    BY <1>2, <1>4, <2>1
<1>5. CASE \E q \in Polls :
             \/ \E d \in Devices : PollArrives(q, d)
             \/ PollStep(q) \/ PollAgain(q) \/ PollCrashes(q)
  <2>1. UNCHANGED cb
    BY <1>5
    DEF PollStep, PollArrives, ExchangeRefused, ExchangeDeviceAuthorization, ConfirmSession,
        PollFails, PollAgain, PollCrashes
  <2>2. QED
    BY <1>3, <1>5, <2>1
<1>6. CASE \/ Tick \/ Prune \/ Quiescent \/ UNCHANGED vars
           \/ \E d \in Devices : DatabaseStep(d) \/ BrowserStep(d)
  BY <1>6
  DEF Tick, Prune, Quiescent, DatabaseStep, BrowserStep, CommitLands, CommitLost, CreateDevice,
      StartAuthorization, StartAuthorizationUnknown, RejectAuthorization, vars
<1>7. QED
  BY <1>4, <1>5, <1>6 DEF Next

LEMMA RequestsStep == ASSUME Inv, [Next]_vars PROVE RequestsOK'
<1>1. redirects \subseteq redirects' /\ issued \subseteq issued'
  BY TableEffect
  DEF TableStep, Untouched, RowsPruned, RowCreated, RowClaimed, RowDenied, RowBound, RowApproved,
      RowConsumed
<1>2. ASSUME NEW c \in Callbacks, cb'[c].pc # "idle"
      PROVE  <<cb'[c].dev, cb'[c].state>> \in redirects'
  BY <1>1, <1>2, Arrivals, RequestFrame DEF Inv, RequestsOK
<1>3. ASSUME NEW p \in Polls, poll'[p].pc # "idle" PROVE poll'[p].dev \in issued'
  BY <1>1, <1>3, Arrivals, RequestFrame DEF Inv, RequestsOK
<1>4. QED
  BY <1>2, <1>3, CallbackUser DEF RequestsOK

-----------------------------------------------------------------------------
(* Answers.  A decided row never becomes undecided, so what a handler      *)
(* reported about it remains true.                                         *)

LEMMA DecisionStands ==
  ASSUME Inv, [Next]_vars, NEW d \in Devices, d \in issued
  PROVE  /\ row[d].status \in {"denied", "absent"} =>
              /\ row'[d].status \in {"denied", "absent"}
              /\ \A s \in sessions' : s.dev = d => s \in sessions
         /\ row[d].status = "absent" => row'[d].status = "absent"
         /\ row[d].status \in {"approved", "consumed"} =>
              \/ row'[d].status \in {"approved", "consumed"} /\ row'[d].user = row[d].user
              \/ row'[d].status = "absent"
         /\ sessions \subseteq sessions'
<1>1. row \in [Devices -> Row] /\ row[d] \in Row
  BY DEF Inv, TypeOK
<1>2. CASE Untouched \/ RowsPruned
  BY <1>1, <1>2 DEF Untouched, RowsPruned, NoRow
<1>3. ASSUME NEW e \in Devices,
             \/ RowCreated(e) \/ RowClaimed(e) \/ RowDenied(e)
             \/ \E k \in Confirmations : RowBound(e, k)
             \/ \E u \in Users : RowApproved(e, u)
      PROVE  /\ sessions' = sessions
             /\ row'[d] = row[d] \/ row[d].status \in {"pending", "authorizing"}
  BY <1>1, <1>3 DEF RowCreated, RowClaimed, RowDenied, RowBound, RowApproved
<1>4. ASSUME NEW e \in Devices, NEW p \in Polls, RowConsumed(e, p)
      PROVE  /\ sessions' = sessions \cup {Session(e, p)} /\ Session(e, p).dev = e
             /\ e # d => row'[d] = row[d]
             /\ e = d => /\ row[d].status = "approved" /\ row'[d].status = "consumed"
                         /\ row'[d].user = row[d].user
  BY <1>1, <1>4 DEF RowConsumed, Consumed, Session, Row
<1>5. QED
  BY <1>2, <1>3, <1>4, TableEffect DEF TableStep

\* What a step answers a poll, and what it read to say so.
PollEffect(p) ==
  \/ poll'[p] = poll[p]
  \/ poll'[p].pc \notin {"granted", "used", "denied"}
  \/ /\ poll[p].pc # "idle" /\ poll'[p].dev = poll[p].dev
     /\ \/ /\ poll'[p].pc \in {"used", "denied"}
           /\ row[poll[p].dev].status = (IF poll'[p].pc = "used" THEN "consumed" ELSE "denied")
        \/ /\ poll'[p].pc = "granted"
           /\ \E s \in sessions' : s.poll = p /\ s.dev = poll[p].dev

LEMMA PollAnswers == ASSUME Inv, [Next]_vars, NEW p \in Polls PROVE PollEffect(p)
<1> USE DEF Inv
<1>1. poll \in [Polls -> Poll] /\ poll[p] \in Poll
  BY DEF TypeOK
<1>2. CASE poll'[p] = poll[p]
  BY <1>2 DEF PollEffect
<1>3. ASSUME NEW pc \in PollPCs, Answer(p, pc)
      PROVE  poll'[p].pc = pc /\ poll'[p].dev = poll[p].dev
  BY <1>1, <1>3 DEF Answer, Poll
<1>4. CASE ExchangeRefused(p)
  <2>1. /\ row[poll[p].dev] \in Row
        /\ ExchangeError(row[poll[p].dev], poll[p].at) \in PollPCs
    BY <1>4, RequestDevices
    DEF ExchangeRefused, ExchangeError, CanExchange, Exists, PollPCs, TypeOK, Row, Statuses
  <2>2. /\ poll'[p].pc = ExchangeError(row[poll[p].dev], poll[p].at)
        /\ poll'[p].dev = poll[p].dev /\ poll[p].pc # "idle"
    BY <1>3, <1>4, <2>1 DEF ExchangeRefused
  <2>3. QED
    BY <1>4, <2>1, <2>2
    DEF ExchangeRefused, ExchangeError, CanExchange, Exists, PollEffect, Row, Statuses
<1>5. CASE ExchangeDeviceAuthorization(p)
  <2>1. CASE Answer(p, "granted")
    <3>1. poll'[p].pc = "granted" /\ poll'[p].dev = poll[p].dev /\ poll[p].pc # "idle"
      BY <1>3, <1>5, <2>1 DEF ExchangeDeviceAuthorization, PollPCs
    <3>2. CASE Session(poll[p].dev, p) \in sessions'
      BY <3>1, <3>2 DEF PollEffect, Session
    <3>3. CASE poll' = [poll EXCEPT ![p] = [@ EXCEPT !.pc = "confirm"]]
      BY <1>1, <3>1, <3>3 DEF Poll
    <3>4. QED
      BY <1>5, <3>2, <3>3 DEF ExchangeDeviceAuthorization, Commit
  <2>2. CASE poll' = [poll EXCEPT ![p] = [@ EXCEPT !.pc = "confirm"]]
    <3>1. poll'[p].pc = "confirm"
      BY <1>1, <2>2 DEF Poll
    <3>2. QED
      BY <3>1 DEF PollEffect
  <2>3. QED
    BY <1>5, <2>1, <2>2 DEF ExchangeDeviceAuthorization
<1>6. CASE ConfirmSession(p)
  <2>1. CASE Answer(p, "unavailable")
    BY <1>3, <2>1 DEF PollEffect, PollPCs
  <2>2. CASE Answer(p, "granted") /\ \E s \in sessions : s.poll = p
    <3>1. poll'[p].pc = "granted" /\ poll'[p].dev = poll[p].dev /\ poll[p].pc # "idle"
      BY <1>3, <1>6, <2>2 DEF ConfirmSession, PollPCs
    <3>2. \E s \in sessions : s.poll = p /\ s.dev = poll[p].dev
      BY <2>2 DEF SessionsOK
    <3>3. sessions' = sessions
      BY <1>6 DEF ConfirmSession
    <3>4. QED
      BY <3>1, <3>2, <3>3 DEF PollEffect
  <2>3. QED
    BY <1>6, <2>1, <2>2 DEF ConfirmSession
<1>7. CASE PollFails(p) \/ PollAgain(p) \/ PollCrashes(p) \/ \E d \in Devices : PollArrives(p, d)
  <2>1. CASE PollFails(p) \/ PollCrashes(p)
    BY <1>3, <2>1 DEF PollFails, PollCrashes, PollPCs, PollEffect
  <2>2. CASE PollAgain(p)
    <3>1. poll'[p].pc = "exchange"
      BY <1>1, <2>2 DEF PollAgain, Poll
    <3>2. QED
      BY <3>1 DEF PollEffect
  <2>3. CASE \E d \in Devices : PollArrives(p, d)
    <3>1. poll'[p].pc = "exchange"
      BY <1>1, <2>3 DEF PollArrives
    <3>2. QED
      BY <3>1 DEF PollEffect
  <2>4. QED
    BY <1>7, <2>1, <2>2, <2>3
<1>8. ASSUME NEW q \in Polls, q # p,
             \/ \E d \in Devices : PollArrives(q, d)
             \/ PollStep(q) \/ PollAgain(q) \/ PollCrashes(q)
      PROVE  poll'[p] = poll[p]
  BY <1>1, <1>8
  DEF PollStep, PollArrives, ExchangeRefused, ExchangeDeviceAuthorization, ConfirmSession,
      PollFails, PollAgain, PollCrashes, Answer
<1>9. ASSUME NEW c \in Callbacks,
             \/ \E d \in Devices, k \in Confirmations : CallbackArrives(c, d, k)
             \/ CallbackStep(c) \/ RejectRetries(c) \/ CallbackCrashes(c)
      PROVE  UNCHANGED poll
  BY <1>9
  DEF CallbackStep, CallbackArrives, ClaimRefused, ClaimOAuthState, ConfirmClaim, Identify,
      CompleteRefused, CompleteDeviceAuthorization, RejectDeviceAuthorization, RejectRefused,
      RejectTimesOut, RejectRetries, CallbackCrashes
<1>10. CASE \/ Tick \/ Prune \/ Quiescent \/ UNCHANGED vars
            \/ \E d \in Devices : DatabaseStep(d) \/ BrowserStep(d)
  BY <1>2, <1>10
  DEF Tick, Prune, Quiescent, DatabaseStep, BrowserStep, CommitLands, CommitLost, CreateDevice,
      StartAuthorization, StartAuthorizationUnknown, RejectAuthorization, vars
<1>11. QED
  BY <1>2, <1>4, <1>5, <1>6, <1>7, <1>8, <1>9, <1>10 DEF Next, PollStep

\* What a step answers a callback.
CallbackEffect(c) ==
  \/ cb'[c] = cb[c]
  \/ cb'[c].pc \notin {"ok", "rejected"}
  \/ /\ cb'[c].pc = "ok" /\ cb'[c].dev \in Devices
     /\ row'[cb'[c].dev].status = "approved" /\ row'[cb'[c].dev].user = cb'[c].user
  \/ /\ cb'[c].pc = "rejected" /\ cb'[c].dev \in Devices
     /\ row[cb'[c].dev].status \in {"authorizing", "denied"}
     /\ row'[cb'[c].dev].status = "denied" /\ sessions' = sessions

LEMMA CallbackAnswers == ASSUME Inv, [Next]_vars, NEW c \in Callbacks PROVE CallbackEffect(c)
<1> USE DEF Inv
<1>1. /\ cb \in [Callbacks -> Callback] /\ cb[c] \in Callback /\ row \in [Devices -> Row]
      /\ cb[c].pc # "idle" => cb[c].dev \in Devices
  BY RequestDevices DEF TypeOK
<1>2. CASE cb'[c] = cb[c]
  BY <1>2 DEF CallbackEffect
<1>3. ASSUME NEW pc, Goto(c, pc) \/ Return(c, pc)
      PROVE  cb'[c].pc = pc /\ cb'[c].dev = cb[c].dev /\ cb'[c].user = cb[c].user
  BY <1>1, <1>3 DEF Goto, Return, Callback
<1>4. CASE \/ ClaimOAuthState(c) \/ Identify(c)
           \/ \E d \in Devices, k \in Confirmations : CallbackArrives(c, d, k)
  <2>1. CASE Goto(c, "reject") \/ Return(c, "identify")
    BY <1>3, <2>1 DEF CallbackEffect
  <2>2. CASE cb' = [cb EXCEPT ![c] = [@ EXCEPT !.pc = "confirm"]]
    <3>1. cb'[c].pc = "confirm"
      BY <1>1, <2>2 DEF Callback
    <3>2. QED
      BY <3>1 DEF CallbackEffect
  <2>3. ASSUME NEW u, cb' = [cb EXCEPT ![c] = [@ EXCEPT !.pc = "complete", !.user = u, !.at = now]]
        PROVE  CallbackEffect(c)
    <3>1. cb'[c].pc = "complete"
      BY <1>1, <2>3 DEF Callback
    <3>2. QED
      BY <3>1 DEF CallbackEffect
  <2>4. CASE \E d \in Devices, k \in Confirmations : CallbackArrives(c, d, k)
    <3>1. cb'[c].pc = "claim"
      BY <1>1, <2>4 DEF CallbackArrives
    <3>2. QED
      BY <3>1 DEF CallbackEffect
  <2>5. QED
    BY <1>4, <2>1, <2>2, <2>3, <2>4 DEF ClaimOAuthState, Identify
<1>5. CASE \/ ClaimRefused(c) \/ ConfirmClaim(c) \/ CompleteRefused(c) \/ RejectTimesOut(c)
           \/ RejectRetries(c) \/ CallbackCrashes(c)
  <2>1. cb'[c].pc \in {"refused", "identify", "reject", "failed", "crashed", "abandoned"}
    BY <1>3, <1>5
    DEF ClaimRefused, ConfirmClaim, CompleteRefused, RejectTimesOut, RejectRetries, CallbackCrashes
  <2>2. QED
    BY <2>1 DEF CallbackEffect
<1>6. ASSUME NEW d \in Devices, d = cb[c].dev, CompleteDeviceAuthorization(c)
      PROVE  CallbackEffect(c)
  <2>1. CASE Commit(d, Approved(row[d], cb[c].user), {}) /\ Return(c, "ok")
    <3>1. row'[d].status = "approved" /\ row'[d].user = cb[c].user
      BY <1>1, <2>1 DEF Commit, Approved, Row
    <3>2. QED
      BY <1>3, <1>6, <2>1, <3>1 DEF CallbackEffect
  <2>2. CASE Goto(c, "reject")
    BY <1>3, <2>2 DEF CallbackEffect
  <2>3. QED
    BY <1>6, <2>1, <2>2 DEF CompleteDeviceAuthorization
<1>7. ASSUME NEW d \in Devices, d = cb[c].dev, RejectDeviceAuthorization(c)
      PROVE  CallbackEffect(c)
  <2>1. CASE Commit(d, Denied(row[d]), {}) /\ Return(c, "rejected")
    <3>1. row'[d].status = "denied" /\ sessions' = sessions /\ row[d].status = "authorizing"
      BY <1>1, <1>7, <2>1 DEF RejectDeviceAuthorization, CanReject, Commit, Denied, Row
    <3>2. QED
      BY <1>3, <1>7, <2>1, <3>1 DEF CallbackEffect
  <2>2. CASE Goto(c, "reject")
    BY <1>3, <2>2 DEF CallbackEffect
  <2>3. QED
    BY <1>7, <2>1, <2>2 DEF RejectDeviceAuthorization
<1>8. ASSUME NEW d \in Devices, d = cb[c].dev, RejectRefused(c)
      PROVE  CallbackEffect(c)
  <2>1. CASE Return(c, "rejected") /\ row[d].status = "denied"
    BY <1>3, <1>8, <2>1 DEF RejectRefused, CallbackEffect
  <2>2. CASE Return(c, "failed")
    BY <1>3, <2>2 DEF CallbackEffect
  <2>3. QED
    BY <1>8, <2>1, <2>2 DEF RejectRefused, AlreadyRejected
<1>9. ASSUME NEW e \in Callbacks, e # c,
             \/ \E d \in Devices, k \in Confirmations : CallbackArrives(e, d, k)
             \/ CallbackStep(e) \/ RejectRetries(e) \/ CallbackCrashes(e)
      PROVE  cb'[c] = cb[c]
  BY <1>1, <1>9
  DEF CallbackStep, CallbackArrives, ClaimRefused, ClaimOAuthState, ConfirmClaim, Identify,
      CompleteRefused, CompleteDeviceAuthorization, RejectDeviceAuthorization, RejectRefused,
      RejectTimesOut, RejectRetries, CallbackCrashes, Goto, Return
<1>10. CASE CallbackStep(c)
  <2>1. cb[c].pc # "idle"
    BY <1>10
    DEF CallbackStep, ClaimRefused, ClaimOAuthState, ConfirmClaim, Identify, CompleteRefused,
        CompleteDeviceAuthorization, RejectDeviceAuthorization, RejectRefused, RejectTimesOut
  <2>2. QED
    BY <1>1, <1>4, <1>5, <1>6, <1>7, <1>8, <1>10, <2>1 DEF CallbackStep
<1>11. CASE \E p \in Polls :
              \/ \E d \in Devices : PollArrives(p, d)
              \/ PollStep(p) \/ PollAgain(p) \/ PollCrashes(p)
  BY <1>2, <1>11
  DEF PollStep, PollArrives, ExchangeRefused, ExchangeDeviceAuthorization, ConfirmSession,
      PollFails, PollAgain, PollCrashes
<1>12. CASE \/ Tick \/ Prune \/ Quiescent \/ UNCHANGED vars
            \/ \E d \in Devices : DatabaseStep(d) \/ BrowserStep(d)
  BY <1>2, <1>12
  DEF Tick, Prune, Quiescent, DatabaseStep, BrowserStep, CommitLands, CommitLost, CreateDevice,
      StartAuthorization, StartAuthorizationUnknown, RejectAuthorization, vars
<1>13. QED
  BY <1>2, <1>4, <1>5, <1>9, <1>10, <1>11, <1>12 DEF Next

LEMMA AnswersStep == ASSUME Inv, [Next]_vars PROVE AnswersOK'
<1> USE DEF Inv
<1>1. ASSUME NEW p \in Polls, NEW d \in Devices, d = poll'[p].dev, d \in issued,
             poll'[p].pc \in {"granted", "used", "denied"}
      PROVE  /\ poll'[p].pc = "granted" => \E s \in sessions' : s.poll = p /\ s.dev = d
             /\ poll'[p].pc = "used" => \E s \in sessions' : s.dev = d
             /\ poll'[p].pc = "denied" =>
                  row'[d].status \in {"denied", "absent"} /\ ~\E s \in sessions' : s.dev = d
  <2>1. CASE poll'[p] = poll[p]
    BY <1>1, <2>1, DecisionStands DEF AnswersOK, AnswersStand, PollAnswersAgree
  <2>2. CASE /\ poll[p].pc # "idle" /\ poll'[p].dev = poll[p].dev
             /\ poll'[p].pc = "granted"
             /\ \E s \in sessions' : s.poll = p /\ s.dev = poll[p].dev
    BY <1>1, <2>2
  <2>3. CASE poll'[p].pc = "used" /\ row[d].status = "consumed"
    BY <1>1, <2>3, DecisionStands DEF SessionsOK
  <2>4. CASE poll'[p].pc = "denied" /\ row[d].status = "denied"
    BY <1>1, <2>4, DecisionStands DEF SessionsOK
  <2>5. QED
    BY <1>1, <2>1, <2>2, <2>3, <2>4, PollAnswers DEF PollEffect
<1>2. ASSUME NEW p \in Polls, poll'[p].pc \in {"granted", "used", "denied"}
      PROVE  poll'[p].dev \in Devices /\ poll'[p].dev \in issued
  <2>1. poll[p].pc # "idle" /\ poll'[p].dev = poll[p].dev
    BY <1>2, PollAnswers, RequestFrame DEF PollEffect
  <2>2. QED
    BY <2>1, RequestDevices DEF RequestsOK
<1>3. ASSUME NEW c \in Callbacks, NEW d \in Devices, d = cb'[c].dev, d \in issued,
             cb'[c].pc = "ok"
      PROVE  \/ row'[d].status \in {"approved", "consumed"} /\ row'[d].user = cb'[c].user
             \/ row'[d].status = "absent"
  <2>1. CASE cb'[c] = cb[c]
    BY <1>3, <2>1, DecisionStands DEF AnswersOK, AnswersStand, ReportedApprovalStands, Exists
  <2>2. QED
    BY <1>3, <2>1, CallbackAnswers DEF CallbackEffect
<1>4. ASSUME NEW c \in Callbacks, NEW d \in Devices, d = cb'[c].dev, d \in issued,
             cb'[c].pc = "rejected"
      PROVE  row'[d].status \in {"denied", "absent"} /\ ~\E s \in sessions' : s.dev = d
  <2>1. CASE cb'[c] = cb[c]
    BY <1>4, <2>1, DecisionStands DEF AnswersOK, AnswersStand, ReportedRejectionStands
  <2>2. QED
    BY <1>4, <2>1, CallbackAnswers DEF CallbackEffect, SessionsOK
<1>5. ASSUME NEW c \in Callbacks, cb'[c].pc \in {"ok", "rejected"}
      PROVE  cb'[c].dev \in Devices /\ cb'[c].dev \in issued
  <2>1. <<cb'[c].dev, cb'[c].state>> \in redirects
    <3>1. cb[c].pc # "idle" \/ <<cb'[c].dev, cb'[c].state>> \in redirects
      BY <1>5, Arrivals
    <3>2. QED
      BY <3>1, RequestFrame DEF RequestsOK
  <2>2. QED
    BY <2>1 DEF BindingOK, TypeOK
<1>6. QED
  BY <1>1, <1>2, <1>3, <1>4, <1>5
  DEF AnswersOK, AnswersStand, PollAnswersAgree, ReportedApprovalStands, ReportedRejectionStands, Exists

-----------------------------------------------------------------------------
(* Readings.  A row keeps its expiry until it is pruned, so it separates   *)
(* the readings that were found in time from those that were not.          *)

LEMMA ExpiryKept ==
  ASSUME Inv, [Next]_vars, NEW d \in Devices, d \in issued, Exists(row[d])'
  PROVE  Exists(row[d]) /\ row'[d].expires = row[d].expires
<1>1. row \in [Devices -> Row] /\ row[d] \in Row
  BY DEF Inv, TypeOK
<1>2. CASE Untouched \/ RowsPruned
  BY <1>1, <1>2 DEF Untouched, RowsPruned, NoRow, Exists
<1>3. ASSUME NEW e \in Devices, RowClaimed(e) \/ RowDenied(e)
      PROVE  Exists(row[d]) /\ row'[d].expires = row[d].expires
  <2>1. row[e].status # "absent" /\ row'[d] \in {row[d], Claimed(row[d]), Denied(row[d])}
    BY <1>1, <1>3 DEF RowClaimed, RowDenied
  <2>2. e # d => row'[d] = row[d]
    BY <1>1, <1>3 DEF RowClaimed, RowDenied
  <2>3. row'[d].expires = row[d].expires
    BY <1>1, <2>1 DEF Claimed, Denied, Row
  <2>4. QED
    BY <2>1, <2>2, <2>3 DEF Exists
<1>4. ASSUME NEW e \in Devices,
             \/ RowCreated(e)
             \/ \E k \in Confirmations : RowBound(e, k)
             \/ \E u \in Users : RowApproved(e, u)
             \/ \E p \in Polls : RowConsumed(e, p)
      PROVE  Exists(row[d]) /\ row'[d].expires = row[d].expires
  <2>1. \/ row'[d] = row[d]
        \/ /\ row[d].status # "absent"
           /\ \/ \E k \in Confirmations : row'[d] = Bound(row[d], k)
              \/ \E u \in Users : row'[d] = Approved(row[d], u)
              \/ row'[d] = Consumed(row[d])
    BY <1>1, <1>4 DEF RowCreated, RowBound, RowApproved, RowConsumed
  <2>2. row'[d].expires = row[d].expires
    BY <1>1, <2>1 DEF Bound, Approved, Consumed, Row
  <2>3. QED
    BY <2>1, <2>2 DEF Exists
<1>5. QED
  BY <1>2, <1>3, <1>4, TableEffect DEF TableStep

\* What a step tells a poll of its device, and the reading it judged it by.
PollJudgement(p) ==
  \/ poll'[p] = poll[p]
  \/ poll'[p].pc \notin PollJudged \cup {"expired"}
  \/ /\ poll[p].pc # "idle" /\ poll'[p].dev = poll[p].dev /\ poll'[p].at = poll[p].at
     /\ \/ poll[p].pc = "confirm" /\ poll'[p].pc = "granted"
        \/ /\ Exists(row[poll[p].dev])
           /\ poll'[p].pc = "expired" <=> Expired(row[poll[p].dev], poll[p].at)

LEMMA PollReadings == ASSUME Inv, [Next]_vars, NEW p \in Polls PROVE PollJudgement(p)
<1> USE DEF Inv
<1>1. poll \in [Polls -> Poll] /\ poll[p] \in Poll
  BY DEF TypeOK
<1>2. CASE poll'[p] = poll[p]
  BY <1>2 DEF PollJudgement
<1>3. ASSUME NEW pc \in PollPCs, Answer(p, pc)
      PROVE  /\ poll'[p].pc = pc /\ poll'[p].dev = poll[p].dev
             /\ pc \in PollVerdicts => poll'[p].at = poll[p].at
  <2>1. poll'[p].pc = pc /\ poll'[p].dev = poll[p].dev /\ poll'[p].at = PollReading(p, pc)
    BY <1>1, <1>3 DEF Answer, Poll
  <2>2. QED
    BY <2>1 DEF PollReading
<1>4. CASE ExchangeRefused(p)
  <2> DEFINE answer == ExchangeError(row[poll[p].dev], poll[p].at)
  <2>1. row[poll[p].dev] \in Row /\ answer \in PollPCs
    BY <1>4, RequestDevices
    DEF ExchangeRefused, ExchangeError, CanExchange, Exists, PollPCs, TypeOK, Row, Statuses
  <2>2. /\ poll'[p].pc = answer /\ poll'[p].dev = poll[p].dev /\ poll[p].pc # "idle"
        /\ answer \in PollVerdicts => poll'[p].at = poll[p].at
    BY <1>3, <1>4, <2>1 DEF ExchangeRefused
  <2>3. answer \in PollJudged \cup {"expired"} =>
          /\ answer \in PollVerdicts /\ Exists(row[poll[p].dev])
          /\ answer = "expired" <=> Expired(row[poll[p].dev], poll[p].at)
    BY <2>1 DEF ExchangeError, Exists, PollVerdicts, PollJudged, Row, Statuses
  <2> HIDE DEF answer
  <2>4. QED
    BY <2>2, <2>3 DEF PollJudgement
<1>5. CASE ExchangeDeviceAuthorization(p)
  <2>1. /\ poll[p].pc # "idle" /\ Exists(row[poll[p].dev])
        /\ ~Expired(row[poll[p].dev], poll[p].at)
    BY <1>5 DEF ExchangeDeviceAuthorization, CanExchange, Exists
  <2>2. CASE Answer(p, "granted")
    <3>1. poll'[p].pc = "granted" /\ poll'[p].dev = poll[p].dev /\ poll'[p].at = poll[p].at
      BY <1>3, <2>2 DEF PollPCs, PollVerdicts
    <3>2. QED
      BY <2>1, <3>1 DEF PollJudgement
  <2>3. CASE poll' = [poll EXCEPT ![p] = [@ EXCEPT !.pc = "confirm"]]
    <3>1. poll'[p].pc = "confirm" /\ poll'[p].dev = poll[p].dev /\ poll'[p].at = poll[p].at
      BY <1>1, <2>3 DEF Poll
    <3>2. QED
      BY <2>1, <3>1 DEF PollJudgement
  <2>4. QED
    BY <1>5, <2>2, <2>3 DEF ExchangeDeviceAuthorization
<1>6. CASE ConfirmSession(p)
  <2>1. CASE Answer(p, "unavailable")
    BY <1>3, <2>1 DEF PollJudgement, PollPCs, PollJudged, PollVerdicts
  <2>2. CASE Answer(p, "granted")
    <3>1. poll'[p].pc = "granted" /\ poll'[p].dev = poll[p].dev /\ poll'[p].at = poll[p].at
      BY <1>3, <2>2 DEF PollPCs, PollVerdicts
    <3>2. QED
      BY <1>6, <3>1 DEF ConfirmSession, PollJudgement
  <2>3. QED
    BY <1>6, <2>1, <2>2 DEF ConfirmSession
<1>7. CASE PollFails(p) \/ PollAgain(p) \/ PollCrashes(p) \/ \E d \in Devices : PollArrives(p, d)
  <2>1. CASE PollFails(p) \/ PollCrashes(p)
    <3>1. \E pc \in {"unavailable", "crashed"} : Answer(p, pc)
      BY <2>1 DEF PollFails, PollCrashes
    <3>2. poll'[p].pc \in {"unavailable", "crashed"}
      BY <1>3, <3>1 DEF PollPCs
    <3>3. QED
      BY <3>2 DEF PollJudgement, PollJudged, PollVerdicts
  <2>2. CASE PollAgain(p) \/ \E d \in Devices : PollArrives(p, d)
    <3>1. \/ poll'[p] = [poll[p] EXCEPT !.pc = "exchange", !.at = now]
          \/ \E d \in Devices : poll'[p] = [pc |-> "exchange", dev |-> d, at |-> now]
      BY <1>1, <2>2 DEF PollAgain, PollArrives
    <3>2. [poll[p] EXCEPT !.pc = "exchange", !.at = now].pc = "exchange"
      BY <1>1 DEF Poll
    <3>3. poll'[p].pc = "exchange"
      <4>1. CASE poll'[p] = [poll[p] EXCEPT !.pc = "exchange", !.at = now]
        BY <3>2, <4>1
      <4>2. CASE \E d \in Devices : poll'[p] = [pc |-> "exchange", dev |-> d, at |-> now]
        BY <4>2
      <4>3. QED
        BY <3>1, <4>1, <4>2
    <3>4. QED
      BY <3>3 DEF PollJudgement, PollJudged, PollVerdicts
  <2>3. QED
    BY <1>7, <2>1, <2>2
<1>8. ASSUME NEW q \in Polls, q # p,
             \/ \E d \in Devices : PollArrives(q, d)
             \/ PollStep(q) \/ PollAgain(q) \/ PollCrashes(q)
      PROVE  poll'[p] = poll[p]
  BY <1>1, <1>8
  DEF PollStep, PollArrives, ExchangeRefused, ExchangeDeviceAuthorization, ConfirmSession,
      PollFails, PollAgain, PollCrashes, Answer
<1>9. ASSUME NEW c \in Callbacks,
             \/ \E d \in Devices, k \in Confirmations : CallbackArrives(c, d, k)
             \/ CallbackStep(c) \/ RejectRetries(c) \/ CallbackCrashes(c)
      PROVE  UNCHANGED poll
  BY <1>9
  DEF CallbackStep, CallbackArrives, ClaimRefused, ClaimOAuthState, ConfirmClaim, Identify,
      CompleteRefused, CompleteDeviceAuthorization, RejectDeviceAuthorization, RejectRefused,
      RejectTimesOut, RejectRetries, CallbackCrashes
<1>10. CASE \/ Tick \/ Prune \/ Quiescent \/ UNCHANGED vars
            \/ \E d \in Devices : DatabaseStep(d) \/ BrowserStep(d)
  BY <1>2, <1>10
  DEF Tick, Prune, Quiescent, DatabaseStep, BrowserStep, CommitLands, CommitLost, CreateDevice,
      StartAuthorization, StartAuthorizationUnknown, RejectAuthorization, vars
<1>11. QED
  BY <1>2, <1>4, <1>5, <1>6, <1>7, <1>8, <1>9, <1>10 DEF Next, PollStep

\* What a step tells a callback of its device, likewise.
CallbackJudgement(c) ==
  \/ cb'[c] = cb[c]
  \/ cb'[c].pc \notin CallbackVerdicts
  \/ /\ cb[c].pc # "idle" /\ cb'[c].dev = cb[c].dev /\ cb'[c].at = cb[c].at
     /\ Exists(row[cb[c].dev]) /\ ~Expired(row[cb[c].dev], cb[c].at)

LEMMA CallbackReadings == ASSUME Inv, [Next]_vars, NEW c \in Callbacks PROVE CallbackJudgement(c)
<1> USE DEF Inv
<1>1. cb \in [Callbacks -> Callback] /\ cb[c] \in Callback
  BY DEF TypeOK
<1>2. CASE cb'[c] = cb[c]
  BY <1>2 DEF CallbackJudgement
<1>3. ASSUME NEW pc, Goto(c, pc) \/ Return(c, pc), pc \notin CallbackVerdicts
      PROVE  CallbackJudgement(c)
  <2>1. cb'[c].pc = pc
    BY <1>1, <1>3 DEF Goto, Return, Callback
  <2>2. QED
    BY <1>3, <2>1 DEF CallbackJudgement
<1>4. ASSUME NEW pc \in CallbackVerdicts, Return(c, pc), cb[c].pc # "idle",
             Exists(row[cb[c].dev]), ~Expired(row[cb[c].dev], cb[c].at)
      PROVE  CallbackJudgement(c)
  <2>1. cb'[c].dev = cb[c].dev /\ cb'[c].at = CallbackReading(c, pc)
    BY <1>1, <1>4 DEF Return, Callback
  <2>2. QED
    BY <1>4, <2>1 DEF CallbackJudgement, CallbackReading
<1>5. ASSUME NEW pc \in CallbackPCs \ CallbackVerdicts, cb'[c].pc = pc PROVE CallbackJudgement(c)
  BY <1>5 DEF CallbackJudgement
<1>6. CASE \/ ClaimRefused(c) \/ ConfirmClaim(c) \/ CompleteRefused(c) \/ RejectTimesOut(c)
           \/ RejectRetries(c) \/ CallbackCrashes(c)
  BY <1>3, <1>6
  DEF ClaimRefused, ConfirmClaim, CompleteRefused, RejectTimesOut, RejectRetries, CallbackCrashes,
      CallbackVerdicts
<1>7. CASE \/ ClaimOAuthState(c) \/ Identify(c)
           \/ \E d \in Devices, k \in Confirmations : CallbackArrives(c, d, k)
  <2>1. CASE Goto(c, "reject") \/ Return(c, "identify")
    BY <1>3, <2>1 DEF CallbackVerdicts
  <2>2. CASE cb' = [cb EXCEPT ![c] = [@ EXCEPT !.pc = "confirm"]]
    <3>1. cb'[c].pc = "confirm"
      BY <1>1, <2>2 DEF Callback
    <3>2. QED
      BY <1>5, <3>1 DEF CallbackPCs, CallbackVerdicts
  <2>3. ASSUME NEW u, cb' = [cb EXCEPT ![c] = [@ EXCEPT !.pc = "complete", !.user = u, !.at = now]]
        PROVE  CallbackJudgement(c)
    <3>1. cb'[c].pc = "complete"
      BY <1>1, <2>3 DEF Callback
    <3>2. QED
      BY <1>5, <3>1 DEF CallbackPCs, CallbackVerdicts
  <2>4. CASE \E d \in Devices, k \in Confirmations : CallbackArrives(c, d, k)
    <3>1. cb'[c].pc = "claim"
      BY <1>1, <2>4 DEF CallbackArrives
    <3>2. QED
      BY <1>5, <3>1 DEF CallbackPCs, CallbackVerdicts
  <2>5. QED
    BY <1>7, <2>1, <2>2, <2>3, <2>4 DEF ClaimOAuthState, Identify
<1>8. CASE CompleteDeviceAuthorization(c)
  <2>1. CASE Return(c, "ok")
    BY <1>4, <1>8, <2>1 DEF CompleteDeviceAuthorization, CanComplete, Exists, CallbackVerdicts
  <2>2. CASE Goto(c, "reject")
    BY <1>3, <2>2 DEF CallbackVerdicts
  <2>3. QED
    BY <1>8, <2>1, <2>2 DEF CompleteDeviceAuthorization
<1>9. CASE RejectDeviceAuthorization(c)
  <2>1. CASE Return(c, "rejected")
    BY <1>4, <1>9, <2>1 DEF RejectDeviceAuthorization, CanReject, Exists, CallbackVerdicts
  <2>2. CASE Goto(c, "reject")
    BY <1>3, <2>2 DEF CallbackVerdicts
  <2>3. QED
    BY <1>9, <2>1, <2>2 DEF RejectDeviceAuthorization
<1>10. CASE RejectRefused(c)
  <2>1. CASE Return(c, "rejected") /\ AlreadyRejected(row[cb[c].dev], cb[c].at)
    BY <1>4, <1>10, <2>1 DEF RejectRefused, AlreadyRejected, Exists, CallbackVerdicts
  <2>2. CASE Return(c, "failed")
    BY <1>3, <2>2 DEF CallbackVerdicts
  <2>3. QED
    BY <1>10, <2>1, <2>2 DEF RejectRefused
<1>11. ASSUME NEW e \in Callbacks, e # c,
             \/ \E d \in Devices, k \in Confirmations : CallbackArrives(e, d, k)
             \/ CallbackStep(e) \/ RejectRetries(e) \/ CallbackCrashes(e)
      PROVE  cb'[c] = cb[c]
  BY <1>1, <1>11
  DEF CallbackStep, CallbackArrives, ClaimRefused, ClaimOAuthState, ConfirmClaim, Identify,
      CompleteRefused, CompleteDeviceAuthorization, RejectDeviceAuthorization, RejectRefused,
      RejectTimesOut, RejectRetries, CallbackCrashes, Goto, Return
<1>12. CASE \E p \in Polls :
              \/ \E d \in Devices : PollArrives(p, d)
              \/ PollStep(p) \/ PollAgain(p) \/ PollCrashes(p)
  BY <1>2, <1>12
  DEF PollStep, PollArrives, ExchangeRefused, ExchangeDeviceAuthorization, ConfirmSession,
      PollFails, PollAgain, PollCrashes
<1>13. CASE \/ Tick \/ Prune \/ Quiescent \/ UNCHANGED vars
            \/ \E d \in Devices : DatabaseStep(d) \/ BrowserStep(d)
  BY <1>2, <1>13
  DEF Tick, Prune, Quiescent, DatabaseStep, BrowserStep, CommitLands, CommitLost, CreateDevice,
      StartAuthorization, StartAuthorizationUnknown, RejectAuthorization, vars
<1>14. QED
  BY <1>2, <1>6, <1>7, <1>8, <1>9, <1>10, <1>11, <1>12, <1>13 DEF Next, CallbackStep

\* One reading found the row in time, the other not.
LEMMA Separated ==
  ASSUME NEW r \in Row, NEW s \in 0..Horizon, NEW t \in 0..Horizon, ~Expired(r, s), Expired(r, t)
  PROVE  s < t
BY DeviceAssumption DEF Row, Times, Expired

LEMMA ExpiryStep == ASSUME Inv, [Next]_vars PROVE ExpiryOK'
<1> USE DEF Inv
<1>1. /\ row \in [Devices -> Row] /\ poll \in [Polls -> Poll] /\ cb \in [Callbacks -> Callback]
      /\ poll' \in [Polls -> Poll] /\ cb' \in [Callbacks -> Callback]
  BY TypeStep DEF TypeOK
<1>2. ASSUME NEW p \in Polls, poll'[p].pc \in PollJudged \cup {"expired"}
      PROVE  /\ poll[p].pc # "idle" /\ poll'[p].dev = poll[p].dev /\ poll'[p].at = poll[p].at
             /\ poll[p].dev \in Devices /\ poll[p].dev \in issued
  <2>1. poll[p].pc # "idle" /\ poll'[p].dev = poll[p].dev /\ poll'[p].at = poll[p].at
    BY <1>2, PollReadings DEF PollJudgement, PollJudged, PollVerdicts
  <2>2. QED
    BY <2>1, RequestDevices DEF RequestsOK
<1>3. ASSUME NEW c \in Callbacks, cb'[c].pc \in CallbackVerdicts
      PROVE  /\ cb[c].pc # "idle" /\ cb'[c].dev = cb[c].dev /\ cb'[c].at = cb[c].at
             /\ cb[c].dev \in Devices /\ cb[c].dev \in issued
  <2>1. cb[c].pc # "idle" /\ cb'[c].dev = cb[c].dev /\ cb'[c].at = cb[c].at
    BY <1>3, CallbackReadings DEF CallbackJudgement, CallbackVerdicts
  <2>2. QED
    BY <2>1, RequestDevices DEF RequestsOK, BindingOK
\* Who is judged by this step, or waits for its session, and is or was judged before.
<1>4. ASSUME NEW p \in Polls, poll'[p].pc \in PollJudged, Exists(row[poll[p].dev])
      PROVE  ~Expired(row[poll[p].dev], poll[p].at)
  BY <1>2, <1>4, PollReadings DEF PollJudgement, ExpiryOK, PollJudged, PollVerdicts
<1>5. ASSUME NEW p \in Polls, poll'[p].pc = "expired", Exists(row[poll[p].dev])
      PROVE  Expired(row[poll[p].dev], poll[p].at)
  BY <1>2, <1>5, PollReadings DEF PollJudgement, ExpiryOK, PollJudged, PollVerdicts
<1>6. ASSUME NEW c \in Callbacks, cb'[c].pc \in CallbackVerdicts, Exists(row[cb[c].dev])
      PROVE  ~Expired(row[cb[c].dev], cb[c].at)
  BY <1>3, <1>6, CallbackReadings DEF CallbackJudgement, ExpiryOK
\* Once the row is gone, nobody is judged anew.
<1>7. ASSUME NEW p \in Polls, poll'[p].pc \in PollJudged, ~Exists(row[poll[p].dev])
      PROVE  poll[p].pc \in PollJudged
  BY <1>7, PollReadings DEF PollJudgement, PollJudged, PollVerdicts
<1>8. ASSUME NEW p \in Polls, poll'[p].pc = "expired", ~Exists(row[poll[p].dev])
      PROVE  poll[p].pc = "expired"
  BY <1>8, PollReadings DEF PollJudgement, PollJudged, PollVerdicts
<1>9. ASSUME NEW c \in Callbacks, cb'[c].pc \in CallbackVerdicts, ~Exists(row[cb[c].dev])
      PROVE  cb[c].pc \in CallbackVerdicts
  BY <1>9, CallbackReadings DEF CallbackJudgement
<1>10. ASSUME NEW d \in Devices, Exists(row[d])'
       PROVE  /\ \A p \in Polls : poll'[p].dev = d =>
                   /\ poll'[p].pc \in PollJudged => ~Expired(row'[d], poll'[p].at)
                   /\ poll'[p].pc = "expired" => Expired(row'[d], poll'[p].at)
              /\ \A c \in Callbacks : cb'[c].dev = d /\ cb'[c].pc \in CallbackVerdicts =>
                   ~Expired(row'[d], cb'[c].at)
  <2>1. ASSUME d \in issued PROVE Exists(row[d]) /\ row'[d].expires = row[d].expires
    BY <1>10, <2>1, ExpiryKept
  <2>2. ASSUME NEW p \in Polls, poll'[p].dev = d
        PROVE  /\ poll'[p].pc \in PollJudged => ~Expired(row'[d], poll'[p].at)
               /\ poll'[p].pc = "expired" => Expired(row'[d], poll'[p].at)
    BY <1>2, <1>4, <1>5, <2>1, <2>2 DEF Expired
  <2>3. ASSUME NEW c \in Callbacks, cb'[c].dev = d, cb'[c].pc \in CallbackVerdicts
        PROVE  ~Expired(row'[d], cb'[c].at)
    BY <1>3, <1>6, <2>1, <2>3 DEF Expired
  <2>4. QED
    BY <2>2, <2>3
<1>11. ASSUME NEW q \in Polls, poll'[q].pc = "expired"
       PROVE  /\ \A p \in Polls :
                   poll'[p].dev = poll'[q].dev /\ poll'[p].pc \in PollJudged => poll'[p].at < poll'[q].at
              /\ \A c \in Callbacks :
                   cb'[c].dev = poll'[q].dev /\ cb'[c].pc \in CallbackVerdicts => cb'[c].at < poll'[q].at
  <2> DEFINE d == poll[q].dev
  <2>1. d \in Devices /\ poll'[q].dev = d /\ poll'[q].at = poll[q].at /\ poll[q].at \in 0..Horizon
    BY <1>1, <1>2, <1>11 DEF Poll
  <2>2. ASSUME NEW p \in Polls, poll'[p].dev = d, poll'[p].pc \in PollJudged
        PROVE  poll'[p].at < poll'[q].at
    <3>1. poll[p].dev = d /\ poll'[p].at = poll[p].at /\ poll[p].at \in 0..Horizon
      BY <1>1, <1>2, <2>2 DEF Poll
    <3>2. CASE Exists(row[d])
      <4>1. ~Expired(row[d], poll[p].at) /\ Expired(row[d], poll[q].at)
        BY <1>4, <1>5, <1>11, <2>2, <3>1, <3>2
      <4>2. QED
        BY <1>1, <2>1, <3>1, <4>1, Separated
    <3>3. CASE ~Exists(row[d])
      <4>1. poll[p].pc \in PollJudged /\ poll[q].pc = "expired"
        BY <1>7, <1>8, <1>11, <2>2, <3>1, <3>3
      <4>2. QED
        BY <2>1, <3>1, <4>1 DEF ExpiryOK, ExpiryIsFinal
    <3>4. QED
      BY <3>2, <3>3
  <2>3. ASSUME NEW c \in Callbacks, cb'[c].dev = d, cb'[c].pc \in CallbackVerdicts
        PROVE  cb'[c].at < poll'[q].at
    <3>1. cb[c].dev = d /\ cb'[c].at = cb[c].at /\ cb[c].at \in 0..Horizon
      BY <1>1, <1>3, <2>3 DEF Callback
    <3>2. CASE Exists(row[d])
      <4>1. ~Expired(row[d], cb[c].at) /\ Expired(row[d], poll[q].at)
        BY <1>5, <1>6, <1>11, <2>3, <3>1, <3>2
      <4>2. QED
        BY <1>1, <2>1, <3>1, <4>1, Separated
    <3>3. CASE ~Exists(row[d])
      <4>1. cb[c].pc \in CallbackVerdicts /\ poll[q].pc = "expired"
        BY <1>8, <1>9, <1>11, <2>3, <3>1, <3>3
      <4>2. QED
        BY <2>1, <3>1, <4>1 DEF ExpiryOK, ExpiryIsFinal
    <3>4. QED
      BY <3>2, <3>3
  <2>4. QED
    BY <2>1, <2>2, <2>3
<1>12. QED
  BY <1>10, <1>11 DEF ExpiryOK, ExpiryIsFinal, Exists

-----------------------------------------------------------------------------
(* The invariant, and what follows from it.                                *)

LEMMA InitInv == Init => Inv
<1> SUFFICES ASSUME Init PROVE Inv
  OBVIOUS
<1>1. TypeOK
  <2>1. [pc |-> "idle", dev |-> None, state |-> None, user |-> None, at |-> 0] \in Callback
    BY DeviceAssumption DEF Callback, CallbackPCs
  <2>2. [pc |-> "idle", dev |-> None, at |-> 0] \in Poll
    BY DeviceAssumption DEF Poll, PollPCs
  <2>3. 0 \in 0..Horizon
    BY DeviceAssumption
  <2>4. QED
    BY <2>1, <2>2, <2>3, NoRowType DEF Init, TypeOK
<1>2. RequestsOK /\ AnswersOK
  BY DEF Init, RequestsOK, AnswersOK, AnswersStand, PollAnswersAgree,
         ReportedApprovalStands, ReportedRejectionStands
<1>6. ExpiryOK
  BY DEF Init, ExpiryOK, ExpiryIsFinal, Exists, NoRow
<1>3. RowsOK /\ SessionsOK /\ OneSessionPerDevice /\ BindingOK
  BY DEF Init, RowsOK, SessionsOK, OneSessionPerDevice, BindingOK, NoRow
<1>4. TxOK
  BY DEF Init, TxOK, Locked, NoTx
<1>5. QED
  BY <1>1, <1>2, <1>3, <1>4, <1>6 DEF Inv

\* The invariant holds in every reachable state.
THEOREM Invariance == Spec => []Inv
<1>1. Inv /\ [Next]_vars => Inv'
  BY TypeStep, RequestsStep, RowsStep, TxStep, SessionsStep, BindingStep, AnswersStep, ExpiryStep
  DEF Inv
<1>2. QED
  BY <1>1, InitInv, PTL DEF Spec

\* Every variable keeps its type.
THEOREM TypeCorrect == Spec => []TypeOK
<1>1. Inv => TypeOK
  BY DEF Inv
<1>2. QED
  BY <1>1, Invariance, PTL

\* A device code never buys a second session, with any number of polls of it,
\* retried or not, and any of their commits reported wrongly.
THEOREM SingleSession == Spec => []OneSessionPerDevice
<1>1. Inv => OneSessionPerDevice
  BY DEF Inv
<1>2. QED
  BY <1>1, Invariance, PTL

\* A device belongs to the browser that confirmed it first: its claims and its session
\* come of that browser's callbacks, however many browsers open the link.
THEOREM OneBrowser == Spec => []OneBrowserPerDevice
<1>1. ASSUME Inv, NEW d \in Devices, NEW k \in Confirmations, <<d, k>> \in redirects,
             NEW c \in Callbacks, cb[c].dev = d, cb[c].pc # "idle"
      PROVE  cb[c].state = k
  <2>1. <<d, cb[c].state>> \in redirects /\ cb[c].state \in Confirmations
    BY <1>1, RequestDevices DEF Inv, RequestsOK
  <2>2. QED
    BY <1>1, <2>1 DEF Inv, BindingOK
<1>2. ASSUME Inv, NEW d \in Devices, NEW k \in Confirmations, <<d, k>> \in redirects
      PROVE  /\ \A c \in Claimants(d) : cb[c].state = k
             /\ \A s \in sessions : s.dev = d =>
                  \E c \in Callbacks : cb[c].dev = d /\ cb[c].state = k /\ cb[c].user = s.user
  <2>1. ASSUME NEW c \in Claimants(d) PROVE cb[c].state = k
    BY <1>1, <1>2 DEF Claimants
  <2>2. ASSUME NEW s \in sessions, s.dev = d
        PROVE  \E c \in Callbacks : cb[c].dev = d /\ cb[c].state = k /\ cb[c].user = s.user
    <3>1. PICK c \in Callbacks : cb[c].dev = d /\ cb[c].user = s.user
      BY <1>2, <2>2 DEF Inv, SessionsOK, Verified
    <3>2. s.user \in Users /\ s.user # None
      BY <1>2, DeviceAssumption DEF Inv, TypeOK, SessionRecord
    <3>3. cb[c].pc # "idle"
      BY <1>2, <3>1, <3>2 DEF Inv, RequestsOK
    <3>4. QED
      BY <1>1, <1>2, <3>1, <3>3
  <2>3. QED
    BY <2>1, <2>2
<1>3. Inv => OneBrowserPerDevice
  BY <1>2 DEF OneBrowserPerDevice
<1>4. QED
  BY <1>3, Invariance, PTL

\* The answers about a device agree on when it expired: a request that comes after a poll
\* was told "expired" neither gets the session nor decides the device.
THEOREM ExpiryStands == Spec => []ExpiryIsFinal
<1>1. Inv => ExpiryIsFinal
  BY DEF Inv, ExpiryOK
<1>2. QED
  BY <1>1, Invariance, PTL

\* What callbacks and polls were told stays true.
THEOREM AnswersAreTrue == Spec => []AnswersStand
<1>1. Inv => AnswersStand
  BY DEF Inv, AnswersOK
<1>2. QED
  BY <1>1, Invariance, PTL

-----------------------------------------------------------------------------
(* Refinement: every step is a step of the abstract grant or a stutter.    *)

\* The abstract decision on d, as read off its row.
LEMMA GrantOf ==
  ASSUME row \in [Devices -> Row], NEW d \in Devices
  PROVE  /\ d \notin issued => grantBar[d] = "unknown"
         /\ d \in issued /\ row[d].status = "absent" => grantBar[d] = "forgotten"
         /\ d \in issued /\ row[d].status \in {"pending", "authorizing"}
              => grantBar[d] = "requested"
         /\ d \in issued /\ row[d].status \in {"approved", "denied", "consumed"}
              => grantBar[d] = row[d].status
         /\ DOMAIN grantBar = Devices
<1>1. row[d].status \in Statuses
  BY DEF Row
<1>2. CASE d \notin issued
  BY <1>2 DEF grantBar, Decision
<1>3. CASE d \in issued /\ row[d].status = "absent"
  BY <1>3 DEF grantBar, Decision
<1>4. CASE d \in issued /\ row[d].status \in {"pending", "authorizing"}
  BY <1>4 DEF grantBar, Decision
<1>5. CASE d \in issued /\ row[d].status \in {"approved", "denied", "consumed"}
  BY <1>5 DEF grantBar, Decision
<1>6. DOMAIN grantBar = Devices
  BY DEF grantBar, Decision
<1>7. QED
  BY <1>1, <1>2, <1>3, <1>4, <1>5, <1>6 DEF Statuses

\* The same of the next state.
LEMMA GrantOfNext ==
  ASSUME row' \in [Devices -> Row], NEW d \in Devices
  PROVE  /\ d \notin issued' => grantBar'[d] = "unknown"
         /\ d \in issued' /\ row'[d].status = "absent" => grantBar'[d] = "forgotten"
         /\ d \in issued' /\ row'[d].status \in {"pending", "authorizing"}
              => grantBar'[d] = "requested"
         /\ d \in issued' /\ row'[d].status \in {"approved", "denied", "consumed"}
              => grantBar'[d] = row'[d].status
         /\ DOMAIN grantBar' = Devices
<1>1. row'[d].status \in Statuses
  BY DEF Row
<1>2. CASE d \notin issued'
  BY <1>2 DEF grantBar, Decision
<1>3. CASE d \in issued' /\ row'[d].status = "absent"
  BY <1>3 DEF grantBar, Decision
<1>4. CASE d \in issued' /\ row'[d].status \in {"pending", "authorizing"}
  BY <1>4 DEF grantBar, Decision
<1>5. CASE d \in issued' /\ row'[d].status \in {"approved", "denied", "consumed"}
  BY <1>5 DEF grantBar, Decision
<1>6. DOMAIN grantBar' = Devices
  BY DEF grantBar, Decision
<1>7. QED
  BY <1>1, <1>2, <1>3, <1>4, <1>5, <1>6 DEF Statuses

\* A device whose row and issue do not change keeps its decision.
LEMMA GrantKept ==
  ASSUME row \in [Devices -> Row], row' \in [Devices -> Row], NEW d \in Devices,
         row'[d] = row[d], d \in issued' <=> d \in issued
  PROVE  grantBar'[d] = grantBar[d]
<1>1. row[d].status \in Statuses
  BY DEF Row
<1>2. QED
  BY <1>1, GrantOf, GrantOfNext DEF Statuses

\* It is a function, so it is known by its values.
LEMMA GrantFunction ==
  /\ grantBar = [d \in Devices |-> grantBar[d]]
  /\ grantBar' = [d \in Devices |-> grantBar'[d]]
BY DEF grantBar

LEMMA GrantStep == ASSUME Inv, [Next]_vars PROVE [Grant!GNext]_(Grant!grantVars)
<1> DEFINE holderBar == [d \in Devices |-> row[d].user]
<1>1. /\ row \in [Devices -> Row] /\ row' \in [Devices -> Row] /\ issued \subseteq Devices
      /\ \A d \in Devices : d \notin issued => row[d].status = "absent"
      /\ \A d \in Devices : row[d].status \notin {"approved", "consumed"} => row[d].user = None
  BY TypeStep DEF Inv, TypeOK, RowsOK
<1>2. CASE Untouched
  <2>1. grantBar' = grantBar /\ holderBar' = holderBar /\ sessions' = sessions
    BY <1>2 DEF Untouched, grantBar, Decision
  <2>2. QED
    BY <2>1 DEF Grant!grantVars
<1>3. CASE RowsPruned
  <2>1. /\ Prunable \in SUBSET Devices
        /\ \A d \in Prunable : d \in issued
        /\ issued' = issued /\ sessions' = sessions
    BY <1>1, <1>3 DEF RowsPruned, Prunable, Exists
  <2>2. \A d \in Prunable : grantBar[d] # "unknown" /\ grantBar'[d] = "forgotten"
    <3>1. \A d \in Prunable : row'[d].status = "absent"
      BY <1>3, <2>1 DEF RowsPruned, NoRow
    <3>2. \A d \in Prunable : grantBar'[d] = "forgotten"
      BY <1>1, <2>1, <3>1, GrantOfNext
    <3>3. \A d \in Prunable : grantBar[d] # "unknown"
      BY <1>1, <2>1, GrantOf DEF Row, Statuses
    <3>4. QED
      BY <3>2, <3>3
  <2>3. grantBar' = [d \in Devices |-> IF d \in Prunable THEN "forgotten" ELSE grantBar[d]]
    <3>1. \A d \in Devices : d \notin Prunable => row'[d] = row[d]
      BY <1>3 DEF RowsPruned
    <3>2. \A d \in Devices : d \notin Prunable => grantBar'[d] = grantBar[d]
      BY <1>1, <2>1, <3>1, GrantKept
    <3>3. QED
      BY <2>1, <2>2, <3>2, GrantFunction
  <2>4. holderBar' = [d \in Devices |-> IF d \in Prunable THEN None ELSE holderBar[d]]
    BY <1>3 DEF RowsPruned, NoRow
  <2>5. PICK D \in SUBSET Devices : D = Prunable
    BY <2>1
  <2>6. Grant!Forget(D)
    BY <2>1, <2>2, <2>3, <2>4, <2>5 DEF Grant!Forget
  <2>7. QED
    BY <2>6 DEF Grant!GNext
<1>4. ASSUME NEW d \in Devices, NEW g, issued \subseteq issued', issued' \subseteq issued \cup {d},
             \A e \in Devices : e # d => row'[e] = row[e], grantBar'[d] = g
      PROVE  grantBar' = [grantBar EXCEPT ![d] = g]
  <2>1. \A e \in Devices : e # d => grantBar'[e] = grantBar[e]
    BY <1>1, <1>4, GrantKept
  <2>2. QED
    BY <1>4, <2>1, GrantFunction
<1>5. ASSUME NEW d \in Devices, NEW u, \A e \in Devices : e # d => row'[e] = row[e],
             row'[d].user = u
      PROVE  holderBar' = [holderBar EXCEPT ![d] = u]
  BY <1>5
<1>6. ASSUME NEW d \in Devices, RowCreated(d) PROVE Grant!Request(d)
  <2>1. row'[d].status = "pending" /\ row'[d].user = None /\ row[d].user = None
    BY <1>1, <1>6 DEF RowCreated, NewRow
  <2>2. grantBar[d] = "unknown" /\ grantBar'[d] = "requested"
    BY <1>1, <1>6, <2>1, GrantOf, GrantOfNext DEF RowCreated
  <2>3. grantBar' = [grantBar EXCEPT ![d] = "requested"]
    BY <1>4, <1>6, <1>1, <2>2 DEF RowCreated
  <2>4. holderBar' = holderBar /\ sessions' = sessions
    BY <1>1, <1>6, <2>1 DEF RowCreated
  <2>5. QED
    BY <2>2, <2>3, <2>4 DEF Grant!Request
<1>7. ASSUME NEW d \in Devices, RowClaimed(d) \/ \E k \in Confirmations : RowBound(d, k)
      PROVE  UNCHANGED Grant!grantVars
  <2>1. /\ row[d].status = "pending" /\ row'[d].status \in {"pending", "authorizing"}
        /\ row'[d].user = row[d].user /\ issued' = issued /\ sessions' = sessions
        /\ \A e \in Devices : e # d => row'[e] = row[e]
    BY <1>1, <1>7 DEF RowClaimed, RowBound, Claimed, Bound, Row
  <2>2. grantBar'[d] = grantBar[d]
    BY <1>1, <2>1, GrantOf, GrantOfNext
  <2>3. grantBar' = grantBar
    BY <1>4, <2>1, <2>2, GrantFunction
  <2>4. holderBar' = holderBar
    BY <2>1
  <2>5. QED
    BY <2>1, <2>3, <2>4 DEF Grant!grantVars
<1>8. ASSUME NEW d \in Devices, RowDenied(d) PROVE Grant!Deny(d)
  <2>1. /\ row[d].status \in {"pending", "authorizing"} /\ row'[d].status = "denied"
        /\ row'[d].user = row[d].user /\ issued' = issued /\ sessions' = sessions
        /\ \A e \in Devices : e # d => row'[e] = row[e]
        /\ d \in issued
    BY <1>1, <1>8 DEF RowDenied, Denied, Row
  <2>2. grantBar[d] = "requested" /\ grantBar'[d] = "denied"
    BY <1>1, <2>1, GrantOf, GrantOfNext
  <2>3. grantBar' = [grantBar EXCEPT ![d] = "denied"]
    BY <1>4, <2>1, <2>2
  <2>4. holderBar' = holderBar
    BY <2>1
  <2>5. QED
    BY <2>1, <2>2, <2>3, <2>4 DEF Grant!Deny
<1>9. ASSUME NEW d \in Devices, NEW u \in Users, RowApproved(d, u) PROVE Grant!Approve(d, u)
  <2>1. /\ row[d].status = "authorizing" /\ row'[d].status = "approved"
        /\ row'[d].user = u /\ issued' = issued /\ sessions' = sessions
        /\ \A e \in Devices : e # d => row'[e] = row[e]
        /\ d \in issued
    BY <1>1, <1>9 DEF RowApproved, Approved, Row
  <2>2. grantBar[d] = "requested" /\ grantBar'[d] = "approved"
    BY <1>1, <2>1, GrantOf, GrantOfNext
  <2>3. grantBar' = [grantBar EXCEPT ![d] = "approved"]
    BY <1>4, <2>1, <2>2
  <2>4. holderBar' = [holderBar EXCEPT ![d] = u]
    BY <1>5, <2>1
  <2>5. QED
    BY <2>1, <2>2, <2>3, <2>4 DEF Grant!Approve
<1>10. ASSUME NEW d \in Devices, NEW p \in Polls, RowConsumed(d, p) PROVE Grant!Consume(d, p)
  <2>1. /\ row[d].status = "approved" /\ row'[d].status = "consumed"
        /\ row'[d].user = row[d].user /\ issued' = issued
        /\ sessions' = sessions \cup {[dev |-> d, user |-> holderBar[d], poll |-> p]}
        /\ \A e \in Devices : e # d => row'[e] = row[e]
        /\ d \in issued
    BY <1>1, <1>10 DEF RowConsumed, Consumed, Session, Row
  <2>2. grantBar[d] = "approved" /\ grantBar'[d] = "consumed"
    BY <1>1, <2>1, GrantOf, GrantOfNext
  <2>3. grantBar' = [grantBar EXCEPT ![d] = "consumed"]
    BY <1>4, <2>1, <2>2
  <2>4. holderBar' = holderBar
    BY <2>1
  <2>5. QED
    BY <2>1, <2>2, <2>3, <2>4 DEF Grant!Consume
<1>11. QED
  BY <1>2, <1>3, <1>6, <1>7, <1>8, <1>9, <1>10, TableEffect DEF TableStep, Grant!GNext

\* The device flow, with its crashes and commits of unknown outcome, implements
\* the abstract grant: one decision, one session, for any number of devices.
THEOREM Refinement == Spec => ImplementsGrant
<1>1. Init => Grant!GInit
  BY DEF Init, Grant!GInit, grantBar, Decision, NoRow
<1>2. QED
  BY <1>1, GrantStep, Invariance, PTL DEF Spec, ImplementsGrant, Grant!GSpec

-----------------------------------------------------------------------------
(* One claim, as long as no commit is of unknown outcome.                  *)

\* A device that was decided on never becomes pending again.
LEMMA NeverPendingAgain ==
  ASSUME Inv, [Next]_vars, NEW d \in Devices, d \in issued, row[d].status # "pending"
  PROVE  row'[d].status # "pending"
<1>1. row \in [Devices -> Row] /\ row[d] \in Row
  BY DEF Inv, TypeOK
<1>2. CASE Untouched
  BY <1>2 DEF Untouched
<1>3. CASE RowsPruned
  BY <1>1, <1>3 DEF RowsPruned, NoRow
<1>4. ASSUME NEW e \in Devices, RowCreated(e) PROVE row'[d].status # "pending"
  BY <1>1, <1>4 DEF RowCreated
<1>5. ASSUME NEW e \in Devices, RowClaimed(e) PROVE row'[d].status # "pending"
  BY <1>1, <1>5 DEF RowClaimed, Claimed, Row
<1>6. ASSUME NEW e \in Devices, RowDenied(e) PROVE row'[d].status # "pending"
  BY <1>1, <1>6 DEF RowDenied, Denied, Row
<1>7. ASSUME NEW e \in Devices, NEW k \in Confirmations, RowBound(e, k)
      PROVE  row'[d].status # "pending"
  BY <1>1, <1>7 DEF RowBound, Bound, Row
<1>8. ASSUME NEW e \in Devices, NEW u \in Users, RowApproved(e, u) PROVE row'[d].status # "pending"
  BY <1>1, <1>8 DEF RowApproved, Approved, Row
<1>9. ASSUME NEW e \in Devices, NEW p \in Polls, RowConsumed(e, p) PROVE row'[d].status # "pending"
  BY <1>1, <1>9 DEF RowConsumed, Consumed, Row
<1>10. QED
  BY <1>2, <1>3, <1>4, <1>5, <1>6, <1>7, <1>8, <1>9, TableEffect DEF TableStep

Working == {"identify", "complete", "reject", "ok", "rejected", "failed", "abandoned"}

\* A callback moves without a claim.
Carries(c) ==
  /\ \A b \in Callbacks \ {c} : cb'[b] = cb[b]
  /\ cb'[c].pc # "confirm"
  /\ cb'[c].pc \in Working => cb[c].pc \in Working /\ cb'[c].dev = cb[c].dev

\* A callback claims a pending device.
Claims(c, d) ==
  /\ d \in Devices /\ row[d].status = "pending" /\ row'[d].status = "authorizing"
  /\ \A b \in Callbacks \ {c} : cb'[b] = cb[b]
  /\ cb'[c].pc \in Working /\ cb'[c].dev = d

ClaimStep ==
  \/ cb' = cb
  \/ \E c \in Callbacks : Carries(c)
  \/ \E c \in Callbacks, d \in Devices : Claims(c, d)

LEMMA ClaimEffect ==
  ASSUME Inv, ClaimsOK, "commit" \notin Faults, [Next]_vars
  PROVE  tx' = tx /\ ClaimStep
<1> USE DEF Inv
<1>1. /\ cb \in [Callbacks -> Callback] /\ row \in [Devices -> Row]
      /\ \A d \in Devices : ~Locked(d)
  BY DEF TypeOK, ClaimsOK
<1>2. CASE UNCHANGED vars
  BY <1>2 DEF vars, ClaimStep
<1>3. CASE Tick \/ Prune \/ Quiescent
  BY <1>3 DEF Tick, Prune, Quiescent, vars, ClaimStep
<1>4. ASSUME NEW d \in Devices, DatabaseStep(d) \/ BrowserStep(d) PROVE tx' = tx /\ ClaimStep
  BY <1>1, <1>4
  DEF DatabaseStep, BrowserStep, CommitLands, CommitLost, CreateDevice, StartAuthorization,
      StartAuthorizationUnknown, RejectAuthorization, ClaimStep
<1>5. ASSUME NEW c \in Callbacks, NEW d \in Devices, NEW k \in Confirmations,
             CallbackArrives(c, d, k)
      PROVE  tx' = tx /\ ClaimStep
  <2>1. Carries(c)
    BY <1>1, <1>5 DEF CallbackArrives, Carries, Working
  <2>2. QED
    BY <1>5, <2>1 DEF CallbackArrives, ClaimStep
<1>6. ASSUME NEW c \in Callbacks, ClaimOAuthState(c) PROVE tx' = tx /\ ClaimStep
  <2> DEFINE d == cb[c].dev
  <2>1. d \in Devices
    BY <1>6, RequestDevices DEF ClaimOAuthState
  <2>2. /\ row[d].status = "pending" /\ row' = [row EXCEPT ![d] = Claimed(row[d])]
        /\ cb' = [cb EXCEPT ![c] = [@ EXCEPT !.pc = "identify", !.at = CallbackReading(c, "identify")]]
        /\ tx' = tx
    BY <1>6 DEF ClaimOAuthState, CanClaim, Commit, CommitUnknown, Return
  <2>3. row'[d].status = "authorizing"
    BY <1>1, <2>1, <2>2 DEF Claimed, Row
  <2>4. Claims(c, d)
    BY <1>1, <2>1, <2>2, <2>3 DEF Claims, Callback, Working
  <2>5. QED
    BY <2>1, <2>2, <2>4 DEF ClaimStep
<1>7. ASSUME NEW c \in Callbacks,
             \/ ClaimRefused(c) \/ ConfirmClaim(c) \/ Identify(c) \/ CompleteRefused(c)
             \/ CompleteDeviceAuthorization(c) \/ RejectDeviceAuthorization(c) \/ RejectRefused(c)
             \/ RejectTimesOut(c) \/ RejectRetries(c) \/ CallbackCrashes(c)
      PROVE  tx' = tx /\ ClaimStep
  <2>1. cb[c].pc # "confirm"
    BY DEF ClaimsOK
  <2>2. tx' = tx
    BY <1>7
    DEF ClaimRefused, ConfirmClaim, Identify, CompleteRefused, CompleteDeviceAuthorization,
        RejectDeviceAuthorization, RejectRefused, RejectTimesOut, RejectRetries, CallbackCrashes,
        Commit, CommitUnknown
  <2>3. \/ cb[c].pc \in Working /\ \E pc \in Working : Goto(c, pc) \/ Return(c, pc)
        \/ cb[c].pc \in Working /\ \E u \in Users :
             cb' = [cb EXCEPT ![c] = [@ EXCEPT !.pc = "complete", !.user = u, !.at = now]]
        \/ Return(c, "refused") \/ Return(c, "crashed")
    BY <1>7, <2>1
    DEF ClaimRefused, ConfirmClaim, Identify, CompleteRefused, CompleteDeviceAuthorization,
        RejectDeviceAuthorization, RejectRefused, RejectTimesOut, RejectRetries, CallbackCrashes,
        Commit, CommitUnknown, Working
  <2>4. Carries(c)
    BY <1>1, <2>3, ZenonT(40) DEF Goto, Return, Carries, Callback, Working
  <2>5. QED
    BY <2>2, <2>4 DEF ClaimStep
<1>8. ASSUME NEW p \in Polls,
             \/ \E d \in Devices : PollArrives(p, d)
             \/ PollStep(p) \/ PollAgain(p) \/ PollCrashes(p)
      PROVE  tx' = tx /\ ClaimStep
  BY <1>8
  DEF PollArrives, PollStep, ExchangeRefused, ExchangeDeviceAuthorization, ConfirmSession,
      PollFails, PollAgain, PollCrashes, Commit, CommitUnknown, ClaimStep
<1>9. QED
  BY <1>2, <1>3, <1>4, <1>5, <1>6, <1>7, <1>8 DEF Next, CallbackStep

LEMMA ClaimsStep ==
  ASSUME Inv, ClaimsOK, "commit" \notin Faults, [Next]_vars
  PROVE  ClaimsOK'
<1>1. tx' = tx /\ ClaimStep
  BY ClaimEffect
<1>2. /\ \A d \in Devices : \A b, c \in Claimants(d) : b = c /\ row[d].status # "pending"
      /\ \A d \in Devices : Claimants(d) = {c \in Callbacks : cb[c].dev = d /\ cb[c].pc \in Working}
      /\ \A d \in Devices :
           Claimants(d)' = {c \in Callbacks : cb'[c].dev = d /\ cb'[c].pc \in Working}
  BY DEF ClaimsOK, Claimants, Working
<1>3. ASSUME NEW d \in Devices, Claimants(d) # {} PROVE row'[d].status # "pending"
  <2>1. PICK c \in Claimants(d) : row[d].status # "pending"
    BY <1>2, <1>3
  <2>2. c \in Callbacks /\ cb[c].dev = d /\ cb[c].pc # "idle"
    BY <2>1 DEF Claimants
  <2>3. cb[c].state \in Confirmations /\ <<d, cb[c].state>> \in redirects
    BY <2>2, RequestDevices DEF Inv, RequestsOK
  <2>4. d \in issued
    BY <2>3 DEF Inv, BindingOK
  <2>5. QED
    BY <2>1, <2>4, NeverPendingAgain
<1>4. ASSUME NEW d \in Devices, NEW b \in Claimants(d)', NEW c \in Claimants(d)'
      PROVE  b = c /\ row'[d].status # "pending"
  <2>1. CASE cb' = cb
    BY <1>2, <1>3, <1>4, <2>1
  <2>2. ASSUME NEW a \in Callbacks, Carries(a) PROVE b = c /\ row'[d].status # "pending"
    BY <1>2, <1>3, <1>4, <2>2 DEF Carries
  <2>3. ASSUME NEW a \in Callbacks, NEW e \in Devices, Claims(a, e)
        PROVE  b = c /\ row'[d].status # "pending"
    BY <1>2, <1>3, <1>4, <2>3 DEF Claims
  <2>4. QED
    BY <1>1, <2>1, <2>2, <2>3 DEF ClaimStep
<1>5. \A d \in Devices : ~Locked(d)'
  BY <1>1 DEF ClaimsOK, Locked
<1>6. \A c \in Callbacks : cb'[c].pc # "confirm"
  BY <1>1 DEF ClaimsOK, ClaimStep, Carries, Claims, Working
<1>7. QED
  BY <1>4, <1>5, <1>6 DEF ClaimsOK

\* As long as commits are answered truly, one callback at most works on a claimed
\* device: however callbacks are repeated, calls fail and processes die
\* (ClaimOAuthState).
THEOREM SingleClaim == ASSUME "commit" \notin Faults PROVE Spec => []ClaimedOnce
<1>1. Init => ClaimsOK
  BY DEF Init, ClaimsOK, Locked, NoTx, Claimants
<1>2. Inv /\ ClaimsOK /\ [Next]_vars => ClaimsOK'
  BY ClaimsStep
<1>3. ClaimsOK => ClaimedOnce
  <2> SUFFICES ASSUME ClaimsOK, NEW d \in Devices PROVE Cardinality(Claimants(d)) <= 1
    BY DEF ClaimedOnce
  <2>1. CASE Claimants(d) = {}
    BY <2>1, FS_EmptySet
  <2>2. ASSUME NEW c \in Claimants(d) PROVE Cardinality(Claimants(d)) <= 1
    <3>1. Claimants(d) = {c}
      BY <2>2 DEF ClaimsOK
    <3>2. QED
      BY <3>1, FS_Singleton
  <2>3. QED
    BY <2>1, <2>2
<1>4. QED
  BY <1>1, <1>2, <1>3, Invariance, PTL DEF Spec

-----------------------------------------------------------------------------
(* No claim is left alone, as long as nothing fails.                       *)

AtWork == {"identify", "complete", "reject"}

\* A step after which every device that is being authorized was so before, and its
\* callbacks at work are still.
LEMMA StillAttended ==
  ASSUME AttendedOK, TypeOK, now' \in Nat, now <= now',
         \A d \in Devices : row'[d].status = "authorizing" =>
           /\ row'[d] = row[d]
           /\ \A c \in Callbacks : cb[c].dev = d /\ cb[c].pc \in AtWork =>
                cb'[c].dev = d /\ cb'[c].pc \in AtWork
  PROVE  ClaimIsAttended'
<1> SUFFICES ASSUME NEW d \in Devices, row'[d].status = "authorizing", ~Expired(row'[d], now')
    PROVE  \E c \in Callbacks : cb'[c].dev = d /\ cb'[c].pc \in AtWork
  BY DEF ClaimIsAttended, Attended, AtWork
<1>1. row'[d] = row[d] /\ row[d] \in Row /\ now \in Nat
  BY DEF TypeOK
<1>2. ~Expired(row[d], now)
  BY <1>1, DeviceAssumption DEF Expired, Row, Times
<1>3. PICK c \in Callbacks : cb[c].dev = d /\ cb[c].pc \in AtWork
  BY <1>1, <1>2 DEF AttendedOK, ClaimIsAttended, Attended, AtWork
<1>4. QED
  BY <1>3

\* The readings that callbacks carry are of the past.
LEMMA ReadingsPast ==
  ASSUME TypeOK, \A c \in Callbacks : cb[c].at <= now, [Next]_vars
  PROVE  /\ now' \in Nat /\ now <= now'
         /\ \A c \in Callbacks : cb'[c].at <= now'
<1>1. now \in Nat /\ cb \in [Callbacks -> Callback]
  BY DeviceAssumption DEF TypeOK
<1>2. \A c \in Callbacks : cb[c].at \in Nat
  BY <1>1, DeviceAssumption DEF Callback
<1>3. CASE cb' = cb /\ (now' = now \/ now' = now + 1)
  BY <1>1, <1>2, <1>3
<1>4. ASSUME NEW c \in Callbacks, now' = now, NEW e, cb' = [cb EXCEPT ![c] = e], e.at <= now
      PROVE  \A b \in Callbacks : cb'[b].at <= now'
  BY <1>1, <1>4
<1>5. ASSUME NEW c \in Callbacks, NEW pc, now' = now, Goto(c, pc) \/ Return(c, pc)
      PROVE  \A b \in Callbacks : cb'[b].at <= now'
  <2>1. cb'[c].at \in {now, CallbackReading(c, pc)}
    BY <1>1, <1>5 DEF Goto, Return, Callback
  <2>2. \A b \in Callbacks : b # c => cb'[b] = cb[b]
    BY <1>1, <1>5 DEF Goto, Return
  <2>3. cb'[c].at <= now
    BY <1>1, <2>1 DEF CallbackReading
  <2>4. QED
    BY <1>5, <2>2, <2>3
<1>6. ASSUME NEW c \in Callbacks, NEW d \in Devices, NEW k \in Confirmations,
             CallbackArrives(c, d, k)
      PROVE  now' = now /\ \A b \in Callbacks : cb'[b].at <= now'
  BY <1>1, <1>6 DEF CallbackArrives
<1>7. ASSUME NEW c \in Callbacks, Identify(c)
      PROVE  now' = now /\ \A b \in Callbacks : cb'[b].at <= now'
  <2>1. now' = now
    BY <1>7 DEF Identify
  <2>2. CASE Goto(c, "reject")
    BY <1>5, <2>1, <2>2
  <2>3. ASSUME NEW u \in Users,
               cb' = [cb EXCEPT ![c] = [@ EXCEPT !.pc = "complete", !.user = u, !.at = now]]
        PROVE  \A b \in Callbacks : cb'[b].at <= now'
    <3>1. cb'[c].at = now /\ \A b \in Callbacks : b # c => cb'[b] = cb[b]
      BY <1>1, <2>3 DEF Callback
    <3>2. QED
      BY <1>1, <2>1, <3>1
  <2>4. QED
    BY <1>7, <2>1, <2>2, <2>3 DEF Identify
<1>8. ASSUME NEW c \in Callbacks,
             \/ ClaimRefused(c) \/ ClaimOAuthState(c) \/ ConfirmClaim(c) \/ CompleteRefused(c)
             \/ CompleteDeviceAuthorization(c) \/ RejectDeviceAuthorization(c) \/ RejectRefused(c)
             \/ RejectTimesOut(c) \/ RejectRetries(c) \/ CallbackCrashes(c)
      PROVE  now' = now /\ \A b \in Callbacks : cb'[b].at <= now'
  <2>1. /\ now' = now
        /\ \/ \E pc : Goto(c, pc) \/ Return(c, pc)
           \/ cb' = [cb EXCEPT ![c] = [@ EXCEPT !.pc = "confirm"]]
    BY <1>8
    DEF ClaimRefused, ClaimOAuthState, ConfirmClaim, CompleteRefused, CompleteDeviceAuthorization,
        RejectDeviceAuthorization, RejectRefused, RejectTimesOut, RejectRetries, CallbackCrashes
  <2>2. CASE cb' = [cb EXCEPT ![c] = [@ EXCEPT !.pc = "confirm"]]
    BY <1>1, <2>1, <2>2 DEF Callback
  <2>3. QED
    BY <1>5, <2>1, <2>2
<1>9. ASSUME NEW d \in Devices, DatabaseStep(d) \/ BrowserStep(d) PROVE cb' = cb /\ now' = now
  BY <1>9
  DEF DatabaseStep, BrowserStep, CommitLands, CommitLost, CreateDevice, StartAuthorization,
      StartAuthorizationUnknown, RejectAuthorization
<1>10. ASSUME NEW p \in Polls,
              \/ \E d \in Devices : PollArrives(p, d)
              \/ PollStep(p) \/ PollAgain(p) \/ PollCrashes(p)
       PROVE  cb' = cb /\ now' = now
  BY <1>10
  DEF PollArrives, PollStep, ExchangeRefused, ExchangeDeviceAuthorization, ConfirmSession,
      PollFails, PollAgain, PollCrashes
<1>11. CASE Tick \/ Prune \/ Quiescent \/ UNCHANGED vars
  BY <1>3, <1>1, <1>11 DEF Tick, Prune, Quiescent, vars
<1>12. QED
  BY <1>1, <1>3, <1>6, <1>7, <1>8, <1>9, <1>10, <1>11 DEF Next, CallbackStep

LEMMA AttendedStep ==
  ASSUME Inv, ClaimsOK, AttendedOK, Faults = {}, [Next]_vars
  PROVE  AttendedOK'
<1> USE DEF Inv
<1>0. /\ cb \in [Callbacks -> Callback] /\ row \in [Devices -> Row]
      /\ \A c \in Callbacks : cb[c].pc # "confirm" /\ cb[c].at <= now
      /\ \A d \in Devices : ~Locked(d)
  BY DEF TypeOK, ClaimsOK, AttendedOK
<1>1. now' \in Nat /\ now <= now' /\ \A c \in Callbacks : cb'[c].at <= now'
  BY ReadingsPast DEF AttendedOK
<1>2. CASE row' = row /\ cb' = cb
  BY <1>1, <1>2, StillAttended DEF AttendedOK
<1>3. CASE Prune
  <2>1. \A d \in Devices : row'[d].status = "authorizing" => row'[d] = row[d]
    BY <1>3 DEF Prune, NoRow
  <2>2. QED
    BY <1>1, <1>3, <2>1, StillAttended DEF AttendedOK, Prune
<1>4. ASSUME NEW d \in Devices, BrowserStep(d) PROVE AttendedOK'
  <2>1. \E x : row' = [row EXCEPT ![d] = x] /\ x.status # "authorizing"
    <3>1. /\ NewRow.status = "pending" /\ Denied(row[d]).status = "denied"
          /\ \A k \in Confirmations : Bound(row[d], k).status = row[d].status
      BY <1>0 DEF NewRow, Denied, Bound, Row
    <3>2. CASE CreateDevice(d)
      BY <3>1, <3>2 DEF CreateDevice
    <3>3. ASSUME NEW k \in Confirmations,
                 StartAuthorization(d, k) \/ StartAuthorizationUnknown(d, k)
          PROVE  row' = [row EXCEPT ![d] = Bound(row[d], k)] /\ row[d].status = "pending"
      BY <3>3 DEF StartAuthorization, StartAuthorizationUnknown, CanBind
    <3>4. ASSUME NEW k \in Confirmations, RejectAuthorization(d, k)
          PROVE  row' = [row EXCEPT ![d] = Denied(row[d])]
      BY <3>4 DEF RejectAuthorization
    <3>5. QED
      BY <1>4, <3>1, <3>2, <3>3, <3>4 DEF BrowserStep
  <2>2. cb' = cb
    BY <1>4
    DEF BrowserStep, CreateDevice, StartAuthorization, StartAuthorizationUnknown,
        RejectAuthorization
  <2>3. QED
    <3>1. \A e \in Devices : row'[e].status = "authorizing" => row'[e] = row[e]
      BY <1>0, <2>1
    <3>2. QED
      BY <1>1, <2>2, <3>1, StillAttended DEF AttendedOK
<1>5. ASSUME NEW p \in Polls,
             \/ \E d \in Devices : PollArrives(p, d)
             \/ PollStep(p) \/ PollAgain(p) \/ PollCrashes(p)
      PROVE  AttendedOK'
  <2>1. cb' = cb
    BY <1>5
    DEF PollArrives, PollStep, ExchangeRefused, ExchangeDeviceAuthorization, ConfirmSession,
        PollFails, PollAgain, PollCrashes
  <2>2. \A e \in Devices : row'[e].status = "authorizing" => row'[e] = row[e]
    BY <1>0, <1>5
    DEF PollArrives, PollStep, ExchangeRefused, ExchangeDeviceAuthorization, ConfirmSession,
        PollFails, PollAgain, PollCrashes, Commit, CommitUnknown, Consumed, Row
  <2>3. QED
    BY <1>1, <2>1, <2>2, StillAttended DEF AttendedOK
<1>6. ASSUME NEW c \in Callbacks, cb[c].pc \notin AtWork, row' = row,
             \A b \in Callbacks \ {c} : cb'[b] = cb[b]
      PROVE  AttendedOK'
  BY <1>1, <1>6, StillAttended DEF AttendedOK
<1>7. ASSUME NEW c \in Callbacks, NEW d \in Devices, NEW k \in Confirmations,
             CallbackArrives(c, d, k)
      PROVE  AttendedOK'
  BY <1>0, <1>6, <1>7 DEF CallbackArrives, AtWork
<1>8. ASSUME NEW c \in Callbacks, ClaimRefused(c) PROVE AttendedOK'
  BY <1>0, <1>6, <1>8 DEF ClaimRefused, Return, AtWork
<1>9. ASSUME NEW c \in Callbacks, ClaimOAuthState(c) PROVE AttendedOK'
  <2> DEFINE d == cb[c].dev
  <2>1. /\ cb' = [cb EXCEPT ![c] = [@ EXCEPT !.pc = "identify", !.at = CallbackReading(c, "identify")]]
        /\ row' = [row EXCEPT ![d] = Claimed(row[d])]
    BY <1>9 DEF ClaimOAuthState, Commit, CommitUnknown, Return
  <2>2. cb'[c].dev = d /\ cb'[c].pc = "identify"
    BY <1>0, <2>1 DEF Callback
  <2>3. \A b \in Callbacks \ {c} : cb'[b] = cb[b]
    BY <1>0, <2>1
  <2>4. cb[c].pc \notin AtWork
    BY <1>9 DEF ClaimOAuthState, AtWork
  <2>5. ASSUME NEW e \in Devices, row'[e].status = "authorizing", ~Expired(row'[e], now')
        PROVE  \E b \in Callbacks : cb'[b].dev = e /\ cb'[b].pc \in AtWork
    <3>1. CASE e = d
      BY <2>2, <3>1 DEF AtWork
    <3>2. CASE e # d
      <4>1. row'[e] = row[e] /\ now' = now
        BY <1>0, <1>9, <2>1, <3>2 DEF ClaimOAuthState
      <4>2. PICK b \in Callbacks : cb[b].dev = e /\ cb[b].pc \in AtWork
        BY <2>5, <4>1 DEF AttendedOK, ClaimIsAttended, Attended, AtWork
      <4>3. QED
        BY <2>3, <2>4, <4>2
    <3>3. QED
      BY <3>1, <3>2
  <2>6. QED
    BY <1>1, <2>5 DEF AttendedOK, ClaimIsAttended, Attended, AtWork
<1>10. ASSUME NEW c \in Callbacks, Identify(c) \/ CompleteRefused(c) PROVE AttendedOK'
  <2>1. /\ row' = row
        /\ \/ Goto(c, "reject")
           \/ \E u \in Users :
                cb' = [cb EXCEPT ![c] = [@ EXCEPT !.pc = "complete", !.user = u, !.at = now]]
    BY <1>10 DEF Identify, CompleteRefused
  <2>2. cb'[c].dev = cb[c].dev /\ cb'[c].pc \in AtWork
    BY <1>0, <2>1, ZenonT(40) DEF Goto, Callback, AtWork
  <2>3. \A b \in Callbacks \ {c} : cb'[b] = cb[b]
    BY <1>0, <2>1 DEF Goto
  <2>4. QED
    BY <1>1, <2>1, <2>2, <2>3, StillAttended DEF AttendedOK
<1>11. ASSUME NEW c \in Callbacks,
              CompleteDeviceAuthorization(c) \/ RejectDeviceAuthorization(c)
       PROVE  AttendedOK'
  <2> DEFINE d == cb[c].dev
  <2>1. d \in Devices
    BY <1>11, RequestDevices DEF CompleteDeviceAuthorization, RejectDeviceAuthorization
  <2>2. \E r : /\ row' = [row EXCEPT ![d] = r]
               /\ r \in {Approved(row[d], cb[c].user), Denied(row[d])}
    BY <1>11 DEF CompleteDeviceAuthorization, RejectDeviceAuthorization, Commit, CommitUnknown
  <2>3. row'[d].status # "authorizing"
    BY <1>0, <2>1, <2>2 DEF Approved, Denied, Row
  <2>4. \A e \in Devices : e # d => row'[e] = row[e]
    BY <1>0, <2>2
  <2>5. \A b \in Callbacks \ {c} : cb'[b] = cb[b]
    BY <1>0, <1>11
    DEF CompleteDeviceAuthorization, RejectDeviceAuthorization, Return, Goto
  <2> HIDE DEF d
  <2>6. \A e \in Devices : row'[e].status = "authorizing" =>
           /\ row'[e] = row[e]
           /\ \A b \in Callbacks : cb[b].dev = e /\ cb[b].pc \in AtWork =>
                cb'[b].dev = e /\ cb'[b].pc \in AtWork
    BY <2>3, <2>4, <2>5 DEF d
  <2>7. QED
    BY <1>1, <2>6, StillAttended DEF AttendedOK
<1>12. ASSUME NEW c \in Callbacks, RejectRefused(c) PROVE AttendedOK'
  <2> DEFINE d == cb[c].dev
  <2>1. d \in Devices /\ row' = row /\ now' = now /\ ~CanReject(row[d], cb[c].at)
    BY <1>12, RequestDevices DEF RejectRefused
  <2>2. \A b \in Callbacks \ {c} : cb'[b] = cb[b]
    BY <1>0, <1>12 DEF RejectRefused, Return
  <2>3. row[d].status = "authorizing" => Expired(row[d], now)
    <3>1. row[d].expires \in Nat /\ cb[c].at \in Nat /\ now \in Nat /\ cb[c].at <= now
      BY <1>0, <2>1, DeviceAssumption DEF Row, Times, Callback, TypeOK
    <3>2. QED
      BY <2>1, <3>1 DEF CanReject, Expired
  <2>4. ASSUME NEW e \in Devices, row'[e].status = "authorizing", ~Expired(row'[e], now')
        PROVE  \E b \in Callbacks : cb'[b].dev = e /\ cb'[b].pc \in AtWork
    <3>1. PICK b \in Callbacks : cb[b].dev = e /\ cb[b].pc \in AtWork
      BY <2>1, <2>4 DEF AttendedOK, ClaimIsAttended, Attended, AtWork
    <3>2. b # c
      BY <2>1, <2>3, <2>4, <3>1
    <3>3. QED
      BY <2>2, <3>1, <3>2
  <2>5. QED
    BY <1>1, <2>4 DEF AttendedOK, ClaimIsAttended, Attended, AtWork
<1>13. ASSUME NEW c \in Callbacks,
              ConfirmClaim(c) \/ RejectTimesOut(c) \/ RejectRetries(c) \/ CallbackCrashes(c)
       PROVE  AttendedOK'
  BY <1>0, <1>13 DEF ConfirmClaim, RejectTimesOut, RejectRetries, CallbackCrashes
<1>14. ASSUME NEW d \in Devices, DatabaseStep(d) PROVE AttendedOK'
  BY <1>0, <1>14 DEF DatabaseStep, CommitLands, CommitLost
<1>15. CASE Tick \/ Quiescent \/ UNCHANGED vars
  BY <1>2, <1>15 DEF Tick, Quiescent, vars
<1>16. QED
  BY <1>3, <1>4, <1>5, <1>7, <1>8, <1>9, <1>10, <1>11, <1>12, <1>13, <1>14, <1>15
  DEF Next, CallbackStep

\* While nothing fails, a claimed device that has not expired has a callback at work on
\* it, which will decide it (CompleteAuthorization and its deferred rejection).
THEOREM ClaimsAreAttended == ASSUME Faults = {} PROVE Spec => []ClaimIsAttended
<1>1. Init => ClaimsOK /\ AttendedOK
  BY DeviceAssumption
  DEF Init, ClaimsOK, Locked, NoTx, NoRow, Claimants, AttendedOK, ClaimIsAttended
<1>2. Inv /\ ClaimsOK /\ AttendedOK /\ [Next]_vars => ClaimsOK' /\ AttendedOK'
  BY ClaimsStep, AttendedStep
<1>3. AttendedOK => ClaimIsAttended
  BY DEF AttendedOK
<1>4. QED
  BY <1>1, <1>2, <1>3, Invariance, PTL DEF Spec
=============================================================================

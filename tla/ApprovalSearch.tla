---------------------------- MODULE ApprovalSearch ----------------------------
(***************************************************************************)
(* Search of internal/approvals/service.go: one page of the approvals of a *)
(* category, each fetched, authorized and recorded by a goroutine of its   *)
(* own, and the signed cursor that leads to the next page.                 *)
(*                                                                         *)
(* A category has one source, the template it stands for, as               *)
(* fetchVisibleCatalog builds them: the quota of the source is the limit.  *)
(* The category comes from VisibleCatalog; here a request may be refused   *)
(* where that fails or the category has changed.  The approvals of the     *)
(* source within the time bounds are numbered as DingTalk lists them.      *)
(***************************************************************************)
EXTENDS Integers, FiniteSets

CONSTANTS
  Requests,           \* executions of Search
  Users,
  Last,               \* the number of approvals in the category
  Limit,              \* limit of a page
  DetailConcurrency,  \* APPROVAL_DETAIL_CONCURRENCY
  CursorTTL,          \* defaultCursorTTL
  Disconnects,        \* whether clients may go away
  Horizon             \* bound: the clock stops here

ASSUME SearchAssumption ==
  /\ {Last, CursorTTL, Horizon} \subseteq Nat
  /\ {Limit, DetailConcurrency} \subseteq Nat \ {0}
  /\ Disconnects \in BOOLEAN

VARIABLES
  now,      \* the clock
  cursors,  \* the cursors that clients hold
  search,   \* the requests
  check,    \* check[r][i]: the goroutine of r for approval i
  audit     \* the audit_events table: <<request, approval, decision>>

searchVars == <<now, cursors, search, check, audit>>

Approvals == 1..Last
Times == 0..Horizon

\* A cursor: whose it is, the position it continues from and its first issue; and,
\* as history, when that really was and which approvals its chain has decided.
Cursor == [user : Users, position : 0..Last, issuedAt : Times,
           began : Times, decided : SUBSET Approvals]
NoCursor == [position |-> 0, decided |-> {}]

\* next is the position after this page, -1 when the source is done.
Search == [pc : {"idle", "list", "check", "ok", "error"}, user : Users,
           cursor : Cursor \cup {NoCursor}, page : SUBSET Approvals, next : -1..Last,
           gone : BOOLEAN]

Checks == {"none", "queued", "calling", "shown", "hidden", "forbidden", "failed", "skipped"}
Decisions == {"allowed", "denied", "cancelled"}

Calling(r) == {i \in Approvals : check[r][i] = "calling"}

SearchTypeOK ==
  /\ now \in Times
  /\ cursors \subseteq Cursor
  /\ search \in [Requests -> Search]
  /\ check \in [Requests -> [Approvals -> Checks]]
  /\ audit \subseteq Requests \X Approvals \X Decisions

SearchInit ==
  /\ now = 0
  /\ cursors = {}
  /\ \E u \in Users :
       search = [r \in Requests |-> [pc |-> "idle", user |-> u, cursor |-> NoCursor,
                                     page |-> {}, next |-> 0, gone |-> FALSE]]
  /\ check = [r \in Requests |-> [i \in Approvals |-> "none"]]
  /\ audit = {}

Tick == /\ now < Horizon
        /\ now' = now + 1
        /\ UNCHANGED <<cursors, search, check, audit>>

-----------------------------------------------------------------------------
(* Search: the request up to its candidates.                               *)

\* searchState, with the checks of cursorCodec.Decode.
CursorValid(u, c) == c # NoCursor => c.user = u /\ c.issuedAt >= now - CursorTTL

Begin(r, u, c) ==
  /\ search[r].pc = "idle"
  /\ \E accepted \in BOOLEAN :
       search' = [search EXCEPT ![r] = [@ EXCEPT !.user = u, !.cursor = c,
                    !.pc = IF accepted /\ CursorValid(u, c) THEN "list" ELSE "error"]]
  /\ UNCHANGED <<now, cursors, check, audit>>

\* listCandidates: at most Limit approvals, and where the next page begins unless
\* the source is done.
List(r) ==
  /\ search[r].pc = "list"
  /\ LET p == search[r].cursor.position IN
     \E q \in p..Last : \E done \in BOOLEAN :
       /\ q - p <= Limit
       /\ done => q = Last
       /\ ~done => q > p
       /\ search' = [search EXCEPT ![r] = [@ EXCEPT !.pc = "check", !.page = (p + 1)..q,
                                                    !.next = IF done THEN -1 ELSE q]]
       /\ check' = [check EXCEPT ![r] =
            [i \in Approvals |-> IF i \in (p + 1)..q THEN "queued" ELSE "none"]]
  /\ UNCHANGED <<now, cursors, audit>>

ListFails(r) ==
  /\ search[r].pc = "list"
  /\ search' = [search EXCEPT ![r] = [@ EXCEPT !.pc = "error"]]
  /\ UNCHANGED <<now, cursors, check, audit>>

-----------------------------------------------------------------------------
(* authorizeCandidates: one goroutine per candidate, started in order.     *)

\* The errgroup cancels its context with the first error, and with the request's.
Failed(r) == \E i \in Approvals : check[r][i] = "failed"
Cancelled(r) == Failed(r) \/ search[r].gone

Ends(r, i, result) == check' = [check EXCEPT ![r] = [@ EXCEPT ![i] = result]]

\* recordAudit, on a context of its own: the record is stored, or the write fails,
\* stored or not.
Recorded(r, i, decision) == audit' = audit \cup {<<r, i, decision>>}
RecordFails(r, i, decision) == audit' = audit \/ Recorded(r, i, decision)

Start(r, i) ==
  /\ check[r][i] = "queued" /\ \A j \in Approvals : check[r][j] = "queued" => i <= j
  /\ Cardinality(Calling(r)) < DetailConcurrency /\ ~Cancelled(r)
  /\ Ends(r, i, "calling")
  /\ UNCHANGED <<now, cursors, search, audit>>

\* Operators named Defect... are faulty variants of the operator that follows
\* them; each property of a run is known to fail with one of them in its place.
DefectUnaudited(r, i) ==
  /\ check[r][i] = "calling"
  /\ RecordFails(r, i, "allowed") /\ Ends(r, i, "shown")
  /\ UNCHANGED <<now, cursors, search>>

\* The user may see the approval, it has attachments and matches the keyword.
Allow(r, i) ==
  /\ check[r][i] = "calling"
  /\ \/ Recorded(r, i, "allowed") /\ Ends(r, i, "shown")
     \/ RecordFails(r, i, "allowed") /\ Ends(r, i, "failed")
  /\ UNCHANGED <<now, cursors, search>>

Hide(r, i) ==
  /\ check[r][i] = "calling"
  /\ Ends(r, i, "hidden")
  /\ UNCHANGED <<now, cursors, search, audit>>

\* Not a participant and no administrator.
Forbid(r, i) ==
  /\ check[r][i] = "calling"
  /\ \/ Recorded(r, i, "denied") /\ Ends(r, i, "forbidden")
     \/ RecordFails(r, i, "denied") /\ Ends(r, i, "failed")
  /\ UNCHANGED <<now, cursors, search>>

\* Approval fails.
Fail(r, i) ==
  /\ check[r][i] = "calling"
  /\ RecordFails(r, i, "denied") /\ Ends(r, i, "failed")
  /\ UNCHANGED <<now, cursors, search>>

\* Approval ends by the cancellation.  Only where the client waits for the app token
\* is the error still a context.Canceled, which a sibling's failure makes silent;
\* classifySDKError turns it into another one, which is recorded as a denial.
Cancel(r, i) ==
  /\ check[r][i] \in {"queued", "calling"} /\ Cancelled(r)
  /\ \/ /\ ~search[r].gone
        /\ Ends(r, i, "skipped") /\ UNCHANGED audit
     \/ RecordFails(r, i, "cancelled") /\ Ends(r, i, "failed")
  /\ UNCHANGED <<now, cursors, search>>

\* The client goes away.
Disconnect(r) ==
  /\ Disconnects /\ search[r].pc = "check" /\ ~search[r].gone
  /\ search' = [search EXCEPT ![r] = [@ EXCEPT !.gone = TRUE]]
  /\ UNCHANGED <<now, cursors, check, audit>>

-----------------------------------------------------------------------------
(* Search: the answer.                                                     *)

Finished(r) ==
  /\ search[r].pc = "check"
  /\ \A i \in Approvals : check[r][i] \notin {"queued", "calling"}

\* cursorCodec.Encode keeps the time of the first issue.
DefectReissued(c) == now
IssuedAt(c) == IF c = NoCursor THEN now ELSE c.issuedAt

NextCursor(r) ==
  LET s == search[r] IN
  [user |-> s.user, position |-> s.next, issuedAt |-> IssuedAt(s.cursor),
   began |-> IF s.cursor = NoCursor THEN now ELSE s.cursor.began,
   decided |-> s.cursor.decided \cup s.page]

\* hasRemainingSources
Remaining(r) == search[r].next # -1

Answer(r) ==
  /\ Finished(r) /\ ~Failed(r)
  /\ search' = [search EXCEPT ![r] = [@ EXCEPT !.pc = "ok"]]
  /\ cursors' = IF Remaining(r) THEN cursors \cup {NextCursor(r)} ELSE cursors
  /\ UNCHANGED <<now, check, audit>>

AnswerError(r) ==
  /\ Finished(r) /\ Failed(r)
  /\ search' = [search EXCEPT ![r] = [@ EXCEPT !.pc = "error"]]
  /\ UNCHANGED <<now, cursors, check, audit>>

-----------------------------------------------------------------------------

SearchQuiescent ==
  /\ now = Horizon
  /\ \A r \in Requests : search[r].pc \in {"ok", "error"}
  /\ UNCHANGED searchVars

SearchNext ==
  \/ Tick \/ SearchQuiescent
  \/ \E r \in Requests :
       \/ \E u \in Users, c \in cursors \cup {NoCursor} : Begin(r, u, c)
       \/ List(r) \/ ListFails(r) \/ Disconnect(r) \/ Answer(r) \/ AnswerError(r)
       \/ \E i \in Approvals :
            \/ Start(r, i) \/ Allow(r, i) \/ Hide(r, i) \/ Forbid(r, i) \/ Fail(r, i)
            \/ Cancel(r, i)

SearchSpec == SearchInit /\ [][SearchNext]_searchVars

-----------------------------------------------------------------------------
(* Properties.                                                             *)

\* An answered page has decided each of its approvals: what it shows has its allowed
\* record, what it withholds as forbidden its denied record, and a cancelled check
\* never passes for an approval that is not there ("Each returned search result,
\* denied candidate", docs/authorization.md).
SearchIsAudited ==
  \A r \in Requests : search[r].pc = "ok" =>
    \A i \in search[r].page :
      /\ check[r][i] \in {"shown", "hidden", "forbidden"}
      /\ check[r][i] = "shown" => <<r, i, "allowed">> \in audit
      /\ check[r][i] # "shown" => <<r, i, "allowed">> \notin audit
      /\ check[r][i] = "forbidden" => <<r, i, "denied">> \in audit

\* A search that is followed to its end has decided every approval of the category,
\* for one user, within the life of a cursor ("expire after one hour",
\* docs/architecture.md), whatever pages failed and were asked for again.
ChainIsWhole ==
  \A r \in Requests : LET s == search[r] IN
    /\ s.pc = "ok" /\ s.next = -1 => s.cursor.decided \cup s.page = Approvals
    /\ s.pc \in {"list", "check"} /\ s.cursor # NoCursor => s.cursor.user = s.user
    /\ \A c \in cursors : c.issuedAt = c.began

\* The cancellation of the checks that follows the failure of one of them is not
\* recorded ("sibling cancellation must not be audited",
\* internal/approvals/service_test.go).
SiblingsAreNotAudited ==
  \A r \in Requests, i \in Approvals : <<r, i, "cancelled">> \in audit => search[r].gone

-----------------------------------------------------------------------------
(* The inductive invariant behind the first two.                           *)

\* A cursor continues where its chain has got to, and keeps the chain's first time.
CursorsOK ==
  \A c \in cursors : c.issuedAt = c.began /\ c.began <= now /\ c.decided = 1..c.position

\* An accepted request continues a cursor that was handed out to its user; its page
\* begins there and ends where the next one begins, or at the end of the source.
RequestsOK ==
  \A r \in Requests : LET s == search[r] IN
    /\ s.pc \in {"list", "check", "ok"} =>
         s.cursor = NoCursor \/ (s.cursor \in cursors /\ s.cursor.user = s.user)
    /\ s.pc \in {"check", "ok"} =>
         /\ s.page = (s.cursor.position + 1)..(IF s.next = -1 THEN Last ELSE s.next)
         /\ s.next # -1 => s.cursor.position < s.next
    /\ s.pc = "ok" => \A i \in Approvals : check[r][i] \notin {"queued", "calling", "failed"}

\* What the goroutine of an approval has recorded, and that one which was cancelled for
\* a sibling's sake has a sibling that failed.
CheckOK(r, i) ==
  /\ search[r].pc \in {"idle", "list"} => check[r][i] = "none"
  /\ search[r].pc \in {"check", "ok"} => (check[r][i] = "none" <=> i \notin search[r].page)
  /\ check[r][i] \in {"none", "queued", "calling"} => \A d \in Decisions : <<r, i, d>> \notin audit
  /\ check[r][i] = "shown" => <<r, i, "allowed">> \in audit
  /\ check[r][i] \in {"hidden", "forbidden", "skipped"} => <<r, i, "allowed">> \notin audit
  /\ check[r][i] = "forbidden" => <<r, i, "denied">> \in audit
  /\ check[r][i] = "skipped" => Failed(r)

ChecksOK == \A r \in Requests, i \in Approvals : CheckOK(r, i)

SearchInv == SearchTypeOK /\ CursorsOK /\ RequestsOK /\ ChecksOK
=============================================================================

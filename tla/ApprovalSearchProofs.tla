------------------------- MODULE ApprovalSearchProofs -------------------------
(***************************************************************************)
(* Proofs about ApprovalSearch: SearchInv is inductive, for any requests,  *)
(* users, number of approvals and sizes of a page; from it follow that an  *)
(* answered page is decided and recorded, and that a chain of cursors      *)
(* covers the category.                                                    *)
(***************************************************************************)
EXTENDS ApprovalSearch, TLAPS

-----------------------------------------------------------------------------
(* What a step of a goroutine does.                                        *)

\* The check of approval i comes to x and writes the records S.
Moves(r, i, x, S) ==
  /\ check[r][i] \in {"queued", "calling"}
  /\ check' = [check EXCEPT ![r] = [@ EXCEPT ![i] = x]]
  /\ audit' = audit \cup S /\ UNCHANGED <<now, cursors, search>>
  /\ x \in Checks \ {"none", "queued"}
  /\ S \subseteq {<<r, i, d>> : d \in Decisions}
  /\ x \in {"calling", "hidden", "skipped"} => S = {}
  /\ x = "shown" => S = {<<r, i, "allowed">>}
  /\ x = "forbidden" => S = {<<r, i, "denied">>}
  /\ x = "skipped" => Failed(r)

CheckStep(r, i) ==
  Start(r, i) \/ Allow(r, i) \/ Hide(r, i) \/ Forbid(r, i) \/ Fail(r, i) \/ Cancel(r, i)

LEMMA CheckEffect ==
  ASSUME NEW r \in Requests, NEW i \in Approvals, CheckStep(r, i)
  PROVE  \E x, S : Moves(r, i, x, S)
<1>1. CASE Start(r, i)
  <2>1. Moves(r, i, "calling", {})
    BY <1>1 DEF Start, Ends, Moves, Checks
  <2>2. QED
    BY <2>1
<1>2. CASE Hide(r, i)
  <2>1. Moves(r, i, "hidden", {})
    BY <1>2 DEF Hide, Ends, Moves, Checks
  <2>2. QED
    BY <2>1
<1>3. ASSUME NEW d \in Decisions, check[r][i] \in {"queued", "calling"}, RecordFails(r, i, d),
             Ends(r, i, "failed"), UNCHANGED <<now, cursors, search>>
      PROVE  \E x, S : Moves(r, i, x, S)
  <2>1. Moves(r, i, "failed", {}) \/ Moves(r, i, "failed", {<<r, i, d>>})
    BY <1>3 DEF RecordFails, Recorded, Ends, Moves, Checks
  <2>2. QED
    BY <2>1
<1>4. CASE Allow(r, i)
  <2>1. CASE Recorded(r, i, "allowed") /\ Ends(r, i, "shown")
    <3>1. Moves(r, i, "shown", {<<r, i, "allowed">>})
      BY <1>4, <2>1 DEF Allow, Recorded, Ends, Moves, Checks, Decisions
    <3>2. QED
      BY <3>1
  <2>2. CASE RecordFails(r, i, "allowed") /\ Ends(r, i, "failed")
    BY <1>3, <1>4, <2>2 DEF Allow, Decisions
  <2>3. QED
    BY <1>4, <2>1, <2>2 DEF Allow
<1>5. CASE Forbid(r, i)
  <2>1. CASE Recorded(r, i, "denied") /\ Ends(r, i, "forbidden")
    <3>1. Moves(r, i, "forbidden", {<<r, i, "denied">>})
      BY <1>5, <2>1 DEF Forbid, Recorded, Ends, Moves, Checks, Decisions
    <3>2. QED
      BY <3>1
  <2>2. CASE RecordFails(r, i, "denied") /\ Ends(r, i, "failed")
    BY <1>3, <1>5, <2>2 DEF Forbid, Decisions
  <2>3. QED
    BY <1>5, <2>1, <2>2 DEF Forbid
<1>6. CASE Fail(r, i)
  BY <1>3, <1>6 DEF Fail, Decisions
<1>7. CASE Cancel(r, i)
  <2>1. CASE ~search[r].gone /\ Ends(r, i, "skipped") /\ UNCHANGED audit
    <3>1. Moves(r, i, "skipped", {})
      BY <1>7, <2>1 DEF Cancel, Cancelled, Ends, Moves, Checks
    <3>2. QED
      BY <3>1
  <2>2. CASE RecordFails(r, i, "cancelled") /\ Ends(r, i, "failed")
    BY <1>3, <1>7, <2>2 DEF Cancel, Decisions
  <2>3. QED
    BY <1>7, <2>1, <2>2 DEF Cancel
<1>8. QED
  BY <1>1, <1>2, <1>4, <1>5, <1>6, <1>7 DEF CheckStep

\* Such a step keeps the invariant: it ends one check, and the records it writes are
\* of that check.
LEMMA CheckKeeps ==
  ASSUME SearchInv, NEW r \in Requests, NEW i \in Approvals, NEW x, NEW S, Moves(r, i, x, S)
  PROVE  SearchInv'
<1>1. /\ check \in [Requests -> [Approvals -> Checks]] /\ search \in [Requests -> Search]
      /\ audit \subseteq Requests \X Approvals \X Decisions
  BY DEF SearchInv, SearchTypeOK
<1>2. /\ check' \in [Requests -> [Approvals -> Checks]]
      /\ check'[r][i] = x /\ x \in Checks
      /\ \A q \in Requests, j \in Approvals : q # r \/ j # i => check'[q][j] = check[q][j]
  BY <1>1 DEF Moves
<1>3. search' = search /\ cursors' = cursors /\ now' = now /\ audit' = audit \cup S
  BY DEF Moves
<1>4. SearchTypeOK'
  BY <1>1, <1>2, <1>3 DEF SearchInv, SearchTypeOK, Moves
<1>5. CursorsOK'
  BY <1>3 DEF SearchInv, CursorsOK
<1>6. RequestsOK'
  <2>1. search[r].pc # "ok"
    BY DEF SearchInv, RequestsOK, Moves
  <2>2. QED
    BY <1>2, <1>3, <2>1 DEF SearchInv, RequestsOK
<1>7. ChecksOK'
  <2> SUFFICES ASSUME NEW q \in Requests, NEW j \in Approvals PROVE CheckOK(q, j)'
    BY DEF ChecksOK
  <2>1. Failed(q) => Failed(q)'
    BY <1>2 DEF Failed, Moves
  <2>2. CASE q = r /\ j = i
    <3>1. /\ search[r].pc \notin {"idle", "list"}
          /\ search[r].pc \in {"check", "ok"} => i \in search[r].page
          /\ \A d \in Decisions : <<r, i, d>> \notin audit
      BY DEF SearchInv, ChecksOK, CheckOK, Moves
    <3>2. x \notin {"none", "queued"}
      BY DEF Moves
    <3>3. x = "calling" => \A d \in Decisions : <<r, i, d>> \notin audit'
      BY <1>3, <3>1 DEF Moves
    <3>4. x = "shown" => <<r, i, "allowed">> \in audit'
      BY <1>3 DEF Moves
    <3>5. x \in {"hidden", "forbidden", "skipped"} => <<r, i, "allowed">> \notin audit'
      BY <1>3, <3>1 DEF Moves, Decisions
    <3>6. x = "forbidden" => <<r, i, "denied">> \in audit'
      BY <1>3 DEF Moves
    <3>7. x = "skipped" => Failed(q)'
      BY <2>1, <2>2 DEF Moves
    <3>8. QED
      BY <1>2, <1>3, <2>2, <3>1, <3>2, <3>3, <3>4, <3>5, <3>6, <3>7 DEF CheckOK
  <2>3. CASE q # r \/ j # i
    <3>1. \A d \in Decisions : <<q, j, d>> \in audit' <=> <<q, j, d>> \in audit
      BY <1>3, <2>3 DEF Moves
    <3>2. check'[q][j] = check[q][j]
      BY <1>2, <2>3
    <3>3. QED
      BY <1>3, <2>1, <3>1, <3>2 DEF SearchInv, ChecksOK, CheckOK, Decisions
  <2>4. QED
    BY <2>2, <2>3
<1>8. QED
  BY <1>4, <1>5, <1>6, <1>7 DEF SearchInv

-----------------------------------------------------------------------------
(* The steps of a request.                                                 *)

\* The position a page begins after.
LEMMA PositionOf ==
  ASSUME SearchInv, NEW r \in Requests
  PROVE  /\ search[r] \in Search /\ search[r].cursor.position \in 0..Last
         /\ Last \in Nat /\ Limit \in Nat
<1>1. search[r] \in Search /\ Last \in Nat /\ Limit \in Nat
  BY SearchAssumption DEF SearchInv, SearchTypeOK
<1>2. search[r].cursor \in Cursor \/ search[r].cursor = NoCursor
  BY <1>1 DEF Search
<1>3. QED
  BY <1>1, <1>2 DEF Cursor, NoCursor

\* A step that leaves the goroutines alone keeps what ChecksOK says of them, if the
\* request stays where their results are in place.
LEMMA RequestKeeps ==
  ASSUME SearchInv, NEW r \in Requests, NEW s \in Search,
         search' = [search EXCEPT ![r] = s], UNCHANGED <<now, check, audit>>,
         cursors \subseteq cursors', CursorsOK', cursors' \subseteq Cursor,
         s.pc \in {"list", "check", "ok"} =>
           s.cursor = NoCursor \/ (s.cursor \in cursors' /\ s.cursor.user = s.user),
         s.pc \in {"check", "ok"} =>
           s.page = search[r].page /\ s.next = search[r].next /\ s.cursor = search[r].cursor,
         s.pc \in {"idle", "list"} => search[r].pc = "idle",
         s.pc \in {"check", "ok"} => search[r].pc = "check",
         s.pc = "ok" => \A i \in Approvals : check[r][i] \notin {"queued", "calling", "failed"}
  PROVE  SearchInv'
<1>1. /\ search \in [Requests -> Search] /\ search' \in [Requests -> Search]
      /\ search'[r] = s /\ \A q \in Requests : q # r => search'[q] = search[q]
  BY DEF SearchInv, SearchTypeOK
<1>2. SearchTypeOK'
  BY <1>1 DEF SearchInv, SearchTypeOK
<1>3. RequestsOK'
  BY <1>1 DEF SearchInv, RequestsOK
<1>4. ChecksOK'
  <2> SUFFICES ASSUME NEW q \in Requests, NEW i \in Approvals PROVE CheckOK(q, i)'
    BY DEF ChecksOK
  <2>1. CheckOK(q, i) /\ (Failed(q)' <=> Failed(q))
    BY DEF SearchInv, ChecksOK, Failed
  <2>2. CASE q = r
    BY <1>1, <2>1, <2>2 DEF CheckOK
  <2>3. CASE q # r
    BY <1>1, <2>1, <2>3 DEF CheckOK
  <2>4. QED
    BY <2>2, <2>3
<1>5. QED
  BY <1>2, <1>3, <1>4 DEF SearchInv

LEMMA TickKeeps == ASSUME SearchInv, Tick PROVE SearchInv'
<1>1. SearchTypeOK'
  BY SearchAssumption DEF SearchInv, SearchTypeOK, Tick, Times
<1>2. CursorsOK'
  BY DEF SearchInv, SearchTypeOK, CursorsOK, Tick, Cursor, Times
<1>3. RequestsOK' /\ ChecksOK'
  BY DEF SearchInv, RequestsOK, ChecksOK, CheckOK, Failed, Tick
<1>4. QED
  BY <1>1, <1>2, <1>3 DEF SearchInv

LEMMA BeginKeeps ==
  ASSUME SearchInv, NEW r \in Requests, NEW u \in Users, NEW c \in cursors \cup {NoCursor},
         Begin(r, u, c)
  PROVE  SearchInv'
<1>1. search[r] \in Search /\ cursors \subseteq Cursor
  BY DEF SearchInv, SearchTypeOK
<1>2. PICK accepted \in BOOLEAN :
        search' = [search EXCEPT ![r] = [@ EXCEPT !.user = u, !.cursor = c,
                     !.pc = IF accepted /\ CursorValid(u, c) THEN "list" ELSE "error"]]
  BY DEF Begin
<1> DEFINE s == [search[r] EXCEPT !.user = u, !.cursor = c,
                   !.pc = IF accepted /\ CursorValid(u, c) THEN "list" ELSE "error"]
<1>3. s \in Search /\ s.pc \in {"list", "error"} /\ s.cursor = c /\ s.user = u
  BY <1>1 DEF Search
<1>4. s.pc = "list" => c = NoCursor \/ (c \in cursors /\ c.user = u)
  BY <1>1 DEF CursorValid, Search
<1>5. /\ search' = [search EXCEPT ![r] = s] /\ search[r].pc = "idle"
      /\ UNCHANGED <<now, cursors, check, audit>>
  BY <1>2 DEF Begin
<1>6. CursorsOK'
  BY <1>5 DEF SearchInv, CursorsOK
<1> HIDE DEF s
<1>7. QED
  BY <1>1, <1>3, <1>4, <1>5, <1>6, RequestKeeps

\* The listing gives every approval of the page a goroutine.
LEMMA ListKeeps == ASSUME SearchInv, NEW r \in Requests, List(r) PROVE SearchInv'
<1> DEFINE p == search[r].cursor.position
<1>1. search[r] \in Search /\ p \in 0..Last /\ Last \in Nat /\ Limit \in Nat
  BY PositionOf
<1>2. PICK q \in p..Last, done \in BOOLEAN :
        /\ q - p <= Limit /\ (done => q = Last) /\ (~done => q > p)
        /\ search' = [search EXCEPT ![r] = [@ EXCEPT !.pc = "check", !.page = (p + 1)..q,
                                                    !.next = IF done THEN -1 ELSE q]]
        /\ check' = [check EXCEPT ![r] =
             [i \in Approvals |-> IF i \in (p + 1)..q THEN "queued" ELSE "none"]]
  BY DEF List
<1> DEFINE s == [search[r] EXCEPT !.pc = "check", !.page = (p + 1)..q,
                                  !.next = IF done THEN -1 ELSE q]
<1>3. search[r].pc = "list" /\ UNCHANGED <<now, cursors, audit>>
  BY DEF List
<1>4. /\ search \in [Requests -> Search] /\ check \in [Requests -> [Approvals -> Checks]]
      /\ q \in 0..Last /\ (p + 1)..q \subseteq Approvals
  BY <1>1, <1>2 DEF SearchInv, SearchTypeOK, Approvals
<1>5. /\ s \in Search /\ s.pc = "check" /\ s.cursor = search[r].cursor /\ s.user = search[r].user
      /\ s.page = (p + 1)..(IF s.next = -1 THEN Last ELSE s.next)
      /\ s.next # -1 => p < s.next
  <2>1. (IF done THEN -1 ELSE q) \in -1..Last
    BY <1>1, <1>4
  <2>2. s \in Search /\ s.pc = "check" /\ s.cursor = search[r].cursor /\ s.user = search[r].user
    BY <1>1, <1>4, <2>1 DEF Search
  <2>3. s.page = (p + 1)..q /\ s.next = IF done THEN -1 ELSE q
    BY <1>1 DEF Search
  <2>4. QED
    BY <1>1, <1>2, <1>4, <2>2, <2>3
<1>6. /\ search'[r] = s /\ \A o \in Requests : o # r => search'[o] = search[o] /\ check'[o] = check[o]
      /\ \A i \in Approvals : check'[r][i] = IF i \in s.page THEN "queued" ELSE "none"
      /\ search' \in [Requests -> Search] /\ check' \in [Requests -> [Approvals -> Checks]]
  <2>1. s.page = (p + 1)..q
    BY <1>1 DEF Search
  <2>2. search' = [search EXCEPT ![r] = s]
    BY <1>2
  <2>3. [i \in Approvals |-> IF i \in (p + 1)..q THEN "queued" ELSE "none"] \in [Approvals -> Checks]
    BY DEF Checks
  <2> HIDE DEF s
  <2>4. QED
    BY <1>2, <1>4, <1>5, <2>1, <2>2, <2>3
<1> HIDE DEF s, p
<1>7. SearchTypeOK' /\ CursorsOK'
  BY <1>3, <1>6 DEF SearchInv, SearchTypeOK, CursorsOK
<1>8. RequestsOK'
  <2>1. ASSUME NEW o \in Requests, o # r
        PROVE  /\ search'[o].pc \in {"list", "check", "ok"} =>
                    search'[o].cursor = NoCursor
                      \/ (search'[o].cursor \in cursors' /\ search'[o].cursor.user = search'[o].user)
               /\ search'[o].pc \in {"check", "ok"} =>
                    search'[o].page = (search'[o].cursor.position + 1)..
                                        (IF search'[o].next = -1 THEN Last ELSE search'[o].next)
               /\ search'[o].pc \in {"check", "ok"} /\ search'[o].next # -1 =>
                    search'[o].cursor.position < search'[o].next
               /\ search'[o].pc = "ok" =>
                    \A i \in Approvals : check'[o][i] \notin {"queued", "calling", "failed"}
    BY <1>3, <1>6, <2>1 DEF SearchInv, RequestsOK
  <2>2. s.cursor = NoCursor \/ (s.cursor \in cursors /\ s.cursor.user = s.user)
    BY <1>3, <1>5 DEF SearchInv, RequestsOK
  <2>3. QED
    BY <1>3, <1>5, <1>6, <2>1, <2>2 DEF RequestsOK, p
<1>9. ChecksOK'
  <2> SUFFICES ASSUME NEW o \in Requests, NEW i \in Approvals PROVE CheckOK(o, i)'
    BY DEF ChecksOK
  <2>1. CheckOK(o, i)
    BY DEF SearchInv, ChecksOK
  <2>2. CASE o = r
    BY <1>3, <1>5, <1>6, <2>1, <2>2 DEF CheckOK
  <2>3. CASE o # r
    BY <1>3, <1>6, <2>1, <2>3 DEF CheckOK, Failed
  <2>4. QED
    BY <2>2, <2>3
<1>10. QED
  BY <1>7, <1>8, <1>9 DEF SearchInv

\* A refused listing, a client that goes away, and a failed page change the request only.
LEMMA EndsKeep ==
  ASSUME SearchInv, NEW r \in Requests, ListFails(r) \/ Disconnect(r) \/ AnswerError(r)
  PROVE  SearchInv'
<1>1. search[r] \in Search /\ cursors \subseteq Cursor
  BY DEF SearchInv, SearchTypeOK
<1>2. UNCHANGED <<now, cursors, check, audit>> /\ CursorsOK'
  BY DEF ListFails, Disconnect, AnswerError, SearchInv, CursorsOK
<1>3. CASE ListFails(r) \/ AnswerError(r)
  <2> DEFINE s == [search[r] EXCEPT !.pc = "error"]
  <2>1. s \in Search /\ s.pc = "error" /\ search' = [search EXCEPT ![r] = s]
    BY <1>1, <1>3 DEF Search, ListFails, AnswerError
  <2> HIDE DEF s
  <2>2. QED
    BY <1>1, <1>2, <2>1, RequestKeeps
<1>4. CASE Disconnect(r)
  <2> DEFINE s == [search[r] EXCEPT !.gone = TRUE]
  <2>1. /\ s \in Search /\ s.pc = "check" /\ search[r].pc = "check"
        /\ s.page = search[r].page /\ s.next = search[r].next /\ s.cursor = search[r].cursor
        /\ s.user = search[r].user /\ search' = [search EXCEPT ![r] = s]
    BY <1>1, <1>4 DEF Search, Disconnect
  <2>2. s.cursor = NoCursor \/ (s.cursor \in cursors /\ s.cursor.user = s.user)
    BY <2>1 DEF SearchInv, RequestsOK
  <2> HIDE DEF s
  <2>3. QED
    BY <1>1, <1>2, <2>1, <2>2, RequestKeeps
<1>5. QED
  BY <1>3, <1>4

\* The cursor handed out covers what its page and its chain have decided.
LEMMA NextCursorIsRight ==
  ASSUME SearchInv, NEW r \in Requests, search[r].pc = "check", Remaining(r)
  PROVE  LET c == NextCursor(r) IN
         /\ c \in Cursor /\ c.issuedAt = c.began /\ c.began <= now /\ c.decided = 1..c.position
<1> DEFINE s == search[r]
<1>1. /\ s \in Search /\ s.cursor.position \in 0..Last /\ Last \in Nat /\ s.next \in 0..Last
      /\ now \in Times /\ cursors \subseteq Cursor
  BY PositionOf DEF SearchInv, SearchTypeOK, Search, Remaining
<1>2. s.page = (s.cursor.position + 1)..s.next /\ s.page \subseteq Approvals
  BY <1>1 DEF SearchInv, RequestsOK, Remaining, Search
<1>3. s.cursor = NoCursor \/ s.cursor \in cursors
  BY DEF SearchInv, RequestsOK
<1>4. s.cursor.decided = 1..s.cursor.position /\ s.cursor.decided \subseteq Approvals
  <2>1. CASE s.cursor = NoCursor
    BY <1>1, <2>1 DEF NoCursor
  <2>2. CASE s.cursor \in cursors
    BY <1>1, <2>2 DEF SearchInv, CursorsOK, Cursor
  <2>3. QED
    BY <1>3, <2>1, <2>2
<1>5. s.cursor.position < s.next
  BY DEF SearchInv, RequestsOK, Remaining
<1>6. s.cursor.decided \cup s.page = 1..s.next
  BY <1>1, <1>2, <1>4, <1>5
<1>7. CASE s.cursor = NoCursor
  BY <1>1, <1>2, <1>4, <1>6, <1>7 DEF NextCursor, IssuedAt, Cursor, Times, Search
<1>8. CASE s.cursor # NoCursor
  <2>1. s.cursor \in Cursor /\ s.cursor.issuedAt = s.cursor.began /\ s.cursor.began <= now
    BY <1>1, <1>3, <1>8 DEF SearchInv, CursorsOK
  <2>2. QED
    BY <1>1, <1>2, <1>4, <1>6, <1>8, <2>1 DEF NextCursor, IssuedAt, Cursor, Times, Search
<1>9. QED
  BY <1>7, <1>8

LEMMA AnswerKeeps == ASSUME SearchInv, NEW r \in Requests, Answer(r) PROVE SearchInv'
<1>1. search[r] \in Search /\ cursors \subseteq Cursor /\ search[r].pc = "check"
  BY DEF SearchInv, SearchTypeOK, Answer, Finished
<1>2. \A i \in Approvals : check[r][i] \notin {"queued", "calling", "failed"}
  BY DEF Answer, Finished, Failed
<1>3. /\ UNCHANGED <<now, check, audit>>
      /\ cursors' = cursors \/ (Remaining(r) /\ cursors' = cursors \cup {NextCursor(r)})
  BY DEF Answer
<1>4. cursors \subseteq cursors' /\ cursors' \subseteq Cursor /\ CursorsOK'
  BY <1>1, <1>3, NextCursorIsRight DEF SearchInv, CursorsOK
<1> DEFINE s == [search[r] EXCEPT !.pc = "ok"]
<1>5. /\ s \in Search /\ s.pc = "ok" /\ search' = [search EXCEPT ![r] = s]
      /\ s.page = search[r].page /\ s.next = search[r].next /\ s.cursor = search[r].cursor
      /\ s.user = search[r].user
  BY <1>1 DEF Answer, Search
<1>6. s.cursor = NoCursor \/ (s.cursor \in cursors' /\ s.cursor.user = s.user)
  BY <1>1, <1>4, <1>5 DEF SearchInv, RequestsOK
<1> HIDE DEF s
<1>7. QED
  BY <1>1, <1>2, <1>3, <1>4, <1>5, <1>6, RequestKeeps

-----------------------------------------------------------------------------
(* The theorems.                                                           *)

LEMMA SearchInitInv == ASSUME SearchInit PROVE SearchInv
<1>1. SearchTypeOK
  BY SearchAssumption
  DEF SearchInit, SearchTypeOK, Times, Search, Cursor, NoCursor, Checks, Approvals
<1>2. CursorsOK /\ RequestsOK /\ ChecksOK
  BY DEF SearchInit, CursorsOK, RequestsOK, ChecksOK, CheckOK, Checks
<1>3. QED
  BY <1>1, <1>2 DEF SearchInv

\* The inductive invariant: a page lies between its cursor and the next, each check of it
\* has recorded what it came to, and each cursor covers its chain.
THEOREM SearchInvariance == SearchSpec => []SearchInv
<1>1. ASSUME SearchInv, [SearchNext]_searchVars PROVE SearchInv'
  <2>1. CASE UNCHANGED searchVars
    BY <1>1, <2>1
    DEF searchVars, SearchInv, SearchTypeOK, CursorsOK, RequestsOK, ChecksOK, CheckOK, Failed
  <2>2. CASE Tick
    BY <1>1, <2>2, TickKeeps
  <2>3. ASSUME NEW r \in Requests, NEW u \in Users, NEW c \in cursors \cup {NoCursor},
               Begin(r, u, c)
        PROVE  SearchInv'
    BY <1>1, <2>3, BeginKeeps
  <2>4. ASSUME NEW r \in Requests,
               List(r) \/ ListFails(r) \/ Disconnect(r) \/ Answer(r) \/ AnswerError(r)
        PROVE  SearchInv'
    BY <1>1, <2>4, ListKeeps, EndsKeep, AnswerKeeps
  <2>5. ASSUME NEW r \in Requests, NEW i \in Approvals, CheckStep(r, i) PROVE SearchInv'
    BY <1>1, <2>5, CheckEffect, CheckKeeps
  <2>6. QED
    BY <1>1, <2>1, <2>2, <2>3, <2>4, <2>5 DEF SearchNext, SearchQuiescent, CheckStep
<1>2. QED
  BY <1>1, SearchInitInv, PTL DEF SearchSpec

\* An answered page has decided and recorded each of its approvals, however its checks
\* overlap, fail and are cancelled (authorizeCandidates, recordAudit).
THEOREM PagesAreAudited == SearchSpec => []SearchIsAudited
<1>1. ASSUME SearchInv PROVE SearchIsAudited
  <2> SUFFICES ASSUME NEW r \in Requests, search[r].pc = "ok", NEW i \in search[r].page
      PROVE  /\ check[r][i] \in {"shown", "hidden", "forbidden"}
             /\ check[r][i] = "shown" => <<r, i, "allowed">> \in audit
             /\ check[r][i] # "shown" => <<r, i, "allowed">> \notin audit
             /\ check[r][i] = "forbidden" => <<r, i, "denied">> \in audit
    BY DEF SearchIsAudited
  <2>1. i \in Approvals /\ check[r][i] \in Checks
    BY <1>1 DEF SearchInv, SearchTypeOK, Search
  <2>2. ~Failed(r)
    BY <1>1 DEF SearchInv, RequestsOK, Failed
  <2>3. check[r][i] \in {"shown", "hidden", "forbidden"}
    BY <1>1, <2>1, <2>2, ZenonT(40) DEF SearchInv, RequestsOK, ChecksOK, CheckOK, Checks
  <2>4. QED
    BY <1>1, <2>1, <2>3 DEF SearchInv, ChecksOK, CheckOK
<1>2. QED
  BY <1>1, SearchInvariance, PTL

\* A search followed to its end has decided every approval of the category, for one user,
\* and its cursors keep the time of the first (cursorCodec, hasRemainingSources).
THEOREM ChainsAreWhole == SearchSpec => []ChainIsWhole
<1>1. ASSUME SearchInv PROVE ChainIsWhole
  <2> SUFFICES ASSUME NEW r \in Requests
      PROVE  /\ search[r].pc = "ok" /\ search[r].next = -1 =>
                  search[r].cursor.decided \cup search[r].page = Approvals
             /\ search[r].pc \in {"list", "check"} /\ search[r].cursor # NoCursor =>
                  search[r].cursor.user = search[r].user
             /\ \A c \in cursors : c.issuedAt = c.began
    BY DEF ChainIsWhole
  <2>1. search[r].cursor.position \in 0..Last /\ Last \in Nat /\ cursors \subseteq Cursor
    BY <1>1, PositionOf DEF SearchInv, SearchTypeOK
  <2>2. CASE search[r].pc = "ok" /\ search[r].next = -1
    <3>1. search[r].page = (search[r].cursor.position + 1)..Last
      BY <1>1, <2>2 DEF SearchInv, RequestsOK
    <3>2. search[r].cursor = NoCursor \/ search[r].cursor \in cursors
      BY <1>1, <2>2 DEF SearchInv, RequestsOK
    <3>3. search[r].cursor.decided = 1..search[r].cursor.position
      <4>1. CASE search[r].cursor = NoCursor
        BY <4>1 DEF NoCursor
      <4>2. CASE search[r].cursor \in cursors
        BY <1>1, <4>2 DEF SearchInv, CursorsOK
      <4>3. QED
        BY <3>2, <4>1, <4>2
    <3>4. search[r].cursor.decided \cup search[r].page = 1..Last
      BY <2>1, <3>1, <3>3
    <3>5. QED
      BY <1>1, <2>2, <3>4 DEF SearchInv, CursorsOK, Approvals
  <2>3. QED
    BY <1>1, <2>2 DEF SearchInv, RequestsOK, CursorsOK
<1>2. QED
  BY <1>1, SearchInvariance, PTL
=============================================================================

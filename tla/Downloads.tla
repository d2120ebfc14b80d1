------------------------------ MODULE Downloads ------------------------------
(***************************************************************************)
(* Listing and downloading attachments: List and Download of               *)
(* internal/attachments/service.go, the readers that Download wraps around *)
(* the upstream body, and the copy loop of handleDownload that reads them. *)
(*                                                                         *)
(* A download holds one of its user's slots from its start to the first of *)
(* a failure, a read error (the end of the body is one) and the close of   *)
(* the body.  The body is an io.Reader three times over:                   *)
(*   releaseReadCloser -> expectedSizeReadCloser -> limitedReadCloser      *)
(* around the bytes of the signed URL.  Bytes are counted, not named.      *)
(***************************************************************************)
EXTENDS Integers, FiniteSets

CONSTANTS
  Requests,        \* executions of the two handlers
  Users,           \* authenticated enterprise users
  Administrators,  \* those who may read every approval
  Limit,           \* DOWNLOAD_CONCURRENCY_PER_USER
  MaxBytes,        \* MAX_DOWNLOAD_BYTES
  Buffer,          \* size of the copy loop's buffer
  MaxSize          \* bound: no attachment is larger

ASSUME DownloadAssumption ==
  /\ Administrators \subseteq Users
  /\ Limit \in Nat \ {0} /\ MaxBytes \in Nat \ {0} /\ Buffer \in Nat \ {0}
  /\ MaxSize \in Nat

VARIABLES
  active,  \* downloadLimiter.activeByUser
  dl,      \* the requests
  audit    \* the audit_events table: <<request, decision>>

downloadVars == <<active, dl, audit>>

-----------------------------------------------------------------------------
(* The readers.  A result is n bytes, an error ("none", "eof" or "fail"),  *)
(* and the reader's next state.  A reader's state is what is left of the   *)
(* upstream body, what the limit and the metadata size still allow, and    *)
(* the error that ended the body (terminalErr), which also closed it.      *)

Errors == {"none", "eof", "fail"}
Unknown == -1
Sizes == 0..MaxSize

Reader == [left : Sizes, limit : 0..MaxBytes, expected : Sizes, terminal : Errors]
NoReader == [left |-> 0, limit |-> 0, expected |-> 0, terminal |-> "none"]

Least(a, b) == IF a < b THEN a ELSE b

\* What an io.Reader with `left` bytes may return for a buffer of size want.
UpstreamRead(left, want) ==
  [n : 0..Least(left, want), err : {"none", "fail"}]
    \cup (IF left <= want THEN {[n |-> left, err |-> "eof"]} ELSE {})

\* limitedReadCloser.Read: the last bytes are returned before the end of the
\* file; at the limit one byte is probed for.
Probed(u) == IF u.n = 0 /\ u.err = "eof" THEN "eof" ELSE "fail"

ReadEnded(b) == {[n |-> 0, err |-> b.terminal, next |-> b]}

ReadWithin(b, want) ==
  {[n |-> u.n,
    err |-> IF u.n > 0 /\ u.err = "eof" THEN "none" ELSE u.err,
    next |-> [b EXCEPT !.left = @ - u.n, !.limit = @ - u.n, !.terminal = u.err]] :
      u \in UpstreamRead(b.left, Least(want, b.limit))}

ReadProbe(b) ==
  {[n |-> 0, err |-> Probed(u),
    next |-> [b EXCEPT !.left = @ - u.n, !.terminal = Probed(u)]] : u \in UpstreamRead(b.left, 1)}

LimitedRead(b, want) ==
  IF b.terminal # "none" THEN ReadEnded(b)
  ELSE IF b.limit > 0 THEN ReadWithin(b, want) ELSE ReadProbe(b)

\* Operators named Defect... are faulty variants of the operator that follows
\* them; each property of a run is known to fail with one of them in its place.

\* expectedSizeReadCloser.Read: a body that ends early fails, and so does one
\* that goes on after the size its metadata named.
DefectNoProbe(b, want) ==
  IF b.expected > 0
  THEN {[v EXCEPT !.next.expected = @ - v.n] : v \in LimitedRead(b, want)}
  ELSE {[n |-> 0, err |-> "eof", next |-> b]}

ExpectedRead(b, want) ==
  IF b.expected > 0
  THEN {[n |-> v.n,
         err |-> IF v.err = "eof" /\ v.n < b.expected THEN "fail" ELSE v.err,
         next |-> [v.next EXCEPT !.expected = @ - v.n]] :
           v \in LimitedRead(b, Least(want, b.expected))}
  ELSE {[n |-> 0, err |-> IF v.n > 0 THEN "fail" ELSE v.err, next |-> v.next] :
          v \in LimitedRead(b, 1)}

-----------------------------------------------------------------------------
(* Requests.                                                               *)

Ops == {"list", "download"}
Working == {"slot", "approval", "open", "size", "allow", "stream", "close", "deny"}

\* size is the metadata's FileSize (0 when it names none), header the
\* Content-Length the response carries, whole the length of the upstream body.
Download ==
  [pc : {"idle", "end"} \cup Working, op : Ops, user : Users \cup {Unknown},
   slot : BOOLEAN, body : {"none", "open", "closed"}, reader : Reader,
   size : Sizes, header : {Unknown} \cup Sizes, whole : Sizes, sent : Sizes,
   outcome : {"none", "ok", "aborted", "problem"}]

NoDownload ==
  [pc |-> "idle", op |-> "list", user |-> Unknown, slot |-> FALSE, body |-> "none",
   reader |-> NoReader, size |-> 0, header |-> Unknown, whole |-> 0, sent |-> 0,
   outcome |-> "none"]

DownloadTypeOK ==
  /\ active \in [Users -> Nat]
  /\ dl \in [Requests -> Download]
  /\ audit \subseteq Requests \X {"allowed", "denied"}

DownloadInit ==
  /\ active = [u \in Users |-> 0]
  /\ dl = [r \in Requests |-> NoDownload]
  /\ audit = {}

Goto(r, pc) == dl' = [dl EXCEPT ![r] = [@ EXCEPT !.pc = pc]]

\* The release of the slot, at most once however often it is called.
Release(r) == active' = IF dl[r].slot THEN [active EXCEPT ![dl[r].user] = @ - 1] ELSE active

\* RecordAudit: stored, or not, or stored and reported as a failure.
Audited(r, decision) == audit' = audit \cup {<<r, decision>>}
AuditFails(r, decision) == audit' = audit \/ Audited(r, decision)

-----------------------------------------------------------------------------
(* List and Download.                                                      *)

\* A malformed identifier is refused at once, without a slot or a record.
Arrive(r, u, op) ==
  /\ dl[r].pc = "idle"
  /\ \E valid \in BOOLEAN :
       dl' = [dl EXCEPT ![r] = [NoDownload EXCEPT !.op = op, !.user = u,
                !.pc = IF ~valid THEN "end" ELSE IF op = "list" THEN "approval" ELSE "slot",
                !.outcome = IF valid THEN "none" ELSE "problem"]]
  /\ UNCHANGED <<active, audit>>

Acquire(r) ==
  LET u == dl[r].user IN
  /\ dl[r].pc = "slot"
  /\ \/ /\ active[u] < Limit
        /\ active' = [active EXCEPT ![u] = @ + 1]
        /\ dl' = [dl EXCEPT ![r] = [@ EXCEPT !.pc = "approval", !.slot = TRUE]]
     \/ /\ active[u] >= Limit
        /\ Goto(r, "deny")
        /\ UNCHANGED active
  /\ UNCHANGED audit

\* The approval as DingTalk has it now: its participants, and the metadata size of
\* the file, if the file is in it.
CanAccess(u, participants) == u \in Administrators \cup participants

Approval(r) ==
  /\ dl[r].pc = "approval"
  /\ \/ \E participants \in SUBSET Users, size \in Sizes :
          /\ CanAccess(dl[r].user, participants)
          /\ IF dl[r].op = "list" THEN Goto(r, "allow")
             ELSE dl' = [dl EXCEPT ![r] = [@ EXCEPT !.pc = "open", !.size = size]]
     \/ Goto(r, "deny")
  /\ UNCHANGED <<active, audit>>

\* DownloadURL and Open.  A body with a Content-Length has that many bytes, or
\* fails; one that announces more than the limit is closed by Open itself.
Open(r) ==
  /\ dl[r].pc = "open"
  /\ \/ \E whole \in Sizes : \E length \in {Unknown, whole} :
          /\ length <= MaxBytes
          /\ dl' = [dl EXCEPT ![r] = [@ EXCEPT
                      !.pc = "size", !.body = "open", !.whole = whole, !.header = length,
                      !.reader = [left |-> whole, limit |-> MaxBytes,
                                  expected |-> dl[r].size, terminal |-> "none"]]]
     \/ Goto(r, "deny")
  /\ UNCHANGED <<active, audit>>

\* The metadata size is checked against the limit and the announced length.
SizeAgrees(d) ==
  d.size > 0 => d.size <= MaxBytes /\ (d.header # Unknown => d.header = d.size)

CheckSize(r) ==
  LET d == dl[r] IN
  /\ d.pc = "size"
  /\ dl' = [dl EXCEPT ![r] =
       IF SizeAgrees(d)
       THEN [d EXCEPT !.pc = "allow", !.header = IF d.size > 0 THEN d.size ELSE d.header]
       ELSE [d EXCEPT !.pc = "deny", !.body = "closed", !.reader = NoReader]]
  /\ UNCHANGED <<active, audit>>

\* The decision is recorded before the first byte; without the record the body is
\* closed and the slot given back.
DefectKeepSlot(r) ==
  /\ dl[r].pc = "allow"
  /\ \/ Audited(r, "allowed") /\ Goto(r, "stream")
     \/ /\ AuditFails(r, "allowed")
        /\ dl' = [dl EXCEPT ![r] = [@ EXCEPT !.pc = "end", !.outcome = "problem"]]
  /\ UNCHANGED active
DefectUnaudited(r) ==
  /\ dl[r].pc = "allow"
  /\ AuditFails(r, "allowed")
  /\ dl' = [dl EXCEPT ![r] = [@ EXCEPT !.pc = IF dl[r].op = "list" THEN "end" ELSE "stream",
                                         !.outcome = IF dl[r].op = "list" THEN "ok" ELSE "none"]]
  /\ UNCHANGED active

Allow(r) ==
  /\ dl[r].pc = "allow"
  /\ \/ /\ Audited(r, "allowed")
        /\ IF dl[r].op = "list"
           THEN dl' = [dl EXCEPT ![r] = [@ EXCEPT !.pc = "end", !.outcome = "ok"]]
           ELSE Goto(r, "stream")
        /\ UNCHANGED active
     \/ /\ AuditFails(r, "allowed")
        /\ Release(r)
        /\ dl' = [dl EXCEPT ![r] = [@ EXCEPT !.pc = "end", !.slot = FALSE, !.outcome = "problem",
                    !.reader = NoReader,
                    !.body = IF dl[r].body = "open" THEN "closed" ELSE dl[r].body]]

Deny(r) ==
  /\ dl[r].pc = "deny"
  /\ AuditFails(r, "denied")
  /\ Release(r)
  /\ dl' = [dl EXCEPT ![r] = [@ EXCEPT !.pc = "end", !.slot = FALSE, !.outcome = "problem"]]

-----------------------------------------------------------------------------
(* The copy loop of handleDownload.                                        *)

BodyRead(r) ==
  IF dl[r].size > 0 THEN ExpectedRead(dl[r].reader, Buffer) ELSE LimitedRead(dl[r].reader, Buffer)

\* d after a read that returned v, of which k bytes were written to the client; a
\* read error gives the slot back, and closed the body if it came from upstream.
AfterRead(d, v, k) ==
  [d EXCEPT !.reader = IF v.err = "none" THEN v.next ELSE NoReader, !.sent = @ + k,
            !.body = IF v.next.terminal # "none" THEN "closed" ELSE @,
            !.slot = v.err = "none"]

ReleaseAfter(r, v) == IF v.err = "none" THEN UNCHANGED active ELSE Release(r)

\* One round: read, and write what was read.
Copy(r) ==
  /\ dl[r].pc = "stream"
  /\ \E v \in BodyRead(r) :
       /\ dl' = [dl EXCEPT ![r] = [AfterRead(dl[r], v, v.n) EXCEPT
                   !.pc = IF v.err = "none" THEN "stream" ELSE "close",
                   !.outcome = CASE v.err = "none" -> "none"
                                 [] v.err = "eof" -> "ok"
                                 [] v.err = "fail" -> "aborted"]]
       /\ ReleaseAfter(r, v)
  /\ UNCHANGED audit

\* The client is gone, or too slow: the write fails.
WriteFails(r) ==
  /\ dl[r].pc = "stream"
  /\ \E v \in BodyRead(r) : \E k \in 0..(v.n - 1) :
       /\ dl' = [dl EXCEPT ![r] = [AfterRead(dl[r], v, k) EXCEPT
                   !.pc = "close", !.outcome = "aborted"]]
       /\ ReleaseAfter(r, v)
  /\ UNCHANGED audit

\* The deferred Close, after an abort too.
Close(r) ==
  /\ dl[r].pc = "close"
  /\ Release(r)
  /\ dl' = [dl EXCEPT ![r] = [@ EXCEPT !.pc = "end", !.body = "closed", !.slot = FALSE,
                                        !.reader = NoReader]]
  /\ UNCHANGED audit

-----------------------------------------------------------------------------

HandlerStep(r) ==
  \/ Acquire(r) \/ Approval(r) \/ Open(r) \/ CheckSize(r) \/ Allow(r) \/ Deny(r)
  \/ Copy(r) \/ WriteFails(r) \/ Close(r)

-----------------------------------------------------------------------------
(* Properties.                                                             *)

\* The downloads of u that have got past the limiter and not reached their end.
Streaming(u) ==
  {r \in Requests : /\ dl[r].user = u /\ dl[r].op = "download"
                    /\ dl[r].pc \in {"approval", "open", "size", "allow", "stream"}}

\* A user never has more downloads under way than the limit ("Active streams allowed
\* per user", README.md), and gets every slot back, on whichever of its ways: the
\* counter is at rest when nothing runs.  No upstream body outlives its request.
NothingLeaks ==
  /\ \A u \in Users :
       /\ Cardinality(Streaming(u)) <= Limit
       /\ (\A r \in Requests : dl[r].user = u => dl[r].pc = "end") => active[u] = 0
  /\ \A r \in Requests : dl[r].pc = "end" => dl[r].body # "open"

\* No byte and no list leaves before its allowed record is stored, and a request
\* that was recorded as denied sends nothing ("allowed responses fail closed",
\* docs/threat-model.md).
SentIsAudited ==
  \A r \in Requests :
    /\ dl[r].sent > 0 \/ dl[r].outcome = "ok" => <<r, "allowed">> \in audit
    /\ <<r, "denied">> \in audit => dl[r].sent = 0 /\ dl[r].outcome = "problem"

\* A response that the broker ends regularly is the whole body, of the size its
\* metadata and its header name; whatever goes wrong aborts it, however the body
\* is cut into reads, and within the limit.
CompleteIsWhole ==
  \A r \in Requests : LET d == dl[r] IN
    /\ d.sent <= MaxBytes /\ (d.header # Unknown => d.sent <= d.header)
    /\ d.op = "download" /\ d.outcome = "ok" =>
         /\ d.sent = d.whole
         /\ d.header # Unknown => d.sent = d.header

-----------------------------------------------------------------------------
(* The inductive invariant.                                                *)

\* Where a request may hold a slot, an open body and an outcome.
PlaceOK(d) ==
  /\ d.pc # "idle" => d.user \in Users
  /\ d.pc \notin {"close", "end"} => d.outcome = "none"
  /\ d.pc = "close" => d.outcome \in {"ok", "aborted"}
  /\ d.pc \in {"slot", "open", "size", "stream", "close"} => d.op = "download"
  /\ d.slot => d.op = "download" /\ d.pc \notin {"idle", "slot", "end"}
  /\ d.op = "download" /\ d.pc \in {"approval", "open", "size", "allow", "stream"} => d.slot
  /\ d.body = "open" => d.op = "download" /\ d.pc \in {"size", "allow", "stream", "close"}
  /\ d.sent > 0 => d.op = "download" /\ (d.pc \in {"stream", "close"} \/ d.outcome \in {"ok", "aborted"})

\* What the readers still allow and what was sent make up the body, its limit and
\* its size; only a body that ended regularly may still be read from.
ReaderOK(d) ==
  d.op = "download" /\ d.pc \in {"size", "allow", "stream"} =>
    /\ d.reader.left + d.sent = d.whole
    /\ d.reader.limit + d.sent = MaxBytes
    /\ d.size > 0 => d.reader.expected + d.sent = d.size
    /\ d.reader.terminal \in {"none", "eof"}
    /\ d.reader.terminal = "eof" => d.reader.left = 0

\* The announced length once the sizes were compared, and what a response sent.
SizesOK(d) ==
  /\ d.pc = "size" => d.header \in {Unknown, d.whole}
  /\ d.op = "download" /\ (d.pc \in {"allow", "stream"} \/ d.outcome \in {"ok", "aborted"}) =>
       IF d.size > 0 THEN d.header = d.size ELSE d.header \in {Unknown, d.whole}
  /\ d.sent <= MaxBytes /\ d.sent <= d.whole /\ (d.header # Unknown => d.sent <= d.header)
  /\ d.op = "download" /\ d.outcome = "ok" => d.sent = d.whole /\ (d.size > 0 => d.sent = d.size)

\* The records r has written, with d the state of r.
RecordsOK(r, d, records) ==
  /\ d.pc \in {"stream", "close"} \/ d.sent > 0 \/ d.outcome \in {"ok", "aborted"} =>
       <<r, "allowed">> \in records
  /\ <<r, "denied">> \in records => d.pc = "end" /\ d.sent = 0 /\ d.outcome = "problem"

\* The counter counts the slots that are held.
Holders(u) == {r \in Requests : dl[r].user = u /\ dl[r].slot}

SlotsOK ==
  \A u \in Users : /\ IsFiniteSet(Holders(u)) /\ active[u] = Cardinality(Holders(u))
                   /\ active[u] <= Limit

DownloadInv ==
  /\ DownloadTypeOK
  /\ SlotsOK
  /\ \A r \in Requests : /\ PlaceOK(dl[r]) /\ ReaderOK(dl[r]) /\ SizesOK(dl[r])
                         /\ RecordsOK(r, dl[r], audit)
=============================================================================

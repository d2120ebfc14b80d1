------------------------- MODULE DownloadFileProofs -------------------------
(***************************************************************************)
(* Proofs about modules Downloads and DownloadFile, for any set of         *)
(* requests, users and sizes.  The readers come first, then the slots,     *)
(* then one lemma per action.                                              *)
(***************************************************************************)
EXTENDS DownloadFile, FiniteSetTheorems, TLAPS

-----------------------------------------------------------------------------
(* The readers.                                                            *)

LEMMA UpstreamResult ==
  ASSUME NEW left \in Sizes, NEW want \in Nat, NEW u \in UpstreamRead(left, want)
  PROVE  /\ u.n \in Nat /\ u.n <= left /\ u.n <= want
         /\ u.err \in Errors /\ (u.err = "eof" => u.n = left)
<1>0. left \in Nat
  BY DownloadAssumption DEF Sizes
<1>1. CASE u \in [n : 0..Least(left, want), err : {"none", "fail"}]
  BY <1>0, <1>1 DEF Least, Errors
<1>2. CASE left <= want /\ u = [n |-> left, err |-> "eof"]
  BY <1>0, <1>2 DEF Errors
<1>3. QED
  BY <1>1, <1>2 DEF UpstreamRead

\* What a read of the limited reader may return: at most what is left and allowed,
\* and the end of the file only of a body that is all read.
LimitedFacts(b, want, v) ==
  /\ v.n \in Nat /\ v.n <= want /\ v.n <= b.left /\ v.n <= b.limit
  /\ v.err \in Errors
  /\ v.next \in Reader /\ v.next.expected = b.expected
  /\ v.err = "none" => /\ v.next.left = b.left - v.n /\ v.next.limit = b.limit - v.n
                       /\ v.next.terminal \in {"none", "eof"}
                       /\ v.next.terminal = "eof" => v.next.left = 0
  /\ v.err = "eof" => v.n = 0 /\ b.left = 0

LEMMA LimitedResult ==
  ASSUME NEW b \in Reader, NEW want \in Nat \ {0}, NEW v \in LimitedRead(b, want),
         b.terminal \in {"none", "eof"}, b.terminal = "eof" => b.left = 0
  PROVE  LimitedFacts(b, want, v)
<1>0. /\ b.left \in Sizes /\ b.left \in Nat /\ b.left <= MaxSize
      /\ b.limit \in 0..MaxBytes /\ b.limit \in Nat /\ MaxBytes \in Nat /\ MaxSize \in Nat
      /\ b.expected \in Sizes
  BY DownloadAssumption DEF Reader, Sizes
<1>1. CASE b.terminal # "none"
  <2>1. v = [n |-> 0, err |-> b.terminal, next |-> b]
    BY <1>1 DEF LimitedRead, ReadEnded
  <2>2. b.terminal = "eof"
    BY <1>1
  <2>3. QED
    BY <1>0, <2>1, <2>2 DEF LimitedFacts, Errors
<1>2. CASE b.terminal = "none" /\ b.limit > 0
  <2>1. PICK u \in UpstreamRead(b.left, Least(want, b.limit)) :
          v = [n |-> u.n,
               err |-> IF u.n > 0 /\ u.err = "eof" THEN "none" ELSE u.err,
               next |-> [b EXCEPT !.left = b.left - u.n, !.limit = b.limit - u.n,
                                  !.terminal = u.err]]
    BY <1>0, <1>2 DEF LimitedRead, ReadWithin
  <2>2. Least(want, b.limit) \in Nat /\ Least(want, b.limit) <= want
        /\ Least(want, b.limit) <= b.limit
    BY <1>0 DEF Least
  <2>3. /\ u.n \in Nat /\ u.n <= b.left /\ u.n <= Least(want, b.limit)
        /\ u.err \in Errors /\ (u.err = "eof" => u.n = b.left)
    BY <1>0, <2>1, <2>2, UpstreamResult
  <2>4. /\ v.n = u.n /\ v.err = (IF u.n > 0 /\ u.err = "eof" THEN "none" ELSE u.err)
        /\ v.next = [b EXCEPT !.left = b.left - u.n, !.limit = b.limit - u.n, !.terminal = u.err]
    BY <2>1
  <2>5. u.n <= want /\ u.n <= b.limit
    BY <1>0, <2>2, <2>3
  <2>6. b.left - u.n \in Sizes /\ b.limit - u.n \in 0..MaxBytes
    BY <1>0, <2>3, <2>5 DEF Sizes
  <2>7. /\ v.next \in Reader /\ v.next.expected = b.expected /\ v.next.terminal = u.err
        /\ v.next.left = b.left - u.n /\ v.next.limit = b.limit - u.n
    BY <2>3, <2>4, <2>6 DEF Reader
  <2>8. v.err = "none" => /\ v.next.terminal \in {"none", "eof"}
                          /\ v.next.terminal = "eof" => v.next.left = 0
    BY <1>0, <2>3, <2>4, <2>7 DEF Errors
  <2>9. v.err = "eof" => v.n = 0 /\ b.left = 0
    BY <2>3, <2>4
  <2>10. v.err \in Errors
    BY <2>3, <2>4 DEF Errors
  <2>11. QED
    BY <2>3, <2>4, <2>5, <2>7, <2>8, <2>9, <2>10 DEF LimitedFacts
<1>3. CASE b.terminal = "none" /\ b.limit = 0
  <2>0. v \in ReadProbe(b)
    BY <1>0, <1>3 DEF LimitedRead
  <2>1. PICK u \in UpstreamRead(b.left, 1) :
          v = [n |-> 0, err |-> Probed(u),
               next |-> [b EXCEPT !.left = b.left - u.n, !.terminal = Probed(u)]]
    BY <2>0 DEF ReadProbe
  <2>2. u.n \in Nat /\ u.n <= b.left /\ (u.err = "eof" => u.n = b.left)
    BY <1>0, <2>1, UpstreamResult
  <2>3. Probed(u) \in {"eof", "fail"} /\ (Probed(u) = "eof" => u.n = 0 /\ u.err = "eof")
    BY DEF Probed
  <2>4. b.left - u.n \in Sizes
    BY <1>0, <2>2 DEF Sizes
  <2>5. v.next \in Reader /\ v.next.expected = b.expected
    BY <2>1, <2>3, <2>4 DEF Reader, Errors
  <2>6. v.n = 0 /\ v.err = Probed(u)
    BY <2>1
  <2>7. QED
    BY <1>0, <2>2, <2>3, <2>5, <2>6 DEF LimitedFacts, Errors
<1>4. QED
  BY <1>0, <1>1, <1>2, <1>3

\* The same of the reader that counts to the metadata size.
LEMMA ExpectedResult ==
  ASSUME NEW b \in Reader, NEW want \in Nat \ {0}, NEW v \in ExpectedRead(b, want),
         b.terminal \in {"none", "eof"}, b.terminal = "eof" => b.left = 0
  PROVE  /\ v.n \in Nat /\ v.n <= b.left /\ v.n <= b.limit /\ v.n <= b.expected
         /\ v.err \in Errors
         /\ v.err = "none" => /\ v.next \in Reader
                              /\ v.next.left = b.left - v.n /\ v.next.limit = b.limit - v.n
                              /\ v.next.expected = b.expected - v.n
                              /\ v.next.terminal \in {"none", "eof"}
                              /\ v.next.terminal = "eof" => v.next.left = 0
         /\ v.err = "eof" => v.n = 0 /\ b.left = 0 /\ b.expected = 0
<1>0. /\ b.expected \in Nat /\ b.left \in Nat /\ b.limit \in Nat
      /\ b.expected <= MaxSize /\ MaxSize \in Nat
  BY DownloadAssumption DEF Reader, Sizes
<1>1. CASE b.expected > 0
  <2>1. PICK w \in LimitedRead(b, Least(want, b.expected)) :
          v = [n |-> w.n, err |-> IF w.err = "eof" /\ w.n < b.expected THEN "fail" ELSE w.err,
               next |-> [w.next EXCEPT !.expected = w.next.expected - w.n]]
    BY <1>1 DEF ExpectedRead
  <2>2. Least(want, b.expected) \in Nat \ {0} /\ Least(want, b.expected) <= b.expected
    BY <1>0, <1>1 DEF Least
  <2>3. LimitedFacts(b, Least(want, b.expected), w)
    BY <2>1, <2>2, LimitedResult
  <2>4. /\ v.n = w.n /\ v.err = (IF w.err = "eof" /\ w.n < b.expected THEN "fail" ELSE w.err)
        /\ v.next = [w.next EXCEPT !.expected = w.next.expected - w.n]
    BY <2>1
  <2>5. /\ w.n \in Nat /\ w.n <= b.left /\ w.n <= b.limit /\ w.n <= b.expected
        /\ w.err \in Errors /\ w.next \in Reader /\ w.next.expected = b.expected
    BY <1>0, <2>2, <2>3 DEF LimitedFacts
  <2>6. b.expected - w.n \in Sizes
    BY <1>0, <2>5 DEF Sizes
  <2>7. /\ v.next \in Reader /\ v.next.expected = b.expected - w.n
        /\ v.next.left = w.next.left /\ v.next.limit = w.next.limit
        /\ v.next.terminal = w.next.terminal
    BY <2>4, <2>5, <2>6 DEF Reader
  <2>8. v.err = "none" => w.err = "none"
    BY <2>4
  <2>9. v.err # "eof"
    BY <1>0, <1>1, <2>3, <2>4 DEF LimitedFacts
  <2>10. v.err \in Errors
    BY <2>4, <2>5 DEF Errors
  <2>11. QED
    BY <2>3, <2>4, <2>5, <2>7, <2>8, <2>9, <2>10 DEF LimitedFacts
<1>2. CASE b.expected = 0
  <2>1. PICK w \in LimitedRead(b, 1) :
          v = [n |-> 0, err |-> IF w.n > 0 THEN "fail" ELSE w.err, next |-> w.next]
    BY <1>0, <1>2 DEF ExpectedRead
  <2>2. LimitedFacts(b, 1, w)
    BY <2>1, LimitedResult
  <2>3. v.n = 0 /\ v.err = (IF w.n > 0 THEN "fail" ELSE w.err) /\ v.next = w.next
    BY <2>1
  <2>4. v.err # "fail" => w.n = 0 /\ w.err = v.err
    BY <2>2, <2>3 DEF LimitedFacts
  <2>5. v.err \in Errors
    BY <2>2, <2>3 DEF LimitedFacts, Errors
  <2>6. QED
    BY <1>0, <1>2, <2>2, <2>3, <2>4, <2>5 DEF LimitedFacts
<1>3. QED
  BY <1>0, <1>1, <1>2

\* What a read of a body that is being sent returns, with e the size its metadata
\* names or 0.
ReadFacts(d, v) ==
  /\ v.n \in Nat /\ v.n <= d.reader.left /\ v.n <= d.reader.limit
  /\ d.size > 0 => v.n <= d.reader.expected
  /\ v.err \in Errors
  /\ v.err = "none" => /\ v.next \in Reader
                       /\ v.next.left = d.reader.left - v.n
                       /\ v.next.limit = d.reader.limit - v.n
                       /\ d.size > 0 => v.next.expected = d.reader.expected - v.n
                       /\ v.next.terminal \in {"none", "eof"}
                       /\ v.next.terminal = "eof" => v.next.left = 0
  /\ v.err = "eof" => v.n = 0 /\ d.reader.left = 0 /\ (d.size > 0 => d.reader.expected = 0)

LEMMA BodyResult ==
  ASSUME NEW r \in Requests, dl[r] \in Download, dl[r].pc = "stream", PlaceOK(dl[r]),
         ReaderOK(dl[r]), NEW v \in BodyRead(r)
  PROVE  ReadFacts(dl[r], v)
<1>1. /\ dl[r].reader \in Reader /\ dl[r].reader.terminal \in {"none", "eof"}
      /\ dl[r].reader.terminal = "eof" => dl[r].reader.left = 0
  BY DEF Download, PlaceOK, ReaderOK
<1>2. Buffer \in Nat \ {0}
  BY DownloadAssumption
<1>3. CASE dl[r].size > 0
  <2>1. v \in ExpectedRead(dl[r].reader, Buffer)
    BY <1>3 DEF BodyRead
  <2>2. QED
    BY <1>1, <1>2, <2>1, ExpectedResult DEF ReadFacts
<1>4. CASE ~(dl[r].size > 0)
  <2>1. v \in LimitedRead(dl[r].reader, Buffer)
    BY <1>4 DEF BodyRead
  <2>2. LimitedFacts(dl[r].reader, Buffer, v)
    BY <1>1, <1>2, <2>1, LimitedResult
  <2>3. QED
    BY <1>4, <2>2 DEF ReadFacts, LimitedFacts
<1>5. QED
  BY <1>3, <1>4

-----------------------------------------------------------------------------
(* The slots.                                                              *)

LEMMA SlotsSame ==
  ASSUME SlotsOK, NEW r \in Requests, NEW d \in Download, dl \in [Requests -> Download],
         dl' = [dl EXCEPT ![r] = d], active' = active,
         d.slot => dl[r].slot, dl[r].slot => d.slot, d.slot => d.user = dl[r].user
  PROVE  SlotsOK'
<1>1. ASSUME NEW u \in Users PROVE Holders(u)' = Holders(u)
  <2>1. \A q \in Requests : q # r => dl'[q] = dl[q]
    OBVIOUS
  <2>2. dl'[r] = d
    OBVIOUS
  <2>3. \A q \in Requests : (dl'[q].user = u /\ dl'[q].slot) <=> (dl[q].user = u /\ dl[q].slot)
    <3>1. TAKE q \in Requests
    <3>2. CASE q = r
      BY <2>2, <3>2, Zenon
    <3>3. CASE q # r
      BY <2>1, <3>3, Zenon
    <3>4. QED
      BY <3>2, <3>3
  <2>4. QED
    BY <2>3, Zenon DEF Holders
<1>2. QED
  BY <1>1 DEF SlotsOK

LEMMA SlotTaken ==
  ASSUME SlotsOK, NEW r \in Requests, NEW d \in Download, NEW u \in Users,
         dl \in [Requests -> Download], active \in [Users -> Nat],
         dl' = [dl EXCEPT ![r] = d], active' = [active EXCEPT ![u] = active[u] + 1],
         active[u] < Limit, dl[r].user = u, d.user = u, ~dl[r].slot, d.slot
  PROVE  SlotsOK' /\ active' \in [Users -> Nat]
<1>0. Limit \in Nat
  BY DownloadAssumption
<1>1. /\ \A q \in Requests : q # r => dl'[q] = dl[q]
      /\ dl'[r] = d
  OBVIOUS
<1>2. Holders(u)' = Holders(u) \cup {r} /\ r \notin Holders(u)
  <2>1. \A q \in Requests : (dl'[q].user = u /\ dl'[q].slot) <=>
                              ((dl[q].user = u /\ dl[q].slot) \/ q = r)
    <3>1. TAKE q \in Requests
    <3>2. CASE q = r
      BY <1>1, <3>2, Zenon
    <3>3. CASE q # r
      BY <1>1, <3>3, Zenon
    <3>4. QED
      BY <3>2, <3>3
  <2>2. Holders(u)' = {q \in Requests : (dl[q].user = u /\ dl[q].slot) \/ q = r}
    BY <2>1, Zenon DEF Holders
  <2>3. {q \in Requests : (dl[q].user = u /\ dl[q].slot) \/ q = r}
          = {q \in Requests : dl[q].user = u /\ dl[q].slot} \cup {r}
    OBVIOUS
  <2>4. QED
    BY <2>2, <2>3 DEF Holders
<1>3. IsFiniteSet(Holders(u)) /\ active[u] = Cardinality(Holders(u)) /\ active[u] \in Nat
  BY DEF SlotsOK
<1>4. /\ IsFiniteSet(Holders(u) \cup {r})
      /\ Cardinality(Holders(u) \cup {r}) = Cardinality(Holders(u)) + 1
  BY <1>2, <1>3, FS_AddElement
<1>5. active'[u] = active[u] + 1
  OBVIOUS
<1>6. IsFiniteSet(Holders(u)') /\ active'[u] = Cardinality(Holders(u)') /\ active'[u] <= Limit
  BY <1>0, <1>2, <1>3, <1>4, <1>5
<1>7. ASSUME NEW v \in Users, v # u
      PROVE  IsFiniteSet(Holders(v)') /\ active'[v] = Cardinality(Holders(v)') /\ active'[v] <= Limit
  <2>1. \A q \in Requests : (dl'[q].user = v /\ dl'[q].slot) <=> (dl[q].user = v /\ dl[q].slot)
    <3>1. TAKE q \in Requests
    <3>2. CASE q = r
      BY <1>1, <1>7, <3>2, Zenon
    <3>3. CASE q # r
      BY <1>1, <3>3, Zenon
    <3>4. QED
      BY <3>2, <3>3
  <2>2. Holders(v)' = Holders(v)
    BY <2>1, Zenon DEF Holders
  <2>3. active'[v] = active[v]
    BY <1>7
  <2>4. QED
    BY <2>2, <2>3 DEF SlotsOK
<1>8. SlotsOK'
  BY <1>6, <1>7 DEF SlotsOK
<1>9. QED
  BY <1>8

\* Release gives back the slot of r, if it holds one.
LEMMA SlotReleased ==
  ASSUME SlotsOK, NEW r \in Requests, NEW d \in Download,
         dl \in [Requests -> Download], active \in [Users -> Nat],
         dl' = [dl EXCEPT ![r] = d], Release(r),
         dl[r].slot => dl[r].user \in Users, ~d.slot
  PROVE  SlotsOK' /\ active' \in [Users -> Nat]
<1>0. Limit \in Nat
  BY DownloadAssumption
<1>1. /\ \A q \in Requests : q # r => dl'[q] = dl[q]
      /\ dl'[r] = d
  OBVIOUS
<1>2. CASE ~dl[r].slot
  <2>1. active' = active
    BY <1>2 DEF Release
  <2>2. QED
    BY <1>2, <2>1, SlotsSame
<1>3. CASE dl[r].slot
  <2>0. PICK u \in Users : u = dl[r].user
    BY <1>3
  <2>1. active' = [active EXCEPT ![u] = active[u] - 1]
    BY <1>3, <2>0 DEF Release
  <2>2. Holders(u)' = Holders(u) \ {r} /\ r \in Holders(u)
    <3>1. \A q \in Requests : (dl'[q].user = u /\ dl'[q].slot) <=>
                                ((dl[q].user = u /\ dl[q].slot) /\ q # r)
      <4>1. TAKE q \in Requests
      <4>2. CASE q = r
        BY <1>1, <4>2, Zenon
      <4>3. CASE q # r
        BY <1>1, <4>3, Zenon
      <4>4. QED
        BY <4>2, <4>3
    <3>2. Holders(u)' = {q \in Requests : (dl[q].user = u /\ dl[q].slot) /\ q # r}
      BY <3>1, Zenon DEF Holders
    <3>3. {q \in Requests : (dl[q].user = u /\ dl[q].slot) /\ q # r}
            = {q \in Requests : dl[q].user = u /\ dl[q].slot} \ {r}
      OBVIOUS
    <3>4. QED
      BY <1>3, <2>0, <3>2, <3>3 DEF Holders
  <2>3. /\ IsFiniteSet(Holders(u)) /\ active[u] = Cardinality(Holders(u)) /\ active[u] \in Nat
        /\ active[u] <= Limit
    BY DEF SlotsOK
  <2>4. /\ IsFiniteSet(Holders(u) \ {r})
        /\ Cardinality(Holders(u) \ {r}) = Cardinality(Holders(u)) - 1
        /\ Cardinality(Holders(u) \ {r}) \in Nat
    BY <2>2, <2>3, FS_RemoveElement, FS_CardinalityType
  <2>5. active'[u] = active[u] - 1 /\ active[u] - 1 \in Nat
    BY <2>1, <2>3, <2>4
  <2>6. IsFiniteSet(Holders(u)') /\ active'[u] = Cardinality(Holders(u)') /\ active'[u] <= Limit
    BY <1>0, <2>2, <2>3, <2>4, <2>5
  <2>7. ASSUME NEW v \in Users, v # u
        PROVE  /\ IsFiniteSet(Holders(v)') /\ active'[v] = Cardinality(Holders(v)')
               /\ active'[v] <= Limit
    <3>1. \A q \in Requests : (dl'[q].user = v /\ dl'[q].slot) <=> (dl[q].user = v /\ dl[q].slot)
      <4>1. TAKE q \in Requests
      <4>2. CASE q = r
        BY <1>1, <2>0, <2>7, <4>2, Zenon
      <4>3. CASE q # r
        BY <1>1, <4>3, Zenon
      <4>4. QED
        BY <4>2, <4>3
    <3>2. Holders(v)' = Holders(v)
      BY <3>1, Zenon DEF Holders
    <3>3. active'[v] = active[v]
      BY <2>1, <2>7
    <3>4. QED
      BY <3>2, <3>3 DEF SlotsOK
  <2>8. SlotsOK'
    BY <2>6, <2>7 DEF SlotsOK
  <2>9. active' \in [Users -> Nat]
    BY <2>1, <2>5
  <2>10. QED
    BY <2>8, <2>9
<1>4. QED
  BY <1>2, <1>3

-----------------------------------------------------------------------------
(* The actions of a request.                                               *)

\* One request moves to d; the others keep what they are.
LEMMA RequestMoves ==
  ASSUME DownloadInv, NEW r \in Requests, NEW d \in Download, dl' = [dl EXCEPT ![r] = d],
         active' \in [Users -> Nat], SlotsOK',
         audit \subseteq audit', audit' \subseteq audit \cup {<<r, "allowed">>, <<r, "denied">>},
         PlaceOK(d), ReaderOK(d), SizesOK(d), RecordsOK(r, d, audit')
  PROVE  DownloadInv'
<1>1. dl \in [Requests -> Download] /\ audit \subseteq Requests \X {"allowed", "denied"}
  BY DEF DownloadInv, DownloadTypeOK
<1>2. dl' \in [Requests -> Download] /\ audit' \subseteq Requests \X {"allowed", "denied"}
  BY <1>1
<1>3. DownloadTypeOK'
  BY <1>2 DEF DownloadTypeOK
<1>4. ASSUME NEW q \in Requests
      PROVE  /\ PlaceOK(dl'[q]) /\ ReaderOK(dl'[q]) /\ SizesOK(dl'[q])
             /\ RecordsOK(q, dl'[q], audit')
  <2>1. CASE q = r
    <3>1. dl'[q] = d
      BY <1>1, <2>1
    <3>2. QED
      BY <2>1, <3>1
  <2>2. CASE q # r
    <3>1. dl'[q] = dl[q]
      BY <1>1, <2>2
    <3>2. /\ PlaceOK(dl[q]) /\ ReaderOK(dl[q]) /\ SizesOK(dl[q]) /\ RecordsOK(q, dl[q], audit)
      BY DEF DownloadInv
    <3>3. <<q, "denied">> \in audit' => <<q, "denied">> \in audit
      BY <2>2
    <3>4. RecordsOK(q, dl[q], audit')
      BY <3>2, <3>3 DEF RecordsOK
    <3>5. QED
      BY <3>1, <3>2, <3>4
  <2>3. QED
    BY <2>1, <2>2
<1>5. QED
  BY <1>3, <1>4 DEF DownloadInv

\* What the invariant says of one request.
LEMMA RequestFacts ==
  ASSUME DownloadInv, NEW r \in Requests
  PROVE  /\ dl \in [Requests -> Download] /\ dl[r] \in Download /\ active \in [Users -> Nat]
         /\ PlaceOK(dl[r]) /\ ReaderOK(dl[r]) /\ SizesOK(dl[r]) /\ RecordsOK(r, dl[r], audit)
         /\ SlotsOK
BY DEF DownloadInv, DownloadTypeOK

\* A step that keeps the slots and writes no record.
LEMMA QuietMove ==
  ASSUME DownloadInv, NEW r \in Requests, NEW d \in Download, dl' = [dl EXCEPT ![r] = d],
         UNCHANGED <<active, audit>>, d.slot => dl[r].slot, dl[r].slot => d.slot,
         d.slot => d.user = dl[r].user,
         PlaceOK(d), ReaderOK(d), SizesOK(d), RecordsOK(r, d, audit)
  PROVE  DownloadInv'
<1>1. /\ dl \in [Requests -> Download] /\ active \in [Users -> Nat] /\ SlotsOK
  BY RequestFacts
<1>2. SlotsOK'
  BY <1>1, SlotsSame
<1>3. /\ active' \in [Users -> Nat] /\ audit \subseteq audit' /\ RecordsOK(r, d, audit')
      /\ audit' \subseteq audit \cup {<<r, "allowed">>, <<r, "denied">>}
  BY <1>1
<1>4. QED
  BY <1>2, <1>3, RequestMoves

LEMMA ArriveInv ==
  ASSUME DownloadInv, NEW r \in Requests, NEW u \in Users, NEW op \in Ops, Arrive(r, u, op)
  PROVE  DownloadInv'
<1>0. 0 \in Sizes /\ 0 \in 0..MaxBytes /\ MaxBytes \in Nat /\ MaxSize \in Nat
  BY DownloadAssumption DEF Sizes
<1>1. PICK valid \in BOOLEAN :
        dl' = [dl EXCEPT ![r] = [NoDownload EXCEPT !.op = op, !.user = u,
                 !.pc = IF ~valid THEN "end" ELSE IF op = "list" THEN "approval" ELSE "slot",
                 !.outcome = IF valid THEN "none" ELSE "problem"]]
  BY DEF Arrive
<1>2. NoReader \in Reader
  BY <1>0 DEF NoReader, Reader, Errors
<1>3. NoDownload \in Download
  BY <1>0, <1>2 DEF NoDownload, Download, Ops
<1>4. PICK d \in Download :
        d = [NoDownload EXCEPT !.op = op, !.user = u,
               !.pc = IF ~valid THEN "end" ELSE IF op = "list" THEN "approval" ELSE "slot",
               !.outcome = IF valid THEN "none" ELSE "problem"]
  BY <1>3 DEF Download, Working
<1>5. /\ d.op = op /\ d.user = u /\ d.sent = 0 /\ ~d.slot /\ d.body = "none" /\ d.whole = 0
      /\ d.header = Unknown
      /\ \/ d.pc = "end" /\ d.outcome = "problem"
         \/ d.pc = "approval" /\ d.outcome = "none" /\ d.op = "list"
         \/ d.pc = "slot" /\ d.outcome = "none" /\ d.op = "download"
  BY <1>4 DEF NoDownload, Ops
<1>6. /\ dl[r].pc = "idle" /\ PlaceOK(dl[r]) /\ RecordsOK(r, dl[r], audit)
      /\ UNCHANGED <<active, audit>>
  BY RequestFacts DEF Arrive
<1>7. ~dl[r].slot
  BY <1>6 DEF PlaceOK
<1>8. PlaceOK(d) /\ ReaderOK(d) /\ SizesOK(d) /\ RecordsOK(r, d, audit)
  BY <1>0, <1>5, <1>6 DEF PlaceOK, ReaderOK, SizesOK, RecordsOK
<1>9. QED
  BY <1>1, <1>4, <1>5, <1>6, <1>7, <1>8, QuietMove

\* Going to another place without a slot, a body or a byte of one's own.
LEMMA GotoInv ==
  ASSUME DownloadInv, NEW r \in Requests, NEW pc \in Working, Goto(r, pc),
         UNCHANGED <<active, audit>>,
         dl[r].pc \notin {"idle", "stream", "close", "end"},
         \/ pc = "deny" /\ dl[r].body # "open"
         \/ pc = "allow" /\ dl[r].op = "list"
  PROVE  DownloadInv'
<1>1. /\ dl[r] \in Download /\ PlaceOK(dl[r]) /\ SizesOK(dl[r]) /\ RecordsOK(r, dl[r], audit)
  BY RequestFacts
<1>2. PICK d \in Download : d = [dl[r] EXCEPT !.pc = pc]
  BY <1>1 DEF Download
<1>3. /\ d.pc = pc /\ d.op = dl[r].op /\ d.user = dl[r].user /\ d.slot = dl[r].slot
      /\ d.body = dl[r].body /\ d.sent = dl[r].sent /\ d.whole = dl[r].whole
      /\ d.header = dl[r].header /\ d.outcome = dl[r].outcome
  BY <1>1, <1>2 DEF Download
<1>4. PlaceOK(d)
  BY <1>1, <1>3 DEF PlaceOK
<1>5. ReaderOK(d) /\ SizesOK(d)
  BY <1>1, <1>3 DEF ReaderOK, SizesOK, PlaceOK
<1>6. RecordsOK(r, d, audit)
  BY <1>1, <1>3 DEF RecordsOK, PlaceOK
<1>7. dl' = [dl EXCEPT ![r] = d]
  BY <1>2 DEF Goto
<1>8. QED
  BY <1>3, <1>4, <1>5, <1>6, <1>7, QuietMove

LEMMA AcquireInv ==
  ASSUME DownloadInv, NEW r \in Requests, Acquire(r)
  PROVE  DownloadInv'
<1>1. /\ dl[r] \in Download /\ PlaceOK(dl[r]) /\ SizesOK(dl[r]) /\ RecordsOK(r, dl[r], audit)
      /\ dl \in [Requests -> Download] /\ active \in [Users -> Nat] /\ SlotsOK
      /\ dl[r].pc = "slot" /\ UNCHANGED audit
  BY RequestFacts DEF Acquire
<1>2. CASE /\ active[dl[r].user] < Limit
           /\ active' = [active EXCEPT ![dl[r].user] = active[dl[r].user] + 1]
           /\ dl' = [dl EXCEPT ![r] = [dl[r] EXCEPT !.pc = "approval", !.slot = TRUE]]
  <2>1. PICK u \in Users : u = dl[r].user
    BY <1>1 DEF PlaceOK
  <2>2. PICK d \in Download : d = [dl[r] EXCEPT !.pc = "approval", !.slot = TRUE]
    BY <1>1 DEF Download, Working
  <2>3. /\ d.pc = "approval" /\ d.op = dl[r].op /\ d.user = u /\ d.slot
        /\ d.body = dl[r].body /\ d.sent = dl[r].sent /\ d.whole = dl[r].whole
        /\ d.header = dl[r].header /\ d.outcome = dl[r].outcome
    BY <1>1, <2>1, <2>2 DEF Download
  <2>4. ~dl[r].slot
    BY <1>1 DEF PlaceOK
  <2>5. SlotsOK' /\ active' \in [Users -> Nat]
    BY <1>1, <1>2, <2>1, <2>2, <2>3, <2>4, SlotTaken
  <2>6. PlaceOK(d) /\ ReaderOK(d) /\ SizesOK(d)
    BY <1>1, <2>1, <2>3 DEF PlaceOK, ReaderOK, SizesOK
  <2>7. RecordsOK(r, d, audit)
    BY <1>1, <2>3 DEF PlaceOK, RecordsOK
  <2>8. audit \subseteq audit' /\ audit' \subseteq audit \cup {<<r, "allowed">>, <<r, "denied">>}
        /\ RecordsOK(r, d, audit')
    BY <1>1, <2>7
  <2>9. QED
    BY <1>2, <2>2, <2>5, <2>6, <2>8, RequestMoves
<1>3. CASE Goto(r, "deny") /\ UNCHANGED active
  <2>1. dl[r].body # "open"
    BY <1>1 DEF PlaceOK
  <2>2. QED
    BY <1>1, <1>3, <2>1, GotoInv DEF Working
<1>4. QED
  BY <1>2, <1>3 DEF Acquire

LEMMA ApprovalInv ==
  ASSUME DownloadInv, NEW r \in Requests, Approval(r)
  PROVE  DownloadInv'
<1>1. /\ dl[r] \in Download /\ PlaceOK(dl[r]) /\ SizesOK(dl[r]) /\ RecordsOK(r, dl[r], audit)
      /\ dl[r].pc = "approval" /\ UNCHANGED <<active, audit>>
  BY RequestFacts DEF Approval
<1>2. CASE Goto(r, "deny")
  <2>1. dl[r].body # "open"
    BY <1>1 DEF PlaceOK
  <2>2. QED
    BY <1>1, <1>2, <2>1, GotoInv DEF Working
<1>3. CASE dl[r].op = "list" /\ Goto(r, "allow")
  BY <1>1, <1>3, GotoInv DEF Working
<1>4. ASSUME NEW size \in Sizes, dl[r].op # "list",
             dl' = [dl EXCEPT ![r] = [dl[r] EXCEPT !.pc = "open", !.size = size]]
      PROVE  DownloadInv'
  <2>1. PICK d \in Download : d = [dl[r] EXCEPT !.pc = "open", !.size = size]
    BY <1>1 DEF Download, Working
  <2>2. /\ d.pc = "open" /\ d.op = dl[r].op /\ d.user = dl[r].user /\ d.slot = dl[r].slot
        /\ d.body = dl[r].body /\ d.sent = dl[r].sent /\ d.whole = dl[r].whole
        /\ d.header = dl[r].header /\ d.outcome = dl[r].outcome
    BY <1>1, <2>1 DEF Download
  <2>3. dl[r].op = "download"
    BY <1>1, <1>4 DEF Download, Ops
  <2>4. PlaceOK(d) /\ ReaderOK(d) /\ SizesOK(d)
    BY <1>1, <2>2, <2>3 DEF PlaceOK, ReaderOK, SizesOK
  <2>5. RecordsOK(r, d, audit)
    BY <1>1, <2>2 DEF PlaceOK, RecordsOK
  <2>6. QED
    BY <1>1, <1>4, <2>1, <2>2, <2>4, <2>5, QuietMove
<1>5. QED
  BY <1>2, <1>3, <1>4 DEF Approval

LEMMA OpenInv ==
  ASSUME DownloadInv, NEW r \in Requests, Open(r)
  PROVE  DownloadInv'
<1>0. MaxBytes \in Nat /\ MaxSize \in Nat
  BY DownloadAssumption
<1>1. /\ dl[r] \in Download /\ PlaceOK(dl[r]) /\ SizesOK(dl[r]) /\ RecordsOK(r, dl[r], audit)
      /\ dl[r].pc = "open" /\ UNCHANGED <<active, audit>>
  BY RequestFacts DEF Open
<1>2. CASE Goto(r, "deny")
  <2>1. dl[r].body # "open"
    BY <1>1 DEF PlaceOK
  <2>2. QED
    BY <1>1, <1>2, <2>1, GotoInv DEF Working
<1>3. ASSUME NEW whole \in Sizes, NEW length \in {Unknown, whole}, length <= MaxBytes,
             dl' = [dl EXCEPT ![r] = [dl[r] EXCEPT
                      !.pc = "size", !.body = "open", !.whole = whole, !.header = length,
                      !.reader = [left |-> whole, limit |-> MaxBytes,
                                  expected |-> dl[r].size, terminal |-> "none"]]]
      PROVE  DownloadInv'
  <2>1. [left |-> whole, limit |-> MaxBytes, expected |-> dl[r].size, terminal |-> "none"] \in Reader
    BY <1>0, <1>1 DEF Reader, Errors, Download
  <2>2. PICK d \in Download :
          d = [dl[r] EXCEPT !.pc = "size", !.body = "open", !.whole = whole, !.header = length,
                 !.reader = [left |-> whole, limit |-> MaxBytes,
                             expected |-> dl[r].size, terminal |-> "none"]]
    BY <1>1, <2>1 DEF Download, Working
  <2>3. /\ d.pc = "size" /\ d.op = dl[r].op /\ d.user = dl[r].user /\ d.slot = dl[r].slot
        /\ d.body = "open" /\ d.sent = dl[r].sent /\ d.whole = whole /\ d.size = dl[r].size
        /\ d.header = length /\ d.outcome = dl[r].outcome
        /\ d.reader.left = whole /\ d.reader.limit = MaxBytes /\ d.reader.expected = d.size
        /\ d.reader.terminal = "none"
    BY <1>1, <2>2 DEF Download
  <2>4. dl[r].op = "download" /\ dl[r].slot /\ dl[r].outcome = "none"
    BY <1>1 DEF PlaceOK
  <2>5. d.sent = 0 /\ d.whole \in Nat /\ d.size \in Nat
    <3>1. ~(dl[r].sent > 0)
      BY <1>1, <2>4 DEF PlaceOK
    <3>2. dl[r].sent \in Nat /\ dl[r].size \in Nat /\ whole \in Nat
      BY <1>0, <1>1 DEF Download, Sizes
    <3>3. QED
      BY <2>3, <3>1, <3>2
  <2>6. PlaceOK(d)
    BY <1>1, <2>3, <2>4, <2>5 DEF PlaceOK
  <2>7. ReaderOK(d) /\ SizesOK(d)
    BY <1>0, <2>3, <2>4, <2>5 DEF ReaderOK, SizesOK
  <2>8. RecordsOK(r, d, audit)
    BY <1>1, <2>3, <2>4, <2>5 DEF RecordsOK
  <2>9. QED
    BY <1>1, <1>3, <2>2, <2>3, <2>6, <2>7, <2>8, QuietMove
<1>4. QED
  BY <1>2, <1>3 DEF Open

LEMMA CheckSizeInv ==
  ASSUME DownloadInv, NEW r \in Requests, CheckSize(r)
  PROVE  DownloadInv'
<1>0. MaxBytes \in Nat /\ MaxSize \in Nat
  BY DownloadAssumption
<1>1. /\ dl[r] \in Download /\ PlaceOK(dl[r]) /\ SizesOK(dl[r]) /\ RecordsOK(r, dl[r], audit)
      /\ dl[r].pc = "size" /\ UNCHANGED <<active, audit>> /\ ReaderOK(dl[r])
  BY RequestFacts DEF CheckSize
<1>2. dl[r].op = "download" /\ dl[r].slot /\ dl[r].outcome = "none" /\ dl[r].sent = 0
  <2>1. dl[r].sent \in Nat
    BY <1>0, <1>1 DEF Download, Sizes
  <2>2. QED
    BY <1>1, <2>1 DEF PlaceOK
<1>3. /\ dl[r].size \in Nat /\ dl[r].size \in Sizes /\ dl[r].whole \in Nat
      /\ dl[r].header \in {Unknown} \cup Sizes
  BY <1>0, <1>1 DEF Download, Sizes
<1>4. CASE SizeAgrees(dl[r])
  <2>1. dl' = [dl EXCEPT ![r] = [dl[r] EXCEPT !.pc = "allow",
                 !.header = IF dl[r].size > 0 THEN dl[r].size ELSE dl[r].header]]
    BY <1>4 DEF CheckSize
  <2>2. PICK d \in Download :
          d = [dl[r] EXCEPT !.pc = "allow",
                 !.header = IF dl[r].size > 0 THEN dl[r].size ELSE dl[r].header]
    BY <1>1, <1>3 DEF Download, Working
  <2>3. /\ d.pc = "allow" /\ d.op = dl[r].op /\ d.user = dl[r].user /\ d.slot = dl[r].slot
        /\ d.body = dl[r].body /\ d.sent = dl[r].sent /\ d.whole = dl[r].whole
        /\ d.size = dl[r].size /\ d.reader = dl[r].reader /\ d.outcome = dl[r].outcome
        /\ d.header = IF dl[r].size > 0 THEN dl[r].size ELSE dl[r].header
    BY <1>1, <2>2 DEF Download
  <2>4. PlaceOK(d)
    BY <1>1, <1>2, <2>3 DEF PlaceOK
  <2>5. ReaderOK(d)
    BY <1>1, <2>3 DEF ReaderOK
  <2>6. SizesOK(d)
    BY <1>0, <1>1, <1>2, <1>3, <2>3 DEF SizesOK
  <2>7. RecordsOK(r, d, audit)
    BY <1>1, <1>2, <2>3 DEF RecordsOK
  <2>8. QED
    BY <1>1, <2>1, <2>2, <2>3, <2>4, <2>5, <2>6, <2>7, QuietMove
<1>5. CASE ~SizeAgrees(dl[r])
  <2>1. dl' = [dl EXCEPT ![r] = [dl[r] EXCEPT !.pc = "deny", !.body = "closed", !.reader = NoReader]]
    BY <1>5 DEF CheckSize
  <2>0. NoReader \in Reader
    BY <1>0 DEF NoReader, Reader, Sizes, Errors
  <2>2. PICK d \in Download :
          d = [dl[r] EXCEPT !.pc = "deny", !.body = "closed", !.reader = NoReader]
    BY <1>1, <2>0 DEF Download, Working
  <2>3. /\ d.pc = "deny" /\ d.op = dl[r].op /\ d.user = dl[r].user /\ d.slot = dl[r].slot
        /\ d.body = "closed" /\ d.sent = dl[r].sent /\ d.whole = dl[r].whole
        /\ d.header = dl[r].header /\ d.outcome = dl[r].outcome
    BY <1>1, <2>2 DEF Download
  <2>4. PlaceOK(d) /\ ReaderOK(d) /\ SizesOK(d)
    BY <1>0, <1>1, <1>2, <1>3, <2>3 DEF PlaceOK, ReaderOK, SizesOK
  <2>5. RecordsOK(r, d, audit)
    BY <1>1, <1>2, <2>3 DEF RecordsOK
  <2>6. QED
    BY <1>1, <2>1, <2>2, <2>3, <2>4, <2>5, QuietMove
<1>6. QED
  BY <1>4, <1>5

\* A refusal at the end of a request, recorded or not.
LEMMA RefusedInv ==
  ASSUME DownloadInv, NEW r \in Requests, NEW d \in Download, dl' = [dl EXCEPT ![r] = d],
         dl[r].pc \in {"allow", "deny"}, Release(r),
         audit \subseteq audit', audit' \subseteq audit \cup {<<r, "allowed">>, <<r, "denied">>},
         d.pc = "end", d.outcome = "problem", ~d.slot, d.body # "open",
         d.user = dl[r].user, d.sent = dl[r].sent, d.header = dl[r].header, d.whole = dl[r].whole
  PROVE  DownloadInv'
<1>0. MaxBytes \in Nat /\ MaxSize \in Nat
  BY DownloadAssumption
<1>1. /\ dl[r] \in Download /\ PlaceOK(dl[r]) /\ SizesOK(dl[r])
      /\ dl \in [Requests -> Download] /\ active \in [Users -> Nat] /\ SlotsOK
  BY RequestFacts
<1>2. dl[r].user \in Users /\ dl[r].sent = 0
  <2>1. dl[r].sent \in Nat
    BY <1>0, <1>1 DEF Download, Sizes
  <2>2. QED
    BY <1>1, <2>1 DEF PlaceOK
<1>3. SlotsOK' /\ active' \in [Users -> Nat]
  BY <1>1, <1>2, SlotReleased
<1>4. PlaceOK(d) /\ ReaderOK(d)
  BY <1>2 DEF PlaceOK, ReaderOK
<1>5. SizesOK(d)
  BY <1>1 DEF SizesOK
<1>6. RecordsOK(r, d, audit')
  BY <1>2 DEF RecordsOK
<1>7. QED
  BY <1>3, <1>4, <1>5, <1>6, RequestMoves

LEMMA DenyInv ==
  ASSUME DownloadInv, NEW r \in Requests, Deny(r)
  PROVE  DownloadInv'
<1>1. /\ dl[r] \in Download /\ PlaceOK(dl[r]) /\ dl[r].pc = "deny" /\ Release(r)
      /\ dl' = [dl EXCEPT ![r] = [dl[r] EXCEPT !.pc = "end", !.slot = FALSE, !.outcome = "problem"]]
  BY RequestFacts DEF Deny
<1>2. PICK d \in Download : d = [dl[r] EXCEPT !.pc = "end", !.slot = FALSE, !.outcome = "problem"]
  BY <1>1 DEF Download
<1>3. /\ d.pc = "end" /\ d.user = dl[r].user /\ ~d.slot /\ d.body = dl[r].body
      /\ d.sent = dl[r].sent /\ d.whole = dl[r].whole /\ d.header = dl[r].header
      /\ d.outcome = "problem"
  BY <1>1, <1>2 DEF Download
<1>4. d.body # "open"
  BY <1>1, <1>3 DEF PlaceOK
<1>5. audit \subseteq audit' /\ audit' \subseteq audit \cup {<<r, "allowed">>, <<r, "denied">>}
  BY DEF Deny, AuditFails, Audited
<1>6. QED
  BY <1>1, <1>2, <1>3, <1>4, <1>5, RefusedInv

LEMMA AllowInv ==
  ASSUME DownloadInv, NEW r \in Requests, Allow(r)
  PROVE  DownloadInv'
<1>1. /\ dl[r] \in Download /\ PlaceOK(dl[r]) /\ SizesOK(dl[r]) /\ RecordsOK(r, dl[r], audit)
      /\ dl[r].pc = "allow" /\ ReaderOK(dl[r]) /\ SlotsOK
      /\ dl \in [Requests -> Download] /\ active \in [Users -> Nat]
  BY RequestFacts DEF Allow
<1>2. audit \subseteq audit' /\ audit' \subseteq audit \cup {<<r, "allowed">>, <<r, "denied">>}
  BY DEF Allow, AuditFails, Audited
<1>3. <<r, "denied">> \notin audit /\ (<<r, "denied">> \in audit' => <<r, "denied">> \in audit)
  BY <1>1 DEF RecordsOK, Allow, AuditFails, Audited
<1>4. CASE /\ Audited(r, "allowed") /\ dl[r].op = "list" /\ UNCHANGED active
           /\ dl' = [dl EXCEPT ![r] = [dl[r] EXCEPT !.pc = "end", !.outcome = "ok"]]
  <2>1. PICK d \in Download : d = [dl[r] EXCEPT !.pc = "end", !.outcome = "ok"]
    BY <1>1 DEF Download
  <2>2. /\ d.pc = "end" /\ d.op = "list" /\ d.user = dl[r].user /\ d.slot = dl[r].slot
        /\ d.body = dl[r].body /\ d.sent = dl[r].sent /\ d.whole = dl[r].whole
        /\ d.header = dl[r].header /\ d.outcome = "ok"
    BY <1>1, <1>4, <2>1 DEF Download
  <2>3. PlaceOK(d)
    BY <1>1, <1>4, <2>2 DEF PlaceOK
  <2>4. ReaderOK(d) /\ SizesOK(d)
    BY <1>1, <2>2 DEF ReaderOK, SizesOK
  <2>5. RecordsOK(r, d, audit')
    BY <1>3, <1>4 DEF RecordsOK, Audited
  <2>6. SlotsOK'
    BY <1>1, <1>4, <2>1, <2>2, SlotsSame
  <2>7. active' \in [Users -> Nat]
    BY <1>1, <1>4
  <2>8. QED
    BY <1>2, <1>4, <2>1, <2>3, <2>4, <2>5, <2>6, <2>7, RequestMoves
<1>5. CASE Audited(r, "allowed") /\ dl[r].op # "list" /\ UNCHANGED active /\ Goto(r, "stream")
  <2>1. PICK d \in Download : d = [dl[r] EXCEPT !.pc = "stream"]
    BY <1>1 DEF Download, Working
  <2>2. /\ d.pc = "stream" /\ d.op = dl[r].op /\ d.user = dl[r].user /\ d.slot = dl[r].slot
        /\ d.body = dl[r].body /\ d.sent = dl[r].sent /\ d.whole = dl[r].whole
        /\ d.header = dl[r].header /\ d.outcome = dl[r].outcome /\ d.size = dl[r].size
        /\ d.reader = dl[r].reader
    BY <1>1, <2>1 DEF Download
  <2>3. dl[r].op = "download"
    BY <1>1, <1>5 DEF Download, Ops
  <2>4. PlaceOK(d)
    BY <1>1, <2>2, <2>3 DEF PlaceOK
  <2>5. ReaderOK(d) /\ SizesOK(d)
    BY <1>1, <2>2, <2>3 DEF ReaderOK, SizesOK
  <2>6. RecordsOK(r, d, audit')
    BY <1>3, <1>5 DEF RecordsOK, Audited
  <2>7. dl' = [dl EXCEPT ![r] = d] /\ active' = active
    BY <1>5, <2>1 DEF Goto
  <2>8. SlotsOK' /\ active' \in [Users -> Nat]
    BY <1>1, <2>2, <2>7, SlotsSame
  <2>9. QED
    BY <1>2, <2>4, <2>5, <2>6, <2>7, <2>8, RequestMoves
<1>6. CASE /\ Release(r)
           /\ dl' = [dl EXCEPT ![r] = [dl[r] EXCEPT !.pc = "end", !.slot = FALSE,
                       !.outcome = "problem", !.reader = NoReader,
                       !.body = IF dl[r].body = "open" THEN "closed" ELSE dl[r].body]]
  <2>1. NoReader \in Reader
    BY DownloadAssumption DEF NoReader, Reader, Sizes, Errors
  <2>0. PICK body \in {"none", "closed"} :
          body = IF dl[r].body = "open" THEN "closed" ELSE dl[r].body
    BY <1>1 DEF Download
  <2>2. PICK d \in Download :
          d = [dl[r] EXCEPT !.pc = "end", !.slot = FALSE, !.outcome = "problem",
                 !.reader = NoReader, !.body = body]
    BY <1>1, <2>1 DEF Download
  <2>3. /\ d.pc = "end" /\ d.user = dl[r].user /\ ~d.slot /\ d.body # "open"
        /\ d.sent = dl[r].sent /\ d.whole = dl[r].whole /\ d.header = dl[r].header
        /\ d.outcome = "problem"
    BY <1>1, <2>2 DEF Download
  <2>4. dl' = [dl EXCEPT ![r] = d]
    BY <1>6, <2>0, <2>2
  <2>5. QED
    BY <1>1, <1>2, <1>6, <2>3, <2>4, RefusedInv
<1>7. QED
  BY <1>1, <1>4, <1>5, <1>6 DEF Allow

LEMMA CloseInv ==
  ASSUME DownloadInv, NEW r \in Requests, Close(r)
  PROVE  DownloadInv'
<1>1. /\ dl[r] \in Download /\ PlaceOK(dl[r]) /\ SizesOK(dl[r]) /\ RecordsOK(r, dl[r], audit)
      /\ dl[r].pc = "close" /\ SlotsOK /\ dl \in [Requests -> Download]
      /\ active \in [Users -> Nat] /\ Release(r) /\ UNCHANGED audit
      /\ dl' = [dl EXCEPT ![r] = [dl[r] EXCEPT !.pc = "end", !.body = "closed", !.slot = FALSE,
                                                !.reader = NoReader]]
  BY RequestFacts DEF Close
<1>2. NoReader \in Reader
  BY DownloadAssumption DEF NoReader, Reader, Sizes, Errors
<1>3. PICK d \in Download : d = [dl[r] EXCEPT !.pc = "end", !.body = "closed", !.slot = FALSE,
                                              !.reader = NoReader]
  BY <1>1, <1>2 DEF Download
<1>4. /\ d.pc = "end" /\ d.op = dl[r].op /\ d.user = dl[r].user /\ ~d.slot
      /\ d.body = "closed" /\ d.sent = dl[r].sent /\ d.whole = dl[r].whole
      /\ d.header = dl[r].header /\ d.outcome = dl[r].outcome /\ d.size = dl[r].size
  BY <1>1, <1>3 DEF Download
<1>5. SlotsOK' /\ active' \in [Users -> Nat]
  <2>1. dl[r].user \in Users
    BY <1>1 DEF PlaceOK
  <2>2. QED
    BY <1>1, <1>3, <1>4, <2>1, SlotReleased
<1>6. PlaceOK(d)
  BY <1>1, <1>4 DEF PlaceOK
<1>7. ReaderOK(d) /\ SizesOK(d)
  BY <1>1, <1>4 DEF ReaderOK, SizesOK
<1>8. RecordsOK(r, d, audit)
  BY <1>1, <1>4 DEF RecordsOK
<1>9. audit \subseteq audit' /\ audit' \subseteq audit \cup {<<r, "allowed">>, <<r, "denied">>}
      /\ RecordsOK(r, d, audit')
  BY <1>1, <1>8
<1>10. QED
  BY <1>1, <1>3, <1>5, <1>6, <1>7, <1>9, RequestMoves

\* A round of the copy loop: it goes on, ends with the body, or is given up.
LEMMA ReadInv ==
  ASSUME DownloadInv, NEW r \in Requests, dl[r].pc = "stream", NEW v \in BodyRead(r),
         NEW k \in 0..v.n, NEW pc, NEW outcome, UNCHANGED audit, ReleaseAfter(r, v),
         dl' = [dl EXCEPT ![r] = [AfterRead(dl[r], v, k) EXCEPT !.pc = pc, !.outcome = outcome]],
         \/ v.err = "none" /\ k = v.n /\ pc = "stream" /\ outcome = "none"
         \/ v.err = "eof" /\ pc = "close" /\ outcome = "ok"
         \/ pc = "close" /\ outcome = "aborted"
  PROVE  DownloadInv'
<1>0. MaxBytes \in Nat /\ MaxSize \in Nat
  BY DownloadAssumption
<1>1. /\ dl[r] \in Download /\ PlaceOK(dl[r]) /\ SizesOK(dl[r]) /\ RecordsOK(r, dl[r], audit)
      /\ SlotsOK /\ dl \in [Requests -> Download] /\ active \in [Users -> Nat] /\ ReaderOK(dl[r])
  BY RequestFacts
<1>2. ReadFacts(dl[r], v)
  BY <1>1, BodyResult
<1>3. /\ dl[r].op = "download" /\ dl[r].slot /\ dl[r].user \in Users
      /\ dl[r].reader.left + dl[r].sent = dl[r].whole
      /\ dl[r].reader.limit + dl[r].sent = MaxBytes
      /\ dl[r].size > 0 => dl[r].reader.expected + dl[r].sent = dl[r].size
  BY <1>1 DEF PlaceOK, ReaderOK
<1>4. /\ dl[r].sent \in Nat /\ dl[r].whole \in Nat /\ dl[r].whole <= MaxSize /\ dl[r].size \in Nat
      /\ dl[r].reader.left \in Nat /\ dl[r].reader.limit \in Nat /\ dl[r].reader.expected \in Nat
      /\ dl[r].header \in {Unknown} \cup Sizes
  BY <1>0, <1>1 DEF Download, Reader, Sizes
<1>5. v.n \in Nat /\ v.n <= dl[r].reader.left /\ v.n <= dl[r].reader.limit /\ k \in Nat /\ k <= v.n
  BY <1>2 DEF ReadFacts
<1>6. PICK reader \in Reader : reader = IF v.err = "none" THEN v.next ELSE NoReader
  <2>1. NoReader \in Reader
    BY <1>0 DEF NoReader, Reader, Sizes, Errors
  <2>2. QED
    BY <1>2, <2>1 DEF ReadFacts
<1>7. PICK body \in {"none", "open", "closed"} :
        body = IF v.next.terminal # "none" THEN "closed" ELSE dl[r].body
  BY <1>1 DEF Download
<1>8. PICK sent \in Sizes : sent = dl[r].sent + k
  BY <1>0, <1>3, <1>4, <1>5 DEF Sizes
<1>9. PICK slot \in BOOLEAN : slot = (v.err = "none")
  OBVIOUS
<1>10. PICK d \in Download :
         d = [dl[r] EXCEPT !.reader = reader, !.sent = sent, !.body = body, !.slot = slot,
                           !.pc = pc, !.outcome = outcome]
  BY <1>1 DEF Download, Working
<1>11. [AfterRead(dl[r], v, k) EXCEPT !.pc = pc, !.outcome = outcome] = d
  BY <1>6, <1>7, <1>8, <1>9, <1>10 DEF AfterRead
<1>12. dl' = [dl EXCEPT ![r] = d]
  BY <1>11
<1>13. /\ d.pc = pc /\ d.op = "download" /\ d.user = dl[r].user /\ d.slot = slot
       /\ d.body = body /\ d.sent = sent /\ d.whole = dl[r].whole /\ d.reader = reader
       /\ d.header = dl[r].header /\ d.outcome = outcome /\ d.size = dl[r].size
  BY <1>1, <1>3, <1>10 DEF Download
<1>14. SlotsOK' /\ active' \in [Users -> Nat]
  <2>1. CASE v.err = "none"
    <3>1. active' = active /\ d.slot
      BY <1>9, <1>13, <2>1 DEF ReleaseAfter
    <3>2. QED
      BY <1>1, <1>3, <1>12, <1>13, <3>1, SlotsSame
  <2>2. CASE v.err # "none"
    <3>1. Release(r) /\ ~d.slot
      BY <1>9, <1>13, <2>2 DEF ReleaseAfter
    <3>2. QED
      BY <1>1, <1>3, <1>12, <3>1, SlotReleased
  <2>3. QED
    BY <2>1, <2>2
<1>15. PlaceOK(d)
  <2>1. d.user \in Users /\ d.op = "download" /\ d.pc \in {"stream", "close"}
    BY <1>3, <1>13
  <2>2. d.pc = "stream" => d.slot
    BY <1>9, <1>13
  <2>3. d.pc = "stream" => d.outcome = "none"
    BY <1>13
  <2>4. d.pc = "close" => d.outcome \in {"ok", "aborted"}
    BY <1>13
  <2>5. QED
    BY <2>1, <2>2, <2>3, <2>4 DEF PlaceOK
<1>16. ReaderOK(d)
  <2>1. CASE pc = "stream"
    <3>1. v.err = "none" /\ k = v.n /\ reader = v.next
      BY <1>6, <2>1
    <3>2. /\ reader.left = dl[r].reader.left - v.n /\ reader.limit = dl[r].reader.limit - v.n
          /\ d.size > 0 => reader.expected = dl[r].reader.expected - v.n
          /\ reader.terminal \in {"none", "eof"} /\ (reader.terminal = "eof" => reader.left = 0)
      BY <1>2, <1>13, <3>1 DEF ReadFacts
    <3>3. /\ reader.left + sent = dl[r].whole /\ reader.limit + sent = MaxBytes
          /\ d.size > 0 => reader.expected + sent = d.size
      BY <1>0, <1>3, <1>4, <1>5, <1>8, <1>13, <3>1, <3>2
    <3>4. QED
      BY <1>13, <3>2, <3>3 DEF ReaderOK
  <2>2. CASE pc # "stream"
    BY <1>13, <2>2 DEF ReaderOK
  <2>3. QED
    BY <2>1, <2>2
<1>17. SizesOK(d)
  <2>1. IF d.size > 0 THEN d.header = d.size ELSE d.header \in {Unknown, d.whole}
    BY <1>1, <1>3, <1>13 DEF SizesOK
  <2>2. sent <= MaxBytes /\ sent <= dl[r].whole
    BY <1>0, <1>3, <1>4, <1>5, <1>8
  <2>3. d.size > 0 => sent <= d.size
    <3>1. d.size > 0 => v.n <= dl[r].reader.expected
      BY <1>2, <1>13 DEF ReadFacts
    <3>2. QED
      BY <1>3, <1>4, <1>5, <1>8, <1>13, <3>1
  <2>4. d.header # Unknown => d.sent <= d.header
    BY <1>4, <1>13, <2>1, <2>2, <2>3
  <2>5. d.outcome = "ok" => d.sent = d.whole /\ (d.size > 0 => d.sent = d.size)
    <3>1. ASSUME d.outcome = "ok" PROVE v.err = "eof"
      BY <1>13, <3>1
    <3>2. v.err = "eof" => /\ v.n = 0 /\ dl[r].reader.left = 0
                           /\ dl[r].size > 0 => dl[r].reader.expected = 0
      BY <1>2 DEF ReadFacts
    <3>3. QED
      BY <1>3, <1>4, <1>5, <1>8, <1>13, <3>1, <3>2
  <2>6. d.pc # "size"
    BY <1>13
  <2>7. QED
    BY <1>13, <2>1, <2>2, <2>4, <2>5, <2>6 DEF SizesOK
<1>18. RecordsOK(r, d, audit)
  BY <1>1 DEF RecordsOK
<1>19. audit \subseteq audit' /\ audit' \subseteq audit \cup {<<r, "allowed">>, <<r, "denied">>}
       /\ RecordsOK(r, d, audit')
  BY <1>18
<1>20. QED
  BY <1>12, <1>14, <1>15, <1>16, <1>17, <1>19, RequestMoves

LEMMA CopyInv ==
  ASSUME DownloadInv, NEW r \in Requests, Copy(r)
  PROVE  DownloadInv'
<1>1. PICK v \in BodyRead(r) :
        /\ dl' = [dl EXCEPT ![r] = [AfterRead(dl[r], v, v.n) EXCEPT
                    !.pc = IF v.err = "none" THEN "stream" ELSE "close",
                    !.outcome = CASE v.err = "none" -> "none"
                                  [] v.err = "eof" -> "ok"
                                  [] v.err = "fail" -> "aborted"]]
        /\ ReleaseAfter(r, v)
  BY DEF Copy
<1>2. dl[r].pc = "stream" /\ UNCHANGED audit
  BY DEF Copy
<1>3. v.n \in Nat /\ v.err \in Errors
  BY <1>2, RequestFacts, BodyResult DEF ReadFacts
<1>4. v.n \in 0..v.n /\ ReleaseAfter(r, v)
  BY <1>1, <1>3
<1>5. CASE v.err = "none"
  <2>1. dl' = [dl EXCEPT ![r] = [AfterRead(dl[r], v, v.n) EXCEPT !.pc = "stream", !.outcome = "none"]]
    BY <1>1, <1>5
  <2>2. QED
    BY <1>2, <1>4, <1>5, <2>1, ReadInv
<1>6. CASE v.err = "eof"
  <2>1. dl' = [dl EXCEPT ![r] = [AfterRead(dl[r], v, v.n) EXCEPT !.pc = "close", !.outcome = "ok"]]
    BY <1>1, <1>6
  <2>2. QED
    BY <1>2, <1>4, <1>6, <2>1, ReadInv
<1>7. CASE v.err = "fail"
  <2>1. dl' = [dl EXCEPT ![r] = [AfterRead(dl[r], v, v.n) EXCEPT !.pc = "close", !.outcome = "aborted"]]
    BY <1>1, <1>7
  <2>2. QED
    BY <1>2, <1>4, <1>7, <2>1, ReadInv
<1>8. QED
  BY <1>3, <1>5, <1>6, <1>7 DEF Errors

LEMMA WriteFailsInv ==
  ASSUME DownloadInv, NEW r \in Requests, WriteFails(r)
  PROVE  DownloadInv'
<1>0. PICK v \in BodyRead(r) : \E k \in 0..(v.n - 1) :
        /\ dl' = [dl EXCEPT ![r] = [AfterRead(dl[r], v, k) EXCEPT
                    !.pc = "close", !.outcome = "aborted"]]
        /\ ReleaseAfter(r, v)
  BY DEF WriteFails
<1>1. PICK k \in 0..(v.n - 1) :
        /\ dl' = [dl EXCEPT ![r] = [AfterRead(dl[r], v, k) EXCEPT
                    !.pc = "close", !.outcome = "aborted"]]
        /\ ReleaseAfter(r, v)
  BY <1>0
<1>2. dl[r].pc = "stream" /\ UNCHANGED audit
  BY DEF WriteFails
<1>3. v.n \in Nat
  BY <1>2, RequestFacts, BodyResult DEF ReadFacts
<1>4. k \in 0..v.n
  BY <1>3
<1>5. QED
  BY <1>1, <1>2, <1>4, ReadInv

LEMMA HandlerInv ==
  ASSUME DownloadInv, NEW r \in Requests, HandlerStep(r)
  PROVE  DownloadInv'
BY AcquireInv, ApprovalInv, OpenInv, CheckSizeInv, AllowInv, DenyInv, CopyInv, WriteFailsInv, CloseInv
DEF HandlerStep

LEMMA DownloadInitInv == DownloadInit => DownloadInv
<1> SUFFICES ASSUME DownloadInit PROVE DownloadInv
  OBVIOUS
<1>0. 0 \in Sizes /\ 0 \in 0..MaxBytes /\ Limit \in Nat /\ MaxBytes \in Nat
  BY DownloadAssumption DEF Sizes
<1>1. NoReader \in Reader
  BY <1>0 DEF NoReader, Reader, Errors
<1>2. NoDownload \in Download
  BY <1>0, <1>1 DEF NoDownload, Download, Ops
<1>3. /\ NoDownload.pc = "idle" /\ NoDownload.slot = FALSE /\ NoDownload.sent = 0
      /\ NoDownload.body = "none" /\ NoDownload.outcome = "none" /\ NoDownload.op = "list"
      /\ NoDownload.whole = 0 /\ NoDownload.header = Unknown
  BY DEF NoDownload
<1>4. active = [u \in Users |-> 0] /\ dl = [r \in Requests |-> NoDownload] /\ audit = {}
  BY DEF DownloadInit
<1>5. DownloadTypeOK
  BY <1>2, <1>4 DEF DownloadTypeOK
<1>6. \A u \in Users : Holders(u) = {}
  BY <1>3, <1>4 DEF Holders
<1>7. SlotsOK
  BY <1>0, <1>4, <1>6, FS_EmptySet DEF SlotsOK
<1>8. PlaceOK(NoDownload) /\ ReaderOK(NoDownload) /\ SizesOK(NoDownload)
  BY <1>0, <1>3 DEF PlaceOK, ReaderOK, SizesOK
<1>9. \A r \in Requests : RecordsOK(r, NoDownload, {})
  BY <1>3 DEF RecordsOK
<1>10. QED
  BY <1>4, <1>5, <1>7, <1>8, <1>9 DEF DownloadInv

-----------------------------------------------------------------------------
(* The client and its file.                                                *)

\* What a server step leaves of a request that has answered.
LEMMA AnsweredStays ==
  ASSUME DownloadInv, NEW r \in Requests, HandlerStep(r), NEW p \in Requests
  PROVE  /\ dl'[p].op = dl[p].op
         /\ dl[p].pc # "idle" => dl'[p].pc # "idle"
         /\ dl[p].outcome \in {"ok", "aborted"} =>
              /\ dl'[p].outcome = dl[p].outcome /\ dl'[p].size = dl[p].size
              /\ dl'[p].whole = dl[p].whole
<1>0. dl \in [Requests -> Download] /\ dl[r] \in Download /\ PlaceOK(dl[r])
  BY RequestFacts
<1>1. CASE p # r
  <2>1. \E d : dl' = [dl EXCEPT ![r] = d]
    BY DEF HandlerStep, Acquire, Approval, Open, CheckSize, Allow, Deny, Copy, WriteFails, Close, Goto
  <2>2. QED
    BY <1>0, <1>1, <2>1
<1>2. CASE p = r
  <2>0. dl[r].outcome \in {"ok", "aborted"} => dl[r].pc \in {"close", "end"}
    BY <1>0 DEF PlaceOK
  <2>1. ASSUME NEW pc, Goto(r, pc), pc # "idle", dl[r].pc \notin {"close", "end"}
        PROVE  dl'[r].op = dl[r].op /\ dl'[r].pc # "idle" /\ dl[r].outcome \notin {"ok", "aborted"}
    BY <1>0, <2>0, <2>1 DEF Goto, Download
  <2>2. CASE Acquire(r)
    BY <1>0, <1>2, <2>0, <2>1, <2>2, ZenonT(40) DEF Acquire, Download
  <2>3. CASE Approval(r)
    BY <1>0, <1>2, <2>0, <2>1, <2>3, ZenonT(40) DEF Approval, Download
  <2>4. CASE Open(r)
    <3>1. ASSUME NEW whole, NEW length, NEW reader,
                 dl' = [dl EXCEPT ![r] = [dl[r] EXCEPT
                          !.pc = "size", !.body = "open", !.whole = whole, !.header = length,
                          !.reader = reader]]
          PROVE  dl'[r].op = dl[r].op /\ dl'[r].pc # "idle"
      BY <1>0, <3>1 DEF Download
    <3>2. dl[r].pc = "open"
      BY <2>4 DEF Open
    <3>3. CASE Goto(r, "deny")
      BY <1>2, <2>1, <3>2, <3>3
    <3>4. CASE ~Goto(r, "deny")
      <4>0. PICK whole \in Sizes, length \in {Unknown} \cup Sizes :
              dl' = [dl EXCEPT ![r] = [dl[r] EXCEPT
                       !.pc = "size", !.body = "open", !.whole = whole, !.header = length,
                       !.reader = [left |-> whole, limit |-> MaxBytes,
                                   expected |-> dl[r].size, terminal |-> "none"]]]
        BY <2>4, <3>4 DEF Open
      <4>1. dl'[r].op = dl[r].op /\ dl'[r].pc # "idle"
        BY <3>1, <4>0
      <4>2. QED
        BY <1>2, <2>0, <3>2, <4>1
    <3>5. QED
      BY <3>3, <3>4
  <2>5. CASE CheckSize(r)
    BY <1>0, <1>2, <2>0, <2>5 DEF CheckSize, Download
  <2>6. CASE Allow(r)
    <3>1. dl[r].pc = "allow"
      BY <2>6 DEF Allow
    <3>2. CASE Goto(r, "stream")
      BY <1>2, <2>1, <3>1, <3>2
    <3>3. CASE ~Goto(r, "stream")
      <4>1. \/ dl' = [dl EXCEPT ![r] = [dl[r] EXCEPT !.pc = "end", !.outcome = "ok"]]
            \/ dl' = [dl EXCEPT ![r] = [dl[r] EXCEPT !.pc = "end", !.slot = FALSE,
                        !.outcome = "problem", !.reader = NoReader,
                        !.body = IF dl[r].body = "open" THEN "closed" ELSE dl[r].body]]
        BY <2>6, <3>3 DEF Allow
      <4>2. ASSUME NEW slot, NEW outcome, NEW reader, NEW body,
                   dl' = [dl EXCEPT ![r] = [dl[r] EXCEPT !.pc = "end", !.slot = slot,
                            !.outcome = outcome, !.reader = reader, !.body = body]]
            PROVE  dl'[r].op = dl[r].op /\ dl'[r].pc # "idle"
        BY <1>0, <4>2 DEF Download
      <4>3. dl' = [dl EXCEPT ![r] = [dl[r] EXCEPT !.pc = "end", !.outcome = "ok"]]
              => dl'[r].op = dl[r].op /\ dl'[r].pc # "idle"
        BY <1>0 DEF Download
      <4>4. dl'[r].op = dl[r].op /\ dl'[r].pc # "idle"
        <5>1. PICK body : body = IF dl[r].body = "open" THEN "closed" ELSE dl[r].body
          OBVIOUS
        <5>2. \/ dl' = [dl EXCEPT ![r] = [dl[r] EXCEPT !.pc = "end", !.outcome = "ok"]]
              \/ dl' = [dl EXCEPT ![r] = [dl[r] EXCEPT !.pc = "end", !.slot = FALSE,
                          !.outcome = "problem", !.reader = NoReader, !.body = body]]
          BY <4>1, <5>1
        <5>3. CASE dl' = [dl EXCEPT ![r] = [dl[r] EXCEPT !.pc = "end", !.slot = FALSE,
                            !.outcome = "problem", !.reader = NoReader, !.body = body]]
          BY <4>2, <5>3, Zenon
        <5>4. QED
          BY <4>3, <5>2, <5>3
      <4>5. QED
        BY <1>2, <2>0, <3>1, <4>4
    <3>4. QED
      BY <3>2, <3>3
  <2>7. CASE Deny(r)
    BY <1>0, <1>2, <2>0, <2>7 DEF Deny, Download
  <2>8. CASE Copy(r) \/ WriteFails(r)
    <3>1. dl[r].pc = "stream"
      BY <2>8 DEF Copy, WriteFails
    <3>2. \E v, k, pc, outcome : /\ pc # "idle"
            /\ dl' = [dl EXCEPT ![r] = [AfterRead(dl[r], v, k) EXCEPT !.pc = pc, !.outcome = outcome]]
      <4>1. CASE Copy(r)
        <5>1. PICK v \in BodyRead(r) :
                dl' = [dl EXCEPT ![r] = [AfterRead(dl[r], v, v.n) EXCEPT
                         !.pc = IF v.err = "none" THEN "stream" ELSE "close",
                         !.outcome = CASE v.err = "none" -> "none"
                                       [] v.err = "eof" -> "ok"
                                       [] v.err = "fail" -> "aborted"]]
          BY <4>1 DEF Copy
        <5>2. PICK pc, outcome :
                /\ pc = IF v.err = "none" THEN "stream" ELSE "close"
                /\ outcome = CASE v.err = "none" -> "none"
                               [] v.err = "eof" -> "ok"
                               [] v.err = "fail" -> "aborted"
          OBVIOUS
        <5>3. pc # "idle"
          BY <5>2
        <5>4. dl' = [dl EXCEPT ![r] = [AfterRead(dl[r], v, v.n) EXCEPT !.pc = pc, !.outcome = outcome]]
          BY <5>1, <5>2
        <5>5. QED
          BY <5>3, <5>4, Zenon
      <4>2. CASE WriteFails(r)
        <5>1. PICK v \in BodyRead(r) : \E k \in 0..(v.n - 1) :
                dl' = [dl EXCEPT ![r] = [AfterRead(dl[r], v, k) EXCEPT
                         !.pc = "close", !.outcome = "aborted"]]
          BY <4>2 DEF WriteFails
        <5>2. PICK k \in 0..(v.n - 1) :
                dl' = [dl EXCEPT ![r] = [AfterRead(dl[r], v, k) EXCEPT
                         !.pc = "close", !.outcome = "aborted"]]
          BY <5>1
        <5>3. PICK pc, outcome : pc = "close" /\ outcome = "aborted"
          OBVIOUS
        <5>4. /\ pc # "idle"
              /\ dl' = [dl EXCEPT ![r] = [AfterRead(dl[r], v, k) EXCEPT !.pc = pc, !.outcome = outcome]]
          BY <5>2, <5>3
        <5>5. QED
          BY <5>4, Zenon
      <4>3. QED
        BY <2>8, <4>1, <4>2
    <3>3. dl'[r].op = dl[r].op /\ dl'[r].pc # "idle"
      <4>1. PICK v, k, pc, outcome : /\ pc # "idle"
              /\ dl' = [dl EXCEPT ![r] = [AfterRead(dl[r], v, k) EXCEPT !.pc = pc,
                                                                        !.outcome = outcome]]
        BY <3>2
      <4>2. ASSUME NEW reader, NEW sent, NEW body, NEW slot
            PROVE  LET d == [dl[r] EXCEPT !.reader = reader, !.sent = sent, !.body = body,
                                          !.slot = slot]
                   IN  d.op = dl[r].op /\ DOMAIN d = DOMAIN dl[r]
        BY <1>0 DEF Download
      <4>3. /\ AfterRead(dl[r], v, k).op = dl[r].op
            /\ DOMAIN AfterRead(dl[r], v, k) = DOMAIN dl[r]
        BY <4>2 DEF AfterRead
      <4>4. "op" \in DOMAIN dl[r] /\ "pc" \in DOMAIN dl[r]
        BY <1>0 DEF Download
      <4>5. dl'[r] = [AfterRead(dl[r], v, k) EXCEPT !.pc = pc, !.outcome = outcome]
        BY <1>0, <4>1
      <4>6. QED
        BY <4>1, <4>3, <4>4, <4>5
    <3>4. QED
      BY <1>2, <2>0, <3>1, <3>3
  <2>9. CASE Close(r)
    BY <1>0, <1>2, <2>9 DEF Close, Download
  <2>10. QED
    BY <2>2, <2>3, <2>4, <2>5, <2>6, <2>7, <2>8, <2>9 DEF HandlerStep
<1>3. QED
  BY <1>1, <1>2

LEMMA ServerStepInv ==
  ASSUME FileInv, NEW r \in Requests, ServerStep(r)
  PROVE  FileInv'
<1>1. DownloadInv /\ HandlerStep(r) /\ UNCHANGED <<fetch, dest>>
  BY DEF FileInv, ServerStep, fileVars
<1>2. DownloadInv'
  BY <1>1, HandlerInv
<1>3. FileTypeOK'
  BY <1>1, <1>2 DEF FileInv, FileTypeOK, DownloadInv
<1>4. ASSUME NEW p \in Requests PROVE FetchOK(p)'
  <2>1. FetchOK(p)
    BY DEF FileInv
  <2>2. /\ dl'[p].op = dl[p].op
        /\ dl[p].pc # "idle" => dl'[p].pc # "idle"
        /\ dl[p].outcome \in {"ok", "aborted"} =>
             /\ dl'[p].outcome = dl[p].outcome /\ dl'[p].size = dl[p].size
             /\ dl'[p].whole = dl[p].whole
    BY <1>1, AnsweredStays
  <2>3. QED
    BY <1>1, <2>1, <2>2 DEF FetchOK
<1>5. QED
  BY <1>2, <1>3, <1>4 DEF FileInv

\* A new request of p, which has not begun.
LEMMA ArriveFile ==
  ASSUME FileInv, NEW p \in Requests, NEW u \in Users, NEW op \in Ops, Arrive(p, u, op)
  PROVE  /\ DownloadInv' /\ dl'[p].op = op /\ dl'[p].pc # "idle" /\ dest # p
         /\ \A q \in Requests : q # p => dl'[q] = dl[q]
<1>0. DownloadInv /\ dl \in [Requests -> Download] /\ dl[p].pc = "idle" /\ PlaceOK(dl[p]) /\ FetchOK(p)
  BY RequestFacts DEF FileInv, Arrive
<1>1. DownloadInv'
  BY <1>0, ArriveInv
<1>2. PICK valid \in BOOLEAN :
        dl' = [dl EXCEPT ![p] = [NoDownload EXCEPT !.op = op, !.user = u,
                 !.pc = IF ~valid THEN "end" ELSE IF op = "list" THEN "approval" ELSE "slot",
                 !.outcome = IF valid THEN "none" ELSE "problem"]]
  BY DEF Arrive
<1>3. dl'[p].op = op /\ dl'[p].pc # "idle"
  BY <1>0, <1>2 DEF NoDownload
<1>4. dest # p
  BY <1>0 DEF FetchOK, PlaceOK
<1>5. QED
  BY <1>0, <1>1, <1>2, <1>3, <1>4

LEMMA BeginInv ==
  ASSUME FileInv, NEW p \in Requests, NEW overwrite \in BOOLEAN, Begin(p, overwrite)
  PROVE  FileInv'
<1>0. /\ fetch \in [Requests -> Process] /\ fetch[p] \in Process /\ fetch[p].pc = "idle"
      /\ dest \in Requests \cup {None, Foreign} /\ UNCHANGED dest /\ DownloadInv
      /\ \A q \in Requests : FetchOK(q)
  BY DEF FileInv, FileTypeOK, Begin
<1>1. dest # p
  BY <1>0 DEF FetchOK
<1>2. CASE fetch' = [fetch EXCEPT ![p] = [fetch[p] EXCEPT !.pc = "error"]] /\ UNCHANGED downloadVars
  <2>1. fetch' \in [Requests -> Process] /\ fetch'[p].pc = "error"
    BY <1>0, <1>2 DEF Process
  <2>2. UNCHANGED <<active, dl, audit>>
    BY <1>2 DEF downloadVars
  <2>3. DownloadInv'
    BY <1>0, <2>2 DEF DownloadInv, DownloadTypeOK, SlotsOK, Holders, RecordsOK
  <2>4. \A q \in Requests : FetchOK(q)'
    BY <1>0, <1>1, <1>2, <2>1, <2>2 DEF FetchOK
  <2>5. QED
    BY <1>0, <2>1, <2>3, <2>4 DEF FileInv, FileTypeOK, DownloadInv
<1>3. ASSUME NEW u \in Users, Arrive(p, u, "download"),
             fetch' = [fetch EXCEPT ![p] = [fetch[p] EXCEPT !.pc = "receive", !.overwrite = overwrite]]
      PROVE  FileInv'
  <2>1. fetch' \in [Requests -> Process] /\ fetch'[p].pc = "receive"
    BY <1>0, <1>3 DEF Process
  <2>2. /\ DownloadInv' /\ dl'[p].op = "download" /\ dl'[p].pc # "idle"
        /\ \A q \in Requests : q # p => dl'[q] = dl[q]
    BY <1>3, ArriveFile DEF Ops
  <2>3. \A q \in Requests : q # p => fetch'[q] = fetch[q]
    BY <1>0, <1>3
  <2>4. \A q \in Requests : FetchOK(q)'
    BY <1>0, <1>1, <2>1, <2>2, <2>3 DEF FetchOK
  <2>5. QED
    BY <1>0, <2>1, <2>2, <2>4 DEF FileInv, FileTypeOK, DownloadInv
<1>4. QED
  BY <1>2, <1>3 DEF Begin

LEMMA ListArrivesInv ==
  ASSUME FileInv, NEW p \in Requests, NEW u \in Users, fetch[p].pc = "idle",
         Arrive(p, u, "list"), UNCHANGED fileVars
  PROVE  FileInv'
<1>1. /\ DownloadInv' /\ dl'[p].pc # "idle" /\ dest # p
      /\ \A q \in Requests : q # p => dl'[q] = dl[q]
  BY ArriveFile DEF Ops
<1>2. UNCHANGED <<fetch, dest>> /\ \A q \in Requests : FetchOK(q)
  BY DEF fileVars, FileInv
<1>3. \A q \in Requests : FetchOK(q)'
  BY <1>1, <1>2 DEF FetchOK
<1>4. QED
  BY <1>1, <1>2, <1>3 DEF FileInv, FileTypeOK, DownloadInv

\* A step of process p alone.
LEMMA ProcessMoves ==
  ASSUME FileInv, NEW p \in Requests, NEW k \in Process, UNCHANGED downloadVars,
         fetch' = [fetch EXCEPT ![p] = k], dest' \in {dest, p}, FetchOK(p)'
  PROVE  FileInv'
<1>1. /\ fetch \in [Requests -> Process] /\ dest \in Requests \cup {None, Foreign} /\ DownloadInv
      /\ \A q \in Requests : FetchOK(q)
  BY DEF FileInv, FileTypeOK
<1>2. UNCHANGED <<active, dl, audit>>
  BY DEF downloadVars
<1>3. DownloadInv'
  BY <1>1, <1>2 DEF DownloadInv, DownloadTypeOK, SlotsOK, Holders, RecordsOK
<1>4. \A q \in Requests : FetchOK(q)'
  BY <1>1, <1>2 DEF FetchOK
<1>5. fetch' \in [Requests -> Process] /\ dest' \in Requests \cup {None, Foreign}
  BY <1>1
<1>6. QED
  BY <1>3, <1>4, <1>5 DEF FileInv, FileTypeOK, DownloadInv

\* A process gives up.
LEMMA GivesUpInv ==
  ASSUME FileInv, NEW p \in Requests, UNCHANGED <<downloadVars, dest>>,
         fetch' = [fetch EXCEPT ![p] = [fetch[p] EXCEPT !.pc = "error"]],
         fetch[p].pc \notin {"ok", "error"}
  PROVE  FileInv'
<1>1. fetch \in [Requests -> Process] /\ fetch[p] \in Process /\ FetchOK(p)
  BY DEF FileInv, FileTypeOK
<1>2. PICK k \in Process : k = [fetch[p] EXCEPT !.pc = "error"]
  BY <1>1 DEF Process
<1>3. fetch'[p].pc = "error" /\ dest' # p
  BY <1>1 DEF FetchOK, Process
<1>4. FetchOK(p)'
  BY <1>3 DEF FetchOK
<1>5. QED
  BY <1>2, <1>4, ProcessMoves

LEMMA ReceiveInv ==
  ASSUME FileInv, NEW p \in Requests, Receive(p)
  PROVE  FileInv'
<1>0. /\ fetch \in [Requests -> Process] /\ fetch[p] \in Process /\ FetchOK(p) /\ DownloadInv
      /\ fetch[p].pc = "receive" /\ dl[p].outcome \in {"ok", "aborted"}
      /\ UNCHANGED <<downloadVars, dest>>
  BY DEF FileInv, FileTypeOK, Receive
<1>1. ASSUME NEW got \in 0..dl[p].sent, LooksComplete(p, got),
             fetch' = [fetch EXCEPT ![p] = [fetch[p] EXCEPT !.pc = "publish", !.got = got]]
      PROVE  FileInv'
  <2>1. dl[p] \in Download /\ SizesOK(dl[p]) /\ dl[p].op = "download"
    BY <1>0, RequestFacts DEF FetchOK
  <2>2. /\ dl[p].sent \in Nat /\ dl[p].sent <= MaxSize /\ MaxSize \in Nat /\ dl[p].size \in Nat
        /\ dl[p].whole \in Nat
    BY <2>1, DownloadAssumption DEF Download, Sizes
  <2>3. got \in Sizes
    BY <2>2 DEF Sizes
  <2>4. PICK k \in Process : k = [fetch[p] EXCEPT !.pc = "publish", !.got = got]
    BY <1>0, <2>3 DEF Process
  <2>5. got = IF dl[p].size > 0 THEN dl[p].size ELSE dl[p].whole
    <3>1. IF dl[p].size > 0 THEN dl[p].header = dl[p].size
                            ELSE dl[p].header \in {Unknown, dl[p].whole}
      BY <1>0, <2>1 DEF SizesOK
    <3>2. CASE dl[p].header = Unknown
      <4>1. dl[p].outcome = "ok" /\ got = dl[p].sent
        BY <1>1, <3>2 DEF LooksComplete
      <4>2. dl[p].sent = dl[p].whole /\ (dl[p].size > 0 => dl[p].sent = dl[p].size)
        BY <2>1, <4>1 DEF SizesOK
      <4>3. QED
        BY <2>2, <4>1, <4>2
    <3>3. CASE dl[p].header # Unknown
      <4>1. got = dl[p].header
        BY <1>1, <3>3 DEF LooksComplete
      <4>2. QED
        BY <3>1, <3>3, <4>1
    <3>4. QED
      BY <3>2, <3>3
  <2>6. fetch'[p].pc = "publish" /\ fetch'[p].got = got /\ dl' = dl /\ dest' = dest
    BY <1>0, <1>1, <2>4 DEF Process, downloadVars
  <2>7. dest # p
    BY <1>0 DEF FetchOK
  <2>8. dl[p].pc # "idle"
    BY <1>0 DEF FetchOK
  <2>9. FetchOK(p)'
    BY <1>0, <2>1, <2>5, <2>6, <2>7, <2>8 DEF FetchOK
  <2>10. QED
    BY <1>0, <1>1, <2>4, <2>9, ProcessMoves
<1>2. CASE fetch' = [fetch EXCEPT ![p] = [fetch[p] EXCEPT !.pc = "error"]]
  BY <1>0, <1>2, GivesUpInv
<1>3. QED
  BY <1>1, <1>2 DEF Receive

LEMMA PublishInv ==
  ASSUME FileInv, NEW p \in Requests, Publish(p)
  PROVE  FileInv'
<1>0. /\ fetch \in [Requests -> Process] /\ fetch[p] \in Process /\ FetchOK(p)
      /\ fetch[p].pc = "publish" /\ UNCHANGED downloadVars
  BY DEF FileInv, FileTypeOK, Publish
<1>1. ASSUME NEW pc \in {"ok", "error"}, dest' = p,
             fetch' = [fetch EXCEPT ![p] = [fetch[p] EXCEPT !.pc = pc]]
      PROVE  FileInv'
  <2>1. PICK k \in Process : k = [fetch[p] EXCEPT !.pc = pc]
    BY <1>0 DEF Process
  <2>2. fetch'[p].pc = pc /\ fetch'[p].got = fetch[p].got /\ dl' = dl
    BY <1>0, <1>1 DEF Process, downloadVars
  <2>3. FetchOK(p)'
    BY <1>0, <1>1, <2>2 DEF FetchOK
  <2>4. QED
    BY <1>0, <1>1, <2>1, <2>3, ProcessMoves
<1>2. CASE fetch' = [fetch EXCEPT ![p] = [fetch[p] EXCEPT !.pc = "error"]] /\ UNCHANGED dest
  BY <1>0, <1>2, GivesUpInv
<1>3. QED
  BY <1>1, <1>2 DEF Publish

LEMMA ForeignInv ==
  ASSUME FileInv, ForeignWrite
  PROVE  FileInv'
<1>1. UNCHANGED <<active, dl, audit, fetch>> /\ dest' = Foreign /\ dest = None
  BY DEF ForeignWrite, downloadVars
<1>2. DownloadInv'
  BY <1>1 DEF FileInv, DownloadInv, DownloadTypeOK, SlotsOK, Holders, RecordsOK
<1>3. \A q \in Requests : dest' # q
  BY <1>1, FileAssumption
<1>4. \A q \in Requests : FetchOK(q)'
  BY <1>1, <1>3 DEF FileInv, FetchOK
<1>5. QED
  BY <1>1, <1>2, <1>4 DEF FileInv, FileTypeOK, DownloadInv

LEMMA FileStepInv == FileInv /\ [FileNext]_allVars => FileInv'
<1> SUFFICES ASSUME FileInv, [FileNext]_allVars PROVE FileInv'
  OBVIOUS
<1>1. CASE UNCHANGED allVars
  <2>1. UNCHANGED <<active, dl, audit, fetch, dest>>
    BY <1>1 DEF allVars, downloadVars, fileVars
  <2>2. QED
    BY <2>1 DEF FileInv, FileTypeOK, FetchOK, DownloadInv, DownloadTypeOK, SlotsOK, Holders, RecordsOK
<1>2. ASSUME NEW p \in Requests, ReceiveProblem(p) \/ Killed(p) PROVE FileInv'
  <2>1. /\ UNCHANGED <<downloadVars, dest>> /\ fetch[p].pc \notin {"ok", "error"}
        /\ fetch' = [fetch EXCEPT ![p] = [fetch[p] EXCEPT !.pc = "error"]]
    BY <1>2 DEF ReceiveProblem, Killed
  <2>2. QED
    BY <2>1, GivesUpInv
<1>3. QED
  BY <1>1, <1>2, BeginInv, ListArrivesInv, ServerStepInv, ReceiveInv, PublishInv, ForeignInv
  DEF FileNext, FileQuiescent

LEMMA FileInitInv == FileInit => FileInv
<1> SUFFICES ASSUME FileInit PROVE FileInv
  OBVIOUS
<1>1. DownloadInv
  BY DownloadInitInv DEF FileInit
<1>2. /\ fetch = [p \in Requests |-> [pc |-> "idle", overwrite |-> FALSE, got |-> 0]]
      /\ dest \in {None, Foreign}
  BY DEF FileInit
<1>3. 0 \in Sizes
  BY DownloadAssumption DEF Sizes
<1>4. FileTypeOK
  BY <1>1, <1>2, <1>3 DEF FileTypeOK, DownloadInv, Process
<1>5. \A p \in Requests : dest # p
  BY <1>2, FileAssumption
<1>6. \A p \in Requests : FetchOK(p)
  BY <1>2, <1>5 DEF FetchOK
<1>7. QED
  BY <1>1, <1>4, <1>6 DEF FileInv

-----------------------------------------------------------------------------

\* The invariant of downloads and of the client's file holds for any requests,
\* users, sizes and limits.
THEOREM FileInvariance == FileSpec => []FileInv
BY FileInitInv, FileStepInv, PTL DEF FileSpec

\* A user's downloads keep to the limit and give every slot and body back.
THEOREM SlotsComeBack == FileSpec => []NothingLeaks
<1>1. ASSUME FileInv PROVE NothingLeaks
  <2>0. DownloadInv /\ SlotsOK /\ Limit \in Nat
    BY <1>1, DownloadAssumption DEF FileInv, DownloadInv
  <2>1. ASSUME NEW u \in Users PROVE Cardinality(Streaming(u)) <= Limit
    <3>1. Streaming(u) \subseteq Holders(u)
      BY <2>0 DEF Streaming, Holders, DownloadInv, PlaceOK
    <3>2. /\ IsFiniteSet(Holders(u)) /\ active[u] = Cardinality(Holders(u))
          /\ active[u] <= Limit
      BY <2>0 DEF SlotsOK
    <3>3. /\ Cardinality(Streaming(u)) <= Cardinality(Holders(u)) /\ IsFiniteSet(Streaming(u))
      BY <3>1, <3>2, FS_Subset
    <3>4. Cardinality(Streaming(u)) \in Nat /\ Cardinality(Holders(u)) \in Nat
      BY <3>2, <3>3, FS_CardinalityType
    <3>5. QED
      BY <2>0, <3>2, <3>3, <3>4
  <2>2. ASSUME NEW u \in Users, \A r \in Requests : dl[r].user = u => dl[r].pc = "end"
        PROVE  active[u] = 0
    <3>1. Holders(u) = {}
      BY <2>0, <2>2 DEF Holders, DownloadInv, PlaceOK
    <3>2. QED
      BY <2>0, <3>1, FS_EmptySet DEF SlotsOK
  <2>3. \A r \in Requests : dl[r].pc = "end" => dl[r].body # "open"
    BY <2>0 DEF DownloadInv, PlaceOK
  <2>4. QED
    BY <2>1, <2>2, <2>3 DEF NothingLeaks
<1>2. QED
  BY <1>1, FileInvariance, PTL

\* Nothing is sent before its allowed record, and nothing after a denial.
THEOREM NothingUnrecorded == FileSpec => []SentIsAudited
<1>1. ASSUME FileInv PROVE SentIsAudited
  <2>1. ASSUME NEW r \in Requests
        PROVE  /\ dl[r].sent > 0 \/ dl[r].outcome = "ok" => <<r, "allowed">> \in audit
               /\ <<r, "denied">> \in audit => dl[r].sent = 0 /\ dl[r].outcome = "problem"
    BY <1>1 DEF FileInv, DownloadInv, RecordsOK
  <2>2. QED
    BY <2>1 DEF SentIsAudited
<1>2. QED
  BY <1>1, FileInvariance, PTL

\* A response that ends regularly is the whole body, whatever the reads return.
THEOREM ResponsesAreWhole == FileSpec => []CompleteIsWhole
<1>1. ASSUME FileInv PROVE CompleteIsWhole
  <2>1. ASSUME NEW r \in Requests
        PROVE  /\ dl[r].sent <= MaxBytes /\ (dl[r].header # Unknown => dl[r].sent <= dl[r].header)
               /\ dl[r].op = "download" /\ dl[r].outcome = "ok" =>
                    /\ dl[r].sent = dl[r].whole
                    /\ dl[r].header # Unknown => dl[r].sent = dl[r].header
    <3>1. SizesOK(dl[r]) /\ dl[r] \in Download
      BY <1>1, RequestFacts DEF FileInv
    <3>2. dl[r].size > 0 \/ ~(dl[r].size > 0)
      OBVIOUS
    <3>3. QED
      BY <3>1, <3>2 DEF SizesOK
  <2>2. QED
    BY <2>1 DEF CompleteIsWhole
<1>2. QED
  BY <1>1, FileInvariance, PTL

\* A published file has the size its approval names.
THEOREM PublishedIsComplete == FileSpec => []PublishedHasItsSize
<1>1. ASSUME FileInv, dest \in Requests
      PROVE  /\ fetch[dest].got = IF dl[dest].size > 0 THEN dl[dest].size ELSE dl[dest].whole
             /\ <<dest, "allowed">> \in audit
  <2>1. PICK p \in Requests : p = dest
    BY <1>1
  <2>2. FetchOK(p) /\ RecordsOK(p, dl[p], audit)
    BY <1>1 DEF FileInv, DownloadInv
  <2>3. /\ dl[p].outcome \in {"ok", "aborted"}
        /\ fetch[p].got = IF dl[p].size > 0 THEN dl[p].size ELSE dl[p].whole
    BY <2>1, <2>2 DEF FetchOK
  <2>4. QED
    BY <2>1, <2>2, <2>3 DEF RecordsOK
<1>2. FileInv => PublishedHasItsSize
  BY <1>1 DEF PublishedHasItsSize
<1>3. QED
  BY <1>2, FileInvariance, PTL

\* Without --overwrite nothing at the destination is replaced.
THEOREM OthersFilesStay == FileSpec => NothingOverwritten
<1>1. [FileNext]_allVars => [dest' # dest => dest = None \/ (dest' \in Requests /\ fetch[dest'].overwrite)]_allVars
  <2> SUFFICES ASSUME FileNext, dest' # dest
               PROVE  dest = None \/ (dest' \in Requests /\ fetch[dest'].overwrite)
    BY DEF allVars
  <2>1. ForeignWrite \/ \E p \in Requests : Publish(p)
    BY DEF FileNext, Begin, ServerStep, Receive, ReceiveProblem, Killed, FileQuiescent, fileVars, allVars
  <2>2. CASE ForeignWrite
    BY <2>2 DEF ForeignWrite
  <2>3. ASSUME NEW p \in Requests, Publish(p)
        PROVE  dest = None \/ (dest' \in Requests /\ fetch[dest'].overwrite)
    BY <2>3 DEF Publish, MayPublish
  <2>4. QED
    BY <2>1, <2>2, <2>3
<1>2. QED
  BY <1>1, PTL DEF FileSpec, NothingOverwritten

-----------------------------------------------------------------------------
(* The abstract delivery.                                                  *)

\* What a step of the handler does to the records, and to the sizes once recorded.
LEMMA HandlerRecords ==
  ASSUME DownloadInv, NEW r \in Requests, HandlerStep(r)
  PROVE  /\ \A q \in Requests \ {r} :
              dl'[q] = dl[q] /\ (<<q, "allowed">> \in audit' <=> <<q, "allowed">> \in audit)
         /\ <<r, "allowed">> \in audit => <<r, "allowed">> \in audit'
         /\ dl[r].pc # "end"
         /\ dl[r].pc \in {"allow", "stream", "close"} =>
              dl'[r].size = dl[r].size /\ dl'[r].whole = dl[r].whole
         /\ dl[r].pc \in {"stream", "close"} => dl'[r].pc \in {"stream", "close", "end"}
         /\ <<r, "allowed">> \in audit' /\ <<r, "allowed">> \notin audit =>
              dl[r].pc = "allow" /\ dl'[r].pc \in {"stream", "end"}
<1>0. dl \in [Requests -> Download] /\ dl[r] \in Download
  BY RequestFacts
<1>1. CASE Acquire(r) \/ Approval(r) \/ CheckSize(r)
  BY <1>0, <1>1 DEF Acquire, Approval, CheckSize, Goto
<1>2. CASE Open(r)
  BY <1>0, <1>2 DEF Open, Goto
<1>3. CASE Allow(r)
  <2>1. /\ dl[r].pc = "allow"
        /\ audit' \in {audit, audit \cup {<<r, "allowed">>}}
    BY <1>3 DEF Allow, Audited, AuditFails
  <2>2. \E d : dl' = [dl EXCEPT ![r] = d]
    BY <1>3 DEF Allow, Goto
  <2>3. /\ dl'[r].size = dl[r].size /\ dl'[r].whole = dl[r].whole
        /\ dl'[r].pc \in {"stream", "end"}
    <3>1. CASE Goto(r, "stream")
      BY <1>0, <3>1 DEF Goto, Download
    <3>2. CASE ~Goto(r, "stream")
      <4>1. \/ dl' = [dl EXCEPT ![r] = [dl[r] EXCEPT !.pc = "end", !.outcome = "ok"]]
            \/ dl' = [dl EXCEPT ![r] = [dl[r] EXCEPT !.pc = "end", !.slot = FALSE,
                        !.outcome = "problem", !.reader = NoReader,
                        !.body = IF dl[r].body = "open" THEN "closed" ELSE dl[r].body]]
        BY <1>3, <3>2 DEF Allow
      <4>2. ASSUME NEW slot, NEW outcome, NEW reader, NEW body,
                   dl' = [dl EXCEPT ![r] = [dl[r] EXCEPT !.pc = "end", !.slot = slot,
                            !.outcome = outcome, !.reader = reader, !.body = body]]
            PROVE  /\ dl'[r].size = dl[r].size /\ dl'[r].whole = dl[r].whole
                   /\ dl'[r].pc = "end"
        BY <1>0, <4>2 DEF Download
      <4>3. dl' = [dl EXCEPT ![r] = [dl[r] EXCEPT !.pc = "end", !.outcome = "ok"]]
              => /\ dl'[r].size = dl[r].size /\ dl'[r].whole = dl[r].whole
                 /\ dl'[r].pc = "end"
        BY <1>0 DEF Download
      <4>4. PICK body : body = IF dl[r].body = "open" THEN "closed" ELSE dl[r].body
        OBVIOUS
      <4>5. \/ dl' = [dl EXCEPT ![r] = [dl[r] EXCEPT !.pc = "end", !.outcome = "ok"]]
            \/ dl' = [dl EXCEPT ![r] = [dl[r] EXCEPT !.pc = "end", !.slot = FALSE,
                        !.outcome = "problem", !.reader = NoReader, !.body = body]]
        BY <4>1, <4>4
      <4>6. CASE dl' = [dl EXCEPT ![r] = [dl[r] EXCEPT !.pc = "end", !.slot = FALSE,
                          !.outcome = "problem", !.reader = NoReader, !.body = body]]
        BY <4>2, <4>6, Zenon
      <4>7. QED
        BY <4>3, <4>5, <4>6
    <3>3. QED
      BY <3>1, <3>2
  <2>4. QED
    BY <1>0, <2>1, <2>2, <2>3
<1>4. CASE Deny(r)
  BY <1>0, <1>4 DEF Deny, Audited, AuditFails
<1>5. CASE Copy(r) \/ WriteFails(r)
  <2>1. /\ audit' = audit /\ dl[r].pc = "stream"
    BY <1>5 DEF Copy, WriteFails
  <2> DEFINE Last == {"stream", "close"}
  <2> HIDE DEF Last
  <2>2. \E v, k, pc, outcome : /\ pc \in Last
          /\ dl' = [dl EXCEPT ![r] = [AfterRead(dl[r], v, k) EXCEPT !.pc = pc, !.outcome = outcome]]
    <3>1. CASE Copy(r)
      <4>1. PICK v \in BodyRead(r) :
              dl' = [dl EXCEPT ![r] = [AfterRead(dl[r], v, v.n) EXCEPT
                       !.pc = IF v.err = "none" THEN "stream" ELSE "close",
                       !.outcome = CASE v.err = "none" -> "none"
                                     [] v.err = "eof" -> "ok"
                                     [] v.err = "fail" -> "aborted"]]
        BY <3>1 DEF Copy
      <4>2. PICK pc, outcome :
              /\ pc = IF v.err = "none" THEN "stream" ELSE "close"
              /\ outcome = CASE v.err = "none" -> "none"
                             [] v.err = "eof" -> "ok"
                             [] v.err = "fail" -> "aborted"
        OBVIOUS
      <4>3. pc \in Last
        BY <4>2 DEF Last
      <4>4. dl' = [dl EXCEPT ![r] = [AfterRead(dl[r], v, v.n) EXCEPT !.pc = pc, !.outcome = outcome]]
        BY <4>1, <4>2
      <4>5. QED
        BY <4>3, <4>4, Zenon
    <3>2. CASE WriteFails(r)
      <4>1. PICK v \in BodyRead(r) : \E k \in 0..(v.n - 1) :
              dl' = [dl EXCEPT ![r] = [AfterRead(dl[r], v, k) EXCEPT
                       !.pc = "close", !.outcome = "aborted"]]
        BY <3>2 DEF WriteFails
      <4>2. PICK k \in 0..(v.n - 1) :
              dl' = [dl EXCEPT ![r] = [AfterRead(dl[r], v, k) EXCEPT
                       !.pc = "close", !.outcome = "aborted"]]
        BY <4>1
      <4>3. PICK pc, outcome : pc = "close" /\ outcome = "aborted"
        OBVIOUS
      <4>4. /\ pc \in Last
            /\ dl' = [dl EXCEPT ![r] = [AfterRead(dl[r], v, k) EXCEPT !.pc = pc, !.outcome = outcome]]
        BY <4>2, <4>3 DEF Last
      <4>5. QED
        BY <4>4, Zenon
    <3>3. QED
      BY <1>5, <3>1, <3>2
  <2>3. PICK v, k, pc, outcome : /\ pc \in Last
          /\ dl' = [dl EXCEPT ![r] = [AfterRead(dl[r], v, k) EXCEPT !.pc = pc, !.outcome = outcome]]
    BY <2>2
  <2>4. ASSUME NEW reader, NEW sent, NEW body, NEW slot
        PROVE  LET d == [dl[r] EXCEPT !.reader = reader, !.sent = sent, !.body = body,
                                      !.slot = slot]
               IN  d.size = dl[r].size /\ d.whole = dl[r].whole /\ DOMAIN d = DOMAIN dl[r]
    BY <1>0 DEF Download
  <2>5. /\ AfterRead(dl[r], v, k).size = dl[r].size
        /\ AfterRead(dl[r], v, k).whole = dl[r].whole
        /\ DOMAIN AfterRead(dl[r], v, k) = DOMAIN dl[r]
    BY <2>4 DEF AfterRead
  <2>6. {"size", "whole", "pc"} \subseteq DOMAIN dl[r]
    BY <1>0 DEF Download
  <2>7. dl'[r] = [AfterRead(dl[r], v, k) EXCEPT !.pc = pc, !.outcome = outcome]
    BY <1>0, <2>3
  <2>8. /\ dl'[r].size = dl[r].size /\ dl'[r].whole = dl[r].whole
        /\ dl'[r].pc \in {"stream", "close"}
    BY <2>3, <2>5, <2>6, <2>7, ZenonT(40) DEF Last
  <2>9. \A q \in Requests \ {r} : dl'[q] = dl[q]
    BY <1>0, <2>3
  <2>10. QED
    BY <2>1, <2>8, <2>9
<1>6. CASE Close(r)
  BY <1>0, <1>6 DEF Close, Download
<1>7. QED
  BY <1>1, <1>2, <1>3, <1>4, <1>5, <1>6 DEF HandlerStep

LEMMA ServerSettles ==
  ASSUME DeliveryInv, NEW r \in Requests, ServerStep(r)
  PROVE  /\ \A q \in Requests : SettledOK(q)'
         /\ releasedBar' = releasedBar \/ Promise!Release(r)
<1>1. /\ DownloadInv /\ HandlerStep(r) /\ UNCHANGED <<fetch, dest>>
      /\ \A q \in Requests : SettledOK(q)
      /\ dl[r] \in Download
  BY RequestFacts DEF DeliveryInv, FileInv, ServerStep, fileVars
<1>2. /\ \A q \in Requests \ {r} :
           dl'[q] = dl[q] /\ (<<q, "allowed">> \in audit' <=> <<q, "allowed">> \in audit)
      /\ <<r, "allowed">> \in audit => <<r, "allowed">> \in audit'
      /\ dl[r].pc # "end"
      /\ dl[r].pc \in {"allow", "stream", "close"} =>
           dl'[r].size = dl[r].size /\ dl'[r].whole = dl[r].whole
      /\ dl[r].pc \in {"stream", "close"} => dl'[r].pc \in {"stream", "close", "end"}
      /\ <<r, "allowed">> \in audit' /\ <<r, "allowed">> \notin audit =>
           dl[r].pc = "allow" /\ dl'[r].pc \in {"stream", "end"}
  BY <1>1, HandlerRecords
<1>3. \A q \in Requests : SettledOK(q)'
  BY <1>1, <1>2 DEF SettledOK
<1>4. CASE <<r, "allowed">> \in audit \/ <<r, "allowed">> \notin audit'
  <2>1. ASSUME NEW q \in Requests
        PROVE  (IF <<q, "allowed">> \in audit' THEN AttachmentSize(dl'[q]) ELSE Unknown)
                 = (IF <<q, "allowed">> \in audit THEN AttachmentSize(dl[q]) ELSE Unknown)
    BY <1>1, <1>2, <1>4 DEF SettledOK, AttachmentSize
  <2>2. releasedBar' = releasedBar
    BY <2>1 DEF releasedBar
  <2>3. QED
    BY <1>3, <2>2
<1>5. CASE <<r, "allowed">> \notin audit /\ <<r, "allowed">> \in audit'
  <2> DEFINE n == AttachmentSize(dl[r])
  <2>1. n \in Sizes
    BY <1>1 DEF AttachmentSize, Download
  <2>2. AttachmentSize(dl'[r]) = n
    BY <1>2, <1>5 DEF AttachmentSize
  <2> HIDE DEF n
  <2>3. ASSUME NEW q \in Requests
        PROVE  (IF <<q, "allowed">> \in audit' THEN AttachmentSize(dl'[q]) ELSE Unknown)
                 = IF q = r THEN n ELSE releasedBar[q]
    BY <1>2, <1>5, <2>2 DEF releasedBar
  <2>4. releasedBar' = [releasedBar EXCEPT ![r] = n]
    BY <2>3 DEF releasedBar
  <2>5. releasedBar[r] = Unknown
    BY <1>5 DEF releasedBar
  <2>6. stageBar' = stageBar /\ fileBar' = fileBar
    BY <1>1 DEF stageBar, fileBar
  <2>7. QED
    BY <1>3, <2>1, <2>4, <2>5, <2>6 DEF Promise!Release
<1>6. QED
  BY <1>4, <1>5

\* A request that has just come has no record yet, and gets none by coming.
LEMMA ArriveSettles ==
  ASSUME DeliveryInv, NEW p \in Requests, NEW u \in Users, NEW op \in Ops, Arrive(p, u, op)
  PROVE  (\A q \in Requests : SettledOK(q)') /\ releasedBar' = releasedBar
<1>1. /\ FileInv /\ dl[p].pc = "idle" /\ audit' = audit
      /\ \A q \in Requests : SettledOK(q)
  BY DEF DeliveryInv, Arrive
<1>2. <<p, "allowed">> \notin audit /\ \A q \in Requests : q # p => dl'[q] = dl[q]
  BY <1>1, ArriveFile DEF SettledOK
<1>3. \A q \in Requests : SettledOK(q)'
  BY <1>1, <1>2 DEF SettledOK
<1>4. releasedBar' = releasedBar
  BY <1>1, <1>2 DEF releasedBar
<1>5. QED
  BY <1>3, <1>4

\* Process p moves on to record k.
LEMMA StageMoves ==
  ASSUME DeliveryInv, NEW p \in Requests, NEW k, fetch' = [fetch EXCEPT ![p] = k]
  PROVE  /\ stageBar' = [stageBar EXCEPT ![p] = StageOf(k)]
         /\ stageBar[p] = StageOf(fetch[p]) /\ fetch[p] \in Process
<1>1. fetch \in [Requests -> Process]
  BY DEF DeliveryInv, FileInv, FileTypeOK
<1>2. \A q \in Requests : fetch'[q] = IF q = p THEN k ELSE fetch[q]
  BY <1>1
<1>3. QED
  BY <1>1, <1>2 DEF stageBar

\* A step of a process alone leaves the records.
LEMMA ProcessSettles ==
  ASSUME DeliveryInv, UNCHANGED downloadVars
  PROVE  (\A q \in Requests : SettledOK(q)') /\ releasedBar' = releasedBar
BY DEF DeliveryInv, SettledOK, downloadVars, releasedBar

\* What is at the destination stays as it is while its process does not move.
LEMMA FileStays ==
  ASSUME DeliveryInv, NEW p \in Requests, NEW k, fetch' = [fetch EXCEPT ![p] = k],
         dest' = dest, dest # p
  PROVE  fileBar' = fileBar
<1>1. fetch \in [Requests -> Process]
  BY DEF DeliveryInv, FileInv, FileTypeOK
<1>2. dest \in Requests => fetch'[dest] = fetch[dest]
  BY <1>1
<1>3. QED
  BY <1>2 DEF fileBar

\* A process gives up, before its request, while it receives, or before it publishes.
LEMMA GivesUpStep ==
  ASSUME DeliveryInv, NEW p \in Requests, fetch[p].pc \in {"idle", "receive", "publish"},
         fetch' = [fetch EXCEPT ![p] = [fetch[p] EXCEPT !.pc = "error"]],
         UNCHANGED <<downloadVars, dest>>
  PROVE  (\A q \in Requests : SettledOK(q)') /\ Promise!GiveUp(p)
<1>1. /\ \A q \in Requests : SettledOK(q)'
      /\ releasedBar' = releasedBar
  BY ProcessSettles
<1>2. dest # p
  BY DEF DeliveryInv, FileInv, FetchOK
<1>3. fileBar' = fileBar
  BY <1>2, FileStays
<1>4. /\ stageBar' = [stageBar EXCEPT ![p] = StageOf([fetch[p] EXCEPT !.pc = "error"])]
      /\ stageBar[p] = StageOf(fetch[p]) /\ fetch[p] \in Process
  BY StageMoves
<1>5. StageOf([fetch[p] EXCEPT !.pc = "error"]) = "over"
  BY <1>4 DEF StageOf, Process
<1>6. stageBar[p] \in {"idle", "careful", "forced"}
  BY <1>4 DEF StageOf
<1>7. QED
  BY <1>1, <1>3, <1>4, <1>5, <1>6 DEF Promise!GiveUp, Promise!UnderWay

LEMMA BeginStep ==
  ASSUME DeliveryInv, NEW p \in Requests, NEW overwrite \in BOOLEAN, Begin(p, overwrite)
  PROVE  (\A q \in Requests : SettledOK(q)') /\ (Promise!Start(p) \/ Promise!GiveUp(p))
<1>1. fetch[p].pc = "idle" /\ dest' = dest
  BY DEF Begin
<1>2. CASE dest # None /\ ~overwrite
  BY <1>1, <1>2, GivesUpStep DEF Begin
<1>3. CASE ~(dest # None /\ ~overwrite)
  <2>1. PICK u \in Users : Arrive(p, u, "download")
    BY <1>3 DEF Begin
  <2> DEFINE k == [fetch[p] EXCEPT !.pc = "receive", !.overwrite = overwrite]
  <2>2. fetch' = [fetch EXCEPT ![p] = k]
    BY <1>3 DEF Begin
  <2>3. (\A q \in Requests : SettledOK(q)') /\ releasedBar' = releasedBar
    BY <2>1, ArriveSettles DEF Ops
  <2>4. dest # p
    BY <1>1 DEF DeliveryInv, FileInv, FetchOK
  <2>5. fileBar' = fileBar
    <3> HIDE DEF k
    <3>1. QED
      BY <1>1, <2>2, <2>4, FileStays
  <2>6. /\ stageBar' = [stageBar EXCEPT ![p] = StageOf(k)]
        /\ stageBar[p] = StageOf(fetch[p]) /\ fetch[p] \in Process
    <3> HIDE DEF k
    <3>1. QED
      BY <2>2, StageMoves
  <2>7. StageOf(k) = IF overwrite THEN "forced" ELSE "careful"
    BY <2>6 DEF StageOf, Process
  <2>8. stageBar[p] = "idle"
    BY <1>1, <2>6 DEF StageOf
  <2>9. Promise!Start(p)
    BY <2>3, <2>5, <2>6, <2>7, <2>8 DEF Promise!Start
  <2>10. QED
    BY <2>3, <2>9
<1>4. QED
  BY <1>2, <1>3

LEMMA ReceiveStep ==
  ASSUME DeliveryInv, NEW p \in Requests, Receive(p)
  PROVE  /\ \A q \in Requests : SettledOK(q)'
         /\ Promise!GiveUp(p) \/ UNCHANGED Promise!deliveryVars
<1>1. fetch[p].pc = "receive" /\ UNCHANGED <<downloadVars, dest>>
  BY DEF Receive
<1>2. CASE fetch' = [fetch EXCEPT ![p] = [fetch[p] EXCEPT !.pc = "error"]]
  BY <1>1, <1>2, GivesUpStep
<1>3. ASSUME NEW got, fetch' = [fetch EXCEPT ![p] = [fetch[p] EXCEPT !.pc = "publish", !.got = got]]
      PROVE  (\A q \in Requests : SettledOK(q)') /\ UNCHANGED Promise!deliveryVars
  <2> DEFINE k == [fetch[p] EXCEPT !.pc = "publish", !.got = got]
  <2>1. fetch' = [fetch EXCEPT ![p] = k]
    BY <1>3
  <2>2. /\ \A q \in Requests : SettledOK(q)'
        /\ releasedBar' = releasedBar
    BY <1>1, ProcessSettles
  <2>3. dest # p
    BY <1>1 DEF DeliveryInv, FileInv, FetchOK
  <2>4. fileBar' = fileBar
    <3> HIDE DEF k
    <3>1. QED
      BY <1>1, <2>1, <2>3, FileStays
  <2>5. /\ stageBar' = [stageBar EXCEPT ![p] = StageOf(k)]
        /\ stageBar[p] = StageOf(fetch[p]) /\ fetch[p] \in Process
    <3> HIDE DEF k
    <3>1. QED
      BY <2>1, StageMoves
  <2>6. StageOf(k) = StageOf(fetch[p])
    BY <1>1, <2>5 DEF StageOf, Process
  <2>7. stageBar' = stageBar
    BY <2>5, <2>6 DEF stageBar
  <2>8. QED
    BY <2>2, <2>4, <2>7 DEF Promise!deliveryVars
<1>4. QED
  BY <1>2, <1>3 DEF Receive

LEMMA PublishStep ==
  ASSUME DeliveryInv, NEW p \in Requests, Publish(p)
  PROVE  (\A q \in Requests : SettledOK(q)') /\ (Promise!Deliver(p) \/ Promise!GiveUp(p))
<1>1. fetch[p].pc = "publish" /\ UNCHANGED downloadVars /\ fetch \in [Requests -> Process]
  BY DEF Publish, DeliveryInv, FileInv, FileTypeOK
<1>2. CASE ~MayPublish(p)
  BY <1>1, <1>2, GivesUpStep DEF Publish
<1>3. CASE MayPublish(p)
  <2>1. PICK pc \in {"ok", "error"} : fetch' = [fetch EXCEPT ![p] = [fetch[p] EXCEPT !.pc = pc]]
    BY <1>3 DEF Publish
  <2> DEFINE k == [fetch[p] EXCEPT !.pc = pc]
  <2>2. dest' = p
    BY <1>3 DEF Publish
  <2>3. /\ \A q \in Requests : SettledOK(q)'
        /\ releasedBar' = releasedBar
    BY <1>1, ProcessSettles
  <2>4. /\ stageBar' = [stageBar EXCEPT ![p] = StageOf(k)]
        /\ stageBar[p] = StageOf(fetch[p]) /\ fetch[p] \in Process
    <3>1. fetch' = [fetch EXCEPT ![p] = k]
      BY <2>1
    <3> HIDE DEF k
    <3>2. QED
      BY <3>1, StageMoves
  <2>5. StageOf(k) = "over" /\ k.got = fetch[p].got
    BY <2>1, <2>4 DEF StageOf, Process
  <2>6. stageBar[p] = IF fetch[p].overwrite THEN "forced" ELSE "careful"
    BY <1>1, <2>4 DEF StageOf
  <2>7. <<p, "allowed">> \in audit /\ fetch[p].got = AttachmentSize(dl[p])
    <3>1. FetchOK(p) /\ RecordsOK(p, dl[p], audit)
      BY DEF DeliveryInv, FileInv, DownloadInv
    <3>2. QED
      BY <1>1, <3>1 DEF FetchOK, RecordsOK, AttachmentSize
  <2>8. releasedBar[p] = fetch[p].got /\ releasedBar[p] # Unknown
    <3>1. fetch[p].got \in Sizes /\ \A n \in Sizes : n # Unknown
      BY <2>4, DownloadAssumption DEF Process, Sizes, Unknown
    <3>2. QED
      BY <2>7, <3>1 DEF releasedBar
  <2>9. fileBar' = [of |-> p, size |-> releasedBar[p]]
    <3>1. fetch'[p].got = fetch[p].got
      BY <1>1, <2>1, <2>5
    <3>2. QED
      BY <2>2, <2>8, <3>1 DEF fileBar
  <2>10. fileBar.of = dest
    BY DEF fileBar
  <2>11. stageBar[p] = "forced" \/ fileBar.of = None
    BY <1>3, <2>6, <2>10 DEF MayPublish
  <2>12. Promise!Deliver(p)
    BY <2>3, <2>4, <2>5, <2>6, <2>8, <2>9, <2>11 DEF Promise!Deliver, Promise!UnderWay
  <2>13. QED
    BY <2>3, <2>12
<1>4. QED
  BY <1>2, <1>3

LEMMA AppearStep ==
  ASSUME DeliveryInv, ForeignWrite
  PROVE  (\A q \in Requests : SettledOK(q)') /\ Promise!Appear
<1>1. dest = None /\ dest' = Foreign /\ UNCHANGED downloadVars /\ fetch' = fetch
  BY DEF ForeignWrite
<1>2. /\ \A q \in Requests : SettledOK(q)'
      /\ releasedBar' = releasedBar
  BY <1>1, ProcessSettles
<1>3. fileBar.of = None /\ fileBar' = [of |-> Foreign, size |-> 0] /\ stageBar' = stageBar
  BY <1>1, FileAssumption DEF fileBar, stageBar
<1>4. QED
  BY <1>2, <1>3 DEF Promise!Appear

LEMMA DeliveryStep ==
  ASSUME DeliveryInv, [FileNext]_allVars
  PROVE  (\A q \in Requests : SettledOK(q)') /\ [Promise!DNext]_(Promise!deliveryVars)
<1>1. CASE UNCHANGED allVars
  <2>1. UNCHANGED downloadVars /\ UNCHANGED <<fetch, dest>>
    BY <1>1 DEF allVars, fileVars
  <2>2. /\ \A q \in Requests : SettledOK(q)'
        /\ releasedBar' = releasedBar
    BY <2>1, ProcessSettles
  <2>3. stageBar' = stageBar /\ fileBar' = fileBar
    BY <2>1 DEF stageBar, fileBar
  <2>4. QED
    BY <2>2, <2>3 DEF Promise!deliveryVars
<1>2. ASSUME NEW p \in Requests, NEW overwrite \in BOOLEAN, Begin(p, overwrite)
      PROVE  (\A q \in Requests : SettledOK(q)') /\ Promise!DNext
  BY <1>2, BeginStep DEF Promise!DNext
<1>3. ASSUME NEW p \in Requests, NEW u \in Users, Arrive(p, u, "list"), UNCHANGED fileVars
      PROVE  (\A q \in Requests : SettledOK(q)') /\ UNCHANGED Promise!deliveryVars
  <2>1. (\A q \in Requests : SettledOK(q)') /\ releasedBar' = releasedBar
    BY <1>3, ArriveSettles DEF Ops
  <2>2. stageBar' = stageBar /\ fileBar' = fileBar
    BY <1>3 DEF stageBar, fileBar, fileVars
  <2>3. QED
    BY <2>1, <2>2 DEF Promise!deliveryVars
<1>4. ASSUME NEW p \in Requests, ServerStep(p)
      PROVE  (\A q \in Requests : SettledOK(q)') /\ [Promise!DNext]_(Promise!deliveryVars)
  <2>1. (\A q \in Requests : SettledOK(q)') /\ (releasedBar' = releasedBar \/ Promise!Release(p))
    BY <1>4, ServerSettles
  <2>2. stageBar' = stageBar /\ fileBar' = fileBar
    BY <1>4 DEF ServerStep, stageBar, fileBar, fileVars
  <2>3. QED
    BY <2>1, <2>2 DEF Promise!deliveryVars, Promise!DNext
<1>5. ASSUME NEW p \in Requests, Receive(p)
      PROVE  (\A q \in Requests : SettledOK(q)') /\ [Promise!DNext]_(Promise!deliveryVars)
  BY <1>5, ReceiveStep DEF Promise!DNext
<1>6. ASSUME NEW p \in Requests, ReceiveProblem(p) \/ Killed(p)
      PROVE  (\A q \in Requests : SettledOK(q)') /\ Promise!DNext
  <2>1. /\ fetch[p].pc \in {"idle", "receive", "publish"} /\ UNCHANGED <<downloadVars, dest>>
        /\ fetch' = [fetch EXCEPT ![p] = [fetch[p] EXCEPT !.pc = "error"]]
    BY <1>6 DEF ReceiveProblem, Killed
  <2>2. QED
    BY <2>1, GivesUpStep DEF Promise!DNext
<1>7. ASSUME NEW p \in Requests, Publish(p)
      PROVE  (\A q \in Requests : SettledOK(q)') /\ Promise!DNext
  BY <1>7, PublishStep DEF Promise!DNext
<1>8. CASE ForeignWrite
  BY <1>8, AppearStep DEF Promise!DNext
<1>9. QED
  BY <1>1, <1>2, <1>3, <1>4, <1>5, <1>6, <1>7, <1>8 DEF FileNext, FileQuiescent

\* DownloadFile implements Delivery: whatever broker, audit table, connection and other
\* processes do, an attachment appears at the destination in one step, whole, after its
\* allowed record, and not again once its process has ended.
THEOREM DeliveryRefinement == FileSpec => ImplementsDelivery
<1>1. FileInit => DeliveryInv
  <2>1. FileInit => \A q \in Requests : SettledOK(q)
    BY DEF FileInit, DownloadInit, SettledOK
  <2>2. QED
    BY <2>1, FileInitInv DEF DeliveryInv
<1>2. DeliveryInv /\ [FileNext]_allVars => DeliveryInv' /\ [Promise!DNext]_(Promise!deliveryVars)
  <2> SUFFICES ASSUME DeliveryInv, [FileNext]_allVars
               PROVE  DeliveryInv' /\ [Promise!DNext]_(Promise!deliveryVars)
    OBVIOUS
  <2>1. FileInv'
    BY FileStepInv DEF DeliveryInv
  <2>2. (\A q \in Requests : SettledOK(q)') /\ [Promise!DNext]_(Promise!deliveryVars)
    BY DeliveryStep
  <2>3. QED
    BY <2>1, <2>2 DEF DeliveryInv
<1>3. FileInit => Promise!DInit
  <2> SUFFICES ASSUME FileInit PROVE Promise!DInit
    OBVIOUS
  <2>1. /\ audit = {} /\ dest \in {None, Foreign} /\ dest \notin Requests
        /\ fetch = [p \in Requests |-> [pc |-> "idle", overwrite |-> FALSE, got |-> 0]]
    BY FileAssumption DEF FileInit, DownloadInit
  <2>2. stageBar = [p \in Requests |-> "idle"]
    BY <2>1 DEF stageBar, StageOf
  <2>3. releasedBar = [p \in Requests |-> Unknown]
    BY <2>1 DEF releasedBar
  <2>4. fileBar = [of |-> dest, size |-> 0]
    BY <2>1 DEF fileBar
  <2>5. QED
    BY <2>1, <2>2, <2>3, <2>4 DEF Promise!DInit
<1>4. QED
  BY <1>1, <1>2, <1>3, PTL DEF FileSpec, ImplementsDelivery, Promise!DSpec
=============================================================================

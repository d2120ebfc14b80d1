------------------------- MODULE VisibleCatalogProofs -------------------------
(***************************************************************************)
(* Proofs about the catalog of approval templates, for any numbers of      *)
(* users, commands and templates, any changes at DingTalk, and any limits. *)
(***************************************************************************)
EXTENDS VisibleCatalog, FiniteSetTheorems, TLAPS

-----------------------------------------------------------------------------
(* Sets of templates, and what was shown of them.                          *)

\* The rank of a template in a catalog is between 1 and the catalog's size.
LEMMA RankBounds ==
  ASSUME NEW S \in Catalog
  PROVE  /\ Cardinality(S) \in Nat
         /\ \A t \in S : Rank(S, t) \in 1..Cardinality(S)
<1>1. IsFiniteSet(S) /\ Cardinality(S) \in Nat
  BY FS_Subset, FS_CardinalityType, CatalogAssumption DEF Catalog
<1>2. ASSUME NEW t \in S PROVE Rank(S, t) \in 1..Cardinality(S)
  <2> DEFINE below == {s \in S : s <= t}
  <2>1. below \in SUBSET S /\ t \in below
    BY CatalogAssumption DEF Catalog
  <2>2. IsFiniteSet(below) /\ Cardinality(below) <= Cardinality(S)
    BY <1>1, <2>1, FS_Subset
  <2>3. Cardinality(below) \in Nat /\ Cardinality(below) # 0
    BY <2>1, <2>2, FS_CardinalityType, FS_EmptySet
  <2>4. QED
    BY <1>1, <2>2, <2>3 DEF Rank
<1>3. QED
  BY <1>1, <1>2

\* An earlier bound asks for less.
LEMMA ShownEarlier ==
  ASSUME CatalogTypeOK, NEW u \in Users, NEW S \in Catalog, NEW a \in Int, NEW b \in Int,
         b <= a, ShownSince(u, S, a)
  PROVE  ShownSince(u, S, b)
<1>1. \A t \in S : withdrawn[u][t] \in Int
  BY DEF CatalogTypeOK, Catalog, Times
<1>2. QED
  BY <1>1 DEF ShownSince

\* What is withdrawn is withdrawn now.
LEMMA ShownAfterChange ==
  ASSUME CatalogTypeOK, NEW v \in Users, NEW x \in Templates, Change(v, x),
         NEW u \in Users, NEW S \in Catalog, NEW a \in Int, a <= now, ShownSince(u, S, a)
  PROVE  ShownSince(u, S, a)'
<1>1. now \in 0..Horizon
  BY DEF CatalogTypeOK, Times
<1>2. CASE x \in shown[v]
  <2>1. /\ shown' = [shown EXCEPT ![v] = shown[v] \ {x}]
        /\ withdrawn' = [withdrawn EXCEPT ![v] = [withdrawn[v] EXCEPT ![x] = now]]
    BY <1>2 DEF Change
  <2>2. shown \in [Users -> Catalog] /\ withdrawn \in [Users -> [Templates -> Times \cup {-1}]]
    BY DEF CatalogTypeOK
  <2>3. \A t \in S : t \in shown[u] => t \in shown'[u] \/ (u = v /\ t = x)
    BY <2>1, <2>2 DEF Catalog
  <2>4. \A t \in S : withdrawn'[u][t] = IF u = v /\ t = x THEN now ELSE withdrawn[u][t]
    BY <2>1, <2>2 DEF Catalog
  <2>5. QED
    BY <1>1, <2>3, <2>4, CatalogAssumption DEF ShownSince
<1>3. CASE x \notin shown[v]
  <2>1. \A t \in S : t \in shown[u] => t \in shown'[u]
    BY <1>3 DEF Change, CatalogTypeOK, Catalog
  <2>2. withdrawn' = withdrawn
    BY <1>3 DEF Change
  <2>3. QED
    BY <2>1, <2>2 DEF ShownSince
<1>4. QED
  BY <1>2, <1>3

-----------------------------------------------------------------------------
(* The clock, and the changes at DingTalk.                                 *)

LEMMA TickInv == ASSUME CatalogInv, Tick PROVE CatalogInv'
<1>0. now' = now + 1 /\ now \in 0..Horizon /\ now' \in 0..Horizon
  BY CatalogAssumption DEF Tick, CatalogInv, CatalogTypeOK, Times
<1>1. UNCHANGED <<shown, withdrawn, changes, cache, load, walk>>
  BY DEF Tick, environmentVars
<1>2. CatalogTypeOK'
  BY <1>0, <1>1 DEF CatalogInv, CatalogTypeOK, Times, Held
<1>3. \A u, S, a : ShownSince(u, S, a)' <=> ShownSince(u, S, a)
  BY <1>1 DEF ShownSince
<1>4. StoredOK'
  <2>1. \A u \in Users : cache[u].loadedAt \in Int /\ load[u].at \in Int
    BY DEF CatalogInv, CatalogTypeOK, Entry, Load, Times
  <2>2. QED
    BY <1>0, <1>1, <1>3, <2>1 DEF CatalogInv, StoredOK
<1>5. \A w \in Walkers : WalkOK(walk[w])'
  <2> SUFFICES ASSUME NEW w \in Walkers PROVE WalkOK(walk[w])'
    OBVIOUS
  <2>1. walk[w].at \in Int /\ LoadTimeout \in Nat /\ WalkOK(walk[w])
    BY CatalogAssumption DEF CatalogInv, CatalogTypeOK, Walk, Times
  <2>2. /\ walk[w].at <= now + 1
        /\ walk[w].pc = "timeout" => walk[w].at + LoadTimeout <= now + 1
    BY <1>0, <2>1 DEF WalkOK
  <2>3. QED
    BY <1>0, <1>1, <1>3, <2>1, <2>2 DEF WalkOK, ListedOK
<1>6. QED
  BY <1>2, <1>4, <1>5 DEF CatalogInv

LEMMA ChangeInv ==
  ASSUME CatalogInv, NEW v \in Users, NEW x \in Templates, Change(v, x) PROVE CatalogInv'
<1>0. UNCHANGED <<now, cache, load, walk>> /\ now \in Int /\ CatalogTypeOK
  BY DEF Change, CatalogInv, CatalogTypeOK, Times
<1>1. CatalogTypeOK'
  <2>1. shown' \in [Users -> Catalog] /\ changes' \in 0..MaxChanges
    BY CatalogAssumption, SMTT(30) DEF Change, CatalogInv, CatalogTypeOK, Catalog
  <2>2. withdrawn' \in [Users -> [Templates -> Times \cup {-1}]]
    <3>1. /\ withdrawn \in [Users -> [Templates -> Times \cup {-1}]]
          /\ withdrawn[v] \in [Templates -> Times \cup {-1}] /\ now \in Times
      BY DEF CatalogInv, CatalogTypeOK
    <3>2. [withdrawn[v] EXCEPT ![x] = now] \in [Templates -> Times \cup {-1}]
      BY <3>1
    <3>3. \/ withdrawn' = withdrawn
          \/ withdrawn' = [withdrawn EXCEPT ![v] = [withdrawn[v] EXCEPT ![x] = now]]
      BY DEF Change
    <3>4. QED
      BY <3>1, <3>2, <3>3
  <2>3. QED
    BY <1>0, <2>1, <2>2 DEF CatalogTypeOK, Held
<1>2. StoredOK'
  <2> SUFFICES ASSUME NEW u \in Users PROVE StoredOK!(u)'
    BY DEF StoredOK
  <2>1. /\ cache[u].categories \in Catalog /\ cache[u].loadedAt \in Int
        /\ load[u].acc \in Catalog /\ load[u].at \in Int
    BY DEF CatalogInv, CatalogTypeOK, Entry, Load, Times
  <2>2. cache[u].held => ShownSince(u, cache[u].categories, cache[u].loadedAt)'
    <3>1. PICK S \in Catalog, a \in Int : S = cache[u].categories /\ a = cache[u].loadedAt
      BY <2>1
    <3>2. cache[u].held => a <= now /\ ShownSince(u, S, a)
      BY <3>1 DEF CatalogInv, StoredOK
    <3>3. cache[u].held => ShownSince(u, S, a)'
      BY <1>0, <3>2, ShownAfterChange
    <3>4. QED
      BY <1>0, <3>1, <3>3
  <2>3. ShownSince(u, load[u].acc, load[u].at)'
    <3>1. PICK S \in Catalog, a \in Int : S = load[u].acc /\ a = load[u].at
      BY <2>1
    <3>2. a <= now /\ ShownSince(u, S, a)
      BY <3>1 DEF CatalogInv, StoredOK
    <3>3. ShownSince(u, S, a)'
      BY <1>0, <3>2, ShownAfterChange
    <3>4. QED
      BY <1>0, <3>1, <3>3
  <2>4. QED
    BY <1>0, <2>2, <2>3 DEF CatalogInv, StoredOK
<1>3. ASSUME NEW w \in Walkers PROVE WalkOK(walk[w])'
  <2>1. walk[w].got \in Catalog /\ walk[w].at \in Int /\ walk[w].at - CacheTTL + 1 \in Int
    BY CatalogAssumption DEF CatalogInv, CatalogTypeOK, Walk, Times
  <2>2. walk[w].at <= now /\ walk[w].at - CacheTTL + 1 <= now
    BY <1>0, <2>1, CatalogAssumption DEF CatalogInv, WalkOK
  <2>3. walk[w].pc = "page" =>
          ShownSince(walk[w].user, walk[w].got, walk[w].at - CacheTTL + 1)'
    <3> SUFFICES ASSUME walk[w].pc = "page"
                 PROVE ShownSince(walk[w].user, walk[w].got, walk[w].at - CacheTTL + 1)'
      BY <1>0
    <3>1. PICK u \in Users, S \in Catalog, a \in Int :
            u = walk[w].user /\ S = walk[w].got /\ a = walk[w].at - CacheTTL + 1
      BY <2>1 DEF CatalogInv, WalkOK
    <3>2. a <= now /\ ShownSince(u, S, a)
      BY <2>2, <3>1 DEF CatalogInv, WalkOK
    <3>3. ShownSince(u, S, a)'
      BY <1>0, <3>2, ShownAfterChange
    <3>4. QED
      BY <1>0, <3>1, <3>3
  <2>4. QED
    BY <1>0, <2>3 DEF CatalogInv, WalkOK, ListedOK
<1>4. QED
  BY <1>0, <1>1, <1>2, <1>3 DEF CatalogInv

-----------------------------------------------------------------------------
(* The commands.                                                           *)

LEMMA OneWalk ==
  ASSUME CatalogInv, NEW w \in Walkers, NEW k \in Walk, WalkOK(k),
         walk' = [walk EXCEPT ![w] = k], UNCHANGED <<now, environmentVars, cache, load>>
  PROVE  CatalogInv'
<1>1. UNCHANGED <<now, shown, withdrawn, changes, cache, load>>
  BY DEF environmentVars
<1>2. walk \in [Walkers -> Walk]
  BY DEF CatalogInv, CatalogTypeOK
<1>3. \A q : WalkOK(q)' <=> WalkOK(q)
  BY <1>1 DEF WalkOK, ListedOK, ShownSince
<1>4. \A q \in Walkers : WalkOK(walk'[q])
  BY <1>2 DEF CatalogInv
<1>5. \A q \in Walkers : WalkOK(walk[q])'
  <2>1. \A q : WalkOK(walk[q])' <=> WalkOK(walk'[q])
    BY <1>1 DEF WalkOK, ListedOK, ShownSince
  <2>2. QED
    BY <1>4, <2>1
<1>6. CatalogTypeOK' /\ StoredOK'
  BY <1>1, <1>2 DEF CatalogInv, CatalogTypeOK, StoredOK, ShownSince, Held
<1>7. QED
  BY <1>5, <1>6 DEF CatalogInv

\* A command that moves on and is given nothing.
LEMMA MovesInv ==
  ASSUME CatalogInv, NEW w \in Walkers, NEW u \in Users, NEW pc \in {"lookup", "join"},
         walk[w].pc \in {"idle", "lookup", "partial"},
         walk' = [walk EXCEPT ![w] = [walk[w] EXCEPT !.pc = pc, !.user = u]],
         UNCHANGED <<now, environmentVars, cache, load>>
  PROVE  CatalogInv'
<1> DEFINE k == [walk[w] EXCEPT !.pc = pc, !.user = u]
<1>1. /\ k \in Walk
      /\ k.pc = pc /\ k.user = u /\ k.at = walk[w].at /\ k.cursor = walk[w].cursor
      /\ k.listed = walk[w].listed /\ k.got = walk[w].got
  BY DEF CatalogInv, CatalogTypeOK, Walk
<1>2. walk' = [walk EXCEPT ![w] = k]
  OBVIOUS
<1> HIDE DEF k
<1>3. WalkOK(k)
  BY <1>1 DEF CatalogInv, WalkOK, ListedOK
<1>4. QED
  BY <1>1, <1>2, <1>3, OneWalk

LEMMA FailedOK == ASSUME CatalogInv PROVE Failed \in Walk /\ WalkOK(Failed) /\ Failed.pc = "error"
<1>1. /\ Failed.pc = "error" /\ Failed.at = 0 /\ Failed.cursor = NoCursor /\ Failed.listed = {}
      /\ Failed \in Walk
  BY CatalogAssumption DEF Failed, NoWalk, Walk, Ended, Catalog, Times
<1>2. now \in 0..Horizon
  BY DEF CatalogInv, CatalogTypeOK, Times
<1>3. QED
  BY <1>1, <1>2 DEF WalkOK, ListedOK

LEMMA FailsInv ==
  ASSUME CatalogInv, NEW w \in Walkers, GivesUp(w) \/ PageRefused(w) PROVE CatalogInv'
<1>1. CASE PageRefused(w)
  BY <1>1, FailedOK, OneWalk DEF PageRefused
<1>2. CASE GivesUp(w)
  <2> DEFINE k == [NoWalk EXCEPT !.pc = "cancelled", !.user = walk[w].user]
  <2>1. walk[w].user \in Users \cup {Nobody} /\ now \in 0..Horizon
    BY DEF CatalogInv, CatalogTypeOK, Walk, Times
  <2>2. k \in Walk /\ k.pc = "cancelled" /\ k.at = 0 /\ k.cursor = NoCursor /\ k.listed = {}
    <3>1. NoWalk \in Walk /\ NoWalk.at = 0 /\ NoWalk.cursor = NoCursor /\ NoWalk.listed = {}
      BY CatalogAssumption DEF NoWalk, Walk, Catalog, Times
    <3>2. QED
      BY <2>1, <3>1 DEF Walk, Ended
  <2>3. walk' = [walk EXCEPT ![w] = k] /\ UNCHANGED <<now, environmentVars, cache, load>>
    BY <1>2 DEF GivesUp
  <2> HIDE DEF k
  <2>4. WalkOK(k)
    BY <2>1, <2>2 DEF WalkOK, ListedOK
  <2>5. QED
    BY <2>2, <2>3, <2>4, OneWalk
<1>3. QED
  BY <1>1, <1>2

\* The command is given a catalog.
LEMMA GivenOK ==
  ASSUME CatalogInv, NEW w \in Walkers, NEW S \in Catalog, walk[w].user \in Users,
         walk[w].pc \in {"lookup", "wait"},
         ShownSince(walk[w].user, S, now - CacheTTL + 1)
  PROVE  LET k == [walk[w] EXCEPT !.pc = "page", !.got = S, !.at = now]
         IN  k \in Walk /\ WalkOK(k) /\ k.pc = "page"
<1> DEFINE k == [walk[w] EXCEPT !.pc = "page", !.got = S, !.at = now]
<1>1. /\ k \in Walk
      /\ k.pc = "page" /\ k.user = walk[w].user /\ k.at = now /\ k.cursor = walk[w].cursor
      /\ k.listed = walk[w].listed /\ k.got = S
  BY DEF CatalogInv, CatalogTypeOK, Walk
<1> HIDE DEF k
<1>2. now <= now
  BY DEF CatalogInv, CatalogTypeOK, Times
<1>3. WalkOK(k)
  BY <1>1, <1>2 DEF CatalogInv, WalkOK, ListedOK
<1>4. QED
  BY <1>1, <1>3 DEF k

\* A fresh entry holds nothing withdrawn longer ago than it may live.
LEMMA FreshIsRecent ==
  ASSUME CatalogInv, NEW u \in Users, Fresh(u)
  PROVE  /\ cache[u].categories \in Catalog
         /\ ShownSince(u, cache[u].categories, now - CacheTTL + 1)
<1>1. /\ cache[u].categories \in Catalog /\ cache[u].loadedAt \in Int /\ now \in Int
      /\ now - CacheTTL + 1 \in Int /\ CatalogTypeOK
  BY CatalogAssumption DEF CatalogInv, CatalogTypeOK, Entry, Times
<1>2. /\ now < cache[u].loadedAt + CacheTTL
      /\ ShownSince(u, cache[u].categories, cache[u].loadedAt)
  BY DEF Fresh, CatalogInv, StoredOK
<1>3. now - CacheTTL + 1 <= cache[u].loadedAt
  BY <1>1, <1>2, CatalogAssumption
<1>4. QED
  BY <1>1, <1>2, <1>3, ShownEarlier

LEMMA LookupInv == ASSUME CatalogInv, NEW w \in Walkers, Lookup(w) PROVE CatalogInv'
<1>0. walk[w].user \in Users /\ walk[w].pc = "lookup" /\ walk[w] \in Walk
  BY DEF Lookup, CatalogInv, WalkOK, CatalogTypeOK
<1>1. CASE Fresh(walk[w].user)
  <2> DEFINE S == cache[walk[w].user].categories
             k == [walk[w] EXCEPT !.pc = "page", !.got = S, !.at = now]
  <2>1. S \in Catalog /\ ShownSince(walk[w].user, S, now - CacheTTL + 1)
    BY <1>0, <1>1, FreshIsRecent
  <2>2. walk' = [walk EXCEPT ![w] = k]
    BY <1>1 DEF Lookup
  <2>3. k \in Walk /\ WalkOK(k)
    BY <1>0, <2>1, GivenOK
  <2>4. QED
    BY <2>2, <2>3, OneWalk DEF Lookup
<1>2. CASE ~Fresh(walk[w].user)
  <2>1. walk' = [walk EXCEPT ![w] = [walk[w] EXCEPT !.pc = "join", !.user = walk[w].user]]
    BY <1>0, <1>2 DEF Lookup, Walk
  <2>2. QED
    BY <1>0, <2>1, MovesInv DEF Lookup
<1>3. QED
  BY <1>1, <1>2

LEMMA JoinInv == ASSUME CatalogInv, NEW w \in Walkers, Join(w) PROVE CatalogInv'
<1>0. /\ walk[w].user \in Users /\ walk[w].pc = "join" /\ walk \in [Walkers -> Walk]
      /\ load \in [Users -> Load]
  BY DEF Join, CatalogInv, WalkOK, CatalogTypeOK
<1>1. UNCHANGED <<now, shown, withdrawn, changes, cache>>
  BY DEF Join, environmentVars
<1>2. /\ \A q \in Walkers \ {w} : walk'[q] = walk[q]
      /\ walk'[w].pc = "wait" /\ walk'[w].user = walk[w].user /\ walk'[w].at = walk[w].at
      /\ walk'[w].cursor = walk[w].cursor /\ walk'[w].listed = walk[w].listed
      /\ walk' \in [Walkers -> Walk]
  BY <1>0 DEF Join, Walk
<1>3. /\ load' \in [Users -> Load]
      /\ load'[walk[w].user].pc # "none"
      /\ \A u \in Users : load'[u] # load[u] =>
           load'[u].pc = "start" /\ load'[u].acc = {} /\ load'[u].at = 0
  <2>1. [NoLoad EXCEPT !.pc = "start"] \in Load
        /\ [NoLoad EXCEPT !.pc = "start"].pc = "start" /\ [NoLoad EXCEPT !.pc = "start"].at = 0
        /\ [NoLoad EXCEPT !.pc = "start"].acc = {}
    BY CatalogAssumption DEF NoLoad, Load, Times, Catalog
  <2>2. QED
    BY <1>0, <2>1 DEF Join
<1>4. CatalogTypeOK'
  BY <1>1, <1>2, <1>3 DEF CatalogInv, CatalogTypeOK, Held
<1>5. StoredOK'
  <2> SUFFICES ASSUME NEW u \in Users PROVE StoredOK!(u)'
    BY DEF StoredOK
  <2>1. 0 <= now
    BY DEF CatalogInv, CatalogTypeOK, Times
  <2>2. QED
    BY <1>1, <1>3, <2>1 DEF CatalogInv, StoredOK, ShownSince
<1>6. ASSUME NEW q \in Walkers PROVE WalkOK(walk[q])'
  <2>1. WalkOK(walk[q])
    BY DEF CatalogInv
  <2>2. walk[q].pc = "wait" => load'[walk[q].user].pc # "none"
    BY <1>3, <2>1 DEF WalkOK
  <2>3. CASE q # w
    BY <1>1, <1>2, <2>1, <2>2, <2>3 DEF WalkOK, ListedOK, ShownSince
  <2>4. CASE q = w
    BY <1>0, <1>1, <1>2, <1>3, <2>1, <2>4 DEF WalkOK, ListedOK
  <2>5. QED
    BY <2>3, <2>4
<1>7. QED
  BY <1>4, <1>5, <1>6 DEF CatalogInv

\* The next page, cut after the rank `end`, continues what was listed.
LEMMA PageListed ==
  ASSUME NEW S \in Catalog, NEW offset \in Nat, NEW last \in Nat,
         last = Least(offset + PageSize, Cardinality(S))
  PROVE  /\ {t \in S : Rank(S, t) <= offset} \cup {t \in S : Rank(S, t) \in (offset + 1)..last}
              = {t \in S : Rank(S, t) <= last}
         /\ last = Cardinality(S) => {t \in S : Rank(S, t) <= last} = S
         /\ offset = 0 => {t \in S : Rank(S, t) <= offset} = {}
<1>1. Cardinality(S) \in Nat /\ \A t \in S : Rank(S, t) \in 1..Cardinality(S)
  BY RankBounds
<1>2. \A t \in S : Rank(S, t) <= offset => Rank(S, t) <= last
  BY <1>1, CatalogAssumption DEF Least
<1>3. \A t \in S : Rank(S, t) <= last <=>
         Rank(S, t) <= offset \/ Rank(S, t) \in (offset + 1)..last
  BY <1>1, <1>2
<1>4. QED
  BY <1>1, <1>3

LEMMA PageInv == ASSUME CatalogInv, NEW w \in Walkers, Page(w) PROVE CatalogInv'
<1> DEFINE k == walk[w]
           offset == IF k.cursor = NoCursor THEN 0 ELSE k.cursor.offset
           last == Least(offset + PageSize, Cardinality(k.got))
           listed == k.listed \cup {t \in k.got : Rank(k.got, t) \in (offset + 1)..last}
           next == [user |-> k.user, revision |-> k.got, offset |-> last,
                    issuedAt |-> IF k.cursor = NoCursor THEN now ELSE k.cursor.issuedAt]
           done == [k EXCEPT !.pc = "complete", !.listed = listed]
           more == [k EXCEPT !.pc = "partial", !.got = {}, !.at = 0, !.listed = listed,
                             !.cursor = next]
<1>1. /\ k \in Walk /\ k.pc = "page" /\ k.user \in Users /\ k.got \in Catalog
      /\ k.listed \in Catalog /\ k.cursor \in Cursor \cup {NoCursor} /\ k.at \in Times
      /\ now \in Times /\ WalkOK(k) /\ CursorValid(w)
  <2>1. walk \in [Walkers -> Walk] /\ now \in Times /\ WalkOK(walk[w]) /\ walk[w].pc = "page"
    BY DEF Page, CatalogInv, CatalogTypeOK
  <2>2. walk[w] \in Walk /\ walk[w].user \in Users
    BY <2>1 DEF WalkOK
  <2>3. QED
    BY <2>1, <2>2 DEF Walk, Page
<1>2. /\ k.cursor # NoCursor =>
           /\ k.cursor \in Cursor /\ k.cursor.user = k.user /\ k.cursor.revision = k.got
           /\ k.cursor.offset \in Nat
           /\ k.cursor.issuedAt \in Times /\ k.at <= k.cursor.issuedAt + CursorTTL
      /\ offset \in Nat
  <2>1. k.cursor # NoCursor => k.cursor \in Cursor
    BY <1>1
  <2>2. k.cursor # NoCursor => k.cursor.offset \in Nat /\ k.cursor.issuedAt \in Times
    BY <2>1 DEF Cursor
  <2>3. k.cursor # NoCursor =>
          /\ k.cursor.issuedAt >= now - CursorTTL
          /\ k.cursor.user = k.user /\ k.cursor.revision = k.got
    BY <1>1 DEF CursorValid
  <2>4. k.at <= now
    BY <1>1 DEF WalkOK
  <2>5. k.cursor # NoCursor => k.at <= k.cursor.issuedAt + CursorTTL
    BY <1>1, <2>2, <2>3, <2>4, CatalogAssumption DEF Times
  <2>6. QED
    BY <2>1, <2>2, <2>3, <2>5
<1>3. Cardinality(k.got) \in Nat /\ last \in Nat
  BY <1>1, <1>2, RankBounds, CatalogAssumption DEF Least
<1>4. k.listed = {t \in k.got : Rank(k.got, t) <= offset}
  <2>1. ListedOK(k)
    BY <1>1 DEF WalkOK
  <2>2. CASE k.cursor = NoCursor
    BY <1>1, <1>2, <1>3, <2>1, <2>2, PageListed DEF ListedOK
  <2>3. CASE k.cursor # NoCursor
    BY <1>2, <2>1, <2>3 DEF ListedOK
  <2>4. QED
    BY <2>2, <2>3
<1>5. /\ listed = {t \in k.got : Rank(k.got, t) <= last}
      /\ last = Cardinality(k.got) => listed = k.got
      /\ listed \in Catalog
  <2>1. listed = {t \in k.got : Rank(k.got, t) <= last}
    BY <1>1, <1>2, <1>3, <1>4, PageListed
  <2>2. last = Cardinality(k.got) => listed = k.got
    BY <1>1, <1>2, <1>3, <2>1, PageListed
  <2>3. listed \in Catalog
    BY <1>1 DEF Catalog
  <2>4. QED
    BY <2>1, <2>2, <2>3
<1>6. CASE walk' = [walk EXCEPT ![w] = done] /\ last = Cardinality(k.got)
  <2>1. /\ done \in Walk
        /\ done.pc = "complete" /\ done.listed = listed /\ done.got = k.got /\ done.user = k.user
        /\ done.at = k.at /\ done.cursor = k.cursor
    <3> HIDE DEF listed
    <3>1. QED
      BY <1>1, <1>5 DEF Walk, Ended
  <2> HIDE DEF done
  <2>2. WalkOK(done)
    BY <1>1, <1>2, <1>5, <1>6, <2>1 DEF WalkOK
  <2>3. QED
    BY <1>6, <2>1, <2>2, OneWalk DEF Page
<1>7. CASE walk' = [walk EXCEPT ![w] = more]
  <2>1. /\ next \in Cursor /\ next.revision = k.got /\ next.offset = last
    <3>1. (IF k.cursor = NoCursor THEN now ELSE k.cursor.issuedAt) \in Times
      BY <1>1, <1>2
    <3> HIDE DEF last
    <3>2. QED
      BY <1>1, <1>3, <3>1 DEF Cursor
  <2>2. next # NoCursor
    <3>1. NoCursor.offset = -1 /\ next.offset \in Nat
      BY <1>3, <2>1 DEF NoCursor
    <3>2. QED
      BY <3>1
  <2>3. /\ more \in Walk
        /\ more.pc = "partial" /\ more.listed = listed /\ more.user = k.user /\ more.at = 0
        /\ more.cursor = next
    <3> HIDE DEF listed, next
    <3>1. {} \in Catalog /\ 0 \in Times
      BY CatalogAssumption DEF Catalog, Times
    <3>2. QED
      BY <1>1, <1>5, <2>1, <3>1 DEF Walk
  <2> HIDE DEF more
  <2>4. WalkOK(more)
    <3> HIDE DEF next, listed
    <3>1. 0 <= now
      BY <1>1 DEF Times
    <3>2. ListedOK(more)
      BY <1>5, <2>1, <2>2, <2>3 DEF ListedOK
    <3>3. QED
      BY <1>1, <2>3, <3>1, <3>2 DEF WalkOK
  <2>5. QED
    BY <1>7, <2>3, <2>4, OneWalk DEF Page
<1>8. QED
  BY <1>6, <1>7 DEF Page

-----------------------------------------------------------------------------
(* The loads.                                                              *)

\* The load of u ends: those who waited for it go on as they should, and the others
\* still have theirs.
LEMMA LoadEndsInv ==
  ASSUME CatalogInv, NEW u \in Users, NEW f \in [Walkers -> Walk], LoadEnds(u, f),
         UNCHANGED <<now, environmentVars>>,
         cache' \in [Users -> Entry], Cardinality(Held)' <= MaxEntries,
         \A v \in Users : cache'[v].held =>
           \/ cache'[v] = cache[v]
           \/ /\ cache'[v].loadedAt <= now
              /\ cache'[v].expiresAt = cache'[v].loadedAt + CacheTTL
              /\ ShownSince(v, cache'[v].categories, cache'[v].loadedAt),
         \A w \in Walkers : walk[w].pc = "wait" /\ walk[w].user = u =>
           f[w].pc # "wait" /\ WalkOK(f[w])
  PROVE  CatalogInv'
<1>1. UNCHANGED <<now, shown, withdrawn, changes>>
  BY DEF environmentVars
<1>2. walk' \in [Walkers -> Walk] /\ walk \in [Walkers -> Walk]
  BY DEF CatalogInv, CatalogTypeOK, LoadEnds
<1>3. /\ load' \in [Users -> Load] /\ load'[u].pc = "none" /\ load'[u].at = 0 /\ load'[u].acc = {}
      /\ \A v \in Users \ {u} : load'[v] = load[v]
  <2>1. NoLoad \in Load /\ NoLoad.pc = "none" /\ NoLoad.at = 0 /\ NoLoad.acc = {}
    BY CatalogAssumption DEF NoLoad, Load, Times, Catalog
  <2>2. QED
    BY <2>1 DEF CatalogInv, CatalogTypeOK, LoadEnds
<1>4. CatalogTypeOK'
  BY <1>1, <1>2, <1>3 DEF CatalogInv, CatalogTypeOK
<1>5. StoredOK'
  <2> SUFFICES ASSUME NEW v \in Users PROVE StoredOK!(v)'
    BY DEF StoredOK
  <2>1. 0 <= now
    BY DEF CatalogInv, CatalogTypeOK, Times
  <2>2. /\ load'[v].at <= now
        /\ ShownSince(v, load'[v].acc, load'[v].at)
        /\ load'[v].pc = "start" => load'[v].acc = {}
    BY <1>3, <2>1 DEF CatalogInv, StoredOK, ShownSince
  <2>3. cache'[v].held =>
          /\ cache'[v].loadedAt <= now /\ cache'[v].expiresAt = cache'[v].loadedAt + CacheTTL
          /\ ShownSince(v, cache'[v].categories, cache'[v].loadedAt)
    BY DEF CatalogInv, StoredOK
  <2>4. QED
    BY <1>1, <2>2, <2>3 DEF CatalogInv, StoredOK, ShownSince
<1>6. ASSUME NEW w \in Walkers PROVE WalkOK(walk[w])'
  <2>1. CASE walk[w].pc = "wait" /\ walk[w].user = u
    <3>1. walk'[w] = f[w] /\ f[w].pc # "wait" /\ WalkOK(f[w])
      BY <2>1 DEF LoadEnds
    <3>2. QED
      BY <1>1, <3>1 DEF WalkOK, ListedOK, ShownSince
  <2>2. CASE ~(walk[w].pc = "wait" /\ walk[w].user = u)
    <3>1. walk'[w] = walk[w] /\ WalkOK(walk[w])
      BY <2>2 DEF LoadEnds, CatalogInv
    <3>2. walk[w].pc = "wait" => load'[walk[w].user] = load[walk[w].user]
      BY <1>3, <2>2, <3>1 DEF WalkOK
    <3>3. QED
      BY <1>1, <3>1, <3>2 DEF WalkOK, ListedOK, ShownSince
  <2>3. QED
    BY <2>1, <2>2
<1>7. QED
  BY <1>4, <1>5, <1>6 DEF CatalogInv

\* Storing a catalog keeps the cache within its limit, and its other entries as they are.
LEMMA EnteredInv ==
  ASSUME CatalogInv, NEW u \in Users, NEW S \in Catalog, NEW stamp \in Times,
         NEW kept \in SUBSET Held, Cardinality(kept \cup {u}) <= MaxEntries,
         stamp <= now, ShownSince(u, S, stamp), Entered(u, S, stamp, kept)
  PROVE  /\ cache' \in [Users -> Entry] /\ Cardinality(Held)' <= MaxEntries
         /\ \A v \in Users : cache'[v].held =>
              \/ cache'[v] = cache[v]
              \/ /\ cache'[v].loadedAt <= now
                 /\ cache'[v].expiresAt = cache'[v].loadedAt + CacheTTL
                 /\ ShownSince(v, cache'[v].categories, cache'[v].loadedAt)
<1> DEFINE e == [held |-> TRUE, categories |-> S, loadedAt |-> stamp, expiresAt |-> stamp + CacheTTL]
<1>1. /\ e \in Entry /\ e.held /\ e.categories = S /\ e.loadedAt = stamp
      /\ e.expiresAt = stamp + CacheTTL
      /\ NoEntry \in Entry /\ ~NoEntry.held
  BY CatalogAssumption DEF Entry, NoEntry, Times, Catalog
<1>2. cache' = [v \in Users |-> IF v = u THEN e ELSE IF v \in kept THEN cache[v] ELSE NoEntry]
  BY DEF Entered
<1> HIDE DEF e
<1>3. cache \in [Users -> Entry]
  BY DEF CatalogInv, CatalogTypeOK
<1>4. cache' \in [Users -> Entry]
  BY <1>1, <1>2, <1>3
<1>5. Held' = kept \cup {u}
  BY <1>1, <1>2 DEF Held
<1>6. ASSUME NEW v \in Users, cache'[v].held
      PROVE  \/ cache'[v] = cache[v]
             \/ /\ cache'[v].loadedAt <= now
                /\ cache'[v].expiresAt = cache'[v].loadedAt + CacheTTL
                /\ ShownSince(v, cache'[v].categories, cache'[v].loadedAt)
  <2>1. CASE v = u
    BY <1>1, <1>2, <2>1
  <2>2. CASE v # u
    BY <1>1, <1>2, <1>6, <2>2
  <2>3. QED
    BY <2>1, <2>2
<1>7. QED
  BY <1>4, <1>5, <1>6

LEMMA StoreInv ==
  ASSUME CatalogInv, NEW u \in Users, NEW S \in Catalog, NEW stamp \in Times,
         stamp <= now, ShownSince(u, S, stamp), Store(u, S, stamp)
  PROVE  /\ cache' \in [Users -> Entry] /\ Cardinality(Held)' <= MaxEntries
         /\ \A v \in Users : cache'[v].held =>
              \/ cache'[v] = cache[v]
              \/ /\ cache'[v].loadedAt <= now
                 /\ cache'[v].expiresAt = cache'[v].loadedAt + CacheTTL
                 /\ ShownSince(v, cache'[v].categories, cache'[v].loadedAt)
<1>1. /\ IsFiniteSet(Held) /\ Cardinality(Held) <= MaxEntries
      /\ Live(stamp) \in SUBSET Held
  <2>1. Held \in SUBSET Users
    BY DEF Held
  <2>2. QED
    BY <2>1, FS_Subset, CatalogAssumption DEF CatalogInv, CatalogTypeOK, Live
<1>2. /\ IsFiniteSet(Live(stamp)) /\ Cardinality(Live(stamp)) <= Cardinality(Held)
      /\ Cardinality(Live(stamp)) \in Nat /\ Cardinality(Held) \in Nat /\ MaxEntries \in Nat
  BY <1>1, FS_Subset, FS_CardinalityType, CatalogAssumption
<1>3. CASE u \notin Live(stamp) /\ Cardinality(Live(stamp)) >= MaxEntries
  <2>1. PICK v \in Oldest(Live(stamp)) : Entered(u, S, stamp, Live(stamp) \ {v})
    BY <1>3 DEF Store, StoredAt
  <2>2. v \in Live(stamp)
    BY DEF Oldest
  <2>3. /\ IsFiniteSet(Live(stamp) \ {v})
        /\ Cardinality(Live(stamp) \ {v}) = Cardinality(Live(stamp)) - 1
    BY <1>2, <2>2, FS_RemoveElement
  <2>4. Cardinality((Live(stamp) \ {v}) \cup {u}) = Cardinality(Live(stamp)) - 1 + 1
    BY <1>3, <2>3, FS_AddElement
  <2>5. Cardinality((Live(stamp) \ {v}) \cup {u}) <= MaxEntries
    BY <1>1, <1>2, <2>4
  <2>6. Live(stamp) \ {v} \in SUBSET Held
    BY <1>1
  <2>7. QED
    BY <2>1, <2>5, <2>6, EnteredInv
<1>4. CASE ~(u \notin Live(stamp) /\ Cardinality(Live(stamp)) >= MaxEntries)
  <2>1. Entered(u, S, stamp, Live(stamp))
    BY <1>4 DEF Store, StoredAt
  <2>2. Cardinality(Live(stamp) \cup {u}) <= MaxEntries
    <3>1. CASE u \in Live(stamp)
      <4>1. Live(stamp) \cup {u} = Live(stamp)
        BY <3>1
      <4>2. Cardinality(Live(stamp) \cup {u}) = Cardinality(Live(stamp))
        BY ONLY <4>1, Zenon
      <4>3. QED
        BY <1>1, <1>2, <4>2
    <3>2. CASE u \notin Live(stamp)
      <4>1. Cardinality(Live(stamp) \cup {u}) = Cardinality(Live(stamp)) + 1
        BY <1>2, <3>2, FS_AddElement
      <4>2. QED
        BY <1>2, <1>4, <3>2, <4>1
    <3>3. QED
      BY <3>1, <3>2
  <2>3. QED
    BY <1>1, <2>1, <2>2, EnteredInv
<1>5. QED
  BY <1>3, <1>4

\* Everybody who waits for the load of u is given S.
LEMMA LoadedInv ==
  ASSUME CatalogInv, NEW u \in Users, NEW S \in Catalog, Loaded(u, S),
         ShownSince(u, S, now - CacheTTL + 1), UNCHANGED <<now, environmentVars>>,
         cache' \in [Users -> Entry], Cardinality(Held)' <= MaxEntries,
         \A v \in Users : cache'[v].held =>
           \/ cache'[v] = cache[v]
           \/ /\ cache'[v].loadedAt <= now
              /\ cache'[v].expiresAt = cache'[v].loadedAt + CacheTTL
              /\ ShownSince(v, cache'[v].categories, cache'[v].loadedAt)
  PROVE  CatalogInv'
<1> DEFINE f == [w \in Walkers |-> [walk[w] EXCEPT !.pc = "page", !.got = S, !.at = now]]
<1>1. walk \in [Walkers -> Walk] /\ now \in Times
  BY DEF CatalogInv, CatalogTypeOK
<1>2. f \in [Walkers -> Walk]
  <2>1. \A w \in Walkers : [walk[w] EXCEPT !.pc = "page", !.got = S, !.at = now] \in Walk
    BY <1>1 DEF Walk
  <2>2. QED
    BY <2>1
<1>3. LoadEnds(u, f)
  BY DEF Loaded
<1>4. ASSUME NEW w \in Walkers, walk[w].pc = "wait" /\ walk[w].user = u
      PROVE  f[w].pc # "wait" /\ WalkOK(f[w])
  <2> DEFINE k == [walk[w] EXCEPT !.pc = "page", !.got = S, !.at = now]
  <2>1. k.pc = "page" /\ WalkOK(k)
    BY <1>4, GivenOK
  <2>2. f[w] = k
    OBVIOUS
  <2> HIDE DEF k, f
  <2>3. QED
    BY <2>1, <2>2
<1> HIDE DEF f
<1>5. QED
  BY <1>2, <1>3, <1>4, LoadEndsInv

LEMMA LoadStartsInv == ASSUME CatalogInv, NEW u \in Users, LoadStarts(u) PROVE CatalogInv'
<1>1. CASE Fresh(u)
  <2>1. cache[u].categories \in Catalog /\ ShownSince(u, cache[u].categories, now - CacheTTL + 1)
    BY <1>1, FreshIsRecent
  <2>2. Loaded(u, cache[u].categories) /\ UNCHANGED <<now, environmentVars, cache>>
    BY <1>1 DEF LoadStarts
  <2>3. cache' \in [Users -> Entry] /\ Cardinality(Held)' <= MaxEntries
    BY <2>2 DEF CatalogInv, CatalogTypeOK, Held
  <2>4. \A v \in Users : cache'[v] = cache[v]
    BY <2>2
  <2>5. QED
    BY <2>1, <2>2, <2>3, <2>4, LoadedInv
<1>2. CASE ~Fresh(u)
  <2>1. /\ load' = [load EXCEPT ![u] = [load[u] EXCEPT !.pc = "fetch", !.at = now]]
        /\ UNCHANGED <<now, shown, withdrawn, changes, cache, walk>>
        /\ load[u].pc = "start"
    BY <1>2 DEF LoadStarts, environmentVars
  <2>2. load \in [Users -> Load] /\ now \in Times
    BY DEF CatalogInv, CatalogTypeOK
  <2>3. /\ load' \in [Users -> Load] /\ load'[u].pc = "fetch" /\ load'[u].at = now
        /\ load'[u].acc = load[u].acc
        /\ \A v \in Users \ {u} : load'[v] = load[v]
    BY <2>1, <2>2 DEF Load
  <2>4. load[u].acc = {}
    BY <2>1 DEF CatalogInv, StoredOK
  <2>5. CatalogTypeOK'
    BY <2>1, <2>3 DEF CatalogInv, CatalogTypeOK, Held
  <2>6. StoredOK'
    <3>1. now <= now
      BY <2>2 DEF Times
    <3>2. QED
      BY <2>1, <2>3, <2>4, <3>1 DEF CatalogInv, StoredOK, ShownSince
  <2>7. ASSUME NEW w \in Walkers PROVE WalkOK(walk[w])'
    <3>1. WalkOK(walk[w])
      BY DEF CatalogInv
    <3>2. walk[w].pc = "wait" => load'[walk[w].user].pc # "none"
      BY <2>3, <3>1 DEF WalkOK
    <3>3. QED
      BY <2>1, <3>1, <3>2 DEF WalkOK, ListedOK, ShownSince
  <2>8. QED
    BY <2>5, <2>6, <2>7 DEF CatalogInv
<1>3. QED
  BY <1>1, <1>2

LEMMA FetchPageInv ==
  ASSUME CatalogInv, NEW u \in Users, NEW part \in Catalog, FetchPage(u, part) PROVE CatalogInv'
<1>1. /\ load' = [load EXCEPT ![u] = [load[u] EXCEPT !.pages = load[u].pages + 1,
                                                     !.acc = load[u].acc \cup part]]
      /\ UNCHANGED <<now, shown, withdrawn, changes, cache, walk>>
      /\ load[u].pc = "fetch" /\ load[u].pages < MaxPages /\ part \subseteq shown[u]
  BY DEF FetchPage, Pages, environmentVars
<1>2. load \in [Users -> Load] /\ load[u].pages + 1 \in 0..MaxPages /\ load[u].acc \cup part \in Catalog
  BY <1>1, CatalogAssumption DEF CatalogInv, CatalogTypeOK, Load, Catalog
<1>3. /\ load' \in [Users -> Load] /\ load'[u].pc = "fetch" /\ load'[u].at = load[u].at
      /\ load'[u].acc = load[u].acc \cup part
      /\ \A v \in Users \ {u} : load'[v] = load[v]
  BY <1>1, <1>2 DEF Load
<1>4. CatalogTypeOK'
  BY <1>1, <1>3 DEF CatalogInv, CatalogTypeOK, Held
<1>5. StoredOK'
  <2> SUFFICES ASSUME NEW v \in Users PROVE StoredOK!(v)'
    BY DEF StoredOK
  <2>1. load'[v].at = load[v].at /\ load'[v].pc = load[v].pc
    BY <1>1, <1>3
  <2>2. ShownSince(v, load'[v].acc, load[v].at) /\ (load[v].pc = "start" => load'[v].acc = {})
    BY <1>1, <1>3 DEF CatalogInv, StoredOK, ShownSince
  <2>3. QED
    BY <1>1, <2>1, <2>2 DEF CatalogInv, StoredOK, ShownSince
<1>6. ASSUME NEW w \in Walkers PROVE WalkOK(walk[w])'
  <2>1. WalkOK(walk[w])
    BY DEF CatalogInv
  <2>2. walk[w].pc = "wait" => load'[walk[w].user].pc # "none"
    BY <1>3, <2>1 DEF WalkOK
  <2>3. QED
    BY <1>1, <2>1, <2>2 DEF WalkOK, ListedOK, ShownSince
<1>7. QED
  BY <1>4, <1>5, <1>6 DEF CatalogInv

LEMMA FetchLastPageInv == ASSUME CatalogInv, NEW u \in Users, FetchLastPage(u) PROVE CatalogInv'
<1> DEFINE S == load[u].acc \cup shown[u]
<1>1. /\ S \in Catalog /\ load[u].at \in Times /\ now \in Times /\ load[u].at <= now
      /\ load[u].at \in Int /\ now - CacheTTL + 1 \in Int /\ CatalogTypeOK
  BY CatalogAssumption DEF CatalogInv, CatalogTypeOK, StoredOK, Load, Catalog, Times
<1>2. ShownSince(u, S, load[u].at)
  BY DEF FetchLastPage, Pages, CatalogInv, StoredOK, ShownSince
<1>3. now - CacheTTL + 1 <= load[u].at
  BY <1>1, CatalogAssumption DEF FetchLastPage, Pages, Times
<1>4. Store(u, S, load[u].at) /\ Loaded(u, S) /\ UNCHANGED <<now, environmentVars>>
  BY DEF FetchLastPage
<1> HIDE DEF S
<1>5. ShownSince(u, S, now - CacheTTL + 1)
  BY <1>1, <1>2, <1>3, ShownEarlier
<1>6. QED
  BY <1>1, <1>2, <1>4, <1>5, StoreInv, LoadedInv

LEMMA FetchFailsInv == ASSUME CatalogInv, NEW u \in Users, FetchFails(u) PROVE CatalogInv'
<1> DEFINE f == [w \in Walkers |-> Failed]
<1>1. f \in [Walkers -> Walk] /\ \A w \in Walkers : f[w].pc # "wait" /\ WalkOK(f[w])
  BY FailedOK
<1>2. LoadEnds(u, f) /\ UNCHANGED <<now, environmentVars, cache>>
  BY DEF FetchFails
<1> HIDE DEF f
<1>3. cache' \in [Users -> Entry] /\ Cardinality(Held)' <= MaxEntries
  BY <1>2 DEF CatalogInv, CatalogTypeOK, Held
<1>4. \A v \in Users : cache'[v] = cache[v]
  BY <1>2
<1>5. QED
  BY <1>1, <1>2, <1>3, <1>4, LoadEndsInv

LEMMA LoadTimesOutInv == ASSUME CatalogInv, NEW u \in Users, LoadTimesOut(u) PROVE CatalogInv'
<1> DEFINE k == [NoWalk EXCEPT !.pc = "timeout", !.at = load[u].at]
           f == [w \in Walkers |-> k]
<1>1. /\ load[u].at \in Times /\ load[u].at <= now /\ load[u].at + LoadTimeout <= now
  BY CatalogAssumption DEF LoadTimesOut, LoadContextDone, CatalogInv, CatalogTypeOK, StoredOK,
                           Load, Times
<1>2. /\ k \in Walk /\ k.pc = "timeout" /\ k.at = load[u].at /\ k.cursor = NoCursor
      /\ k.listed = {}
  BY <1>1, CatalogAssumption DEF NoWalk, Walk, Ended, Catalog
<1>3. LoadEnds(u, f) /\ UNCHANGED <<now, environmentVars, cache>>
  BY DEF LoadTimesOut
<1> HIDE DEF k
<1>4. WalkOK(k)
  BY <1>1, <1>2 DEF WalkOK, ListedOK
<1>5. f \in [Walkers -> Walk] /\ \A w \in Walkers : f[w].pc # "wait" /\ WalkOK(f[w])
  BY <1>2, <1>4
<1> HIDE DEF f
<1>6. cache' \in [Users -> Entry] /\ Cardinality(Held)' <= MaxEntries
  BY <1>3 DEF CatalogInv, CatalogTypeOK, Held
<1>7. \A v \in Users : cache'[v] = cache[v]
  BY <1>3
<1>8. QED
  BY <1>3, <1>5, <1>6, <1>7, LoadEndsInv

-----------------------------------------------------------------------------
(* The theorems.                                                           *)

LEMMA CatalogInitInv == CatalogInit => CatalogInv
<1> SUFFICES ASSUME CatalogInit PROVE CatalogInv
  OBVIOUS
<1>1. /\ NoEntry \in Entry /\ ~NoEntry.held
      /\ NoLoad \in Load /\ NoLoad.pc = "none" /\ NoLoad.at = 0 /\ NoLoad.acc = {}
      /\ NoWalk \in Walk /\ NoWalk.pc = "idle" /\ NoWalk.at = 0 /\ NoWalk.cursor = NoCursor
      /\ NoWalk.listed = {}
  BY CatalogAssumption DEF NoEntry, Entry, NoLoad, Load, NoWalk, Walk, Times, Catalog
<1>2. Held = {}
  BY <1>1 DEF CatalogInit, Held
<1>3. CatalogTypeOK
  BY <1>1, <1>2, FS_EmptySet, CatalogAssumption DEF CatalogInit, CatalogTypeOK, Catalog, Times
<1>4. StoredOK /\ \A w \in Walkers : WalkOK(walk[w])
  BY <1>1, CatalogAssumption DEF CatalogInit, StoredOK, WalkOK, ListedOK, ShownSince
<1>5. QED
  BY <1>3, <1>4 DEF CatalogInv

LEMMA CatalogStepInv == CatalogInv /\ [CatalogNext]_catalogVars => CatalogInv'
<1> SUFFICES ASSUME CatalogInv, [CatalogNext]_catalogVars PROVE CatalogInv'
  OBVIOUS
<1>1. CASE UNCHANGED catalogVars
  <2>1. UNCHANGED <<now, shown, withdrawn, changes, cache, load, walk>>
    BY <1>1 DEF catalogVars, environmentVars
  <2>2. QED
    BY <2>1 DEF CatalogInv, CatalogTypeOK, Held, StoredOK, WalkOK, ListedOK, ShownSince
<1>2. ASSUME NEW u \in Users, LoadStep(u) PROVE CatalogInv'
  BY <1>2, LoadStartsInv, FetchLastPageInv, FetchFailsInv, LoadTimesOutInv, FetchPageInv DEF LoadStep
<1>3. ASSUME NEW w \in Walkers, NEW u \in Users, Begin(w, u) \/ Resume(w, u) PROVE CatalogInv'
  <2>1. /\ walk' = [walk EXCEPT ![w] = [walk[w] EXCEPT !.pc = "lookup", !.user = u]]
        /\ walk[w].pc \in {"idle", "partial"} /\ UNCHANGED <<now, environmentVars, cache, load>>
    BY <1>3 DEF Begin, Resume
  <2>2. QED
    BY <2>1, MovesInv
<1>4. QED
  BY <1>1, <1>2, <1>3, TickInv, ChangeInv, LookupInv, JoinInv, FailsInv, PageInv
  DEF CatalogNext, CatalogQuiescent

\* The invariant of the catalog holds for any number of users, commands and templates.
THEOREM CatalogInvariance == CatalogSpec => []CatalogInv
BY CatalogInitInv, CatalogStepInv, PTL DEF CatalogSpec

\* The cache never outgrows its limit.
THEOREM CatalogTypeCorrect == CatalogSpec => []CatalogTypeOK
<1>1. CatalogInv => CatalogTypeOK
  BY DEF CatalogInv
<1>2. QED
  BY <1>1, CatalogInvariance, PTL

\* No answer holds a template that was withdrawn longer ago than the cache lives.
THEOREM AnswersAreFresh == CatalogSpec => []CatalogIsFresh
<1>1. ASSUME CatalogInv, NEW w \in Walkers, walk[w].pc = "page", NEW t \in walk[w].got
      PROVE  \/ t \in shown[walk[w].user]
             \/ /\ withdrawn[walk[w].user][t] >= 0
                /\ withdrawn[walk[w].user][t] > walk[w].at - CacheTTL
  <2>1. /\ walk[w].user \in Users /\ walk[w].got \in Catalog /\ walk[w].at \in Int
        /\ ShownSince(walk[w].user, walk[w].got, walk[w].at - CacheTTL + 1)
    BY <1>1 DEF CatalogInv, CatalogTypeOK, WalkOK, Walk, Times
  <2>2. t \in Templates /\ withdrawn[walk[w].user][t] \in Int /\ CacheTTL \in Int
    <3>1. t \in Templates /\ CacheTTL \in Int
      BY <1>1, <2>1, CatalogAssumption DEF Catalog
    <3>2. withdrawn \in [Users -> [Templates -> Times \cup {-1}]]
      BY <1>1 DEF CatalogInv, CatalogTypeOK
    <3>3. withdrawn[walk[w].user][t] \in Times \cup {-1}
      BY <2>1, <3>1, <3>2
    <3>4. QED
      BY <3>1, <3>3 DEF Times
  <2>3. PICK a \in Int, b \in Int : a = walk[w].at /\ b = withdrawn[walk[w].user][t]
    BY <2>1, <2>2
  <2>4. t \in shown[walk[w].user] \/ (b >= 0 /\ b >= a - CacheTTL + 1)
    BY <1>1, <2>1, <2>3 DEF ShownSince
  <2>5. b >= a - CacheTTL + 1 => b > a - CacheTTL
    BY <2>2
  <2>6. QED
    BY <2>3, <2>4, <2>5
<1>2. CatalogInv => CatalogIsFresh
  BY <1>1 DEF CatalogIsFresh
<1>3. QED
  BY <1>2, CatalogInvariance, PTL

\* A listing that says it is complete is all of one catalog of one user.
THEOREM ListingsAreWhole == CatalogSpec => []ListingIsWhole
<1>1. CatalogInv => ListingIsWhole
  BY DEF CatalogInv, WalkOK, ListingIsWhole
<1>2. QED
  BY <1>1, CatalogInvariance, PTL

\* Whoever waits for a catalog has a load to wait for, and is told that it timed out only
\* after a load that had all its time.
THEOREM NobodyIsStranded == CatalogSpec => []LoadsOutliveRequests
<1>1. CatalogInv => LoadsOutliveRequests
  BY DEF CatalogInv, WalkOK, LoadsOutliveRequests
<1>2. QED
  BY <1>1, CatalogInvariance, PTL
=============================================================================

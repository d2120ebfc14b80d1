---------------------------- MODULE VisibleCatalog ----------------------------
(***************************************************************************)
(* The catalog of approval templates that DingTalk shows a user, which the *)
(* broker caches and pages out (internal/approvals/catalog.go and          *)
(* VisibleCategories of service.go), and the client that follows the pages *)
(* (command_my_categories).  One load per user is under way at a time; it  *)
(* serves every request that waits for it and outlives the one that        *)
(* started it.  A template stands for its code and its names: a renamed    *)
(* template is another one.  One keyword is in use.                        *)
(***************************************************************************)
EXTENDS Integers, FiniteSets

CONSTANTS
  Walkers,      \* client commands that list the catalog
  Users,
  Nobody,       \* no user
  Templates,    \* in the order of the listing: numbers
  CacheTTL,     \* visibleCatalogCacheTTL
  LoadTimeout,  \* visibleCatalogLoadTimeout
  CursorTTL,    \* defaultCursorTTL
  MaxEntries,   \* maxVisibleCatalogEntries
  MaxPages,     \* maxVisibleTemplatePages
  PageSize,     \* categoryPageSize
  MaxChanges,   \* bound: so often DingTalk's administrators change what is shown
  Horizon       \* bound: the clock stops here

ASSUME CatalogAssumption ==
  /\ Nobody \notin Users
  /\ IsFiniteSet(Users) /\ IsFiniteSet(Templates) /\ Templates \subseteq Nat
  /\ {CacheTTL, LoadTimeout, CursorTTL, MaxChanges, Horizon} \subseteq Nat
  /\ {MaxEntries, MaxPages, PageSize} \subseteq Nat \ {0}
  /\ LoadTimeout < CacheTTL

VARIABLES
  now,        \* the clock
  shown,      \* shown[u]: the templates DingTalk shows user u
  withdrawn,  \* withdrawn[u][t]: when t was last taken from u (history)
  changes,    \* how often shown has changed
  cache,      \* catalogCache
  load,       \* catalogLoads: the load of user u under way
  walk        \* the commands, each with the request it has at the broker

environmentVars == <<shown, withdrawn, changes>>
catalogVars == <<now, environmentVars, cache, load, walk>>

Catalog == SUBSET Templates
Times == 0..Horizon

Entry == [held : BOOLEAN, categories : Catalog, loadedAt : Times, expiresAt : Nat]
NoEntry == [held |-> FALSE, categories |-> {}, loadedAt |-> 0, expiresAt |-> 0]

\* at is the refreshTime of a load.
Load == [pc : {"none", "start", "fetch"}, at : Times, pages : 0..MaxPages, acc : Catalog]
NoLoad == [pc |-> "none", at |-> 0, pages |-> 0, acc |-> {}]

\* A signed cursor; its revision is a hash of the catalog it was issued for.
Cursor == [user : Users, revision : Catalog, offset : Nat, issuedAt : Times]
NoCursor == [offset |-> -1]

\* got is the catalog of the current request and at when it was obtained; listed
\* is what the command has been given so far.  A command whose load timed out
\* remembers when that load began, one that was cancelled for whom it asked.
Ended == {"complete", "error", "timeout", "cancelled"}
Walk == [pc : {"idle", "lookup", "join", "wait", "page", "partial"} \cup Ended,
         user : Users \cup {Nobody}, cursor : Cursor \cup {NoCursor}, got : Catalog, at : Times,
         listed : Catalog]
NoWalk == [pc |-> "idle", user |-> Nobody, cursor |-> NoCursor, got |-> {}, at |-> 0,
           listed |-> {}]
Failed == [NoWalk EXCEPT !.pc = "error"]

Held == {u \in Users : cache[u].held}

CatalogTypeOK ==
  /\ now \in Times
  /\ shown \in [Users -> Catalog]
  /\ withdrawn \in [Users -> [Templates -> Times \cup {-1}]]
  /\ changes \in 0..MaxChanges
  /\ cache \in [Users -> Entry] /\ Cardinality(Held) <= MaxEntries
  /\ load \in [Users -> Load]
  /\ walk \in [Walkers -> Walk]

CatalogInit ==
  /\ now = 0
  /\ shown = [u \in Users |-> Templates]
  /\ withdrawn = [u \in Users |-> [t \in Templates |-> -1]]
  /\ changes = 0
  /\ cache = [u \in Users |-> NoEntry]
  /\ load = [u \in Users |-> NoLoad]
  /\ walk = [w \in Walkers |-> NoWalk]

Tick == /\ now < Horizon
        /\ now' = now + 1
        /\ UNCHANGED <<environmentVars, cache, load, walk>>

\* DingTalk shows a user one template more, or one less.
Change(u, t) ==
  /\ changes < MaxChanges
  /\ changes' = changes + 1
  /\ IF t \in shown[u]
     THEN /\ shown' = [shown EXCEPT ![u] = @ \ {t}]
          /\ withdrawn' = [withdrawn EXCEPT ![u] = [@ EXCEPT ![t] = now]]
     ELSE shown' = [shown EXCEPT ![u] = @ \cup {t}] /\ UNCHANGED withdrawn
  /\ UNCHANGED <<now, cache, load, walk>>

-----------------------------------------------------------------------------
(* visibleCatalog: the request's side.                                     *)

Fresh(u) == cache[u].held /\ now < cache[u].expiresAt

Lookup(w) ==
  LET u == walk[w].user IN
  /\ walk[w].pc = "lookup"
  /\ walk' = [walk EXCEPT ![w] =
       IF Fresh(u) THEN [@ EXCEPT !.pc = "page", !.got = cache[u].categories, !.at = now]
                   ELSE [@ EXCEPT !.pc = "join"]]
  /\ UNCHANGED <<now, environmentVars, cache, load>>

\* DoChan: the load under way is joined, or one is started.
Join(w) ==
  LET u == walk[w].user IN
  /\ walk[w].pc = "join"
  /\ walk' = [walk EXCEPT ![w] = [@ EXCEPT !.pc = "wait"]]
  /\ load' = [load EXCEPT ![u] = IF @.pc = "none" THEN [NoLoad EXCEPT !.pc = "start"] ELSE @]
  /\ UNCHANGED <<now, environmentVars, cache>>

\* The request's context ends; the load goes on.
GivesUp(w) ==
  /\ walk[w].pc = "wait"
  /\ walk' = [walk EXCEPT ![w] = [NoWalk EXCEPT !.pc = "cancelled", !.user = walk[w].user]]
  /\ UNCHANGED <<now, environmentVars, cache, load>>

-----------------------------------------------------------------------------
(* visibleCatalog: the load.                                               *)

\* The load of u ends, and all who wait for it go on as outcome says.
LoadEnds(u, outcome) ==
  /\ load' = [load EXCEPT ![u] = NoLoad]
  /\ walk' = [w \in Walkers |->
       IF walk[w].pc = "wait" /\ walk[w].user = u THEN outcome[w] ELSE walk[w]]

Loaded(u, categories) ==
  LoadEnds(u, [w \in Walkers |->
    [walk[w] EXCEPT !.pc = "page", !.got = categories, !.at = now]])

\* The cache is looked at again: another load may have filled it since.
LoadStarts(u) ==
  /\ load[u].pc = "start"
  /\ IF Fresh(u)
     THEN Loaded(u, cache[u].categories)
     ELSE /\ load' = [load EXCEPT ![u] = [@ EXCEPT !.pc = "fetch", !.at = now]]
          /\ UNCHANGED walk
  /\ UNCHANGED <<now, environmentVars, cache>>

\* storeVisibleCatalog: with the time the load began, entries that had expired by
\* then are dropped, then, for a user who has none, the oldest of a full cache.
Live(stamp) == {u \in Held : stamp < cache[u].expiresAt}
Oldest(S) == {u \in S : \A v \in S : cache[u].loadedAt <= cache[v].loadedAt}

Entered(u, categories, stamp, kept) ==
  cache' = [v \in Users |->
    IF v = u THEN [held |-> TRUE, categories |-> categories, loadedAt |-> stamp,
                   expiresAt |-> stamp + CacheTTL]
    ELSE IF v \in kept THEN cache[v] ELSE NoEntry]

StoredAt(u, categories, stamp) ==
  IF u \notin Live(stamp) /\ Cardinality(Live(stamp)) >= MaxEntries
  THEN \E v \in Oldest(Live(stamp)) : Entered(u, categories, stamp, Live(stamp) \ {v})
  ELSE Entered(u, categories, stamp, Live(stamp))

\* Operators named Defect... are faulty variants of the operator that follows
\* them; each property of a run is known to fail with one of them in its place.
DefectNoEviction(u, categories, stamp) == Entered(u, categories, stamp, Live(stamp))
DefectStoredLate(u, categories, stamp) == StoredAt(u, categories, now)
Store(u, categories, stamp) == StoredAt(u, categories, stamp)

\* fetchVisibleCatalog, one page: some of what the user is shown now, and on the last
\* page all that is left of it.
Pages(u) == load[u].pc = "fetch" /\ load[u].pages < MaxPages /\ now <= load[u].at + LoadTimeout

FetchPage(u, part) ==
  /\ Pages(u)
  /\ part \subseteq shown[u] /\ part # shown[u]
  /\ load' = [load EXCEPT ![u] = [@ EXCEPT !.pages = load[u].pages + 1,
                                              !.acc = load[u].acc \cup part]]
  /\ UNCHANGED <<now, environmentVars, cache, walk>>

FetchLastPage(u) ==
  /\ Pages(u)
  /\ Store(u, load[u].acc \cup shown[u], load[u].at)
  /\ Loaded(u, load[u].acc \cup shown[u])
  /\ UNCHANGED <<now, environmentVars>>

\* The load's own context: it is not the context of the request that started it.
DefectRequestContext(u) ==
  \/ now >= load[u].at + LoadTimeout
  \/ \E w \in Walkers : walk[w].pc = "cancelled" /\ walk[w].user = u
LoadContextDone(u) == now >= load[u].at + LoadTimeout

LoadTimesOut(u) ==
  /\ load[u].pc = "fetch" /\ LoadContextDone(u)
  /\ LoadEnds(u, [w \in Walkers |-> [NoWalk EXCEPT !.pc = "timeout", !.at = load[u].at]])
  /\ UNCHANGED <<now, environmentVars, cache>>

\* An error of DingTalk, a malformed or oversized page, or a page too many.
FetchFails(u) ==
  /\ load[u].pc = "fetch"
  /\ LoadEnds(u, [w \in Walkers |-> Failed])
  /\ UNCHANGED <<now, environmentVars, cache>>

-----------------------------------------------------------------------------
(* VisibleCategories, and the command that follows its pages.              *)

Begin(w, u) ==
  /\ walk[w].pc = "idle"
  /\ walk' = [walk EXCEPT ![w] = [@ EXCEPT !.pc = "lookup", !.user = u]]
  /\ UNCHANGED <<now, environmentVars, cache, load>>

\* The next page: of the same command, or of one that takes up, perhaps under another
\* login, the cursor of a listing that stopped at its --max-pages.
Resume(w, u) ==
  /\ walk[w].pc = "partial"
  /\ walk' = [walk EXCEPT ![w] = [@ EXCEPT !.pc = "lookup", !.user = u]]
  /\ UNCHANGED <<now, environmentVars, cache, load>>

DefectNoRevision(w) ==
  LET k == walk[w] IN
  k.cursor # NoCursor =>
    /\ k.cursor.issuedAt >= now - CursorTTL
    /\ k.cursor.user = k.user
    /\ k.cursor.offset <= Cardinality(k.got)

CursorValid(w) ==
  LET k == walk[w] IN
  k.cursor # NoCursor =>
    /\ k.cursor.issuedAt >= now - CursorTTL
    /\ k.cursor.user = k.user
    /\ k.cursor.revision = k.got /\ k.cursor.offset <= Cardinality(k.got)

Rank(S, t) == Cardinality({s \in S : s <= t})
Least(a, b) == IF a < b THEN a ELSE b

Page(w) ==
  LET k == walk[w]
      offset == IF k.cursor = NoCursor THEN 0 ELSE k.cursor.offset
      end == Least(offset + PageSize, Cardinality(k.got))
      listed == k.listed \cup {t \in k.got : Rank(k.got, t) \in (offset + 1)..end}
  IN
  /\ k.pc = "page" /\ CursorValid(w)
  /\ \/ /\ end = Cardinality(k.got)
        /\ walk' = [walk EXCEPT ![w] = [k EXCEPT !.pc = "complete", !.listed = listed]]
     \/ /\ end < Cardinality(k.got)
        /\ walk' = [walk EXCEPT ![w] = [k EXCEPT
               !.pc = "partial", !.got = {}, !.at = 0, !.listed = listed,
               !.cursor = [user |-> k.user, revision |-> k.got, offset |-> end,
                           issuedAt |-> IF k.cursor = NoCursor THEN now ELSE k.cursor.issuedAt]]]
  /\ UNCHANGED <<now, environmentVars, cache, load>>

PageRefused(w) ==
  /\ walk[w].pc = "page" /\ ~CursorValid(w)
  /\ walk' = [walk EXCEPT ![w] = Failed]
  /\ UNCHANGED <<now, environmentVars, cache, load>>

-----------------------------------------------------------------------------

LoadStep(u) ==
  \/ LoadStarts(u) \/ FetchLastPage(u) \/ FetchFails(u) \/ LoadTimesOut(u)
  \/ \E part \in Catalog : FetchPage(u, part)

CatalogQuiescent ==
  /\ now = Horizon /\ changes = MaxChanges
  /\ \A w \in Walkers : walk[w].pc \in Ended
  /\ \A u \in Users : load[u].pc = "none"
  /\ UNCHANGED catalogVars

CatalogNext ==
  \/ Tick \/ CatalogQuiescent
  \/ \E u \in Users : LoadStep(u) \/ \E t \in Templates : Change(u, t)
  \/ \E w \in Walkers :
       \/ Lookup(w) \/ Join(w) \/ GivesUp(w) \/ Page(w) \/ PageRefused(w)
       \/ \E u \in Users : Begin(w, u) \/ Resume(w, u)

CatalogSpec == CatalogInit /\ [][CatalogNext]_catalogVars

-----------------------------------------------------------------------------
(* Properties.                                                             *)

\* A template that was taken from a user is in no answer to that user for longer
\* than the cache's time to live ("It is cached in memory for one minute",
\* docs/architecture.md), however long the load took and whoever started it; and no
\* answer holds a template the user was never shown.
CatalogIsFresh ==
  \A w \in Walkers : LET k == walk[w] IN
    k.pc = "page" => \A t \in k.got :
      t \in shown[k.user] \/ (withdrawn[k.user][t] >= 0 /\ withdrawn[k.user][t] > k.at - CacheTTL)

\* A listing that says it is complete is all of one catalog of one user, though its
\* pages are answered from several loads, evictions and logins, and it took no
\* longer than its first cursor lives.
ListingIsWhole ==
  \A w \in Walkers : LET k == walk[w] IN
    k.pc = "complete" =>
      /\ k.listed = k.got
      /\ k.cursor # NoCursor => k.cursor.user = k.user /\ k.at <= k.cursor.issuedAt + CursorTTL

\* A load is not ended by the requests that it serves, whichever of them started it and
\* gave up: who waits for a catalog has a load to wait for, and is told that it timed
\* out only after a load that had all its time (visibleCatalog runs the load on a
\* context of its own), also while loads of other users come and go.
LoadsOutliveRequests ==
  \A w \in Walkers :
    /\ walk[w].pc = "wait" => load[walk[w].user].pc # "none"
    /\ walk[w].pc = "timeout" => walk[w].at + LoadTimeout <= now

-----------------------------------------------------------------------------
(* The inductive invariant.                                                *)

\* What DingTalk showed u at some time since `since`.
ShownSince(u, S, since) ==
  \A t \in S : t \in shown[u] \/ (withdrawn[u][t] >= 0 /\ withdrawn[u][t] >= since)

\* Whatever is stored or being fetched was shown after the time it is stored under.
StoredOK ==
  \A u \in Users :
    /\ cache[u].held =>
         /\ cache[u].loadedAt <= now /\ cache[u].expiresAt = cache[u].loadedAt + CacheTTL
         /\ ShownSince(u, cache[u].categories, cache[u].loadedAt)
    /\ load[u].at <= now
    /\ ShownSince(u, load[u].acc, load[u].at) /\ (load[u].pc = "start" => load[u].acc = {})

\* A command in the middle of a listing has been given the first templates of the
\* catalog its cursor was issued for.
ListedOK(k) ==
  IF k.cursor = NoCursor THEN k.listed = {}
  ELSE k.listed = {t \in k.cursor.revision : Rank(k.cursor.revision, t) <= k.cursor.offset}

WalkOK(k) ==
  /\ k.at <= now
  /\ k.pc \in {"lookup", "join", "wait", "page", "partial", "complete"} => k.user \in Users
  /\ k.pc = "wait" => load[k.user].pc # "none"
  /\ k.pc = "timeout" => k.at + LoadTimeout <= now
  /\ k.pc = "page" => ShownSince(k.user, k.got, k.at - CacheTTL + 1)
  /\ IF k.pc = "complete"
     THEN /\ k.listed = k.got
          /\ k.cursor # NoCursor => k.cursor.user = k.user /\ k.at <= k.cursor.issuedAt + CursorTTL
     ELSE ListedOK(k)

CatalogInv == CatalogTypeOK /\ StoredOK /\ \A w \in Walkers : WalkOK(walk[w])
=============================================================================

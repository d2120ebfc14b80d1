------------------------------ MODULE RateLimits ------------------------------
(***************************************************************************)
(* The two limiters a request passes: one bucket per source network in     *)
(* front of the router (internal/httpapi/rate_limiter.go), and one per     *)
(* user in front of Search (internal/approvals/limiter.go).  Both count in *)
(* fixed windows that begin with a bucket's first request.  Each Allow     *)
(* runs under a mutex and reads the clock inside it: it is one step.       *)
(***************************************************************************)
EXTENDS Integers, FiniteSets, Sequences, Functions

CONSTANTS
  Networks,     \* normalised keys: IPv4 addresses and IPv6 /64 prefixes
  Addresses,    \* the addresses in use
  NetworkOf,    \* the network of an address
  Trusted,      \* TRUSTED_PROXY_CIDRS
  Origins,      \* the addresses clients connect from
  Forgeries,    \* what clients may write into X-Forwarded-For: its hops, and whether the
                \* header that arrives exceeds maxForwardedForBytes
  Users,        \* users of Search
  Overflow,     \* overflowRateLimitKey
  MaxEntries,   \* maxRateLimitEntries
  MaxHops,      \* maxForwardedForHops
  MaxStates,    \* so many states are kept before expired ones are pruned
  Limit,        \* requests per window of a network
  SearchLimit,  \* searches per window of a user
  Window,       \* a minute, for both limiters
  PruneAge,     \* ten minutes
  PruneEvery,   \* a thousand requests
  MaxProxies,   \* bound: so many proxies pass a request on
  MaxRequests,  \* bound: so many requests are made
  Horizon       \* bound: the clock stops here

ASSUME LimitsAssumption ==
  /\ IsFiniteSet(Networks) /\ Overflow \notin Networks
  /\ NetworkOf \in [Addresses -> Networks]
  /\ Trusted \subseteq Addresses
  /\ Origins \subseteq Addresses \ Trusted
  /\ \A f \in Forgeries :
       /\ f.hops \in Seq(Range(f.hops))
       /\ f.long \in BOOLEAN
       /\ f.long => f.hops # << >>
  /\ MaxEntries \in Nat \ {0} /\ MaxHops \in Nat /\ MaxStates \in Nat
  /\ Limit \in Nat \ {0} /\ SearchLimit \in Nat \ {0}
  /\ Window \in Nat \ {0} /\ PruneAge \in Nat /\ Window <= PruneAge
  /\ PruneEvery \in Nat \ {0}
  /\ MaxProxies \in Nat /\ MaxRequests \in Nat /\ Horizon \in Nat

VARIABLES
  now,       \* the clock, which is monotonic
  entries,   \* rateLimiter.entries: a bucket per key
  requests,  \* rateLimiter.requests
  states,    \* searchRateLimiter.states: a bucket per user
  waiting,   \* users whose search has passed the first limiter
  admitted,  \* history: the requests the first limiter let through in the last window
  searched,  \* history: the searches the second let through in the last window
  verdict    \* history: what the latest step decided

limitsVars == <<now, entries, requests, states, waiting, admitted, searched, verdict>>

\* The zero time.Time lies before every reading of the clock.
Zero == -1
Times == Zero..Horizon

Keys == Networks \cup {Overflow}

Entry == [start : Times, seen : Times, count : 0..MaxRequests]
NoEntry == [start |-> Zero, seen |-> Zero, count |-> 0]

State == [started : Times, requests : 0..SearchLimit]
NoState == [started |-> Zero, requests |-> 0]

NoVerdict == [by |-> "none", key |-> Overflow, ok |-> TRUE]

LimitsInit ==
  /\ now = 0
  /\ entries = [k \in {Overflow} |-> NoEntry]
  /\ requests = 0
  /\ states = << >>
  /\ waiting = {}
  /\ admitted = {} /\ searched = [u \in Users |-> {}]
  /\ verdict = NoVerdict

\* The clock; what has left the last window is forgotten by the history.
Tick ==
  /\ now < Horizon
  /\ now' = now + 1
  /\ admitted' = {a \in admitted : now' - a.at < Window}
  /\ searched' = [u \in Users |-> {s \in searched[u] : now' - s.at < Window}]
  /\ verdict' = NoVerdict
  /\ UNCHANGED <<entries, requests, states, waiting>>

-----------------------------------------------------------------------------
\* A header of too many bytes or too many hops is not read.
Dropped(chain, long) == long \/ Len(chain) > MaxHops

\* The first of the hops is taken.
DefectLeftmost(peer, chain, long) ==
  IF peer \in Trusted /\ ~Dropped(chain, long) /\ chain # << >> /\ chain[1] \in Addresses
    THEN chain[1] ELSE peer

\* Handler.clientAddress: the header counts only from a trusted peer, and if it has
\* neither too many bytes nor too many hops; the client is its last hop that is not
\* a trusted proxy, provided that every hop behind it is an address.
clientAddress(peer, chain, long) ==
  LET foreign == {i \in DOMAIN chain : chain[i] \notin Trusted}
      hop == IF foreign = {} THEN 1 ELSE CHOOSE i \in foreign : \A j \in foreign : j <= i
  IN IF peer \in Trusted /\ chain # << >> /\ ~Dropped(chain, long) /\ chain[hop] \in Addresses
       THEN chain[hop] ELSE peer

\* normalizedRateLimitKey, and the overflow bucket when the table is full.
KeyOf(address) ==
  IF NetworkOf[address] \notin DOMAIN entries /\ Cardinality(DOMAIN entries) >= MaxEntries
    THEN Overflow ELSE NetworkOf[address]

\* A new window goes on counting.
DefectNoReset(entry) ==
  IF entry.start = Zero \/ now - entry.start >= Window
    THEN [start |-> now, seen |-> now, count |-> entry.count + 1]
    ELSE [entry EXCEPT !.seen = now, !.count = @ + 1]

\* The entry after one more request in it.
Counted(entry) ==
  IF entry.start = Zero \/ now - entry.start >= Window
    THEN [start |-> now, seen |-> now, count |-> 1]
    ELSE [entry EXCEPT !.seen = now, !.count = @ + 1]

\* The overflow entry is pruned like the others.
DefectPruneOverflow(table) == {k \in DOMAIN table : table[k].seen >= now - PruneAge}

\* rateLimiter.prune keeps the overflow entry and what was seen lately.
Kept(table) ==
  {k \in DOMAIN table : k = Overflow \/ table[k].seen >= now - PruneAge}

\* rateLimiter.Allow: a refused request is counted as well.
Allow(key) ==
  LET entry == Counted(IF key \in DOMAIN entries THEN entries[key] ELSE NoEntry)
      table == [k \in DOMAIN entries \cup {key} |-> IF k = key THEN entry ELSE entries[k]]
      due   == (requests + 1) % PruneEvery = 0
  IN /\ entries' = Restrict(table, IF due THEN Kept(table) ELSE DOMAIN table)
     /\ requests' = requests + 1
     /\ verdict' = [by |-> "source", key |-> key, ok |-> entry.count <= Limit]

\* Handler.ServeHTTP: client `origin` sends a request with `forged` in its header,
\* through proxies that append the address they are called from, or directly.  (Only
\* what the client wrote makes a header long: MaxHops addresses fit into the bytes.)
\* Liveness probes are not counted; a search goes on to the second limiter.  The
\* request is on its origin's account; one whose header is dropped is on the account
\* of the proxy it came through last, all the broker knows of it.
Request(origin, proxies, forged) ==
  LET hops  == <<origin>> \o proxies
      peer  == hops[Len(hops)]
      chain == forged.hops \o SubSeq(hops, 1, Len(hops) - 1)
      key   == KeyOf(clientAddress(peer, chain, forged.long))
      payer == IF Dropped(chain, forged.long) THEN peer ELSE origin
  IN /\ requests < MaxRequests
     /\ Allow(key)
     /\ IF verdict'.ok
          THEN /\ admitted' = admitted \cup
                    {[n |-> requests', key |-> key, payer |-> NetworkOf[payer], at |-> now]}
               /\ \E more \in SUBSET (Users \ waiting) :
                    Cardinality(more) <= 1 /\ waiting' = waiting \cup more
          ELSE UNCHANGED <<admitted, waiting>>
     /\ UNCHANGED <<now, states, searched>>

-----------------------------------------------------------------------------
\* A window that began later than now, or ended: the clock may not have moved on.
Expired(state) == now < state.started \/ now - state.started >= Window

\* The window a search of the user falls into.
Current(user) ==
  LET state == IF user \in DOMAIN states THEN states[user] ELSE NoState
  IN IF state.started = Zero \/ Expired(state) THEN [started |-> now, requests |-> 0] ELSE state

\* Everything but the new state is dropped to make room.
DefectForget(table) ==
  IF Cardinality(DOMAIN table) > MaxStates
    THEN {u \in DOMAIN table : table[u].started = now /\ table[u].requests = 1} ELSE DOMAIN table

\* The states that stay when another is stored: the limiter prunes what has expired.
KeptStates(table) ==
  IF Cardinality(DOMAIN table) > MaxStates
    THEN {u \in DOMAIN table : ~Expired(table[u])} ELSE DOMAIN table

\* searchRateLimiter.Allow: a refused search leaves no trace.
SearchAllow(user) ==
  LET state == Current(user)
      ok    == state.requests < SearchLimit
      table == [u \in DOMAIN states \cup {user} |->
                  IF u = user THEN [state EXCEPT !.requests = @ + 1] ELSE states[u]]
  IN /\ user \in waiting
     /\ waiting' = waiting \ {user}
     /\ verdict' = [by |-> "search", key |-> user, ok |-> ok]
     /\ IF ok
          THEN /\ states' = Restrict(table, KeptStates(table))
               /\ searched' = [searched EXCEPT ![user] = @ \cup {[n |-> requests, at |-> now]}]
          ELSE UNCHANGED <<states, searched>>
     /\ UNCHANGED <<now, entries, requests, admitted>>

Quiescent == /\ requests = MaxRequests /\ now = Horizon /\ waiting = {}
             /\ UNCHANGED limitsVars

\* The ways from a client to the broker: directly, or through trusted proxies.
Routes == UNION {[1..n -> Trusted] : n \in 0..MaxProxies}

LimitsNext ==
  \/ Tick
  \/ \E o \in Origins, p \in Routes, f \in Forgeries : Request(o, p, f)
  \/ \E u \in Users : SearchAllow(u)
  \/ Quiescent

LimitsSpec == LimitsInit /\ [][LimitsNext]_limitsVars

-----------------------------------------------------------------------------
Admission == [n : 1..MaxRequests, key : Keys, payer : Networks, at : 0..Horizon]
Passage == [n : 1..MaxRequests, at : 0..Horizon]

\* Every variable keeps its type, and the table of networks never outgrows its
\* bound, since the overflow bucket always has a place in it.
LimitsTypeOK ==
  /\ now \in 0..Horizon /\ requests \in 0..MaxRequests
  /\ DOMAIN entries \subseteq Keys /\ Overflow \in DOMAIN entries
  /\ Cardinality(DOMAIN entries) <= MaxEntries
  /\ \A k \in DOMAIN entries : entries[k] \in Entry
  /\ DOMAIN states \subseteq Users
  /\ \A u \in DOMAIN states : states[u] \in State
  /\ waiting \subseteq Users
  /\ \A a \in admitted : a \in Admission /\ now - a.at < Window
  /\ searched \in [Users -> SUBSET Passage]
  /\ verdict.by \in {"none", "source", "search"} /\ verdict.ok \in BOOLEAN

\* Fewer than three limits' worth of requests get through on a network's account in
\* any minute, whatever clients write into the header and whenever an entry is
\* evicted, made anew, or replaced by the overflow bucket.  No client charges
\* another one's account; the requests whose header is dropped for its length
\* (Handler.clientAddress) are together limited as one network: the proxy's.
SourceIsLimited ==
  \A s \in Networks : Cardinality({a \in admitted : a.payer = s}) < 3 * Limit

\* The searches of a user in any minute stay below two limits, however many others
\* search and are pruned.
UserIsLimited == \A u \in Users : Cardinality(searched[u]) < 2 * SearchLimit

\* Nobody is refused who has not used up the bucket: within the last minute it let
\* its limit of requests through.  Knocking in vain does not prolong the wait.
RefusalIsJustified ==
  ~verdict.ok =>
    IF verdict.by = "source"
      THEN Cardinality({a \in admitted : a.key = verdict.key}) >= Limit
      ELSE Cardinality(searched[verdict.key]) >= SearchLimit

-----------------------------------------------------------------------------
(* The inductive invariant behind the properties above.                    *)

Least(m, n) == IF m < n THEN m ELSE n

\* At time t, of a bucket whose window began at `start` and has counted `count` requests:
\* what it let through, A, lies before the end of the window.  The first request of the
\* window is always let through, so fewer than the limit come after its beginning; and
\* as this held of the window before, fewer than the limit are left of it.  While the
\* window lasts, none of its own is forgotten.
WindowOK(A, start, count, limit, t) ==
  /\ \A a \in A : a.at - start < Window
  /\ Cardinality({a \in A : a.at >= start}) <= Least(count, limit)
  /\ Cardinality({a \in A : a.at > start}) < Least(count, limit)
  /\ Cardinality({a \in A : a.at < start}) < limit
  /\ t - start < Window => Cardinality({a \in A : a.at >= start}) = Least(count, limit)

\* What the bucket of a key let through in the last window.
Through(k) == {a \in admitted : a.key = k}

\* An entry has counted something, unless it is the overflow bucket's first.  An entry is
\* pruned only when nothing it let through is left.
EntryOK(k) ==
  IF k \in DOMAIN entries
    THEN LET e == entries[k] IN
         /\ e.start <= e.seen /\ e.seen <= now /\ e.count <= requests
         /\ \A a \in Through(k) : a.at <= e.seen
         /\ IF e.start = Zero
              THEN Through(k) = {} /\ e.count = 0
              ELSE e.count > 0 /\ WindowOK(Through(k), e.start, e.count, Limit, now)
    ELSE Through(k) = {}

\* What got through the overflow bucket on a network's account.
Overflowed(s) == {a \in admitted : a.payer = s /\ a.key = Overflow}

\* It was before its own entry was made; and what is left of it lies in that entry's
\* first window.
SourceOK(s) ==
  /\ \A a \in admitted : a.payer = s => a.key \in {s, Overflow}
  /\ s \in DOMAIN entries /\ Overflowed(s) # {} =>
       /\ \A a \in Overflowed(s) : a.at <= entries[s].start
       /\ \A a \in Through(s) : a.at >= entries[s].start

\* A user's state is pruned only when its window is over.
UserOK(u) ==
  /\ \A s \in searched[u] : now - s.at < Window /\ s.at <= now /\ s.n <= requests
  /\ u \in waiting => \A s \in searched[u] : s.n < requests
  /\ IF u \in DOMAIN states
       THEN /\ 0 <= states[u].started /\ states[u].started <= now /\ states[u].requests > 0
            /\ WindowOK(searched[u], states[u].started, states[u].requests, SearchLimit, now)
       ELSE /\ Cardinality(searched[u]) < SearchLimit
            /\ \A s \in searched[u] : s.at < now

LimitsInv ==
  /\ LimitsTypeOK
  /\ IsFiniteSet(admitted) /\ \A u \in Users : IsFiniteSet(searched[u])
  /\ \A a \in admitted : a.at <= now /\ a.n <= requests
  /\ waiting # {} => requests > 0
  /\ \A k \in Keys : EntryOK(k)
  /\ \A s \in Networks : SourceOK(s)
  /\ \A u \in Users : UserOK(u)
  /\ RefusalIsJustified
=============================================================================

------------------------- MODULE AppTokenCacheProofs -------------------------
(***************************************************************************)
(* Proofs about AppTokenCache: TokenInv is inductive, for any set of       *)
(* callers, any lifetimes and any back-off.                                *)
(***************************************************************************)
EXTENDS AppTokenCache, TLAPS

\* The initial state: nothing is cached, no refresh was started.
LEMMA InitInv == TokenInit => TokenInv
  BY TokenAssumption
  DEF TokenInit, TokenInv, TokenTypeOK, Cache, Refresh, Call, Tokens, Refreshes, OneFetch,
      OrderOK, StoreOK, CallsOK, ServedTokensAreLive, BackoffIsKept, Live

\* The clock moves on: what was live may expire, but what was decided stands.
LEMMA TickInv == TokenInv /\ Tick => TokenInv'
  <1> SUFFICES ASSUME TokenInv, Tick PROVE TokenInv'
    OBVIOUS
  <1> USE TokenAssumption
  <1>1. TokenTypeOK' /\ BackoffIsKept'
    BY DEF TokenInv, Tick, TokenTypeOK, BackoffIsKept, Live, Cache
  <1>2. OneFetch' /\ OrderOK' /\ StoreOK' /\ CallsOK' /\ ServedTokensAreLive'
    BY DEF TokenInv, Tick, OneFetch, OrderOK, StoreOK, CallsOK, ServedTokensAreLive
  <1> QED BY <1>1, <1>2 DEF TokenInv

\* A call that only changes its own record keeps the invariant if the new record is
\* right about the cache and the refreshes.
LEMMA CallInv ==
  ASSUME TokenInv, NEW c \in Callers, NEW new \in Call,
         call' = [call EXCEPT ![c] = new],
         UNCHANGED <<now, cache, refresh, expiry>>,
         new.got <= cache.token, new.seen <= cache.token,
         new.pc = "ok" => /\ new.got # 0 /\ new.got >= new.seen
                          /\ expiry[new.got] > new.at,
         new.pc = "failed" /\ new.seen # 0 => expiry[new.seen] <= new.at,
         new.pc = "wait" => /\ new.on # 0
                            /\ refresh[new.on].pc = "running"
                            /\ new.seen = cache.token
  PROVE  TokenInv'
  <1> USE TokenAssumption
  <1>1. TokenTypeOK' /\ BackoffIsKept' /\ OrderOK' /\ StoreOK'
    BY DEF TokenInv, TokenTypeOK, BackoffIsKept, Live, OrderOK, StoreOK
  <1>2. \A d \in Callers : call'[d] = IF d = c THEN new ELSE call[d]
    BY DEF TokenInv, TokenTypeOK
  <1>3. OneFetch'
    BY <1>2 DEF TokenInv, OneFetch
  <1>4. CallsOK'
    BY <1>2 DEF TokenInv, CallsOK
  <1>5. ServedTokensAreLive'
    BY <1>2 DEF TokenInv, ServedTokensAreLive
  <1> QED BY <1>1, <1>3, <1>4, <1>5 DEF TokenInv

LEMMA CachedInv == ASSUME NEW c \in Callers, TokenInv, TokenCached(c) PROVE TokenInv'
  <1> USE TokenAssumption
  <1> DEFINE new == [pc |-> "ok", on |-> 0, got |-> cache.token, seen |-> cache.token, at |-> now]
  <1>1. new \in Call
    BY DEF TokenInv, TokenTypeOK, Call, Cache, Tokens
  <1>2. cache.token # 0 /\ cache.token \in Nat /\ expiry[cache.token] > now
    BY DEF TokenInv, TokenTypeOK, Cache, Tokens, StoreOK, TokenCached, Servable, Live
  <1>3. call' = [call EXCEPT ![c] = new] /\ UNCHANGED <<now, cache, refresh, expiry>>
    BY DEF TokenCached
  <1>4. /\ new.pc = "ok" /\ new.got # 0 /\ expiry[new.got] > new.at
        /\ new.got <= cache.token /\ new.seen <= cache.token /\ new.got >= new.seen
    BY <1>2
  <1> HIDE DEF new
  <1> QED BY <1>1, <1>2, <1>3, <1>4, CallInv

LEMMA JoinsInv == ASSUME NEW c \in Callers, TokenInv, TokenJoins(c) PROVE TokenInv'
  <1> USE TokenAssumption
  <1> DEFINE new == [pc |-> "wait", on |-> cache.refresh, got |-> 0,
                     seen |-> cache.token, at |-> now]
  <1>1. new \in Call /\ cache.token \in Nat
    BY DEF TokenInv, TokenTypeOK, Call, Cache, Tokens
  <1>2. cache.refresh # 0 /\ refresh[cache.refresh].pc = "running"
    BY DEF TokenInv, TokenTypeOK, Cache, Tokens, Refreshes, OneFetch, TokenJoins
  <1>3. call' = [call EXCEPT ![c] = new] /\ UNCHANGED <<now, cache, refresh, expiry>>
    BY DEF TokenJoins, Wait
  <1>4. /\ new.pc = "wait" /\ new.on # 0 /\ refresh[new.on].pc = "running"
        /\ new.seen = cache.token /\ new.got <= cache.token /\ new.seen <= cache.token
    BY <1>1, <1>2
  <1> HIDE DEF new
  <1> QED BY <1>1, <1>2, <1>3, <1>4, CallInv

LEMMA AnsweredInv == ASSUME NEW c \in Callers, TokenInv, Answered(c) PROVE TokenInv'
  <1> USE TokenAssumption
  <1> DEFINE r == refresh[call[c].on]
             new == [call[c] EXCEPT !.pc = IF r.token = 0 THEN "failed" ELSE "ok",
                                    !.got = r.token, !.at = r.at]
  <1>1. call[c] \in Call /\ call[c].on \in Refreshes /\ r \in Refresh /\ r.pc = "done"
    BY DEF TokenInv, TokenTypeOK, Call, Tokens, Refreshes, CallsOK, Answered
  <1>2. new \in Call
    BY <1>1 DEF Call, Refresh
  <1>3. /\ new.got = r.token /\ new.at = r.at /\ new.seen = call[c].seen
        /\ new.pc = IF r.token = 0 THEN "failed" ELSE "ok"
    BY <1>1 DEF Call
  <1>4. /\ r.token <= cache.token /\ call[c].seen <= cache.token
        /\ r.token # 0 => expiry[r.token] > r.at /\ r.token >= call[c].seen
        /\ r.token = 0 /\ call[c].seen # 0 => expiry[call[c].seen] <= r.at
    BY <1>1 DEF TokenInv, StoreOK, CallsOK, Answered
  <1>5. call' = [call EXCEPT ![c] = new] /\ UNCHANGED <<now, cache, refresh, expiry>>
    BY DEF Answered
  <1> HIDE DEF r, new
  <1> QED BY <1>2, <1>3, <1>4, <1>5, CallInv

LEMMA CancelledInv == ASSUME NEW c \in Callers, TokenInv, Cancelled(c) PROVE TokenInv'
  <1> USE TokenAssumption
  <1> DEFINE new == [call[c] EXCEPT !.pc = "cancelled"]
  <1>1. call[c] \in Call
    BY DEF TokenInv, TokenTypeOK
  <1>2. /\ new \in Call /\ new.pc = "cancelled"
        /\ new.got = call[c].got /\ new.seen = call[c].seen
    BY <1>1 DEF Call
  <1>3. call[c].got <= cache.token /\ call[c].seen <= cache.token
    BY DEF TokenInv, CallsOK
  <1>4. call' = [call EXCEPT ![c] = new] /\ UNCHANGED <<now, cache, refresh, expiry>>
    BY DEF Cancelled
  <1> HIDE DEF new
  <1> QED BY <1>2, <1>3, <1>4, CallInv

\* A refresh starts: it is the first unused one, so it is newer than the cached token,
\* and nothing live is kept back for a failed renewal.
LEMMA RefreshesInv ==
  ASSUME NEW c \in Callers, NEW k \in Refreshes, TokenInv, TokenRefreshes(c, k)
  PROVE  TokenInv'
  <1> USE TokenAssumption
  <1>1. /\ refresh[k].pc = "unused" /\ cache.refresh = 0 /\ k # 0 /\ k \in Nat
        /\ cache' = [cache EXCEPT !.refresh = k]
        /\ UNCHANGED <<now, expiry>>
    BY DEF TokenRefreshes, Idle, Refreshes, TokenInv, TokenTypeOK
  <1>2. /\ cache'.token = cache.token /\ cache'.refresh = k
        /\ cache'.expiresAt = cache.expiresAt /\ cache'.retryAt = cache.retryAt
    BY <1>1 DEF TokenInv, TokenTypeOK, Cache
  <1>3. \A j \in Refreshes :
          /\ refresh'[j].pc = IF j = k THEN "running" ELSE refresh[j].pc
          /\ refresh'[j].token = refresh[j].token /\ refresh'[j].at = refresh[j].at
    BY DEF TokenRefreshes, TokenInv, TokenTypeOK, Refresh
  <1>4. \A d \in Callers :
          call'[d] = IF d = c THEN [pc |-> "wait", on |-> k, got |-> 0,
                                    seen |-> cache.token, at |-> now] ELSE call[d]
    BY DEF TokenRefreshes, Wait, TokenInv, TokenTypeOK
  <1>5. TokenTypeOK'
    <2>1. cache' \in Cache
      BY <1>1, SMTT(30) DEF TokenInv, TokenTypeOK, Cache, Tokens, Refreshes
    <2>2. refresh' \in [Refreshes -> Refresh]
      <3>1. refresh \in [Refreshes -> Refresh] /\ refresh[k] \in Refresh
        BY DEF TokenInv, TokenTypeOK
      <3>2. [refresh[k] EXCEPT !.pc = "running"] \in Refresh
        BY <3>1 DEF Refresh
      <3>3. refresh' = [refresh EXCEPT ![k] = [refresh[k] EXCEPT !.pc = "running"]]
        BY DEF TokenRefreshes
      <3>4. QED
        BY <3>1, <3>2, <3>3
    <2>3. [pc |-> "wait", on |-> k, got |-> 0, seen |-> cache.token, at |-> now] \in Call
      BY DEF TokenInv, TokenTypeOK, Cache, Call, Tokens, Refreshes
    <2>4. call' \in [Callers -> Call]
      BY <2>3 DEF TokenRefreshes, Wait, TokenInv, TokenTypeOK
    <2> QED BY <1>1, <2>1, <2>2, <2>4 DEF TokenInv, TokenTypeOK
  <1>6. OneFetch'
    <2>1. \A j \in Refreshes : refresh'[j].pc = "running" <=> cache'.refresh = j
      BY <1>1, <1>2, <1>3 DEF TokenInv, OneFetch, Refreshes
    <2>2. \A d \in Callers : call'[d].pc = "wait" => refresh'[call'[d].on].pc # "unused"
      <3> TAKE d \in Callers
      <3>1. CASE d = c
        BY <3>1, <1>3, <1>4
      <3>2. CASE d # c /\ call[d].pc = "wait"
        <4>1. call[d].on \in Refreshes
          BY <3>2 DEF TokenInv, TokenTypeOK, Call, Tokens, Refreshes, CallsOK
        <4> QED BY <4>1, <3>2, <1>3, <1>4 DEF TokenInv, OneFetch
      <3> QED BY <3>1, <3>2, <1>4
    <2> QED BY <2>1, <2>2 DEF OneFetch
  <1>7. OrderOK'
    <2>1. \A j \in Refreshes : refresh[j].pc = "unused" <=> j >= k
      BY DEF TokenRefreshes
    <2>2. cache.token < k
      BY <1>1 DEF TokenInv, OrderOK
    <2> QED BY <1>1, <1>2, <1>3, <2>1, <2>2 DEF TokenInv, OrderOK, Refreshes
  <1>8. StoreOK'
    BY <1>1, <1>2, <1>3 DEF TokenInv, StoreOK
  <1>9. CallsOK'
    <2>1. cache.token \in Nat
      BY DEF TokenInv, TokenTypeOK, Cache, Tokens
    <2> SUFFICES ASSUME NEW d \in Callers PROVE CallsOK!(d)'
      BY DEF CallsOK
    <2>2. CASE d = c
      BY <2>1, <2>2, <1>1, <1>2, <1>3, <1>4
    <2>3. CASE d # c
      <3>1. call'[d] = call[d]
        BY <2>3, <1>4
      <3>2. CASE call[d].pc = "wait"
        <4>1. call[d].on \in Refreshes /\ call[d].on # k
          BY <3>2, <1>1 DEF TokenInv, TokenTypeOK, Call, Tokens, Refreshes, CallsOK, OneFetch
        <4>2. refresh'[call[d].on].pc = refresh[call[d].on].pc
          BY <4>1, <1>3
        <4> QED BY <3>1, <3>2, <4>1, <4>2, <1>1, <1>2, <1>3 DEF TokenInv, CallsOK
      <3>3. CASE call[d].pc # "wait"
        BY <3>1, <3>3, <1>2 DEF TokenInv, CallsOK
      <3> QED BY <3>2, <3>3
    <2> QED BY <2>2, <2>3
  <1>10. ServedTokensAreLive'
    BY <1>1, <1>4 DEF TokenInv, ServedTokensAreLive
  <1>11. BackoffIsKept'
    <2>1. ~Servable
      BY DEF TokenRefreshes
    <2> QED BY <2>1, <1>1, <1>2 DEF BackoffIsKept, Live, Servable
  <1> QED BY <1>5, <1>6, <1>7, <1>8, <1>9, <1>10, <1>11 DEF TokenInv

-----------------------------------------------------------------------------
(* The end of a refresh.                                                   *)

\* What a running refresh is: the one in the cache, newer than the cached token, and
\* the only one that is not over or still unused.
LEMMA RunningFacts ==
  ASSUME NEW k \in Refreshes, TokenInv, refresh[k].pc = "running"
  PROVE  /\ k \in Nat /\ k # 0 /\ k \in Tokens
         /\ cache.refresh = k /\ cache.token \in Nat /\ cache.token < k
         /\ \A j \in Refreshes : refresh[j].pc = "running" => j = k
         /\ \A j \in Refreshes : j # k /\ refresh[j].pc # "done" => k < j
  <1> USE TokenAssumption
  <1>1. k \in Nat /\ k # 0 /\ k \in Tokens /\ cache.token \in Nat
    BY DEF Refreshes, Tokens, TokenInv, TokenTypeOK, Cache
  <1>2. cache.refresh = k /\ \A j \in Refreshes : refresh[j].pc = "running" => j = k
    BY DEF TokenInv, OneFetch
  <1>3. cache.token < k
    BY DEF TokenInv, OrderOK
  <1>4. ASSUME NEW j \in Refreshes, j # k, refresh[j].pc # "done" PROVE k < j
    <2>1. refresh[j].pc = "unused"
      BY <1>2, <1>4 DEF TokenInv, TokenTypeOK, Refresh
    <2>2. ~(j <= k)
      BY <2>1 DEF TokenInv, OrderOK
    <2> QED BY <2>2, <1>1 DEF Refreshes
  <1> QED BY <1>1, <1>2, <1>3, <1>4

\* A refresh that ends in any of its three ways keeps the invariant: it leaves the
\* cache and its waiters with a token t that is live, or with none while none is.
LEMMA FinishedInv ==
  ASSUME NEW k \in Refreshes, TokenInv, refresh[k].pc = "running",
         NEW t \in Tokens, Finished(k, t), UNCHANGED <<now, call>>,
         cache' \in Cache, cache'.refresh = 0,
         expiry' \in [Refreshes -> Nat],
         \A j \in Refreshes : j # k => expiry'[j] = expiry[j],
         cache'.token \in {cache.token, k},
         t \in {0, cache'.token},
         cache'.token # 0 => expiry'[cache'.token] = cache'.expiresAt,
         t # 0 => expiry'[t] > now,
         t = 0 => cache'.token = cache.token /\ (cache.token # 0 => expiry[cache.token] <= now)
  PROVE  TokenInv'
  <1> USE TokenAssumption
  <1>1. /\ k \in Nat /\ k # 0 /\ cache.refresh = k /\ cache.token \in Nat /\ cache.token < k
        /\ \A j \in Refreshes : refresh[j].pc = "running" => j = k
        /\ \A j \in Refreshes : j # k /\ refresh[j].pc # "done" => k < j
    BY RunningFacts
  <1>2. refresh' = [refresh EXCEPT ![k] = [pc |-> "done", token |-> t, at |-> now]]
    BY DEF Finished
  <1>3. /\ refresh'[k].pc = "done" /\ refresh'[k].token = t /\ refresh'[k].at = now
        /\ \A j \in Refreshes : j # k => refresh'[j] = refresh[j]
    BY <1>2 DEF TokenInv, TokenTypeOK
  <1>4. /\ cache'.token \in Nat /\ cache.token <= cache'.token
        /\ cache'.token <= k /\ t <= cache'.token /\ t \in Nat
    BY <1>1 DEF Tokens
  <1>5. \A n \in Tokens : n # 0 /\ n <= cache.token => expiry'[n] = expiry[n] /\ n \in Refreshes
    BY <1>1 DEF Tokens, Refreshes
  <1>6. TokenTypeOK'
    <2>1. [pc |-> "done", token |-> t, at |-> now] \in Refresh
      BY DEF Refresh, TokenInv, TokenTypeOK
    <2> QED BY <2>1, <1>2 DEF TokenInv, TokenTypeOK
  <1>7. OneFetch'
    <2>1. \A j \in Refreshes : refresh'[j].pc = "running" <=> cache'.refresh = j
      BY <1>1, <1>3 DEF Refreshes
    <2>2. ASSUME NEW d \in Callers, call'[d].pc = "wait"
          PROVE  refresh'[call'[d].on].pc # "unused"
      <3>1. call[d].on \in Refreshes
        BY <2>2 DEF TokenInv, TokenTypeOK, Call, Tokens, Refreshes, CallsOK
      <3> QED BY <3>1, <2>2, <1>3 DEF TokenInv, OneFetch
    <2> QED BY <2>1, <2>2 DEF OneFetch
  <1>8. OrderOK'
    <2>1. ASSUME NEW i \in Refreshes, NEW j \in Refreshes,
                 refresh'[i].pc = "unused", i <= j
          PROVE  refresh'[j].pc = "unused"
      <3>1. i # k /\ refresh[i].pc = "unused"
        BY <2>1, <1>3
      <3>2. refresh[j].pc = "unused" /\ j # k
        BY <3>1, <2>1 DEF TokenInv, OrderOK
      <3> QED BY <3>2, <1>3
    <2>2. ASSUME NEW j \in Refreshes, refresh'[j].pc # "done" PROVE cache'.token < j
      BY <2>2, <1>1, <1>3, <1>4, SMTT(30) DEF Refreshes
    <2> QED BY <2>1, <2>2 DEF OrderOK
  <1>9. StoreOK'
    <2>1. ASSUME NEW j \in Refreshes
          PROVE  /\ refresh'[j].token <= cache'.token
                 /\ refresh'[j].token # 0 => expiry'[refresh'[j].token] > refresh'[j].at
      <3>1. CASE j = k
        BY <3>1, <1>3, <1>4
      <3>2. CASE j # k
        <4>1. /\ refresh'[j] = refresh[j] /\ refresh[j].token \in Tokens
              /\ refresh[j].token <= cache.token
              /\ refresh[j].token # 0 => expiry[refresh[j].token] > refresh[j].at
          BY <3>2, <1>3 DEF TokenInv, TokenTypeOK, Refresh, StoreOK
        <4>2. refresh[j].token <= cache'.token
          BY <4>1, <1>1, <1>4 DEF Tokens
        <4> QED BY <4>1, <4>2, <1>5
      <3> QED BY <3>1, <3>2
    <2> QED BY <2>1 DEF StoreOK
  <1>10. CallsOK' /\ ServedTokensAreLive'
    <2> SUFFICES ASSUME NEW d \in Callers
                 PROVE  CallsOK!(d)' /\ ServedTokensAreLive!(d)'
      BY DEF CallsOK, ServedTokensAreLive
    <2>1. /\ call'[d] = call[d] /\ call[d].got \in Tokens /\ call[d].seen \in Tokens
          /\ call[d].on \in Tokens
          /\ call[d].got <= cache.token /\ call[d].seen <= cache.token
          /\ call[d].pc = "ok" => call[d].got # 0 /\ call[d].got >= call[d].seen
          /\ call[d].pc = "ok" => expiry[call[d].got] > call[d].at
          /\ call[d].pc = "failed" /\ call[d].seen # 0 => expiry[call[d].seen] <= call[d].at
      BY DEF TokenInv, TokenTypeOK, Call, CallsOK, ServedTokensAreLive
    <2>2. /\ call[d].got <= cache'.token /\ call[d].seen <= cache'.token
          /\ call[d].got # 0 => expiry'[call[d].got] = expiry[call[d].got]
          /\ call[d].seen # 0 => expiry'[call[d].seen] = expiry[call[d].seen]
      BY <2>1, <1>1, <1>4, <1>5 DEF Tokens
    <2>3. ServedTokensAreLive!(d)'
      BY <2>1, <2>2
    <2>4. CASE call[d].pc # "wait"
      BY <2>1, <2>2, <2>3, <2>4
    <2>5. CASE call[d].pc = "wait" /\ call[d].on = k
      <3>1. call[d].seen = cache.token
        BY <2>5 DEF TokenInv, CallsOK
      <3> QED BY <3>1, <2>1, <2>2, <2>3, <2>5, <1>1, <1>3, <1>4
    <2>6. CASE call[d].pc = "wait" /\ call[d].on # k
      <3>1. call[d].on \in Refreshes /\ refresh[call[d].on].pc # "running"
        BY <2>1, <2>6, <1>1 DEF Tokens, Refreshes, TokenInv, CallsOK
      <3>2. refresh'[call[d].on] = refresh[call[d].on]
        BY <3>1, <2>6, <1>3
      <3> QED BY <3>1, <3>2, <2>1, <2>2, <2>3, <2>6 DEF TokenInv, CallsOK
    <2> QED BY <2>4, <2>5, <2>6
  <1>11. BackoffIsKept'
    BY DEF BackoffIsKept
  <1> QED BY <1>6, <1>7, <1>8, <1>9, <1>10, <1>11 DEF TokenInv

LEMMA SucceedsInv ==
  ASSUME NEW k \in Refreshes, NEW ttl \in Lifetimes, TokenInv, FetchSucceeds(k, ttl)
  PROVE  TokenInv'
  <1> USE TokenAssumption
  <1>1. refresh[k].pc = "running" /\ Finished(k, k) /\ UNCHANGED <<now, call>>
    BY DEF FetchSucceeds
  <1>2. k \in Tokens /\ k # 0
    BY <1>1, RunningFacts
  <1>3. now + ttl \in Nat /\ now + ttl > now /\ now \in Nat
    BY DEF TokenInv, TokenTypeOK
  <1>4. cache' = [token |-> k, expiresAt |-> now + ttl, retryAt |-> 0, refresh |-> 0]
    BY DEF FetchSucceeds
  <1>5. /\ cache' \in Cache /\ cache'.refresh = 0 /\ cache'.token = k
        /\ cache'.expiresAt = now + ttl
    BY <1>2, <1>3, <1>4 DEF Cache, Tokens
  <1>6. /\ expiry' \in [Refreshes -> Nat] /\ expiry'[k] = now + ttl
        /\ \A j \in Refreshes : j # k => expiry'[j] = expiry[j]
    BY <1>3 DEF FetchSucceeds, TokenInv, TokenTypeOK
  <1> QED BY <1>1, <1>2, <1>3, <1>5, <1>6, FinishedInv

LEMMA FailsLiveInv ==
  ASSUME NEW k \in Refreshes, TokenInv, FetchFailsLive(k) PROVE TokenInv'
  <1> USE TokenAssumption
  <1>1. /\ refresh[k].pc = "running" /\ Finished(k, cache.token)
        /\ UNCHANGED <<now, call>> /\ expiry' = expiry
    BY DEF FetchFailsLive
  <1>2. cache.token # 0 /\ cache.token \in Tokens /\ expiry[cache.token] > now
    BY DEF FetchFailsLive, Live, TokenInv, TokenTypeOK, Cache, StoreOK
  <1>3. /\ cache' \in Cache /\ cache'.refresh = 0 /\ cache'.token = cache.token
        /\ cache'.expiresAt = cache.expiresAt
    <2>1. cache' = [cache EXCEPT !.retryAt = now + Backoff, !.refresh = 0]
      BY DEF FetchFailsLive
    <2>2. now + Backoff \in Nat /\ 0 \in Tokens /\ cache \in Cache
      BY DEF TokenInv, TokenTypeOK, Tokens
    <2> QED BY <2>1, <2>2 DEF Cache
  <1>4. expiry' \in [Refreshes -> Nat] /\ expiry'[cache'.token] = cache'.expiresAt
    BY <1>1, <1>2, <1>3 DEF TokenInv, TokenTypeOK, StoreOK
  <1> QED BY <1>1, <1>2, <1>3, <1>4, FinishedInv

LEMMA FailsInv ==
  ASSUME NEW k \in Refreshes, TokenInv, FetchFails(k) PROVE TokenInv'
  <1> USE TokenAssumption
  <1>1. /\ refresh[k].pc = "running" /\ Finished(k, 0)
        /\ UNCHANGED <<now, call>> /\ expiry' = expiry
    BY DEF FetchFails
  <1>2. cache.token # 0 => expiry[cache.token] <= now
    BY DEF FetchFails, Live, TokenInv, TokenTypeOK, Cache, StoreOK
  <1>3. /\ cache' \in Cache /\ cache'.refresh = 0 /\ cache'.token = cache.token
        /\ cache'.expiresAt = cache.expiresAt /\ 0 \in Tokens
    BY DEF FetchFails, TokenInv, TokenTypeOK, Cache, Tokens
  <1>4. /\ expiry' \in [Refreshes -> Nat]
        /\ cache'.token # 0 => expiry'[cache'.token] = cache'.expiresAt
    BY <1>1, <1>3 DEF TokenInv, TokenTypeOK, StoreOK
  <1> QED BY <1>1, <1>2, <1>3, <1>4, FinishedInv

-----------------------------------------------------------------------------

\* Every step keeps the invariant.
LEMMA StepInv == TokenInv /\ [TokenNext]_tokenVars => TokenInv'
  <1> SUFFICES ASSUME TokenInv, [TokenNext]_tokenVars PROVE TokenInv'
    OBVIOUS
  <1>1. CASE Tick
    BY <1>1, TickInv
  <1>2. ASSUME NEW c \in Callers,
               TokenCached(c) \/ TokenJoins(c) \/ Answered(c) \/ Cancelled(c)
        PROVE  TokenInv'
    BY <1>2, CachedInv, JoinsInv, AnsweredInv, CancelledInv
  <1>3. ASSUME NEW c \in Callers, NEW k \in Refreshes, TokenRefreshes(c, k) PROVE TokenInv'
    BY <1>3, RefreshesInv
  <1>4. ASSUME NEW k \in Refreshes, FetchStep(k) PROVE TokenInv'
    BY <1>4, SucceedsInv, FailsLiveInv, FailsInv DEF FetchStep
  <1>5. CASE UNCHANGED tokenVars
    BY <1>5 DEF tokenVars, TokenInv, TokenTypeOK, OneFetch, OrderOK, StoreOK, CallsOK,
                ServedTokensAreLive, BackoffIsKept, Live
  <1> QED BY <1>1, <1>2, <1>3, <1>4, <1>5 DEF TokenNext, TokenQuiescent

\* The cache, the refreshes and the calls of Token agree in every state
\* (internal/dingtalk/token_cache.go).
THEOREM TokenInvariance == TokenSpec => []TokenInv
  <1>1. TokenInit => TokenInv
    BY InitInv
  <1>2. TokenInv /\ [TokenNext]_tokenVars => TokenInv'
    BY StepInv
  <1> QED BY <1>1, <1>2, PTL DEF TokenSpec

\* One fetch at a time: callers join the refresh under way, also when the caller that
\* started it has given up.
THEOREM SingleFetch == TokenSpec => []OneFetch
  <1>1. TokenInv => OneFetch
    BY DEF TokenInv
  <1> QED BY <1>1, TokenInvariance, PTL

\* A caller is given a token that was live when it was decided on and no older than
\* the one it found; an error means that there was none.
THEOREM TokensAreLive == TokenSpec => []ServedTokensAreLive
  <1>1. TokenInv => ServedTokensAreLive
    BY DEF TokenInv
  <1> QED BY <1>1, TokenInvariance, PTL

\* After a failed renewal of a live token nobody asks the endpoint before retryAt.
THEOREM BackoffHolds == TokenSpec => []BackoffIsKept
  <1>1. TokenInv => BackoffIsKept
    BY DEF TokenInv
  <1> QED BY <1>1, TokenInvariance, PTL
=============================================================================

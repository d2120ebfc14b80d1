---------------------------- MODULE AppTokenCache ----------------------------
(***************************************************************************)
(* The cache of the application's access token, which every DingTalk call  *)
(* needs (internal/dingtalk/token_cache.go).  Token serves the cached      *)
(* token, or waits for the one refresh that all callers share; the refresh *)
(* is a goroutine of its own and outlives the caller that started it.      *)
(* Each section under the mutex is one step.                               *)
(***************************************************************************)
EXTENDS Integers, FiniteSets

CONSTANTS
  Callers,        \* callers of Token
  Lifetimes,      \* lifetimes the token endpoint may name
  RefreshBefore,  \* appTokenRefreshBefore
  Backoff,        \* appTokenRefreshFailureBackoff
  MaxRefreshes,   \* bound: so many refreshes are started
  Horizon         \* bound: the clock stops here

ASSUME TokenAssumption ==
  /\ Lifetimes \subseteq Nat \ {0}
  /\ RefreshBefore \in Nat /\ Backoff \in Nat
  /\ MaxRefreshes \in Nat /\ Horizon \in Nat

VARIABLES
  now,      \* the clock
  cache,    \* the appTokenCache
  refresh,  \* refresh[k]: the k-th tokenRefresh
  expiry,   \* expiry[k]: when the token that refresh k fetched expires
  call      \* the calls of Token

tokenVars == <<now, cache, refresh, expiry, call>>

\* A token is named by the refresh that fetched it; 0 is the empty string, a nil
\* refresh and the zero time.
Refreshes == 1..MaxRefreshes
Tokens == 0..MaxRefreshes

Cache == [token : Tokens, expiresAt : Nat, retryAt : Nat, refresh : Tokens]

Refresh == [pc : {"unused", "running", "done"}, token : Tokens, at : 0..Horizon]

Call == [pc : {"idle", "wait", "ok", "failed", "cancelled"}, on : Tokens, got : Tokens,
         seen : Tokens, at : 0..Horizon]

TokenTypeOK ==
  /\ now \in 0..Horizon
  /\ cache \in Cache
  /\ refresh \in [Refreshes -> Refresh]
  /\ expiry \in [Refreshes -> Nat]
  /\ call \in [Callers -> Call]

TokenInit ==
  /\ now = 0
  /\ cache = [token |-> 0, expiresAt |-> 0, retryAt |-> 0, refresh |-> 0]
  /\ refresh = [k \in Refreshes |-> [pc |-> "unused", token |-> 0, at |-> 0]]
  /\ expiry = [k \in Refreshes |-> 0]
  /\ call = [c \in Callers |-> [pc |-> "idle", on |-> 0, got |-> 0, seen |-> 0, at |-> 0]]

Tick == /\ now < Horizon
        /\ now' = now + 1
        /\ UNCHANGED <<cache, refresh, expiry, call>>

-----------------------------------------------------------------------------
(* Token.                                                                  *)

\* The cached token has not expired; it is served unless it is to be renewed by now
\* and no failed renewal asks to wait.
Live == cache.token # 0 /\ cache.expiresAt > now

\* Operators named Defect... are faulty variants of the operator that follows
\* them; each property of a run is known to fail with one of them in its place.
DefectIgnoreExpiry ==
  /\ cache.token # 0
  /\ cache.expiresAt > now + RefreshBefore \/ cache.retryAt > now

Servable ==
  /\ Live
  /\ cache.expiresAt > now + RefreshBefore \/ cache.retryAt > now

Calls(c) == call[c].pc # "wait"

TokenCached(c) ==
  /\ Calls(c) /\ Servable
  /\ call' = [call EXCEPT ![c] = [pc |-> "ok", on |-> 0, got |-> cache.token,
                                  seen |-> cache.token, at |-> now]]
  /\ UNCHANGED <<now, cache, refresh, expiry>>

Wait(c, k) ==
  call' = [call EXCEPT ![c] = [pc |-> "wait", on |-> k, got |-> 0,
                               seen |-> cache.token, at |-> now]]

TokenJoins(c) ==
  /\ Calls(c) /\ ~Servable
  /\ cache.refresh # 0
  /\ Wait(c, cache.refresh)
  /\ UNCHANGED <<now, cache, refresh, expiry>>

\* No refresh is under way: this caller starts one.
DefectNoJoin == TRUE
Idle == cache.refresh = 0

TokenRefreshes(c, k) ==
  /\ Calls(c) /\ ~Servable
  /\ Idle
  /\ \A j \in Refreshes : refresh[j].pc = "unused" <=> j >= k
  /\ cache' = [cache EXCEPT !.refresh = k]
  /\ refresh' = [refresh EXCEPT ![k] = [@ EXCEPT !.pc = "running"]]
  /\ Wait(c, k)
  /\ UNCHANGED <<now, expiry>>

-----------------------------------------------------------------------------
(* fetchToken: the endpoint answers, or fails within appTokenFetchTimeout. *)

Finished(k, token) ==
  refresh' = [refresh EXCEPT ![k] = [pc |-> "done", token |-> token, at |-> now]]

FetchSucceeds(k, ttl) ==
  /\ refresh[k].pc = "running"
  /\ cache' = [token |-> k, expiresAt |-> now + ttl, retryAt |-> 0, refresh |-> 0]
  /\ expiry' = [expiry EXCEPT ![k] = now + ttl]
  /\ Finished(k, k)
  /\ UNCHANGED <<now, call>>

\* An error, or an answer without a token or a lifetime: a live token stays in
\* service, and no caller tries again before retryAt.
FetchFailsLive(k) ==
  /\ refresh[k].pc = "running" /\ Live
  /\ cache' = [cache EXCEPT !.retryAt = now + Backoff, !.refresh = 0]
  /\ Finished(k, cache.token)
  /\ UNCHANGED <<now, expiry, call>>

FetchFails(k) ==
  /\ refresh[k].pc = "running" /\ ~Live
  /\ cache' = [cache EXCEPT !.refresh = 0]
  /\ Finished(k, 0)
  /\ UNCHANGED <<now, expiry, call>>

-----------------------------------------------------------------------------
(* waitForTokenRefresh.                                                    *)

Answered(c) ==
  /\ call[c].pc = "wait"
  /\ LET r == refresh[call[c].on] IN
     /\ r.pc = "done"
     /\ call' = [call EXCEPT ![c] = [@ EXCEPT !.pc = IF r.token = 0 THEN "failed" ELSE "ok",
                                              !.got = r.token, !.at = r.at]]
  /\ UNCHANGED <<now, cache, refresh, expiry>>

\* The caller's own context ends; the refresh goes on.
DefectAbandon(c) ==
  /\ call[c].pc = "wait"
  /\ call' = [call EXCEPT ![c] = [@ EXCEPT !.pc = "cancelled"]]
  /\ refresh' = [refresh EXCEPT ![call[c].on].pc = "unused"]
  /\ UNCHANGED <<now, cache, expiry>>

Cancelled(c) ==
  /\ call[c].pc = "wait"
  /\ call' = [call EXCEPT ![c] = [@ EXCEPT !.pc = "cancelled"]]
  /\ UNCHANGED <<now, cache, refresh, expiry>>

-----------------------------------------------------------------------------

FetchStep(k) == FetchFailsLive(k) \/ FetchFails(k) \/ \E ttl \in Lifetimes : FetchSucceeds(k, ttl)

TokenQuiescent ==
  /\ now = Horizon
  /\ \A c \in Callers : Calls(c)
  /\ \A k \in Refreshes : refresh[k].pc = "done"
  /\ UNCHANGED tokenVars

TokenNext ==
  \/ Tick \/ TokenQuiescent
  \/ \E c \in Callers :
       \/ TokenCached(c) \/ TokenJoins(c) \/ Answered(c) \/ Cancelled(c)
       \/ \E k \in Refreshes : TokenRefreshes(c, k)
  \/ \E k \in Refreshes : FetchStep(k)

\* The fetch has a timeout, and a goroutine whose channel is closed runs on.
TokenSpec ==
  /\ TokenInit /\ [][TokenNext]_tokenVars
  /\ \A k \in Refreshes : WF_tokenVars(FetchStep(k))
  /\ \A c \in Callers : WF_tokenVars(Answered(c))

-----------------------------------------------------------------------------
(* Properties.                                                             *)

\* At most one fetch runs, it is the one callers join, and nobody waits for a
\* refresh that is neither running nor done.
OneFetch ==
  /\ \A k \in Refreshes : refresh[k].pc = "running" <=> cache.refresh = k
  /\ \A c \in Callers : call[c].pc = "wait" => refresh[call[c].on].pc # "unused"

\* The token a caller is given had not expired when it was decided on, is no older
\* than the one that was cached when the call began, and an error means that there
\* was no live token to serve.
ServedTokensAreLive ==
  \A c \in Callers :
    /\ call[c].pc = "ok" => /\ call[c].got >= call[c].seen
                            /\ expiry[call[c].got] > call[c].at
    /\ call[c].pc = "failed" /\ call[c].seen # 0 => expiry[call[c].seen] <= call[c].at

\* After a failed renewal of a live token the endpoint is left alone until retryAt,
\* unless the token expires first.
BackoffIsKept == cache.refresh # 0 => ~(Live /\ cache.retryAt > now)

\* A caller that does not give up is answered: the refresh it waits for ends, whoever
\* started it.
WaitersAreAnswered == \A c \in Callers : (call[c].pc = "wait") ~> (call[c].pc # "wait")

-----------------------------------------------------------------------------
(* The inductive invariant.                                                *)

\* Refreshes are started in order, and the cached token is older than every refresh
\* that has not ended.
OrderOK ==
  /\ \A j, k \in Refreshes : refresh[j].pc = "unused" /\ j <= k => refresh[k].pc = "unused"
  /\ \A k \in Refreshes : refresh[k].pc # "done" => cache.token < k

\* The cache holds a fetched token until its expiry; what a refresh gave its waiters
\* was live then, and is no newer than the cached token.
StoreOK ==
  /\ cache.token # 0 => expiry[cache.token] = cache.expiresAt
  /\ \A k \in Refreshes :
       /\ refresh[k].token <= cache.token
       /\ refresh[k].token # 0 => expiry[refresh[k].token] > refresh[k].at

\* While its refresh runs a caller has seen the cached token; the refresh ends with
\* that token or a newer one, or after its expiry.
CallsOK ==
  \A c \in Callers :
    /\ call[c].got <= cache.token /\ call[c].seen <= cache.token
    /\ call[c].pc = "ok" => call[c].got # 0
    /\ call[c].pc = "wait" =>
         LET k == call[c].on IN
         /\ k # 0
         /\ refresh[k].pc = "running" => call[c].seen = cache.token
         /\ refresh[k].pc = "done" /\ refresh[k].token # 0 => refresh[k].token >= call[c].seen
         /\ refresh[k].pc = "done" /\ refresh[k].token = 0 /\ call[c].seen # 0 =>
              expiry[call[c].seen] <= refresh[k].at

TokenInv ==
  TokenTypeOK /\ OneFetch /\ OrderOK /\ StoreOK /\ CallsOK /\ ServedTokensAreLive /\ BackoffIsKept
=============================================================================

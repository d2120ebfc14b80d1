# Verification of the DingTalk OA attachment broker

TLA+ models of the broker (`src/internal`, `src/cmd`) and of the command-line client its Skill
ships (`src/skills/dingtalk-oa-attachment`), the TLC configurations that check them on small
instances, and TLAPS proofs of the results that hold for every instance.  `PROJECT.json` lists the
runs, the properties each checks, the source lines every definition stands for, and the hazards.

## 1. The system

A user asks an agent for an attachment of a DingTalk approval.  The agent runs the Skill's client;
the client logs in through the broker's device flow (the user confirms in a browser and signs in
with DingTalk), keeps the broker's tokens in a JSON file, and searches and downloads through the
broker, which talks to DingTalk with the enterprise application's credentials and records every
access decision.

| Component | State it keeps | Operations | Talks to |
|---|---|---|---|
| Device authorization (`auth/service.go`, `postgres/store.go`) | table `device_authorizations`: status, bound OAuth state, user, expiry | create, bind state, reject, OAuth callback (claim, identify, complete or reject), poll and exchange, prune | browser redirects, DingTalk identity calls, PostgreSQL row locks, session table |
| Sessions (same files) | table `sessions`: token hashes, two expiries, revocation time | authenticate, refresh (rotate), revoke, prune | every authenticated handler; the client |
| Skill client (`dingtalk_oa_attachment.py`) | one credential file shared by all processes of a user | login, logout, authenticated requests with one refresh and a bounded recovery | broker over HTTP, the file system |
| App token cache (`dingtalk/token_cache.go`) | access token, its expiry, retry time, the refresh in flight | `Token` | DingTalk token endpoint; every DingTalk call |
| Attachment download (`attachments`) | per-user download slots, open bodies, audit records | `List`, `Download`, reading and closing the body | approvals, DingTalk, audit table |
| Visible catalog (`approvals/catalog.go`) | per-user cache of process definitions, loads in flight | `visibleCatalog` | DingTalk pages |
| Approval search (`approvals/service.go`, `cursor.go`) | signed cursor: sources, quotas, issue time | `Search`, `VisibleCategories` | catalog, limiter, DingTalk, audit table |
| Rate limiters (`httpapi/rate_limiter.go`, `approvals/limiter.go`) | windows per address or user | `Allow`, `prune` | the handlers |
| Server lifecycle (`cmd/server`, `server`) | two HTTP servers, shutdown state, retention ticker | serve, shut down, prune at the start and every 24 hours | signals, database pool |
| Schema migration (`cmd/migrate`, `postgres/migrate.go`) | `schema_migrations`, advisory lock | `Migrate`; the readiness probe reads what it left | PostgreSQL; the replicas of the server |
| DingTalk API client (`dingtalk/client.go`), HTTP surface, configuration, approval domain | none of their own | request signing, decoding, validation | the components above |

### What is hard about it

* **Commits of unknown outcome.**  `Commit` may return an error after PostgreSQL applied the
  transaction, or while it still does.  The store confirms some commits by reading back
  (`confirmOAuthStateClaim`, `confirmSessionCommit`), and others not at all (`CompleteDevice-
  Authorization`, `RejectDeviceAuthorization`, `RevokeSession`).
* **Handlers over several transactions.**  The OAuth callback claims, calls DingTalk three times,
  completes, and on any failure rejects within five detached seconds; reloads of the callback
  page, polls, their retries and the retention job run between its steps.
* **Times read before a lock is awaited.**  `service.now()` is an argument of every transaction.
* **Rotation and revocation** race over one row, from processes that share a file without a lock.
* **Processes die** between a claim and its decision, and between a refresh and the save.
* **Shared loads** (token, catalog) outlive the request that started them; what they return may
  be stale, and a cancelled request must not fail the others.
* **Concurrent checks of one page**: the first that fails cancels the others, and all of them
  write audit records on contexts of their own.
* **Fixed windows**: counters that restart with the first request of a window, are
  evicted when a table is full, and are shared in an overflow bucket.
* **Everyone waits for everyone** at the end of the process: servers, their handlers, the retention
  job, the pool; the first server to stop must stop the other.
* **A process and its database session part**: a run of `/migrate` that dies leaves a session
  that keeps the advisory lock and its transaction, and may still receive the `COMMIT`.
* **Resources handed from one owner to the next**: a download slot follows the body through
  three nested readers.

### What makes each component correct

* Device flow: one session per device code, for a user DingTalk named to the one browser that
  confirmed the code; a code that was reported expired buys nothing; what a browser or a client was
  told stays true; every claim is decided.
* Sessions: of a login one session is active; a refresh token is used once; tokens handed out are
  stored, and refused only once they have expired or been revoked; a confirmed revocation ends the
  login.
* Client: the file never goes back to replaced or revoked tokens, a logout that revoked its session
  is final, and a logout takes nothing but a refusal for an inactive session.
* Token cache: one refresh at a time, live tokens, everyone answered, a back-off that is kept.
* Downloads: slots come back exactly once, nothing is sent unrecorded, a response that ends
  regularly is the whole body, and the client publishes only what it counted.
* Catalog: what is shown is a minute old at most; a complete listing is one catalog; a load outlives
  the requests that wait for it.
* Search: an answered page has decided and recorded every approval; a chain of cursors skips none.
* Rate limiters: what gets through in any minute on the account of a network or a user is bounded,
  whatever is sent and however the tables are evicted and pruned; nobody charges another one's
  account; who is refused has used up a bucket.
* Server: a stop always ends the process, in an order in which nothing loses what it uses, and an
  exit without error has cut no request.
* Migration: a version is applied and recorded once, in order, by one run at a time; success and
  readiness mean what they say; no dead run blocks the next for ever.

## 2. The modules

### DeviceGrant, DeviceAuthorization, DeviceAuthorizationProofs

`DeviceGrant` is the promise: a code is requested, decided at most once, consumed into one
session, forgotten.  `DeviceAuthorization` is the code.

| In the model | In the code |
|---|---|
| `row[d]` | the row of `device_authorizations`; the state hash is identified, within a row, by the browser's confirmation |
| `tx[d]` | a transaction whose `Commit` failed with an unknown outcome: it keeps the row lock until it lands or is lost |
| `redirects` | the states sent to a browser: only those come back in a callback |
| `cb[c]`, `poll[p]` | the executions of `CompleteAuthorization` and `ExchangeDeviceAuthorization`, by the step they are at |
| `sessions` | every session ever inserted by an exchange (never pruned here: it is what has been promised) |
| `at` | the clock reading a request carries into its transaction; an answer that tells how the row was judged keeps it |

A transaction under `FOR UPDATE` is one action; its guard is the code's checks on the row, its
effect the `UPDATE`.  Where `Commit` can fail, the action has a second disjunct that leaves the
transaction open.  `Identify` stands for the three DingTalk calls and the checks on them.
Requests of one transaction (create, start, reject consent) are single actions; the readings a
delayed one may carry are the set `Readings(d)`.  A completion is refused by the row, and by the
upsert of the user, whose union ID may be stored for another user.  The confirmation of a claim is modelled as it is
written: any row authorizing with this state is taken for one's own.

### SessionLine, Sessions, BrokerClientProofs

`SessionLine` is the promise: the sessions of a login follow one another one at a time, and an
ended line never returns.  `Sessions` is the table and the handlers over it.  A token pair is
drawn by `newSession` before the transaction, so a drawn pair may never be inserted.  The line of
a session (`line`) is not stored by the code; it is a history variable, written where a session is
inserted, so that rotation can be stated; so is `past`, which keeps a row after the retention job has
deleted it, so that a refusal can be held against it.  `Refresh` calls `now` twice, a few instructions apart,
for the new expiries and for the check of the old ones; the model uses one reading for both.

### BrokerClient, BrokerClientProofs

Extends `Sessions` with the client processes: process `p` uses request `p`.  One process runs one
command; the steps are those of `_authenticated_open`, `command_login` and `command_logout`
between two operations that others can see (file access, request sent, answer received).
`JsonCredentialStore.load` looks at the file and then opens it, which are two steps; `save` is one
rename.  The recovery loop polls the file for a second: `Recover` may happen whenever the file has
other tokens, `RecoveryTimesOut` while it has not.

### AppTokenCache, AppTokenCacheProofs

`cache` is `appTokenCache`, `refresh[n]` the n-th `tokenRefresh` ever made, `call[c]` an execution
of `Token` and the refresh it holds.  A decision under the mutex is one action
(`TokenCached`, `TokenJoins`, `TokenRefreshes`), so is each of the three ends of `fetchToken`; the
wait is a step of its own, since a refresh may end, and another begin, before it.  Tokens are
numbers, in the order of their issue.  `Finished` renders closing the `done` channel.

### Downloads, DownloadFile, Delivery, DownloadFileProofs

`Downloads` is `List` and `Download` of `attachments/service.go` with the per-user slots, the audit
records and `handleDownload`'s copy loop.  The three nested readers (`expectedSizeReadCloser`,
`limitedReadCloser`, the upstream body) are operators from a reader's state and a requested
length to the results a read may have; the upstream may cut its body into reads in any way, return
its last bytes with or without the end of file, return nothing, or fail.  Bodies, sizes and the
limit are small numbers, chosen so that a body is shorter than, equal to and longer than both the
metadata size and the limit.  `DownloadFile` extends it with `command_download`: the client receives
what the server has sent, counts it, and publishes the file by a link or a rename; other processes may
put a file at the destination meanwhile, and the client may be killed.

`Delivery` is the promise of both together.  A process is under way or told to overwrite; the
release of an attachment to it is recorded once, with its size; the file at the destination becomes
that of the process in one step, whole, after the release, and over another file only if it was told
to.  In the mapping (`Promise`, at the end of `DownloadFile`) a process is under way from its request to
its end, an attachment is released when its allowed record is stored, and its size is the one its
approval names, or that of the body; slots, readers and the pieces a body arrives in are hidden.

### VisibleCatalog, VisibleCatalogProofs

`cache[u]` is an entry of `catalogCache`, `load[u]` the `singleflight` call under way for `u`,
`walk[w]` a client command and the request it has at the broker.  `shown` is DingTalk's side, which
changes while a load goes from page to page: a load collects some of what is shown at each page
and all that is left at the last.  A load has a context of its own (`LoadContextDone`): a request that
gives up ends as `cancelled` and leaves the load alone, and one whose load timed out keeps the time it
began.  `withdrawn` is history.  A template stands for its process code
with its names; a category list is the set of its templates, listed in the order of their numbers.
`store` evicts by the loading times, under the lock, as the code does; which of several equally old
entries goes is open, as the order of a Go map is.

### ApprovalSearch, ApprovalSearchProofs

`search[r]` is an execution of `Search`, `check[r][i]` its goroutine for approval `i`, `audit` the
records they wrote.  What comes before the listing (limiter, catalog, category, bounds) is one
refusal that may happen; the cursor's checks are kept.  A check ends in one action with its audit
record, which may be stored although the write is reported failed.  `Cancel` renders `callSDK` and
`classifySDKError`: the cancellation is recognised only while the client waits for the app token.
The fields `began` and `decided` of a cursor are history, for `ChainIsWhole`.

### RateLimits, RateLimitsProofs

Both limiters a request passes: `entries` and `requests` are those of `rateLimiter`, `states` that
of `searchRateLimiter`.  Each `Allow` runs under a mutex and reads the clock inside it, so it is one
action, and the clock is monotonic between them.  `Request` is what comes before `Allow` as well: a
client at one of `Origins` writes one of `Forgeries` into `X-Forwarded-For` and reaches the broker
directly or through up to `MaxProxies` trusted proxies (`Routes`), which append the address they were
called from; `clientAddress` finds the address again.  A header that arrives with more than 4096 bytes
or 32 hops is not read (`Dropped`), and the request is counted to the proxy it came from.  A forgery
is its hops and whether it makes the header too long in bytes: the 32 addresses the hop limit allows
fit into them, so only what a client wrote can.  `payer` is the network on whose account a
request is: its client's, or the proxy's when the header is dropped, since the broker knows no other.
`waiting` holds the users whose search has passed
the first limiter.  `admitted`, `searched` and `verdict` are history, from which the properties count
what got through in the last window; both are sets, whose members the number of the request tells
apart, and `Tick` drops what the window has left behind.

### Migration, Deployment, OperationsProofs

`Migration` is a set of executions of `/migrate`.  A run is two things: the process (`run[m]`) and
its session at the server (`session[m]`).  `LockFails` is an error in answer to the request for the
lock.  `Break` parts the two, when the process dies, is interrupted or loses its connection; a run
that had nothing left but to unlock ends with success even so, as the code ignores the error.  The
orphaned session keeps the advisory lock and its transaction, waits on for the lock if that is what it
asked for, and receives a `COMMIT` that was under way (`Land`) or does not, until the server notices
(`SessionEnds`).  A version is its number; its SQL fails when what it
creates exists, and waits while another open transaction creates the same.  `Deployment` adds the
replicas of the server, whose probe `/readyz` is two queries, with other steps in between.

### ServerLifecycle, OperationsProofs

One process of `/server`: `main` is where `run` is, `server[s]` one of the two calls of
`server.Serve` and the goroutine of `http.Server.Serve` under it, `job` the retention goroutine, `pool`
the database pool and `handler[r]` the handler of a request.  The contexts of `run`,
`serveServers` and the job are the set `ctx` of what has been cancelled.  `net/http` and `pgxpool`
are modelled from how they are used: `Shutdown` closes the listener and waits for active
connections, `Close` cuts them, a listener's failure ends `Serve` and leaves the connections, closing the listener
of a server cancelled before it served may fail (`ServeBegins`), and the
pool's `Close` waits for the connections in use.

## 3. The runs

| Run | Shows | Bounds |
|---|---|---|
| `device_faults` | one session, one browser, final expiry, true answers, the inductive invariant and the refinement of `DeviceGrant` under every fault | one device, two browsers, users, callbacks and polls; the clock runs past expiry and retention |
| `device_claims` | a claim belongs to one callback, also when that one dies; and (liveness) every claim is decided unless its callback died or found no database for its rejection | one device, one user, two browsers, callbacks and polls; processes die and calls fail, no commit is reported wrongly |
| `sessions` | one active session per login, refresh tokens used once, final revocation, no refusal without a reason, the refinement of `SessionLine` | three token pairs, two requests that can be reused, all faults |
| `client` | the file moves forward, a logout that revoked is final, and of the tokens it has read a logout removes dead ones only | four processes, three token pairs, all faults on both sides |
| `downloads` | slots, audit records, whole bodies, the client's file, the refinement of `Delivery` | two requests of one user with one slot, a limit of two bytes, metadata sizes and bodies up to three |
| `app_token` | one refresh at a time, live tokens, and (liveness) an answer for every waiter | two callers that call again and again, three refreshes, lifetimes of 1 (due at once) and 4 (served, renewed, expired) |
| `catalog` | freshness, eviction, joined loads that outlive their requests, listings of one catalog | two commands, two users, two templates, a cache of one entry, pages of one, one change |
| `search` | audited pages, whole chains | two requests, two users, three approvals, pages of two, both checks at once, a chain of two pages |
| `search_sibling` | the finding of section 5, by a counterexample | one request, two approvals, nobody disconnects |
| `limits` | what gets through on the account of a network or a user, and that a refusal is justified | three networks, one with two addresses and one a trusted proxy's; up to two proxies on the way; headers of none, one and three hops, and too long ones of few hops; a table of three, a limit of one, a window of two ticks, five requests in four |
| `server` | a stop ends the process (liveness), the pool closes last, a clean exit has cut nothing | three requests on two servers; everything may fail, time out and be signalled |
| `deployment` | versions applied once and in order, success and readiness that can be trusted, runs that end (liveness) | three runs, of images with one, three and three versions, a replica of each image |

Why the bounds are enough:

* Device flow and sessions.  Rows of different devices share nothing but the retention job, so one
  device is the general case, and the proofs cover any number.  Two callbacks, two polls and two
  browsers are what the races need; a third adds no new order of a pair.  `TTL = 2`, `Retention = 0`
  and `Horizon = 3` let a row be live, expired, expired for a request that read the clock earlier, and
  pruned.  The access token of a session expires a tick before its refresh token, so that a retention
  job that looks at the first only takes a session that can be refreshed.  Three pairs are a login and
  two refreshes of one session (the fork), a chain of two, or two logins.  Four client processes are a
  login, two racing commands and a logout.
* Downloads.  A size limit of two and bodies up to three put every body below, at and above the
  metadata size and the limit; the second request finds the one slot taken.
* Token cache.  Two callers share a refresh, one of them gives up and calls again; the third
  refresh is needed for a caller that still holds the first while the second fails.
* Catalog and search.  A cache of one entry with two users evicts on every second load; one change at
  DingTalk, in a load of several pages and a clock that reaches the end of an entry and of a cursor, is
  what staleness needs.  Two commands join each other's loads or evict each other's entries.  In a
  search two checks that overlap show every order of a failure and a sibling's end, and a second
  request continues the first, repeats a page of it, or is another user's.
* Limits.  Of the table's three entries one is the overflow bucket, so the third network overflows,
  and gets an entry of its own once another is pruned.  A client behind the proxy is counted to its
  own account, and to the proxy's when its header is too long, by either measure; behind two proxies
  the hops appended by the first one must be passed over to find it.  A window of two ticks has a beginning, a
  middle and an exact end; five requests fill a bucket, the overflow bucket and a bucket made anew
  within one window.  Three windows of two buckets can reach into one minute; the first began before
  it, with a request that no longer counts, so a network gets three limits less one through at most.
  With `Limit = 1` that is two, which the run reaches.  The two users are interchangeable (symmetry).
* Server.  Two requests keep the two servers busy at once, or one of them with a handler that is cut and
  one that finishes; the third comes over a connection that a failed server left behind.
* Deployment.  A run of the old image before, between and after those of the new one; while one run
  waits for the lock another can die with it and a third has its `COMMIT` in flight.

`Horizon` and the other constants marked as bounds limit the clock and the requests.  The `Quiescent`
actions let a state with everything used up stutter, and `Gone` one whose process has exited, so that
deadlock checking stays on wherever it finds a handler that could not go on.

Fairness is assumed in four runs.

* `device_claims`: handlers run under context deadlines, so a step that is enabled is taken, and
  PostgreSQL decides every transaction.  Nothing is assumed of browsers, users and clients:
  `CallbackArrives`, `PollArrives`, `PollAgain` and the clock have no fairness, nor have crashes and
  outages.  A rejection that finds no database tries again for five seconds at most (`RejectTimesOut`
  is fair, `RejectRetries` is not).  With lost commits a claim may stay undecided until it expires: see
  section 5.
* `app_token`: a fetch ends (the HTTP client has a timeout) and a waiter whose refresh is done runs;
  nothing is assumed of callers or of their cancellation.
* `server`: the process is scheduled, `SHUTDOWN_TIMEOUT` fires, and a statement under way is answered
  or ended by its context.  The job's `select` is strongly fair for its context: it could choose the
  ticker whenever both are ready, but the next tick is a day away.  Handlers outside the database may
  never finish.
* `deployment`: a run goes on while its statements are answered, and the server notices that the
  client of an orphaned session is gone.  Nothing is assumed of an orphaned `COMMIT`, of those who
  start and interrupt runs, or of probes.

Operators named `Defect...` are plausible bugs (a dropped guard, a missing reset, an unconfirmed
commit): each property of a passing run fails with one of them in place of the operator it
follows.

## 4. What is proved

Every safety property of a passing run, and the three refinements, in eight modules of proofs;
besides them some invariants and action properties that no run repeats, such as `SessionInv`,
`ClientInv`, `BackoffIsKept`, `NothingOverwritten` and `VersionsFollow`.  They assume only the named
assumptions on the constants: `DeviceAssumption`, `SessionAssumption`, `ClientAssumption`,
`TokenAssumption`, `CatalogAssumption`, `SearchAssumption`, `DownloadAssumption`, `FileAssumption`,
`LimitsAssumption`, `MigrationAssumption` and `DeploymentAssumption`.  They say that `None` is no
value, that times and sizes are naturals, that faults are known ones, that an image has some number
of versions; for the catalog that the users, and for the limiters that the networks, are finitely
many (both count their entries); and for the limiters that no client sits at a proxy's address, that
a written header is a sequence, and that an entry is kept for a window at least (the code keeps it
for ten).  Beyond that the sets are arbitrary, infinite ones included, and all faults may happen.

* `DeviceAuthorizationProofs`: `Inv` is invariant (`Invariance`), hence the type invariant, one
  session per device, one browser per device, final expiry and true answers; and
  `Spec => ImplementsGrant`.  The properties are not inductive alone.  One session per device needs
  that a session exists only for a consumed or pruned device (`SessionsOK`) and that an open
  transaction still starts from the row it locked (`TxOK`), which in turn needs that a locked row
  is never written; the user of a session was named to the browser that confirmed the device because
  exactly the approved and consumed rows carry a user (`RowsOK`) and the bound state does not change
  while the row is undecided (`BindingOK`); and expiry is final because, as long as a row is there, its
  expiry separates the readings of those who found it alive from those of whom it was reported to
  have expired (`ExpiryOK`).  The proof has one step per action, over lemmas that say what a transaction does
  to the row, the open transactions and the sessions.  `ClaimedOnce` is proved where no commit is
  reported wrongly (`"commit" \notin Faults`; calls may fail and processes die): without an open
  transaction a claim is of a pending row, and no row with a claimant, alive or dead, is pending or
  becomes so again (`ClaimsOK`, over `Inv`).  Without any fault a claim that has not expired has a callback at work on it
  (`ClaimIsAttended`, which needs that a callback's clock reading is of the past): what is left of
  `ClaimIsDecided` is that callbacks run.
* `BrokerClientProofs`, sessions: `SessionInv` is invariant, hence one active session per login, refresh tokens
  used once and stored, final revocation and justified refusals; and `SessionSpec => ImplementsLine`.
  `OneActivePerLine` needs that a pair is inserted once, into the line of the session it replaces
  (`RefreshesOK`), and that an open write holds an active row (`StoreOK`).  `RefusedForAReason` needs
  that a row which is gone was revoked or had outlived both its tokens (`HistoryOK`).  The step is proved for
  `AnyStep`, which contains the steps of `BrokerClient` as well.
* `BrokerClientProofs`, client: `LogoutIsFinal`, `FileMovesForward` and `LogoutRemovesDeadTokens`, from `SessionInv` and an invariant of
  the processes and the file.  What they need is that tokens which no process has saved yet are known
  to one process only, the one whose request drew them, so that a save can only bring new tokens; and
  that a session a logout revoked is not active, has no successor under way and stays so.
  `LogoutRemovesDeadTokens` rests on one more invariant (`SeenOK`): from its first refusal on a process
  holds the tokens of a session that is revoked or has expired, until it takes over others.  A
  refusal shows as much because every session of a login has a history (`PastOK`) and because it has a
  reason; and what is dead stays dead, whoever takes the next step.
* `AppTokenCacheProofs`: `TokenInv` is invariant, hence one refresh at a time, live tokens and the
  back-off.  That a caller is never given a token older than the one it found needs that the cached token is
  older than that of every unfinished refresh (`OrderOK`), and that whoever waits for an unfinished
  refresh saw at most the cached token (`CallsOK`).
* `VisibleCatalogProofs`: freshness, whole listings, and that whoever waits has a load and is told of
  a timeout only after a load that had its whole time.  Freshness needs that
  whatever a load has collected, a cache holds or a request carries was shown no earlier than the
  time it is stamped with; a whole listing, that the catalog a cursor is bound to is the one its offset
  was counted in.
* `ApprovalSearchProofs`: `SearchIsAudited` and `ChainIsWhole`.  An answer says nothing of how its
  checks went; the invariant follows them.  A page lies between its cursor's position and the next one's,
  and a cursor has decided what lies before it (`RequestsOK`, `CursorsOK`), so a chain has no gap.  What
  a check has recorded fits the state it is in, and one that was skipped has a sibling that failed
  (`CheckOK`): as an answered page has no failure, none of its approvals was skipped.
* `RateLimitsProofs`: the bounds of both limiters, that a refusal is justified, and the types with
  the bound of the table.  The bounds are counts of what lies in a sliding window, while a bucket
  only knows its own fixed window.  `WindowOK` relates the two: a window's first request is always
  let through, so less than a limit is let through after its beginning, and less than a limit is
  left from before it, which makes less than two.  An account is charged in two buckets, its own and
  the overflow bucket, since `clientAddress` returns the payer's address on every route and behind
  every header (`ClientIsSeen`, `RequestKey`).  What got through the overflow bucket came before the
  account's own entry was made, and what is left of its own lies in that entry's first window
  (`SourceOK`), which makes less than three.  An entry or a state is pruned only when nothing it let
  through is left (`EntryOK`, `UserOK`): that is where the assumption on the pruning age enters.
* `DownloadFileProofs`: the properties of the download and of the client's file.  The central
  facts: the slot counter of a user is the number of the requests that hold one (`SlotsOK`, with the
  cardinalities of finite sets); what a reader's allowances leave plus what was sent is the body, the
  limit and the metadata size (`ReaderOK`, `SizesOK`), however the upstream cuts the body into
  reads; and a body is opened and sent only between an allowed record and its end (`RecordsOK`,
  `PlaceOK`).  `FileSpec => ImplementsDelivery`: besides these it needs that a record once stored fixes
  the sizes of its request (`SettledOK`), so that what is released never changes.  One lemma per action
  shows the abstract step it is: `Publish` delivers or gives up, a handler's step releases or
  stutters, and the client's counting (`Receive`) stutters or gives up.  That nothing is overwritten
  without `--overwrite` (`NothingOverwritten`) follows in this way as well, and is proved by itself.
* `OperationsProofs`, migration: `AppliedOnce` and `SuccessIsMigrated`.  Whoever is at work in the database, or
  has left a transaction there, holds the lock (`LockOK`), and the versions below the one a run is at are
  recorded and that one is not (`VersionOK`); `SessionOK` relates a process to the session it lost.
  From the same invariant, an action property: the database goes from one version to the next and never
  back (`VersionsFollow`).
* `OperationsProofs`, server: `PoolClosesLast` and `CleanExitCutsNothing`.  They need that the result of a
  server is taken before the process goes on and reports every failure (`ServersOK`), the order in
  which `run` lets go of the job and the pool (`PoolOK`), and that a handler at work in a stopped
  server was cut, or its server failed (`HandlersOK`).

The theorems, with the definition each one states where a run checks it too:

| Theorem | Module | States |
|---|---|---|
| `TokenInvariance` | `AppTokenCacheProofs` | The inductive invariant of the token cache holds for any callers, lifetimes and back-off (`TokenInv`) |
| `SingleFetch` | `AppTokenCacheProofs` | One refresh runs at a time and is the one callers join |
| `TokensAreLive` | `AppTokenCacheProofs` | A caller is given a live token no older than the one it found, or an error when there was none (`ServedTokensAreLive`) |
| `BackoffHolds` | `AppTokenCacheProofs` | No renewal is tried before the back-off is over while the old token lives |
| `SearchInvariance` | `ApprovalSearchProofs` | The inductive invariant of the search holds for any requests, users, approvals, page sizes and numbers of concurrent checks |
| `PagesAreAudited` | `ApprovalSearchProofs` | An answered page has decided and recorded each of its approvals (`SearchIsAudited`) |
| `ChainsAreWhole` | `ApprovalSearchProofs` | A chain of cursors decides every approval before its offset and lives no longer than its first cursor (`ChainIsWhole`) |
| `SessionInvariance` | `BrokerClientProofs` | The inductive invariant of the sessions table holds for any number of token pairs and requests, under all faults |
| `OneActiveSession` | `BrokerClientProofs` | A login has at most one active session (`OneActivePerLine`) |
| `RefreshTokensAreUsedOnce` | `BrokerClientProofs` | A refresh token is good for one refresh, and the tokens it buys are stored (`RefreshIsSound`) |
| `RevocationIsFinal` | `BrokerClientProofs` | After a confirmed revocation no session of the login is active or about to be (`RevocationEndsLine`) |
| `RefusalsHaveAReason` | `BrokerClientProofs` | A token is refused only if it has expired, or its session was revoked or is not stored yet, whatever the retention job deletes (`RefusedForAReason`) |
| `LineRefinement` | `BrokerClientProofs` | The sessions of a login follow one another as SessionLine says (`ImplementsLine`) |
| `ClientInvariance` | `BrokerClientProofs` | The inductive invariant of the client processes, their credential file and the sessions table holds for any number of processes and token pairs, under all faults |
| `LogoutStays` | `BrokerClientProofs` | Nothing of a session is in the credential file once a logout has revoked it (`LogoutIsFinal`) |
| `LogoutRemovesTheDead` | `BrokerClientProofs` | Of the tokens it has read itself, a logout removes only those of a session that was revoked or whose access token has expired (`LogoutRemovesDeadTokens`) |
| `SavesMoveForward` | `BrokerClientProofs` | No save writes tokens that were replaced or revoked, or replaces good ones of the same login (`FileMovesForward`) |
| `Invariance` | `DeviceAuthorizationProofs` | The inductive invariant of the device flow holds for any number of devices, browsers, callbacks and polls, under all faults (`Inv`) |
| `TypeCorrect` | `DeviceAuthorizationProofs` | Every variable of the device flow keeps its type |
| `SingleSession` | `DeviceAuthorizationProofs` | A device code buys at most one session (`OneSessionPerDevice`) |
| `OneBrowser` | `DeviceAuthorizationProofs` | A device stays with the browser that confirmed it first, from the redirect over the claims to the user of its session (`OneBrowserPerDevice`) |
| `ExpiryStands` | `DeviceAuthorizationProofs` | Once a poll was told that a device expired, no request with a later reading of the clock gets its session or decides it (`ExpiryIsFinal`) |
| `AnswersAreTrue` | `DeviceAuthorizationProofs` | What callbacks and polls were told about a device stays true (`AnswersStand`) |
| `Refinement` | `DeviceAuthorizationProofs` | The device flow implements the abstract grant (`ImplementsGrant`) |
| `SingleClaim` | `DeviceAuthorizationProofs` | While no commit is reported wrongly, one callback at most claims a device, whatever else fails and whoever dies (`ClaimedOnce`) |
| `ClaimsAreAttended` | `DeviceAuthorizationProofs` | While nothing fails, a claimed device that has not expired has a callback at work on it: the safety part of ClaimIsDecided |
| `FileInvariance` | `DownloadFileProofs` | The inductive invariant of downloads and of the client's file holds for any requests, users, sizes, buffers and limits |
| `SlotsComeBack` | `DownloadFileProofs` | A user's downloads keep to the limit, and every slot and body is given back (`NothingLeaks`) |
| `NothingUnrecorded` | `DownloadFileProofs` | Nothing is sent before its allowed record is stored, and nothing after a denial (`SentIsAudited`) |
| `ResponsesAreWhole` | `DownloadFileProofs` | A response that ends regularly is the whole body, however it is cut into reads (`CompleteIsWhole`) |
| `PublishedIsComplete` | `DownloadFileProofs` | A published file has the size its approval names, or is the whole attachment (`PublishedHasItsSize`) |
| `OthersFilesStay` | `DownloadFileProofs` | Without --overwrite nothing at the destination is replaced |
| `DeliveryRefinement` | `DownloadFileProofs` | Broker and client implement the abstract delivery: a whole attachment, recorded, in one step, at most once per process (`ImplementsDelivery`) |
| `MigrationInvariance` | `OperationsProofs` | The inductive invariant of the migrations holds for any number of runs, images and lost sessions |
| `VersionsAreAppliedOnce` | `OperationsProofs` | Each version is applied once and in order, by whichever runs (`AppliedOnce`) |
| `VersionsFollowOneAnother` | `OperationsProofs` | The database goes from one version to the next, schema and ledger in one step, and never back |
| `SuccessCanBeTrusted` | `OperationsProofs` | A run that ends with success and a probe that finds the broker ready were right (`SuccessIsMigrated`) |
| `LifecycleInvariance` | `OperationsProofs` | The inductive invariant of the server process holds for any requests and bounds |
| `PoolIsLast` | `OperationsProofs` | The pool closes after everything that uses it has ended (`PoolClosesLast`) |
| `CleanExit` | `OperationsProofs` | An exit without error has cut no request (`CleanExitCutsNothing`) |
| `LimitsInvariance` | `RateLimitsProofs` | The inductive invariant of both limiters holds for any networks, chains of proxies, forged headers of any length, limits, windows and table sizes |
| `LimitsTypeCorrect` | `RateLimitsProofs` | The limiters keep their types, and their tables their bounds (`LimitsTypeOK`) |
| `SourcesAreLimited` | `RateLimitsProofs` | Less than three limits get through on the account of a network in any window, through whichever buckets; the account is the client's own unless the broker drops its header for its length, and then the proxy's (`SourceIsLimited`) |
| `UsersAreLimited` | `RateLimitsProofs` | A user gets less than two limits of searches through in any window (`UserIsLimited`) |
| `RefusalsAreJustified` | `RateLimitsProofs` | Whoever is refused met a bucket that had used up its limit in the window (`RefusalIsJustified`) |
| `CatalogInvariance` | `VisibleCatalogProofs` | The inductive invariant of the catalog holds for any users, commands and templates: what is stored was shown since its stamp |
| `CatalogTypeCorrect` | `VisibleCatalogProofs` | The catalog cache never outgrows its limit (`CatalogTypeOK`) |
| `AnswersAreFresh` | `VisibleCatalogProofs` | No answer holds a template withdrawn longer ago than the cache lives (`CatalogIsFresh`) |
| `ListingsAreWhole` | `VisibleCatalogProofs` | A listing that says it is complete is one catalog of one user (`ListingIsWhole`) |
| `NobodyIsStranded` | `VisibleCatalogProofs` | Whoever waits for a catalog has a load to wait for, and is told of a timeout only after a load that had all its time (`LoadsOutliveRequests`) |

Only model-checked: the liveness properties `ClaimIsDecided`, `WaitersAreAnswered`, `RunsEnd` and
`StopEndsTheProcess`, which are out of the proof system's reach, and the
counterexample of `search_sibling`.

## 5. Finding and limits

**Cancelled siblings are recorded as denied** (`approvals/service.go:514`).  The check for
`context.Canceled` never sees one from the DingTalk calls: `classifySDKError` formats it away.  The
test uses a provider that returns the bare error.  The run `search_sibling` shows the record.

Limits of the design that the properties account for:

* A claim that was applied but could not be confirmed leaves the row authorizing until it expires,
  while the client polls on: the deferred rejection is set up after the claim succeeded
  (`auth/service.go:298`).  `ClaimIsDecided` is checked without lost commits,
  with crashes and outages.
* The confirmation of a claim (`postgres/store.go:397`) cannot tell its own claim from that of
  another callback of the same browser, so `ClaimedOnce` is checked, and proved, without lost commits
  (with crashes and outages); `OneBrowserPerDevice` and `OneSessionPerDevice` hold even then.
* A completing commit that was applied but reported failed (`postgres/store.go:366`) shows the browser
  a failure while the client gets its session.
* A logout that lost the race for a refresh waits a second for the winner's save, gives up, and deletes
  the file without looking at it again (`dingtalk_oa_attachment.py:783`): tokens saved since are lost,
  while their session stays active.  The Skill says of such a logout that "the server session is
  already inactive" (`SKILL.md:233`), which is true of the session it has read.  `LogoutIsFinal` is
  therefore about what a logout revoked, and `LogoutRemovesDeadTokens` about the tokens it read itself.
* A body longer than announced is found out after all announced bytes were sent
  (`attachments/service.go:424`); the client counts them and publishes.  `PublishedHasItsSize` is
  about the announced size.
* A header with more than 32 hops or 4096 bytes is not read, and its request is counted to the proxy
  that sent it (`clientAddress`, `httpapi/handler.go`).  A client can thus choose between two accounts, its
  own and the proxy's: `SourceIsLimited` bounds each account, and all requests with dropped headers
  behind one proxy share its one.
* A fixed window lets nearly twice its limit through at its border, and the overflow bucket adds
  another limit: `SourceIsLimited` states the bound that does hold, less than three limits.

## 6. Plan

Done, in this order: `DeviceAuthorization` with `DeviceGrant`; `Sessions` with `SessionLine`;
`BrokerClient`; `AppTokenCache`; `Downloads` and `DownloadFile`; `VisibleCatalog` and
`ApprovalSearch`; `RateLimits`; `Migration` and `Deployment`; `ServerLifecycle`; the proofs of every
safety property; `Delivery` and its refinement.

To come:

1. An abstract specification of a search chain (what one user has been shown and what was recorded of
   it), implemented by `ApprovalSearch`.
2. The safety parts of `RunsEnd` and `StopEndsTheProcess`, as it was done for `ClaimIsDecided`: that
   whoever waits, waits for something that is under way, so that fairness alone brings the end.

## 7. What is not modelled

* Pages, headers, request decoding and problem documents of the HTTP surface, signing and decoding of
  DingTalk requests, parsing of form values and operation records (`domain/approval.go`), of
  configuration and of the client's command line: they keep no state and have direct tests.
* The checks of `Downloader.Open` before the body (URL and addresses, redirects, status, file name) and
  `validateTimeRange` of the search: refusals without a state behind them.
* The catalog's keyword filter (one keyword is in use), a search category with several sources (nothing
  builds one) and the order of the items of a page.
* The retention job's deletion of audit events, which nothing reads.
* What `net/http` does with a connection that is accepted as the listener closes.
* Randomness is perfect (codes and tokens are drawn at most once) and hashes are injective.

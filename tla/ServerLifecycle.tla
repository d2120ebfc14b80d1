--------------------------- MODULE ServerLifecycle ---------------------------
(***************************************************************************)
(* One process of /server from its start to its exit (cmd/server/main.go,  *)
(* internal/server/server.go): the database pool, two HTTP servers, each   *)
(* run by a goroutine of its own, the retention job, and the requests in   *)
(* progress.  What net/http does (Serve, Shutdown, Close) and how the pool *)
(* closes are modelled from their use.                                     *)
(***************************************************************************)
CONSTANT Requests  \* requests the two servers get

VARIABLES
  main,     \* run, and the error it returns
  ctx,      \* which contexts are cancelled: "signal", "serve", "maintenance"
  server,   \* server[s]: server.Serve and http.Server.Serve for server s
  job,      \* the retention goroutine
  pool,     \* the pgx pool
  handler   \* handler[r]: the handler of request r

serverVars == <<main, ctx, server, job, pool, handler>>

Servers == {"public", "metrics"}

Main == [pc : {"build", "listen", "listenMetrics", "serve", "join", "close", "exited"},
         failed : BOOLEAN]

\* `loop` is the goroutine of http.Server.Serve, `taken` says that serveServers has
\* received the result.
Server == [pc : {"none", "called", "select", "shutdown", "await", "returned"},
           loop : {"none", "starting", "accepting", "ended", "broken"}, listener : BOOLEAN,
           failed : BOOLEAN, taken : BOOLEAN]

\* `cut`: the connection was closed under the handler.
Handler == [pc : {"none", "running", "querying", "done"}, on : Servers, cut : BOOLEAN]

LifecycleTypeOK ==
  /\ main \in Main
  /\ ctx \subseteq {"signal", "serve", "maintenance"}
  /\ server \in [Servers -> Server]
  /\ job \in {"none", "pruning", "waiting", "ended"}
  /\ pool \in {"none", "open", "closing", "closed"}
  /\ handler \in [Requests -> Handler]

LifecycleInit ==
  /\ main = [pc |-> "build", failed |-> FALSE]
  /\ ctx = {}
  /\ server = [s \in Servers |-> [pc |-> "none", loop |-> "none", listener |-> FALSE,
                                  failed |-> FALSE, taken |-> FALSE]]
  /\ job = "none" /\ pool = "none"
  /\ handler = [r \in Requests |-> [pc |-> "none", on |-> "public", cut |-> FALSE]]

\* The context the servers run under is cancelled by a signal or by serveServers, that
\* of the job by a signal or by stopMaintenance.
ServeDone == ctx \cap {"signal", "serve"} # {}
JobDone == ctx \cap {"signal", "maintenance"} # {}

Exit == main' = [main EXCEPT !.pc = "exited"]

\* SIGTERM or an interrupt; a second one changes nothing.
Signal ==
  /\ main.pc # "exited" /\ "signal" \notin ctx
  /\ ctx' = ctx \cup {"signal"}
  /\ UNCHANGED <<main, server, job, pool, handler>>

-----------------------------------------------------------------------------
\* productionApplication opens the pool and pings the database, or run returns.
Build ==
  /\ main.pc = "build"
  /\ \/ main' = [main EXCEPT !.pc = "listen"] /\ pool' = "open"
     \/ main' = [pc |-> "exited", failed |-> TRUE] /\ pool' \in {"none", "closed"}
  /\ UNCHANGED <<ctx, server, job, handler>>

\* Without the listener of the API, the deferred close is all that is left to do.
Listen ==
  /\ main.pc = "listen"
  /\ \/ /\ main' = [main EXCEPT !.pc = "listenMetrics"]
        /\ server' = [server EXCEPT !["public"] = [@ EXCEPT !.listener = TRUE]]
     \/ main' = [pc |-> "close", failed |-> TRUE] /\ UNCHANGED server
  /\ UNCHANGED <<ctx, job, pool, handler>>

\* With both listeners the retention job and the two calls of server.Serve start;
\* without the second, the first is closed.
ListenMetrics ==
  /\ main.pc = "listenMetrics"
  /\ \/ /\ main' = [main EXCEPT !.pc = "serve"]
        /\ job' = "pruning"
        /\ server' = [s \in Servers |-> [server[s] EXCEPT !.listener = TRUE, !.pc = "called"]]
     \/ /\ main' = [pc |-> "close", failed |-> TRUE]
        /\ server' = [server EXCEPT !["public"] = [@ EXCEPT !.listener = FALSE]]
        /\ UNCHANGED job
  /\ UNCHANGED <<ctx, pool, handler>>

-----------------------------------------------------------------------------
\* Serve gives up before it starts and closes the listener, which may fail, or starts
\* http.Server.Serve and waits.
ServeBegins(s) ==
  /\ server[s].pc = "called"
  /\ \E fails \in BOOLEAN :
       server' = [server EXCEPT ![s] =
         IF ServeDone THEN [@ EXCEPT !.pc = "returned", !.listener = FALSE,
                                     !.failed = server[s].failed \/ fails]
                      ELSE [@ EXCEPT !.pc = "select", !.loop = "starting"]]
  /\ UNCHANGED <<main, ctx, job, pool, handler>>

\* http.Server.Serve accepts until Shutdown, which may have come first.
LoopStarts(s) ==
  /\ server[s].loop = "starting"
  /\ server' = [server EXCEPT ![s] =
       IF @.pc = "select" THEN [@ EXCEPT !.loop = "accepting"]
                          ELSE [@ EXCEPT !.loop = "ended", !.listener = FALSE]]
  /\ UNCHANGED <<main, ctx, job, pool, handler>>

\* Accept fails for good.
LoopBreaks(s) ==
  /\ server[s].loop = "accepting" /\ server[s].listener
  /\ server' = [server EXCEPT ![s] = [@ EXCEPT !.loop = "broken", !.listener = FALSE]]
  /\ UNCHANGED <<main, ctx, job, pool, handler>>

\* Shutdown has closed the listener.
LoopEnds(s) ==
  /\ server[s].loop = "accepting" /\ ~server[s].listener
  /\ server' = [server EXCEPT ![s] = [@ EXCEPT !.loop = "ended"]]
  /\ UNCHANGED <<main, ctx, job, pool, handler>>

\* Serve returns the error; the requests in progress are left to themselves.
ServeFails(s) ==
  /\ server[s].pc = "select" /\ server[s].loop = "broken"
  /\ server' = [server EXCEPT ![s] = [@ EXCEPT !.pc = "returned", !.failed = TRUE]]
  /\ UNCHANGED <<main, ctx, job, pool, handler>>

\* The context is done: Shutdown closes the listener.
ShutdownBegins(s) ==
  /\ server[s].pc = "select" /\ ServeDone
  /\ server' = [server EXCEPT ![s] =
       [@ EXCEPT !.pc = "shutdown", !.listener = FALSE]]
  /\ UNCHANGED <<main, ctx, job, pool, handler>>

\* The handler is at work.
Active(r) == handler[r].pc \in {"running", "querying"}

Busy(s) == \E r \in Requests : handler[r].on = s /\ Active(r)

\* The result of the loop, which ends as Shutdown begins, is taken for the end.
DefectNoWait(s) == TRUE

Drained(s) == ~Busy(s)

ShutdownEnds(s) ==
  /\ server[s].pc = "shutdown" /\ Drained(s)
  /\ server' = [server EXCEPT ![s] = [@ EXCEPT !.pc = "await"]]
  /\ UNCHANGED <<main, ctx, job, pool, handler>>

\* SHUTDOWN_TIMEOUT is over: Close cuts every connection.
ShutdownTimesOut(s) ==
  /\ server[s].pc = "shutdown" /\ Busy(s)
  /\ server' = [server EXCEPT ![s] = [@ EXCEPT !.pc = "await", !.failed = TRUE]]
  /\ handler' = [r \in Requests |->
       IF handler[r].on = s /\ Active(r)
         THEN [handler[r] EXCEPT !.cut = TRUE] ELSE handler[r]]
  /\ UNCHANGED <<main, ctx, job, pool>>

ServeReturns(s) ==
  /\ server[s].pc = "await" /\ server[s].loop \in {"ended", "broken"}
  /\ server' = [server EXCEPT ![s] =
       [@ EXCEPT !.pc = "returned", !.loop = "ended",
                 !.failed = server[s].failed \/ server[s].loop = "broken"]]
  /\ UNCHANGED <<main, ctx, job, pool, handler>>

-----------------------------------------------------------------------------
\* The other server is not told that one has stopped.
DefectNoCancel == ctx

CancelServers == ctx \cup {"serve"}

\* serveServers takes a result, whichever comes first, and cancels the other server;
\* after the second, run returns through its deferred calls.
Receive(s) ==
  /\ main.pc = "serve" /\ server[s].pc = "returned" /\ ~server[s].taken
  /\ server' = [server EXCEPT ![s] = [@ EXCEPT !.taken = TRUE]]
  /\ LET last == \A o \in Servers \ {s} : server[o].taken
     IN /\ main' = [pc |-> IF last THEN "join" ELSE "serve",
                    failed |-> main.failed \/ server[s].failed]
        /\ ctx' = CancelServers \cup IF last THEN {"maintenance"} ELSE {}
  /\ UNCHANGED <<job, pool, handler>>

\* The pool is closed without waiting for the job.
DefectNoJoin == TRUE

JobJoined == job = "ended"

\* stopMaintenance was called; run waits for the job.
Join ==
  /\ main.pc = "join" /\ JobJoined
  /\ main' = [main EXCEPT !.pc = "close"]
  /\ UNCHANGED <<ctx, server, job, pool, handler>>

\* pool.Close refuses new connections and waits for those in use.
Close ==
  /\ main.pc = "close" /\ pool = "open"
  /\ pool' = "closing"
  /\ UNCHANGED <<main, ctx, server, job, handler>>

InUse == job = "pruning" \/ \E r \in Requests : handler[r].pc = "querying"

\* The process exits; handlers that are still running die with it.
Closed ==
  /\ pool = "closing" /\ ~InUse
  /\ pool' = "closed" /\ Exit
  /\ UNCHANGED <<ctx, server, job, handler>>

-----------------------------------------------------------------------------
\* maintainRetention prunes at its start and with every tick, each time with deadlines
\* under its context, and whatever the outcome.
Pruned ==
  /\ job = "pruning"
  /\ job' = "waiting"
  /\ UNCHANGED <<main, ctx, server, pool, handler>>

Ticks ==
  /\ job = "waiting" /\ main.pc # "exited"
  /\ job' = "pruning"
  /\ UNCHANGED <<main, ctx, server, pool, handler>>

JobEnds ==
  /\ job = "waiting" /\ JobDone
  /\ job' = "ended"
  /\ UNCHANGED <<main, ctx, server, pool, handler>>

Begun(r) == handler[r].pc # "none"

\* A server that stopped by itself leaves its connections to their clients.
Abandoned(s) == server[s].loop = "broken" /\ server[s].pc \in {"select", "returned"}

\* A request on a new connection, or on one that an abandoned server still has.
Accept(r, s) ==
  /\ ~Begun(r) /\ main.pc # "exited"
  /\ \/ server[s].loop = "accepting" /\ server[s].listener
     \/ Abandoned(s) /\ \E o \in Requests : Begun(o) /\ handler[o].on = s
  /\ handler' = [handler EXCEPT ![r] = [pc |-> "running", on |-> s, cut |-> FALSE]]
  /\ UNCHANGED <<main, ctx, server, job, pool>>

Alive(r) == main.pc # "exited" /\ handler[r].pc = "running"

\* The handler takes a connection, which only an open pool gives.
Query(r) ==
  /\ Alive(r) /\ handler[r].on = "public" /\ pool = "open"
  /\ handler' = [handler EXCEPT ![r] = [@ EXCEPT !.pc = "querying"]]
  /\ UNCHANGED <<main, ctx, server, job, pool>>

\* The answer, an error or the cancelled context gives the connection back.
Answered(r) ==
  /\ handler[r].pc = "querying"
  /\ handler' = [handler EXCEPT ![r] = [@ EXCEPT !.pc = "running"]]
  /\ UNCHANGED <<main, ctx, server, job, pool>>

Finish(r) ==
  /\ Alive(r)
  /\ handler' = [handler EXCEPT ![r] = [@ EXCEPT !.pc = "done"]]
  /\ UNCHANGED <<main, ctx, server, job, pool>>

\* What happens by itself: net/http, timeouts and contexts see to it.
ServeStep(s) ==
  \/ ServeBegins(s) \/ LoopStarts(s) \/ LoopEnds(s) \/ ServeFails(s) \/ ShutdownBegins(s)
  \/ ShutdownEnds(s) \/ ShutdownTimesOut(s) \/ ServeReturns(s) \/ Receive(s)

\* The process has exited.
Gone == main.pc = "exited" /\ UNCHANGED serverVars

MainStep == Build \/ Listen \/ ListenMetrics \/ Join \/ Close \/ Closed

LifecycleNext ==
  \/ Signal \/ MainStep \/ Pruned \/ Ticks \/ JobEnds \/ Gone
  \/ \E s \in Servers : ServeStep(s) \/ LoopBreaks(s)
  \/ \E r \in Requests : (\E s \in Servers : Accept(r, s)) \/ Query(r) \/ Answered(r) \/ Finish(r)

\* The process is scheduled, timeouts fire, and the database answers or the context ends
\* the wait.  The job's select finds its context done sooner than its next tick, a day
\* later.  Nothing is assumed of signals, of clients, of listeners that fail, or of
\* handlers that are not at the database: they may never finish.
LifecycleFairness ==
  /\ WF_serverVars(MainStep)
  /\ \A s \in Servers : WF_serverVars(ServeStep(s))
  /\ WF_serverVars(Pruned) /\ SF_serverVars(JobEnds)
  /\ \A r \in Requests : WF_serverVars(Answered(r))

LifecycleSpec == LifecycleInit /\ [][LifecycleNext]_serverVars /\ LifecycleFairness

-----------------------------------------------------------------------------
Exited == main.pc = "exited"

\* A process that exits without an error has cut no request: every handler that
\* was started on either server has finished, and finished its answer.
CleanExitCutsNothing ==
  Exited /\ ~main.failed => \A r \in Requests : handler[r].pc \in {"none", "done"} /\ ~handler[r].cut

\* The pool closes last: the job and both servers have ended, and no handler finds it
\* closed unless its connection was cut or its server failed.
PoolClosesLast ==
  pool \in {"closing", "closed"} =>
    /\ job \in {"none", "ended"}
    /\ \A s \in Servers : server[s].pc \in {"none", "returned"} /\ ~server[s].listener
    /\ \A r \in Requests : Active(r) => handler[r].cut \/ Abandoned(handler[r].on)

\* A signal, or the end of one server, brings the process to its end.
StopEndsTheProcess ==
  ("signal" \in ctx \/ \E s \in Servers : server[s].pc = "returned") ~> Exited

\* What holds between the two servers and run, which takes their results.
ServersOK ==
  \A s \in Servers :
    /\ main.pc \in {"build", "listen", "listenMetrics"} => server[s].pc = "none"
    /\ main.pc \in {"join", "close", "exited"} => server[s].pc \in {"none", "returned"}
    /\ server[s].pc \in {"none", "called"} => server[s].loop = "none"
    /\ server[s].listener => \/ server[s].pc \in {"called", "select"}
                             \/ main.pc = "listenMetrics" /\ s = "public"
    /\ server[s].loop = "broken" => ~server[s].listener
    /\ server[s].loop = "broken" /\ server[s].pc = "returned" => server[s].failed
    /\ server[s].taken => server[s].pc = "returned" /\ (server[s].failed => main.failed)
    /\ main.pc = "join" => server[s].taken
    /\ main.pc \in {"close", "exited"} => server[s].taken \/ main.failed

\* The order in which run lets go of the job and the pool.
PoolOK ==
  /\ main.pc \in {"build", "listen", "listenMetrics"} => job = "none"
  /\ main.pc \in {"close", "exited"} => job \in {"none", "ended"}
  /\ pool \in {"closing", "closed"} => main.pc \in {"close", "exited"}

\* A handler still at work when its server has stopped was cut, and the server says so.
HandlersOK ==
  \A r \in Requests :
    /\ Active(r) => server[handler[r].on].pc \notin {"none", "called"}
    /\ Active(r) /\ server[handler[r].on].pc = "await" => handler[r].cut
    /\ Active(r) /\ server[handler[r].on].pc = "returned" =>
         handler[r].cut \/ server[handler[r].on].loop = "broken"
    /\ handler[r].cut => server[handler[r].on].failed

LifecycleInv == LifecycleTypeOK /\ ServersOK /\ PoolOK /\ HandlersOK
=============================================================================

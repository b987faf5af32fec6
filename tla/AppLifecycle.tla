----------------------------- MODULE AppLifecycle -----------------------------
(***************************************************************************)
(* One backend process from start to exit (cmd/app/main.go,                *)
(* internal/app/app.go and http.go): main, the two goroutines of App.Run,  *)
(* the two goroutines of HTTPServer.serve and the requests being handled.  *)
(*                                                                         *)
(* The configuration has been loaded and validated, and the constructors   *)
(* that only fail for a configuration that does not pass do not fail here. *)
(***************************************************************************)
CONSTANT Requests  \* the requests that may arrive

VARIABLES
    main,      \* where main is
    pool,      \* the PostgreSQL pool
    redis,     \* the Redis client
    worker,    \* the goroutine of OutboxWorker.Run
    http,      \* the goroutine of HTTPServer.Run
    accept,    \* the goroutine of Server.Serve
    shutdown,  \* the goroutine that waits to call Server.Shutdown
    causes,    \* what cancels contexts: the signal, and goroutines that returned an error
    request,   \* per request
    code       \* the exit code, success until main exits with another

vars == <<main, pool, redis, worker, http, accept, shutdown, causes, request, code>>
connections == <<pool, redis>>
goroutines == <<worker, http, accept, shutdown, causes>>

MainStates == {"migrate", "pool", "redis", "run", "wait", "closeRedis", "closePool", "exited"}

TypeOK ==
    /\ main \in MainStates
    /\ pool \in {"none", "open", "closed"}
    /\ redis \in {"none", "open", "closed"}
    /\ redis = "open" => pool = "open"
    /\ worker \in {"off", "on", "done"}
    /\ http \in {"off", "start", "listen", "serve", "done"}
    /\ accept \in {"off", "on", "done"}
    /\ shutdown \in {"off", "watch", "drain", "done"}
    /\ causes \subseteq {"signal", "http", "accept", "shutdown"}
    /\ request \in [Requests -> {"new", "running", "done"}]
    /\ code \in {"success", "failure"}

Init ==
    /\ main = "migrate"
    /\ pool = "none" /\ redis = "none"
    /\ worker = "off" /\ http = "off" /\ accept = "off" /\ shutdown = "off"
    /\ causes = {}
    /\ request = [r \in Requests |-> "new"]
    /\ code = "success"

Idle == \A r \in Requests : request[r] # "running"

\* The contexts of App.Run's errgroup and of the one in HTTPServer.serve.
AppCancelled == "signal" \in causes \/ "http" \in causes
HTTPCancelled == causes # {}

-----------------------------------------------------------------------------
(* main and New                                                            *)

\* os.Exit(1): deferred calls do not run.
ExitFailed ==
    /\ main' = "exited"
    /\ code' = "failure"

RunMigrations ==
    /\ main = "migrate"
    /\ \/ main' = "pool" /\ UNCHANGED code
       \/ ExitFailed
    /\ UNCHANGED <<connections, goroutines, request>>

NewPool ==
    /\ main = "pool"
    /\ \/ main' = "redis" /\ pool' = "open" /\ UNCHANGED code
       \/ ExitFailed /\ UNCHANGED pool
    /\ UNCHANGED <<redis, goroutines, request>>

NewRedis ==
    /\ main = "redis"
    /\ \/ main' = "run" /\ redis' = "open" /\ UNCHANGED <<pool, code>>
       \/ ExitFailed /\ pool' = "closed" /\ UNCHANGED redis
    /\ UNCHANGED <<goroutines, request>>

Run ==
    /\ main = "run"
    /\ \/ AppCancelled /\ ExitFailed /\ UNCHANGED goroutines
       \/ /\ ~ AppCancelled
          /\ main' = "wait"
          /\ http' = "start" /\ worker' = "on"
          /\ UNCHANGED <<accept, shutdown, causes, code>>
    /\ UNCHANGED <<connections, request>>

\* Mutant: Run returns with the server and does not wait for the worker.
RunReturns_WithServer ==
    /\ main = "wait"
    /\ http = "done"
    /\ \/ "http" \in causes /\ ExitFailed
       \/ "http" \notin causes /\ main' = "closeRedis" /\ UNCHANGED code
    /\ UNCHANGED <<connections, goroutines, request>>

RunReturns ==
    /\ main = "wait"
    /\ http = "done" /\ worker = "done"
    /\ \/ "http" \in causes /\ ExitFailed
       \/ "http" \notin causes /\ main' = "closeRedis" /\ UNCHANGED code
    /\ UNCHANGED <<connections, goroutines, request>>

\* Mutant: the pool is closed first.
CloseRedis_Last ==
    /\ main = "closeRedis"
    /\ pool' = "closed"
    /\ main' = "closePool"
    /\ UNCHANGED <<redis, goroutines, request, code>>

CloseRedis ==
    /\ main = "closeRedis"
    /\ redis' = "closed"
    /\ main' = "closePool"
    /\ UNCHANGED <<pool, goroutines, request, code>>

\* Closing the pool waits for connections in use, and who uses the pool may have
\* none just then.  Then main returns.
ClosePool ==
    /\ main = "closePool"
    /\ pool' = "closed"
    /\ main' = "exited"
    /\ UNCHANGED <<redis, goroutines, request, code>>

-----------------------------------------------------------------------------
(* OutboxWorker.Run: returns nil, and only when its context is cancelled.  *)

\* Mutant: the worker is given the context of Run and not the group's.
WorkerReturns_OnSignal ==
    /\ worker = "on"
    /\ "signal" \in causes
    /\ worker' = "done"
    /\ UNCHANGED <<main, connections, http, accept, shutdown, causes, request, code>>

WorkerReturns ==
    /\ worker = "on"
    /\ AppCancelled
    /\ worker' = "done"
    /\ UNCHANGED <<main, connections, http, accept, shutdown, causes, request, code>>

-----------------------------------------------------------------------------
(* HTTPServer.Run and serve                                                *)

HTTPRun ==
    /\ http = "start"
    /\ IF AppCancelled THEN http' = "done" /\ causes' = causes \cup {"http"}
                       ELSE http' = "listen" /\ UNCHANGED causes
    /\ UNCHANGED <<main, connections, worker, accept, shutdown, request, code>>

Listen ==
    /\ http = "listen"
    /\ \/ /\ http' = "serve" /\ accept' = "on" /\ shutdown' = "watch"
          /\ UNCHANGED causes
       \/ /\ http' = "done" /\ causes' = causes \cup {"http"}
          /\ UNCHANGED <<accept, shutdown>>
    /\ UNCHANGED <<main, connections, worker, request, code>>

\* A request begins on a connection that is new or was accepted earlier.  Shutdown ends
\* when no connection is in use, and then there is none left; but when it gives up, or
\* is not called because Serve failed, the connections stay.
RequestBegins(r) ==
    /\ accept # "off"
    /\ shutdown \in {"watch", "drain"} \/ causes \cap {"accept", "shutdown"} # {}
    /\ request[r] = "new"
    /\ request' = [request EXCEPT ![r] = "running"]
    /\ UNCHANGED <<main, connections, goroutines, code>>

Respond(r) ==
    /\ request[r] = "running"
    /\ request' = [request EXCEPT ![r] = "done"]
    /\ UNCHANGED <<main, connections, goroutines, code>>

\* Serve returns ErrServerClosed, which is no error.
ServeCloses ==
    /\ accept = "on"
    /\ shutdown \in {"drain", "done"}
    /\ accept' = "done"
    /\ UNCHANGED <<main, connections, worker, http, shutdown, causes, request, code>>

ServeFails ==
    /\ accept = "on"
    /\ shutdown = "watch"
    /\ accept' = "done" /\ causes' = causes \cup {"accept"}
    /\ UNCHANGED <<main, connections, worker, http, shutdown, request, code>>

\* The select: serveDone is closed, or the context of serve is cancelled.
ShutdownNotNeeded ==
    /\ shutdown = "watch"
    /\ accept = "done"
    /\ shutdown' = "done"
    /\ UNCHANGED <<main, connections, worker, http, accept, causes, request, code>>

ShutdownBegins ==
    /\ shutdown = "watch"
    /\ HTTPCancelled
    /\ shutdown' = "drain"
    /\ UNCHANGED <<main, connections, worker, http, accept, causes, request, code>>

Drained ==
    /\ shutdown = "drain"
    /\ Idle
    /\ shutdown' = "done"
    /\ UNCHANGED <<main, connections, worker, http, accept, causes, request, code>>

\* Mutants: the error of Shutdown is ignored; Shutdown is given no time limit.
DrainTimesOut_Ignored ==
    /\ shutdown = "drain"
    /\ shutdown' = "done"
    /\ UNCHANGED <<main, connections, worker, http, accept, causes, request, code>>
DrainTimesOut_Never == FALSE /\ UNCHANGED vars

\* shutdownTimeout is over, and Shutdown leaves the requests to themselves.
DrainTimesOut ==
    /\ shutdown = "drain"
    /\ shutdown' = "done" /\ causes' = causes \cup {"shutdown"}
    /\ UNCHANGED <<main, connections, worker, http, accept, request, code>>

ServeReturns ==
    /\ http = "serve"
    /\ accept = "done" /\ shutdown = "done"
    /\ http' = "done"
    /\ causes' = IF causes \subseteq {"signal"} THEN causes ELSE causes \cup {"http"}
    /\ UNCHANGED <<main, connections, worker, accept, shutdown, request, code>>

-----------------------------------------------------------------------------
Signal ==
    /\ "signal" \notin causes
    /\ causes' = causes \cup {"signal"}
    /\ UNCHANGED <<main, connections, worker, http, accept, shutdown, request, code>>

MainStep ==
    \/ RunMigrations \/ NewPool \/ NewRedis \/ Run \/ RunReturns \/ CloseRedis \/ ClosePool
HTTPStep == HTTPRun \/ Listen \/ ServeReturns
ShutdownStep == ShutdownNotNeeded \/ ShutdownBegins \/ Drained \/ DrainTimesOut

\* With main everything ends.
Alive(A) == main # "exited" /\ A

Next ==
    \/ Alive(MainStep \/ HTTPStep \/ ShutdownStep)
    \/ Alive(WorkerReturns \/ ServeCloses \/ ServeFails \/ Signal)
    \/ Alive(\E r \in Requests : RequestBegins(r) \/ Respond(r))

Spec == Init /\ [][Next]_vars

\* Every goroutine goes on when it can: starting up, listening and shutting down
\* have time limits, and the worker returns once cancelled (Outbox!WorkersStop).
\* Requests may take forever, signals and failures need not come.
Fairness ==
    /\ WF_vars(Alive(MainStep)) /\ WF_vars(Alive(HTTPStep)) /\ WF_vars(Alive(ShutdownStep))
    /\ WF_vars(Alive(WorkerReturns)) /\ WF_vars(Alive(ServeCloses))
FairSpec == Spec /\ Fairness

-----------------------------------------------------------------------------
(* Properties                                                              *)

\* As long as the process lives, no request and no worker is left with a closed
\* pool or client: Close comes after both, although Shutdown may give up on
\* requests that are still being handled.
UsersHaveConnections ==
    main # "exited" /\ (worker = "on" \/ ~ Idle) => pool = "open" /\ redis = "open"

\* The process reports success only after a signal, with every request that began
\* answered, the worker back and everything closed.
SuccessMeansDrained ==
    main = "exited" /\ code = "success" =>
        "signal" \in causes /\ Idle /\ worker = "done" /\ pool = "closed" /\ redis = "closed"

\* A signal ends the process, at whatever point of its life it comes and however
\* long the requests under way take.
SignalEnds == "signal" \in causes ~> main = "exited"

\* The process does not live on as a worker without a server.
ServerEndsProcess == http = "done" \/ accept = "done" ~> main = "exited"

=============================================================================

------------------------------- MODULE Server -------------------------------
(***************************************************************************)
(* The life of one process: ApiServer.start() in api/server.ts brings up   *)
(* Redis, the database, the health service, the HTTP server and the        *)
(* bundler in this order; shutdown() takes them down.  shutdown() is called *)
(* by a start that failed, by the signal hooks and by the hook for         *)
(* uncaught exceptions, and two of these calls may overlap.  index.ts, the *)
(* program's entry, registers handlers of its own before it calls start(). *)
(*                                                                         *)
(* What the bundler does while it runs is BundlerService's subject.        *)
(***************************************************************************)
EXTENDS HealthService

CONSTANT Launchers  \* who calls apiServer.start(): "index" (index.ts) or
                    \* "embedded" (an importer of the exported apiServer)

ASSUME ServerAssumption == Launchers \subseteq {"index", "embedded"}

VARIABLES
    launcher,
    boot,           \* the await start() is at
    isConnected,    \* RedisService's flag, set and cleared by client events
    isInitialized,  \* AppDataSource
    listening,      \* the HTTP server accepts connections
    hooks,          \* setupShutdownHooks has run
    isRunning,      \* BundlerService's flag: its timer is set
    isShuttingDown,
    down,           \* the await each call of shutdown() is at
    exit            \* how the process ended ("no": it has not)

bootVars == <<boot, isInitialized, listening, hooks, isRunning>>
downVars == <<isShuttingDown, down, exit>>
serverVars == <<launcher, isConnected, bootVars, downVars>>
vars == <<healthVars, serverVars>>

\* The calls of shutdown() that may overlap.
Calls == {"start", "signal", "exception"}

TypeOK ==
    /\ HealthTypeOK
    /\ launcher \in Launchers
    /\ boot \in {"redis", "database", "health", "checking", "listen", "up", "failed"}
    /\ isConnected \in BOOLEAN
    /\ isInitialized \in BOOLEAN
    /\ listening \in BOOLEAN
    /\ hooks \in BOOLEAN
    /\ isRunning \in BOOLEAN
    /\ isShuttingDown \in BOOLEAN
    /\ down \in [Calls -> {"none", "close", "destroy", "disconnect"}]
    /\ exit \in {"no", "zero", "one", "killed"}

Init ==
    /\ HealthInit
    /\ launcher \in Launchers
    /\ boot = "redis"
    /\ isConnected = FALSE
    /\ isInitialized = FALSE
    /\ listening = FALSE
    /\ hooks = FALSE
    /\ isRunning = FALSE
    /\ isShuttingDown = FALSE
    /\ down = [w \in Calls |-> "none"]
    /\ exit = "no"

Alive == exit = "no"
Exit(code) == exit' = code

-----------------------------------------------------------------------------
(* shutdown() *)

\* The call: server.close() stops the listener before its first await.
Shutdown(w) ==
    /\ down' = [down EXCEPT ![w] = "close"]
    /\ listening' = FALSE

\* Mutant: the test of isInitialized is the wrong way round.
StopWithoutDestroy(w) ==
    /\ down[w] = "close"
    /\ \A c \in Clients : Idle(c)
    /\ isRunning' = FALSE
    /\ down' = [down EXCEPT ![w] = IF ~isInitialized THEN "destroy" ELSE "disconnect"]
    /\ UNCHANGED <<healthVars, launcher, isConnected, boot, isInitialized, listening,
                   hooks, isShuttingDown, exit>>

\* Mutant: the database goes before the bundler has been stopped.
DestroyFirst(w) ==
    /\ down[w] = "close"
    /\ \A c \in Clients : Idle(c)
    /\ isInitialized
    /\ isInitialized' = FALSE
    /\ down' = [down EXCEPT ![w] = "disconnect"]
    /\ UNCHANGED <<healthVars, launcher, isConnected, boot, listening, hooks,
                   isRunning, isShuttingDown, exit>>

\* close() has waited for the requests under way.  The bundler's timer stops
\* in the same turn; the database is destroyed if it is initialised.
StopBundler(w) ==
    /\ down[w] = "close"
    /\ \A c \in Clients : Idle(c)
    /\ isRunning' = FALSE
    /\ down' = [down EXCEPT ![w] = IF isInitialized THEN "destroy" ELSE "disconnect"]
    /\ UNCHANGED <<healthVars, launcher, isConnected, boot, isInitialized, listening,
                   hooks, isShuttingDown, exit>>

DestroyDatabase(w) ==
    /\ down[w] = "destroy"
    /\ isInitialized' = FALSE
    /\ down' = [down EXCEPT ![w] = "disconnect"]
    /\ UNCHANGED <<healthVars, launcher, isConnected, boot, listening, hooks, isRunning,
                   isShuttingDown, exit>>

\* disconnect() returns at once when the flag is down.
DisconnectRedis(w) ==
    /\ down[w] = "disconnect"
    /\ isConnected' = FALSE
    /\ Exit(IF w = "signal" THEN "zero" ELSE "one")
    /\ UNCHANGED <<healthVars, launcher, bootVars, isShuttingDown, down>>

\* Mutant: the catch block logs and does not exit.
ShutdownHangs(w) ==
    /\ down[w] # "none"
    /\ down' = [down EXCEPT ![w] = "none"]
    /\ UNCHANGED <<healthVars, launcher, isConnected, bootVars, isShuttingDown, exit>>

\* The catch block: close, destroy or quit rejected.
ShutdownFails(w) ==
    /\ down[w] # "none"
    /\ Exit("one")
    /\ UNCHANGED <<healthVars, launcher, isConnected, bootVars, isShuttingDown, down>>

ShutdownStep(w) ==
    \/ StopBundler(w)
    \/ DestroyDatabase(w)
    \/ DisconnectRedis(w)
    \/ ShutdownFails(w)

-----------------------------------------------------------------------------
(* start() *)

\* redisService.connect(), which returns at once when the flag is set.
ConnectRedis ==
    /\ boot = "redis"
    /\ isConnected' = TRUE
    /\ boot' = "database"
    /\ UNCHANGED <<healthVars, launcher, isInitialized, listening, hooks, isRunning, downVars>>

InitializeDatabase ==
    /\ boot = "database"
    /\ isInitialized' = TRUE
    /\ boot' = "health"
    /\ UNCHANGED <<healthVars, launcher, isConnected, listening, hooks, isRunning, downVars>>

\* Mutant: healthService.start() is not awaited.
StartHealthNoWait ==
    /\ boot = "health"
    /\ StartChecks
    /\ boot' = "listen"
    /\ UNCHANGED <<launcher, isConnected, isInitialized, listening, hooks, isRunning, downVars>>

\* healthService.start(); the first check cannot make it reject.
StartHealth ==
    /\ boot = "health"
    /\ StartChecks
    /\ boot' = "checking"
    /\ UNCHANGED <<launcher, isConnected, isInitialized, listening, hooks, isRunning, downVars>>

HealthStarted ==
    /\ boot = "checking"
    /\ checkInterval
    /\ boot' = "listen"
    /\ UNCHANGED <<healthVars, launcher, isConnected, isInitialized, listening, hooks,
                   isRunning, downVars>>

\* listen() has succeeded: the hooks and the bundler's timer follow without an await in
\* between, and no failure of a bundleLoop makes what follows reject.  That the socket
\* is open some instants before the promise of listen() settles is left out.
Listen ==
    /\ boot = "listen"
    /\ listening' = TRUE
    /\ hooks' = TRUE
    /\ isRunning' = TRUE
    /\ boot' = "up"
    /\ UNCHANGED <<healthVars, launcher, isConnected, isInitialized, downVars>>

\* Redis, the database or the port: start() catches and calls shutdown(1).
StartFails ==
    /\ boot \in {"redis", "database", "listen"}
    /\ boot' = "failed"
    /\ Shutdown("start")
    /\ UNCHANGED <<healthVars, launcher, isConnected, isInitialized, hooks, isRunning,
                   isShuttingDown, exit>>

StartStep ==
    \/ ConnectRedis
    \/ InitializeDatabase
    \/ StartHealth
    \/ HealthStarted
    \/ Listen
    \/ StartFails

-----------------------------------------------------------------------------
(* Requests, events and signals *)

Request(c) ==
    /\ listening
    /\ GetStatus(c)
    /\ UNCHANGED serverVars

\* The handlers RedisService hangs on its client.  The constructor's getClient()
\* for the rate limiter may have connected before start() runs; later the
\* connection is lost and comes back.
RedisEvent ==
    /\ isConnected' = ~isConnected
    /\ UNCHANGED <<healthVars, launcher, bootVars, downVars>>

\* The hook of server.ts.  A second signal is dropped.
SignalHook ==
    /\ launcher = "embedded"
    /\ hooks
    /\ ~isShuttingDown
    /\ isShuttingDown' = TRUE
    /\ Shutdown("signal")
    /\ UNCHANGED <<healthVars, launcher, isConnected, boot, isInitialized, hooks,
                   isRunning, exit>>

\* index.ts registered first, so its handler exits before the hook is called.
SignalExit ==
    /\ launcher = "index"
    /\ Exit("zero")
    /\ UNCHANGED <<healthVars, launcher, isConnected, bootVars, isShuttingDown, down>>

\* No handler: the default disposition of the signal, or of the exception.
Killed ==
    /\ launcher = "embedded"
    /\ ~hooks
    /\ Exit("killed")
    /\ UNCHANGED <<healthVars, launcher, isConnected, bootVars, isShuttingDown, down>>

\* The hook for uncaught exceptions does not look at isShuttingDown; one call
\* of it is followed (a bound).
ExceptionHook ==
    /\ launcher = "embedded"
    /\ hooks
    /\ down["exception"] = "none"
    /\ Shutdown("exception")
    /\ UNCHANGED <<healthVars, launcher, isConnected, boot, isInitialized, hooks,
                   isRunning, isShuttingDown, exit>>

ExceptionExit ==
    /\ launcher = "index"
    /\ Exit("one")
    /\ UNCHANGED <<healthVars, launcher, isConnected, bootVars, isShuttingDown, down>>

HealthStep ==
    /\ (\E c \in Callers : Probe(c)) \/ Interval \/ TimePasses
    /\ UNCHANGED serverVars

Next ==
    /\ Alive
    /\ \/ StartStep
       \/ \E w \in Calls : ShutdownStep(w)
       \/ HealthStep
       \/ \E c \in Clients : Request(c)
       \/ RedisEvent
       \/ SignalHook
       \/ SignalExit
       \/ Killed
       \/ ExceptionHook
       \/ ExceptionExit

\* The timer fires, and what shutdown() and a check wait for ends: there is no
\* fairness for a failure, nor for the start.
Fairness ==
    /\ \A w \in Calls : /\ WF_vars(Alive /\ StopBundler(w))
                        /\ WF_vars(Alive /\ DestroyDatabase(w))
                        /\ WF_vars(Alive /\ DisconnectRedis(w))
    /\ \A c \in Callers : WF_vars(Alive /\ Probe(c) /\ UNCHANGED serverVars)
    /\ WF_vars(Alive /\ Interval /\ UNCHANGED serverVars)

Spec == Init /\ [][Next]_vars
FairSpec == Spec /\ Fairness

-----------------------------------------------------------------------------
(* Properties *)

\* checkHealth makes a status up while the first check runs.  Because the
\* server listens only after healthService.start() has returned, no request is
\* ever answered with it: what a client is told comes from a check that ended.
ClientsSeeCheckedStatus ==
    \A c \in Clients : answer[c] # NoStatus => Consistent(answer[c])

\* The bundler's timer fires only while the database is open, however many
\* calls of shutdown() overlap with each other and with the start.
BundlerHasDatabase == Alive /\ isRunning => isInitialized

\* server.ts:261 "Received ${signal}, shutting down gracefully...": a server
\* that was up and exits with code zero, as only a signal makes it, has stopped
\* the bundler and closed the database and Redis.
GracefulExit == hooks /\ exit = "zero" => ~isRunning /\ ~isInitialized /\ ~isConnected

\* GracefulExit where the hooks of server.ts are the ones the signal reaches:
\* it holds though the hook for exceptions may run a shutdown of its own beside.
HooksExitGracefully == launcher = "embedded" => GracefulExit

\* A call of shutdown() ends the process, though it waits for requests that
\* wait for probes and another call may take the database from under it.
ShutdownEnds == (\E w \in Calls : down[w] # "none") ~> ~Alive

\* As long as the process is up, the status is renewed again and again:
\* isChecking never stays set once its check is over.
StatusIsRenewed == []<>(Alive /\ boot = "up" => Recent)

=============================================================================

--------------------------- MODULE ServiceLifecycle ---------------------------
(***************************************************************************)
(* One service process from its start to its exit: run() in                *)
(* cmd/grpc-service/main.go, the same in all four services.                *)
(*                                                                         *)
(* After a sequential start four goroutines share the process: one in      *)
(* grpcServer.Serve, one in httpServer.ListenAndServe, one that shuts both *)
(* down when the context ends, and run() itself, which waits for the first *)
(* two only.  Requests are goroutines too, and use the connection pool     *)
(* that run() closes when it returns.                                      *)
(***************************************************************************)
EXTENDS Naturals

CONSTANTS
    Requests,   \* HTTP requests and RPCs
    Transport,  \* request -> "http" or "grpc"
    Streams     \* the streams of the health and reflection services (Watch,
                \* ServerReflectionInfo), which end when their client leaves

Servers == {"http", "grpc"}

ASSUME TransportAssumption == Transport \in [Requests -> Servers]
ASSUME StreamsAssumption ==
    Streams \subseteq {r \in Requests : Transport[r] = "grpc"}

VARIABLES
    main,      \* where run() is
    pool,      \* the database pool
    stopping,  \* is ctx done?
    health,    \* does the gRPC health service say SERVING?
    serve,     \* server -> where the goroutine that serves it is
    stop,      \* server -> has it been told to stop?
    shutdown,  \* where the goroutine that shuts down is
    reported,  \* does startupErrCh hold an error?
    failed,    \* history: what went wrong, "http", "grpc" or "drain"
    exit,      \* the exit status, "none" before
    request    \* the requests

vars == <<main, pool, stopping, health, serve, stop, shutdown, reported,
          failed, exit, request>>
process == <<main, pool, exit>>
servers == <<serve, stop, shutdown, health>>

-------------------------------------------------------------------------------
MainPoints == {"config", "connect", "migrate", "listen", "start", "wait",
               "closing", "exited"}
ServePoints == {"none", "started", "serving", "failing", "returned"}
ShutdownPoints == {"none", "waiting", "http", "grpc", "stopping", "done"}

\* Every goroutine is at one of its points; the pool is open from Connect until
\* run() returns, on every path, and no server runs before run() waits for it.
TypeOK ==
    /\ main \in MainPoints
    /\ pool \in {"none", "open", "closed"}
    /\ stopping \in BOOLEAN /\ health \in BOOLEAN /\ reported \in BOOLEAN
    /\ serve \in [Servers -> ServePoints]
    /\ stop \in [Servers -> {"no", "draining", "stopped"}]
    /\ shutdown \in ShutdownPoints
    /\ failed \subseteq Servers \cup {"drain"}
    /\ exit \in {"none", "ok", "error"}
    /\ request \in [Requests -> {"new", "running", "done", "cut"}]
    /\ pool = "open" <=> main \in {"migrate", "listen", "start", "wait"}
    /\ main = "wait" => \A t \in Servers : serve[t] # "none"

Init ==
    /\ main = "config" /\ pool = "none" /\ exit = "none"
    /\ stopping = FALSE /\ health = FALSE /\ reported = FALSE
    /\ serve = [t \in Servers |-> "none"]
    /\ stop = [t \in Servers |-> "no"]
    /\ shutdown = "none"
    /\ failed = {}
    /\ request = [r \in Requests |-> "new"]

Running(t) == {r \in Requests : Transport[r] = t /\ request[r] = "running"}

-------------------------------------------------------------------------------
(* The start *)

\* Mutant: db.Close is not deferred.
GiveUpLeaks == main' = "closing" /\ exit' = "error" /\ UNCHANGED pool

\* run() returns an error; what is deferred so far is executed.
GiveUp ==
    /\ main' = "closing" /\ exit' = "error"
    /\ pool' = IF pool = "open" THEN "closed" ELSE pool

LoadConfig ==
    /\ main = "config"
    /\ \/ main' = "connect" /\ UNCHANGED <<pool, exit>>
       \/ GiveUp
    /\ UNCHANGED <<stopping, servers, reported, failed, request>>

\* The ping fails when the signal has come already.
Connect ==
    /\ main = "connect"
    /\ \/ ~ stopping /\ main' = "migrate" /\ pool' = "open" /\ UNCHANGED exit
       \/ GiveUp
    /\ UNCHANGED <<stopping, servers, reported, failed, request>>

\* Migrate does not look at the context.
Migrate ==
    /\ main = "migrate"
    /\ \/ main' = "listen" /\ UNCHANGED <<pool, exit>>
       \/ GiveUp
    /\ UNCHANGED <<stopping, servers, reported, failed, request>>

\* The transactions connection, the services, then the gRPC listener.
Listen ==
    /\ main = "listen"
    /\ health' = TRUE
    /\ \/ main' = "start" /\ UNCHANGED <<pool, exit>>
       \/ GiveUp
    /\ UNCHANGED <<stopping, serve, stop, shutdown, reported, failed, request>>

Start ==
    /\ main = "start"
    /\ main' = "wait"
    /\ serve' = [t \in Servers |-> "started"]
    /\ shutdown' = "waiting"
    /\ UNCHANGED <<pool, exit, stopping, health, stop, reported, failed, request>>

-------------------------------------------------------------------------------
(* The two servers *)

\* A server that was told to stop before it served returns at once.
Serve(t) ==
    /\ serve[t] = "started"
    /\ serve' = [serve EXCEPT ![t] = IF stop[t] = "no" THEN "serving" ELSE "returned"]
    /\ UNCHANGED <<process, stopping, stop, shutdown, health, reported, failed,
                   request>>

\* The port is taken, or the listener breaks.
ServeFails(t) ==
    /\ serve[t] \in {"started", "serving"} /\ stop[t] = "no"
    /\ serve' = [serve EXCEPT ![t] = "failing"]
    /\ failed' = failed \cup {t}
    /\ UNCHANGED <<process, stopping, stop, shutdown, health, reported, request>>

\* Mutant: the error is reported and nobody told to stop.
ReportOnly(t) ==
    /\ serve[t] = "failing"
    /\ serve' = [serve EXCEPT ![t] = "returned"]
    /\ reported' = TRUE
    /\ UNCHANGED <<process, stopping, stop, shutdown, health, failed, request>>

\* Mutant: the goroutine only cancels the context.
CancelOnly(t) ==
    /\ serve[t] = "failing"
    /\ serve' = [serve EXCEPT ![t] = "returned"]
    /\ stopping' = TRUE
    /\ UNCHANGED <<process, reported, stop, shutdown, health, failed, request>>

\* reportStartupErr keeps the first error and cancels the context; then
\* wg.Done.
Report(t) ==
    /\ serve[t] = "failing"
    /\ serve' = [serve EXCEPT ![t] = "returned"]
    /\ reported' = TRUE
    /\ stopping' = TRUE
    /\ UNCHANGED <<process, stop, shutdown, health, failed, request>>

\* Mutant: Serve returns when GracefulStop is called, not when it is done.
ReleasedAtOnce(t) == stop[t] # "no"

\* ListenAndServe returns when Shutdown is called, Serve when GracefulStop is
\* done.
Released(t) == IF t = "http" THEN stop[t] # "no" ELSE stop[t] = "stopped"

ServeReturns(t) ==
    /\ serve[t] = "serving" /\ Released(t)
    /\ serve' = [serve EXCEPT ![t] = "returned"]
    /\ UNCHANGED <<process, stopping, stop, shutdown, health, reported, failed,
                   request>>

\* May a connection to t bring a request?  One that was made before Serve failed
\* may still do so; one that Shutdown has not seen a request of, until Shutdown is
\* done, and for ever when that was given up; one that has not read the GOAWAY of
\* GracefulStop yet.  (That a server told to stop, or failed, before it accepted
\* anything has no connection is left out for HTTP.)
Open(t) ==
    /\ serve[t] \notin {"none", "started"}
    /\ \/ stop[t] = "no"
       \/ t = "http" /\ (shutdown = "http" \/ "drain" \in failed)
       \/ /\ t = "grpc" /\ stop[t] = "draining"
          /\ serve[t] = "serving" \/ t \in failed

Arrive(r) ==
    /\ main \in {"wait", "closing"}
    /\ Open(Transport[r])
    /\ request[r] = "new"
    /\ request' = [request EXCEPT ![r] = "running"]
    /\ UNCHANGED <<process, stopping, servers, reported, failed>>

Finish(r) ==
    /\ main \in {"wait", "closing"}
    /\ request[r] = "running"
    /\ request' = [request EXCEPT ![r] = "done"]
    /\ UNCHANGED <<process, stopping, servers, reported, failed>>

-------------------------------------------------------------------------------
(* Shutting down *)

\* SIGINT or SIGTERM; a second one changes nothing.
Signal ==
    /\ main # "exited" /\ ~ stopping
    /\ stopping' = TRUE
    /\ UNCHANGED <<process, servers, reported, failed, request>>

Alive == main \in {"wait", "closing"}

\* httpServer.Shutdown closes the listener and the idle connections, and waits
\* for the others, those included that have not sent their request yet.
ShutdownHTTP ==
    /\ Alive /\ shutdown = "waiting" /\ stopping
    /\ health' = FALSE
    /\ stop' = [stop EXCEPT !["http"] = "draining"]
    /\ shutdown' = "http"
    /\ UNCHANGED <<process, stopping, serve, reported, failed, request>>

Drained ==
    /\ Alive /\ shutdown = "http" /\ Running("http") = {}
    /\ shutdown' = "grpc"
    /\ UNCHANGED <<process, stopping, serve, stop, health, reported, failed, request>>

\* Mutant: Shutdown is given a context without a deadline.
DrainWaits ==
    /\ Alive /\ shutdown = "http" /\ Running("http") = {}
    /\ shutdown' = "grpc"
    /\ UNCHANGED <<process, stopping, serve, stop, health, reported, failed, request>>

\* Mutant: a drain that timed out is tried again.
DrainAgain ==
    /\ Alive /\ shutdown = "http"
    /\ failed' = failed \cup {"drain"} /\ reported' = TRUE
    /\ UNCHANGED <<process, stopping, serve, stop, shutdown, health, request>>

\* shutdownCtx ends after 5 seconds.
DrainTimesOut ==
    /\ Alive /\ shutdown = "http"
    /\ shutdown' = "grpc"
    /\ failed' = failed \cup {"drain"} /\ reported' = TRUE
    /\ UNCHANGED <<process, stopping, serve, stop, health, request>>

GracefulStop ==
    /\ Alive /\ shutdown = "grpc"
    /\ stop' = [stop EXCEPT !["grpc"] = "draining"]
    /\ shutdown' = "stopping"
    /\ UNCHANGED <<process, stopping, serve, health, reported, failed, request>>

\* GracefulStop waits for every RPC and has no deadline.
Stopped ==
    /\ Alive /\ shutdown = "stopping" /\ Running("grpc") = {}
    /\ stop' = [stop EXCEPT !["grpc"] = "stopped"]
    /\ shutdown' = "done"
    /\ UNCHANGED <<process, stopping, serve, health, reported, failed, request>>

\* wg.Wait, the error that may be in the channel, and the deferred calls.
Return ==
    /\ main = "wait" /\ \A t \in Servers : serve[t] = "returned"
    /\ main' = "closing" /\ pool' = "closed"
    /\ exit' = IF reported THEN "error" ELSE "ok"
    /\ stopping' = TRUE
    /\ UNCHANGED <<servers, reported, failed, request>>

\* main() returns or calls os.Exit(1); the other goroutines are gone.
Exit ==
    /\ main = "closing"
    /\ main' = "exited"
    /\ request' = [r \in Requests |-> IF request[r] = "running" THEN "cut"
                                                                ELSE request[r]]
    /\ UNCHANGED <<pool, exit, stopping, servers, reported, failed>>

\* Nothing happens any more, and that is no deadlock.
Exited == main = "exited" /\ UNCHANGED vars

-------------------------------------------------------------------------------
Run == LoadConfig \/ Connect \/ Migrate \/ Listen \/ Start \/ Return \/ Exit
ServerGoroutine(t) == Serve(t) \/ Report(t) \/ ServeReturns(t)
ShutdownGoroutine ==
    ShutdownHTTP \/ Drained \/ DrainTimesOut \/ GracefulStop \/ Stopped

Next ==
    \/ Run \/ ShutdownGoroutine \/ Signal \/ Exited
    \/ \E t \in Servers : ServerGoroutine(t) \/ ServeFails(t)
    \/ \E r \in Requests : Arrive(r) \/ Finish(r)

Spec == Init /\ [][Next]_vars

\* Goroutines are scheduled, and unary RPCs end: their handlers issue statements
\* and calls one after the other.  Nothing is assumed of HTTP requests and of
\* streams, which last as long as their clients like, nor of signals and failures.
Fairness ==
    /\ WF_vars(Run) /\ WF_vars(ShutdownGoroutine)
    /\ \A t \in Servers : WF_vars(ServerGoroutine(t))
    /\ \A r \in Requests \ Streams : Transport[r] = "grpc" => WF_vars(Finish(r))

FairSpec == Spec /\ Fairness

-------------------------------------------------------------------------------
(* Correctness *)

\* A process that exits with status 0 has answered every request it took up,
\* with the pool still open: run() waits for Serve, Serve for GracefulStop,
\* and GracefulStop comes after httpServer.Shutdown.
CleanExitIsDrained ==
    exit = "ok" => \A r \in Requests : request[r] \in {"new", "done"}

\* No error is lost between the goroutine that meets it and the non-blocking
\* read of startupErrCh, the timeout of httpServer.Shutdown included, which the
\* WaitGroup does not cover.
FailureIsReported == exit = "ok" => failed = {}

\* Who can go on, by the guards of the actions: DrainTimesOut needs nobody.
RunGoesOn ==
    \/ main \notin {"wait", "exited"}
    \/ main = "wait" /\ \A t \in Servers : serve[t] = "returned"
ServerGoesOn ==
    \E t \in Servers : \/ serve[t] \in {"started", "failing"}
                       \/ serve[t] = "serving" /\ Released(t)
ShutdownGoesOn ==
    \/ shutdown = "waiting" /\ stopping
    \/ shutdown \in {"http", "grpc"}
    \/ shutdown = "stopping" /\ Running("grpc") = {}

\* run() waits for the two servers, these wait for the shutdown goroutine, which
\* waits for ctx, the connections and the RPCs.  Once a signal has come or
\* something has failed, they never all wait for one another: there is only an
\* RPC in GracefulStop that the process may have to wait for.
StopIsNeverStuck ==
    (stopping \/ failed # {}) /\ main # "exited" =>
        \/ RunGoesOn \/ ServerGoesOn \/ ShutdownGoesOn
        \/ shutdown = "stopping" /\ Running("grpc") # {}

\* How many steps the goroutines have left at most.
MainAhead == [config |-> 7, connect |-> 6, migrate |-> 5, listen |-> 4,
              start |-> 3, wait |-> 2, closing |-> 1, exited |-> 0]
ServeAhead == [none |-> 4, started |-> 3, serving |-> 2, failing |-> 1,
               returned |-> 0]
ShutdownAhead == [none |-> 5, waiting |-> 4, http |-> 3, grpc |-> 2,
                  stopping |-> 1, done |-> 0]
Ahead == MainAhead[main] + ServeAhead[serve["http"]] + ServeAhead[serve["grpc"]]
         + ShutdownAhead[shutdown]

\* A goroutine never goes back, and its every step counts: neither a second
\* signal nor a failure on the way out prolongs the shutdown.
EveryStepCounts ==
    [][/\ Ahead' <= Ahead
       /\ \/ Run \/ ShutdownGoroutine
          \/ \E t \in Servers : ServerGoroutine(t)
          => Ahead' < Ahead]_vars

\* A server that fails, or a signal, ends the process, whatever HTTP clients do,
\* if no client holds a stream open for ever: GracefulStop has no deadline, and a
\* Watch of the health service that stays keeps the process up.
ShutdownTerminates ==
    (\A r \in Streams : []<>(request[r] # "running"))
        => (stopping \/ failed # {} ~> main = "exited")

\* A process that has lost one of its servers stops announcing itself.
FailureIsAnnounced == failed # {} ~> ~ health \/ main = "exited"

-------------------------------------------------------------------------------
(* The inductive invariant behind the theorems of ServiceLifecycleProofs *)

\* A server that has not started has no requests, nor has one that was stopped;
\* only the exit cuts requests off.
Quiet ==
    /\ \A r \in Requests : request[r] = "cut" => main = "exited"
    /\ \A t \in Servers :
         serve[t] \in {"none", "started"} \/ stop[t] = "stopped" => Running(t) = {}

\* Before Start, run() is the only goroutine.
Alone ==
    main \notin {"wait", "closing", "exited"} =>
        /\ shutdown = "none" /\ exit = "none" /\ failed = {}
        /\ \A t \in Servers : serve[t] = "none"

\* How far the shutdown has come, seen from the servers.
ShutdownOrder ==
    /\ stop["http"] # "no" => shutdown \notin {"none", "waiting"}
    /\ stop["grpc"] # "no" <=> shutdown \in {"stopping", "done"}
    /\ stop["http"] # "stopped"
    /\ shutdown \in {"http", "grpc", "stopping", "done"} => stop["http"] # "no"
    /\ shutdown \in {"grpc", "stopping", "done"} =>
         reported \/ Running("http") = {}

\* Serve came back because it was told to, or its error is in the channel.
Returned ==
    /\ serve["grpc"] = "returned" =>
         reported \/ (stop["grpc"] # "no" /\ Running("grpc") = {})
    /\ "drain" \in failed => reported
    /\ \A t \in failed \cap Servers : reported \/ serve[t] = "failing"

\* run() returns nil only then.
ReturnsOk ==
    exit = "ok" => /\ ~ reported /\ main \in {"closing", "exited"}
                   /\ \A t \in Servers : serve[t] = "returned"

\* Whoever is told to stop has been told by ctx, which every error cancels.
StopIsAnnounced ==
    /\ main = "wait" => shutdown # "none"
    /\ reported \/ shutdown \notin {"none", "waiting"} => stopping
    /\ shutdown = "done" => stop["grpc"] = "stopped"

IInv == TypeOK /\ Quiet /\ Alone /\ ShutdownOrder /\ Returned /\ ReturnsOk
        /\ CleanExitIsDrained
===============================================================================

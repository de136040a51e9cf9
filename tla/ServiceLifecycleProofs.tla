----------------------- MODULE ServiceLifecycleProofs -----------------------
(***************************************************************************)
(* The safety of a service's start, shutdown and exit, for any set of HTTP *)
(* requests and RPCs: IInv is inductive, and implies that a clean exit has *)
(* drained the process and that no failure is lost.                        *)
(***************************************************************************)
EXTENDS ServiceLifecycle, TLAPS

LEMMA InitInv == Init => IInv
<1> SUFFICES ASSUME Init PROVE IInv
  OBVIOUS
<1>1. TypeOK
  <2>1. /\ serve = [t \in Servers |-> "none"] /\ stop = [t \in Servers |-> "no"]
        /\ request = [r \in Requests |-> "new"]
    BY DEF Init
  <2>2. serve \in [Servers -> ServePoints]
    BY <2>1, SMT DEF ServePoints
  <2>3. stop \in [Servers -> {"no", "draining", "stopped"}]
    BY <2>1
  <2>4. request \in [Requests -> {"new", "running", "done", "cut"}]
    BY <2>1
  <2>5. /\ main = "config" /\ pool = "none" /\ exit = "none" /\ shutdown = "none"
        /\ stopping = FALSE /\ health = FALSE /\ reported = FALSE /\ failed = {}
    BY DEF Init
  <2>6. /\ stopping \in BOOLEAN /\ health \in BOOLEAN /\ reported \in BOOLEAN
        /\ failed \subseteq Servers \cup {"drain"}
    BY <2>5, Zenon
  <2>7. /\ main \in MainPoints /\ shutdown \in ShutdownPoints
        /\ pool \in {"none", "open", "closed"} /\ exit \in {"none", "ok", "error"}
        /\ pool = "open" <=> main \in {"migrate", "listen", "start", "wait"}
        /\ main # "wait"
    BY <2>5, SMT DEF MainPoints, ShutdownPoints
  <2> QED
    BY <2>2, <2>3, <2>4, <2>6, <2>7, Zenon DEF TypeOK
<1>2. \A t \in Servers : stop[t] = "no" /\ Running(t) = {}
  BY SMT DEF Init, Running
<1>3. Quiet /\ Alone /\ ShutdownOrder /\ Returned
  BY <1>2, SMT DEF Init, Quiet, Alone, ShutdownOrder, Returned, Servers
<1>4. ReturnsOk /\ CleanExitIsDrained
  BY Zenon DEF Init, ReturnsOk, CleanExitIsDrained
<1> QED
  BY <1>1, <1>3, <1>4 DEF IInv

-----------------------------------------------------------------------------
(* The start *)

LEMMA LoadConfigInv ==
  ASSUME IInv, LoadConfig
  PROVE  IInv'
  BY TransportAssumption, SMT DEF IInv, TypeOK, Quiet, Alone, ShutdownOrder,
     Returned, ReturnsOk, CleanExitIsDrained, LoadConfig, process, servers, GiveUp,
     Running, Servers, MainPoints, ServePoints, ShutdownPoints

LEMMA ConnectInv ==
  ASSUME IInv, Connect
  PROVE  IInv'
  BY TransportAssumption, SMT DEF IInv, TypeOK, Quiet, Alone, ShutdownOrder,
     Returned, ReturnsOk, CleanExitIsDrained, Connect, process, servers, GiveUp,
     Running, Servers, MainPoints, ServePoints, ShutdownPoints

LEMMA MigrateInv ==
  ASSUME IInv, Migrate
  PROVE  IInv'
  BY TransportAssumption, SMT DEF IInv, TypeOK, Quiet, Alone, ShutdownOrder,
     Returned, ReturnsOk, CleanExitIsDrained, Migrate, process, servers, GiveUp,
     Running, Servers, MainPoints, ServePoints, ShutdownPoints

LEMMA ListenInv ==
  ASSUME IInv, Listen
  PROVE  IInv'
  BY TransportAssumption, SMT DEF IInv, TypeOK, Quiet, Alone, ShutdownOrder,
     Returned, ReturnsOk, CleanExitIsDrained, Listen, process, servers, GiveUp,
     Running, Servers, MainPoints, ServePoints, ShutdownPoints

LEMMA StartInv ==
  ASSUME IInv, Start
  PROVE  IInv'
<1>1. /\ main' = "wait" /\ shutdown' = "waiting"
      /\ serve' = [t \in Servers |-> "started"]
      /\ UNCHANGED <<stop, request, reported, failed, exit>>
  BY DEF Start, process
<1>2. TypeOK'
  <2>1. serve' \in [Servers -> ServePoints]
    BY <1>1, SMT DEF ServePoints
  <2>2. \A t \in Servers : serve'[t] = "started"
    BY <1>1
  <2> QED
    BY <2>1, <2>2, SMT DEF IInv, TypeOK, Start, process, MainPoints, ShutdownPoints
<1>3. (Quiet /\ Alone)'
  BY <1>1, SMT DEF IInv, TypeOK, Quiet, Alone, Running, Start
<1>4. (ShutdownOrder /\ Returned)'
  BY <1>1, SMT DEF IInv, TypeOK, Alone, ShutdownOrder, Returned, Running, Servers, Start
<1>5. (ReturnsOk /\ CleanExitIsDrained)'
  BY <1>1, SMT DEF IInv, TypeOK, Alone, ReturnsOk, CleanExitIsDrained, Start, MainPoints
<1> QED
  BY <1>2, <1>3, <1>4, <1>5 DEF IInv

-----------------------------------------------------------------------------
(* The servers and their requests *)

LEMMA ServeInv ==
  ASSUME NEW t \in Servers, IInv, Serve(t)
  PROVE  IInv'
  BY TransportAssumption, SMT DEF IInv, TypeOK, Quiet, Alone, ShutdownOrder,
     Returned, ReturnsOk, CleanExitIsDrained, Serve, process, servers,
     Running, Servers, MainPoints, ServePoints, ShutdownPoints

LEMMA ServeFailsInv ==
  ASSUME NEW t \in Servers, IInv, ServeFails(t)
  PROVE  IInv'
  BY TransportAssumption, SMT DEF IInv, TypeOK, Quiet, Alone, ShutdownOrder,
     Returned, ReturnsOk, CleanExitIsDrained, ServeFails, process, servers,
     Running, Servers, MainPoints, ServePoints, ShutdownPoints

LEMMA ReportInv ==
  ASSUME NEW t \in Servers, IInv, Report(t)
  PROVE  IInv'
  BY TransportAssumption, SMT DEF IInv, TypeOK, Quiet, Alone, ShutdownOrder,
     Returned, ReturnsOk, CleanExitIsDrained, Report, process, servers,
     Running, Servers, MainPoints, ServePoints, ShutdownPoints

LEMMA ServeReturnsInv ==
  ASSUME NEW t \in Servers, IInv, ServeReturns(t)
  PROVE  IInv'
  BY TransportAssumption, SMT DEF IInv, TypeOK, Quiet, Alone, ShutdownOrder,
     Returned, ReturnsOk, CleanExitIsDrained, ServeReturns, process, servers, Released,
     Running, Servers, MainPoints, ServePoints, ShutdownPoints

LEMMA ArriveInv ==
  ASSUME NEW r \in Requests, IInv, Arrive(r)
  PROVE  IInv'
<1>1. /\ request' = [request EXCEPT ![r] = "running"] /\ request[r] = "new"
      /\ Open(Transport[r])
      /\ main = "wait" \/ main = "closing"
      /\ UNCHANGED <<process, stopping, servers, reported, failed>>
  BY DEF Arrive
<1>2. Transport[r] \in {"http", "grpc"}
  BY TransportAssumption DEF Servers
\* A request that arrives late meets no clean exit, and no drained server.
<1>3. Transport[r] = "grpc" => serve["grpc"] # "returned" \/ reported \/ stop["grpc"] = "no"
  BY <1>1, SMT DEF Open, IInv, Returned, Servers
<1>4. Transport[r] = "http" =>
        reported \/ shutdown \notin {"grpc", "stopping", "done"}
  BY <1>1, SMT DEF Open, IInv, Returned, ShutdownOrder
<1>5. exit # "ok"
  <2> SUFFICES ASSUME exit = "ok" PROVE FALSE
    OBVIOUS
  <2>1. ~ reported /\ serve["grpc"] = "returned"
    BY SMT DEF IInv, ReturnsOk, Servers
  <2>2. stop["grpc"] # "no" /\ shutdown \in {"stopping", "done"}
    BY <2>1, SMT DEF IInv, Returned, ShutdownOrder
  <2> QED
    BY <1>2, <1>3, <1>4, <2>1, <2>2
<1>6. TypeOK'
  BY <1>1, SMT DEF IInv, TypeOK, process, servers
<1>7. \A t \in Servers : t # Transport[r] => Running(t)' = Running(t)
  BY <1>1, SMT DEF IInv, TypeOK, Running
<1>8. serve[Transport[r]] \notin {"none", "started"} /\ stop[Transport[r]] # "stopped"
  BY <1>1, <1>2, SMT DEF Open, IInv, TypeOK, ShutdownOrder, Servers
<1>9. (Quiet /\ Alone)'
  BY <1>1, <1>7, <1>8, SMT DEF IInv, TypeOK, Quiet, Alone, process, servers
<1>10. ShutdownOrder'
  BY <1>1, <1>2, <1>4, <1>7, SMT DEF IInv, ShutdownOrder, Servers, servers
<1>11. Returned'
  BY <1>1, <1>2, <1>3, <1>7, SMT DEF IInv, Returned, Servers, servers
<1>12. (ReturnsOk /\ CleanExitIsDrained)'
  BY <1>1, <1>5, SMT DEF IInv, ReturnsOk, CleanExitIsDrained, process
<1> QED
  BY <1>6, <1>9, <1>10, <1>11, <1>12 DEF IInv

LEMMA FinishInv ==
  ASSUME NEW r \in Requests, IInv, Finish(r)
  PROVE  IInv'
  BY TransportAssumption, SMT DEF IInv, TypeOK, Quiet, Alone, ShutdownOrder,
     Returned, ReturnsOk, CleanExitIsDrained, Finish, process, servers,
     Running, Servers, MainPoints, ServePoints, ShutdownPoints

-----------------------------------------------------------------------------
(* Shutting down *)

LEMMA SignalInv ==
  ASSUME IInv, Signal
  PROVE  IInv'
  BY TransportAssumption, SMT DEF IInv, TypeOK, Quiet, Alone, ShutdownOrder,
     Returned, ReturnsOk, CleanExitIsDrained, Signal, process, servers,
     Running, Servers, MainPoints, ServePoints, ShutdownPoints

LEMMA ShutdownHTTPInv ==
  ASSUME IInv, ShutdownHTTP
  PROVE  IInv'
<1>1. /\ stop' = [stop EXCEPT !["http"] = "draining"] /\ shutdown = "waiting"
      /\ stop'["http"] = "draining" /\ stop'["grpc"] = stop["grpc"]
  BY SMT DEF IInv, TypeOK, ShutdownHTTP, Servers
<1>2. /\ shutdown' = "http"
      /\ main = "wait" \/ main = "closing"
      /\ UNCHANGED <<process, serve, reported, failed, request>>
  BY DEF ShutdownHTTP, Alive
<1>3. TypeOK'
  <2>1. stop' \in [Servers -> {"no", "draining", "stopped"}]
    BY <1>1, Zenon DEF IInv, TypeOK
  <2>2. health' \in BOOLEAN /\ stopping' \in BOOLEAN
    BY Zenon DEF IInv, TypeOK, ShutdownHTTP
  <2> QED
    BY <1>2, <2>1, <2>2, SMT DEF IInv, TypeOK, process, ShutdownPoints
<1>4. (Quiet /\ Alone)'
  BY <1>1, <1>2, SMT DEF IInv, Quiet, Alone, Running, Servers, process
<1>5. (ShutdownOrder /\ Returned)'
  BY <1>1, <1>2, SMT DEF IInv, ShutdownOrder, Returned, Running, Servers
<1>6. (ReturnsOk /\ CleanExitIsDrained)'
  BY <1>2, SMT DEF IInv, ReturnsOk, CleanExitIsDrained, process
<1> QED
  BY <1>3, <1>4, <1>5, <1>6 DEF IInv

LEMMA DrainedInv ==
  ASSUME IInv, Drained
  PROVE  IInv'
  BY TransportAssumption, SMT DEF IInv, TypeOK, Quiet, Alone, ShutdownOrder,
     Returned, ReturnsOk, CleanExitIsDrained, Drained, process, servers, Alive,
     Running, Servers, MainPoints, ServePoints, ShutdownPoints

LEMMA DrainTimesOutInv ==
  ASSUME IInv, DrainTimesOut
  PROVE  IInv'
  BY TransportAssumption, SMT DEF IInv, TypeOK, Quiet, Alone, ShutdownOrder,
     Returned, ReturnsOk, CleanExitIsDrained, DrainTimesOut, process, servers, Alive,
     Running, Servers, MainPoints, ServePoints, ShutdownPoints

LEMMA GracefulStopInv ==
  ASSUME IInv, GracefulStop
  PROVE  IInv'
  BY TransportAssumption, SMT DEF IInv, TypeOK, Quiet, Alone, ShutdownOrder,
     Returned, ReturnsOk, CleanExitIsDrained, GracefulStop, process, servers, Alive,
     Running, Servers, MainPoints, ServePoints, ShutdownPoints

LEMMA StoppedInv ==
  ASSUME IInv, Stopped
  PROVE  IInv'
  BY TransportAssumption, SMT DEF IInv, TypeOK, Quiet, Alone, ShutdownOrder,
     Returned, ReturnsOk, CleanExitIsDrained, Stopped, process, servers, Alive,
     Running, Servers, MainPoints, ServePoints, ShutdownPoints

LEMMA ReturnInv ==
  ASSUME IInv, Return
  PROVE  IInv'
<1>1. (TypeOK /\ Quiet /\ Alone /\ ShutdownOrder /\ Returned /\ ReturnsOk)'
  BY SMT DEF IInv, TypeOK, Quiet, Alone, ShutdownOrder, Returned, ReturnsOk, Return,
     servers, Running, Servers, MainPoints
<1>2. CleanExitIsDrained'
  <2> SUFFICES ASSUME exit' = "ok", NEW r \in Requests
               PROVE  request[r] \in {"new", "done"}
    BY DEF CleanExitIsDrained, Return
  <2>1. ~ reported /\ serve["grpc"] = "returned"
    BY SMT DEF Return, Servers
  <2>2. Running("grpc") = {} /\ Running("http") = {}
    BY <2>1, SMT DEF IInv, Returned, ShutdownOrder
  <2>3. request[r] # "running"
    BY <2>2, TransportAssumption, SMT DEF Running, Servers
  <2>4. request[r] # "cut" 
    BY SMT DEF IInv, Quiet, Return
  <2> QED
    BY <2>3, <2>4, SMT DEF IInv, TypeOK
<1> QED
  BY <1>1, <1>2 DEF IInv

LEMMA ExitInv ==
  ASSUME IInv, Exit
  PROVE  IInv'
  BY TransportAssumption, SMT DEF IInv, TypeOK, Quiet, Alone, ShutdownOrder,
     Returned, ReturnsOk, CleanExitIsDrained, Exit, process, servers,
     Running, Servers, MainPoints, ServePoints, ShutdownPoints

-----------------------------------------------------------------------------

LEMMA StutterInv ==
  ASSUME IInv, UNCHANGED vars
  PROVE  IInv'
<1>1. TypeOK'
  BY Zenon DEF IInv, TypeOK, vars
<1>2. (Quiet /\ Alone)'
  BY Zenon DEF IInv, Quiet, Alone, Running, vars
<1>3. (ShutdownOrder /\ Returned)'
  BY SMT DEF IInv, ShutdownOrder, Returned, Running, vars
<1>4. (ReturnsOk /\ CleanExitIsDrained)'
  BY Zenon DEF IInv, ReturnsOk, CleanExitIsDrained, vars
<1> QED
  BY <1>1, <1>2, <1>3, <1>4 DEF IInv

LEMMA StepInv == IInv /\ [Next]_vars => IInv'
<1> SUFFICES ASSUME IInv, [Next]_vars PROVE IInv'
  OBVIOUS
<1>1. CASE Run
  BY <1>1, LoadConfigInv, ConnectInv, MigrateInv, ListenInv, StartInv,
     ReturnInv, ExitInv DEF Run
<1>2. CASE ShutdownGoroutine
  BY <1>2, ShutdownHTTPInv, DrainedInv, DrainTimesOutInv, GracefulStopInv,
     StoppedInv DEF ShutdownGoroutine
<1>3. CASE Signal
  BY <1>3, SignalInv
<1>4. CASE Exited \/ UNCHANGED vars
  BY <1>4, StutterInv DEF Exited
<1>5. ASSUME NEW t \in Servers, ServerGoroutine(t) \/ ServeFails(t) PROVE IInv'
  BY <1>5, ServeInv, ServeFailsInv, ReportInv, ServeReturnsInv DEF ServerGoroutine
<1>6. ASSUME NEW r \in Requests, Arrive(r) \/ Finish(r) PROVE IInv'
  BY <1>6, ArriveInv, FinishInv
<1> QED
  BY <1>1, <1>2, <1>3, <1>4, <1>5, <1>6 DEF Next

LEMMA Invariance == Spec => []IInv
<1>1. IInv /\ [Next]_vars => IInv'
  BY StepInv
<1> QED
  BY InitInv, <1>1, PTL DEF Spec

\* Every goroutine is at one of its points, and the pool is open exactly from
\* Connect (main.go:72) to the return of run().
THEOREM ServiceTypeOK == Spec => []TypeOK
<1>1. IInv => TypeOK
  BY DEF IInv
<1> QED
  BY Invariance, <1>1, PTL

\* Exit status 0 means that every request that was taken up has been answered:
\* the order httpServer.Shutdown, GracefulStop, wg.Wait, db.Close of main.go.
THEOREM CleanExit == Spec => []CleanExitIsDrained
<1>1. IInv => CleanExitIsDrained
  BY DEF IInv
<1> QED
  BY Invariance, <1>1, PTL

\* Exit status 0 means that no server failed and no drain timed out: the
\* non-blocking read of startupErrCh (main.go:295) comes after every report.
THEOREM NoFailureIsLost == Spec => []FailureIsReported
<1>1. IInv => FailureIsReported
  BY SMT DEF IInv, TypeOK, ReturnsOk, Returned, FailureIsReported
<1> QED
  BY Invariance, <1>1, PTL

-----------------------------------------------------------------------------
(* Nobody waits for ever but for an RPC *)

LEMMA AnnouncedInit == Init => StopIsAnnounced
<1>1. Init => main = "config" /\ shutdown = "none" /\ reported = FALSE
  BY DEF Init
<1> QED
  BY <1>1, Zenon DEF StopIsAnnounced

\* Whoever touches neither the shutdown nor wg.Wait may only cancel the context.
LEMMA AnnouncedFrame ==
  ASSUME StopIsAnnounced, main' = main, shutdown' = shutdown, stop' = stop,
         (stopping' = stopping /\ reported' = reported) \/ stopping' = TRUE
  PROVE  StopIsAnnounced'
<1>1. (main = "wait" => shutdown # "none")'
  BY SMT DEF StopIsAnnounced
<1>2. (shutdown = "done" => stop["grpc"] = "stopped")'
  BY SMT DEF StopIsAnnounced
<1>3. (reported \/ shutdown \notin {"none", "waiting"} => stopping)'
  <2>1. CASE stopping' = TRUE
    BY <2>1
  <2>2. CASE stopping' = stopping /\ reported' = reported
    BY <2>2, Zenon DEF StopIsAnnounced
  <2> QED
    BY <2>1, <2>2
<1> QED
  BY <1>1, <1>2, <1>3, Zenon DEF StopIsAnnounced

LEMMA AnnouncedStart ==
  ASSUME IInv, StopIsAnnounced,
         LoadConfig \/ Connect \/ Migrate \/ Listen \/ Start \/ Return \/ Exit
  PROVE  StopIsAnnounced'
<1>1. CASE Start
  <2>1. /\ shutdown = "none" /\ shutdown' = "waiting"
        /\ UNCHANGED <<stopping, reported>>
    BY <1>1, Zenon DEF Start, IInv, Alone
  <2> QED
    BY <2>1, Zenon DEF StopIsAnnounced
<1>2. CASE ~ Start
  <2>1. /\ UNCHANGED <<shutdown, stop, reported>>
        /\ UNCHANGED stopping \/ stopping' = TRUE
    BY <1>2, Zenon DEF LoadConfig, Connect, Migrate, Listen, Return, Exit, servers
  <2>2. main' # "wait"
    BY <1>2, Zenon DEF LoadConfig, Connect, Migrate, Listen, Return, Exit, GiveUp
  <2> QED
    BY <2>1, <2>2, Zenon DEF StopIsAnnounced
<1> QED
  BY <1>1, <1>2

LEMMA AnnouncedShutdown ==
  ASSUME IInv, StopIsAnnounced, ShutdownGoroutine
  PROVE  StopIsAnnounced'
<1>1. stop \in [Servers -> {"no", "draining", "stopped"}]
  BY DEF IInv, TypeOK
<1>2. stopping /\ stopping' = stopping
  BY SMT DEF StopIsAnnounced, ShutdownGoroutine, ShutdownHTTP, Drained, DrainTimesOut,
     GracefulStop, Stopped
<1>3. /\ shutdown' # "none"
      /\ shutdown' = "done" => stop'["grpc"] = "stopped"
  BY <1>1, SMT DEF ShutdownGoroutine, ShutdownHTTP, Drained, DrainTimesOut,
     GracefulStop, Stopped, Servers
<1> QED
  BY <1>2, <1>3 DEF StopIsAnnounced

LEMMA AnnouncedServer ==
  ASSUME NEW t \in Servers, StopIsAnnounced, ServerGoroutine(t) \/ ServeFails(t)
  PROVE  StopIsAnnounced'
<1>1. /\ main' = main /\ shutdown' = shutdown /\ stop' = stop
      /\ (stopping' = stopping /\ reported' = reported) \/ stopping' = TRUE
  BY DEF ServerGoroutine, Serve, ServeFails, Report, ServeReturns, process
<1> QED
  BY <1>1, AnnouncedFrame

LEMMA AnnouncedStep == IInv /\ StopIsAnnounced /\ [Next]_vars => StopIsAnnounced'
<1> SUFFICES ASSUME IInv, StopIsAnnounced, [Next]_vars PROVE StopIsAnnounced'
  OBVIOUS
<1>1. CASE Run
  BY <1>1, AnnouncedStart DEF Run
<1>2. CASE ShutdownGoroutine
  BY <1>2, AnnouncedShutdown
<1>3. ASSUME NEW t \in Servers, ServerGoroutine(t) \/ ServeFails(t)
      PROVE  StopIsAnnounced'
  BY <1>3, AnnouncedServer
<1>4. CASE Signal
  BY <1>4, AnnouncedFrame DEF Signal, process, servers
<1>5. ASSUME NEW r \in Requests, Arrive(r) \/ Finish(r)
      PROVE  StopIsAnnounced'
  BY <1>5, AnnouncedFrame DEF Arrive, Finish, process, servers
<1>6. CASE Exited \/ UNCHANGED vars
  BY <1>6, AnnouncedFrame DEF Exited, vars
<1> QED
  BY <1>1, <1>2, <1>3, <1>4, <1>5, <1>6 DEF Next

LEMMA NeverStuck == IInv /\ StopIsAnnounced => StopIsNeverStuck
<1> SUFFICES ASSUME IInv, StopIsAnnounced, stopping \/ failed # {}, main = "wait",
                    ~ RunGoesOn, ~ ServerGoesOn, ~ ShutdownGoesOn
             PROVE  shutdown = "stopping" /\ Running("grpc") # {}
  BY SMT DEF StopIsNeverStuck, RunGoesOn
<1>1. \A t \in Servers : serve[t] \in {"serving", "returned"}
  BY SMT DEF IInv, TypeOK, ServePoints, ServerGoesOn
<1>2. PICK t \in Servers : serve[t] = "serving" /\ ~ Released(t)
  BY <1>1 DEF RunGoesOn, ServerGoesOn
\* Either failure or signal has reached the shutdown goroutine ...
<1>3. stopping
  <2>1. failed # {} => reported
    BY <1>1, SMT DEF IInv, TypeOK, Returned
  <2> QED
    BY <2>1, Zenon DEF StopIsAnnounced
<1>4. shutdown \in {"stopping", "done"}
  BY <1>3, SMT DEF IInv, TypeOK, StopIsAnnounced, ShutdownGoesOn, ShutdownPoints
\* ... which has then told both servers to stop, and is waiting for the RPCs.
<1>5. stop["http"] # "no"
  BY <1>4 DEF IInv, ShutdownOrder
<1>6. t = "grpc" /\ stop["grpc"] # "stopped"
  BY <1>2, <1>5, SMT DEF Released, Servers
<1>7. shutdown = "stopping"
  BY <1>4, <1>6 DEF StopIsAnnounced
<1> QED
  BY <1>7 DEF ShutdownGoesOn

\* Once a signal has come or something has failed, some goroutine of run()
\* (main.go) can always go on, unless GracefulStop is waiting for an RPC: the safety
\* half of ShutdownTerminates.
THEOREM ShutdownNeverStuck == Spec => []StopIsNeverStuck
<1>1. Spec => []StopIsAnnounced
  BY AnnouncedInit, AnnouncedStep, Invariance, PTL DEF Spec
<1> QED
  BY Invariance, <1>1, NeverStuck, PTL

-----------------------------------------------------------------------------
(* Every step counts *)

\* The terms of Ahead are natural numbers.
LEMMA AheadRanges ==
  /\ \A p \in MainPoints : MainAhead[p] \in 0..7
  /\ \A p \in ServePoints : ServeAhead[p] \in 0..4
  /\ \A p \in ShutdownPoints : ShutdownAhead[p] \in 0..5
  BY SMT DEF MainAhead, ServeAhead, ShutdownAhead, MainPoints, ServePoints,
     ShutdownPoints

LEMMA PointsTyped ==
  ASSUME TypeOK
  PROVE  /\ main \in MainPoints /\ shutdown \in ShutdownPoints
         /\ serve["http"] \in ServePoints /\ serve["grpc"] \in ServePoints
  BY DEF TypeOK, Servers

LEMMA PointsStayTyped ==
  ASSUME TypeOK'
  PROVE  /\ main' \in MainPoints /\ shutdown' \in ShutdownPoints
         /\ serve'["http"] \in ServePoints /\ serve'["grpc"] \in ServePoints
  BY DEF TypeOK, Servers

LEMMA RunAdvances ==
  ASSUME IInv, Run
  PROVE  Ahead' < Ahead
<1>1. TypeOK /\ TypeOK'
  BY StepInv DEF IInv, Next
<1>2. CASE Start
  <2>1. main = "start" /\ main' = "wait" /\ shutdown = "none" /\ shutdown' = "waiting"
    BY <1>2, SMT DEF Start, IInv, Alone
  <2>2. /\ serve["http"] = "none" /\ serve["grpc"] = "none"
        /\ serve'["http"] = "started" /\ serve'["grpc"] = "started"
    BY <1>2, SMT DEF Start, IInv, Alone, Servers
  <2> QED
    BY <2>1, <2>2, SMT DEF Ahead, MainAhead, ServeAhead, ShutdownAhead
<1>3. CASE ~ Start
  <2>1. UNCHANGED <<serve, shutdown>>
    BY <1>3, Zenon DEF Run, LoadConfig, Connect, Migrate, Listen, Return, Exit, servers
  <2>2. MainAhead[main'] < MainAhead[main]
    BY <1>3, SMT DEF Run, LoadConfig, Connect, Migrate, Listen, Return, Exit, GiveUp,
       MainAhead
  <2> QED
    BY <1>1, <2>1, <2>2, AheadRanges, PointsTyped, PointsStayTyped, SMT DEF Ahead
<1> QED
  BY <1>2, <1>3

LEMMA ShutdownAdvances ==
  ASSUME IInv, ShutdownGoroutine
  PROVE  Ahead' < Ahead
<1>1. /\ UNCHANGED <<main, serve>>
      /\ ShutdownAhead[shutdown'] < ShutdownAhead[shutdown]
  BY SMT DEF ShutdownGoroutine, ShutdownHTTP, Drained, DrainTimesOut, GracefulStop,
     Stopped, process, ShutdownAhead
<1>2. TypeOK /\ TypeOK'
  BY StepInv DEF IInv, Next
<1> QED
  BY <1>1, <1>2, AheadRanges, PointsTyped, PointsStayTyped, SMT DEF Ahead

LEMMA ServerAdvances ==
  ASSUME NEW t \in Servers, IInv, ServerGoroutine(t) \/ ServeFails(t)
  PROVE  Ahead' < Ahead
<1>1. UNCHANGED <<main, shutdown>>
  BY DEF ServerGoroutine, Serve, ServeFails, Report, ServeReturns, process
<1>2. PICK p \in ServePoints : /\ serve' = [serve EXCEPT ![t] = p]
                              /\ ServeAhead[p] < ServeAhead[serve[t]]
  BY SMT DEF ServerGoroutine, Serve, ServeFails, Report, ServeReturns, ServePoints,
     ServeAhead
<1>3. TypeOK /\ TypeOK'
  BY StepInv DEF IInv, Next
<1>4. /\ ServeAhead[serve'[t]] < ServeAhead[serve[t]]
      /\ \A u \in Servers : u # t => serve'[u] = serve[u]
  BY <1>2, <1>3 DEF TypeOK
<1>5. ServeAhead[serve'["http"]] + ServeAhead[serve'["grpc"]]
        < ServeAhead[serve["http"]] + ServeAhead[serve["grpc"]]
  BY <1>3, <1>4, AheadRanges, PointsTyped, PointsStayTyped, SMT DEF Servers
<1> QED
  BY <1>1, <1>3, <1>5, AheadRanges, PointsTyped, PointsStayTyped, SMT DEF Ahead

LEMMA OthersStay ==
  ASSUME UNCHANGED <<main, serve, shutdown>>
  PROVE  Ahead' = Ahead
  BY DEF Ahead

\* run(), the servers and the shutdown (main.go) only ever go forward.  With
\* ShutdownNeverStuck: a process whose run() waits is at most 12 of their steps, and
\* the RPCs GracefulStop waits for, away from its exit.
THEOREM StepsCount == Spec => EveryStepCounts
<1>1. IInv /\ [Next]_vars =>
        [/\ Ahead' <= Ahead
         /\ \/ Run \/ ShutdownGoroutine
            \/ \E t \in Servers : ServerGoroutine(t)
            => Ahead' < Ahead]_vars
  <2> SUFFICES ASSUME IInv, Next
               PROVE  /\ Ahead' <= Ahead
                      /\ \/ Run \/ ShutdownGoroutine
                         \/ \E t \in Servers : ServerGoroutine(t)
                         => Ahead' < Ahead
    OBVIOUS
  <2>1. Ahead \in Nat /\ Ahead' \in Nat
    <3>1. TypeOK /\ TypeOK'
      BY StepInv DEF IInv
    <3> QED
      BY <3>1, AheadRanges, PointsTyped, PointsStayTyped, SMT DEF Ahead
  <2>2. CASE Run \/ ShutdownGoroutine \/ \E t \in Servers : ServerGoroutine(t)
    <3>1. Ahead' < Ahead
      BY <2>2, RunAdvances, ShutdownAdvances, ServerAdvances
    <3> QED
      BY <2>1, <3>1, SMT
  <2>3. CASE ~ (Run \/ ShutdownGoroutine \/ \E t \in Servers : ServerGoroutine(t))
    <3>1. ASSUME NEW t \in Servers, ServeFails(t) PROVE Ahead' <= Ahead
      BY <2>1, <3>1, ServerAdvances, SMT
    <3>2. ASSUME Signal \/ Exited \/ \E r \in Requests : Arrive(r) \/ Finish(r)
          PROVE  Ahead' <= Ahead
      <4>1. UNCHANGED <<main, serve, shutdown>>
        BY <3>2 DEF Signal, Exited, Arrive, Finish, process, servers, vars
      <4> QED
        BY <2>1, <4>1, OthersStay, SMT
    <3> QED
      BY <2>3, <3>1, <3>2 DEF Next
  <2> QED
    BY <2>2, <2>3
<1> QED
  BY Invariance, <1>1, PTL DEF Spec, EveryStepCounts
=============================================================================

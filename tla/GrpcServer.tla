----------------------------- MODULE GrpcServer -----------------------------
(***************************************************************************)
(* The life of one grpc.Server (src/grpc/server.go): goroutines that call  *)
(* ListenAndServe, Serve and Shutdown, the two goroutines Shutdown starts  *)
(* (GracefulStop, and Stop once a context has ended), and grpc-go as far   *)
(* as the wrapper depends on it: the accept loop, quit and done, the       *)
(* connections and the handlers of their RPCs.                             *)
(*                                                                         *)
(* A section under stateMutex is one step; closed is atomic and written by *)
(* a step of its own, as in RabbitServer.                                  *)
(***************************************************************************)
CONSTANTS
  ListenCalls,      \* goroutines that call ListenAndServe, once each
  GivenCalls,       \* goroutines that call Serve with a listener of theirs
  ShutdownCalls,    \* goroutines that call Shutdown, once each
  Conns,            \* client connections
  NoCall            \* not a call

ServeCalls == ListenCalls \cup GivenCalls
Stops == {"graceful", "forced"}

ASSUME GrpcAssumption ==
  /\ ListenCalls \cap GivenCalls = {}
  /\ NoCall \notin ServeCalls

VARIABLES
  \* fields of Server
  closed, running, served,
  shutdownDone,   \* the channel is closed
  \* goroutines
  serve,          \* where each Serve or ListenAndServe is
  result,         \* what it returns
  shutdown,       \* where each Shutdown is, then "nil" or "ctx" as it returned
  expired,        \* Shutdown calls whose context has ended
  stop,           \* the goroutine of each kind of stop
  \* grpc-go and the network (external)
  waitForHandlers,  \* grpc.WaitForHandlers was given: Stop waits for handlers too
  runner,         \* the admitted call
  listening,      \* calls whose listener is open
  quit, driverDone, draining,
  conn            \* "none", "idle", "active" (a handler runs), "cut" (a handler
                  \* runs, and its connection is gone) or "closed"

fields == <<closed, running, served, shutdownDone>>
driver == <<waitForHandlers, runner, listening, quit, driverDone, draining, conn>>
vars == <<fields, serve, result, shutdown, expired, stop, driver>>

Init ==
  /\ closed = FALSE /\ running = FALSE /\ served = FALSE /\ shutdownDone = FALSE
  /\ serve = [c \in ServeCalls |-> "idle"]
  /\ result = [c \in ServeCalls |-> "none"]
  /\ shutdown = [s \in ShutdownCalls |-> "idle"]
  /\ expired = {}
  /\ stop = [k \in Stops |-> "no"]
  /\ waitForHandlers \in BOOLEAN
  /\ runner = NoCall /\ listening = GivenCalls
  /\ quit = FALSE /\ driverDone = FALSE /\ draining = FALSE
  /\ conn = [n \in Conns |-> "none"]

----------------------------------------------------------------------------
(* ListenAndServe and Serve *)
Goto(c, place) == serve' = [serve EXCEPT ![c] = place]
Return(c, value) == result' = [result EXCEPT ![c] = value]

\* ListenAndServe reads closed before it opens a listener.
CheckClosed(c) ==
  /\ c \in ListenCalls /\ serve[c] = "idle"
  /\ IF closed THEN Goto(c, "returned") /\ Return(c, "ErrServerClosed")
               ELSE Goto(c, "listening") /\ UNCHANGED result
  /\ UNCHANGED <<fields, shutdown, expired, stop, driver>>

Listen(c) ==
  /\ serve[c] = "listening"
  /\ \/ listening' = listening \cup {c} /\ Goto(c, "entering") /\ UNCHANGED result
     \/ Goto(c, "returned") /\ Return(c, "listen") /\ UNCHANGED listening
  /\ UNCHANGED <<fields, shutdown, expired, stop, waitForHandlers, runner, quit,
                 driverDone, draining, conn>>

Entering(c) == serve[c] = "entering" \/ (c \in GivenCalls /\ serve[c] = "idle")

\* A rejected Serve keeps its hands off the listener.
Reject(c) ==
  /\ Entering(c)
  /\ closed \/ running \/ served
  /\ Return(c, IF closed THEN "ErrServerClosed"
               ELSE IF running THEN "ErrServerRunning" ELSE "ErrServerAlreadyServed")
  /\ Goto(c, "leaving")
  /\ UNCHANGED <<fields, shutdown, expired, stop, driver>>

\* Bug: a server that has served can serve again.
BugAdmit(c) ==
  /\ Entering(c)
  /\ ~closed /\ ~running
  /\ running' = TRUE /\ served' = TRUE /\ runner' = c
  /\ Goto(c, "admitted")
  /\ UNCHANGED <<closed, shutdownDone, result, shutdown, expired, stop, waitForHandlers,
                 listening, quit, driverDone, draining, conn>>

Admit(c) ==
  /\ Entering(c)
  /\ ~closed /\ ~running /\ ~served
  /\ running' = TRUE /\ served' = TRUE /\ runner' = c
  /\ Goto(c, "admitted")
  /\ UNCHANGED <<closed, shutdownDone, result, shutdown, expired, stop, waitForHandlers,
                 listening, quit, driverDone, draining, conn>>

\* driver.Serve: a driver already stopped closes the listener and refuses.
DriverServe(c) ==
  /\ serve[c] = "admitted"
  /\ IF quit THEN /\ listening' = listening \ {c}
                  /\ Goto(c, "clearing") /\ Return(c, "ErrServerStopped")
             ELSE Goto(c, "accepting") /\ UNCHANGED <<result, listening>>
  /\ UNCHANGED <<fields, shutdown, expired, stop, waitForHandlers, runner, quit,
                 driverDone, draining, conn>>

\* The accept loop ends because the driver quits, or because Accept fails.
AcceptEnds(c) ==
  /\ serve[c] = "accepting"
  /\ listening' = listening \ {c}
  /\ Goto(c, "stopping") /\ Return(c, IF quit THEN "nil" ELSE "accept")
  /\ UNCHANGED <<fields, shutdown, expired, stop, waitForHandlers, runner, quit,
                 driverDone, draining, conn>>

\* Whatever it returns, driver.Serve first waits for a stop that has begun to be
\* complete.
DriverStopped(c) ==
  /\ serve[c] = "stopping"
  /\ quit => driverDone
  /\ Goto(c, "clearing")
  /\ UNCHANGED <<fields, result, shutdown, expired, stop, driver>>

ClearRunning(c) ==
  /\ serve[c] = "clearing"
  /\ running' = FALSE
  /\ Goto(c, "leaving")
  /\ UNCHANGED <<closed, served, shutdownDone, result, shutdown, expired, stop, driver>>

\* Bug: driver.Serve's error is returned as it is.
BugOutcome(c) == result[c]

\* ErrServerStopped is no error after a Shutdown.
Outcome(c) == IF result[c] = "ErrServerStopped" /\ closed THEN "nil" ELSE result[c]

\* Bug: ListenAndServe leaves its listener to a Serve that refused it.
BugLeftover(c) == {}

\* ListenAndServe closes the listener of a Serve that failed.
Leftover(c) == IF c \in ListenCalls /\ Outcome(c) # "nil" THEN {c} ELSE {}

Leave(c) ==
  /\ serve[c] = "leaving"
  /\ Return(c, Outcome(c))
  /\ listening' = listening \ Leftover(c)
  /\ Goto(c, "returned")
  /\ UNCHANGED <<fields, shutdown, expired, stop, waitForHandlers, runner, quit,
                 driverDone, draining, conn>>

ServeStep(c) ==
  \/ Listen(c) \/ Reject(c) \/ Admit(c) \/ DriverServe(c) \/ (quit /\ AcceptEnds(c))
  \/ DriverStopped(c) \/ ClearRunning(c) \/ Leave(c)

----------------------------------------------------------------------------
(* Shutdown *)
\* Each kind of stop is started at most once (shutdownOnce, forceStopOnce).
StartStop(kind) == stop' = IF stop[kind] = "no" THEN [stop EXCEPT ![kind] = "started"] ELSE stop

ShutdownMark(s) ==
  /\ shutdown[s] = "idle"
  /\ closed' = TRUE
  /\ shutdown' = [shutdown EXCEPT ![s] = "marked"]
  /\ UNCHANGED <<running, served, shutdownDone, serve, result, expired, stop, driver>>

\* Bug: the driver of a server that is not running is not stopped.
BugStart(s) ==
  /\ shutdown[s] = "marked"
  /\ IF running THEN StartStop("graceful") ELSE UNCHANGED stop
  /\ shutdown' = [shutdown EXCEPT ![s] = "waiting"]
  /\ UNCHANGED <<fields, serve, result, expired, driver>>

ShutdownStart(s) ==
  /\ shutdown[s] = "marked"
  /\ StartStop("graceful")
  /\ shutdown' = [shutdown EXCEPT ![s] = "waiting"]
  /\ UNCHANGED <<fields, serve, result, expired, driver>>

ShutdownDone(s) ==
  /\ shutdown[s] = "waiting" /\ shutdownDone
  /\ shutdown' = [shutdown EXCEPT ![s] = "nil"]
  /\ UNCHANGED <<fields, serve, result, expired, stop, driver>>

\* Bug: the context's end is reported and nothing is forced.
BugGiveUp(s) ==
  /\ shutdown[s] = "waiting" /\ s \in expired
  /\ shutdown' = [shutdown EXCEPT ![s] = "ctx"]
  /\ UNCHANGED <<fields, serve, result, expired, stop, driver>>

ShutdownForce(s) ==
  /\ shutdown[s] = "waiting" /\ s \in expired
  /\ StartStop("forced")
  /\ shutdown' = [shutdown EXCEPT ![s] = "ctx"]
  /\ UNCHANGED <<fields, serve, result, expired, driver>>

ShutdownStep(s) == ShutdownStart(s) \/ ShutdownDone(s) \/ ShutdownForce(s)

ContextEnds(s) ==
  /\ s \notin expired
  /\ expired' = expired \cup {s}
  /\ UNCHANGED <<fields, serve, result, shutdown, stop, driver>>

----------------------------------------------------------------------------
(* GracefulStop and Stop, in their goroutines.  Both need the driver's mutex: they    *)
(* give it up while they wait for the connections, and keep it while they wait for    *)
(* the handlers ("joining").                                                          *)
StopAt(kind, place) == stop' = [stop EXCEPT ![kind] = place]

MutexFree == \A k \in Stops : stop[k] # "joining"

\* quit fires and the driver's listeners close; driver.Serve entered later refuses.
StopQuit(kind) ==
  /\ stop[kind] = "started" /\ MutexFree
  /\ quit' = TRUE
  /\ listening' = {c \in listening : serve[c] # "accepting"}
  /\ StopAt(kind, "quitting")
  /\ UNCHANGED <<fields, serve, result, shutdown, expired, waitForHandlers, runner,
                 driverDone, draining, conn>>

\* Once the accept loops have ended, GracefulStop lets the RPCs finish and Stop cuts
\* the connections.
StopConns(kind) ==
  /\ stop[kind] = "quitting" /\ MutexFree
  /\ \A c \in ServeCalls : serve[c] # "accepting"
  /\ draining' = TRUE
  /\ conn' = [n \in Conns |->
                IF conn[n] = "idle" THEN "closed"
                ELSE IF conn[n] = "active" /\ kind = "forced" THEN "cut" ELSE conn[n]]
  /\ StopAt(kind, "waiting")
  /\ UNCHANGED <<fields, serve, result, shutdown, expired, waitForHandlers, runner,
                 listening, quit, driverDone>>

\* No connection is left: each stop that waited for it wakes up, one at a time.
StopJoin(kind) ==
  /\ stop[kind] = "waiting" /\ MutexFree
  /\ \A n \in Conns : conn[n] \notin {"idle", "active"}
  /\ StopAt(kind, "joining")
  /\ UNCHANGED <<fields, serve, result, shutdown, expired, driver>>

\* GracefulStop waits for the handlers, Stop only if told to.
Joined(kind) == kind = "graceful" \/ waitForHandlers => \A n \in Conns : conn[n] # "cut"

StopDone(kind) ==
  /\ stop[kind] = "joining" /\ Joined(kind)
  /\ driverDone' = TRUE
  /\ StopAt(kind, "done")
  /\ UNCHANGED <<fields, serve, result, shutdown, expired, waitForHandlers, runner,
                 listening, quit, draining, conn>>

\* Bug: the end is signalled while GracefulStop still waits.
BugSignal(kind) ==
  /\ stop[kind] \notin {"no", "signalled"} /\ ~shutdownDone
  /\ shutdownDone' = TRUE
  /\ UNCHANGED <<closed, running, served, serve, result, shutdown, expired, stop, driver>>

SignalShutdownDone(kind) ==
  /\ stop[kind] = "done"
  /\ shutdownDone' = TRUE
  /\ StopAt(kind, "signalled")
  /\ UNCHANGED <<closed, running, served, serve, result, shutdown, expired, driver>>

StopStep(kind) ==
  \/ StopQuit(kind) \/ StopConns(kind) \/ StopJoin(kind) \/ StopDone(kind)
  \/ SignalShutdownDone(kind)

----------------------------------------------------------------------------
(* Clients and handlers *)
ConnAt(n, place) ==
  /\ conn' = [conn EXCEPT ![n] = place]
  /\ UNCHANGED <<fields, serve, result, shutdown, expired, stop, waitForHandlers,
                 runner, listening, quit, driverDone, draining>>

Connect(n) == conn[n] = "none" /\ (\E c \in ServeCalls : serve[c] = "accepting") /\ ConnAt(n, "idle")
Call(n) == conn[n] = "idle" /\ ConnAt(n, "active")

\* A client that leaves does not end its handler.
Disconnect(n) ==
  \/ conn[n] = "idle" /\ ConnAt(n, "closed")
  \/ conn[n] = "active" /\ ConnAt(n, "cut")

HandlerReturns(n) ==
  \/ conn[n] = "active" /\ ConnAt(n, IF draining THEN "closed" ELSE "idle")
  \/ conn[n] = "cut" /\ ConnAt(n, "closed")

Finished ==
  /\ \A c \in ServeCalls : serve[c] = "returned"
  /\ \A s \in ShutdownCalls : shutdown[s] \in {"nil", "ctx"}
  /\ UNCHANGED vars

Next ==
  \/ \E c \in ServeCalls : CheckClosed(c) \/ AcceptEnds(c) \/ ServeStep(c)
  \/ \E s \in ShutdownCalls : ShutdownMark(s) \/ ShutdownStep(s) \/ ContextEnds(s)
  \/ \E k \in Stops : StopStep(k)
  \/ \E n \in Conns : Connect(n) \/ Call(n) \/ Disconnect(n) \/ HandlerReturns(n)
  \/ Finished

Spec == Init /\ [][Next]_vars

\* Every goroutine that can run does; nothing is assumed of handlers or clients.
FairSpec ==
  /\ Spec
  /\ \A c \in ServeCalls : WF_vars(serve[c] # "idle" /\ ServeStep(c))
  /\ \A s \in ShutdownCalls : WF_vars(ShutdownStep(s))
  /\ \A k \in Stops : WF_vars(StopStep(k))

----------------------------------------------------------------------------
TypeOK ==
  /\ closed \in BOOLEAN /\ running \in BOOLEAN /\ served \in BOOLEAN
  /\ shutdownDone \in BOOLEAN /\ quit \in BOOLEAN /\ driverDone \in BOOLEAN
  /\ draining \in BOOLEAN /\ waitForHandlers \in BOOLEAN
  /\ serve \in [ServeCalls -> {"idle", "listening", "entering", "admitted", "accepting",
                               "stopping", "clearing", "leaving", "returned"}]
  /\ result \in [ServeCalls -> {"none", "nil", "listen", "accept", "ErrServerStopped",
                                "ErrServerClosed", "ErrServerRunning",
                                "ErrServerAlreadyServed"}]
  /\ shutdown \in [ShutdownCalls -> {"idle", "marked", "waiting", "nil", "ctx"}]
  /\ expired \subseteq ShutdownCalls
  /\ stop \in [Stops -> {"no", "started", "quitting", "waiting", "joining", "done",
                      "signalled"}]
  /\ runner \in ServeCalls \cup {NoCall}
  /\ listening \subseteq ServeCalls
  /\ conn \in [Conns -> {"none", "idle", "active", "cut", "closed"}]
  /\ \A c \in ServeCalls : serve[c] = "returned" => result[c] # "none"

\* One call is admitted, and running says that its driver.Serve has not been left.
Serving == {"admitted", "accepting", "stopping", "clearing"}
AdmissionInv ==
  /\ served => runner # NoCall
  /\ runner # NoCall => served /\ serve[runner] \in Serving \cup {"leaving", "returned"}
  /\ running => runner # NoCall /\ serve[runner] \in Serving
  /\ \A c \in ServeCalls : serve[c] \in Serving => running /\ c = runner

\* How far the two stops are, and what that says of the driver and the connections.
StopInv ==
  /\ \A s \in ShutdownCalls : shutdown[s] # "idle" => closed
  /\ \A s \in ShutdownCalls : shutdown[s] = "nil" => shutdownDone
  /\ shutdownDone => \E k \in Stops : stop[k] = "signalled"
  /\ \A k \in Stops :
       /\ stop[k] # "no" => closed
       /\ stop[k] \notin {"no", "started"} => quit
       /\ stop[k] \in {"waiting", "joining", "done", "signalled"} => draining
       /\ stop[k] \in {"done", "signalled"} => driverDone
  /\ quit => closed
  /\ draining => quit /\ \A c \in ServeCalls : serve[c] # "accepting"
  /\ stop["graceful"] # "joining" \/ stop["forced"] # "joining"
  /\ driverDone => draining
  /\ draining => \A n \in Conns : conn[n] # "idle"
  /\ (\E k \in Stops : stop[k] = "joining") => \A n \in Conns : conn[n] # "active"
  /\ stop["graceful"] \in {"done", "signalled"} /\ stop["forced"] = "no" =>
       \A n \in Conns : conn[n] \in {"none", "closed"}

\* What a call is about to return tells how it got there.
ResultInv ==
  \A c \in ServeCalls :
    /\ serve[c] \in {"stopping", "clearing", "leaving"} => result[c] # "none"
    /\ result[c] = "ErrServerStopped" => closed /\ serve[c] \in {"clearing", "leaving"}
    /\ result[c] = "nil" => closed
    /\ serve[c] = "leaving" /\ c # runner =>
         result[c] \in {"ErrServerClosed", "ErrServerRunning", "ErrServerAlreadyServed"}

\* Whose listener is open.
ListenerInv ==
  \A c \in listening :
    /\ c \in ListenCalls => serve[c] \notin {"idle", "listening", "returned"}
    /\ c = runner => serve[c] \in {"admitted", "accepting"}

\* The inductive invariant.
ServerInv == TypeOK /\ AdmissionInv /\ StopInv /\ ResultInv /\ ListenerInv

\* Unless some Shutdown ran out of time, a Shutdown that returns nil has let every
\* RPC finish and none can start.
GracefulIsQuiet ==
  \A s \in ShutdownCalls : shutdown[s] = "nil" /\ stop["forced"] = "no" =>
    \A n \in Conns : conn[n] \in {"none", "closed"}

\* A Shutdown is never an error for Serve, wherever it catches it: Serve fails only
\* if it was rejected, or its listener failed (server.go:215).
ShutdownIsNoError ==
  \A c \in ServeCalls : serve[c] = "returned" => result[c] # "ErrServerStopped"

\* Serve returns nil only because of a Shutdown.
NilMeansShutdown == \A c \in ServeCalls : serve[c] = "returned" /\ result[c] = "nil" => closed

\* What a Serve returns tells whether it was shut down.
ServeResults == ServerInv /\ ShutdownIsNoError /\ NilMeansShutdown

\* No listener outlives the call that owns it: ListenAndServe's, on every path, and
\* the one a Serve was admitted with.
ListenersClosed ==
  \A c \in ServeCalls : serve[c] = "returned" /\ (c \in ListenCalls \/ c = runner) =>
    c \notin listening

(* Both of these are P ~> Q of a P that stays true, as []<>(P => Q). *)

\* A Shutdown whose context ends returns even if no handler does (README.md:762-765).
\* Serve ends with it, unless a stop waits for a handler with the driver's mutex: a Stop
\* told to wait, or a GracefulStop that took the mutex before Stop could.
HandlersKeepDriver ==
  /\ \E n \in Conns : conn[n] = "cut"
  /\ stop["graceful"] = "joining" \/ (stop["forced"] = "joining" /\ waitForHandlers)
ShutdownBounded ==
  []<>(\A s \in ShutdownCalls :
         shutdown[s] # "idle" /\ s \in expired =>
           /\ shutdown[s] \in {"nil", "ctx"}
           /\ runner = NoCall \/ serve[runner] = "returned" \/ HandlersKeepDriver)

\* Any Shutdown ends Serve, and returns, if the handlers do.
HandlersReturn == \A n \in Conns : WF_vars(HandlerReturns(n))
ShutdownEndsServe ==
  HandlersReturn =>
    []<>(\A s \in ShutdownCalls :
           shutdown[s] # "idle" =>
             /\ shutdown[s] \in {"nil", "ctx"}
             /\ runner # NoCall => serve[runner] = "returned")

\* What the comments say (server.go:221, interface.go:28-29): Shutdown waits for the
\* active RPCs until its own context ends.
NilWaitedForHandlers ==
  [][\A s \in ShutdownCalls : shutdown[s] # "nil" /\ shutdown'[s] = "nil" =>
       \A n \in Conns : conn[n] \notin {"active", "cut"}]_vars

----------------------------------------------------------------------------
(* The contract it shares with RabbitServer: the server runs while its accept loop *)
(* does or can still start, and its resource is the driver.                        *)
Phase ==
  IF runner = NoCall THEN "fresh"
  ELSE IF serve[runner] = "accepting" \/ (serve[runner] = "admitted" /\ ~quit) THEN "running"
  ELSE "stopped"

\* A Serve that is not admitted is idle until it returns.
Served ==
  [c \in ServeCalls |->
     IF serve[c] = "returned" THEN "returned"
     ELSE IF c = runner THEN "admitted" ELSE "idle"]

Requested ==
  [s \in ShutdownCalls |->
     IF shutdown[s] = "idle" THEN "idle"
     ELSE IF shutdown[s] = "nil" THEN "succeeded"
     ELSE IF shutdown[s] = "ctx" THEN "failed" ELSE "requested"]

Contract == INSTANCE SingleUseServer WITH
  phase <- Phase, released <- driverDone, serve <- Served, shutdown <- Requested

\* GrpcServer implements the contract.
ImplementsContract == Contract!Spec
=============================================================================

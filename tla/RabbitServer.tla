---------------------------- MODULE RabbitServer ----------------------------
(***************************************************************************)
(* The life of one rabbitmq.Server (src/rabbitmq/server.go), from the      *)
(* connection NewServer has opened to the end of Serve and Shutdown.       *)
(*                                                                         *)
(* Processes: the goroutines calling Serve (ServeCalls) and Shutdown       *)
(* (ShutdownCalls), the workers Serve starts (Workers), the goroutine that *)
(* closes the driver's connection, and the environment: registrations,     *)
(* contexts that end, the broker and the user's handlers.                  *)
(*                                                                         *)
(* Sections under stateMutex are one step.  closed is atomic and is        *)
(* written outside the mutex, by a step of its own; a Store that falls     *)
(* inside a section that has already done its Load commutes to the end of  *)
(* that section, so the section is still one step.                         *)
(***************************************************************************)
EXTENDS Naturals, FiniteSets

CONSTANTS
  ServeCalls,     \* goroutines that call Serve, once each
  ShutdownCalls,  \* goroutines that call Shutdown, once each
  Consumers,      \* configurations given to RegisterConsumer
  Workers,        \* the workers of every consumer
  Owner,          \* Owner[w]: the consumer worker w belongs to
  Queue,          \* Queue[k]: the queue of consumer k
  Exclusive,      \* consumers registered WithExclusive
  AutoAck,        \* consumers registered WithAutoAck
  NoCall          \* not a call: no Serve has been admitted yet

Calls == ServeCalls \cup ShutdownCalls

\* newConsumer rejects an exclusive consumer with more than one worker.
ASSUME ConfigurationAssumption ==
  /\ ServeCalls \cap ShutdownCalls = {}
  /\ NoCall \notin Calls
  /\ IsFiniteSet(Workers)
  /\ Owner \in [Workers -> Consumers]
  /\ DOMAIN Queue = Consumers
  /\ Exclusive \subseteq Consumers
  /\ AutoAck \subseteq Consumers
  /\ \A v, w \in Workers : Owner[v] = Owner[w] /\ Owner[v] \in Exclusive => v = w

VARIABLES
  \* fields of Server
  closed, running, served,
  consumers,         \* registered configurations
  consumerChannels,  \* workers whose channel closeConsumerChannels will close
  done,              \* the channel done is closed
  closing,           \* closeOnce and closeDone: "no", "bounded" or "unbounded"
                     \* (by a deadline) while the driver closes, then "done"
  closeErr,
  \* the admitted Serve: which call, its snapshot, context and worker errors
  runner, snapshot, cancelled, pending,
  starting,          \* worker whose channel is open and that is not started yet
  \* goroutines
  ctx,               \* context of each call: "open", "timed" (has a deadline), "ended"
  serve, shutdown,   \* where each call is
  sawIdle,           \* what a Shutdown read: running was false
  result,            \* errors joined in what a call returns; {} is nil
  work,              \* where each worker is
  \* events reported to the event handler
  consumerStarted, consumerStopped, serverEvents,
  \* broker and driver (external)
  connected,
  openChannels,      \* workers whose AMQP channel is open
  delivering         \* workers whose deliveries channel is open

serverVars == <<closed, running, served, consumers, consumerChannels, done>>
closeVars  == <<closing, closeErr>>
runVars    == <<runner, snapshot, cancelled, pending, starting>>
callVars   == <<ctx, serve, shutdown, sawIdle, result>>
eventVars  == <<consumerStarted, consumerStopped, serverEvents>>
brokerVars == <<connected, openChannels, delivering>>
vars == <<serverVars, closeVars, runVars, callVars, work, eventVars, brokerVars>>

----------------------------------------------------------------------------
\* What a returned error is, as far as errors.Is can tell: a rejection, the
\* context's error bare or wrapped, a failure of the infrastructure, an error
\* closing the driver, or Serve's own five seconds running out.
Errors == {"ErrServerClosed", "ErrServerRunning", "ErrServerAlreadyServed",
           "ErrNoConsumers", "context", "wrapped",
           "infrastructure", "close", "timeout"}

\* Positions of the admitted Serve: while running is true, and after.
RunningAt == {"topology", "opening", "consuming", "ready", "serving", "cleanup",
              "joining", "close", "closing", "settling"}
SettledAt == {"reporting", "signalling", "returned"}
ServePlaces == {"idle", "entering"} \cup RunningAt \cup SettledAt
ShutdownPlaces == {"idle", "marked", "waiting", "close", "closing", "signalling", "returned"}
WorkPlaces == {"unborn", "spawned", "receiving", "handling", "failing", "leaving",
               "stopped", "done"}

\* serveContext.Err() # nil.
Cancelled == cancelled \/ (runner # NoCall /\ ctx[runner] = "ended")

Ended(c) == ctx[c] = "ended"
WorkersFinished == \A w \in Workers : work[w] \in {"unborn", "done"}
WorkersOf(K) == {w \in Workers : Owner[w] \in K}

\* Bug: closeConnection without its once.
BugCloseAgain(limit) == closing' = limit

\* closeConnection's once: only the first caller's deadline counts.
StartClose(limit) == closing' = IF closing = "no" THEN limit ELSE closing

\* Bug: the exclusive flag of only one of the two is compared.
BugCompatible(K, k) == \A j \in K : Queue[j] = Queue[k] => j \notin Exclusive

\* validateConsumerCompatibility
Compatible(K, k) ==
  \A j \in K : Queue[j] = Queue[k] => j \notin Exclusive /\ k \notin Exclusive

Init ==
  /\ closed = FALSE /\ running = FALSE /\ served = FALSE
  /\ consumers = {} /\ consumerChannels = {} /\ done = FALSE
  /\ closing = "no" /\ closeErr = FALSE
  /\ runner = NoCall /\ snapshot = {} /\ cancelled = FALSE /\ pending = 0
  /\ starting = {}
  /\ ctx \in {f \in [Calls -> {"open", "timed"}] : \A c \in ServeCalls : f[c] = "open"}
  /\ serve = [c \in ServeCalls |-> "idle"]
  /\ shutdown = [s \in ShutdownCalls |-> "idle"]
  /\ sawIdle = [s \in ShutdownCalls |-> FALSE]
  /\ result = [c \in Calls |-> {}]
  /\ work = [w \in Workers |-> "unborn"]
  /\ consumerStarted = {} /\ consumerStopped = {} /\ serverEvents = {}
  /\ connected = TRUE /\ openChannels = {} /\ delivering = {}

----------------------------------------------------------------------------
\* Bug: registration looks only at closed and running, not at served.
BugRegister(k) ==
  /\ k \notin consumers
  /\ ~closed /\ ~running
  /\ Compatible(consumers, k)
  /\ consumers' = consumers \cup {k}
  /\ UNCHANGED <<closed, running, served, consumerChannels, done, closeVars,
                 runVars, callVars, work, eventVars, brokerVars>>

(* RegisterConsumer: a rejected call changes nothing. *)
Register(k) ==
  /\ k \notin consumers
  /\ ~closed /\ ~running /\ ~served
  /\ Compatible(consumers, k)
  /\ consumers' = consumers \cup {k}
  /\ UNCHANGED <<closed, running, served, consumerChannels, done, closeVars,
                 runVars, callVars, work, eventVars, brokerVars>>

----------------------------------------------------------------------------
(* Serve *)
Goto(c, place) == serve' = [serve EXCEPT ![c] = place]
Return(c, errors) == result' = [result EXCEPT ![c] = errors]

\* ctx.Err() before the lock.
ServeEnter(c) ==
  /\ serve[c] = "idle"
  /\ IF Ended(c) THEN Goto(c, "returned") /\ Return(c, {"context"})
                 ELSE Goto(c, "entering") /\ UNCHANGED result
  /\ UNCHANGED <<serverVars, closeVars, runVars, ctx, shutdown, sawIdle, work,
                 eventVars, brokerVars>>

Rejection ==
  IF closed THEN "ErrServerClosed"
  ELSE IF running THEN "ErrServerRunning"
  ELSE IF served THEN "ErrServerAlreadyServed"
  ELSE "ErrNoConsumers"

ServeReject(c) ==
  /\ serve[c] = "entering"
  /\ closed \/ running \/ served \/ consumers = {}
  /\ Goto(c, "returned") /\ Return(c, {Rejection})
  /\ UNCHANGED <<serverVars, closeVars, runVars, ctx, shutdown, sawIdle, work,
                 eventVars, brokerVars>>

\* Bug: closed is not read again under the lock.
BugAdmit(c) ==
  /\ serve[c] = "entering"
  /\ ~running /\ ~served /\ consumers # {}
  /\ running' = TRUE /\ served' = TRUE
  /\ runner' = c /\ snapshot' = consumers
  /\ Goto(c, "topology")
  /\ UNCHANGED <<closed, consumers, consumerChannels, done, closeVars, cancelled,
                 pending, starting, ctx, shutdown, sawIdle, result, work, eventVars,
                 brokerVars>>

\* serveCancel is non-nil exactly while running, so running stands for both.
ServeAdmit(c) ==
  /\ serve[c] = "entering"
  /\ ~closed /\ ~running /\ ~served /\ consumers # {}
  /\ running' = TRUE /\ served' = TRUE
  /\ runner' = c /\ snapshot' = consumers
  /\ Goto(c, "topology")
  /\ UNCHANGED <<closed, consumers, consumerChannels, done, closeVars, cancelled,
                 pending, starting, ctx, shutdown, sawIdle, result, work, eventVars,
                 brokerVars>>

\* Every error path of the body leads to the deferred cleanup.
Abort(c, errors) == Goto(c, "cleanup") /\ Return(c, errors)

\* configureTopology closes its own channel on every path.
ConfigureTopology(c) ==
  /\ serve[c] = "topology"
  /\ \/ Goto(c, "opening") /\ UNCHANGED result
     \/ Abort(c, {"infrastructure"})
  /\ UNCHANGED <<serverVars, closeVars, runVars, ctx, shutdown, sawIdle, work,
                 eventVars, brokerVars>>

Unstarted == {w \in WorkersOf(snapshot) : work[w] = "unborn"}

\* Bug: the channel of a worker is not remembered.
BugAddChannel(w) == UNCHANGED consumerChannels

\* addConsumerChannel
AddChannel(w) == consumerChannels' = consumerChannels \cup {w}

\* startConsumers, per worker: newConsumerChannel and addConsumerChannel.
OpenChannel(c) ==
  /\ serve[c] = "opening"
  /\ \E w \in Unstarted :
       \/ /\ connected
          /\ starting' = {w}
          /\ openChannels' = openChannels \cup {w}
          /\ AddChannel(w)
          /\ Goto(c, "consuming")
          /\ UNCHANGED result
       \/ /\ Abort(c, {"infrastructure"})
          /\ UNCHANGED <<starting, openChannels, consumerChannels>>
  /\ UNCHANGED <<closed, running, served, consumers, done, closeVars, runner, snapshot,
                 cancelled, pending, ctx, shutdown, sawIdle, work, eventVars,
                 connected, delivering>>

\* Qos and ConsumeWithContext, which refuses a context that has ended.
StartConsumer(c) ==
  /\ serve[c] = "consuming"
  /\ \E w \in starting :
       \/ /\ connected /\ ~Cancelled
          /\ work' = [work EXCEPT ![w] = "spawned"]
          /\ delivering' = delivering \cup {w}
          /\ Goto(c, "ready")
          /\ UNCHANGED result
       \/ /\ Abort(c, {"infrastructure"})
          /\ UNCHANGED <<work, delivering>>
       \/ /\ Cancelled
          /\ Abort(c, {"wrapped"})
          /\ UNCHANGED <<work, delivering>>
  /\ UNCHANGED <<serverVars, closeVars, runVars, ctx, shutdown, sawIdle, eventVars,
                 connected, openChannels>>

\* <-ready
WorkerReady(c) ==
  /\ serve[c] = "ready"
  /\ \A w \in starting : work[w] # "spawned"
  /\ starting' = {}
  /\ Goto(c, "opening")
  /\ UNCHANGED <<serverVars, closeVars, runner, snapshot, cancelled, pending, ctx,
                 shutdown, sawIdle, result, work, eventVars, brokerVars>>

\* Every worker runs: EventServerStarted, then the select.
ServerStarted(c) ==
  /\ serve[c] = "opening" /\ Unstarted = {}
  /\ serverEvents' = serverEvents \cup {"ServerStarted"}
  /\ Goto(c, "serving")
  /\ UNCHANGED <<serverVars, closeVars, runVars, ctx, shutdown, sawIdle, result, work,
                 consumerStarted, consumerStopped, brokerVars>>

ServeContextDone(c) ==
  /\ serve[c] = "serving" /\ Cancelled
  /\ Abort(c, IF Ended(c) THEN {"context"} ELSE {})
  /\ UNCHANGED <<serverVars, closeVars, runVars, ctx, shutdown, sawIdle, work,
                 eventVars, brokerVars>>

\* A failed Nack makes processDelivery join its error with what the handler returned
\* (478-486), which may be an error of a context.  Which of the workers that ended sent
\* the error is not kept, only that automatic acknowledgement makes no Nack.
MayHaveNacked == \E w \in WorkersOf(snapshot) :
                   Owner[w] \notin AutoAck /\ work[w] \in {"leaving", "stopped", "done"}

ServeWorkerError(c) ==
  /\ serve[c] = "serving" /\ pending > 0
  /\ pending' = pending - 1
  /\ cancelled' = TRUE
  /\ \/ Abort(c, {"infrastructure"})
     \/ MayHaveNacked /\ Abort(c, {"infrastructure", "wrapped"})
  /\ UNCHANGED <<serverVars, closeVars, runner, snapshot, starting, ctx, shutdown,
                 sawIdle, work, eventVars, brokerVars>>

ServeConnectionClosed(c) ==
  /\ serve[c] = "serving" /\ ~connected
  /\ cancelled' = TRUE
  /\ Abort(c, IF closed THEN {} ELSE {"infrastructure"})
  /\ UNCHANGED <<serverVars, closeVars, runner, snapshot, pending, starting, ctx,
                 shutdown, sawIdle, work, eventVars, brokerVars>>

\* The deferred function, in its order: cancel,
CleanupCancel(c) ==
  /\ serve[c] = "cleanup"
  /\ cancelled' = TRUE
  /\ Goto(c, "joining")
  /\ UNCHANGED <<serverVars, closeVars, runner, snapshot, pending, starting, ctx,
                 shutdown, sawIdle, result, work, eventVars, brokerVars>>

\* Bug: no workers.Wait.
BugJoin(c) ==
  /\ serve[c] = "joining"
  /\ consumerChannels' = {}
  /\ openChannels' = openChannels \ consumerChannels
  /\ delivering' = delivering \ consumerChannels
  /\ Goto(c, "close")
  /\ UNCHANGED <<closed, running, served, consumers, done, closeVars, runVars, ctx,
                 shutdown, sawIdle, result, work, eventVars, connected>>

\* workers.Wait and closeConsumerChannels,
CleanupJoin(c) ==
  /\ serve[c] = "joining" /\ WorkersFinished
  /\ consumerChannels' = {}
  /\ openChannels' = openChannels \ consumerChannels
  /\ delivering' = delivering \ consumerChannels
  /\ Goto(c, "close")
  /\ UNCHANGED <<closed, running, served, consumers, done, closeVars, runVars, ctx,
                 shutdown, sawIdle, result, work, eventVars, connected>>

\* closeConnection with a context of five seconds (a later step waits for it),
CleanupClose(c) ==
  /\ serve[c] = "close"
  /\ StartClose("bounded")
  /\ Goto(c, "closing")
  /\ UNCHANGED <<serverVars, closeErr, runVars, ctx, shutdown, sawIdle, result, work,
                 eventVars, brokerVars>>

\* The five seconds run out only while the connection is up: closeDriver returns at once
\* when it is closed (119-122), and the driver's own Close when it goes down.
CleanupClosed(c) ==
  /\ serve[c] = "closing"
  /\ \/ closing = "done" /\ Return(c, result[c] \cup IF closeErr THEN {"close"} ELSE {})
     \/ connected /\ Return(c, result[c] \cup {"timeout"})
  /\ Goto(c, "settling")
  /\ UNCHANGED <<serverVars, closeVars, runVars, ctx, shutdown, sawIdle, work,
                 eventVars, brokerVars>>

\* running and serveCancel cleared under the lock,
CleanupSettle(c) ==
  /\ serve[c] = "settling"
  /\ running' = FALSE
  /\ Goto(c, "reporting")
  /\ UNCHANGED <<closed, served, consumers, consumerChannels, done, closeVars, runVars,
                 ctx, shutdown, sawIdle, result, work, eventVars, brokerVars>>

\* the final events (errors.Is sees through wraps and joins),
IsContextError(errors) == errors \cap {"context", "wrapped", "timeout"} # {}

CleanupReport(c) ==
  /\ serve[c] = "reporting"
  /\ serverEvents' = serverEvents \cup {"ServerStopped"} \cup
       IF result[c] # {} /\ ~IsContextError(result[c])
       THEN {"InfrastructureError"} ELSE {}
  /\ Goto(c, "signalling")
  /\ UNCHANGED <<serverVars, closeVars, runVars, ctx, shutdown, sawIdle, result, work,
                 consumerStarted, consumerStopped, brokerVars>>

\* Bug: Serve returns without signalDone.
BugSignal(c) ==
  /\ serve[c] = "signalling"
  /\ Goto(c, "returned")
  /\ UNCHANGED <<serverVars, closeVars, runVars, ctx, shutdown, sawIdle, result, work,
                 eventVars, brokerVars>>

\* and signalDone.
CleanupSignal(c) ==
  /\ serve[c] = "signalling"
  /\ done' = TRUE
  /\ Goto(c, "returned")
  /\ UNCHANGED <<closed, running, served, consumers, consumerChannels, closeVars,
                 runVars, ctx, shutdown, sawIdle, result, work, eventVars, brokerVars>>

ServeStep(c) ==
  \/ ServeReject(c) \/ ServeAdmit(c) \/ ConfigureTopology(c)
  \/ OpenChannel(c) \/ StartConsumer(c) \/ WorkerReady(c) \/ ServerStarted(c)
  \/ ServeContextDone(c) \/ ServeWorkerError(c) \/ ServeConnectionClosed(c)
  \/ CleanupCancel(c) \/ CleanupJoin(c) \/ CleanupClose(c) \/ CleanupClosed(c)
  \/ CleanupSettle(c) \/ CleanupReport(c) \/ CleanupSignal(c)

----------------------------------------------------------------------------
(* consume: the goroutine of one worker *)
Become(w, place) == work' = [work EXCEPT ![w] = place]
WorkerOnly == UNCHANGED <<serverVars, closeVars, runner, snapshot, cancelled, starting,
                          callVars, brokerVars, serverEvents>>

\* EventConsumerStarted and close(ready).
WorkerStart(w) ==
  /\ work[w] = "spawned"
  /\ consumerStarted' = consumerStarted \cup {w}
  /\ Become(w, "receiving")
  /\ WorkerOnly /\ UNCHANGED <<pending, consumerStopped>>

Receive(w) ==
  /\ work[w] = "receiving" /\ w \in delivering
  /\ Become(w, "handling")
  /\ WorkerOnly /\ UNCHANGED <<pending, consumerStarted, consumerStopped>>

\* callHandler, then Ack or Nack; only a failed Ack or Nack ends the worker, and
\* a consumer with automatic acknowledgement makes none.
HandlerReturns(w) ==
  /\ work[w] = "handling"
  /\ \/ Become(w, "receiving")
     \/ Owner[w] \notin AutoAck /\ Become(w, "failing")
  /\ WorkerOnly /\ UNCHANGED <<pending, consumerStarted, consumerStopped>>

\* The range over deliveries ends.
DeliveriesClosed(w) ==
  /\ work[w] = "receiving" /\ w \notin delivering
  /\ Become(w, IF ~Cancelled /\ ~closed THEN "failing" ELSE "leaving")
  /\ WorkerOnly /\ UNCHANGED <<pending, consumerStarted, consumerStopped>>

\* workerErrors has room for one error of each worker (countWorkers).
Capacity == Cardinality(WorkersOf(snapshot))

\* Bug: a failed worker leaves without its deferred calls' event.
BugSendError(w) ==
  /\ work[w] = "failing" /\ pending < Capacity
  /\ pending' = pending + 1
  /\ Become(w, "stopped")
  /\ WorkerOnly /\ UNCHANGED <<consumerStarted, consumerStopped>>

SendError(w) ==
  /\ work[w] = "failing" /\ pending < Capacity
  /\ pending' = pending + 1
  /\ Become(w, "leaving")
  /\ WorkerOnly /\ UNCHANGED <<consumerStarted, consumerStopped>>

\* The deferred calls run last in, first out: EventConsumerStopped, then Done.
WorkerStop(w) ==
  /\ work[w] = "leaving"
  /\ consumerStopped' = consumerStopped \cup {w}
  /\ Become(w, "stopped")
  /\ WorkerOnly /\ UNCHANGED <<pending, consumerStarted>>

WorkerDone(w) ==
  /\ work[w] = "stopped"
  /\ Become(w, "done")
  /\ WorkerOnly /\ UNCHANGED <<pending, consumerStarted, consumerStopped>>

WorkerStep(w) ==
  \/ WorkerStart(w) \/ DeliveriesClosed(w) \/ SendError(w)
  \/ WorkerStop(w) \/ WorkerDone(w)

----------------------------------------------------------------------------
(* Shutdown *)
GoShutdown(s, place) == shutdown' = [shutdown EXCEPT ![s] = place]

ShutdownMark(s) ==
  /\ shutdown[s] = "idle"
  /\ closed' = TRUE
  /\ GoShutdown(s, "marked")
  /\ UNCHANGED <<running, served, consumers, consumerChannels, done, closeVars, runVars,
                 ctx, serve, sawIdle, result, work, eventVars, brokerVars>>

\* Reads running and serveCancel under the lock and cancels the run.  The cancel
\* is the same whether it comes at once or later, so it is in this step.
ShutdownCancel(s) ==
  /\ shutdown[s] = "marked"
  /\ sawIdle' = [sawIdle EXCEPT ![s] = ~running]
  /\ cancelled' = (cancelled \/ running)
  /\ GoShutdown(s, IF running THEN "waiting" ELSE "close")
  /\ UNCHANGED <<serverVars, closeVars, runner, snapshot, pending, starting, ctx, serve,
                 result, work, eventVars, brokerVars>>

\* Bug: the wait for done does not look at the context.
BugWait(s) ==
  /\ shutdown[s] = "waiting" /\ done
  /\ GoShutdown(s, "close")
  /\ UNCHANGED <<serverVars, closeVars, runVars, ctx, serve, sawIdle, result, work,
                 eventVars, brokerVars>>

ShutdownWait(s) ==
  /\ shutdown[s] = "waiting"
  /\ \/ done /\ UNCHANGED result
     \/ Ended(s) /\ Return(s, {"context"})
  /\ GoShutdown(s, "close")
  /\ UNCHANGED <<serverVars, closeVars, runVars, ctx, serve, sawIdle, work, eventVars,
                 brokerVars>>

\* connectionCloseDeadline: no limit only for a live context without a deadline.
ShutdownClose(s) ==
  /\ shutdown[s] = "close"
  /\ StartClose(IF ctx[s] = "open" THEN "unbounded" ELSE "bounded")
  /\ GoShutdown(s, "closing")
  /\ UNCHANGED <<serverVars, closeErr, runVars, ctx, serve, sawIdle, result, work,
                 eventVars, brokerVars>>

ShutdownClosed(s) ==
  /\ shutdown[s] = "closing"
  /\ \/ closing = "done" /\ Return(s, result[s] \cup IF closeErr THEN {"close"} ELSE {})
     \/ Ended(s) /\ Return(s, result[s] \cup {"context"})
  /\ GoShutdown(s, IF sawIdle[s] THEN "signalling" ELSE "returned")
  /\ UNCHANGED <<serverVars, closeVars, runVars, ctx, serve, sawIdle, work, eventVars,
                 brokerVars>>

ShutdownSignal(s) ==
  /\ shutdown[s] = "signalling"
  /\ done' = TRUE
  /\ GoShutdown(s, "returned")
  /\ UNCHANGED <<closed, running, served, consumers, consumerChannels, closeVars,
                 runVars, ctx, serve, sawIdle, result, work, eventVars, brokerVars>>

ShutdownStep(s) ==
  \/ ShutdownCancel(s) \/ ShutdownWait(s) \/ ShutdownClose(s)
  \/ ShutdownClosed(s) \/ ShutdownSignal(s)

----------------------------------------------------------------------------
(* The closing goroutine, the broker and the contexts *)

\* The driver's shutdown of a connection closes its channels too.
Disconnect == connected' = FALSE /\ openChannels' = {}

\* Closing takes the connection down whatever it returns; a connection already
\* closed is not an error.
DriverCloses ==
  /\ closing \in {"bounded", "unbounded"}
  /\ closing' = "done"
  /\ closeErr' \in IF connected THEN BOOLEAN ELSE {FALSE}
  /\ Disconnect
  /\ UNCHANGED <<serverVars, runVars, callVars, work, eventVars, delivering>>

ConnectionLost ==
  /\ connected
  /\ Disconnect
  /\ UNCHANGED <<serverVars, closeVars, runVars, callVars, work, eventVars, delivering>>

\* The broker cancels a consumer, or the driver does for an ended context or a
\* lost connection.
DeliveriesEnd(w) ==
  /\ w \in delivering
  /\ delivering' = delivering \ {w}
  /\ UNCHANGED <<serverVars, closeVars, runVars, callVars, work, eventVars, connected,
                 openChannels>>

ContextEnds(c) ==
  /\ ~Ended(c)
  /\ ctx' = [ctx EXCEPT ![c] = "ended"]
  /\ UNCHANGED <<serverVars, closeVars, runVars, serve, shutdown, sawIdle, result, work,
                 eventVars, brokerVars>>

\* Every call has returned and nothing is left to run.
Finished ==
  /\ \A c \in ServeCalls : serve[c] = "returned"
  /\ \A s \in ShutdownCalls : shutdown[s] = "returned"
  /\ UNCHANGED vars

Next ==
  \/ \E k \in Consumers : Register(k)
  \/ \E c \in ServeCalls : ServeEnter(c) \/ ServeStep(c)
  \/ \E w \in Workers : WorkerStep(w) \/ Receive(w) \/ HandlerReturns(w) \/ DeliveriesEnd(w)
  \/ \E s \in ShutdownCalls : ShutdownMark(s) \/ ShutdownStep(s)
  \/ DriverCloses
  \/ ConnectionLost
  \/ \E c \in Calls : ContextEnds(c)
  \/ Finished

Spec == Init /\ [][Next]_vars

\* The scheduler runs every goroutine that can run; a close with a deadline or of a lost
\* connection and a context with a deadline end; the driver ends the deliveries of an
\* ended context or of a lost connection.  Nothing is assumed of handlers.
FairSpec ==
  /\ Spec
  /\ \A c \in ServeCalls : WF_vars(ServeStep(c))
  /\ \A w \in Workers : /\ WF_vars(WorkerStep(w))
                        /\ WF_vars((Cancelled \/ ~connected) /\ DeliveriesEnd(w))
  /\ \A s \in ShutdownCalls : /\ WF_vars(ShutdownStep(s))
                              /\ WF_vars(ctx[s] = "timed" /\ ContextEnds(s))
  /\ WF_vars((closing = "bounded" \/ ~connected) /\ DriverCloses)

----------------------------------------------------------------------------
TypeOK ==
  /\ closed \in BOOLEAN /\ running \in BOOLEAN /\ served \in BOOLEAN
  /\ done \in BOOLEAN /\ closeErr \in BOOLEAN /\ cancelled \in BOOLEAN
  /\ connected \in BOOLEAN
  /\ consumers \in SUBSET Consumers /\ snapshot \in SUBSET Consumers
  /\ closing \in {"no", "bounded", "unbounded", "done"}
  /\ runner \in ServeCalls \cup {NoCall}
  /\ pending \in Nat
  /\ ctx \in [Calls -> {"open", "timed", "ended"}]
  /\ serve \in [ServeCalls -> ServePlaces]
  /\ shutdown \in [ShutdownCalls -> ShutdownPlaces]
  /\ sawIdle \in [ShutdownCalls -> BOOLEAN]
  /\ result \in [Calls -> SUBSET Errors]
  /\ work \in [Workers -> WorkPlaces]
  /\ starting \subseteq Workers /\ consumerChannels \subseteq Workers
  /\ consumerStarted \subseteq Workers /\ consumerStopped \subseteq Workers
  /\ openChannels \subseteq Workers /\ delivering \subseteq Workers
  /\ serverEvents \subseteq {"ServerStarted", "ServerStopped", "InfrastructureError"}

\* When Shutdown returns nil, Serve's run is over, no handler is active or will
\* be, and the connection is closed (interface.go:24-25).
ShutdownQuiesces ==
  \A s \in ShutdownCalls : shutdown[s] = "returned" /\ result[s] = {} =>
    closed /\ ~running /\ WorkersFinished /\ closing = "done"

\* Whatever the race between Serve's start and Shutdown, once Shutdown has been
\* through its critical section no run goes on with a live context.
ShutdownCancelsRun ==
  \A s \in ShutdownCalls : shutdown[s] \notin {"idle", "marked"} /\ running => Cancelled

\* Serve returns nil only because Shutdown was called; a lost connection, a failed
\* worker or a context of the caller that ended is always an error.
NilMeansShutdown ==
  \A c \in ServeCalls : serve[c] = "returned" /\ result[c] = {} => closed

(* What the three invariants above rest on. *)

\* The server's flags and the place of the one admitted call tell the same story.
RunInv ==
  /\ served <=> runner # NoCall
  /\ \A c \in ServeCalls : serve[c] \in RunningAt \cup {"reporting", "signalling"} => c = runner
  /\ runner # NoCall => serve[runner] \in RunningAt \cup SettledAt
  /\ running <=> runner # NoCall /\ serve[runner] \in RunningAt

\* There is no worker before a run, nor after the run's cleanup has joined them.
JoinedAt == {"close", "closing", "settling"} \cup SettledAt
QuietInv == runner = NoCall \/ serve[runner] \in JoinedAt => WorkersFinished

\* Nobody signals the end, or starts to close, of a server that can still start.
EndInv ==
  /\ done => ~running
  /\ done \/ closing # "no" => served \/ closed

\* Where a Shutdown is tells what it has made sure of.
ShutdownInv ==
  \A s \in ShutdownCalls :
    /\ shutdown[s] # "idle" => closed
    /\ shutdown[s] \notin {"idle", "marked"} => (running => cancelled)
    /\ shutdown[s] = "waiting" => ~sawIdle[s]
    /\ shutdown[s] \in {"close", "closing", "signalling", "returned"} =>
         \/ sawIdle[s] /\ ~running
         \/ ~sawIdle[s] /\ shutdown[s] # "signalling" /\ (done \/ result[s] # {})
    /\ shutdown[s] \in {"signalling", "returned"} /\ result[s] = {} => closing = "done"

\* A run cancelled before its own cleanup was cancelled by a Shutdown, and a
\* result on its way out is nil only after one.
NilInv ==
  /\ cancelled => runner # NoCall
  /\ cancelled /\ serve[runner] \in {"topology", "opening", "consuming", "ready", "serving"}
       => closed
  /\ \A c \in ServeCalls :
       serve[c] \in {"cleanup", "joining", "close", "closing", "settling",
                     "reporting", "signalling", "returned"} /\ result[c] = {} => closed

SafetyInv == RunInv /\ QuietInv /\ EndInv /\ ShutdownInv /\ NilInv

\* EventServerStarted means that every worker of every registered consumer has
\* started (README.md:672).
StartedIsComplete ==
  "ServerStarted" \in serverEvents => WorkersOf(consumers) \subseteq consumerStarted

\* EventServerStopped is the last event: no worker has yet to report
\* EventConsumerStopped or will start.
StoppedIsLast ==
  "ServerStopped" \in serverEvents =>
    consumerStopped = consumerStarted /\ WorkersFinished

\* A Shutdown that waited for the run and returns nil returns after that event, unless
\* another found the server idle and signalled the end (server.go:309-315,627).
StoppedIsAwaited ==
  \A s \in ShutdownCalls :
    shutdown[s] = "returned" /\ result[s] = {} /\ (\A t \in ShutdownCalls : ~sawIdle[t])
    => "ServerStopped" \in serverEvents

(* What the order of the events, and what follows, rest on. *)

\* Every open channel is remembered until the cleanup has closed it.
ChannelInv ==
  /\ openChannels \subseteq consumerChannels
  /\ runner = NoCall \/ serve[runner] \in JoinedAt => consumerChannels = {}

\* A worker is of a consumer of the run, and its events follow its place.
WorkInv ==
  /\ runner # NoCall => consumers = snapshot
  /\ \A w \in starting : runner # NoCall /\ Owner[w] \in snapshot
  /\ runner # NoCall /\ serve[runner] = "consuming" => \A w \in starting : work[w] = "unborn"
  /\ \A w \in Workers :
       /\ work[w] # "unborn" => runner # NoCall /\ Owner[w] \in snapshot
       /\ work[w] = "spawned" => w \in starting /\ serve[runner] = "ready"
       /\ work[w] \in {"unborn", "spawned"} => w \notin consumerStarted
       /\ work[w] \notin {"unborn", "spawned"} => w \in consumerStarted
       /\ work[w] \in {"stopped", "done"} => w \in consumerStopped
       /\ work[w] \notin {"stopped", "done"} => w \notin consumerStopped

\* The server's events follow the place of the run, and done the last of them, unless
\* a Shutdown found the server idle.
EventInv ==
  /\ serverEvents # {} => runner # NoCall
  /\ "ServerStopped" \in serverEvents => serve[runner] \in {"signalling", "returned"}
  /\ runner # NoCall /\ serve[runner] \in {"signalling", "returned"} =>
       "ServerStopped" \in serverEvents
  /\ \A s \in ShutdownCalls : shutdown[s] \in {"idle", "marked"} => ~sawIdle[s]
  /\ done => "ServerStopped" \in serverEvents \/ \E s \in ShutdownCalls : sawIdle[s]

\* No two consumers share a queue that one of them uses alone.
QueueInv == \A j, k \in consumers : j # k /\ Queue[j] = Queue[k] => j \notin Exclusive

OrderInv == ChannelInv /\ WorkInv /\ EventInv /\ QueueInv /\ StartedIsComplete

\* The state of the server is well typed and consistent.
ServerInv == TypeOK /\ SafetyInv /\ OrderInv

\* The events of concurrent workers and of Serve keep these orders.
EventsInOrder == StartedIsComplete /\ StoppedIsLast /\ StoppedIsAwaited

\* Serve leaves no AMQP channel open, even when the startup failed half way and
\* the connection is still closing.
ChannelsReleased ==
  \A c \in ServeCalls : c = runner /\ serve[c] \in SettledAt => openChannels = {}

\* No two active workers share the queue of an exclusive consumer.
ExclusiveAlone ==
  \A v, w \in Workers :
    /\ v # w /\ Queue[Owner[v]] = Queue[Owner[w]]
    /\ work[v] # "unborn" /\ work[w] # "unborn"
    => Owner[v] \notin Exclusive

\* One run only: the run, what it consumes and the request to stop are final
\* (server.go:33 ErrServerAlreadyServed).
SingleRun ==
  [][/\ served => served' /\ runner' = runner /\ consumers' = consumers
     /\ closed => closed' /\ (running' => running)]_vars

(* Both of these are P ~> Q of a P that stays true, as []<>(P => Q). *)

\* With handlers that return once their context has ended, a run whose context
\* ended, that lost its connection or got an error from a worker ends, and so does
\* every Shutdown that was waiting for it, deadline or not.
StopRequested(c) == c = runner /\ (Cancelled \/ ~connected \/ pending > 0)
HandlersCooperate == \A w \in Workers : WF_vars(Cancelled /\ HandlerReturns(w))
CallsReturn ==
  HandlersCooperate =>
    []<>(\A c \in ServeCalls :
           StopRequested(c) => /\ serve[c] = "returned"
                               /\ \A s \in ShutdownCalls : shutdown[s] \in {"idle", "returned"})

\* Shutdown returns by its deadline even if a handler never does.
ShutdownBounded ==
  []<>(\A s \in ShutdownCalls :
         shutdown[s] # "idle" /\ ctx[s] # "open" => shutdown[s] = "returned")

\* What README.md:674 and interface.go:20 say: a failure that is not the normal end of
\* the context, such as a startup or a worker that fails while the connection is up, is
\* reported as EventInfrastructureError.
FailuresReported ==
  \A c \in ServeCalls :
    c = runner /\ serve[c] = "returned" /\ "infrastructure" \in result[c] =>
      "InfrastructureError" \in serverEvents

----------------------------------------------------------------------------
(* What the server promises to its callers *)
Phase == IF running THEN "running" ELSE IF served THEN "stopped" ELSE "fresh"
Released == closing = "done"
Served == [c \in ServeCalls |->
             IF serve[c] \in {"idle", "entering"} THEN "idle"
             ELSE IF serve[c] = "returned" THEN "returned" ELSE "admitted"]
Outcome == [s \in ShutdownCalls |->
              IF shutdown[s] = "idle" THEN "idle"
              ELSE IF shutdown[s] # "returned" THEN "requested"
              ELSE IF result[s] = {} THEN "succeeded" ELSE "failed"]

Contract == INSTANCE SingleUseServer
              WITH phase <- Phase, released <- Released, serve <- Served, shutdown <- Outcome

\* RabbitServer implements the contract.
ImplementsContract == Contract!Spec
=============================================================================

# TLA+ models of go-acamole

go-acamole is a Go module of five small packages that wrap a driver or a file
with a life cycle: two servers (`rabbitmq`, `grpc`), a rotating logger
(`logger`) and two database clients (`postgresql`, `mongodb`). This directory
holds TLA+ modules that model that code, TLC configurations that check them on
small instances, and proofs checked by TLAPS. Line numbers refer to the files
under `src/`.

## The system

| Component | State | Operations | Hard behaviour | What makes it correct |
|---|---|---|---|---|
| `rabbitmq.Server` (`rabbitmq/server.go`) | `closed` (atomic), and under `stateMutex`: `running`, `served`, `consumers`, `consumerChannels`, the run's `cancel`, `done`; the once-only close of the connection (`closeOnce`, `closeDone`, `closeErr`) | `RegisterConsumer`, `Serve`, `Shutdown`, the workers' `consume`, the event handler | `Serve`, its workers, several `Shutdown` and registrations at once; a lost connection or a context that ends at any step; half a startup; two waits with different deadlines for one close | one run only; a `Shutdown` that succeeds finds nothing running; every wait ends that the documentation says ends; events in order |
| deliveries (`consume`, `processDelivery`) | the broker's queue and unacknowledged messages, each worker's channel, the handler in progress | receive, handle, `Ack`, `Nack`, report | redelivery, prefetch, a channel that breaks before the client notices, a `Nack` that fails, panics | no message is forgotten without a reason, each failure reported once, workers survive handlers |
| `grpc.Server` (`grpc/server.go`) | `closed`, `running`, `served`, `shutdownDone` and the once-only stops; grpc-go's quit, done, connections | `ListenAndServe`, `Serve`, `Shutdown` | `GracefulStop` and `Stop` at once, a `Serve` admitted while the driver is being stopped, a handler that outlives its connection | the same contract as above; no listener left open; a `Shutdown` returns by its deadline, and ends `Serve` when handlers return |
| daily writer (`logger/daily_writer.go`) | the open file, its date, index and size; the directory | `Write` (open, rotate, compress, clean up, append), `Close`, `MaintenanceError` | failures between any two file operations, crashes, a clock set back | nothing accepted is lost, duplicated or overwritten; limits hold or `MaintenanceError` tells |
| logger life cycle and path registry (`logger/logger.go`, `activeDailyWriters`) | registry of paths, `closed`, `closeMutex`, `closeErr`, the writer's mutex | `NewLogger`, log calls, `Close` | loggers of one path made and closed concurrently, `Close` twice, an entry in flight | one writer per path, a final and agreed `Close`, no path reserved for ever |
| `postgresql.NewClient` (`postgresql/client.go`, `config.go`, `client_options.go`) | the connection configuration, its fallbacks and TLS, the pool and its limits | options, parse, configurers, TLS, validations, pool, ping | options in any order, fallbacks pgx adds, configurers that run late, limits that only contradict each other together, a failed ping | TLS that was asked for covers every address; a pool's limits agree; no pool leaks |
| `postgresql.Client` (`postgresql/client.go`) | pool, `closed` (atomic), `closeMutex` | `Ping`, `Close`, queries on `Driver()` | `Close` waiting, under its mutex, for connections in use; a `Ping` that has read `closed` and waits for a connection | a `Close` that returns finds the pool closed; nothing succeeds on a closed pool; nobody waits for ever |
| `mongodb.NewTLS`, `NewClient` (`mongodb/tls.go`, `client.go`, options) | the key's blocks and password; URI, driver options, TLS configuration | options, reading and decrypting of the key file, validation, `connect` | order, number and kind of the blocks; several passwords; options that contradict each other, in any order | the key files the documentation lists and no others; no password left in memory; the TLS of `NewTLS` is the one in use |
| `mongodb.Client`, `Repository` (`mongodb/client.go`, `repository.go`) | driver, `closed` (atomic), `closeOnce`, `closeErr` | first `Ping` and cleanup, `Ping`, `Close`; `Find`, `FindOne`, `FindByID`, `Insert`, `InsertOne` | operations in flight while `Close` disconnects the driver; several `Close` with contexts of their own; a cursor cut between two batches | no driver leaks; every `Close` agrees; an interrupted operation says so; a `Find` is whole or an error |

The packages do not call each other. Inside each, components interact by shared
fields under a mutex, atomics and channels, and with the outside by calls of a
driver (AMQP, grpc-go, pgx) or of the file system, and by callbacks of the user
(handlers, event handlers, configurers).

## The modules

| Module | Models | Composes or refines |
|---|---|---|
| `SingleUseServer` | the promise of both servers: serves once, a shutdown is for ever, and a `Shutdown` that succeeds finds the service stopped and its resource released | abstract |
| `RabbitServer` | life cycle of `rabbitmq.Server` | implements `SingleUseServer` |
| `RabbitServerProofs` | its theorems | extends `RabbitServer` |
| `RabbitDelivery` | the messages of one queue, seen from its workers | the inside of `RabbitServer`'s "handling" |
| `RabbitDeliveryProofs` | its theorems | extends `RabbitDelivery` |
| `GrpcServer` | life cycle of `grpc.Server` over grpc-go | implements `SingleUseServer` |
| `GrpcServerProofs` | its theorems | extends `GrpcServer` |
| `DailyWriter` | rotation, compression, retention | |
| `DailyWriterProofs` | its theorems | extends `DailyWriter` |
| `LoggerLifecycle` | loggers, registry, `Close` | its write is `DailyWriter`'s `Write` |
| `LoggerLifecycleProofs` | its theorems | extends `LoggerLifecycle` |
| `SharedClient` | the promise of both database clients: nothing begins once it is closing, nothing succeeds once it is closed, and every `Close` that returns finds it closed | abstract |
| `PgNewClient` | one call of `postgresql.NewClient` | |
| `PgClient` | the client it returns, shared by goroutines, over a pool | implements `SharedClient` |
| `PgClientProofs` | the theorems of both | extends `PgClient` and `PgNewClient` |
| `MongoNewClient` | one call of `mongodb.NewTLS` and of the `NewClient` given its result | |
| `MongoNewClientProofs` | its theorems | extends `MongoNewClient` |
| `MongoClient` | the client, from `connect` on, and its `Repository` | implements `SharedClient`; goes on where `MongoNewClient` ends |
| `MongoClientProofs` | its theorems | extends `MongoClient` |
| `MC*` | the small instances | each extends its module |

`PROJECT.json` maps each definition to the lines it models. Definitions whose
name begins with `Bug` stand beside the definition they alter in the way a
plausible mistake would, and are used in no specification; each was checked to
violate the property `PROJECT.json` names with it.

### RabbitServer

* One step is one section under `stateMutex`, one channel operation, or one call
  of the driver. `closed` is atomic and written outside the mutex, so
  `ShutdownMark` (617) and `ShutdownCancel` (618-625) are two steps, with a
  `Serve` entering anywhere between.
* `serve[c]` is the place of each `Serve` call, from its first checks
  (`ServeEnter`, 261-271), through admission (`ServeAdmit`), topology, channels
  and workers started one by one, `ready`, the `select`, and then the deferred
  cleanup in its order: cancel, wait for the workers, close the channels, close
  the connection, settle the state, report the last events, signal `done`.
* `work[w]` is the place of each worker, `pending` the number of errors in
  `workerErrors`, whose capacity is the number of workers.
* `closing` is the shared close of the connection: the first caller decides
  whether it has a deadline ("bounded") or not, everyone waits for "done" with a
  context of their own. `Serve`'s own close always has one, of five seconds.
* `result` is the set of errors joined into what a call returns, kept as the
  classes that the code tells apart with `errors.Is`.
* Contexts are "open", "timed" (they have a deadline) or "ended". Any of them may
  end at any moment; only a timed one must.

### RabbitDelivery

The broker's side is external: it gives a message to any consumer that has room
in its prefetch, puts back what a broken channel had, and believes an
acknowledgement only on a channel that is up. A channel is "up", "broken" (the
client does not know yet: `Ack` returns nil and does nothing) or "closed" (`Ack`
fails). The code's side is `consume` and `processDelivery`: handle, then `Ack`, or
`Nack` and then report, or nothing but the report with automatic acknowledgement.
What each worker's consumer was asked for is a variable, chosen at the start:
`Validate` (`consumer.go`, 110-112) accepts it and the workers run with it, or refuses
it and nothing runs. Options are per worker, because two consumers of one queue may
differ in them.

### GrpcServer

The wrapper's fields and steps as above. grpc-go is external: `Serve` refuses once
quit, the accept loop ends by quit or by a failure of the listener, `GracefulStop`
lets RPCs finish, `Stop` cuts them and waits for handlers only with
`grpc.WaitForHandlers`. Each of the two stops is a goroutine, started once. Both need
grpc-go's mutex. They give it up while they wait for the connections ("waiting") and
hold it while they wait for the handlers ("joining"), so one of them may keep the other
from ending: a client that leaves, or `Stop` itself, cuts a connection whose handler
runs on, `GracefulStop` wakes up with the mutex and waits for that handler, and `Stop`
waits for the mutex. `driver.Serve` returns only when a stop that has begun is
complete, whether the accept loop ended by quit or by an error.

### DailyWriter

`Write` holds the writer's mutex from start to end, so the model runs one call at a
time, but in steps of one file operation, each of which may fail (the call then
returns an error) or be the last before a crash. `disk` maps each segment (date,
index, compressed or not) to its entries and its size; sizes are in abstract units
and `MaxSize` is `maxSizeBytes`. After a crash or a `Close` a new writer starts from
the files that are there. `dropped` records what the retention removed. A cleanup that
fails does not fail the `Write`: it sets `maintenanceErr`, which keeps its value until
a new writer; `clean` records whether the last cleanup succeeded.

### LoggerLifecycle

`Close` is modelled step by step (closed, writer closed, file closed, path released),
because another `NewLogger` watches the registry meanwhile; a write is one step, under
the writer's mutex.

### PgNewClient

One call: any sequence of options (up to `MaxOptions`), then validation, pgx's parse
(external: the list of attempts each sslmode yields, with fallbacks), the caller's
configurers (external: each replaces primary and fallbacks by any member of the constant
`Routes`, sets a limit, fails, or is nil), `applyTLSConfig`,
`validatePoolConfig`, `validateTLSRequired`, the pool and the first ping. Of a TLS
configuration only whether the server is verified, and under which name, is kept. The
theorems hold for any `Routes`, so for whatever hosts and TLS a configurer leaves in the
configuration; what its hooks do when pgx connects (`BeforeConnect`, `DialFunc`) is not
modelled, nor a nil fallback or a nil `ConnConfig` in it.
Each limit is checked alone by its option and again, with the others, by
`validatePoolConfig` after configurers may have set any of them; the durations that
share a bound are one. Its specification is `NewSpec`, of `NewInit` and `NewNext`, so
that `PgClientProofs` can extend it beside `PgClient`.

### PgClient

`Close` holds `closeMutex` from before it reads `closed` until the pool is closed, so
its places are "locking", "locked" (closed is set), "closing" (inside `driver.Close`)
and "returned". pgxpool is external: `Acquire` waits for room among `MaxConns` and then
finds the pool open or closed, and its `Close` ends once every connection is back.
`Ping` reads `closed` before it acquires; a query made on `Driver()` does not.

### MongoNewClient

`keyFile` is any sequence of up to `MaxBlocks` kinds of PEM block, read one step per
block as `prepareClientKey` does. `copies` counts copies of a password that nobody has
overwritten. The options of `NewClient` may come before, between or after those of
`NewTLS`, and `Merged` is the list `connect` hands to the driver, which (external)
takes the last configuration that is there. A "damaged" block is an encrypted key that
does not parse with the right password, or that cannot be encoded again; the match of
key and certificate succeeds or fails.

### MongoClient

A use reads `closed`, calls the driver, and reads `closed` again to label the error;
these are three steps, and the driver may be disconnected between any two. A `Find`
goes back to the driver for each batch; one that fails between two closes its cursor
before it returns ("leaving", "killing"), which takes a connection again. `closeOnce` is "unused", "running" by `closer`,
or "done": later calls wait for its end and return the same `closeErr`. The driver
(external) waits in `Disconnect` for the connections in use until the context of that
one `Close` ends, and then closes them under their users. `NewClient`'s own cleanup is
one more `Close`, `NewCall`, whose context is new and timed.

## The runs

| Run | Question | Instance |
|---|---|---|
| `RabbitShutdowns` | What do `Shutdown` calls promise when they race with each other, with `Serve` and with failures? `ServerInv`, `ShutdownQuiesces`, `ImplementsContract`; `ShutdownBounded` (whatever handlers do) and `CallsReturn` (if they return) | one `Serve`, two `Shutdown`, one worker |
| `RabbitWorkers` | Does a run start and stop whole? `EventsInOrder`, `ChannelsReleased`, `ExclusiveAlone`, `SingleRun` | two `Serve`, one `Shutdown`, three consumers of one queue (one of them exclusive and automatic), one worker each |
| `RabbitFailures` | Is every infrastructure failure reported? It is not: see Findings | one `Serve`, one `Shutdown`, one worker |
| `Delivery` | What becomes of messages? `WorkerHolds`, `ForgottenForAReason`, `NothingOwed`, `QueueDrains` | two workers under five configurations (defaults; one that discards with prefetch 2; one that discards without limit and one automatic; both discarding; one that is refused), two messages delivered up to twice |
| `GrpcShutdowns` | What do both stops promise? `ServeResults`, `GracefulIsQuiet`, `ListenersClosed`, `ImplementsContract`; `ShutdownBounded` (whatever handlers do, `Shutdown` returns by its deadline; `Serve` ends too unless a stop waits for a handler with grpc-go's mutex) and `ShutdownEndsServe` (if they return) | a `ListenAndServe`, a `Serve`, two `Shutdown`, one connection, with and without `grpc.WaitForHandlers` |
| `GrpcNilWaits` | Does a `Shutdown` that returns nil in time leave no handler? It may: see Findings | one `ListenAndServe`, two `Shutdown` |
| `Daily` | Is anything written lost, duplicated or overwritten, and do the limits hold? `WriterFields`, `NothingLost`, `SegmentsBounded`, `RetentionHolds`, `NothingOverwritten` | three entries, one of them bigger than a segment, three days, two faults, retention by number (2) and age (1), unless a cleanup failed |
| `Logger` | Is a path's writer alone, closing final, and does nothing hang? `RegistryInv`, `ClosedIsFinal`, `NothingHangs` | three loggers on two paths, three entries, three `Close` |
| `PgNewClient` | What can a client that asked for TLS connect to, and do the limits agree? `StageInv`, `NoPlainTransport`, `TLSCoversAll` | four addresses (two ports of one host, a socket, an empty host), four lists of hosts, three routes of configurers, every sslmode, limits from -1 to 2, three options |
| `PgClient` | What does closing promise to those who use the pool? `ClientInv`, `ImplementsClient`, `CallsEnd` | two `Ping`, two queries, two `Close`, one connection |
| `MongoClient` | What does closing promise to those who use the driver, and what do their errors tell? `ClientInv`, `ErrorsTell`, `ImplementsClient`, `CloseBounded` | a `Ping`, a `Find`, a single operation, two `Close` besides `NewClient`'s own; a good document and a nil one |
| `MongoNewClient` | Which key files are accepted, what is left in memory, which TLS is used? `SecretsInv`, `KeyAsSpecified`, `TLSWins` | every key file of up to three blocks, a right and a wrong password, three options |

Each module has one type invariant, `TypeOK` (`NewTypeOK` in `PgNewClient`), a conjunct
of `ServerInv`, `WorkerHolds`, `ServeResults`, `WriterFields`, `RegistryInv`, `StageInv`,
`ClientInv` or `SecretsInv`. The other conjuncts of those, and the parts of
properties that gather several, are named definitions with a comment of their own.

### Why the bounds are enough

* Two `Shutdown` calls are the least with which one waits for what the other
  decides (the deadline of the close, the kind of stop); a third would only repeat
  the place of one of them. Two `Serve` calls are the least that can be admitted
  twice. Each call is made once; calling again is another member of the set.
* Two workers that can run together are the least that fail together and leave a
  startup half done; the third consumer of `RabbitWorkers`, exclusive and automatic,
  runs only alone. The two `Serve` calls of that run are alike, and so are its first two
  consumers with their workers: its properties are of safety and name none of them, so
  it is checked up to exchanging them.
* `MaxAttempts = 2`: a message is delivered, returned and delivered again; the model
  forgets nothing between attempts but what the handler returned.
* `MaxFaults = 2`: a failure and a crash, in either order, at any two steps; with
  three entries and segments of two units there is a rotation by size, one by date
  and an entry that exceeds a segment alone, and a segment that exists both as
  `.log` and as `.gz`.
* `MaxOptions = 3`: the host, the TLS configuration and the option that contradicts
  it, in every order; of the limits, the two that contradict each other.
* `MaxConns = 1` with four uses: one holds the connection while others wait when the
  pool begins to close.
* One `Find`, with any number of batches, one other operation and one `Ping` differ in
  how they end; two of a kind would not meet but in the driver. Two `Close` are one
  that disconnects and one that waits.
* `MaxBlocks = 3`: a key, a second key and a block that is none, in every order.

### Fairness

* Goroutines that can run, run (weak fairness of each goroutine's step): Go's
  scheduler is preemptive. A call that has not been made need not be.
* The AMQP driver's close ends when it has a deadline or the connection is down, and so
  do contexts with a deadline;
  nothing is assumed of a close without one, or of a context without one.
* The AMQP driver ends the deliveries of a consumer whose context ended or whose
  connection was lost.
* Handlers: nothing is assumed of those of `RabbitServer` and `GrpcServer`, and
  `ShutdownBounded` holds all the same (of `grpc`, it says that `Shutdown` returns; that
  `Serve` does too has the exception above, which `HandlersKeepDriver` names). `CallsReturn` and `ShutdownEndsServe` carry
  their assumption themselves, the one the package documentation makes of handlers: that
  they return (`HandlersCooperate`: once their context has ended, and a stop was asked
  for). `RabbitDelivery` assumes that handlers return, the broker delivers what it can
  and a broken channel is noticed.
* `LoggerLifecycle`: an entry on its way and a `Close` that has begun go on.
* `PgClient`: whoever waits for `closeMutex` or for a connection gets it while it
  stays free, and whoever has a connection gives it back (a `Ping` when the server
  answers or its context ends, a query because `Driver`'s user must).
* `MongoClient`: goroutines inside a call go on and a deadline passes. The server need
  not answer: `CloseBounded` rests on the context of the first `Close` alone.
* Where what a liveness property waits for, or assumes, stays true once it is,
  `P ~> Q` is written as the equal `[]<>(P => Q)`, which TLC decides in one pass.
* All of these are weak: each step stays possible until it is taken, but for the
  alternatives of the same goroutine.

## The proofs

Every safety property the passing runs check, every action property and the four
refinements are theorems of the specifications, for every value of the constants that
satisfies the assumption its module declares. Each proof goes by an inductive invariant
that a run checks too, by itself or inside the property that names it:

* the initial states satisfy it (a lemma `...Init`);
* every step preserves it: the actions are grouped by what they do to the state
  (lemmas `...Cases`), and each conjunct that a group can disturb has a lemma;
* it implies the property, or the property is preserved by the steps that begin in it.

The temporal step of each theorem is one use of the invariant rule (`PTL`).

### RabbitServerProofs

For any sets of calls, consumers and workers that satisfy `ConfigurationAssumption`
(distinct calls, finitely many workers, each owned by a consumer, and `newConsumer`'s
rule that an exclusive consumer has one worker):

| Theorem | States |
|---|---|
| `TypeCorrect` | `Spec => []TypeOK` |
| `SafetyInvariant` | `Spec => [](TypeOK /\ SafetyInv)` |
| `ServerInvariant` | `Spec => []ServerInv`: both of these and `OrderInv` |
| `ShutdownIsQuiet` | `Spec => []ShutdownQuiesces`: after a `Shutdown` that returned nil nothing runs and the connection is closed |
| `ShutdownIsSeen` | `Spec => []ShutdownCancelsRun` |
| `NilIsShutdown` | `Spec => []NilMeansShutdown` |
| `EventsAreOrdered` | `Spec => []EventsInOrder` |
| `ChannelsAreReleased` | `Spec => []ChannelsReleased` |
| `ExclusiveIsAlone` | `Spec => []ExclusiveAlone` |
| `RunsOnce` | `Spec => SingleRun` |
| `Implements` | `Spec => ImplementsContract`: `RabbitServer` refines `SingleUseServer` |

`ShutdownQuiesces` is not inductive: that `Shutdown` may return nil rests on what it
saw of the state in its critical section, long before. `SafetyInv` is the
strengthening, one conjunct per reason:

* `RunInv`: the flags and the place of the one admitted call tell the same story;
* `QuietInv`: outside a run, and after the run's cleanup joined them, there are no
  workers;
* `EndInv`: `done` and the close of the connection come only when no run can begin;
* `ShutdownInv`: where each `Shutdown` is tells what it has made sure of: that no
  run with a live context exists, that the run it waited for signalled its end, or
  that there was none and never will be;
* `NilInv`: a run whose cancellation came before its own cleanup was cancelled by a
  `Shutdown`.

`OrderInv` does the same for the events, the channels and the queues:

* `ChannelInv`: every open channel is remembered, and forgotten by the cleanup alone;
* `WorkInv`: each worker is of a consumer of the run's snapshot, and its own events
  follow its place. That the registered consumers stay those of the snapshot is what
  `StartedIsComplete` rests on;
* `EventInv`: the server's events follow the place of the run, and whoever signals
  `done` has either reported the last of them or found the server idle;
* `QueueInv`: registration keeps an exclusive consumer alone on its queue.

### RabbitDeliveryProofs

For any messages, workers, configurations of their consumers and bound on attempts
(`DeliveryAssumption`: a message is not a worker, and there is a configuration to
choose): `DeliveryInvariant`, `WorkersHold` (`WorkerHolds`), `NothingIsOwed`
(`NothingOwed`) and `AtLeastOnce` (`ForgottenForAReason`). `DeliveryInv` says what the
state of a channel says of its messages (`ChannelInv`), what the place of a worker says
its handler returned and how far its reports are behind (`HandlerInv`), and that what a
channel that is up has unacknowledged is what its worker has buffered or not settled
yet (`HeldInv`). The last is what the client cannot see: a message leaves the worker
when the broker puts it back, and the worker goes on with it.

### GrpcServerProofs

For any calls and connections (`GrpcAssumption`: `ListenAndServe` and `Serve` are
different calls): `ServerInvariant` (`ServerInv`), `ResultsTell` (`ServeResults`),
`GracefulShutdownIsQuiet` (`GracefulIsQuiet`), `NoListenerLeft` (`ListenersClosed`) and
`Implementation` (`GrpcServer` refines `SingleUseServer`). `GracefulIsQuiet` rests on
`StopInv`, how far each stop is and what that says of the driver: a graceful stop is
done only when no connection is left and the accept loop cannot add one; a client that
leaves its RPC does not count as left until the handler returns. What a call is
about to return (`ResultInv`) must tell how it got there several steps before it
returns.

### DailyWriterProofs

For any entries and sizes, any days, limit, number of backups, age and number of
failures (`WriterAssumption`): `FieldsInvariant` (`WriterFields`), `EntriesAreKept`
(`NothingLost`), `SegmentsAreBounded`, `RetentionIsKept` (`RetentionHolds`) and
`NothingIsOverwritten`. `WriterFields` is inductive; what it needs beyond the fields'
meaning is what a call must remember between two file operations:

* `CallInv`, `FileInv`: which segment is open at each step, and that it has room for
  the entry when that is appended;
* `CompressInv`: a `.gz` left by a crash holds no more than its segment, so that
  compressing it again, or removing the segment, loses nothing;
* `TargetInv`: the segment that will be opened is the last of its date, or a new one
  after it, whatever is compressed in between;
* `DiskInv`: files hold accepted entries only.

`NoDuplicates` is stated of all files but the one being compressed: the step that
removes a segment begins in a state where its `.gz` holds the same. The number of files
after a cleanup takes the counting facts of the library.

### LoggerLifecycleProofs

For any loggers, paths, entries and `Close` (`LoggersAssumption`): `RegistryInvariant`
(`RegistryInv`) and `CloseIsFinal` (`ClosedIsFinal`, a property of steps). `PathInv`
says that a path is in the registry as long as a logger reserves it, that only one
does, and that only it has the file open; `CloseInv` says how far each `Close` is, and
is what makes a later `Close` agree with the first.

### PgClientProofs

For any finite set of pings and queries, any set of `Close` and any `MaxConns` above
zero (`PoolAssumption`), and for `PgNewClient` any addresses, lists of hosts, values and
number of options, and any routes configurers put in place (`PgAssumption`: the host of
an address and a name a caller sets are not the absent name, and a configurer leaves a
primary):

| Theorem | States |
|---|---|
| `ClientInvariant` | `Spec => []ClientInv`: `closed`, `closeMutex` and the pool agree, a `Close` returns to a closed pool, and the pool lends no more than it has |
| `ClientImplements` | `Spec => ImplementsClient`: `PgClient` refines `SharedClient` |
| `StagesHold` | `NewSpec => []StageInv` |
| `NoPlainTransportLeft` | `NewSpec => []NoPlainTransport` |
| `TLSCoversServers` | `NewSpec => []TLSCoversAll` |

`ClientInv` is inductive as it stands. Its reason is `CloseInv`: that a later `Close`,
which returns as soon as it finds `closed`, returns to a closed pool follows from
`closed` being set only under the mutex that is held until the pool is closed. The bound
on the pool takes the counting facts of the library: a use that acquires adds itself to
`Holding`, one that returns takes itself out, and nothing else changes it.

`StageInv` says what each stage of `NewClient` has made sure of and nothing undoes
(`LimitsInv`, `TLSInv`, `NoPoolLeak`); the properties of the pool are those of the last
stages. The step that matters is `applyTLSConfig`: lemma `SecuredIs` shows that for a
list of endpoints of any length, with addresses repeated in any way, what it makes has
every address of the list, each once.

### MongoClientProofs

For any pings, operations, `Close` and answers (`MongoAssumption`: uses and `Close` are
different calls): `ClientInvariant` (`ClientInv`), `ErrorsAlwaysTell` (`ErrorsTell`) and
`Implementation` (`MongoClient` refines `SharedClient`). `OnceInv` is what `closeOnce`
guarantees, `DriverInv` what `closed` says of the driver, and `UseInv` what the driver
can still do to a use, in particular that only a client that is closed disconnects one.
That a `Close` is not a use is an assumption the proof showed to be needed: both have
their result in `result`.

### MongoNewClientProofs

For key files of any length, any passwords and any number of options
(`SetupAssumption`): `SecretsInvariant` (`SecretsInv`), `KeysAreAsSpecified`
(`KeyAsSpecified`) and `TLSDecides` (`TLSWins`). `KeyInv` says what the passes over the
key file have found so far, and `CopyInv` that the one copy left is of the password to
be used.

### Sequences and least numbers

The prover has no induction over data, so what is said of a sequence of any length is
proved from its least counterexample: that a set of naturals that is not empty has a
least member follows from the well-foundedness of `<` (`LeastNumber`). It gives the last
index of a date (`DailyWriterProofs`), the first key of a file and the last
configuration of a list (`MongoNewClientProofs`), and what `FlattenSeq` of the
community modules returns (`PgClientProofs`): `Partial` are the concatenations its
definition chooses, `PartialExists` that there are such, and `PartialElements` and
`PartialDistinct` what they hold.

### Only model-checked

* Liveness: `CallsReturn`, `ShutdownBounded`, `ShutdownEndsServe`, `QueueDrains`,
  `NothingHangs`, `CallsEnd`, `CloseBounded`. TLAPS does not reason about fairness and
  `ENABLED` here.
* What the two violated properties say (Findings): they do not hold.
* That `Next` is never stuck: TLC looks for deadlocks in every run.

## Findings

* `RabbitFailures` — `README.md:674` says that `EventInfrastructureError` carries a
  failure that is not a normal cancellation. When a startup or a worker fails while the
  connection is up, and closing the connection then runs out of the internal five
  seconds (a broker that does not answer), the joined error contains
  `context.DeadlineExceeded`, `errors.Is` (310) takes the whole for a cancellation, and
  the event is never reported. A connection that is lost is not affected: it needs no
  closing (119-122). A handler's context error joined with the error of the `Nack` that
  failed after it (478-486) hides the latter in the same way.
* `GrpcNilWaits` — `grpc/server.go:221-222` and `grpc/interface.go:28-29` say that
  `Shutdown` waits for the active RPCs until its context ends. The `Stop` started by
  one caller whose context ended closes the channel all callers wait on, so another
  `Shutdown`, with time left, returns nil while handlers still run.

Three smaller disagreements are not runs of their own. `Serve`'s comment (260) says that
context errors come back unwrapped; one that the driver returns from
`ConsumeWithContext` is wrapped (410). `rabbitmq/interface.go:25` says that a `Shutdown`
whose context ends forces the connection closed; a close started without a deadline is
bounded by nothing, and a context that ends later only ends the wait (581-582).
`grpc/server.go:221-223` says that the `Stop` of a `Shutdown` whose context ended forces
the end of pending RPCs; a `GracefulStop` that waits for a handler without a connection
holds the mutex `Stop` needs, and if that handler never returns neither do `Stop` and
`Serve` (`HandlersKeepDriver`).

Two behaviours are documented by nobody and modelled as they are. A `Ping` of
`postgresql.Client` that has read `closed` when `Close` begins returns the pool's own
error and not `ErrClientClosed`, which `mongodb.Client` would. A second
`mongodb.Client.Close` waits for the first whatever its own deadline, because
`closeOnce` takes no context.

## Not modelled, and why

* Text: names, tags, connection strings, levels, encodings, messages of errors and
  their wrapping beyond what `errors.Is` tells apart.
* `rabbitmq.NewServer` with its options and TLS validation, `grpc` options and the
  examples: sequential validation and copies of strings and tables, with no state left
  behind but what the `Init` of the modules assumes.
* Callbacks that call back into the server: a handler that calls `Shutdown` without a
  deadline is, to the server, a handler that never returns.
* Guards on nil receivers, contexts, listeners and drivers, and on values made without
  their constructor: each returns an error before anything changes.
* `dailyWriter.Sync`: it flushes the open file and changes no state of the model.
* Two processes writing one log directory, which `README.md:188` excludes, and the
  temporary files a crash during compression leaves.
* `mongodb`: a caller that changes its `ClientOptions` after `WithDriverOptions` (the
  copy is what `cloneDriverOptions` makes it, shallow for what it points to); errors of
  the driver's automatic encryption when it is disconnected; the buffers with the key
  itself, of which the documentation promises nothing (only copies of the password).

## Plan

Every component with behaviour of its own is modelled, and every safety property that is
checked is proved. What is left, the most useful first:

1. The parts of the fairness arguments that are about safety: for each liveness property
   a theorem that no step undoes the progress made (the measure it rests on), such as
   that a `Serve` past its `select` only moves towards its return.
2. `RabbitDelivery` as the inside of `RabbitServer`: a mapping of its workers to those of
   a run, so that what is proved of messages holds of every run.
3. Shorter proofs of `DailyWriter`'s steps, whose lemmas repeat the same facts on the
   names of files.

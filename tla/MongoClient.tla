---------------------------- MODULE MongoClient -----------------------------
(***************************************************************************)
(* A mongodb.Client shared by goroutines (src/mongodb/client.go) and the   *)
(* operations of its Repository (src/mongodb/repository.go): NewClient,    *)
(* whose first Ping may fail, then Ping, Find, the operations of a single  *)
(* call of the driver (FindOne, FindByID, Insert, InsertOne) and Close,    *)
(* called by several goroutines with contexts of their own.                *)
(*                                                                         *)
(* closed is atomic; a use reads it before it calls the driver and again   *)
(* after it, and the driver may be disconnected anywhere between.          *)
(***************************************************************************)
EXTENDS Naturals, Sequences

CONSTANTS
  Pings, Finds, Singles,  \* goroutines that use the client, once each
  Closes,                 \* goroutines that call Close, once each
  NewCall,                \* NewClient's own Close, of a client that does not answer
  NoCall,                 \* not a call
  Arguments               \* filters and documents operations are called with

Uses == Pings \cup Finds \cup Singles
Operations == Finds \cup Singles
Closers == Closes \cup {NewCall}

\* A document by its Go type and what is wrong with it: a nil bson.M or bson.D, an
\* empty or corrupt bson.Raw.
Documents == [type : {"M", "D", "Raw", "other"}, fault : {"none", "nil", "corrupt"}]

ASSUME MongoAssumption ==
  /\ Pings \cap Operations = {} /\ Finds \cap Singles = {}
  /\ NewCall \notin Closes /\ NoCall \notin Closers /\ Uses \cap Closers = {}
  /\ Arguments \subseteq Seq(Documents) /\ Arguments # {}

VARIABLES
  made,        \* NewClient: "connecting", "pinging", "closing", "ready" or "failed"
  connectionCheck,
  repository,  \* NewRepository has returned one
  \* fields of Client
  closed, closeErr,
  once,        \* closeOnce: "unused", "running" or "done"
  \* goroutines
  use,         \* where each use is
  cause,       \* the error the driver gave each use
  more,        \* Find calls whose cursor is open: it has batches still to read
  result,      \* errors errors.Is finds in what each call returned; {} is nil
  close,       \* where each Close is
  closer,      \* the Close that runs closeOnce
  ctx,         \* its context: "open", "timed" (has a deadline) or "ended"; no other
               \* Close looks at its own
  \* the driver (external)
  driver       \* "none", "connected", "disconnecting" or "disconnected"

newVars   == <<made, connectionCheck, repository>>
useVars   == <<use, cause, more>>
closeVars == <<closed, closeErr, once, close, closer, ctx>>
vars == <<newVars, useVars, result, closeVars, driver>>

Init ==
  /\ made = "connecting" /\ connectionCheck \in BOOLEAN /\ repository = FALSE
  /\ closed = FALSE /\ closeErr = {} /\ once = "unused"
  /\ use = [u \in Uses |-> "idle"]
  /\ cause = [u \in Uses |-> "none"]
  /\ more = {}
  /\ result = [c \in Uses \cup Closers |-> {}]
  /\ close = [k \in Closers |-> "idle"] /\ closer = NoCall /\ ctx = "open"
  /\ driver = "none"

----------------------------------------------------------------------------
(* NewClient, validated: connect, the first Ping, and Close with five seconds *)
CloseAt(k, place) == close' = [close EXCEPT ![k] = place]
Return(c, errors) == result' = [result EXCEPT ![c] = errors]

Connect ==
  /\ made = "connecting"
  /\ \/ driver' = "connected" /\ made' = IF connectionCheck THEN "pinging" ELSE "ready"
     \/ made' = "failed" /\ UNCHANGED driver
  /\ UNCHANGED <<connectionCheck, repository, useVars, result, closeVars>>

\* Bug: a client that does not answer is dropped as it is.
BugFirstPing ==
  /\ made = "pinging"
  /\ made' \in {"ready", "failed"}
  /\ UNCHANGED <<connectionCheck, repository, useVars, result, closeVars, driver>>

FirstPing ==
  /\ made = "pinging"
  /\ made' \in {"ready", "closing"}
  /\ UNCHANGED <<connectionCheck, repository, useVars, result, closeVars, driver>>

CleanedUp ==
  /\ made = "closing" /\ close[NewCall] = "returned"
  /\ made' = "failed"
  /\ UNCHANGED <<connectionCheck, repository, useVars, result, closeVars, driver>>

----------------------------------------------------------------------------
(* Ping and the operations of Repository *)
Goto(u, place) == use' = [use EXCEPT ![u] = place]

NewRepository ==
  /\ made = "ready" /\ ~closed /\ ~repository
  /\ repository' = TRUE
  /\ UNCHANGED <<made, connectionCheck, useVars, result, closeVars, driver>>

\* validateBSONDocument
ValidDocument(d) ==
  \/ d.type \in {"M", "D"} /\ d.fault # "nil"
  \/ d.type = "Raw" /\ d.fault = "none"

\* validateBSONDocuments
ValidDocuments(list) == list # <<>> /\ \A i \in DOMAIN list : ValidDocument(list[i])

\* closed is read (collectionForOperation), then the arguments are validated.
Begin(u) ==
  /\ use[u] = "idle" /\ made = "ready" /\ (u \in Operations => repository)
  /\ \/ closed /\ Goto(u, "returned") /\ Return(u, {"ErrClientClosed"})
     \/ /\ ~closed /\ u \in Operations
        /\ \E list \in Arguments : ~ValidDocuments(list)
        /\ Goto(u, "returned") /\ Return(u, {"ErrInvalidDocument"})
     \/ /\ ~closed
        /\ u \in Pings \/ \E list \in Arguments : ValidDocuments(list)
        /\ Goto(u, "checked") /\ UNCHANGED result
  /\ UNCHANGED <<newVars, cause, more, closeVars, driver>>

\* The driver gives the use a connection, or refuses once it is disconnecting.
Send(u) ==
  /\ use[u] = "checked"
  /\ IF driver = "connected" THEN Goto(u, "running") /\ UNCHANGED cause
     ELSE Goto(u, "failing") /\ cause' = [cause EXCEPT ![u] = "disconnection"]
  /\ UNCHANGED <<newVars, more, result, closeVars, driver>>

\* The server's answer, or a failure: of the server, the network or the context.
Answer(u) ==
  /\ use[u] = "running"
  /\ \/ /\ Goto(u, "answered")
        /\ more' \in {more \ {u}, more \cup ({u} \cap Finds)}
        /\ UNCHANGED cause
     \/ Goto(u, "failing") /\ cause' = [cause EXCEPT ![u] = "failure"] /\ UNCHANGED more
  /\ UNCHANGED <<newVars, result, closeVars, driver>>

\* cursor.Next asks for the next batch.
NextBatch(u) ==
  /\ use[u] = "answered" /\ u \in more
  /\ Goto(u, "checked")
  /\ UNCHANGED <<newVars, cause, more, result, closeVars, driver>>

\* Ping reads closed once more; what an operation was answered stands.
Succeed(u) ==
  /\ use[u] = "answered" /\ u \notin more
  /\ Goto(u, "returned")
  /\ Return(u, IF u \in Pings /\ closed THEN {"ErrClientClosed"} ELSE {})
  /\ UNCHANGED <<newVars, cause, more, closeVars, driver>>

\* Bug: a Find does not look at cursor.Err.
BugErrors(u) ==
  IF u \in Finds THEN {}
  ELSE IF closed THEN {"ErrClientClosed", cause[u]} ELSE {cause[u]}

\* Ping's error is replaced, an operation's joined (wrapOperationError).
Errors(u) ==
  IF ~closed THEN {cause[u]}
  ELSE IF u \in Pings THEN {"ErrClientClosed"} ELSE {"ErrClientClosed", cause[u]}

\* A Find that fails between two batches still has its cursor to close.
Fail(u) ==
  /\ use[u] = "failing"
  /\ Goto(u, IF u \in more THEN "leaving" ELSE "returned") /\ Return(u, Errors(u))
  /\ UNCHANGED <<newVars, cause, more, closeVars, driver>>

\* Find's deferred cursor.Close: an operation of the driver like any other (killCursors),
\* whose error is dropped.
CloseCursor(u) ==
  /\ use[u] = "leaving"
  /\ Goto(u, IF driver = "connected" THEN "killing" ELSE "returned")
  /\ UNCHANGED <<newVars, cause, more, result, closeVars, driver>>

\* Its answer or its failure.
CursorClosed(u) ==
  /\ use[u] = "killing"
  /\ Goto(u, "returned")
  /\ UNCHANGED <<newVars, cause, more, result, closeVars, driver>>

UseStep(u) == Send(u) \/ NextBatch(u) \/ Succeed(u) \/ Fail(u) \/ CloseCursor(u)

----------------------------------------------------------------------------
(* Close *)
Called(k) == close[k] = "idle" /\ made = IF k = NewCall THEN "closing" ELSE "ready"

\* NewClient's context for its own Close always has a deadline.
Win(k) ==
  /\ once' = "running" /\ closer' = k
  /\ ctx' \in IF k = NewCall THEN {"timed"} ELSE {"open", "timed", "ended"}
  /\ CloseAt(k, "closing")

\* Bug: a later Close does not wait for the first.
BugOnce(k) ==
  /\ Called(k)
  /\ IF once = "unused" THEN Win(k) ELSE CloseAt(k, "returning") /\ UNCHANGED <<once, closer, ctx>>
  /\ UNCHANGED <<newVars, useVars, result, closed, closeErr, driver>>

\* closeOnce.Do: the first Close runs it, the others wait for its end.
Once(k) ==
  /\ Called(k)
  /\ IF once = "unused" THEN Win(k) ELSE CloseAt(k, "waiting") /\ UNCHANGED <<once, closer, ctx>>
  /\ UNCHANGED <<newVars, useVars, result, closed, closeErr, driver>>

Store(k) ==
  /\ close[k] = "closing"
  /\ closed' = TRUE
  /\ CloseAt(k, "stored")
  /\ UNCHANGED <<newVars, useVars, result, closeErr, once, closer, ctx, driver>>

Disconnect(k) ==
  /\ close[k] = "stored"
  /\ driver' = "disconnecting"
  /\ CloseAt(k, "disconnecting")
  /\ UNCHANGED <<newVars, useVars, result, closed, closeErr, once, closer, ctx>>

\* The end of closeOnce, whose error every Close will return.
Disconnected(k) ==
  /\ close[k] = "disconnecting" /\ driver = "disconnected"
  /\ closeErr' \in {{}, {"close"}}
  /\ once' = "done"
  /\ CloseAt(k, "returning")
  /\ UNCHANGED <<newVars, useVars, result, closed, closer, ctx, driver>>

CloseReturn(k) ==
  /\ close[k] = "returning" \/ (close[k] = "waiting" /\ once = "done")
  /\ CloseAt(k, "returned") /\ Return(k, closeErr)
  /\ UNCHANGED <<newVars, useVars, closed, closeErr, once, closer, ctx, driver>>

CloseStep(k) == Store(k) \/ Disconnect(k) \/ Disconnected(k) \/ CloseReturn(k)

----------------------------------------------------------------------------
(* The driver and the contexts *)
Running == {u \in Uses : use[u] = "running"}
Killing == {u \in Uses : use[u] = "killing"}

\* Bug: Disconnect is given a context of its own, without a deadline.
BugLimit == FALSE

\* Disconnect gets the context of the Close that runs it.
Limit == ctx = "ended"

\* Disconnect waits for the connections in use until its context ends, and then
\* closes them under their users.
DriverDisconnects ==
  /\ driver = "disconnecting"
  /\ Running \cup Killing = {} \/ Limit
  /\ driver' = "disconnected"
  /\ use' = [u \in Uses |-> IF u \in Running THEN "failing"
                            ELSE IF u \in Killing THEN "leaving" ELSE use[u]]
  /\ cause' = [u \in Uses |-> IF u \in Running THEN "disconnection" ELSE cause[u]]
  /\ UNCHANGED <<newVars, more, result, closeVars>>

ContextEnds ==
  /\ once = "running" /\ ctx # "ended"
  /\ ctx' = "ended"
  /\ UNCHANGED <<newVars, useVars, result, closed, closeErr, once, close, closer, driver>>

Finished ==
  /\ \/ made = "failed"
     \/ \A c \in Closes : close[c] = "returned"
  /\ UNCHANGED vars

Next ==
  \/ Connect \/ FirstPing \/ CleanedUp \/ NewRepository
  \/ \E u \in Uses : Begin(u) \/ Answer(u) \/ CursorClosed(u) \/ UseStep(u)
  \/ \E k \in Closers : Once(k) \/ CloseStep(k)
  \/ DriverDisconnects \/ ContextEnds
  \/ Finished

Spec == Init /\ [][Next]_vars

\* Goroutines inside a call go on, the driver's Disconnect ends when it can and a
\* deadline passes.  The server need not answer.
FairSpec ==
  /\ Spec
  /\ WF_vars(Once(NewCall)) /\ WF_vars(CleanedUp)
  /\ WF_vars(DriverDisconnects) /\ WF_vars(ctx = "timed" /\ ContextEnds)
  /\ \A u \in Uses : WF_vars(UseStep(u))
  /\ \A k \in Closers : WF_vars(CloseStep(k))

----------------------------------------------------------------------------
TypeOK ==
  /\ made \in {"connecting", "pinging", "closing", "ready", "failed"}
  /\ connectionCheck \in BOOLEAN /\ repository \in BOOLEAN
  /\ closed \in BOOLEAN /\ closeErr \in {{}, {"close"}}
  /\ once \in {"unused", "running", "done"}
  /\ use \in [Uses -> {"idle", "checked", "running", "answered", "failing", "leaving",
                     "killing", "returned"}]
  /\ cause \in [Uses -> {"none", "failure", "disconnection"}]
  /\ more \subseteq Finds
  /\ result \in [Uses \cup Closers -> SUBSET {"ErrClientClosed", "ErrInvalidDocument",
                                              "failure", "disconnection", "close"}]
  /\ close \in [Closers -> {"idle", "closing", "stored", "disconnecting", "waiting",
                            "returning", "returned"}]
  /\ closer \in Closers \cup {NoCall}
  /\ ctx \in {"open", "timed", "ended"}
  /\ driver \in {"none", "connected", "disconnecting", "disconnected"}

\* A NewClient that fails leaves no connected driver behind, even when its context
\* had ended, or closing fails (client.go:85).
NoDriverLeak == made = "failed" => driver \in {"none", "disconnected"}

\* Every Close returns the result of the first (README.md:290-292).
ClosesAgree ==
  \A j, k \in Closers : close[j] = "returned" /\ close[k] = "returned" => result[j] = result[k]

\* One Close runs closeOnce, and no other returns before it ends.
OnceInv ==
  /\ once = "unused" => closer = NoCall
  /\ once = "running" => closer # NoCall /\ close[closer] \in {"closing", "stored", "disconnecting"}
  /\ \A k \in Closers :
       /\ close[k] \in {"closing", "stored", "disconnecting"} => once = "running" /\ k = closer
       /\ close[k] \in {"returning", "returned"} => once = "done"
       /\ close[k] = "waiting" => once # "unused"
       /\ close[k] = "closing" => ~closed
       /\ close[k] \in {"stored", "disconnecting"} => closed
       /\ close[k] = "stored" => driver = "connected"
       /\ close[k] = "returned" => result[k] = closeErr

\* What closed and closeOnce say of the driver, and the driver of NewClient.
DriverInv ==
  /\ closed => once # "unused"
  /\ once = "done" => closed /\ driver = "disconnected"
  /\ driver \in {"disconnecting", "disconnected"} => closed
  /\ driver = "none" => once = "unused" /\ made \in {"connecting", "failed"}
  /\ made \in {"connecting", "pinging"} => once = "unused"
  /\ made = "connecting" => driver = "none"
  /\ made = "failed" => driver = "none" \/ once = "done"

\* What the driver can still do to a use.
UseInv ==
  \A u \in Uses :
    /\ use[u] # "idle" => made = "ready"
    /\ use[u] \in {"running", "killing"} => driver \in {"connected", "disconnecting"}
    /\ use[u] \notin {"failing", "leaving", "killing", "returned"} => cause[u] = "none"
    /\ use[u] \in {"leaving", "killing"} => u \in more /\ result[u] # {}
    /\ use[u] = "failing" => cause[u] # "none"
    /\ cause[u] = "disconnection" => closed

\* The driver and the calls that made, used or closed it tell the same story.
ClientInv == TypeOK /\ OnceInv /\ DriverInv /\ UseInv /\ NoDriverLeak /\ ClosesAgree

\* An operation that Close interrupts, or that reaches the driver after it, says so
\* and keeps the driver's error (README.md:404-405); Ping only says so.
InterruptionIsTold ==
  \A u \in Uses :
    use[u] \in {"leaving", "killing", "returned"} /\ cause[u] = "disconnection" =>
      /\ "ErrClientClosed" \in result[u]
      /\ u \in Operations => "disconnection" \in result[u]

\* A Find that returns no error returns the whole answer, never the batches read
\* before the cursor failed.
FindIsWhole ==
  \A u \in Finds :
    use[u] = "returned" /\ result[u] = {} => u \notin more /\ cause[u] = "none"

\* What a use returns tells what became of it.
ErrorsTell == InterruptionIsTold /\ FindIsWhole

\* When the context given to the first Close has a deadline every Close returns, and
\* every use under way, although the server never answers.
CloseBounded ==
  driver = "disconnecting" /\ ctx # "open" ~>
    /\ \A k \in Closers : close[k] \in {"idle", "returned"}
    /\ \A u \in Uses : use[u] \in {"idle", "returned"}

----------------------------------------------------------------------------
(* The contract it shares with PgClient *)
Phase == IF ~closed THEN "open" ELSE IF driver = "disconnected" THEN "closed" ELSE "closing"

Used ==
  [u \in Uses |->
     IF use[u] = "idle" THEN "idle"
     ELSE IF use[u] = "returned" THEN (IF result[u] = {} THEN "succeeded" ELSE "failed")
     ELSE IF use[u] = "answered" /\ u \notin Pings \cup more THEN "succeeded" ELSE "using"]

Requested ==
  [k \in Closers |-> IF close[k] \in {"idle", "returned"} THEN close[k] ELSE "requested"]

Contract == INSTANCE SharedClient WITH
  phase <- Phase, Closes <- Closers, use <- Used, close <- Requested

\* MongoClient implements the contract.
ImplementsClient == Contract!Spec
=============================================================================

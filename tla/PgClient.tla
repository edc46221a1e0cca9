------------------------------ MODULE PgClient ------------------------------
(***************************************************************************)
(* A postgresql.Client that NewClient has returned, shared by goroutines   *)
(* (src/postgresql/client.go): Ping, Close, and the queries made on the    *)
(* pool itself, which Driver hands out.  The pool (pgxpool) is external:   *)
(* it lends at most MaxConns connections, and its Close waits for those    *)
(* that are lent.                                                          *)
(***************************************************************************)
EXTENDS Naturals, FiniteSets

CONSTANTS
  Pings,     \* goroutines that call Ping, once each
  Queries,   \* goroutines that borrow a connection of Driver(), once each
  Closes,    \* goroutines that call Close, once each
  MaxConns,
  NoCall     \* not a call

Uses == Pings \cup Queries

ASSUME PoolAssumption ==
  /\ Pings \cap Queries = {}
  /\ IsFiniteSet(Uses)
  /\ NoCall \notin Closes
  /\ MaxConns \in Nat \ {0}

VARIABLES
  closed,
  mutex,   \* the Close that holds closeMutex, or NoCall
  use,     \* where each use is: "idle", "acquiring", "holding" or "returned"
  result,  \* what it returned
  close,   \* where each Close is
  pool     \* "open", "closing" or "closed" (external)

vars == <<closed, mutex, use, result, close, pool>>

Init ==
  /\ closed = FALSE /\ mutex = NoCall
  /\ use = [u \in Uses |-> "idle"]
  /\ result = [u \in Uses |-> "none"]
  /\ close = [k \in Closes |-> "idle"]
  /\ pool = "open"

----------------------------------------------------------------------------
(* Ping and the queries *)
Goto(u, place) == use' = [use EXCEPT ![u] = place]
Return(u, value) == Goto(u, "returned") /\ result' = [result EXCEPT ![u] = value]

\* Only Ping looks at closed.
Begin(u) ==
  /\ use[u] = "idle"
  /\ IF u \in Pings /\ closed THEN Return(u, "ErrClientClosed")
     ELSE Goto(u, "acquiring") /\ UNCHANGED result
  /\ UNCHANGED <<closed, mutex, close, pool>>

Holding == {u \in Uses : use[u] = "holding"}

\* Acquire waits for room and only then sees that the pool was closed; a new
\* connection may fail.
Acquire(u) ==
  /\ use[u] = "acquiring" /\ Cardinality(Holding) < MaxConns
  /\ \/ pool = "open" /\ Goto(u, "holding") /\ UNCHANGED result
     \/ pool = "open" /\ Return(u, "connection")
     \/ pool # "open" /\ Return(u, "closed pool")
  /\ UNCHANGED <<closed, mutex, close, pool>>

\* The caller's context ends the wait.
GiveUp(u) ==
  /\ use[u] = "acquiring"
  /\ Return(u, "context")
  /\ UNCHANGED <<closed, mutex, close, pool>>

\* The server answers, or the connection or the context fails.
Release(u) ==
  /\ use[u] = "holding"
  /\ \E value \in {"nil", "connection"} : Return(u, value)
  /\ UNCHANGED <<closed, mutex, close, pool>>

----------------------------------------------------------------------------
(* Close *)
CloseAt(k, place) == close' = [close EXCEPT ![k] = place]

Call(k) ==
  /\ close[k] = "idle"
  /\ CloseAt(k, "locking")
  /\ UNCHANGED <<closed, mutex, use, result, pool>>

\* Bug: closed is tested before the mutex is taken.
BugLock(k) ==
  /\ close[k] = "locking"
  /\ IF closed THEN CloseAt(k, "returned") /\ UNCHANGED <<closed, mutex>>
     ELSE mutex = NoCall /\ mutex' = k /\ closed' = TRUE /\ CloseAt(k, "locked")
  /\ UNCHANGED <<use, result, pool>>

\* Under closeMutex: a client already closed lets it go at once.
Lock(k) ==
  /\ close[k] = "locking" /\ mutex = NoCall
  /\ IF closed THEN CloseAt(k, "returned") /\ UNCHANGED <<closed, mutex>>
     ELSE mutex' = k /\ closed' = TRUE /\ CloseAt(k, "locked")
  /\ UNCHANGED <<use, result, pool>>

\* Bug: the pool is closed in the background.
BugClosePool(k) ==
  /\ close[k] = "locked"
  /\ pool' = "closing"
  /\ mutex' = NoCall
  /\ CloseAt(k, "returned")
  /\ UNCHANGED <<closed, use, result>>

ClosePool(k) ==
  /\ close[k] = "locked"
  /\ pool' = "closing"
  /\ CloseAt(k, "closing")
  /\ UNCHANGED <<closed, mutex, use, result>>

\* Bug: the mutex is not released.
BugUnlock(k) ==
  /\ close[k] = "closing" /\ pool = "closed"
  /\ CloseAt(k, "returned")
  /\ UNCHANGED <<closed, mutex, use, result, pool>>

Unlock(k) ==
  /\ close[k] = "closing" /\ pool = "closed"
  /\ mutex' = NoCall
  /\ CloseAt(k, "returned")
  /\ UNCHANGED <<closed, use, result, pool>>

CloseStep(k) == Lock(k) \/ ClosePool(k) \/ Unlock(k)

\* pgxpool's Close ends once every connection is back.
PoolCloses ==
  /\ pool = "closing" /\ Holding = {}
  /\ pool' = "closed"
  /\ UNCHANGED <<closed, mutex, use, result, close>>

Finished ==
  /\ \A k \in Closes : close[k] = "returned"
  /\ UNCHANGED vars

Next ==
  \/ \E u \in Uses : Begin(u) \/ Acquire(u) \/ GiveUp(u) \/ Release(u)
  \/ \E k \in Closes : Call(k) \/ CloseStep(k)
  \/ PoolCloses
  \/ Finished

Spec == Init /\ [][Next]_vars

\* Goroutines go on, and whoever has a connection gives it back.
FairSpec ==
  /\ Spec
  /\ WF_vars(PoolCloses)
  /\ \A u \in Uses : WF_vars(Acquire(u)) /\ WF_vars(Release(u))
  /\ \A k \in Closes : WF_vars(Lock(k)) /\ WF_vars(ClosePool(k)) /\ WF_vars(Unlock(k))

----------------------------------------------------------------------------
TypeOK ==
  /\ closed \in BOOLEAN
  /\ mutex \in Closes \cup {NoCall}
  /\ use \in [Uses -> {"idle", "acquiring", "holding", "returned"}]
  /\ result \in [Uses -> {"none", "nil", "ErrClientClosed", "connection", "closed pool",
                          "context"}]
  /\ close \in [Closes -> {"idle", "locking", "locked", "closing", "returned"}]
  /\ pool \in {"open", "closing", "closed"}

\* The Close that holds the mutex is the one that closes the pool, closed is set as
\* long as anybody has closed or is closing it, and a Close returns to a closed pool.
CloseInv ==
  /\ \A k \in Closes : mutex = k <=> close[k] \in {"locked", "closing"}
  /\ closed <=> \E k \in Closes : close[k] \in {"locked", "closing", "returned"}
  /\ \A k \in Closes :
       /\ close[k] = "locked" => pool = "open"
       /\ close[k] = "closing" => pool # "open"
       /\ close[k] = "returned" => pool = "closed"
  /\ pool # "open" => closed
  /\ pool = "closing" => mutex # NoCall

\* The pool lends no more than it has, and a closed pool lends nothing.
PoolInv == (pool = "closed" => Holding = {}) /\ Cardinality(Holding) <= MaxConns

ClientInv == TypeOK /\ CloseInv /\ PoolInv

\* If whoever has a connection gives it back, every Close returns, and every Ping and
\* query that waits for a connection is answered, closed under it or not.
CallsEnd ==
  /\ \A u \in Uses : use[u] = "acquiring" ~> use[u] = "returned"
  /\ \A k \in Closes : close[k] = "locking" ~> close[k] = "returned"

----------------------------------------------------------------------------
(* The contract it shares with MongoClient: a use begins when it gets a connection *)
Used == [u \in Uses |-> IF use[u] \in {"idle", "acquiring"} THEN "idle"
                        ELSE IF use[u] = "holding" THEN "using"
                        ELSE IF result[u] = "nil" THEN "succeeded" ELSE "failed"]
Requested == [k \in Closes |->
                IF close[k] \in {"idle", "returned"} THEN close[k] ELSE "requested"]

Contract == INSTANCE SharedClient WITH phase <- pool, use <- Used, close <- Requested

\* PgClient implements the contract.
ImplementsClient == Contract!Spec
=============================================================================

-------------------------- MODULE LoggerLifecycle ---------------------------
(***************************************************************************)
(* Loggers that come and go in one process (src/logger/logger.go and the   *)
(* registry of src/logger/daily_writer.go): goroutines create loggers on   *)
(* shared paths, log through them and close them, some more than once.     *)
(*                                                                         *)
(* What Write does to the files is DailyWriter's matter; here it is one    *)
(* step under the writer's mutex.  Close holds closeMutex and then the     *)
(* writer's mutex over several steps, because another NewLogger watches    *)
(* the registry meanwhile.                                                 *)
(***************************************************************************)
CONSTANTS
  Loggers,  \* calls of NewLogger with file output
  Path,     \* Path[l]: directory and base name of logger l, the registry's key
  Entries,  \* log calls (Debug, Info, Warn or Error)
  Closes,   \* calls of Close
  Of        \* Of[x]: the logger of entry or Close x

ASSUME LoggersAssumption ==
  /\ DOMAIN Path = Loggers
  /\ Entries \cap Closes = {}
  /\ Of \in [Entries \cup Closes -> Loggers]

VARIABLES
  registry,      \* activeDailyWriters.paths
  logger,        \* "absent", "failed" or "made", by NewLogger
  closed,        \* loggers whose closed is set
  writerClosed,  \* loggers whose dailyWriter is closed
  open,          \* loggers whose dailyWriter has a file open
  closing,       \* loggers whose closeMutex is held
  locked,        \* loggers whose writer's mutex is held across steps
  closeErr,      \* loggers whose Close failed
  entry,         \* "idle", "checked", "written" or "dropped"
  close,         \* where each Close is
  result         \* what each Close returned

vars == <<registry, logger, closed, writerClosed, open, closing, locked, closeErr, entry, close,
          result>>

Init ==
  /\ registry = {}
  /\ logger = [l \in Loggers |-> "absent"]
  /\ closed = {} /\ writerClosed = {} /\ open = {}
  /\ closing = {} /\ locked = {} /\ closeErr = {}
  /\ entry = [e \in Entries |-> "idle"]
  /\ close = [k \in Closes |-> "idle"]
  /\ result = [k \in Closes |-> "none"]

----------------------------------------------------------------------------
(* NewLogger: validation and MkdirAll come before the registry, nothing that *)
(* can fail comes after it.                                                  *)

\* An option is invalid, MkdirAll fails, or another logger uses the path.
Refuse(l) ==
  /\ logger[l] = "absent"
  /\ logger' = [logger EXCEPT ![l] = "failed"]
  /\ UNCHANGED <<registry, closed, writerClosed, open, closing, locked, closeErr, entry, close,
                 result>>

Make(l) ==
  /\ logger[l] = "absent" /\ Path[l] \notin registry
  /\ registry' = registry \cup {Path[l]}
  /\ logger' = [logger EXCEPT ![l] = "made"]
  /\ UNCHANGED <<closed, writerClosed, open, closing, locked, closeErr, entry, close, result>>

----------------------------------------------------------------------------
(* Debug, Info, Warn, Error: canLog, then the writer's Write *)
EntryAt(e, place) == entry' = [entry EXCEPT ![e] = place]

CanLog(e) ==
  /\ entry[e] = "idle" /\ logger[Of[e]] = "made"
  /\ EntryAt(e, IF Of[e] \in closed THEN "dropped" ELSE "checked")
  /\ UNCHANGED <<registry, logger, closed, writerClosed, open, closing, locked, closeErr, close,
                 result>>

\* Bug: Write trusts the logger's check.
BugWrite(e) ==
  /\ entry[e] = "checked" /\ Of[e] \notin locked
  /\ EntryAt(e, "written") /\ open' = open \cup {Of[e]}
  /\ UNCHANGED <<registry, logger, closed, writerClosed, closing, locked, closeErr, close, result>>

\* A closed writer refuses, and an error of the writer is nobody's: the entry is
\* dropped, with a file open or not.
Write(e) ==
  /\ entry[e] = "checked" /\ Of[e] \notin locked
  /\ IF Of[e] \in writerClosed
     THEN EntryAt(e, "dropped") /\ UNCHANGED open
     ELSE \/ EntryAt(e, "written") /\ open' = open \cup {Of[e]}
          \/ EntryAt(e, "dropped") /\ open' \in {open \cup {Of[e]}, open \ {Of[e]}}
  /\ UNCHANGED <<registry, logger, closed, writerClosed, closing, locked, closeErr, close, result>>

----------------------------------------------------------------------------
(* Close *)
CloseAt(k, place) == close' = [close EXCEPT ![k] = place]
ErrorOf(l) == IF l \in closeErr THEN "error" ELSE "nil"

AlreadyClosed(k) ==
  /\ close[k] = "idle" /\ logger[Of[k]] = "made"
  /\ Of[k] \notin closing /\ Of[k] \in closed
  /\ CloseAt(k, "returned") /\ result' = [result EXCEPT ![k] = ErrorOf(Of[k])]
  /\ UNCHANGED <<registry, logger, closed, writerClosed, open, closing, locked, closeErr, entry>>

CloseLogger(k) ==
  /\ close[k] = "idle" /\ logger[Of[k]] = "made"
  /\ Of[k] \notin closing /\ Of[k] \notin closed
  /\ closing' = closing \cup {Of[k]}
  /\ closed' = closed \cup {Of[k]}
  /\ CloseAt(k, "closing")
  /\ UNCHANGED <<registry, logger, writerClosed, open, locked, closeErr, entry, result>>

\* dailyWriter.Close takes the writer's mutex,
CloseWriter(k) ==
  /\ close[k] = "closing" /\ Of[k] \notin locked
  /\ locked' = locked \cup {Of[k]}
  /\ writerClosed' = writerClosed \cup {Of[k]}
  /\ CloseAt(k, "file")
  /\ UNCHANGED <<registry, logger, closed, open, closing, closeErr, entry, result>>

\* Bug: the path is released first.
BugCloseFile(k) ==
  /\ close[k] = "file"
  /\ registry' = registry \ {Path[Of[k]]}
  /\ CloseAt(k, "release")
  /\ UNCHANGED <<logger, closed, writerClosed, open, closing, locked, closeErr, entry, result>>

\* closes the file, if there is one, whatever Sync and Close return,
CloseFile(k) ==
  /\ close[k] = "file"
  /\ open' = open \ {Of[k]}
  /\ \/ UNCHANGED closeErr
     \/ Of[k] \in open /\ closeErr' = closeErr \cup {Of[k]}
  /\ CloseAt(k, "release")
  /\ UNCHANGED <<registry, logger, closed, writerClosed, closing, locked, entry, result>>

\* Bug: the error path of Close leaves the writer's mutex locked.
BugUnlock(k) ==
  /\ close[k] = "release"
  /\ registry' = registry \ {Path[Of[k]]}
  /\ locked' = IF Of[k] \in closeErr THEN locked ELSE locked \ {Of[k]}
  /\ CloseAt(k, "closed")
  /\ UNCHANGED <<logger, closed, writerClosed, open, closing, closeErr, entry, result>>

\* and releases the path before the mutex: deferred calls run last in, first out.
Release(k) ==
  /\ close[k] = "release"
  /\ registry' = registry \ {Path[Of[k]]}
  /\ locked' = locked \ {Of[k]}
  /\ CloseAt(k, "closed")
  /\ UNCHANGED <<logger, closed, writerClosed, open, closing, closeErr, entry, result>>

CloseReturn(k) ==
  /\ close[k] = "closed"
  /\ closing' = closing \ {Of[k]}
  /\ CloseAt(k, "returned") /\ result' = [result EXCEPT ![k] = ErrorOf(Of[k])]
  /\ UNCHANGED <<registry, logger, closed, writerClosed, open, locked, closeErr, entry>>

CloseStep(k) ==
  \/ AlreadyClosed(k) \/ CloseLogger(k) \/ CloseWriter(k) \/ CloseFile(k)
  \/ Release(k) \/ CloseReturn(k)

Finished ==
  /\ \A l \in Loggers : logger[l] # "absent"
  /\ UNCHANGED vars

Next ==
  \/ \E l \in Loggers : Refuse(l) \/ Make(l)
  \/ \E e \in Entries : CanLog(e) \/ Write(e)
  \/ \E k \in Closes : CloseStep(k)
  \/ Finished

Spec == Init /\ [][Next]_vars

\* A goroutine that entered a call goes on.
FairSpec ==
  /\ Spec
  /\ \A e \in Entries : WF_vars(Write(e))
  /\ \A k \in Closes : WF_vars(close[k] # "idle" /\ CloseStep(k))

----------------------------------------------------------------------------
TypeOK ==
  /\ registry \subseteq {Path[l] : l \in Loggers}
  /\ logger \in [Loggers -> {"absent", "failed", "made"}]
  /\ closed \subseteq Loggers /\ open \subseteq Loggers
  /\ writerClosed \subseteq closed /\ closing \subseteq closed
  /\ locked \subseteq closing /\ closeErr \subseteq writerClosed
  /\ entry \in [Entries -> {"idle", "checked", "written", "dropped"}]
  /\ close \in [Closes -> {"idle", "closing", "file", "release", "closed", "returned"}]
  /\ result \in [Closes -> {"none", "nil", "error"}]

\* The files of a path are never open in two writers at once, not even while one
\* logger is closing and another is being made (daily_writer.go:69).
OneWriter == \A l, m \in Loggers : l # m /\ Path[l] = Path[m] => ~(l \in open /\ m \in open)

\* The logger's writer is not closed, or its Close has not yet released the path.
Reserves(l) == logger[l] = "made" /\ (l \notin writerClosed \/ l \in locked)

\* A path is reserved exactly while a logger uses it: a NewLogger that failed and a
\* Close, failed or not, leave no reservation behind.
NoStaleReservation ==
  \A l \in Loggers : Path[l] \in registry => \E m \in Loggers : Path[m] = Path[l] /\ Reserves(m)

\* Every Close of a logger returns the same.
ClosesAgree ==
  \A j, k \in Closes : Of[j] = Of[k] /\ close[j] = "returned" /\ close[k] = "returned" =>
    result[j] = result[k]

\* How far each Close is, and what that says of its logger and its writer.
InClose(k) == close[k] \in {"closing", "file", "release", "closed"}
CloseInv ==
  /\ \A l \in closed : logger[l] = "made" /\ (l \in closing \/ l \in writerClosed)
  /\ \A e \in Entries : entry[e] # "idle" => logger[Of[e]] = "made"
  /\ \A j, k \in Closes : InClose(j) /\ InClose(k) /\ Of[j] = Of[k] => j = k
  /\ \A k \in Closes :
       /\ InClose(k) => Of[k] \in closing
       /\ close[k] = "closing" => Of[k] \notin writerClosed
       /\ close[k] \in {"file", "release"} => Of[k] \in locked /\ Of[k] \in writerClosed
       /\ close[k] = "release" => Of[k] \notin open
       /\ close[k] = "closed" => Of[k] \in writerClosed /\ Of[k] \notin locked
       /\ close[k] = "returned" =>
            Of[k] \in closed /\ Of[k] \notin closing /\ result[k] = ErrorOf(Of[k])

\* Who may have a file open.
PathInv ==
  /\ \A l \in Loggers : Reserves(l) => Path[l] \in registry
  /\ \A l, m \in Loggers : Reserves(l) /\ Reserves(m) /\ Path[l] = Path[m] => l = m
  /\ \A l \in open : Reserves(l)

\* The registry and the loggers agree on who may write where, and the calls of Close
\* with each other.
RegistryInv == TypeOK /\ CloseInv /\ PathInv /\ OneWriter /\ NoStaleReservation /\ ClosesAgree

\* Once a Close has returned, whichever of the calls it is, nothing is written and
\* no file is open (logger.go:187-188).
ClosedIsFinal ==
  [][\A k \in Closes : close[k] = "returned" =>
       /\ Of[k] \notin open'
       /\ \A e \in Entries : Of[e] = Of[k] /\ entry[e] # "written" => entry'[e] # "written"]_vars

\* No call hangs: an entry on its way and a Close once begun end, whatever failed.
NothingHangs ==
  /\ \A e \in Entries : entry[e] = "checked" ~> entry[e] # "checked"
  /\ \A k \in Closes : close[k] # "idle" ~> close[k] = "returned"
=============================================================================

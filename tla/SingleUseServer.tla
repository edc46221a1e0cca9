-------------------------- MODULE SingleUseServer ---------------------------
(***************************************************************************)
(* What a server of this repository promises to the goroutines that call   *)
(* its Serve and Shutdown: it serves once, a shutdown is for ever, and a   *)
(* Shutdown that succeeds finds the service stopped and its resource (the  *)
(* connection, or the transport) released.                                 *)
(***************************************************************************)
CONSTANTS ServeCalls, ShutdownCalls

VARIABLES
  phase,     \* "fresh", "running" or "stopped"
  closed,    \* a shutdown was requested
  released,  \* the resource is released
  serve,     \* of each Serve call: "idle", "admitted" or "returned"
  shutdown   \* of each Shutdown call: "idle", "requested", "succeeded" or "failed"

vars == <<phase, closed, released, serve, shutdown>>

Init ==
  /\ phase = "fresh" /\ closed = FALSE /\ released = FALSE
  /\ serve = [c \in ServeCalls |-> "idle"]
  /\ shutdown = [s \in ShutdownCalls |-> "idle"]

Reject(c) ==
  /\ serve[c] = "idle"
  /\ serve' = [serve EXCEPT ![c] = "returned"]
  /\ UNCHANGED <<phase, closed, released, shutdown>>

Admit(c) ==
  /\ serve[c] = "idle" /\ phase = "fresh" /\ ~closed
  /\ phase' = "running"
  /\ serve' = [serve EXCEPT ![c] = "admitted"]
  /\ UNCHANGED <<closed, released, shutdown>>

Stop ==
  /\ phase = "running"
  /\ phase' = "stopped"
  /\ UNCHANGED <<closed, released, serve, shutdown>>

Return(c) ==
  /\ serve[c] = "admitted" /\ phase = "stopped"
  /\ serve' = [serve EXCEPT ![c] = "returned"]
  /\ UNCHANGED <<phase, closed, released, shutdown>>

Request(s) ==
  /\ shutdown[s] = "idle"
  /\ closed' = TRUE
  /\ shutdown' = [shutdown EXCEPT ![s] = "requested"]
  /\ UNCHANGED <<phase, released, serve>>

\* Nothing is released under a server nobody has used or stopped.
Release ==
  /\ ~released /\ (closed \/ phase # "fresh")
  /\ released' = TRUE
  /\ UNCHANGED <<phase, closed, serve, shutdown>>

Succeed(s) ==
  /\ shutdown[s] = "requested" /\ phase # "running" /\ released
  /\ shutdown' = [shutdown EXCEPT ![s] = "succeeded"]
  /\ UNCHANGED <<phase, closed, released, serve>>

Fail(s) ==
  /\ shutdown[s] = "requested"
  /\ shutdown' = [shutdown EXCEPT ![s] = "failed"]
  /\ UNCHANGED <<phase, closed, released, serve>>

Next ==
  \/ \E c \in ServeCalls : Reject(c) \/ Admit(c) \/ Return(c)
  \/ \E s \in ShutdownCalls : Request(s) \/ Succeed(s) \/ Fail(s)
  \/ Stop
  \/ Release

Spec == Init /\ [][Next]_vars
=============================================================================

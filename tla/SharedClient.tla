---------------------------- MODULE SharedClient -----------------------------
(***************************************************************************)
(* What a database client of this repository promises to the goroutines    *)
(* that share it: nothing begins once it is closing, nothing succeeds once *)
(* it is closed, and whichever of them calls Close, and however many do, a *)
(* Close that returns finds it closed.                                     *)
(***************************************************************************)
CONSTANTS Uses, Closes

VARIABLES
  phase,  \* "open", "closing" or "closed"
  use,    \* of each use: "idle", "using", "succeeded" or "failed"
  close   \* of each Close: "idle", "requested" or "returned"

vars == <<phase, use, close>>

Init ==
  /\ phase = "open"
  /\ use = [u \in Uses |-> "idle"]
  /\ close = [k \in Closes |-> "idle"]

UseTo(u, from, to) == use[u] = from /\ use' = [use EXCEPT ![u] = to]
                      /\ UNCHANGED <<phase, close>>
Begin(u) == phase = "open" /\ UseTo(u, "idle", "using")
Refuse(u) == UseTo(u, "idle", "failed")
Succeed(u) == phase # "closed" /\ UseTo(u, "using", "succeeded")
Fail(u) == UseTo(u, "using", "failed")

Request(k) ==
  /\ close[k] = "idle"
  /\ close' = [close EXCEPT ![k] = "requested"]
  /\ UNCHANGED <<phase, use>>

\* Only somebody's request closes the client, once.
Shut ==
  /\ phase = "open" /\ \E k \in Closes : close[k] = "requested"
  /\ phase' = "closing"
  /\ UNCHANGED <<use, close>>

Release ==
  /\ phase = "closing"
  /\ phase' = "closed"
  /\ UNCHANGED <<use, close>>

Return(k) ==
  /\ close[k] = "requested" /\ phase = "closed"
  /\ close' = [close EXCEPT ![k] = "returned"]
  /\ UNCHANGED <<phase, use>>

Next ==
  \/ \E u \in Uses : Begin(u) \/ Refuse(u) \/ Succeed(u) \/ Fail(u)
  \/ \E k \in Closes : Request(k) \/ Return(k)
  \/ Shut
  \/ Release

Spec == Init /\ [][Next]_vars
=============================================================================

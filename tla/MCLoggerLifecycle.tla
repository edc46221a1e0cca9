------------------------- MODULE MCLoggerLifecycle --------------------------
(* LoggerLifecycle on small instances. *)
EXTENDS LoggerLifecycle, TLC

CONSTANTS l1, l2, l3, e1, e2, e3, k1, k2, k3, p1, p2

ThreeLoggers == {l1, l2, l3}
SharedPath == l1 :> p1 @@ l2 :> p1 @@ l3 :> p2
ThreeEntries == {e1, e2, e3}
ThreeCloses == {k1, k2, k3}
Targets == e1 :> l1 @@ e2 :> l1 @@ e3 :> l2 @@ k1 :> l1 @@ k2 :> l1 @@ k3 :> l2
=============================================================================

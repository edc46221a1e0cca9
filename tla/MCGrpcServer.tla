---------------------------- MODULE MCGrpcServer ----------------------------
(* GrpcServer on small instances. *)
EXTENDS GrpcServer

CONSTANTS l1, g1, s1, s2, n1

OneListen == {l1}
OneGiven == {g1}
TwoShutdowns == {s1, s2}
OneConn == {n1}
NoCalls == {}
=============================================================================

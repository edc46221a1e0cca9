----------------------------- MODULE MCPgClient -----------------------------
(* PgClient on a small instance. *)
EXTENDS PgClient

CONSTANTS p1, p2, q1, q2, k1, k2

TwoPings == {p1, p2}
TwoQueries == {q1, q2}
TwoCloses == {k1, k2}
=============================================================================

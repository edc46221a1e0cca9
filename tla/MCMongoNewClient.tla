-------------------------- MODULE MCMongoNewClient --------------------------
(* MongoNewClient on a small instance: the right password and a wrong one. *)
EXTENDS MongoNewClient

CONSTANTS p1, p2
TwoPasswords == {p1, p2}
=============================================================================

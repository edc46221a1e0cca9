--------------------------- MODULE MCMongoClient ----------------------------
(* MongoClient on small instances. *)
EXTENDS MongoClient

CONSTANTS p1, f1, o1, k1, k2

OnePing == {p1}
OneFind == {f1}
OneSingle == {o1}
TwoCloses == {k1, k2}

\* One document, and a list whose second is a nil bson.D.
Good == [type |-> "M", fault |-> "none"]
GoodAndBad == {<<Good>>, <<Good, [type |-> "D", fault |-> "nil"]>>}
=============================================================================

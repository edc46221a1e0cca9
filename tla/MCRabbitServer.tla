--------------------------- MODULE MCRabbitServer ---------------------------
(* RabbitServer on small instances: consumers of one queue, one worker each. *)
EXTENDS RabbitServer, TLC

CONSTANTS c1, c2, s1, s2, k1, k2, k3, w1, w2, w3, q1

OneServe == {c1}
TwoServes == {c1, c2}
OneShutdown == {s1}
TwoShutdowns == {s1, s2}
OneConsumer == {k1}
ThreeConsumers == {k1, k2, k3}
OneWorker == {w1}
ThreeWorkers == {w1, w2, w3}
SingleWorker == w1 :> k1
OwnWorker == w1 :> k1 @@ w2 :> k2 @@ w3 :> k3
OneQueue == k1 :> q1
SameQueue == [k \in ThreeConsumers |-> q1]
OnlyThird == {k3}
None == {}

\* The Serve calls are alike, and so are the first two consumers with their workers.
Alike == Permutations(TwoServes) \cup {k1 :> k2 @@ k2 :> k1 @@ w1 :> w2 @@ w2 :> w1}
=============================================================================

-------------------------- MODULE MCRabbitDelivery --------------------------
(* RabbitDelivery on two workers, of one consumer or of two. *)
EXTENDS RabbitDelivery, TLC

CONSTANTS w1, w2, m1, m2

TwoWorkers == {w1, w2}
TwoMessages == {m1, m2}

\* Both of a consumer with the defaults.
Defaults == [w \in TwoWorkers |-> Default]

\* One requeues; the other discards, and has room for two.
Mixed == [Defaults EXCEPT ![w2].requeueOnError = FALSE, ![w2].prefetchCount = 2]

\* One discards, with any number of deliveries at once; the other is automatic.
Automatically == w1 :> [Default EXCEPT !.requeueOnError = FALSE, !.prefetchCount = 0]
              @@ w2 :> [Default EXCEPT !.autoAck = TRUE]

\* Both discard, one at a time.
Discarding == [w \in TwoWorkers |-> [Default EXCEPT !.requeueOnError = FALSE]]

\* Refused by newConsumer.
Refused == [Defaults EXCEPT ![w1].prefetchCount = -1]

FiveConsumers == {Defaults, Mixed, Automatically, Discarding, Refused}
=============================================================================

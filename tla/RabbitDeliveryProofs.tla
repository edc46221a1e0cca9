------------------------ MODULE RabbitDeliveryProofs ------------------------
(***************************************************************************)
(* Proofs about RabbitDelivery, for any messages, workers and options.     *)
(***************************************************************************)
EXTENDS RabbitDelivery, TLAPS

\* What the places of a message are not.
LEMMA Constants ==
  /\ NoMessage \notin Messages /\ MaxAttempts \in Nat
  /\ "ready" \notin Workers /\ "acked" \notin Workers /\ "discarded" \notin Workers
  /\ AutoAck \subseteq Workers
  BY DeliveryAssumption DEF AutoAck

\* The consumers are those that were registered.
LEMMA SameConsumers ==
  [Next]_vars => UNCHANGED <<consumer, AutoAck, Requeue>>
<1> SUFFICES ASSUME [Next]_vars PROVE UNCHANGED <<consumer, AutoAck, Requeue>>
  OBVIOUS
<1>1. consumer' = consumer
  BY DEF Next, WorkerStep, Deliver, Break, Notice, CancelConsumer, Receive, DeliveriesClosed,
         HandlerReturns, Ack, Nack, Automatic, Report, Cancel, Close, Finished, vars
<1> QED
  BY <1>1 DEF AutoAck, Requeue

(***************************************************************************)
(* The inductive invariant                                                 *)
(***************************************************************************)

\* DeliveryInv holds initially.
LEMMA DeliveryInit == Init => DeliveryInv
<1> SUFFICES ASSUME Init PROVE DeliveryInv
  OBVIOUS
<1> USE Constants DEF Init
<1>1. TypeOK
  <2>1. consumer \in Asked
    OBVIOUS
  <2>2. attempts \in [Messages -> 0..MaxAttempts]
    OBVIOUS
  <2> QED
    BY <2>1, <2>2 DEF TypeOK
<1>2. ChannelInv
  BY DEF ChannelInv
<1>3. HandlerInv
  BY DEF HandlerInv
<1>4. HeldInv
  BY DEF HeldInv, Unsettled
<1> QED
  BY <1>1, <1>2, <1>3, <1>4 DEF DeliveryInv

\* Every step preserves the types.
LEMMA TypeStep ==
  DeliveryInv /\ [Next]_vars => TypeOK'
<1> SUFFICES ASSUME DeliveryInv, [Next]_vars PROVE TypeOK'
  OBVIOUS
<1> USE Constants, SameConsumers DEF DeliveryInv, TypeOK, HandlerInv, vars, brokerVars
<1>1. ASSUME NEW w \in Workers, Deliver(w) PROVE TypeOK'
  BY <1>1 DEF Deliver
<1>2. ASSUME NEW w \in Workers, Break(w) PROVE TypeOK'
  BY <1>2 DEF Break, Requeued
<1>3. ASSUME NEW w \in Workers, Notice(w) PROVE TypeOK'
  BY <1>3 DEF Notice
<1>4. ASSUME NEW w \in Workers, CancelConsumer(w) PROVE TypeOK'
  BY <1>4 DEF CancelConsumer
<1>5. ASSUME NEW w \in Workers, Receive(w) PROVE TypeOK'
  BY <1>5 DEF Receive, Become
<1>6. ASSUME NEW w \in Workers, DeliveriesClosed(w) PROVE TypeOK'
  BY <1>6 DEF DeliveriesClosed, Become
<1>7. ASSUME NEW w \in Workers, HandlerReturns(w) PROVE TypeOK'
  BY <1>7 DEF HandlerReturns, Become
<1>8. ASSUME NEW w \in Workers, Ack(w) PROVE TypeOK'
  BY <1>8 DEF Ack, Settle, Free, Become
<1>9. ASSUME NEW w \in Workers, Nack(w) PROVE TypeOK'
  BY <1>9 DEF Nack, Settle, Become
<1>10. ASSUME NEW w \in Workers, Automatic(w) PROVE TypeOK'
  BY <1>10 DEF Automatic, Free, Become
<1>11. ASSUME NEW w \in Workers, Report(w) PROVE TypeOK'
  BY <1>11 DEF Report, Free, Become
<1>12. ASSUME Cancel PROVE TypeOK'
  BY <1>12 DEF Cancel
<1>13. ASSUME Close PROVE TypeOK'
  BY <1>13 DEF Close
<1>14. ASSUME Finished \/ UNCHANGED vars PROVE TypeOK'
  BY <1>14 DEF Finished
<1> QED
  BY <1>1, <1>2, <1>3, <1>4, <1>5, <1>6, <1>7, <1>8, <1>9, <1>10, <1>11, <1>12, <1>13,
     <1>14 DEF Next, WorkerStep

\* Every step preserves ChannelInv: a channel that breaks gives everything back.
LEMMA ChannelInvStep ==
  DeliveryInv /\ [Next]_vars => ChannelInv'
<1> SUFFICES ASSUME DeliveryInv, [Next]_vars PROVE ChannelInv'
  OBVIOUS
<1> USE Constants, SameConsumers DEF DeliveryInv, TypeOK, ChannelInv, vars, brokerVars
<1>1. ASSUME NEW w \in Workers, Deliver(w) PROVE ChannelInv'
  BY <1>1 DEF Deliver
<1>2. ASSUME NEW w \in Workers, Break(w) PROVE ChannelInv'
  BY <1>2 DEF Break, Requeued
<1>3. ASSUME NEW w \in Workers, Notice(w) PROVE ChannelInv'
  BY <1>3 DEF Notice
<1>4. ASSUME NEW w \in Workers, CancelConsumer(w) PROVE ChannelInv'
  BY <1>4 DEF CancelConsumer
<1>5. ASSUME NEW w \in Workers, Receive(w) PROVE ChannelInv'
  BY <1>5 DEF Receive, Become
<1>6. ASSUME NEW w \in Workers, DeliveriesClosed(w) PROVE ChannelInv'
  BY <1>6 DEF DeliveriesClosed, Become
<1>7. ASSUME NEW w \in Workers, HandlerReturns(w) PROVE ChannelInv'
  BY <1>7 DEF HandlerReturns, Become
<1>8. ASSUME NEW w \in Workers, Ack(w) PROVE ChannelInv'
  BY <1>8 DEF Ack, Settle, Free, Become
<1>9. ASSUME NEW w \in Workers, Nack(w) PROVE ChannelInv'
  BY <1>9 DEF Nack, Settle, Become
<1>10. ASSUME NEW w \in Workers, Automatic(w) PROVE ChannelInv'
  BY <1>10 DEF Automatic, Free, Become
<1>11. ASSUME NEW w \in Workers, Report(w) PROVE ChannelInv'
  BY <1>11 DEF Report, Free, Become
<1>12. ASSUME Cancel PROVE ChannelInv'
  BY <1>12 DEF Cancel
<1>13. ASSUME Close PROVE ChannelInv'
  BY <1>13 DEF Close
<1>14. ASSUME Finished \/ UNCHANGED vars PROVE ChannelInv'
  BY <1>14 DEF Finished
<1> QED
  BY <1>1, <1>2, <1>3, <1>4, <1>5, <1>6, <1>7, <1>8, <1>9, <1>10, <1>11, <1>12, <1>13,
     <1>14 DEF Next, WorkerStep

\* Every step preserves HandlerInv.
LEMMA HandlerInvStep ==
  DeliveryInv /\ [Next]_vars => HandlerInv'
<1> SUFFICES ASSUME DeliveryInv, [Next]_vars PROVE HandlerInv'
  OBVIOUS
<1> USE Constants, SameConsumers DEF DeliveryInv, TypeOK, HandlerInv, vars, brokerVars
<1>1. ASSUME NEW w \in Workers, Deliver(w) PROVE HandlerInv'
  BY <1>1 DEF Deliver
<1>2. ASSUME NEW w \in Workers, Break(w) PROVE HandlerInv'
  BY <1>2 DEF Break, Requeued
<1>3. ASSUME NEW w \in Workers, Notice(w) PROVE HandlerInv'
  BY <1>3 DEF Notice
<1>4. ASSUME NEW w \in Workers, CancelConsumer(w) PROVE HandlerInv'
  BY <1>4 DEF CancelConsumer
<1>5. ASSUME NEW w \in Workers, Receive(w) PROVE HandlerInv'
  BY <1>5 DEF Receive, Become
<1>6. ASSUME NEW w \in Workers, DeliveriesClosed(w) PROVE HandlerInv'
  BY <1>6 DEF DeliveriesClosed, Become
<1>7. ASSUME NEW w \in Workers, HandlerReturns(w) PROVE HandlerInv'
  BY <1>7 DEF HandlerReturns, Become
<1>8. ASSUME NEW w \in Workers, Ack(w) PROVE HandlerInv'
  BY <1>8 DEF Ack, Settle, Free, Become
<1>9. ASSUME NEW w \in Workers, Nack(w) PROVE HandlerInv'
  BY <1>9 DEF Nack, Settle, Become
<1>10. ASSUME NEW w \in Workers, Automatic(w) PROVE HandlerInv'
  BY <1>10 DEF Automatic, Free, Become
<1>11. ASSUME NEW w \in Workers, Report(w) PROVE HandlerInv'
  BY <1>11 DEF Report, Free, Become
<1>12. ASSUME Cancel PROVE HandlerInv'
  BY <1>12 DEF Cancel
<1>13. ASSUME Close PROVE HandlerInv'
  BY <1>13 DEF Close
<1>14. ASSUME Finished \/ UNCHANGED vars PROVE HandlerInv'
  BY <1>14 DEF Finished
<1> QED
  BY <1>1, <1>2, <1>3, <1>4, <1>5, <1>6, <1>7, <1>8, <1>9, <1>10, <1>11, <1>12, <1>13,
     <1>14 DEF Next, WorkerStep

\* Every step preserves HeldInv: a message moves from the queue to the buffer of one worker,
\* to its handler and, settled, out of its channel.
LEMMA HeldInvStep ==
  DeliveryInv /\ [Next]_vars => HeldInv'
<1> SUFFICES ASSUME DeliveryInv, [Next]_vars PROVE HeldInv'
  OBVIOUS
<1> USE Constants, SameConsumers DEF DeliveryInv, TypeOK, ChannelInv, HeldInv,
       Unsettled, vars, brokerVars
<1>1. ASSUME NEW w \in Workers, Deliver(w) PROVE HeldInv'
  BY <1>1 DEF Deliver
<1>2. ASSUME NEW w \in Workers, Break(w) PROVE HeldInv'
  BY <1>2 DEF Break, Requeued
<1>3. ASSUME NEW w \in Workers, Notice(w) PROVE HeldInv'
  BY <1>3 DEF Notice
<1>4. ASSUME NEW w \in Workers, CancelConsumer(w) PROVE HeldInv'
  BY <1>4 DEF CancelConsumer
<1>5. ASSUME NEW w \in Workers, Receive(w) PROVE HeldInv'
  BY <1>5 DEF Receive, Become
<1>6. ASSUME NEW w \in Workers, DeliveriesClosed(w) PROVE HeldInv'
  BY <1>6 DEF DeliveriesClosed, Become
<1>7. ASSUME NEW w \in Workers, HandlerReturns(w) PROVE HeldInv'
  BY <1>7 DEF HandlerReturns, Become
<1>8. ASSUME NEW w \in Workers, Ack(w) PROVE HeldInv'
  BY <1>8 DEF Ack, Settle, Free, Become
<1>9. ASSUME NEW w \in Workers, Nack(w) PROVE HeldInv'
  BY <1>9 DEF Nack, Settle, Become
<1>10. ASSUME NEW w \in Workers, Automatic(w) PROVE HeldInv'
  BY <1>10 DEF Automatic, Free, Become
<1>11. ASSUME NEW w \in Workers, Report(w) PROVE HeldInv'
  BY <1>11 DEF Report, Free, Become
<1>12. ASSUME Cancel PROVE HeldInv'
  BY <1>12 DEF Cancel
<1>13. ASSUME Close PROVE HeldInv'
  BY <1>13 DEF Close
<1>14. ASSUME Finished \/ UNCHANGED vars PROVE HeldInv'
  BY <1>14 DEF Finished
<1> QED
  BY <1>1, <1>2, <1>3, <1>4, <1>5, <1>6, <1>7, <1>8, <1>9, <1>10, <1>11, <1>12, <1>13,
     <1>14 DEF Next, WorkerStep

\* DeliveryInv is inductive.
THEOREM DeliveryInvariant == Spec => []DeliveryInv
<1>1. DeliveryInv /\ [Next]_vars => DeliveryInv'
  BY TypeStep, ChannelInvStep, HandlerInvStep, HeldInvStep DEF DeliveryInv
<1> QED
  BY DeliveryInit, <1>1, PTL DEF Spec

(***************************************************************************)
(* Safety                                                                  *)
(***************************************************************************)

\* What a worker that does not requeue reports is no longer its own at the broker, only the
\* end of the run or of its channel ends it, and it reports every failure of its handler
\* once (README.md:622-623, server.go:455-487).
THEOREM WorkersHold == Spec => []WorkerHolds
<1>1. DeliveryInv => WorkerHolds
  <2> SUFFICES ASSUME DeliveryInv PROVE WorkerHolds
    OBVIOUS
  <2>1. CallbackHoldsNothing
    BY Constants DEF DeliveryInv, TypeOK, ChannelInv, HeldInv, CallbackHoldsNothing
  <2>2. WorkersPersist
    BY DEF DeliveryInv, ChannelInv, WorkersPersist
  <2>3. EveryFailureReported
    <3> SUFFICES ASSUME NEW w \in Workers,
                        work[w] \in {"receiving", "handling", "succeeded", "ended"}
                 PROVE  reports[w] = failures[w]
      BY DEF EveryFailureReported
    <3>1. failures[w] = reports[w] + 0 /\ reports[w] \in Nat
      BY DEF DeliveryInv, TypeOK, HandlerInv
    <3> QED
      BY <3>1
  <2> QED
    BY <2>1, <2>2, <2>3 DEF WorkerHolds
<1> QED
  BY DeliveryInvariant, <1>1, PTL

\* A worker that waits owes the broker only what it has still to receive, so that its
\* prefetch is never used up for good.
THEOREM NothingIsOwed == Spec => []NothingOwed
<1>1. DeliveryInv => NothingOwed
  BY DEF DeliveryInv, TypeOK, HeldInv, NothingOwed, Unsettled, Unacked
<1> QED
  BY DeliveryInvariant, <1>1, PTL

\* Every step preserves ForgottenForAReason.
LEMMA ForgottenStep ==
  DeliveryInv /\ ForgottenForAReason /\ [Next]_vars => ForgottenForAReason'
<1> SUFFICES ASSUME DeliveryInv, ForgottenForAReason, [Next]_vars PROVE ForgottenForAReason'
  OBVIOUS
<1> USE Constants, SameConsumers DEF DeliveryInv, TypeOK, HandlerInv,
       ForgottenForAReason, vars, brokerVars
<1>1. ASSUME NEW w \in Workers, Deliver(w) PROVE ForgottenForAReason'
  <2>1. PICK m \in Messages :
          /\ place[m] = "ready"
          /\ place' = [place EXCEPT ![m] = IF w \in AutoAck THEN "acked" ELSE w]
    BY <1>1 DEF Deliver
  <2>2. UNCHANGED <<succeeded, failed>>
    BY <1>1 DEF Deliver
  <2>3. CASE w \in AutoAck
    BY <2>1, <2>2, <2>3
  <2>4. CASE w \notin AutoAck
    BY <2>1, <2>2, <2>4
  <2> QED
    BY <2>3, <2>4
<1>2. ASSUME NEW w \in Workers, Break(w) PROVE ForgottenForAReason'
  BY <1>2 DEF Break, Requeued
<1>3. ASSUME NEW w \in Workers, HandlerReturns(w) PROVE ForgottenForAReason'
  BY <1>3 DEF HandlerReturns, Become
<1>4. ASSUME NEW w \in Workers, Ack(w) PROVE ForgottenForAReason'
  <2>1. current[w] \in succeeded /\ UNCHANGED <<succeeded, failed>>
    BY <1>4 DEF Ack
  <2>2. place' = place \/ place' = [place EXCEPT ![current[w]] = "acked"]
    BY <1>4 DEF Ack, Settle
  <2> QED
    BY <2>1, <2>2
<1>5. ASSUME NEW w \in Workers, Nack(w) PROVE ForgottenForAReason'
  <2> DEFINE to == IF w \in Requeue THEN "ready" ELSE "discarded"
  <2>1. /\ current[w] \in Messages /\ <<current[w], w>> \in failed
        /\ UNCHANGED <<succeeded, failed>>
    BY <1>5 DEF Nack
  <2>2. place' = place \/ place' = [place EXCEPT ![current[w]] = to]
    BY <1>5 DEF Nack, Settle
  <2>3. CASE w \in Requeue
    BY <2>1, <2>2, <2>3
  <2>4. CASE w \notin Requeue
    BY <2>1, <2>2, <2>4
  <2> QED
    BY <2>3, <2>4
<1>6. ASSUME Close PROVE ForgottenForAReason'
  BY <1>6 DEF Close
<1>7. ASSUME NEW w \in Workers, Notice(w) \/ CancelConsumer(w) \/ Receive(w) \/
   DeliveriesClosed(w) \/ Automatic(w) \/ Report(w) PROVE ForgottenForAReason'
  BY <1>7 DEF Notice, CancelConsumer, Receive, Become, DeliveriesClosed, Automatic, Free,
     Report
<1>8. ASSUME Cancel \/ Finished \/ UNCHANGED vars PROVE ForgottenForAReason'
  BY <1>8 DEF Cancel, Finished
<1> QED
  BY <1>1, <1>2, <1>3, <1>4, <1>5, <1>6, <1>7, <1>8 DEF Next, WorkerStep

\* At least once: the broker forgets a message only for a handler that returned nil, or
\* for one that failed where failures are not requeued, whatever breaks in between
\* (README.md:614-621).
THEOREM AtLeastOnce == Spec => []ForgottenForAReason
<1>1. Init => ForgottenForAReason
  BY DEF Init, ForgottenForAReason
<1>2. DeliveryInv /\ ForgottenForAReason /\ [Next]_vars => ForgottenForAReason'
  BY ForgottenStep
<1> QED
  BY DeliveryInvariant, <1>1, <1>2, PTL DEF Spec
=============================================================================

--------------------------- MODULE RabbitDelivery ---------------------------
(***************************************************************************)
(* What becomes of the messages of one queue (consume and processDelivery  *)
(* of src/rabbitmq/server.go): the workers of its consumers, each with its *)
(* own channel, the handler, the acknowledgements, and the broker.         *)
(*                                                                         *)
(* The rest of the run is in RabbitServer; here it is its context, which   *)
(* may end at any time (cancelled).  A channel breaks at the broker before *)
(* the client notices: an acknowledgement sent meanwhile returns nil and   *)
(* has no effect.                                                          *)
(***************************************************************************)
EXTENDS Integers, FiniteSets

CONSTANTS
  Messages,
  Workers,
  Asked,        \* what the options given to RegisterConsumer ask for each worker
  MaxAttempts,  \* bound: times a message is delivered
  NoMessage

\* The fields of consumer that processDelivery and the broker look at.
Options == [autoAck : BOOLEAN, requeueOnError : BOOLEAN, prefetchCount : Int]

ASSUME DeliveryAssumption ==
  /\ Messages \cap Workers = {} /\ NoMessage \notin Messages
  /\ {"ready", "acked", "discarded"} \cap Workers = {}
  /\ Asked # {} /\ Asked \subseteq [Workers -> Options]
  /\ MaxAttempts \in Nat

VARIABLES
  consumer,   \* the configuration of each worker's consumer
  cancelled,  \* the context of the run has ended
  \* broker and driver (external)
  place,      \* of each message at the broker: "ready", the worker whose channel
              \* has it unacknowledged, "acked" or "discarded"
  attempts,   \* how often each message was delivered
  link,       \* each worker's channel: "up", "broken" (not noticed) or "closed"
  consuming,  \* workers the broker still delivers to
  buffer,     \* each worker's deliveries channel
  \* workers
  work,       \* "receiving", "handling", "succeeded", "failed", "reporting",
              \* "reportingLast" (its Nack failed) or "ended"
  current,    \* the message each worker has
  \* history
  succeeded,  \* messages a handler returned nil for
  failed,     \* messages a handler failed for, with its worker
  failures, reports  \* of each worker: handler failures, calls of errorHandler

brokerVars == <<place, attempts, link, consuming, buffer>>
vars == <<consumer, cancelled, brokerVars, work, current, succeeded, failed, failures, reports>>

\* newConsumer's defaults: one delivery at a time, requeued on error.
Default == [autoAck |-> FALSE, requeueOnError |-> TRUE, prefetchCount |-> 1]

\* What consumer.validate requires of the options that bear on deliveries.
Validate(options) == options.prefetchCount >= 0

Init ==
  /\ consumer \in {f \in Asked : \A w \in Workers : Validate(f[w])}
  /\ cancelled = FALSE
  /\ place = [m \in Messages |-> "ready"]
  /\ attempts = [m \in Messages |-> 0]
  /\ link = [w \in Workers |-> "up"]
  /\ consuming = Workers
  /\ buffer = [w \in Workers |-> {}]
  /\ work = [w \in Workers |-> "receiving"]
  /\ current = [w \in Workers |-> NoMessage]
  /\ succeeded = {} /\ failed = {}
  /\ failures = [w \in Workers |-> 0] /\ reports = [w \in Workers |-> 0]

----------------------------------------------------------------------------
(* Broker and driver *)
AutoAck == {w \in Workers : consumer[w].autoAck}
Requeue == {w \in Workers : consumer[w].requeueOnError}
Unacked(w) == {m \in Messages : place[m] = w}

\* Qos: a prefetch of zero is no limit.
Room(w) == LET limit == consumer[w].prefetchCount
           IN  limit = 0 \/ Cardinality(Unacked(w)) < limit

\* With automatic acknowledgement the broker forgets what it delivers, and no QoS
\* was asked for.
Deliver(w) ==
  /\ w \in consuming /\ link[w] = "up"
  /\ w \in AutoAck \/ Room(w)
  /\ \E m \in Messages :
       /\ place[m] = "ready" /\ attempts[m] < MaxAttempts
       /\ place' = [place EXCEPT ![m] = IF w \in AutoAck THEN "acked" ELSE w]
       /\ attempts' = [attempts EXCEPT ![m] = @ + 1]
       /\ buffer' = [buffer EXCEPT ![w] = @ \cup {m}]
  /\ UNCHANGED <<consumer, cancelled, link, consuming, work, current, succeeded, failed, failures, reports>>

\* What a channel that goes away had unacknowledged is ready again.
Requeued(w) == [m \in Messages |-> IF place[m] = w THEN "ready" ELSE place[m]]

Break(w) ==
  /\ link[w] = "up"
  /\ link' = [link EXCEPT ![w] = "broken"]
  /\ place' = Requeued(w)
  /\ UNCHANGED <<consumer, cancelled, attempts, consuming, buffer, work, current, succeeded, failed,
                 failures, reports>>

Notice(w) ==
  /\ link[w] = "broken"
  /\ link' = [link EXCEPT ![w] = "closed"]
  /\ consuming' = consuming \ {w}
  /\ UNCHANGED <<consumer, cancelled, place, attempts, buffer, work, current, succeeded, failed,
                 failures, reports>>

\* Serve's context ends; the driver then cancels each consumer, and what it has
\* buffered is still delivered.
Cancel ==
  /\ ~cancelled
  /\ cancelled' = TRUE
  /\ UNCHANGED <<consumer, brokerVars, work, current, succeeded, failed, failures, reports>>

CancelConsumer(w) ==
  /\ cancelled /\ w \in consuming
  /\ consuming' = consuming \ {w}
  /\ UNCHANGED <<consumer, cancelled, place, attempts, link, buffer, work, current, succeeded, failed,
                 failures, reports>>

----------------------------------------------------------------------------
(* consume *)
Become(w, p) == work' = [work EXCEPT ![w] = p]

Receive(w) ==
  /\ work[w] = "receiving"
  /\ \E m \in buffer[w] :
       /\ buffer' = [buffer EXCEPT ![w] = @ \ {m}]
       /\ current' = [current EXCEPT ![w] = m]
  /\ Become(w, "handling")
  /\ UNCHANGED <<consumer, cancelled, place, attempts, link, consuming, succeeded, failed, failures, reports>>

\* The range ends once the consumer is cancelled and its buffer drained; the
\* driver drops the buffer of a closed channel.
DeliveriesClosed(w) ==
  /\ work[w] = "receiving" /\ w \notin consuming
  /\ buffer[w] = {} \/ link[w] = "closed"
  /\ buffer' = [buffer EXCEPT ![w] = {}]
  /\ Become(w, "ended")
  /\ UNCHANGED <<consumer, cancelled, place, attempts, link, consuming, current, succeeded, failed,
                 failures, reports>>

----------------------------------------------------------------------------
(* processDelivery *)

\* callHandler: a panic is an error.
HandlerReturns(w) ==
  /\ work[w] = "handling"
  /\ \/ Become(w, "succeeded") /\ succeeded' = succeeded \cup {current[w]}
        /\ UNCHANGED <<failed, failures>>
     \/ Become(w, "failed") /\ failed' = failed \cup {<<current[w], w>>}
        /\ failures' = [failures EXCEPT ![w] = @ + 1] /\ UNCHANGED succeeded
  /\ UNCHANGED <<consumer, cancelled, brokerVars, current, reports>>

\* Bug: nothing is sent to the broker.
BugSettle(w, p) == UNCHANGED place

\* An acknowledgement takes effect only on a channel that is up.
Settle(w, p) ==
  place' = IF link[w] = "up" /\ place[current[w]] = w
           THEN [place EXCEPT ![current[w]] = p] ELSE place

Free(w, p) == Become(w, p) /\ current' = [current EXCEPT ![w] = NoMessage]

\* A failed Ack ends the worker with an infrastructure error.
Ack(w) ==
  /\ work[w] = "succeeded" /\ w \notin AutoAck
  /\ IF link[w] = "closed" THEN Free(w, "ended") /\ UNCHANGED place
     ELSE Settle(w, "acked") /\ Free(w, "receiving")
  /\ UNCHANGED <<consumer, cancelled, attempts, link, consuming, buffer, succeeded, failed, failures, reports>>

\* Bug: every delivery is confirmed, whatever its handler returned.
BugNack(w) ==
  /\ work[w] = "failed" /\ w \notin AutoAck
  /\ IF link[w] = "closed" THEN Become(w, "reportingLast") /\ UNCHANGED place
     ELSE Settle(w, "acked") /\ Become(w, "reporting")
  /\ UNCHANGED <<consumer, cancelled, attempts, link, consuming, buffer, current, succeeded, failed,
                 failures, reports>>

\* Bug: the callback comes first, and the Nack with its return.
BugNackLast(w) ==
  /\ work[w] = "failed" /\ w \notin AutoAck
  /\ Become(w, "reporting")
  /\ UNCHANGED <<consumer, cancelled, brokerVars, current, succeeded, failed, failures, reports>>

\* Bug: a Nack is tried until it succeeds.
BugNackRetries(w) ==
  /\ work[w] = "failed" /\ w \notin AutoAck /\ link[w] # "closed"
  /\ Settle(w, IF w \in Requeue THEN "ready" ELSE "discarded")
  /\ Become(w, "reporting")
  /\ UNCHANGED <<consumer, cancelled, attempts, link, consuming, buffer, current, succeeded, failed,
                 failures, reports>>

\* Nack comes before the callback, and its failure after.
Nack(w) ==
  /\ work[w] = "failed" /\ w \notin AutoAck
  /\ IF link[w] = "closed" THEN Become(w, "reportingLast") /\ UNCHANGED place
     ELSE /\ Settle(w, IF w \in Requeue THEN "ready" ELSE "discarded")
          /\ Become(w, "reporting")
  /\ UNCHANGED <<consumer, cancelled, attempts, link, consuming, buffer, current, succeeded, failed,
                 failures, reports>>

\* Automatic acknowledgement: nothing to settle, the failure is only reported.
Automatic(w) ==
  /\ w \in AutoAck
  /\ \/ work[w] = "succeeded" /\ Free(w, "receiving")
     \/ work[w] = "failed" /\ Become(w, "reporting") /\ UNCHANGED current
  /\ UNCHANGED <<consumer, cancelled, brokerVars, succeeded, failed, failures, reports>>

\* reportHandlerError, whose callback may panic.
Report(w) ==
  /\ work[w] \in {"reporting", "reportingLast"}
  /\ reports' = [reports EXCEPT ![w] = @ + 1]
  /\ Free(w, IF work[w] = "reporting" THEN "receiving" ELSE "ended")
  /\ UNCHANGED <<consumer, cancelled, brokerVars, succeeded, failed, failures>>

WorkerStep(w) ==
  \/ Receive(w) \/ DeliveriesClosed(w) \/ HandlerReturns(w)
  \/ Ack(w) \/ Nack(w) \/ Automatic(w) \/ Report(w)

\* closeConsumerChannels, once every worker has ended.
Close ==
  /\ \A w \in Workers : work[w] = "ended"
  /\ \E w \in Workers : link[w] # "closed"
  /\ link' = [w \in Workers |-> "closed"]
  /\ consuming' = {}
  /\ place' = [m \in Messages |-> IF place[m] \in Workers THEN "ready" ELSE place[m]]
  /\ UNCHANGED <<consumer, cancelled, attempts, buffer, work, current, succeeded, failed, failures, reports>>

\* The broker has nothing more to give, or the run is over.
Finished ==
  /\ \/ \A m \in Messages : place[m] \in {"acked", "discarded"} \/ attempts[m] = MaxAttempts
     \/ \A w \in Workers : link[w] = "closed"
  /\ UNCHANGED vars

Next ==
  \/ \E w \in Workers : \/ Deliver(w) \/ Break(w) \/ Notice(w) \/ CancelConsumer(w)
                        \/ WorkerStep(w)
  \/ Cancel
  \/ Close
  \/ Finished

Spec == Init /\ [][Next]_vars

\* Every goroutine that can run does, handlers return, a broken channel is noticed
\* and the broker delivers what it can.
FairSpec ==
  /\ Spec
  /\ \A w \in Workers : /\ WF_vars(WorkerStep(w)) /\ WF_vars(Deliver(w))
                        /\ WF_vars(Notice(w)) /\ WF_vars(CancelConsumer(w))
  /\ WF_vars(Close)

----------------------------------------------------------------------------
TypeOK ==
  /\ consumer \in Asked
  /\ cancelled \in BOOLEAN
  /\ place \in [Messages -> {"ready", "acked", "discarded"} \cup Workers]
  /\ attempts \in [Messages -> 0..MaxAttempts]
  /\ link \in [Workers -> {"up", "broken", "closed"}]
  /\ consuming \subseteq Workers
  /\ buffer \in [Workers -> SUBSET Messages]
  /\ work \in [Workers -> {"receiving", "handling", "succeeded", "failed", "reporting",
                           "reportingLast", "ended"}]
  /\ current \in [Workers -> Messages \cup {NoMessage}]
  /\ \A w \in Workers : current[w] = NoMessage <=> work[w] \in {"receiving", "ended"}
  /\ succeeded \subseteq Messages /\ failed \subseteq Messages \X Workers
  /\ failures \in [Workers -> Nat] /\ reports \in [Workers -> Nat]

\* At least once: without an automatic consumer the broker forgets a message only
\* for a handler that succeeded, or for one that failed at a worker that does not
\* requeue (README.md:614-621).
ForgottenForAReason ==
  \A m \in Messages :
    /\ place[m] = "acked" => m \in succeeded \/ AutoAck # {}
    /\ place[m] = "discarded" => \E w \in Workers \ Requeue : <<m, w>> \in failed

\* While the callback runs the message is no longer this worker's at the broker
\* (README.md:622-623); a requeued one can be back by a new delivery, so this is
\* said of the others.
CallbackHoldsNothing ==
  \A w \in Workers \ Requeue : work[w] = "reporting" => place[current[w]] # w

\* Only the end of the run or of its channel ends a worker, never a handler.
WorkersPersist ==
  \A w \in Workers : work[w] = "ended" => cancelled \/ link[w] = "closed"

\* Each handler failure is reported once, even if the Nack failed too.
EveryFailureReported ==
  \A w \in Workers :
    work[w] \in {"receiving", "handling", "succeeded", "ended"} => reports[w] = failures[w]

(* What the two above, and what follows, rest on. *)

\* What the state of a channel says of the consumer and of its messages.
ChannelInv ==
  \A w \in Workers :
    /\ w \notin consuming \/ work[w] = "ended" => cancelled \/ link[w] = "closed"
    /\ work[w] = "reportingLast" => link[w] = "closed"
    /\ link[w] # "up" \/ w \in AutoAck => \A m \in Messages : place[m] # w

\* Where a worker is with a message tells what its handler returned.
HandlerInv ==
  \A w \in Workers :
    /\ work[w] = "succeeded" => current[w] \in succeeded
    /\ work[w] = "failed" => <<current[w], w>> \in failed
    /\ failures[w] =
         reports[w] + (IF work[w] \in {"failed", "reporting", "reportingLast"} THEN 1 ELSE 0)

\* What a channel that is up has unacknowledged is what its worker has still to receive,
\* and what it has not settled yet.
Unsettled(w) == work[w] \in {"handling", "succeeded", "failed"}
HeldInv ==
  \A w \in Workers \ AutoAck :
    link[w] = "up" =>
      /\ \A m \in Messages : place[m] = w => m \in buffer[w] \/ (Unsettled(w) /\ m = current[w])
      /\ \A m \in buffer[w] : place[m] = w
      /\ Unsettled(w) => current[w] \notin buffer[w] /\ place[current[w]] = w
      /\ work[w] = "reporting" /\ w \notin Requeue => place[current[w]] = "discarded"

\* The inductive invariant.
DeliveryInv == TypeOK /\ ChannelInv /\ HandlerInv /\ HeldInv

\* What a worker holds, what of it is still its own at the broker, what it reported
\* and how long it goes on.
WorkerHolds == DeliveryInv /\ CallbackHoldsNothing /\ WorkersPersist /\ EveryFailureReported

\* A worker waiting for a delivery owes the broker nothing but what it has still to
\* receive; a delivery neither settled nor returned would use up the prefetch.
NothingOwed ==
  \A w \in Workers \ AutoAck :
    work[w] = "receiving" /\ link[w] = "up" => Unacked(w) = buffer[w]

(* What these two wait for, and what they assume, stays true: P ~> Q is []<>(P => Q). *)

\* Without requeue every message is settled, unless the run is over or lost a channel.
EverythingSettles ==
  []<>(\A m \in Messages :
         \/ place[m] \in {"acked", "discarded"}
         \/ cancelled \/ Requeue \ AutoAck # {} \/ \E w \in Workers : link[w] # "up")

\* Whatever happens, a worker whose run has ended or whose channel is lost ends, and
\* nothing stays unacknowledged.
WorkersEnd ==
  []<>(cancelled \/ (\A w \in Workers : link[w] = "closed") =>
         /\ \A w \in Workers : work[w] = "ended"
         /\ \A m \in Messages : place[m] \notin Workers)

\* Messages and workers come to their end.
QueueDrains == EverythingSettles /\ WorkersEnd
=============================================================================

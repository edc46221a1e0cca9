SPECIFICATION Spec
CONSTANTS
  c1 = c1
  c2 = c2
  s1 = s1
  s2 = s2
  k1 = k1
  k2 = k2
  k3 = k3
  w1 = w1
  w2 = w2
  w3 = w3
  q1 = q1
  NoCall = NoCall
  ServeCalls <- OneServe
  ShutdownCalls <- OneShutdown
  Consumers <- OneConsumer
  Workers <- OneWorker
  Owner <- SingleWorker
  Queue <- OneQueue
  Exclusive <- None
  AutoAck <- None
INVARIANTS FailuresReported

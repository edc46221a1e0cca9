SPECIFICATION Spec
CONSTANTS
  c1 = c1
  c2 = c2
  s1 = s1
  s2 = s2
  k1 = k1
  k2 = k2
  k3 = k3
  w1 = w1
  w2 = w2
  w3 = w3
  q1 = q1
  NoCall = NoCall
  ServeCalls <- TwoServes
  ShutdownCalls <- OneShutdown
  Consumers <- ThreeConsumers
  Workers <- ThreeWorkers
  Owner <- OwnWorker
  Queue <- SameQueue
  Exclusive <- OnlyThird
  AutoAck <- OnlyThird
SYMMETRY Alike
INVARIANTS EventsInOrder ChannelsReleased ExclusiveAlone
PROPERTIES SingleRun

SPECIFICATION FairSpec
CONSTANTS
  w1 = w1
  w2 = w2
  m1 = m1
  m2 = m2
  NoMessage = NoMessage
  Workers <- TwoWorkers
  Messages <- TwoMessages
  Asked <- FiveConsumers
  MaxAttempts = 2
INVARIANTS WorkerHolds ForgottenForAReason NothingOwed
PROPERTIES QueueDrains

SPECIFICATION FairSpec
CONSTANTS
  p1 = p1
  p2 = p2
  q1 = q1
  q2 = q2
  k1 = k1
  k2 = k2
  NoCall = NoCall
  Pings <- TwoPings
  Queries <- TwoQueries
  Closes <- TwoCloses
  MaxConns = 1
INVARIANTS ClientInv
PROPERTIES ImplementsClient CallsEnd

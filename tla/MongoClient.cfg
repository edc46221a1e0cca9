SPECIFICATION FairSpec
CONSTANTS
  p1 = p1
  f1 = f1
  o1 = o1
  k1 = k1
  k2 = k2
  NewCall = NewCall
  NoCall = NoCall
  Pings <- OnePing
  Finds <- OneFind
  Singles <- OneSingle
  Closes <- TwoCloses
  Arguments <- GoodAndBad
INVARIANTS ClientInv ErrorsTell
PROPERTIES ImplementsClient CloseBounded

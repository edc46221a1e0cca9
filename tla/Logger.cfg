SPECIFICATION FairSpec
CONSTANTS
  l1 = l1
  l2 = l2
  l3 = l3
  e1 = e1
  e2 = e2
  e3 = e3
  k1 = k1
  k2 = k2
  k3 = k3
  p1 = p1
  p2 = p2
  Loggers <- ThreeLoggers
  Path <- SharedPath
  Entries <- ThreeEntries
  Closes <- ThreeCloses
  Of <- Targets
INVARIANTS RegistryInv
PROPERTIES ClosedIsFinal NothingHangs

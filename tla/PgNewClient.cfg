SPECIFICATION NewSpec
CONSTANTS
  a1 = a1
  a2 = a2
  a3 = a3
  a4 = a4
  h1 = h1
  h2 = h2
  n1 = n1
  Addresses <- FourAddresses
  Host <- Hosts
  Sockets <- OneSocket
  HostLists <- Lists
  Routes <- SomeRoutes
  Modes <- AllModes
  Names <- OneName
  Values <- AroundZero
  MaxOptions = 3
INVARIANTS StageInv NoPlainTransport TLSCoversAll

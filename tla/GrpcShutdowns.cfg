SPECIFICATION FairSpec
CONSTANTS
  l1 = l1
  g1 = g1
  s1 = s1
  s2 = s2
  n1 = n1
  NoCall = NoCall
  ListenCalls <- OneListen
  GivenCalls <- OneGiven
  ShutdownCalls <- TwoShutdowns
  Conns <- OneConn
INVARIANTS ServeResults GracefulIsQuiet ListenersClosed
PROPERTIES ImplementsContract ShutdownBounded ShutdownEndsServe

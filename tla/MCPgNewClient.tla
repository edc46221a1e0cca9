--------------------------- MODULE MCPgNewClient ----------------------------
(* PgNewClient on a small instance: two ports of one host, a socket
   and an empty host. *)
EXTENDS PgNewClient, TLC

CONSTANTS a1, a2, a3, a4, h1, h2, n1

FourAddresses == {a1, a2, a3, a4}
Hosts == a1 :> h1 @@ a2 :> h1 @@ a3 :> h2 @@ a4 :> EmptyHost
OneSocket == {h2}
Lists == {<<a1>>, <<a1, a2>>, <<a1, a1>>, <<a3, a1>>}
SomeRoutes ==
  {<<Endpoint(a1, Plain)>>,
   <<Endpoint(a2, Encrypted), Endpoint(a1, Authority), Endpoint(a2, Plain)>>,
   <<Endpoint(a1, Verified(h1)), Endpoint(a4, Encrypted)>>}
OneName == {n1}
AroundZero == -1..2
=============================================================================

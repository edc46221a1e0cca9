-------------------------- MODULE MongoClientProofs --------------------------
(***************************************************************************)
(* Proofs about MongoClient, for any goroutines, calls and arguments.      *)
(***************************************************************************)
EXTENDS MongoClient, TLAPS

\* Who is who.
LEMMA Callers ==
  /\ Finds \subseteq Operations /\ Operations \subseteq Uses /\ Pings \subseteq Uses
  /\ Pings \cap Operations = {} /\ Closes \subseteq Closers
  /\ NewCall \in Closers /\ Uses \cap Closers = {} /\ NoCall \notin Closers
  BY MongoAssumption DEF Operations, Uses, Closers

(***************************************************************************)
(* The inductive invariant                                                 *)
(***************************************************************************)

\* ClientInv holds initially.
LEMMA ClientInit == Init => ClientInv
<1> SUFFICES ASSUME Init PROVE ClientInv
  OBVIOUS
<1> USE Callers DEF Init
<1>1. TypeOK
  BY DEF TypeOK
<1>2. OnceInv
  BY DEF OnceInv
<1>3. DriverInv /\ UseInv
  BY DEF DriverInv, UseInv
<1>4. NoDriverLeak /\ ClosesAgree
  BY DEF NoDriverLeak, ClosesAgree
<1> QED
  BY <1>1, <1>2, <1>3, <1>4 DEF ClientInv

\* Every step preserves the types.
LEMMA TypeStep == ClientInv /\ [Next]_vars => TypeOK'
<1> SUFFICES ASSUME ClientInv, [Next]_vars PROVE TypeOK'
  OBVIOUS
<1> USE Callers DEF ClientInv, TypeOK, vars, newVars, useVars, closeVars
<1>1. ASSUME Connect PROVE TypeOK'
  BY <1>1 DEF Connect
<1>2. ASSUME FirstPing PROVE TypeOK'
  BY <1>2 DEF FirstPing
<1>3. ASSUME CleanedUp PROVE TypeOK'
  BY <1>3 DEF CleanedUp
<1>4. ASSUME NewRepository PROVE TypeOK'
  BY <1>4 DEF NewRepository
<1>5. ASSUME NEW u \in Uses, Begin(u) PROVE TypeOK'
  BY <1>5 DEF Begin, Goto, Return
<1>6. ASSUME NEW u \in Uses, Answer(u) PROVE TypeOK'
  BY <1>6 DEF Answer, Goto
<1>7. ASSUME NEW u \in Uses, Send(u) PROVE TypeOK'
  BY <1>7 DEF Send, Goto
<1>8. ASSUME NEW u \in Uses, NextBatch(u) PROVE TypeOK'
  BY <1>8 DEF NextBatch, Goto
<1>9. ASSUME NEW u \in Uses, Succeed(u) PROVE TypeOK'
  BY <1>9 DEF Succeed, Goto, Return
<1>10. ASSUME NEW u \in Uses, Fail(u) PROVE TypeOK'
  <2>1. cause[u] \in {"failure", "disconnection"}
    BY <1>10 DEF Fail, UseInv
  <2>2. Errors(u) \in SUBSET {"ErrClientClosed", "failure", "disconnection"}
    BY <2>1 DEF Errors
  <2>3. /\ result' = [result EXCEPT ![u] = Errors(u)]
        /\ \E place \in {"leaving", "returned"} : use' = [use EXCEPT ![u] = place]
    BY <1>10 DEF Fail, Goto, Return
  <2> QED
    BY <1>10, <2>2, <2>3 DEF Fail
<1>11. ASSUME NEW k \in Closers, Once(k) PROVE TypeOK'
  BY <1>11 DEF Once, Called, Win, CloseAt
<1>12. ASSUME NEW k \in Closers, Store(k) PROVE TypeOK'
  BY <1>12 DEF Store, CloseAt
<1>13. ASSUME NEW k \in Closers, Disconnect(k) PROVE TypeOK'
  BY <1>13 DEF Disconnect, CloseAt
<1>14. ASSUME NEW k \in Closers, Disconnected(k) PROVE TypeOK'
  BY <1>14 DEF Disconnected, CloseAt
<1>15. ASSUME NEW k \in Closers, CloseReturn(k) PROVE TypeOK'
  BY <1>15 DEF CloseReturn, CloseAt, Return
<1>16. ASSUME DriverDisconnects PROVE TypeOK'
  BY <1>16 DEF DriverDisconnects, Running, Killing
<1>17. ASSUME ContextEnds PROVE TypeOK'
  BY <1>17 DEF ContextEnds
<1>18. ASSUME NEW u \in Uses, CloseCursor(u) PROVE TypeOK'
  BY <1>18 DEF CloseCursor, Goto
<1>19. ASSUME NEW u \in Uses, CursorClosed(u) PROVE TypeOK'
  BY <1>19 DEF CursorClosed, Goto
<1>20. ASSUME Finished \/ UNCHANGED vars PROVE TypeOK'
  BY <1>20 DEF Finished
<1> QED
  BY <1>1, <1>2, <1>3, <1>4, <1>5, <1>6, <1>7, <1>8, <1>9, <1>10, <1>11, <1>12, <1>13,
     <1>14, <1>15, <1>16, <1>17, <1>18, <1>19, <1>20 DEF Next, UseStep, CloseStep

\* Every step preserves OnceInv: closeOnce admits one Close.
LEMMA OnceStep == ClientInv /\ [Next]_vars => OnceInv'
<1> SUFFICES ASSUME ClientInv, [Next]_vars PROVE OnceInv'
  OBVIOUS
<1> USE Callers DEF ClientInv, TypeOK, OnceInv, DriverInv, vars, newVars, useVars, closeVars
<1>1. ASSUME Connect PROVE OnceInv'
  BY <1>1 DEF Connect
<1>2. ASSUME FirstPing PROVE OnceInv'
  BY <1>2 DEF FirstPing
<1>3. ASSUME CleanedUp PROVE OnceInv'
  BY <1>3 DEF CleanedUp
<1>4. ASSUME NewRepository PROVE OnceInv'
  BY <1>4 DEF NewRepository
<1>5. ASSUME NEW u \in Uses, Begin(u) PROVE OnceInv'
  BY <1>5 DEF Begin, Goto, Return
<1>6. ASSUME NEW u \in Uses, Answer(u) PROVE OnceInv'
  BY <1>6 DEF Answer, Goto
<1>7. ASSUME NEW u \in Uses, Send(u) PROVE OnceInv'
  BY <1>7 DEF Send, Goto
<1>8. ASSUME NEW u \in Uses, NextBatch(u) PROVE OnceInv'
  BY <1>8 DEF NextBatch, Goto
<1>9. ASSUME NEW u \in Uses, Succeed(u) PROVE OnceInv'
  BY <1>9 DEF Succeed, Goto, Return
<1>10. ASSUME NEW u \in Uses, Fail(u) PROVE OnceInv'
  BY <1>10 DEF Fail, Errors, Goto, Return
<1>11. ASSUME NEW k \in Closers, Once(k) PROVE OnceInv'
  BY <1>11 DEF Once, Called, Win, CloseAt
<1>12. ASSUME NEW k \in Closers, Store(k) PROVE OnceInv'
  BY <1>12 DEF Store, CloseAt
<1>13. ASSUME NEW k \in Closers, Disconnect(k) PROVE OnceInv'
  BY <1>13 DEF Disconnect, CloseAt
<1>14. ASSUME NEW k \in Closers, Disconnected(k) PROVE OnceInv'
  BY <1>14 DEF Disconnected, CloseAt
<1>15. ASSUME NEW k \in Closers, CloseReturn(k) PROVE OnceInv'
  BY <1>15 DEF CloseReturn, CloseAt, Return
<1>16. ASSUME DriverDisconnects PROVE OnceInv'
  BY <1>16 DEF DriverDisconnects, Running, Killing
<1>17. ASSUME ContextEnds PROVE OnceInv'
  BY <1>17 DEF ContextEnds
<1>18. ASSUME NEW u \in Uses, CloseCursor(u) PROVE OnceInv'
  BY <1>18 DEF CloseCursor, Goto
<1>19. ASSUME NEW u \in Uses, CursorClosed(u) PROVE OnceInv'
  BY <1>19 DEF CursorClosed, Goto
<1>20. ASSUME Finished \/ UNCHANGED vars PROVE OnceInv'
  BY <1>20 DEF Finished
<1> QED
  BY <1>1, <1>2, <1>3, <1>4, <1>5, <1>6, <1>7, <1>8, <1>9, <1>10, <1>11, <1>12, <1>13,
     <1>14, <1>15, <1>16, <1>17, <1>18, <1>19, <1>20 DEF Next, UseStep, CloseStep

\* Every step preserves DriverInv.
LEMMA DriverStep == ClientInv /\ [Next]_vars => DriverInv'
<1> SUFFICES ASSUME ClientInv, [Next]_vars PROVE DriverInv'
  OBVIOUS
<1> USE Callers DEF ClientInv, TypeOK, OnceInv, DriverInv, vars, newVars, useVars, closeVars
<1>1. ASSUME Connect PROVE DriverInv'
  BY <1>1 DEF Connect
<1>2. ASSUME FirstPing PROVE DriverInv'
  BY <1>2 DEF FirstPing
<1>3. ASSUME CleanedUp PROVE DriverInv'
  BY <1>3 DEF CleanedUp
<1>4. ASSUME NewRepository PROVE DriverInv'
  BY <1>4 DEF NewRepository
<1>5. ASSUME NEW u \in Uses, Begin(u) PROVE DriverInv'
  BY <1>5 DEF Begin, Goto, Return
<1>6. ASSUME NEW u \in Uses, Answer(u) PROVE DriverInv'
  BY <1>6 DEF Answer, Goto
<1>7. ASSUME NEW u \in Uses, Send(u) PROVE DriverInv'
  BY <1>7 DEF Send, Goto
<1>8. ASSUME NEW u \in Uses, NextBatch(u) PROVE DriverInv'
  BY <1>8 DEF NextBatch, Goto
<1>9. ASSUME NEW u \in Uses, Succeed(u) PROVE DriverInv'
  BY <1>9 DEF Succeed, Goto, Return
<1>10. ASSUME NEW u \in Uses, Fail(u) PROVE DriverInv'
  BY <1>10 DEF Fail, Errors, Goto, Return
<1>11. ASSUME NEW k \in Closers, Once(k) PROVE DriverInv'
  BY <1>11 DEF Once, Called, Win, CloseAt
<1>12. ASSUME NEW k \in Closers, Store(k) PROVE DriverInv'
  BY <1>12 DEF Store, CloseAt
<1>13. ASSUME NEW k \in Closers, Disconnect(k) PROVE DriverInv'
  BY <1>13 DEF Disconnect, CloseAt
<1>14. ASSUME NEW k \in Closers, Disconnected(k) PROVE DriverInv'
  BY <1>14 DEF Disconnected, CloseAt
<1>15. ASSUME NEW k \in Closers, CloseReturn(k) PROVE DriverInv'
  BY <1>15 DEF CloseReturn, CloseAt, Return
<1>16. ASSUME DriverDisconnects PROVE DriverInv'
  BY <1>16 DEF DriverDisconnects, Running, Killing
<1>17. ASSUME ContextEnds PROVE DriverInv'
  BY <1>17 DEF ContextEnds
<1>18. ASSUME NEW u \in Uses, CloseCursor(u) PROVE DriverInv'
  BY <1>18 DEF CloseCursor, Goto
<1>19. ASSUME NEW u \in Uses, CursorClosed(u) PROVE DriverInv'
  BY <1>19 DEF CursorClosed, Goto
<1>20. ASSUME Finished \/ UNCHANGED vars PROVE DriverInv'
  BY <1>20 DEF Finished
<1> QED
  BY <1>1, <1>2, <1>3, <1>4, <1>5, <1>6, <1>7, <1>8, <1>9, <1>10, <1>11, <1>12, <1>13,
     <1>14, <1>15, <1>16, <1>17, <1>18, <1>19, <1>20 DEF Next, UseStep, CloseStep

\* Every step preserves UseInv.
LEMMA UseInvStep == ClientInv /\ [Next]_vars => UseInv'
<1> SUFFICES ASSUME ClientInv, [Next]_vars PROVE UseInv'
  OBVIOUS
<1> USE Callers DEF ClientInv, TypeOK, OnceInv, DriverInv, UseInv, vars, newVars, useVars, closeVars
<1>1. ASSUME Connect PROVE UseInv'
  BY <1>1 DEF Connect
<1>2. ASSUME FirstPing PROVE UseInv'
  BY <1>2 DEF FirstPing
<1>3. ASSUME CleanedUp PROVE UseInv'
  BY <1>3 DEF CleanedUp
<1>4. ASSUME NewRepository PROVE UseInv'
  BY <1>4 DEF NewRepository
<1>5. ASSUME NEW u \in Uses, Begin(u) PROVE UseInv'
  BY <1>5 DEF Begin, Goto, Return
<1>6. ASSUME NEW u \in Uses, Answer(u) PROVE UseInv'
  BY <1>6 DEF Answer, Goto
<1>7. ASSUME NEW u \in Uses, Send(u) PROVE UseInv'
  BY <1>7 DEF Send, Goto
<1>8. ASSUME NEW u \in Uses, NextBatch(u) PROVE UseInv'
  BY <1>8 DEF NextBatch, Goto
<1>9. ASSUME NEW u \in Uses, Succeed(u) PROVE UseInv'
  BY <1>9 DEF Succeed, Goto, Return
<1>10. ASSUME NEW u \in Uses, Fail(u) PROVE UseInv'
  BY <1>10 DEF Fail, Errors, Goto, Return
<1>11. ASSUME NEW k \in Closers, Once(k) PROVE UseInv'
  BY <1>11 DEF Once, Called, Win, CloseAt
<1>12. ASSUME NEW k \in Closers, Store(k) PROVE UseInv'
  BY <1>12 DEF Store, CloseAt
<1>13. ASSUME NEW k \in Closers, Disconnect(k) PROVE UseInv'
  BY <1>13 DEF Disconnect, CloseAt
<1>14. ASSUME NEW k \in Closers, Disconnected(k) PROVE UseInv'
  BY <1>14 DEF Disconnected, CloseAt
<1>15. ASSUME NEW k \in Closers, CloseReturn(k) PROVE UseInv'
  BY <1>15 DEF CloseReturn, CloseAt, Return
<1>16. ASSUME DriverDisconnects PROVE UseInv'
  BY <1>16 DEF DriverDisconnects, Running, Killing
<1>17. ASSUME ContextEnds PROVE UseInv'
  BY <1>17 DEF ContextEnds
<1>18. ASSUME NEW u \in Uses, CloseCursor(u) PROVE UseInv'
  BY <1>18 DEF CloseCursor, Goto
<1>19. ASSUME NEW u \in Uses, CursorClosed(u) PROVE UseInv'
  BY <1>19 DEF CursorClosed, Goto
<1>20. ASSUME Finished \/ UNCHANGED vars PROVE UseInv'
  BY <1>20 DEF Finished
<1> QED
  BY <1>1, <1>2, <1>3, <1>4, <1>5, <1>6, <1>7, <1>8, <1>9, <1>10, <1>11, <1>12, <1>13,
     <1>14, <1>15, <1>16, <1>17, <1>18, <1>19, <1>20 DEF Next, UseStep, CloseStep

\* However many goroutines use and close the client, closeOnce, closed and the driver
\* tell one story: one Close closes, all return its result, and a NewClient that fails
\* leaves no connected driver (client.go:85, client.go:146-181).
THEOREM ClientInvariant == Spec => []ClientInv
<1>1. ClientInv /\ [Next]_vars => ClientInv'
  <2>1. ASSUME ClientInv, [Next]_vars PROVE OnceInv' => ClosesAgree'
    BY DEF OnceInv, ClosesAgree
  <2>2. ASSUME ClientInv, [Next]_vars PROVE DriverInv' => NoDriverLeak'
    BY DEF DriverInv, NoDriverLeak
  <2> QED
    BY TypeStep, OnceStep, DriverStep, UseInvStep, <2>1, <2>2 DEF ClientInv
<1> QED
  BY ClientInit, <1>1, PTL DEF Spec

(***************************************************************************)
(* What the errors of the uses tell                                        *)
(***************************************************************************)

\* Every step preserves ErrorsTell.
LEMMA ErrorsStep == ClientInv /\ ErrorsTell /\ [Next]_vars => ErrorsTell'
<1> SUFFICES ASSUME ClientInv, ErrorsTell, [Next]_vars PROVE ErrorsTell'
  OBVIOUS
<1> USE Callers DEF ClientInv, TypeOK, DriverInv, UseInv, ErrorsTell, InterruptionIsTold, FindIsWhole, vars, newVars, useVars, closeVars
<1>1. ASSUME Connect PROVE ErrorsTell'
  BY <1>1 DEF Connect
<1>2. ASSUME FirstPing PROVE ErrorsTell'
  BY <1>2 DEF FirstPing
<1>3. ASSUME CleanedUp PROVE ErrorsTell'
  BY <1>3 DEF CleanedUp
<1>4. ASSUME NewRepository PROVE ErrorsTell'
  BY <1>4 DEF NewRepository
<1>5. ASSUME NEW u \in Uses, Begin(u) PROVE ErrorsTell'
  BY <1>5 DEF Begin, Goto, Return
<1>6. ASSUME NEW u \in Uses, Answer(u) PROVE ErrorsTell'
  BY <1>6 DEF Answer, Goto
<1>7. ASSUME NEW u \in Uses, Send(u) PROVE ErrorsTell'
  BY <1>7 DEF Send, Goto
<1>8. ASSUME NEW u \in Uses, NextBatch(u) PROVE ErrorsTell'
  BY <1>8 DEF NextBatch, Goto
<1>9. ASSUME NEW u \in Uses, Succeed(u) PROVE ErrorsTell'
  BY <1>9 DEF Succeed, Goto, Return
<1>10. ASSUME NEW u \in Uses, Fail(u) PROVE ErrorsTell'
  BY <1>10 DEF Fail, Errors, Goto, Return
<1>11. ASSUME NEW k \in Closers, Once(k) PROVE ErrorsTell'
  BY <1>11 DEF Once, Called, Win, CloseAt
<1>12. ASSUME NEW k \in Closers, Store(k) PROVE ErrorsTell'
  BY <1>12 DEF Store, CloseAt
<1>13. ASSUME NEW k \in Closers, Disconnect(k) PROVE ErrorsTell'
  BY <1>13 DEF Disconnect, CloseAt
<1>14. ASSUME NEW k \in Closers, Disconnected(k) PROVE ErrorsTell'
  BY <1>14 DEF Disconnected, CloseAt
<1>15. ASSUME NEW k \in Closers, CloseReturn(k) PROVE ErrorsTell'
  BY <1>15 DEF CloseReturn, CloseAt, Return
<1>16. ASSUME DriverDisconnects PROVE ErrorsTell'
  BY <1>16 DEF DriverDisconnects, Running, Killing
<1>17. ASSUME ContextEnds PROVE ErrorsTell'
  BY <1>17 DEF ContextEnds
<1>18. ASSUME NEW u \in Uses, CloseCursor(u) PROVE ErrorsTell'
  BY <1>18 DEF CloseCursor, Goto
<1>19. ASSUME NEW u \in Uses, CursorClosed(u) PROVE ErrorsTell'
  BY <1>19 DEF CursorClosed, Goto
<1>20. ASSUME Finished \/ UNCHANGED vars PROVE ErrorsTell'
  BY <1>20 DEF Finished
<1> QED
  BY <1>1, <1>2, <1>3, <1>4, <1>5, <1>6, <1>7, <1>8, <1>9, <1>10, <1>11, <1>12, <1>13,
     <1>14, <1>15, <1>16, <1>17, <1>18, <1>19, <1>20 DEF Next, UseStep, CloseStep

\* A use that Close interrupts says so, and an operation keeps the driver's error; a Find
\* that returns no error has read its whole answer (README.md:404-405).
THEOREM ErrorsAlwaysTell == Spec => []ErrorsTell
<1>1. Init => ErrorsTell
  BY Callers DEF Init, ErrorsTell, InterruptionIsTold, FindIsWhole
<1>2. ClientInv /\ ErrorsTell /\ [Next]_vars => ErrorsTell'
  BY ErrorsStep
<1> QED
  BY ClientInvariant, <1>1, <1>2, PTL DEF Spec

(***************************************************************************)
(* The contract of SharedClient                                            *)
(***************************************************************************)

\* Init is mapped to the contract's.
LEMMA ContractInit == Init => Contract!Init
  BY DEF Init, Contract!Init, Phase, Used, Requested

\* A use that moves is mapped to a use that moves, or to nothing,
LEMMA UseMoves ==
  ASSUME TypeOK, NEW u \in Uses, NEW place \in {"checked", "running", "failing"},
         Goto(u, place), UNCHANGED <<result, more>>,
         Used[u] = "using"
  PROVE  Used' = Used
  BY DEF TypeOK, Used, Goto

\* one that returns, to its end.
LEMMA UseReturns ==
  ASSUME TypeOK, NEW u \in Uses, NEW errors, Goto(u, "returned"), Return(u, errors),
         UNCHANGED more
  PROVE  Used' = [Used EXCEPT ![u] = IF errors = {} THEN "succeeded" ELSE "failed"]
  BY DEF TypeOK, Used, Goto, Return

\* and one that is answered with nothing left to read, to its success.
LEMMA UseAnswered ==
  ASSUME TypeOK, NEW u \in Uses, Goto(u, "answered"), UNCHANGED result,
         more' \in {more \ {u}, more \cup ({u} \cap Finds)}, u \notin Pings \cup more'
  PROVE  Used' = [Used EXCEPT ![u] = "succeeded"]
<1>1. use' = [use EXCEPT ![u] = "answered"] /\ DOMAIN use = Uses
  BY DEF TypeOK, Goto
<1>2. ASSUME NEW v \in Uses, v # u
      PROVE  use'[v] = use[v] /\ result'[v] = result[v] /\ (v \in more' <=> v \in more)
  <2>1. use'[v] = use[v] /\ result'[v] = result[v]
    BY <1>1, <1>2
  <2>2. v \in more' <=> v \in more
    BY <1>2
  <2> QED
    BY <2>1, <2>2
<1>3. use'[u] = "answered"
  BY <1>1
<1> QED
  BY <1>2, <1>3 DEF Used

\* Every step is one of the contract's or a stutter.
LEMMA ContractStep ==
  ClientInv /\ [Next]_vars => [Contract!Next]_<<Phase, Used, Requested>>
<1> DEFINE Same == UNCHANGED <<Phase, Used, Requested>>
<1> SUFFICES ASSUME ClientInv, [Next]_vars PROVE Contract!Next \/ Same
  OBVIOUS
<1> USE Callers DEF ClientInv, newVars, useVars, closeVars
<1>1. ASSUME Connect \/ FirstPing \/ CleanedUp \/ NewRepository PROVE Same
  BY <1>1 DEF Connect, FirstPing, CleanedUp, NewRepository, DriverInv, Phase, Used, Requested
<1>2. ASSUME NEW u \in Uses, Begin(u)
      PROVE  Contract!Begin(u) \/ Contract!Refuse(u)
  <2>1. Phase' = Phase /\ Requested' = Requested /\ Used[u] = "idle" /\ UNCHANGED more
    BY <1>2 DEF Begin, Phase, Requested, Used
  <2>2. ASSUME NEW e, Goto(u, "returned"), Return(u, {e}) PROVE Contract!Refuse(u)
    BY <2>1, <2>2, UseReturns DEF Contract!Refuse, Contract!UseTo
  <2>3. ASSUME Goto(u, "checked"), UNCHANGED result, ~closed PROVE Contract!Begin(u)
    <3>1. Used' = [Used EXCEPT ![u] = "using"]
      BY <2>1, <2>3 DEF TypeOK, Used, Goto
    <3> QED
      BY <2>1, <2>3, <3>1 DEF Contract!Begin, Contract!UseTo, Phase
  <2> QED
    BY <1>2, <2>2, <2>3 DEF Begin
<1>3. ASSUME NEW u \in Uses, Send(u) PROVE Same
  <2>1. Used[u] = "using"
    BY <1>3 DEF Send, Used
  <2> QED
    BY <1>3, <2>1, UseMoves DEF Send, Phase, Requested
<1>4. ASSUME NEW u \in Uses, Answer(u) PROVE Contract!Succeed(u) \/ Same
  <2>1. Used[u] = "using" /\ Phase # "closed" /\ Phase' = Phase /\ Requested' = Requested
    BY <1>4 DEF Answer, Used, Phase, Requested, UseInv
  <2>2. ASSUME Goto(u, "answered"), more' \in {more \ {u}, more \cup ({u} \cap Finds)}, u \notin Pings \cup more'
        PROVE  Contract!Succeed(u)
    <3>1. Used' = [Used EXCEPT ![u] = "succeeded"]
      BY <1>4, <2>1, <2>2, UseAnswered DEF Answer
    <3> QED
      BY <2>1, <3>1 DEF Contract!Succeed, Contract!UseTo
  <2>3. ASSUME Goto(u, "answered"), more' \in {more \ {u}, more \cup ({u} \cap Finds)}, u \in Pings \cup more'
        PROVE  Same
    <3>1. Used' = Used
      BY <1>4, <2>3 DEF Answer, TypeOK, Used, Goto
    <3> QED
      BY <2>1, <3>1
  <2>4. ASSUME Goto(u, "failing"), UNCHANGED more PROVE Same
    BY <1>4, <2>1, <2>4, UseMoves DEF Answer
  <2> QED
    BY <1>4, <2>2, <2>3, <2>4 DEF Answer
<1>5. ASSUME NEW u \in Uses, NextBatch(u) PROVE Same
  <2>1. Used[u] = "using"
    BY <1>5 DEF NextBatch, Used
  <2> QED
    BY <1>5, <2>1, UseMoves DEF NextBatch, Phase, Requested
<1>6. ASSUME NEW u \in Uses, Succeed(u)
      PROVE  Contract!Succeed(u) \/ Contract!Fail(u) \/ Same
  <2>1. Phase' = Phase /\ Requested' = Requested /\ UNCHANGED more
    BY <1>6 DEF Succeed, Phase, Requested
  <2>2. CASE u \in Pings /\ closed
    <3>1. Used[u] = "using" /\ Goto(u, "returned") /\ Return(u, {"ErrClientClosed"})
      BY <1>6, <2>2 DEF Succeed, Used
    <3> QED
      BY <2>1, <3>1, UseReturns DEF Contract!Fail, Contract!UseTo
  <2>3. CASE u \in Pings /\ ~closed
    <3>1. Used[u] = "using" /\ Goto(u, "returned") /\ Return(u, {}) /\ Phase = "open"
      BY <1>6, <2>3 DEF Succeed, Used, Phase
    <3> QED
      BY <2>1, <3>1, UseReturns DEF Contract!Succeed, Contract!UseTo
  <2>4. CASE u \notin Pings
    <3>1. Used[u] = "succeeded" /\ Goto(u, "returned") /\ Return(u, {})
      BY <1>6, <2>4 DEF Succeed, Used
    <3>2. Used' = [Used EXCEPT ![u] = "succeeded"]
      BY <2>1, <3>1, UseReturns
    <3>3. Used' = Used
      BY <3>1, <3>2 DEF Used
    <3> QED
      BY <2>1, <3>3
  <2> QED
    BY <2>2, <2>3, <2>4
<1>7. ASSUME NEW u \in Uses, Fail(u) PROVE Contract!Fail(u) \/ Same
  <2>1. Phase' = Phase /\ Requested' = Requested /\ UNCHANGED more /\ Used[u] = "using"
    BY <1>7 DEF Fail, Phase, Requested, Used
  <2>2. Return(u, Errors(u)) /\ Errors(u) # {}
    BY <1>7 DEF Fail, Errors
  <2>3. CASE Goto(u, "returned")
    BY <2>1, <2>2, <2>3, UseReturns DEF Contract!Fail, Contract!UseTo
  <2>4. CASE Goto(u, "leaving")
    <3>1. Used' = Used
      BY <2>1, <2>2, <2>4 DEF TypeOK, Used, Goto, Return
    <3> QED
      BY <2>1, <3>1
  <2> QED
    BY <1>7, <2>3, <2>4 DEF Fail
<1>8. ASSUME NEW k \in Closers, Once(k) PROVE Contract!Request(k)
  <2>1. Requested[k] = "idle" /\ UNCHANGED <<Phase, Used>>
    BY <1>8 DEF Once, Called, Requested, Phase, Used
  <2>2. PICK place \in {"closing", "waiting"} : CloseAt(k, place)
    BY <1>8 DEF Once, Win
  <2>3. Requested' = [Requested EXCEPT ![k] = "requested"]
    BY <2>2 DEF TypeOK, CloseAt, Requested
  <2> QED
    BY <2>1, <2>3 DEF Contract!Request
<1>9. ASSUME NEW k \in Closers, Store(k) PROVE Contract!Shut
  <2>1. Requested' = Requested /\ Used' = Used /\ Requested[k] = "requested"
    BY <1>9 DEF Store, TypeOK, CloseAt, Requested, Used
  <2>2. Phase = "open" /\ Phase' = "closing"
    BY <1>9 DEF Store, Phase, OnceInv, DriverInv
  <2> QED
    BY <2>1, <2>2 DEF Contract!Shut
<1>10. ASSUME NEW k \in Closers, Disconnect(k) PROVE Same
  <2>1. Requested' = Requested /\ Used' = Used
    BY <1>10 DEF Disconnect, TypeOK, CloseAt, Requested, Used
  <2>2. Phase' = Phase
    BY <1>10 DEF Disconnect, Phase, OnceInv
  <2> QED
    BY <2>1, <2>2
<1>11. ASSUME NEW k \in Closers, Disconnected(k) PROVE Same
  BY <1>11 DEF Disconnected, TypeOK, CloseAt, Requested, Used, Phase
<1>12. ASSUME NEW k \in Closers, CloseReturn(k) PROVE Contract!Return(k)
  <2>1. Phase = "closed" /\ Phase' = Phase
    BY <1>12 DEF CloseReturn, Phase, OnceInv, DriverInv
  <2>2. Requested[k] = "requested" /\ Requested' = [Requested EXCEPT ![k] = "returned"]
    BY <1>12 DEF CloseReturn, TypeOK, CloseAt, Requested
  <2>3. Used' = Used
    BY <1>12 DEF CloseReturn, Return, TypeOK, Used
  <2> QED
    BY <2>1, <2>2, <2>3 DEF Contract!Return
<1>13. ASSUME DriverDisconnects PROVE Contract!Release
  <2>1. Phase = "closing" /\ Phase' = "closed"
    BY <1>13 DEF DriverDisconnects, Phase, DriverInv
  <2>2. Used' = Used
    BY <1>13 DEF DriverDisconnects, TypeOK, Running, Killing, Used
  <2>3. Requested' = Requested
    BY <1>13 DEF DriverDisconnects, Requested
  <2> QED
    BY <2>1, <2>2, <2>3 DEF Contract!Release
<1>14. ASSUME ContextEnds PROVE Same
  BY <1>14 DEF ContextEnds, Phase, Used, Requested
<1>15. ASSUME NEW u \in Uses, CloseCursor(u) \/ CursorClosed(u)
       PROVE  Contract!Fail(u) \/ Same
  <2>1. /\ Phase' = Phase /\ Requested' = Requested /\ UNCHANGED <<more, result>>
        /\ Used[u] = "using" /\ result[u] # {}
    BY <1>15 DEF CloseCursor, CursorClosed, Phase, Requested, Used, UseInv
  <2>2. CASE Goto(u, "killing")
    <3>1. Used' = Used
      BY <2>1, <2>2 DEF TypeOK, Used, Goto
    <3> QED
      BY <2>1, <3>1
  <2>3. CASE Goto(u, "returned")
    <3>1. Used' = [Used EXCEPT ![u] = "failed"]
      BY <2>1, <2>3 DEF TypeOK, Used, Goto
    <3> QED
      BY <2>1, <3>1 DEF Contract!Fail, Contract!UseTo
  <2> QED
    BY <1>15, <2>2, <2>3 DEF CloseCursor, CursorClosed
<1>16. ASSUME Finished \/ UNCHANGED vars PROVE Same
  BY <1>16 DEF Finished, vars, Phase, Used, Requested
<1> QED
  BY <1>1, <1>2, <1>3, <1>4, <1>5, <1>6, <1>7, <1>8, <1>9, <1>10, <1>11, <1>12, <1>13,
     <1>14, <1>15, <1>16 DEF Next, UseStep, CloseStep, Contract!Next

\* MongoClient implements the contract it shares with PgClient: nothing begins once it is
\* closing, nothing succeeds once it is closed, and a Close that returns finds it closed.
THEOREM Implementation == Spec => ImplementsClient
<1>1. ClientInv /\ [Next]_vars => [Contract!Next]_(Contract!vars)
  BY ContractStep DEF Contract!vars
<1> QED
  BY ContractInit, ClientInvariant, <1>1, PTL DEF Spec, ImplementsClient, Contract!Spec
=============================================================================

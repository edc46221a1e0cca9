-------------------------- MODULE GrpcServerProofs --------------------------
(***************************************************************************)
(* Proofs about GrpcServer, for any calls, connections and listeners.      *)
(***************************************************************************)
EXTENDS GrpcServer, TLAPS

(***************************************************************************)
(* The inductive invariant                                                 *)
(***************************************************************************)

\* ServerInv holds initially.
LEMMA ServerInit == Init => ServerInv
<1> SUFFICES ASSUME Init PROVE ServerInv
  OBVIOUS
<1> USE GrpcAssumption DEF Init
<1>1. TypeOK
  BY DEF TypeOK, ServeCalls, Stops
<1>2. AdmissionInv /\ ResultInv /\ ListenerInv
  BY DEF AdmissionInv, ResultInv, ListenerInv, Serving, ServeCalls
<1>3. StopInv
  BY DEF StopInv, Stops
<1> QED
  BY <1>1, <1>2, <1>3 DEF ServerInv

\* Every step preserves the types.
LEMMA TypeStep == ServerInv /\ [Next]_vars => TypeOK'
<1> SUFFICES ASSUME ServerInv, [Next]_vars PROVE TypeOK'
  OBVIOUS
<1> USE DEF ServerInv, TypeOK, ResultInv, Stops, vars, fields, driver
<1>1. ASSUME NEW c \in ServeCalls, CheckClosed(c) PROVE TypeOK'
  BY <1>1 DEF CheckClosed, Goto, Return
<1>2. ASSUME NEW c \in ServeCalls, Listen(c) PROVE TypeOK'
  BY <1>2 DEF Listen, Goto, Return
<1>3. ASSUME NEW c \in ServeCalls, Reject(c) PROVE TypeOK'
  BY <1>3 DEF Reject, Entering, Goto, Return
<1>4. ASSUME NEW c \in ServeCalls, Admit(c) PROVE TypeOK'
  BY <1>4 DEF Admit, Entering, Goto
<1>5. ASSUME NEW c \in ServeCalls, DriverServe(c) PROVE TypeOK'
  BY <1>5 DEF DriverServe, Goto, Return
<1>6. ASSUME NEW c \in ServeCalls, AcceptEnds(c) PROVE TypeOK'
  BY <1>6 DEF AcceptEnds, Goto, Return
<1>7. ASSUME NEW c \in ServeCalls, DriverStopped(c) PROVE TypeOK'
  BY <1>7 DEF DriverStopped, Goto, Return
<1>8. ASSUME NEW c \in ServeCalls, ClearRunning(c) PROVE TypeOK'
  BY <1>8 DEF ClearRunning, Goto
<1>9. ASSUME NEW c \in ServeCalls, Leave(c) PROVE TypeOK'
  BY <1>9 DEF Leave, Outcome, Leftover, Goto, Return
<1>10. ASSUME NEW s \in ShutdownCalls, ShutdownMark(s) PROVE TypeOK'
  BY <1>10 DEF ShutdownMark
<1>11. ASSUME NEW s \in ShutdownCalls, ShutdownStart(s) PROVE TypeOK'
  BY <1>11 DEF ShutdownStart, StartStop
<1>12. ASSUME NEW s \in ShutdownCalls, ShutdownDone(s) PROVE TypeOK'
  BY <1>12 DEF ShutdownDone
<1>13. ASSUME NEW s \in ShutdownCalls, ShutdownForce(s) PROVE TypeOK'
  BY <1>13 DEF ShutdownForce, StartStop
<1>14. ASSUME NEW s \in ShutdownCalls, ContextEnds(s) PROVE TypeOK'
  BY <1>14 DEF ContextEnds
<1>15. ASSUME NEW k \in Stops, StopQuit(k) PROVE TypeOK'
  BY <1>15 DEF StopQuit, StopAt, MutexFree
<1>16. ASSUME NEW k \in Stops, StopConns(k) PROVE TypeOK'
  BY <1>16 DEF StopConns, StopAt, MutexFree
<1>17. ASSUME NEW k \in Stops, StopDone(k) PROVE TypeOK'
  BY <1>17 DEF StopDone, StopAt, Joined, MutexFree
<1>18. ASSUME NEW k \in Stops, SignalShutdownDone(k) PROVE TypeOK'
  BY <1>18 DEF SignalShutdownDone, StopAt
<1>19. ASSUME NEW n \in Conns, Connect(n) PROVE TypeOK'
  BY <1>19 DEF Connect, ConnAt
<1>20. ASSUME NEW n \in Conns, Call(n) PROVE TypeOK'
  BY <1>20 DEF Call, ConnAt
<1>21. ASSUME NEW n \in Conns, Disconnect(n) \/ HandlerReturns(n) PROVE TypeOK'
  BY <1>21 DEF Disconnect, HandlerReturns, ConnAt
<1>22. ASSUME Finished \/ UNCHANGED vars PROVE TypeOK'
  BY <1>22 DEF Finished
<1>23. ASSUME NEW k \in Stops, StopJoin(k) PROVE TypeOK'
  BY <1>23 DEF StopJoin, StopAt, MutexFree
<1> QED
  BY <1>1, <1>2, <1>3, <1>4, <1>5, <1>6, <1>7, <1>8, <1>9, <1>10, <1>11, <1>12, <1>13,
     <1>14, <1>15, <1>16, <1>17, <1>18, <1>19, <1>20, <1>21, <1>22, <1>23 DEF Next, ServeStep,
     ShutdownStep, StopStep

\* Every step preserves AdmissionInv: only Admit and ClearRunning, both under stateMutex,
\* change the flags.
LEMMA AdmissionStep == ServerInv /\ [Next]_vars => AdmissionInv'
<1> SUFFICES ASSUME ServerInv, [Next]_vars PROVE AdmissionInv'
  OBVIOUS
<1> USE GrpcAssumption DEF ServerInv, TypeOK, AdmissionInv, Serving, vars, fields, driver
<1>1. ASSUME NEW c \in ServeCalls, CheckClosed(c) PROVE AdmissionInv'
  BY <1>1 DEF CheckClosed, Goto, Return
<1>2. ASSUME NEW c \in ServeCalls, Listen(c) PROVE AdmissionInv'
  BY <1>2 DEF Listen, Goto, Return
<1>3. ASSUME NEW c \in ServeCalls, Reject(c) PROVE AdmissionInv'
  BY <1>3 DEF Reject, Entering, Goto, Return
<1>4. ASSUME NEW c \in ServeCalls, Admit(c) PROVE AdmissionInv'
  BY <1>4 DEF Admit, Entering, Goto
<1>5. ASSUME NEW c \in ServeCalls, DriverServe(c) PROVE AdmissionInv'
  BY <1>5 DEF DriverServe, Goto, Return
<1>6. ASSUME NEW c \in ServeCalls, AcceptEnds(c) PROVE AdmissionInv'
  BY <1>6 DEF AcceptEnds, Goto, Return
<1>7. ASSUME NEW c \in ServeCalls, DriverStopped(c) PROVE AdmissionInv'
  BY <1>7 DEF DriverStopped, Goto, Return
<1>8. ASSUME NEW c \in ServeCalls, ClearRunning(c) PROVE AdmissionInv'
  BY <1>8 DEF ClearRunning, Goto
<1>9. ASSUME NEW c \in ServeCalls, Leave(c) PROVE AdmissionInv'
  BY <1>9 DEF Leave, Outcome, Leftover, Goto, Return
<1>10. ASSUME NEW s \in ShutdownCalls, ShutdownMark(s) PROVE AdmissionInv'
  BY <1>10 DEF ShutdownMark
<1>11. ASSUME NEW s \in ShutdownCalls, ShutdownStart(s) PROVE AdmissionInv'
  BY <1>11 DEF ShutdownStart, StartStop
<1>12. ASSUME NEW s \in ShutdownCalls, ShutdownDone(s) PROVE AdmissionInv'
  BY <1>12 DEF ShutdownDone
<1>13. ASSUME NEW s \in ShutdownCalls, ShutdownForce(s) PROVE AdmissionInv'
  BY <1>13 DEF ShutdownForce, StartStop
<1>14. ASSUME NEW s \in ShutdownCalls, ContextEnds(s) PROVE AdmissionInv'
  BY <1>14 DEF ContextEnds
<1>15. ASSUME NEW k \in Stops, StopQuit(k) PROVE AdmissionInv'
  BY <1>15 DEF StopQuit, StopAt, MutexFree
<1>16. ASSUME NEW k \in Stops, StopConns(k) PROVE AdmissionInv'
  BY <1>16 DEF StopConns, StopAt, MutexFree
<1>17. ASSUME NEW k \in Stops, StopDone(k) PROVE AdmissionInv'
  BY <1>17 DEF StopDone, StopAt, Joined, MutexFree
<1>18. ASSUME NEW k \in Stops, SignalShutdownDone(k) PROVE AdmissionInv'
  BY <1>18 DEF SignalShutdownDone, StopAt
<1>19. ASSUME NEW n \in Conns, Connect(n) PROVE AdmissionInv'
  BY <1>19 DEF Connect, ConnAt
<1>20. ASSUME NEW n \in Conns, Call(n) PROVE AdmissionInv'
  BY <1>20 DEF Call, ConnAt
<1>21. ASSUME NEW n \in Conns, Disconnect(n) \/ HandlerReturns(n) PROVE AdmissionInv'
  BY <1>21 DEF Disconnect, HandlerReturns, ConnAt
<1>22. ASSUME Finished \/ UNCHANGED vars PROVE AdmissionInv'
  BY <1>22 DEF Finished
<1>23. ASSUME NEW k \in Stops, StopJoin(k) PROVE AdmissionInv'
  BY <1>23 DEF StopJoin, StopAt, MutexFree
<1> QED
  BY <1>1, <1>2, <1>3, <1>4, <1>5, <1>6, <1>7, <1>8, <1>9, <1>10, <1>11, <1>12, <1>13,
     <1>14, <1>15, <1>16, <1>17, <1>18, <1>19, <1>20, <1>21, <1>22, <1>23 DEF Next, ServeStep,
     ShutdownStep, StopStep

\* Every step preserves StopInv: a stop goes through its places in order, and what one stop
\* has done of the driver the other finds done.
LEMMA StopInvStep == ServerInv /\ [Next]_vars => StopInv'
<1> SUFFICES ASSUME ServerInv, [Next]_vars PROVE StopInv'
  OBVIOUS
<1> USE DEF ServerInv, TypeOK, StopInv, Stops, vars, fields, driver
<1>1. ASSUME NEW c \in ServeCalls, CheckClosed(c) PROVE StopInv'
  BY <1>1 DEF CheckClosed, Goto, Return
<1>2. ASSUME NEW c \in ServeCalls, Listen(c) PROVE StopInv'
  BY <1>2 DEF Listen, Goto, Return
<1>3. ASSUME NEW c \in ServeCalls, Reject(c) PROVE StopInv'
  BY <1>3 DEF Reject, Entering, Goto, Return
<1>4. ASSUME NEW c \in ServeCalls, Admit(c) PROVE StopInv'
  BY <1>4 DEF Admit, Entering, Goto
<1>5. ASSUME NEW c \in ServeCalls, DriverServe(c) PROVE StopInv'
  BY <1>5 DEF DriverServe, Goto, Return
<1>6. ASSUME NEW c \in ServeCalls, AcceptEnds(c) PROVE StopInv'
  BY <1>6 DEF AcceptEnds, Goto, Return
<1>7. ASSUME NEW c \in ServeCalls, DriverStopped(c) PROVE StopInv'
  BY <1>7 DEF DriverStopped, Goto, Return
<1>8. ASSUME NEW c \in ServeCalls, ClearRunning(c) PROVE StopInv'
  BY <1>8 DEF ClearRunning, Goto
<1>9. ASSUME NEW c \in ServeCalls, Leave(c) PROVE StopInv'
  BY <1>9 DEF Leave, Outcome, Leftover, Goto, Return
<1>10. ASSUME NEW s \in ShutdownCalls, ShutdownMark(s) PROVE StopInv'
  BY <1>10 DEF ShutdownMark
<1>11. ASSUME NEW s \in ShutdownCalls, ShutdownStart(s) PROVE StopInv'
  BY <1>11 DEF ShutdownStart, StartStop
<1>12. ASSUME NEW s \in ShutdownCalls, ShutdownDone(s) PROVE StopInv'
  BY <1>12 DEF ShutdownDone
<1>13. ASSUME NEW s \in ShutdownCalls, ShutdownForce(s) PROVE StopInv'
  BY <1>13 DEF ShutdownForce, StartStop
<1>14. ASSUME NEW s \in ShutdownCalls, ContextEnds(s) PROVE StopInv'
  BY <1>14 DEF ContextEnds
<1>15. ASSUME NEW k \in Stops, StopQuit(k) PROVE StopInv'
  BY <1>15 DEF StopQuit, StopAt, MutexFree
<1>16. ASSUME NEW k \in Stops, StopConns(k) PROVE StopInv'
  BY <1>16 DEF StopConns, StopAt, MutexFree
<1>17. ASSUME NEW k \in Stops, StopDone(k) PROVE StopInv'
  BY <1>17 DEF StopDone, StopAt, Joined, MutexFree
<1>18. ASSUME NEW k \in Stops, SignalShutdownDone(k) PROVE StopInv'
  BY <1>18 DEF SignalShutdownDone, StopAt
<1>19. ASSUME NEW n \in Conns, Connect(n) PROVE StopInv'
  BY <1>19 DEF Connect, ConnAt
<1>20. ASSUME NEW n \in Conns, Call(n) PROVE StopInv'
  BY <1>20 DEF Call, ConnAt
<1>21. ASSUME NEW n \in Conns, Disconnect(n) \/ HandlerReturns(n) PROVE StopInv'
  BY <1>21 DEF Disconnect, HandlerReturns, ConnAt
<1>22. ASSUME Finished \/ UNCHANGED vars PROVE StopInv'
  BY <1>22 DEF Finished
<1>23. ASSUME NEW k \in Stops, StopJoin(k) PROVE StopInv'
  BY <1>23 DEF StopJoin, StopAt, MutexFree
<1> QED
  BY <1>1, <1>2, <1>3, <1>4, <1>5, <1>6, <1>7, <1>8, <1>9, <1>10, <1>11, <1>12, <1>13,
     <1>14, <1>15, <1>16, <1>17, <1>18, <1>19, <1>20, <1>21, <1>22, <1>23 DEF Next, ServeStep,
     ShutdownStep, StopStep

\* Every step preserves ResultInv.
LEMMA ResultStep == ServerInv /\ [Next]_vars => ResultInv'
<1> SUFFICES ASSUME ServerInv, [Next]_vars PROVE ResultInv'
  OBVIOUS
<1> USE GrpcAssumption DEF ServerInv, TypeOK, AdmissionInv, StopInv, ResultInv, Serving, vars, fields, driver
<1>1. ASSUME NEW c \in ServeCalls, CheckClosed(c) PROVE ResultInv'
  BY <1>1 DEF CheckClosed, Goto, Return
<1>2. ASSUME NEW c \in ServeCalls, Listen(c) PROVE ResultInv'
  BY <1>2 DEF Listen, Goto, Return
<1>3. ASSUME NEW c \in ServeCalls, Reject(c) PROVE ResultInv'
  BY <1>3 DEF Reject, Entering, Goto, Return
<1>4. ASSUME NEW c \in ServeCalls, Admit(c) PROVE ResultInv'
  BY <1>4 DEF Admit, Entering, Goto
<1>5. ASSUME NEW c \in ServeCalls, DriverServe(c) PROVE ResultInv'
  BY <1>5 DEF DriverServe, Goto, Return
<1>6. ASSUME NEW c \in ServeCalls, AcceptEnds(c) PROVE ResultInv'
  BY <1>6 DEF AcceptEnds, Goto, Return
<1>7. ASSUME NEW c \in ServeCalls, DriverStopped(c) PROVE ResultInv'
  BY <1>7 DEF DriverStopped, Goto, Return
<1>8. ASSUME NEW c \in ServeCalls, ClearRunning(c) PROVE ResultInv'
  BY <1>8 DEF ClearRunning, Goto
<1>9. ASSUME NEW c \in ServeCalls, Leave(c) PROVE ResultInv'
  BY <1>9 DEF Leave, Outcome, Leftover, Goto, Return
<1>10. ASSUME NEW s \in ShutdownCalls, ShutdownMark(s) PROVE ResultInv'
  BY <1>10 DEF ShutdownMark
<1>11. ASSUME NEW s \in ShutdownCalls, ShutdownStart(s) PROVE ResultInv'
  BY <1>11 DEF ShutdownStart, StartStop
<1>12. ASSUME NEW s \in ShutdownCalls, ShutdownDone(s) PROVE ResultInv'
  BY <1>12 DEF ShutdownDone
<1>13. ASSUME NEW s \in ShutdownCalls, ShutdownForce(s) PROVE ResultInv'
  BY <1>13 DEF ShutdownForce, StartStop
<1>14. ASSUME NEW s \in ShutdownCalls, ContextEnds(s) PROVE ResultInv'
  BY <1>14 DEF ContextEnds
<1>15. ASSUME NEW k \in Stops, StopQuit(k) PROVE ResultInv'
  BY <1>15 DEF StopQuit, StopAt, MutexFree
<1>16. ASSUME NEW k \in Stops, StopConns(k) PROVE ResultInv'
  BY <1>16 DEF StopConns, StopAt, MutexFree
<1>17. ASSUME NEW k \in Stops, StopDone(k) PROVE ResultInv'
  BY <1>17 DEF StopDone, StopAt, Joined, MutexFree
<1>18. ASSUME NEW k \in Stops, SignalShutdownDone(k) PROVE ResultInv'
  BY <1>18 DEF SignalShutdownDone, StopAt
<1>19. ASSUME NEW n \in Conns, Connect(n) PROVE ResultInv'
  BY <1>19 DEF Connect, ConnAt
<1>20. ASSUME NEW n \in Conns, Call(n) PROVE ResultInv'
  BY <1>20 DEF Call, ConnAt
<1>21. ASSUME NEW n \in Conns, Disconnect(n) \/ HandlerReturns(n) PROVE ResultInv'
  BY <1>21 DEF Disconnect, HandlerReturns, ConnAt
<1>22. ASSUME Finished \/ UNCHANGED vars PROVE ResultInv'
  BY <1>22 DEF Finished
<1>23. ASSUME NEW k \in Stops, StopJoin(k) PROVE ResultInv'
  BY <1>23 DEF StopJoin, StopAt, MutexFree
<1> QED
  BY <1>1, <1>2, <1>3, <1>4, <1>5, <1>6, <1>7, <1>8, <1>9, <1>10, <1>11, <1>12, <1>13,
     <1>14, <1>15, <1>16, <1>17, <1>18, <1>19, <1>20, <1>21, <1>22, <1>23 DEF Next, ServeStep,
     ShutdownStep, StopStep

\* Every step preserves ListenerInv.
LEMMA ListenerStep == ServerInv /\ [Next]_vars => ListenerInv'
<1> SUFFICES ASSUME ServerInv, [Next]_vars PROVE ListenerInv'
  OBVIOUS
<1> USE GrpcAssumption DEF ServerInv, TypeOK, AdmissionInv, StopInv, ResultInv, ListenerInv, Serving, vars, fields, driver
<1>1. ASSUME NEW c \in ServeCalls, CheckClosed(c) PROVE ListenerInv'
  BY <1>1 DEF CheckClosed, Goto, Return
<1>2. ASSUME NEW c \in ServeCalls, Listen(c) PROVE ListenerInv'
  BY <1>2 DEF Listen, Goto, Return
<1>3. ASSUME NEW c \in ServeCalls, Reject(c) PROVE ListenerInv'
  BY <1>3 DEF Reject, Entering, Goto, Return
<1>4. ASSUME NEW c \in ServeCalls, Admit(c) PROVE ListenerInv'
  BY <1>4 DEF Admit, Entering, Goto
<1>5. ASSUME NEW c \in ServeCalls, DriverServe(c) PROVE ListenerInv'
  BY <1>5 DEF DriverServe, Goto, Return
<1>6. ASSUME NEW c \in ServeCalls, AcceptEnds(c) PROVE ListenerInv'
  BY <1>6 DEF AcceptEnds, Goto, Return
<1>7. ASSUME NEW c \in ServeCalls, DriverStopped(c) PROVE ListenerInv'
  BY <1>7 DEF DriverStopped, Goto, Return
<1>8. ASSUME NEW c \in ServeCalls, ClearRunning(c) PROVE ListenerInv'
  BY <1>8 DEF ClearRunning, Goto
<1>9. ASSUME NEW c \in ServeCalls, Leave(c) PROVE ListenerInv'
  BY <1>9 DEF Leave, Outcome, Leftover, Goto, Return
<1>10. ASSUME NEW s \in ShutdownCalls, ShutdownMark(s) PROVE ListenerInv'
  BY <1>10 DEF ShutdownMark
<1>11. ASSUME NEW s \in ShutdownCalls, ShutdownStart(s) PROVE ListenerInv'
  BY <1>11 DEF ShutdownStart, StartStop
<1>12. ASSUME NEW s \in ShutdownCalls, ShutdownDone(s) PROVE ListenerInv'
  BY <1>12 DEF ShutdownDone
<1>13. ASSUME NEW s \in ShutdownCalls, ShutdownForce(s) PROVE ListenerInv'
  BY <1>13 DEF ShutdownForce, StartStop
<1>14. ASSUME NEW s \in ShutdownCalls, ContextEnds(s) PROVE ListenerInv'
  BY <1>14 DEF ContextEnds
<1>15. ASSUME NEW k \in Stops, StopQuit(k) PROVE ListenerInv'
  BY <1>15 DEF StopQuit, StopAt, MutexFree
<1>16. ASSUME NEW k \in Stops, StopConns(k) PROVE ListenerInv'
  BY <1>16 DEF StopConns, StopAt, MutexFree
<1>17. ASSUME NEW k \in Stops, StopDone(k) PROVE ListenerInv'
  BY <1>17 DEF StopDone, StopAt, Joined, MutexFree
<1>18. ASSUME NEW k \in Stops, SignalShutdownDone(k) PROVE ListenerInv'
  BY <1>18 DEF SignalShutdownDone, StopAt
<1>19. ASSUME NEW n \in Conns, Connect(n) PROVE ListenerInv'
  BY <1>19 DEF Connect, ConnAt
<1>20. ASSUME NEW n \in Conns, Call(n) PROVE ListenerInv'
  BY <1>20 DEF Call, ConnAt
<1>21. ASSUME NEW n \in Conns, Disconnect(n) \/ HandlerReturns(n) PROVE ListenerInv'
  BY <1>21 DEF Disconnect, HandlerReturns, ConnAt
<1>22. ASSUME Finished \/ UNCHANGED vars PROVE ListenerInv'
  BY <1>22 DEF Finished
<1>23. ASSUME NEW k \in Stops, StopJoin(k) PROVE ListenerInv'
  BY <1>23 DEF StopJoin, StopAt, MutexFree
<1> QED
  BY <1>1, <1>2, <1>3, <1>4, <1>5, <1>6, <1>7, <1>8, <1>9, <1>10, <1>11, <1>12, <1>13,
     <1>14, <1>15, <1>16, <1>17, <1>18, <1>19, <1>20, <1>21, <1>22, <1>23 DEF Next, ServeStep,
     ShutdownStep, StopStep

\* What the calls, the two stops and grpc-go know of each other stays consistent, in
\* whatever order Serve, Shutdown and the stops run (server.go:137-262).
THEOREM ServerInvariant == Spec => []ServerInv
<1>1. ServerInv /\ [Next]_vars => ServerInv'
  BY TypeStep, AdmissionStep, StopInvStep, ResultStep, ListenerStep DEF ServerInv
<1> QED
  BY ServerInit, <1>1, PTL DEF Spec

(***************************************************************************)
(* Safety                                                                  *)
(***************************************************************************)

\* A Shutdown is never an error for Serve, and nothing but a Shutdown lets it return
\* nil (server.go:215).
THEOREM ResultsTell == Spec => []ServeResults
<1>1. ServerInv => ServeResults
  BY DEF ServerInv, ResultInv, ServeResults, ShutdownIsNoError, NilMeansShutdown
<1> QED
  BY ServerInvariant, <1>1, PTL

\* While no Shutdown has run out of time, one that returned nil has let every RPC finish
\* and none starts any more.
THEOREM GracefulShutdownIsQuiet == Spec => []GracefulIsQuiet
<1>1. ServerInv => GracefulIsQuiet
  <2> SUFFICES ASSUME ServerInv, NEW s \in ShutdownCalls, shutdown[s] = "nil",
                      stop["forced"] = "no"
               PROVE  \A n \in Conns : conn[n] \in {"none", "closed"}
    BY DEF GracefulIsQuiet
  <2>1. PICK k \in Stops : stop[k] = "signalled"
    BY DEF ServerInv, StopInv
  <2>2. k = "graceful"
    BY <2>1 DEF Stops
  <2> QED
    BY <2>1, <2>2 DEF ServerInv, StopInv
<1> QED
  BY ServerInvariant, <1>1, PTL

\* No path through ListenAndServe and Serve leaves a listener open behind it.
THEOREM NoListenerLeft == Spec => []ListenersClosed
<1>1. ServerInv => ListenersClosed
  BY DEF ServerInv, ListenerInv, ListenersClosed
<1> QED
  BY ServerInvariant, <1>1, PTL

(***************************************************************************)
(* The contract of SingleUseServer                                         *)
(***************************************************************************)

\* Init is mapped to the contract's.
LEMMA ContractInit == Init => Contract!Init
  BY GrpcAssumption DEF Init, Contract!Init, Phase, Served, Requested, ServeCalls

\* A call that is not admitted and goes somewhere changes nothing the contract sees,
LEMMA Elsewhere ==
  ASSUME ServerInv, NEW c \in ServeCalls, c # runner, serve[c] # "returned",
         NEW place, place # "returned", serve' = [serve EXCEPT ![c] = place],
         UNCHANGED <<runner, quit, closed, driverDone, shutdown>>
  PROVE  UNCHANGED <<Phase, closed, driverDone, Served, Requested>>
<1> USE DEF ServerInv, TypeOK, AdmissionInv
<1>1. Served' = Served
  BY DEF Served
<1>2. Phase' = Phase
  BY GrpcAssumption DEF Phase
<1>3. Requested' = Requested
  BY DEF Requested
<1> QED
  BY <1>1, <1>2, <1>3

\* and is a rejected one if it returns.
LEMMA Rejection ==
  ASSUME ServerInv, NEW c \in ServeCalls, c # runner, serve[c] # "returned",
         serve' = [serve EXCEPT ![c] = "returned"],
         UNCHANGED <<runner, quit, closed, driverDone, shutdown>>
  PROVE  Contract!Reject(c)
<1> USE DEF ServerInv, TypeOK, AdmissionInv
<1>1. Served[c] = "idle" /\ Served' = [Served EXCEPT ![c] = "returned"]
  BY DEF Served
<1>2. Phase' = Phase
  BY GrpcAssumption DEF Phase
<1>3. Requested' = Requested
  BY DEF Requested
<1> QED
  BY <1>1, <1>2, <1>3 DEF Contract!Reject

\* Every step is one of the contract's or a stutter.
LEMMA ContractStep ==
  ServerInv /\ [Next]_vars =>
    [Contract!Next]_<<Phase, closed, driverDone, Served, Requested>>
<1> DEFINE Same == UNCHANGED <<Phase, closed, driverDone, Served, Requested>>
<1> SUFFICES ASSUME ServerInv, [Next]_vars PROVE Contract!Next \/ Same
  OBVIOUS
<1> USE GrpcAssumption
    DEF ServerInv, TypeOK, AdmissionInv, Serving, Phase, Served, Requested, fields, driver
<1>1. ASSUME NEW c \in ServeCalls, CheckClosed(c) PROVE Contract!Reject(c) \/ Same
  <2>1. c # runner /\ serve[c] = "idle" /\ UNCHANGED <<runner, quit, closed, driverDone, shutdown>>
    BY <1>1 DEF CheckClosed
  <2>2. CASE serve' = [serve EXCEPT ![c] = "returned"]
    BY <2>1, <2>2, Rejection
  <2>3. CASE serve' = [serve EXCEPT ![c] = "listening"]
    BY <2>1, <2>3, Elsewhere
  <2> QED
    BY <1>1, <2>2, <2>3 DEF CheckClosed, Goto
<1>2. ASSUME NEW c \in ServeCalls, Listen(c) PROVE Contract!Reject(c) \/ Same
  <2>1. c # runner /\ serve[c] = "listening" /\ UNCHANGED <<runner, quit, closed, driverDone, shutdown>>
    BY <1>2 DEF Listen
  <2>2. CASE serve' = [serve EXCEPT ![c] = "returned"]
    BY <2>1, <2>2, Rejection
  <2>3. CASE serve' = [serve EXCEPT ![c] = "entering"]
    BY <2>1, <2>3, Elsewhere
  <2> QED
    BY <1>2, <2>2, <2>3 DEF Listen, Goto
<1>3. ASSUME NEW c \in ServeCalls, Reject(c) PROVE Same
  <2>1. c # runner /\ serve[c] # "returned" /\ serve' = [serve EXCEPT ![c] = "leaving"]
    BY <1>3 DEF Reject, Entering, Goto
  <2>2. UNCHANGED <<runner, quit, closed, driverDone, shutdown>>
    BY <1>3 DEF Reject
  <2> QED
    BY <2>1, <2>2, Elsewhere
<1>4. ASSUME NEW c \in ServeCalls, Admit(c) PROVE Contract!Admit(c)
  <2>1. /\ runner = NoCall /\ runner' = c /\ ~closed /\ ~quit
        /\ UNCHANGED <<quit, closed, driverDone, shutdown>>
    BY <1>4 DEF Admit, StopInv
  <2>2. serve[c] # "returned" /\ serve' = [serve EXCEPT ![c] = "admitted"]
    BY <1>4 DEF Admit, Entering, Goto
  <2>3. Served[c] = "idle" /\ Served' = [Served EXCEPT ![c] = "admitted"]
    BY <2>1, <2>2 DEF ServeCalls
  <2>4. Phase = "fresh" /\ Phase' = "running"
    BY <2>1, <2>2
  <2> QED
    BY <2>1, <2>3, <2>4 DEF Contract!Admit
<1>5. ASSUME NEW c \in ServeCalls, DriverServe(c) PROVE Same
  BY <1>5 DEF DriverServe, Goto, Return
<1>6. ASSUME NEW c \in ServeCalls, AcceptEnds(c) PROVE Contract!Stop
  BY <1>6 DEF AcceptEnds, Goto, Return, Contract!Stop
<1>7. ASSUME NEW c \in ServeCalls, DriverStopped(c) PROVE Same
  BY <1>7 DEF DriverStopped, Goto, Return
<1>8. ASSUME NEW c \in ServeCalls, ClearRunning(c) PROVE Same
  BY <1>8 DEF ClearRunning, Goto
<1>9. ASSUME NEW c \in ServeCalls, Leave(c) PROVE Contract!Reject(c) \/ Contract!Return(c)
  BY <1>9 DEF Leave, Goto, Return, Contract!Reject, Contract!Return
<1>10. ASSUME NEW s \in ShutdownCalls, ShutdownMark(s) PROVE Contract!Request(s)
  BY <1>10 DEF ShutdownMark, Contract!Request
<1>11. ASSUME NEW s \in ShutdownCalls, ShutdownStart(s) PROVE Same
  BY <1>11 DEF ShutdownStart, StartStop
<1>12. ASSUME NEW s \in ShutdownCalls, ShutdownDone(s) PROVE Contract!Succeed(s)
  <2>1. driverDone /\ quit /\ Phase # "running"
    BY <1>12 DEF ShutdownDone, StopInv
  <2> QED
    BY <1>12, <2>1 DEF ShutdownDone, Contract!Succeed
<1>13. ASSUME NEW s \in ShutdownCalls, ShutdownForce(s) PROVE Contract!Fail(s)
  BY <1>13 DEF ShutdownForce, StartStop, Contract!Fail
<1>14. ASSUME NEW s \in ShutdownCalls, ContextEnds(s) PROVE Same
  BY <1>14 DEF ContextEnds
<1>15. ASSUME NEW k \in Stops, StopQuit(k) PROVE Contract!Stop \/ Same
  BY <1>15 DEF StopQuit, StopAt, MutexFree, Contract!Stop
<1>16. ASSUME NEW k \in Stops, StopConns(k) PROVE Same
  BY <1>16 DEF StopConns, StopAt, MutexFree
<1>17. ASSUME NEW k \in Stops, StopDone(k) PROVE Contract!Release \/ Same
  <2>1. closed
    BY <1>17 DEF StopDone, StopInv
  <2> QED
    BY <1>17, <2>1 DEF StopDone, StopAt, Joined, MutexFree, Contract!Release
<1>18. ASSUME NEW k \in Stops, SignalShutdownDone(k) PROVE Same
  BY <1>18 DEF SignalShutdownDone, StopAt
<1>19. ASSUME NEW n \in Conns, Connect(n) \/ Call(n) \/ Disconnect(n) \/ HandlerReturns(n)
      PROVE Same
  BY <1>19 DEF Connect, Call, Disconnect, HandlerReturns, ConnAt
<1>20. ASSUME Finished \/ UNCHANGED vars PROVE Same
  BY <1>20 DEF Finished, vars
<1>21. ASSUME NEW k \in Stops, StopJoin(k) PROVE Same
  BY <1>21 DEF StopJoin, StopAt
<1> QED
  BY <1>1, <1>2, <1>3, <1>4, <1>5, <1>6, <1>7, <1>8, <1>9, <1>10, <1>11, <1>12, <1>13,
     <1>14, <1>15, <1>16, <1>17, <1>18, <1>19, <1>20, <1>21
     DEF Next, ServeStep, ShutdownStep, StopStep, Contract!Next

\* GrpcServer implements the contract it shares with RabbitServer: it serves once, a
\* shutdown is for ever, and a Shutdown that succeeds finds the accept loop ended and the
\* driver stopped.
THEOREM Implementation == Spec => ImplementsContract
<1>1. ServerInv /\ [Next]_vars => [Contract!Next]_(Contract!vars)
  BY ContractStep DEF Contract!vars
<1> QED
  BY ContractInit, ServerInvariant, <1>1, PTL DEF Spec, ImplementsContract, Contract!Spec
=============================================================================

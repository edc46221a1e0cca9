------------------------- MODULE RabbitServerProofs -------------------------
(***************************************************************************)
(* Proofs about RabbitServer for any sets of calls, consumers and workers. *)
(***************************************************************************)
EXTENDS RabbitServer, TLAPS

(***************************************************************************)
(* Type correctness                                                        *)
(***************************************************************************)

\* A call that moves to a place of Serve keeps serve a function to places.
LEMMA GotoType ==
  ASSUME serve \in [ServeCalls -> ServePlaces], NEW c \in ServeCalls,
         NEW place \in ServePlaces, Goto(c, place)
  PROVE  serve' \in [ServeCalls -> ServePlaces]
BY DEF Goto

\* Likewise for a call's errors,
LEMMA ReturnType ==
  ASSUME result \in [Calls -> SUBSET Errors], NEW c \in Calls,
         NEW errors \in SUBSET Errors, Return(c, errors)
  PROVE  result' \in [Calls -> SUBSET Errors]
BY DEF Return

\* and for a worker.
LEMMA BecomeType ==
  ASSUME work \in [Workers -> WorkPlaces], NEW w \in Workers,
         NEW place \in WorkPlaces, Become(w, place)
  PROVE  work' \in [Workers -> WorkPlaces]
BY DEF Become

\* The initial states have the right types.
LEMMA TypeInit == Init => TypeOK
<1> SUFFICES ASSUME Init PROVE TypeOK
  OBVIOUS
<1>1. ctx \in [Calls -> {"open", "timed", "ended"}]
  BY DEF Init
<1>2. result \in [Calls -> SUBSET Errors]
  BY DEF Init
<1>3. /\ serve \in [ServeCalls -> ServePlaces]
      /\ shutdown \in [ShutdownCalls -> ShutdownPlaces]
      /\ sawIdle \in [ShutdownCalls -> BOOLEAN]
      /\ work \in [Workers -> WorkPlaces]
  BY DEF Init, ServePlaces, ShutdownPlaces, WorkPlaces
<1> QED
  BY <1>1, <1>2, <1>3 DEF Init, TypeOK

\* Every step preserves them.
LEMMA TypeStep == TypeOK /\ [Next]_vars => TypeOK'
<1> SUFFICES ASSUME TypeOK, [Next]_vars PROVE TypeOK'
  OBVIOUS
<1> USE DEF TypeOK, Calls, RunningAt, SettledAt, ServePlaces, ShutdownPlaces, WorkPlaces,
        Errors, vars, serverVars, closeVars, runVars, callVars, eventVars, brokerVars
<1>1. ASSUME NEW k \in Consumers, Register(k) PROVE TypeOK'
  BY <1>1 DEF Register
<1>2. ASSUME NEW c \in ServeCalls, ServeEnter(c) PROVE TypeOK'
  <2>1. serve' \in [ServeCalls -> ServePlaces]
    BY <1>2, GotoType DEF ServeEnter
  <2>2. result' \in [Calls -> SUBSET Errors]
    BY <1>2, ReturnType DEF ServeEnter
  <2> QED
    BY <1>2, <2>1, <2>2 DEF ServeEnter
<1>3. ASSUME NEW c \in ServeCalls, ServeReject(c) PROVE TypeOK'
  BY <1>3 DEF ServeReject, Goto, Return, Rejection, Errors
<1>4. ASSUME NEW c \in ServeCalls, ServeAdmit(c) PROVE TypeOK'
  BY <1>4 DEF ServeAdmit, Goto
<1>5. ASSUME NEW c \in ServeCalls, ConfigureTopology(c) PROVE TypeOK'
  <2>1. serve' \in [ServeCalls -> ServePlaces]
    BY <1>5, GotoType DEF ConfigureTopology, Abort
  <2>2. result' \in [Calls -> SUBSET Errors]
    BY <1>5, ReturnType DEF ConfigureTopology, Abort
  <2> QED
    BY <1>5, <2>1, <2>2 DEF ConfigureTopology
<1>6. ASSUME NEW c \in ServeCalls, OpenChannel(c) PROVE TypeOK'
  <2>1. serve' \in [ServeCalls -> ServePlaces]
    BY <1>6, GotoType DEF OpenChannel, AddChannel, Abort
  <2>2. result' \in [Calls -> SUBSET Errors]
    BY <1>6, ReturnType DEF OpenChannel, AddChannel, Abort
  <2> QED
    BY <1>6, <2>1, <2>2 DEF OpenChannel, AddChannel, Unstarted, WorkersOf
<1>7. ASSUME NEW c \in ServeCalls, StartConsumer(c) PROVE TypeOK'
  <2>1. serve' \in [ServeCalls -> ServePlaces]
    BY <1>7, GotoType DEF StartConsumer, Abort
  <2>2. result' \in [Calls -> SUBSET Errors]
    BY <1>7, ReturnType DEF StartConsumer, Abort
  <2> QED
    BY <1>7, <2>1, <2>2 DEF StartConsumer
<1>8. ASSUME NEW c \in ServeCalls, WorkerReady(c) PROVE TypeOK'
  BY <1>8 DEF WorkerReady, Goto
<1>9. ASSUME NEW c \in ServeCalls, ServerStarted(c) PROVE TypeOK'
  BY <1>9 DEF ServerStarted, Goto
<1>10. ASSUME NEW c \in ServeCalls, ServeContextDone(c) PROVE TypeOK'
  <2>1. serve' \in [ServeCalls -> ServePlaces]
    BY <1>10, GotoType DEF ServeContextDone, Abort
  <2>2. result' \in [Calls -> SUBSET Errors]
    BY <1>10, ReturnType DEF ServeContextDone, Abort
  <2> QED
    BY <1>10, <2>1, <2>2 DEF ServeContextDone
<1>11. ASSUME NEW c \in ServeCalls, ServeWorkerError(c) PROVE TypeOK'
  <2>1. serve' \in [ServeCalls -> ServePlaces]
    BY <1>11, GotoType DEF ServeWorkerError, Abort
  <2>2. result' \in [Calls -> SUBSET Errors]
    BY <1>11, ReturnType DEF ServeWorkerError, Abort
  <2> QED
    BY <1>11, <2>1, <2>2 DEF ServeWorkerError
<1>12. ASSUME NEW c \in ServeCalls, ServeConnectionClosed(c) PROVE TypeOK'
  BY <1>12 DEF ServeConnectionClosed, Goto, Return, Abort
<1>13. ASSUME NEW c \in ServeCalls, CleanupCancel(c) PROVE TypeOK'
  BY <1>13 DEF CleanupCancel, Goto
<1>14. ASSUME NEW c \in ServeCalls, CleanupJoin(c) PROVE TypeOK'
  BY <1>14 DEF CleanupJoin, Goto
<1>15. ASSUME NEW c \in ServeCalls, CleanupClose(c) PROVE TypeOK'
  BY <1>15 DEF CleanupClose, Goto, StartClose
<1>16. ASSUME NEW c \in ServeCalls, CleanupClosed(c) PROVE TypeOK'
  <2>1. serve' \in [ServeCalls -> ServePlaces]
    BY <1>16, GotoType DEF CleanupClosed
  <2>2. result' \in [Calls -> SUBSET Errors]
    BY <1>16, ReturnType DEF CleanupClosed
  <2> QED
    BY <1>16, <2>1, <2>2 DEF CleanupClosed
<1>17. ASSUME NEW c \in ServeCalls, CleanupSettle(c) PROVE TypeOK'
  BY <1>17 DEF CleanupSettle, Goto
<1>18. ASSUME NEW c \in ServeCalls, CleanupReport(c) PROVE TypeOK'
  BY <1>18 DEF CleanupReport, Goto
<1>19. ASSUME NEW c \in ServeCalls, CleanupSignal(c) PROVE TypeOK'
  BY <1>19 DEF CleanupSignal, Goto
<1>20. ASSUME NEW w \in Workers, WorkerStart(w) PROVE TypeOK'
  BY <1>20 DEF WorkerStart, Become, WorkerOnly
<1>21. ASSUME NEW w \in Workers, Receive(w) PROVE TypeOK'
  BY <1>21 DEF Receive, Become, WorkerOnly
<1>22. ASSUME NEW w \in Workers, HandlerReturns(w) PROVE TypeOK'
  <2>1. work' \in [Workers -> WorkPlaces]
    BY <1>22, BecomeType DEF HandlerReturns
  <2> QED
    BY <1>22, <2>1 DEF HandlerReturns, WorkerOnly
<1>23. ASSUME NEW w \in Workers, DeliveriesClosed(w) PROVE TypeOK'
  BY <1>23 DEF DeliveriesClosed, Become, WorkerOnly
<1>24. ASSUME NEW w \in Workers, SendError(w) PROVE TypeOK'
  <2>1. work' \in [Workers -> WorkPlaces]
    BY <1>24, BecomeType DEF SendError
  <2> QED
    BY <1>24, <2>1 DEF SendError, WorkerOnly
<1>25. ASSUME NEW w \in Workers, WorkerStop(w) PROVE TypeOK'
  BY <1>25 DEF WorkerStop, Become, WorkerOnly
<1>26. ASSUME NEW w \in Workers, WorkerDone(w) PROVE TypeOK'
  BY <1>26 DEF WorkerDone, Become, WorkerOnly
<1>27. ASSUME NEW s \in ShutdownCalls, ShutdownMark(s) PROVE TypeOK'
  BY <1>27 DEF ShutdownMark, GoShutdown
<1>28. ASSUME NEW s \in ShutdownCalls, ShutdownCancel(s) PROVE TypeOK'
  BY <1>28 DEF ShutdownCancel, GoShutdown
<1>29. ASSUME NEW s \in ShutdownCalls, ShutdownWait(s) PROVE TypeOK'
  <2>1. shutdown' \in [ShutdownCalls -> ShutdownPlaces]
    BY <1>29 DEF ShutdownWait, GoShutdown
  <2>2. result' \in [Calls -> SUBSET Errors]
    BY <1>29, ReturnType DEF ShutdownWait
  <2> QED
    BY <1>29, <2>1, <2>2 DEF ShutdownWait
<1>30. ASSUME NEW s \in ShutdownCalls, ShutdownClose(s) PROVE TypeOK'
  BY <1>30 DEF ShutdownClose, GoShutdown, StartClose
<1>31. ASSUME NEW s \in ShutdownCalls, ShutdownClosed(s) PROVE TypeOK'
  <2>1. shutdown' \in [ShutdownCalls -> ShutdownPlaces]
    BY <1>31 DEF ShutdownClosed, GoShutdown
  <2>2. result' \in [Calls -> SUBSET Errors]
    BY <1>31, ReturnType DEF ShutdownClosed
  <2> QED
    BY <1>31, <2>1, <2>2 DEF ShutdownClosed
<1>32. ASSUME NEW s \in ShutdownCalls, ShutdownSignal(s) PROVE TypeOK'
  BY <1>32 DEF ShutdownSignal, GoShutdown
<1>33. CASE DriverCloses
  BY <1>33 DEF DriverCloses, Disconnect
<1>34. CASE ConnectionLost
  BY <1>34 DEF ConnectionLost, Disconnect
<1>35. ASSUME NEW w \in Workers, DeliveriesEnd(w) PROVE TypeOK'
  BY <1>35 DEF DeliveriesEnd
<1>36. ASSUME NEW x \in Calls, ContextEnds(x) PROVE TypeOK'
  BY <1>36 DEF ContextEnds
<1>37. CASE Finished \/ UNCHANGED vars
  <2>1. UNCHANGED vars
    BY <1>37 DEF Finished
  <2> QED
    BY <2>1
<1> QED
  BY <1>1, <1>2, <1>3, <1>4, <1>5, <1>6, <1>7, <1>8, <1>9, <1>10, <1>11, <1>12, <1>13, <1>14, <1>15, <1>16, <1>17, <1>18, <1>19, <1>20, <1>21, <1>22, <1>23, <1>24, <1>25, <1>26, <1>27, <1>28, <1>29, <1>30, <1>31, <1>32, <1>33, <1>34, <1>35, <1>36, <1>37 DEF Next, ServeStep, WorkerStep, ShutdownStep

\* The model's types hold in every state.
THEOREM TypeCorrect == Spec => []TypeOK
<1>1. TypeOK /\ [Next]_vars => TypeOK'
  BY TypeStep
<1> QED
  BY TypeInit, <1>1, PTL DEF Spec

(***************************************************************************)
(* Safety                                                                  *)
(***************************************************************************)

\* SafetyInv holds initially.
LEMMA SafetyInit == Init => SafetyInv
BY ConfigurationAssumption
   DEF Init, SafetyInv, RunInv, QuietInv, EndInv, ShutdownInv, NilInv, WorkersFinished,
       RunningAt, SettledAt, JoinedAt, Calls

\* Every step preserves RunInv: only the locked sections of Serve change the flags.
LEMMA RunInvStep == TypeOK /\ SafetyInv /\ [Next]_vars => RunInv'
<1> SUFFICES ASSUME TypeOK, SafetyInv, [Next]_vars PROVE RunInv'
  OBVIOUS
<1> USE ConfigurationAssumption
    DEF TypeOK, SafetyInv, RunInv, RunningAt, SettledAt, Calls,
        ServePlaces, ShutdownPlaces, WorkPlaces, vars, serverVars, closeVars, runVars,
        callVars, eventVars, brokerVars
<1>1. ASSUME NEW k \in Consumers, Register(k) PROVE RunInv'
  BY <1>1 DEF Register
<1>2. ASSUME NEW c \in ServeCalls, ServeEnter(c) PROVE RunInv'
  BY <1>2 DEF ServeEnter, Goto, Return
<1>3. ASSUME NEW c \in ServeCalls, ServeReject(c) PROVE RunInv'
  BY <1>3 DEF ServeReject, Goto, Return, Rejection, Errors
<1>4. ASSUME NEW c \in ServeCalls, ServeAdmit(c) PROVE RunInv'
  BY <1>4 DEF ServeAdmit, Goto
<1>5. ASSUME NEW c \in ServeCalls, ConfigureTopology(c) PROVE RunInv'
  BY <1>5 DEF ConfigureTopology, Goto, Return, Abort
<1>6. ASSUME NEW c \in ServeCalls, OpenChannel(c) PROVE RunInv'
  BY <1>6 DEF OpenChannel, AddChannel, Goto, Return, Abort
<1>7. ASSUME NEW c \in ServeCalls, StartConsumer(c) PROVE RunInv'
  BY <1>7 DEF StartConsumer, Goto, Return, Abort
<1>8. ASSUME NEW c \in ServeCalls, WorkerReady(c) PROVE RunInv'
  BY <1>8 DEF WorkerReady, Goto
<1>9. ASSUME NEW c \in ServeCalls, ServerStarted(c) PROVE RunInv'
  BY <1>9 DEF ServerStarted, Goto
<1>10. ASSUME NEW c \in ServeCalls, ServeContextDone(c) PROVE RunInv'
  BY <1>10 DEF ServeContextDone, Goto, Return, Abort
<1>11. ASSUME NEW c \in ServeCalls, ServeWorkerError(c) PROVE RunInv'
  BY <1>11 DEF ServeWorkerError, Goto, Return, Abort
<1>12. ASSUME NEW c \in ServeCalls, ServeConnectionClosed(c) PROVE RunInv'
  BY <1>12 DEF ServeConnectionClosed, Goto, Return, Abort
<1>13. ASSUME NEW c \in ServeCalls, CleanupCancel(c) PROVE RunInv'
  BY <1>13 DEF CleanupCancel, Goto
<1>14. ASSUME NEW c \in ServeCalls, CleanupJoin(c) PROVE RunInv'
  BY <1>14 DEF CleanupJoin, Goto
<1>15. ASSUME NEW c \in ServeCalls, CleanupClose(c) PROVE RunInv'
  BY <1>15 DEF CleanupClose, Goto, StartClose
<1>16. ASSUME NEW c \in ServeCalls, CleanupClosed(c) PROVE RunInv'
  BY <1>16 DEF CleanupClosed, Goto, Return
<1>17. ASSUME NEW c \in ServeCalls, CleanupSettle(c) PROVE RunInv'
  BY <1>17 DEF CleanupSettle, Goto
<1>18. ASSUME NEW c \in ServeCalls, CleanupReport(c) PROVE RunInv'
  BY <1>18 DEF CleanupReport, Goto
<1>19. ASSUME NEW c \in ServeCalls, CleanupSignal(c) PROVE RunInv'
  BY <1>19 DEF CleanupSignal, Goto
<1>20. ASSUME NEW w \in Workers, WorkerStart(w) PROVE RunInv'
  BY <1>20 DEF WorkerStart, Become, WorkerOnly
<1>21. ASSUME NEW w \in Workers, Receive(w) PROVE RunInv'
  BY <1>21 DEF Receive, Become, WorkerOnly
<1>22. ASSUME NEW w \in Workers, HandlerReturns(w) PROVE RunInv'
  BY <1>22 DEF HandlerReturns, Become, WorkerOnly
<1>23. ASSUME NEW w \in Workers, DeliveriesClosed(w) PROVE RunInv'
  BY <1>23 DEF DeliveriesClosed, Become, WorkerOnly
<1>24. ASSUME NEW w \in Workers, SendError(w) PROVE RunInv'
  BY <1>24 DEF SendError, Become, WorkerOnly
<1>25. ASSUME NEW w \in Workers, WorkerStop(w) PROVE RunInv'
  BY <1>25 DEF WorkerStop, Become, WorkerOnly
<1>26. ASSUME NEW w \in Workers, WorkerDone(w) PROVE RunInv'
  BY <1>26 DEF WorkerDone, Become, WorkerOnly
<1>27. ASSUME NEW s \in ShutdownCalls, ShutdownMark(s) PROVE RunInv'
  BY <1>27 DEF ShutdownMark, GoShutdown
<1>28. ASSUME NEW s \in ShutdownCalls, ShutdownCancel(s) PROVE RunInv'
  BY <1>28 DEF ShutdownCancel, GoShutdown
<1>29. ASSUME NEW s \in ShutdownCalls, ShutdownWait(s) PROVE RunInv'
  BY <1>29 DEF ShutdownWait, GoShutdown, Return
<1>30. ASSUME NEW s \in ShutdownCalls, ShutdownClose(s) PROVE RunInv'
  BY <1>30 DEF ShutdownClose, GoShutdown, StartClose
<1>31. ASSUME NEW s \in ShutdownCalls, ShutdownClosed(s) PROVE RunInv'
  BY <1>31 DEF ShutdownClosed, GoShutdown, Return
<1>32. ASSUME NEW s \in ShutdownCalls, ShutdownSignal(s) PROVE RunInv'
  BY <1>32 DEF ShutdownSignal, GoShutdown
<1>33. CASE DriverCloses
  BY <1>33 DEF DriverCloses, Disconnect
<1>34. CASE ConnectionLost
  BY <1>34 DEF ConnectionLost, Disconnect
<1>35. ASSUME NEW w \in Workers, DeliveriesEnd(w) PROVE RunInv'
  BY <1>35 DEF DeliveriesEnd
<1>36. ASSUME NEW x \in Calls, ContextEnds(x) PROVE RunInv'
  BY <1>36 DEF ContextEnds
<1>37. CASE Finished \/ UNCHANGED vars
  BY <1>37 DEF Finished
<1> QED
  BY <1>1, <1>2, <1>3, <1>4, <1>5, <1>6, <1>7, <1>8, <1>9, <1>10, <1>11, <1>12, <1>13, <1>14, <1>15, <1>16, <1>17, <1>18, <1>19, <1>20, <1>21, <1>22, <1>23, <1>24, <1>25, <1>26, <1>27, <1>28, <1>29, <1>30, <1>31, <1>32, <1>33, <1>34, <1>35, <1>36, <1>37 DEF Next, ServeStep, WorkerStep, ShutdownStep

\* Every step preserves QuietInv: workers exist only between startConsumers and workers.Wait.
LEMMA QuietInvStep == TypeOK /\ SafetyInv /\ [Next]_vars => QuietInv'
<1> SUFFICES ASSUME TypeOK, SafetyInv, [Next]_vars PROVE QuietInv'
  OBVIOUS
<1> USE ConfigurationAssumption
    DEF TypeOK, SafetyInv, RunInv, QuietInv, WorkersFinished, JoinedAt, RunningAt, SettledAt, Calls,
        ServePlaces, ShutdownPlaces, WorkPlaces, vars, serverVars, closeVars, runVars,
        callVars, eventVars, brokerVars
<1>1. ASSUME NEW k \in Consumers, Register(k) PROVE QuietInv'
  BY <1>1 DEF Register
<1>2. ASSUME NEW c \in ServeCalls, ServeEnter(c) PROVE QuietInv'
  BY <1>2 DEF ServeEnter, Goto, Return
<1>3. ASSUME NEW c \in ServeCalls, ServeReject(c) PROVE QuietInv'
  BY <1>3 DEF ServeReject, Goto, Return, Rejection, Errors
<1>4. ASSUME NEW c \in ServeCalls, ServeAdmit(c) PROVE QuietInv'
  BY <1>4 DEF ServeAdmit, Goto
<1>5. ASSUME NEW c \in ServeCalls, ConfigureTopology(c) PROVE QuietInv'
  BY <1>5 DEF ConfigureTopology, Goto, Return, Abort
<1>6. ASSUME NEW c \in ServeCalls, OpenChannel(c) PROVE QuietInv'
  BY <1>6 DEF OpenChannel, AddChannel, Goto, Return, Abort
<1>7. ASSUME NEW c \in ServeCalls, StartConsumer(c) PROVE QuietInv'
  BY <1>7 DEF StartConsumer, Goto, Return, Abort
<1>8. ASSUME NEW c \in ServeCalls, WorkerReady(c) PROVE QuietInv'
  BY <1>8 DEF WorkerReady, Goto
<1>9. ASSUME NEW c \in ServeCalls, ServerStarted(c) PROVE QuietInv'
  BY <1>9 DEF ServerStarted, Goto
<1>10. ASSUME NEW c \in ServeCalls, ServeContextDone(c) PROVE QuietInv'
  BY <1>10 DEF ServeContextDone, Goto, Return, Abort
<1>11. ASSUME NEW c \in ServeCalls, ServeWorkerError(c) PROVE QuietInv'
  BY <1>11 DEF ServeWorkerError, Goto, Return, Abort
<1>12. ASSUME NEW c \in ServeCalls, ServeConnectionClosed(c) PROVE QuietInv'
  BY <1>12 DEF ServeConnectionClosed, Goto, Return, Abort
<1>13. ASSUME NEW c \in ServeCalls, CleanupCancel(c) PROVE QuietInv'
  BY <1>13 DEF CleanupCancel, Goto
<1>14. ASSUME NEW c \in ServeCalls, CleanupJoin(c) PROVE QuietInv'
  BY <1>14 DEF CleanupJoin, Goto
<1>15. ASSUME NEW c \in ServeCalls, CleanupClose(c) PROVE QuietInv'
  BY <1>15 DEF CleanupClose, Goto, StartClose
<1>16. ASSUME NEW c \in ServeCalls, CleanupClosed(c) PROVE QuietInv'
  BY <1>16 DEF CleanupClosed, Goto, Return
<1>17. ASSUME NEW c \in ServeCalls, CleanupSettle(c) PROVE QuietInv'
  BY <1>17 DEF CleanupSettle, Goto
<1>18. ASSUME NEW c \in ServeCalls, CleanupReport(c) PROVE QuietInv'
  BY <1>18 DEF CleanupReport, Goto
<1>19. ASSUME NEW c \in ServeCalls, CleanupSignal(c) PROVE QuietInv'
  BY <1>19 DEF CleanupSignal, Goto
<1>20. ASSUME NEW w \in Workers, WorkerStart(w) PROVE QuietInv'
  BY <1>20 DEF WorkerStart, Become, WorkerOnly
<1>21. ASSUME NEW w \in Workers, Receive(w) PROVE QuietInv'
  BY <1>21 DEF Receive, Become, WorkerOnly
<1>22. ASSUME NEW w \in Workers, HandlerReturns(w) PROVE QuietInv'
  BY <1>22 DEF HandlerReturns, Become, WorkerOnly
<1>23. ASSUME NEW w \in Workers, DeliveriesClosed(w) PROVE QuietInv'
  BY <1>23 DEF DeliveriesClosed, Become, WorkerOnly
<1>24. ASSUME NEW w \in Workers, SendError(w) PROVE QuietInv'
  BY <1>24 DEF SendError, Become, WorkerOnly
<1>25. ASSUME NEW w \in Workers, WorkerStop(w) PROVE QuietInv'
  BY <1>25 DEF WorkerStop, Become, WorkerOnly
<1>26. ASSUME NEW w \in Workers, WorkerDone(w) PROVE QuietInv'
  BY <1>26 DEF WorkerDone, Become, WorkerOnly
<1>27. ASSUME NEW s \in ShutdownCalls, ShutdownMark(s) PROVE QuietInv'
  BY <1>27 DEF ShutdownMark, GoShutdown
<1>28. ASSUME NEW s \in ShutdownCalls, ShutdownCancel(s) PROVE QuietInv'
  BY <1>28 DEF ShutdownCancel, GoShutdown
<1>29. ASSUME NEW s \in ShutdownCalls, ShutdownWait(s) PROVE QuietInv'
  BY <1>29 DEF ShutdownWait, GoShutdown, Return
<1>30. ASSUME NEW s \in ShutdownCalls, ShutdownClose(s) PROVE QuietInv'
  BY <1>30 DEF ShutdownClose, GoShutdown, StartClose
<1>31. ASSUME NEW s \in ShutdownCalls, ShutdownClosed(s) PROVE QuietInv'
  BY <1>31 DEF ShutdownClosed, GoShutdown, Return
<1>32. ASSUME NEW s \in ShutdownCalls, ShutdownSignal(s) PROVE QuietInv'
  BY <1>32 DEF ShutdownSignal, GoShutdown
<1>33. CASE DriverCloses
  BY <1>33 DEF DriverCloses, Disconnect
<1>34. CASE ConnectionLost
  BY <1>34 DEF ConnectionLost, Disconnect
<1>35. ASSUME NEW w \in Workers, DeliveriesEnd(w) PROVE QuietInv'
  BY <1>35 DEF DeliveriesEnd
<1>36. ASSUME NEW x \in Calls, ContextEnds(x) PROVE QuietInv'
  BY <1>36 DEF ContextEnds
<1>37. CASE Finished \/ UNCHANGED vars
  BY <1>37 DEF Finished
<1> QED
  BY <1>1, <1>2, <1>3, <1>4, <1>5, <1>6, <1>7, <1>8, <1>9, <1>10, <1>11, <1>12, <1>13, <1>14, <1>15, <1>16, <1>17, <1>18, <1>19, <1>20, <1>21, <1>22, <1>23, <1>24, <1>25, <1>26, <1>27, <1>28, <1>29, <1>30, <1>31, <1>32, <1>33, <1>34, <1>35, <1>36, <1>37 DEF Next, ServeStep, WorkerStep, ShutdownStep

\* Every step preserves EndInv: done and the close of the connection come after a run or a Shutdown.
LEMMA EndInvStep == TypeOK /\ SafetyInv /\ [Next]_vars => EndInv'
<1> SUFFICES ASSUME TypeOK, SafetyInv, [Next]_vars PROVE EndInv'
  OBVIOUS
<1> USE ConfigurationAssumption
    DEF TypeOK, SafetyInv, RunInv, EndInv, ShutdownInv, RunningAt, SettledAt, Calls,
        ServePlaces, ShutdownPlaces, WorkPlaces, vars, serverVars, closeVars, runVars,
        callVars, eventVars, brokerVars
<1>1. ASSUME NEW k \in Consumers, Register(k) PROVE EndInv'
  BY <1>1 DEF Register
<1>2. ASSUME NEW c \in ServeCalls, ServeEnter(c) PROVE EndInv'
  BY <1>2 DEF ServeEnter, Goto, Return
<1>3. ASSUME NEW c \in ServeCalls, ServeReject(c) PROVE EndInv'
  BY <1>3 DEF ServeReject, Goto, Return, Rejection, Errors
<1>4. ASSUME NEW c \in ServeCalls, ServeAdmit(c) PROVE EndInv'
  BY <1>4 DEF ServeAdmit, Goto
<1>5. ASSUME NEW c \in ServeCalls, ConfigureTopology(c) PROVE EndInv'
  BY <1>5 DEF ConfigureTopology, Goto, Return, Abort
<1>6. ASSUME NEW c \in ServeCalls, OpenChannel(c) PROVE EndInv'
  BY <1>6 DEF OpenChannel, AddChannel, Goto, Return, Abort
<1>7. ASSUME NEW c \in ServeCalls, StartConsumer(c) PROVE EndInv'
  BY <1>7 DEF StartConsumer, Goto, Return, Abort
<1>8. ASSUME NEW c \in ServeCalls, WorkerReady(c) PROVE EndInv'
  BY <1>8 DEF WorkerReady, Goto
<1>9. ASSUME NEW c \in ServeCalls, ServerStarted(c) PROVE EndInv'
  BY <1>9 DEF ServerStarted, Goto
<1>10. ASSUME NEW c \in ServeCalls, ServeContextDone(c) PROVE EndInv'
  BY <1>10 DEF ServeContextDone, Goto, Return, Abort
<1>11. ASSUME NEW c \in ServeCalls, ServeWorkerError(c) PROVE EndInv'
  BY <1>11 DEF ServeWorkerError, Goto, Return, Abort
<1>12. ASSUME NEW c \in ServeCalls, ServeConnectionClosed(c) PROVE EndInv'
  BY <1>12 DEF ServeConnectionClosed, Goto, Return, Abort
<1>13. ASSUME NEW c \in ServeCalls, CleanupCancel(c) PROVE EndInv'
  BY <1>13 DEF CleanupCancel, Goto
<1>14. ASSUME NEW c \in ServeCalls, CleanupJoin(c) PROVE EndInv'
  BY <1>14 DEF CleanupJoin, Goto
<1>15. ASSUME NEW c \in ServeCalls, CleanupClose(c) PROVE EndInv'
  BY <1>15 DEF CleanupClose, Goto, StartClose
<1>16. ASSUME NEW c \in ServeCalls, CleanupClosed(c) PROVE EndInv'
  BY <1>16 DEF CleanupClosed, Goto, Return
<1>17. ASSUME NEW c \in ServeCalls, CleanupSettle(c) PROVE EndInv'
  BY <1>17 DEF CleanupSettle, Goto
<1>18. ASSUME NEW c \in ServeCalls, CleanupReport(c) PROVE EndInv'
  BY <1>18 DEF CleanupReport, Goto
<1>19. ASSUME NEW c \in ServeCalls, CleanupSignal(c) PROVE EndInv'
  BY <1>19 DEF CleanupSignal, Goto
<1>20. ASSUME NEW w \in Workers, WorkerStart(w) PROVE EndInv'
  BY <1>20 DEF WorkerStart, Become, WorkerOnly
<1>21. ASSUME NEW w \in Workers, Receive(w) PROVE EndInv'
  BY <1>21 DEF Receive, Become, WorkerOnly
<1>22. ASSUME NEW w \in Workers, HandlerReturns(w) PROVE EndInv'
  BY <1>22 DEF HandlerReturns, Become, WorkerOnly
<1>23. ASSUME NEW w \in Workers, DeliveriesClosed(w) PROVE EndInv'
  BY <1>23 DEF DeliveriesClosed, Become, WorkerOnly
<1>24. ASSUME NEW w \in Workers, SendError(w) PROVE EndInv'
  BY <1>24 DEF SendError, Become, WorkerOnly
<1>25. ASSUME NEW w \in Workers, WorkerStop(w) PROVE EndInv'
  BY <1>25 DEF WorkerStop, Become, WorkerOnly
<1>26. ASSUME NEW w \in Workers, WorkerDone(w) PROVE EndInv'
  BY <1>26 DEF WorkerDone, Become, WorkerOnly
<1>27. ASSUME NEW s \in ShutdownCalls, ShutdownMark(s) PROVE EndInv'
  BY <1>27 DEF ShutdownMark, GoShutdown
<1>28. ASSUME NEW s \in ShutdownCalls, ShutdownCancel(s) PROVE EndInv'
  BY <1>28 DEF ShutdownCancel, GoShutdown
<1>29. ASSUME NEW s \in ShutdownCalls, ShutdownWait(s) PROVE EndInv'
  BY <1>29 DEF ShutdownWait, GoShutdown, Return
<1>30. ASSUME NEW s \in ShutdownCalls, ShutdownClose(s) PROVE EndInv'
  BY <1>30 DEF ShutdownClose, GoShutdown, StartClose
<1>31. ASSUME NEW s \in ShutdownCalls, ShutdownClosed(s) PROVE EndInv'
  BY <1>31 DEF ShutdownClosed, GoShutdown, Return
<1>32. ASSUME NEW s \in ShutdownCalls, ShutdownSignal(s) PROVE EndInv'
  BY <1>32 DEF ShutdownSignal, GoShutdown
<1>33. CASE DriverCloses
  BY <1>33 DEF DriverCloses, Disconnect
<1>34. CASE ConnectionLost
  BY <1>34 DEF ConnectionLost, Disconnect
<1>35. ASSUME NEW w \in Workers, DeliveriesEnd(w) PROVE EndInv'
  BY <1>35 DEF DeliveriesEnd
<1>36. ASSUME NEW x \in Calls, ContextEnds(x) PROVE EndInv'
  BY <1>36 DEF ContextEnds
<1>37. CASE Finished \/ UNCHANGED vars
  BY <1>37 DEF Finished
<1> QED
  BY <1>1, <1>2, <1>3, <1>4, <1>5, <1>6, <1>7, <1>8, <1>9, <1>10, <1>11, <1>12, <1>13, <1>14, <1>15, <1>16, <1>17, <1>18, <1>19, <1>20, <1>21, <1>22, <1>23, <1>24, <1>25, <1>26, <1>27, <1>28, <1>29, <1>30, <1>31, <1>32, <1>33, <1>34, <1>35, <1>36, <1>37 DEF Next, ServeStep, WorkerStep, ShutdownStep

\* Every step preserves ShutdownInv: a Shutdown that saw no run is never followed by one, because closed came first.
LEMMA ShutdownInvStep == TypeOK /\ SafetyInv /\ [Next]_vars => ShutdownInv'
<1> SUFFICES ASSUME TypeOK, SafetyInv, [Next]_vars PROVE ShutdownInv'
  OBVIOUS
<1> USE ConfigurationAssumption
    DEF TypeOK, SafetyInv, RunInv, EndInv, ShutdownInv, RunningAt, SettledAt, Calls,
        ServePlaces, ShutdownPlaces, WorkPlaces, vars, serverVars, closeVars, runVars,
        callVars, eventVars, brokerVars
<1>1. ASSUME NEW k \in Consumers, Register(k) PROVE ShutdownInv'
  BY <1>1 DEF Register
<1>2. ASSUME NEW c \in ServeCalls, ServeEnter(c) PROVE ShutdownInv'
  BY <1>2 DEF ServeEnter, Goto, Return
<1>3. ASSUME NEW c \in ServeCalls, ServeReject(c) PROVE ShutdownInv'
  BY <1>3 DEF ServeReject, Goto, Return, Rejection, Errors
<1>4. ASSUME NEW c \in ServeCalls, ServeAdmit(c) PROVE ShutdownInv'
  BY <1>4 DEF ServeAdmit, Goto
<1>5. ASSUME NEW c \in ServeCalls, ConfigureTopology(c) PROVE ShutdownInv'
  BY <1>5 DEF ConfigureTopology, Goto, Return, Abort
<1>6. ASSUME NEW c \in ServeCalls, OpenChannel(c) PROVE ShutdownInv'
  BY <1>6 DEF OpenChannel, AddChannel, Goto, Return, Abort
<1>7. ASSUME NEW c \in ServeCalls, StartConsumer(c) PROVE ShutdownInv'
  BY <1>7 DEF StartConsumer, Goto, Return, Abort
<1>8. ASSUME NEW c \in ServeCalls, WorkerReady(c) PROVE ShutdownInv'
  BY <1>8 DEF WorkerReady, Goto
<1>9. ASSUME NEW c \in ServeCalls, ServerStarted(c) PROVE ShutdownInv'
  BY <1>9 DEF ServerStarted, Goto
<1>10. ASSUME NEW c \in ServeCalls, ServeContextDone(c) PROVE ShutdownInv'
  BY <1>10 DEF ServeContextDone, Goto, Return, Abort
<1>11. ASSUME NEW c \in ServeCalls, ServeWorkerError(c) PROVE ShutdownInv'
  BY <1>11 DEF ServeWorkerError, Goto, Return, Abort
<1>12. ASSUME NEW c \in ServeCalls, ServeConnectionClosed(c) PROVE ShutdownInv'
  BY <1>12 DEF ServeConnectionClosed, Goto, Return, Abort
<1>13. ASSUME NEW c \in ServeCalls, CleanupCancel(c) PROVE ShutdownInv'
  BY <1>13 DEF CleanupCancel, Goto
<1>14. ASSUME NEW c \in ServeCalls, CleanupJoin(c) PROVE ShutdownInv'
  BY <1>14 DEF CleanupJoin, Goto
<1>15. ASSUME NEW c \in ServeCalls, CleanupClose(c) PROVE ShutdownInv'
  BY <1>15 DEF CleanupClose, Goto, StartClose
<1>16. ASSUME NEW c \in ServeCalls, CleanupClosed(c) PROVE ShutdownInv'
  BY <1>16 DEF CleanupClosed, Goto, Return
<1>17. ASSUME NEW c \in ServeCalls, CleanupSettle(c) PROVE ShutdownInv'
  BY <1>17 DEF CleanupSettle, Goto
<1>18. ASSUME NEW c \in ServeCalls, CleanupReport(c) PROVE ShutdownInv'
  BY <1>18 DEF CleanupReport, Goto
<1>19. ASSUME NEW c \in ServeCalls, CleanupSignal(c) PROVE ShutdownInv'
  BY <1>19 DEF CleanupSignal, Goto
<1>20. ASSUME NEW w \in Workers, WorkerStart(w) PROVE ShutdownInv'
  BY <1>20 DEF WorkerStart, Become, WorkerOnly
<1>21. ASSUME NEW w \in Workers, Receive(w) PROVE ShutdownInv'
  BY <1>21 DEF Receive, Become, WorkerOnly
<1>22. ASSUME NEW w \in Workers, HandlerReturns(w) PROVE ShutdownInv'
  BY <1>22 DEF HandlerReturns, Become, WorkerOnly
<1>23. ASSUME NEW w \in Workers, DeliveriesClosed(w) PROVE ShutdownInv'
  BY <1>23 DEF DeliveriesClosed, Become, WorkerOnly
<1>24. ASSUME NEW w \in Workers, SendError(w) PROVE ShutdownInv'
  BY <1>24 DEF SendError, Become, WorkerOnly
<1>25. ASSUME NEW w \in Workers, WorkerStop(w) PROVE ShutdownInv'
  BY <1>25 DEF WorkerStop, Become, WorkerOnly
<1>26. ASSUME NEW w \in Workers, WorkerDone(w) PROVE ShutdownInv'
  BY <1>26 DEF WorkerDone, Become, WorkerOnly
<1>27. ASSUME NEW s \in ShutdownCalls, ShutdownMark(s) PROVE ShutdownInv'
  BY <1>27 DEF ShutdownMark, GoShutdown
<1>28. ASSUME NEW s \in ShutdownCalls, ShutdownCancel(s) PROVE ShutdownInv'
  BY <1>28 DEF ShutdownCancel, GoShutdown
<1>29. ASSUME NEW s \in ShutdownCalls, ShutdownWait(s) PROVE ShutdownInv'
  <2>1. ASSUME NEW t \in ShutdownCalls, t # s
        PROVE  shutdown'[t] = shutdown[t] /\ result'[t] = result[t]
    BY <1>29, <2>1 DEF ShutdownWait, GoShutdown, Return
  <2>2. shutdown'[s] = "close" /\ (done \/ result'[s] = {"context"})
    BY <1>29 DEF ShutdownWait, GoShutdown, Return
  <2>3. ~sawIdle[s] /\ closed /\ (running => cancelled)
    BY <1>29 DEF ShutdownWait
  <2> QED
    BY <1>29, <2>1, <2>2, <2>3 DEF ShutdownWait
<1>30. ASSUME NEW s \in ShutdownCalls, ShutdownClose(s) PROVE ShutdownInv'
  BY <1>30 DEF ShutdownClose, GoShutdown, StartClose
<1>31. ASSUME NEW s \in ShutdownCalls, ShutdownClosed(s) PROVE ShutdownInv'
  BY <1>31 DEF ShutdownClosed, GoShutdown, Return
<1>32. ASSUME NEW s \in ShutdownCalls, ShutdownSignal(s) PROVE ShutdownInv'
  BY <1>32 DEF ShutdownSignal, GoShutdown
<1>33. CASE DriverCloses
  BY <1>33 DEF DriverCloses, Disconnect
<1>34. CASE ConnectionLost
  BY <1>34 DEF ConnectionLost, Disconnect
<1>35. ASSUME NEW w \in Workers, DeliveriesEnd(w) PROVE ShutdownInv'
  BY <1>35 DEF DeliveriesEnd
<1>36. ASSUME NEW x \in Calls, ContextEnds(x) PROVE ShutdownInv'
  BY <1>36 DEF ContextEnds
<1>37. CASE Finished \/ UNCHANGED vars
  BY <1>37 DEF Finished
<1> QED
  BY <1>1, <1>2, <1>3, <1>4, <1>5, <1>6, <1>7, <1>8, <1>9, <1>10, <1>11, <1>12, <1>13, <1>14, <1>15, <1>16, <1>17, <1>18, <1>19, <1>20, <1>21, <1>22, <1>23, <1>24, <1>25, <1>26, <1>27, <1>28, <1>29, <1>30, <1>31, <1>32, <1>33, <1>34, <1>35, <1>36, <1>37 DEF Next, ServeStep, WorkerStep, ShutdownStep

\* Every step preserves NilInv: only Shutdown cancels a run from outside.
LEMMA NilInvStep == TypeOK /\ SafetyInv /\ [Next]_vars => NilInv'
<1> SUFFICES ASSUME TypeOK, SafetyInv, [Next]_vars PROVE NilInv'
  OBVIOUS
<1> USE ConfigurationAssumption
    DEF TypeOK, SafetyInv, RunInv, ShutdownInv, NilInv, RunningAt, SettledAt, Calls,
        ServePlaces, ShutdownPlaces, WorkPlaces, vars, serverVars, closeVars, runVars,
        callVars, eventVars, brokerVars
<1>1. ASSUME NEW k \in Consumers, Register(k) PROVE NilInv'
  BY <1>1 DEF Register
<1>2. ASSUME NEW c \in ServeCalls, ServeEnter(c) PROVE NilInv'
  BY <1>2 DEF ServeEnter, Goto, Return
<1>3. ASSUME NEW c \in ServeCalls, ServeReject(c) PROVE NilInv'
  BY <1>3 DEF ServeReject, Goto, Return, Rejection, Errors
<1>4. ASSUME NEW c \in ServeCalls, ServeAdmit(c) PROVE NilInv'
  BY <1>4 DEF ServeAdmit, Goto
<1>5. ASSUME NEW c \in ServeCalls, ConfigureTopology(c) PROVE NilInv'
  BY <1>5 DEF ConfigureTopology, Goto, Return, Abort
<1>6. ASSUME NEW c \in ServeCalls, OpenChannel(c) PROVE NilInv'
  BY <1>6 DEF OpenChannel, AddChannel, Goto, Return, Abort
<1>7. ASSUME NEW c \in ServeCalls, StartConsumer(c) PROVE NilInv'
  <2>1. UNCHANGED <<closed, cancelled, runner>>
    BY <1>7 DEF StartConsumer
  <2>2. \/ serve' = [serve EXCEPT ![c] = "ready"] /\ UNCHANGED result
        \/ /\ serve' = [serve EXCEPT ![c] = "cleanup"]
           /\ \E e \in Errors : result' = [result EXCEPT ![c] = {e}]
    BY <1>7 DEF StartConsumer, Goto, Return, Abort, Errors
  <2> QED
    BY <1>7, <2>1, <2>2 DEF StartConsumer
<1>8. ASSUME NEW c \in ServeCalls, WorkerReady(c) PROVE NilInv'
  BY <1>8 DEF WorkerReady, Goto
<1>9. ASSUME NEW c \in ServeCalls, ServerStarted(c) PROVE NilInv'
  BY <1>9 DEF ServerStarted, Goto
<1>10. ASSUME NEW c \in ServeCalls, ServeContextDone(c) PROVE NilInv'
  <2>1. c = runner
    BY <1>10 DEF ServeContextDone
  <2>2. Ended(c) \/ closed
    BY <1>10, <2>1 DEF ServeContextDone, Cancelled, Ended
  <2> QED
    BY <1>10, <2>1, <2>2 DEF ServeContextDone, Goto, Return, Abort
<1>11. ASSUME NEW c \in ServeCalls, ServeWorkerError(c) PROVE NilInv'
  BY <1>11 DEF ServeWorkerError, Goto, Return, Abort
<1>12. ASSUME NEW c \in ServeCalls, ServeConnectionClosed(c) PROVE NilInv'
  BY <1>12 DEF ServeConnectionClosed, Goto, Return, Abort
<1>13. ASSUME NEW c \in ServeCalls, CleanupCancel(c) PROVE NilInv'
  BY <1>13 DEF CleanupCancel, Goto
<1>14. ASSUME NEW c \in ServeCalls, CleanupJoin(c) PROVE NilInv'
  BY <1>14 DEF CleanupJoin, Goto
<1>15. ASSUME NEW c \in ServeCalls, CleanupClose(c) PROVE NilInv'
  BY <1>15 DEF CleanupClose, Goto, StartClose
<1>16. ASSUME NEW c \in ServeCalls, CleanupClosed(c) PROVE NilInv'
  BY <1>16 DEF CleanupClosed, Goto, Return
<1>17. ASSUME NEW c \in ServeCalls, CleanupSettle(c) PROVE NilInv'
  BY <1>17 DEF CleanupSettle, Goto
<1>18. ASSUME NEW c \in ServeCalls, CleanupReport(c) PROVE NilInv'
  BY <1>18 DEF CleanupReport, Goto
<1>19. ASSUME NEW c \in ServeCalls, CleanupSignal(c) PROVE NilInv'
  BY <1>19 DEF CleanupSignal, Goto
<1>20. ASSUME NEW w \in Workers, WorkerStart(w) PROVE NilInv'
  BY <1>20 DEF WorkerStart, Become, WorkerOnly
<1>21. ASSUME NEW w \in Workers, Receive(w) PROVE NilInv'
  BY <1>21 DEF Receive, Become, WorkerOnly
<1>22. ASSUME NEW w \in Workers, HandlerReturns(w) PROVE NilInv'
  BY <1>22 DEF HandlerReturns, Become, WorkerOnly
<1>23. ASSUME NEW w \in Workers, DeliveriesClosed(w) PROVE NilInv'
  BY <1>23 DEF DeliveriesClosed, Become, WorkerOnly
<1>24. ASSUME NEW w \in Workers, SendError(w) PROVE NilInv'
  BY <1>24 DEF SendError, Become, WorkerOnly
<1>25. ASSUME NEW w \in Workers, WorkerStop(w) PROVE NilInv'
  BY <1>25 DEF WorkerStop, Become, WorkerOnly
<1>26. ASSUME NEW w \in Workers, WorkerDone(w) PROVE NilInv'
  BY <1>26 DEF WorkerDone, Become, WorkerOnly
<1>27. ASSUME NEW s \in ShutdownCalls, ShutdownMark(s) PROVE NilInv'
  BY <1>27 DEF ShutdownMark, GoShutdown
<1>28. ASSUME NEW s \in ShutdownCalls, ShutdownCancel(s) PROVE NilInv'
  BY <1>28 DEF ShutdownCancel, GoShutdown
<1>29. ASSUME NEW s \in ShutdownCalls, ShutdownWait(s) PROVE NilInv'
  BY <1>29 DEF ShutdownWait, GoShutdown, Return
<1>30. ASSUME NEW s \in ShutdownCalls, ShutdownClose(s) PROVE NilInv'
  BY <1>30 DEF ShutdownClose, GoShutdown, StartClose
<1>31. ASSUME NEW s \in ShutdownCalls, ShutdownClosed(s) PROVE NilInv'
  BY <1>31 DEF ShutdownClosed, GoShutdown, Return
<1>32. ASSUME NEW s \in ShutdownCalls, ShutdownSignal(s) PROVE NilInv'
  BY <1>32 DEF ShutdownSignal, GoShutdown
<1>33. CASE DriverCloses
  BY <1>33 DEF DriverCloses, Disconnect
<1>34. CASE ConnectionLost
  BY <1>34 DEF ConnectionLost, Disconnect
<1>35. ASSUME NEW w \in Workers, DeliveriesEnd(w) PROVE NilInv'
  BY <1>35 DEF DeliveriesEnd
<1>36. ASSUME NEW x \in Calls, ContextEnds(x) PROVE NilInv'
  BY <1>36 DEF ContextEnds
<1>37. CASE Finished \/ UNCHANGED vars
  BY <1>37 DEF Finished
<1> QED
  BY <1>1, <1>2, <1>3, <1>4, <1>5, <1>6, <1>7, <1>8, <1>9, <1>10, <1>11, <1>12, <1>13, <1>14, <1>15, <1>16, <1>17, <1>18, <1>19, <1>20, <1>21, <1>22, <1>23, <1>24, <1>25, <1>26, <1>27, <1>28, <1>29, <1>30, <1>31, <1>32, <1>33, <1>34, <1>35, <1>36, <1>37 DEF Next, ServeStep, WorkerStep, ShutdownStep

\* What the server has made sure of holds in every state: SafetyInv is inductive.
THEOREM SafetyInvariant == Spec => [](TypeOK /\ SafetyInv)
<1>1. TypeOK /\ SafetyInv /\ [Next]_vars => (TypeOK /\ SafetyInv)'
  BY TypeStep, RunInvStep, QuietInvStep, EndInvStep, ShutdownInvStep, NilInvStep
     DEF SafetyInv
<1> QED
  BY TypeInit, SafetyInit, <1>1, PTL DEF Spec

\* A Shutdown that returned nil left no run, no worker and no open connection.
THEOREM ShutdownIsQuiet == Spec => []ShutdownQuiesces
<1>1. TypeOK /\ SafetyInv => ShutdownQuiesces
  BY DEF TypeOK, SafetyInv, ShutdownInv, RunInv, QuietInv, EndInv, JoinedAt, SettledAt,
         RunningAt, ShutdownQuiesces
<1> QED
  BY SafetyInvariant, <1>1, PTL

\* No run survives, uncancelled, a Shutdown that has been through its lock.
THEOREM ShutdownIsSeen == Spec => []ShutdownCancelsRun
<1>1. SafetyInv => ShutdownCancelsRun
  BY DEF SafetyInv, ShutdownInv, ShutdownCancelsRun, Cancelled
<1> QED
  BY SafetyInvariant, <1>1, PTL

\* Serve returns nil only after a Shutdown.
THEOREM NilIsShutdown == Spec => []NilMeansShutdown
<1>1. SafetyInv => NilMeansShutdown
  BY DEF SafetyInv, NilInv, NilMeansShutdown
<1> QED
  BY SafetyInvariant, <1>1, PTL

(***************************************************************************)
(* Events, channels and queues                                             *)
(***************************************************************************)

\* OrderInv holds initially.
LEMMA OrderInit == Init => OrderInv
BY ConfigurationAssumption
   DEF Init, OrderInv, ChannelInv, WorkInv, EventInv, QueueInv, StartedIsComplete, Calls

\* Every step preserves ChannelInv: only OpenChannel opens a channel, and it notes it.
LEMMA ChannelInvStep ==
  ServerInv /\ [Next]_vars => ChannelInv'
<1> SUFFICES ASSUME ServerInv, [Next]_vars PROVE ChannelInv'
  OBVIOUS
<1> USE ConfigurationAssumption DEF ServerInv, TypeOK, SafetyInv, RunInv, OrderInv,
       ChannelInv, JoinedAt, RunningAt, SettledAt, Calls, ServePlaces, ShutdownPlaces,
       WorkPlaces, vars, serverVars, closeVars, runVars, callVars, eventVars, brokerVars
<1>1. ASSUME NEW c \in ServeCalls, ServeAdmit(c) PROVE ChannelInv'
  BY <1>1 DEF ServeAdmit, Goto
<1>2. ASSUME NEW c \in ServeCalls, OpenChannel(c) PROVE ChannelInv'
  BY <1>2 DEF OpenChannel, AddChannel, Unstarted, WorkersOf, Goto, Return, Abort
<1>3. ASSUME NEW c \in ServeCalls, CleanupJoin(c) PROVE ChannelInv'
  BY <1>3 DEF CleanupJoin, Goto
<1>4. ASSUME NEW k \in Consumers, Register(k) PROVE ChannelInv'
  BY <1>4 DEF Register
<1>5. ASSUME NEW c \in ServeCalls, ServeEnter(c) \/ ServeReject(c) \/
   ConfigureTopology(c) \/ StartConsumer(c) \/ WorkerReady(c) \/ ServerStarted(c) \/
   ServeContextDone(c) \/ ServeWorkerError(c) \/ ServeConnectionClosed(c) \/
   CleanupCancel(c) \/ CleanupClose(c) \/ CleanupClosed(c) \/ CleanupSettle(c) \/
   CleanupReport(c) \/ CleanupSignal(c) PROVE ChannelInv'
  BY <1>5 DEF ServeEnter, Goto, Return, ServeReject, ConfigureTopology, Abort,
     StartConsumer, WorkerReady, ServerStarted, ServeContextDone, ServeWorkerError,
     ServeConnectionClosed, CleanupCancel, CleanupClose, CleanupClosed, CleanupSettle,
     CleanupReport, CleanupSignal
<1>6. ASSUME NEW w \in Workers, WorkerStart(w) \/ Receive(w) \/ HandlerReturns(w) \/
   DeliveriesClosed(w) \/ SendError(w) \/ WorkerStop(w) \/ WorkerDone(w) \/
   DeliveriesEnd(w) PROVE ChannelInv'
  BY <1>6 DEF WorkerStart, Become, WorkerOnly, Receive, HandlerReturns, DeliveriesClosed,
     SendError, WorkerStop, WorkerDone, DeliveriesEnd
<1>7. ASSUME NEW s \in ShutdownCalls, ShutdownMark(s) \/ ShutdownCancel(s) \/
   ShutdownWait(s) \/ ShutdownClose(s) \/ ShutdownClosed(s) \/ ShutdownSignal(s) PROVE
   ChannelInv'
  BY <1>7 DEF ShutdownMark, GoShutdown, ShutdownCancel, ShutdownWait, Return,
     ShutdownClose, ShutdownClosed, ShutdownSignal
<1>8. ASSUME DriverCloses \/ ConnectionLost \/ Finished \/ UNCHANGED vars PROVE
   ChannelInv'
  BY <1>8 DEF DriverCloses, Disconnect, ConnectionLost, Finished
<1>9. ASSUME NEW x \in Calls, ContextEnds(x) PROVE ChannelInv'
  BY <1>9 DEF ContextEnds
<1> QED
  BY <1>1, <1>2, <1>3, <1>4, <1>5, <1>6, <1>7, <1>8, <1>9 DEF Next, ServeStep,
     WorkerStep, ShutdownStep

\* Every step preserves WorkInv.
LEMMA WorkInvStep ==
  ServerInv /\ [Next]_vars => WorkInv'
<1> SUFFICES ASSUME ServerInv, [Next]_vars PROVE WorkInv'
  OBVIOUS
<1> USE ConfigurationAssumption DEF ServerInv, TypeOK, SafetyInv, RunInv, QuietInv,
       OrderInv, WorkInv, WorkersFinished, RunningAt, SettledAt, Calls, ServePlaces,
       ShutdownPlaces, WorkPlaces, vars, serverVars, closeVars, runVars, callVars,
       eventVars, brokerVars
<1>1. ASSUME NEW k \in Consumers, Register(k) PROVE WorkInv'
  BY <1>1 DEF Register
<1>2. ASSUME NEW c \in ServeCalls, ServeEnter(c) PROVE WorkInv'
  BY <1>2 DEF ServeEnter, Goto, Return
<1>3. ASSUME NEW c \in ServeCalls, ServeReject(c) PROVE WorkInv'
  BY <1>3 DEF ServeReject, Goto, Return
<1>4. ASSUME NEW c \in ServeCalls, ServeAdmit(c) PROVE WorkInv'
  BY <1>4 DEF ServeAdmit, Goto
<1>5. ASSUME NEW c \in ServeCalls, ConfigureTopology(c) PROVE WorkInv'
  BY <1>5 DEF ConfigureTopology, Goto, Return, Abort
<1>6. ASSUME NEW c \in ServeCalls, OpenChannel(c) PROVE WorkInv'
  BY <1>6 DEF OpenChannel, AddChannel, Unstarted, WorkersOf, Goto, Return, Abort
<1>7. ASSUME NEW c \in ServeCalls, StartConsumer(c) PROVE WorkInv'
  BY <1>7 DEF StartConsumer, Goto, Return, Abort
<1>8. ASSUME NEW c \in ServeCalls, WorkerReady(c) PROVE WorkInv'
  BY <1>8 DEF WorkerReady, Goto
<1>9. ASSUME NEW w \in Workers, WorkerStart(w) PROVE WorkInv'
  BY <1>9 DEF WorkerStart, Become, WorkerOnly
<1>10. ASSUME NEW w \in Workers, Receive(w) PROVE WorkInv'
  BY <1>10 DEF Receive, Become, WorkerOnly
<1>11. ASSUME NEW w \in Workers, HandlerReturns(w) PROVE WorkInv'
  BY <1>11 DEF HandlerReturns, Become, WorkerOnly
<1>12. ASSUME NEW w \in Workers, DeliveriesClosed(w) PROVE WorkInv'
  BY <1>12 DEF DeliveriesClosed, Become, WorkerOnly
<1>13. ASSUME NEW w \in Workers, SendError(w) PROVE WorkInv'
  BY <1>13 DEF SendError, Become, WorkerOnly
<1>14. ASSUME NEW w \in Workers, WorkerStop(w) PROVE WorkInv'
  BY <1>14 DEF WorkerStop, Become, WorkerOnly
<1>15. ASSUME NEW w \in Workers, WorkerDone(w) PROVE WorkInv'
  BY <1>15 DEF WorkerDone, Become, WorkerOnly
<1>16. ASSUME NEW c \in ServeCalls, ServerStarted(c) \/ ServeContextDone(c) \/
   ServeWorkerError(c) \/ ServeConnectionClosed(c) \/ CleanupCancel(c) \/ CleanupJoin(c)
   \/ CleanupClose(c) \/ CleanupClosed(c) \/ CleanupSettle(c) \/ CleanupReport(c) \/
   CleanupSignal(c) PROVE WorkInv'
  BY <1>16 DEF ServerStarted, Goto, ServeContextDone, Return, Abort, ServeWorkerError,
     ServeConnectionClosed, CleanupCancel, CleanupJoin, CleanupClose, CleanupClosed,
     CleanupSettle, CleanupReport, CleanupSignal
<1>17. ASSUME NEW w \in Workers, DeliveriesEnd(w) PROVE WorkInv'
  BY <1>17 DEF DeliveriesEnd
<1>18. ASSUME NEW s \in ShutdownCalls, ShutdownMark(s) \/ ShutdownCancel(s) \/
   ShutdownWait(s) \/ ShutdownClose(s) \/ ShutdownClosed(s) \/ ShutdownSignal(s) PROVE
   WorkInv'
  BY <1>18 DEF ShutdownMark, GoShutdown, ShutdownCancel, ShutdownWait, Return,
     ShutdownClose, ShutdownClosed, ShutdownSignal
<1>19. ASSUME DriverCloses \/ ConnectionLost \/ Finished \/ UNCHANGED vars PROVE
   WorkInv'
  BY <1>19 DEF DriverCloses, Disconnect, ConnectionLost, Finished
<1>20. ASSUME NEW x \in Calls, ContextEnds(x) PROVE WorkInv'
  BY <1>20 DEF ContextEnds
<1> QED
  BY <1>1, <1>2, <1>3, <1>4, <1>5, <1>6, <1>7, <1>8, <1>9, <1>10, <1>11, <1>12, <1>13,
     <1>14, <1>15, <1>16, <1>17, <1>18, <1>19, <1>20 DEF Next, ServeStep, WorkerStep,
     ShutdownStep

\* Every step preserves EventInv: done is set after EventServerStopped, or by a Shutdown
\* that found no run.
LEMMA EventInvStep ==
  ServerInv /\ [Next]_vars => EventInv'
<1> SUFFICES ASSUME ServerInv, [Next]_vars PROVE EventInv'
  OBVIOUS
<1> USE ConfigurationAssumption DEF ServerInv, TypeOK, SafetyInv, RunInv, EndInv,
       ShutdownInv, OrderInv, EventInv, RunningAt, SettledAt, Calls, ServePlaces,
       ShutdownPlaces, WorkPlaces, vars, serverVars, closeVars, runVars, callVars,
       eventVars, brokerVars
<1>1. ASSUME NEW c \in ServeCalls, ServeEnter(c) PROVE EventInv'
  BY <1>1 DEF ServeEnter, Goto, Return
<1>2. ASSUME NEW c \in ServeCalls, ServeReject(c) PROVE EventInv'
  BY <1>2 DEF ServeReject, Goto, Return
<1>3. ASSUME NEW c \in ServeCalls, ServeAdmit(c) PROVE EventInv'
  BY <1>3 DEF ServeAdmit, Goto
<1>4. ASSUME NEW c \in ServeCalls, ServerStarted(c) PROVE EventInv'
  BY <1>4 DEF ServerStarted, Goto
<1>5. ASSUME NEW c \in ServeCalls, CleanupReport(c) PROVE EventInv'
  BY <1>5 DEF CleanupReport, Goto
<1>6. ASSUME NEW c \in ServeCalls, CleanupSignal(c) PROVE EventInv'
  BY <1>6 DEF CleanupSignal, Goto
<1>7. ASSUME NEW s \in ShutdownCalls, ShutdownMark(s) PROVE EventInv'
  BY <1>7 DEF ShutdownMark, GoShutdown
<1>8. ASSUME NEW s \in ShutdownCalls, ShutdownCancel(s) PROVE EventInv'
  BY <1>8 DEF ShutdownCancel, GoShutdown
<1>9. ASSUME NEW s \in ShutdownCalls, ShutdownSignal(s) PROVE EventInv'
  BY <1>9 DEF ShutdownSignal, GoShutdown
<1>10. ASSUME DriverCloses PROVE EventInv'
  BY <1>10 DEF DriverCloses, Disconnect
<1>11. ASSUME ConnectionLost PROVE EventInv'
  BY <1>11 DEF ConnectionLost, Disconnect
<1>12. ASSUME NEW k \in Consumers, Register(k) PROVE EventInv'
  BY <1>12 DEF Register
<1>13. ASSUME NEW c \in ServeCalls, ConfigureTopology(c) \/ OpenChannel(c) \/
   StartConsumer(c) \/ WorkerReady(c) \/ ServeContextDone(c) \/ ServeWorkerError(c) \/
   ServeConnectionClosed(c) \/ CleanupCancel(c) \/ CleanupJoin(c) \/ CleanupClose(c) \/
   CleanupClosed(c) \/ CleanupSettle(c) PROVE EventInv'
  BY <1>13 DEF ConfigureTopology, Goto, Return, Abort, OpenChannel, AddChannel, Unstarted,
     WorkersOf, StartConsumer, WorkerReady, ServeContextDone, ServeWorkerError,
     ServeConnectionClosed, CleanupCancel, CleanupJoin, CleanupClose, CleanupClosed,
     CleanupSettle
<1>14. ASSUME NEW w \in Workers, WorkerStart(w) \/ Receive(w) \/ HandlerReturns(w) \/
   DeliveriesClosed(w) \/ SendError(w) \/ WorkerStop(w) \/ WorkerDone(w) \/
   DeliveriesEnd(w) PROVE EventInv'
  BY <1>14 DEF WorkerStart, Become, WorkerOnly, Receive, HandlerReturns, DeliveriesClosed,
     SendError, WorkerStop, WorkerDone, DeliveriesEnd
<1>15. ASSUME NEW s \in ShutdownCalls, ShutdownWait(s) \/ ShutdownClose(s) \/
   ShutdownClosed(s) PROVE EventInv'
  BY <1>15 DEF ShutdownWait, GoShutdown, Return, ShutdownClose, ShutdownClosed
<1>16. ASSUME NEW x \in Calls, ContextEnds(x) PROVE EventInv'
  BY <1>16 DEF ContextEnds
<1>17. ASSUME Finished \/ UNCHANGED vars PROVE EventInv'
  BY <1>17 DEF Finished
<1> QED
  BY <1>1, <1>2, <1>3, <1>4, <1>5, <1>6, <1>7, <1>8, <1>9, <1>10, <1>11, <1>12, <1>13,
     <1>14, <1>15, <1>16, <1>17 DEF Next, ServeStep, WorkerStep, ShutdownStep

\* Every step preserves QueueInv: Register checks what it adds against all the others.
LEMMA QueueInvStep ==
  ServerInv /\ [Next]_vars => QueueInv'
<1> SUFFICES ASSUME ServerInv, [Next]_vars PROVE QueueInv'
  OBVIOUS
<1> USE ConfigurationAssumption DEF ServerInv, TypeOK, OrderInv, QueueInv, Compatible,
       vars, serverVars, closeVars, runVars, callVars, eventVars, brokerVars
<1>1. ASSUME NEW k \in Consumers, Register(k) PROVE QueueInv'
  BY <1>1 DEF Register
<1>2. ASSUME NEW c \in ServeCalls, ServeEnter(c) \/ ServeReject(c) \/ ServeAdmit(c) \/
   ConfigureTopology(c) \/ OpenChannel(c) \/ StartConsumer(c) \/ WorkerReady(c) \/
   ServerStarted(c) \/ ServeContextDone(c) \/ ServeWorkerError(c) \/
   ServeConnectionClosed(c) \/ CleanupCancel(c) \/ CleanupJoin(c) \/ CleanupClose(c) \/
   CleanupClosed(c) \/ CleanupSettle(c) \/ CleanupReport(c) \/ CleanupSignal(c) PROVE
   QueueInv'
  BY <1>2 DEF ServeEnter, Goto, Return, ServeReject, ServeAdmit, ConfigureTopology,
     Abort, OpenChannel, AddChannel, Unstarted, WorkersOf, StartConsumer, WorkerReady,
     ServerStarted, ServeContextDone, ServeWorkerError, ServeConnectionClosed,
     CleanupCancel, CleanupJoin, CleanupClose, CleanupClosed, CleanupSettle,
     CleanupReport, CleanupSignal
<1>3. ASSUME NEW w \in Workers, WorkerStart(w) \/ Receive(w) \/ HandlerReturns(w) \/
   DeliveriesClosed(w) \/ SendError(w) \/ WorkerStop(w) \/ WorkerDone(w) \/
   DeliveriesEnd(w) PROVE QueueInv'
  BY <1>3 DEF WorkerStart, Become, WorkerOnly, Receive, HandlerReturns, DeliveriesClosed,
     SendError, WorkerStop, WorkerDone, DeliveriesEnd
<1>4. ASSUME NEW s \in ShutdownCalls, ShutdownMark(s) \/ ShutdownCancel(s) \/
   ShutdownWait(s) \/ ShutdownClose(s) \/ ShutdownClosed(s) \/ ShutdownSignal(s) PROVE
   QueueInv'
  BY <1>4 DEF ShutdownMark, GoShutdown, ShutdownCancel, ShutdownWait, Return,
     ShutdownClose, ShutdownClosed, ShutdownSignal
<1>5. ASSUME DriverCloses \/ ConnectionLost \/ Finished \/ UNCHANGED vars PROVE
   QueueInv'
  BY <1>5 DEF DriverCloses, Disconnect, ConnectionLost, Finished
<1>6. ASSUME NEW x \in Calls, ContextEnds(x) PROVE QueueInv'
  BY <1>6 DEF ContextEnds
<1> QED
  BY <1>1, <1>2, <1>3, <1>4, <1>5, <1>6 DEF Next, ServeStep, WorkerStep, ShutdownStep

\* Every step preserves StartedIsComplete.
LEMMA StartedStep ==
  ServerInv /\ [Next]_vars => StartedIsComplete'
<1> SUFFICES ASSUME ServerInv, [Next]_vars PROVE StartedIsComplete'
  OBVIOUS
<1> USE ConfigurationAssumption DEF ServerInv, TypeOK, SafetyInv, RunInv, OrderInv,
       WorkInv, EventInv, StartedIsComplete, WorkersOf, RunningAt, SettledAt, Calls,
       ServePlaces, ShutdownPlaces, WorkPlaces, vars, serverVars, closeVars, runVars,
       callVars, eventVars, brokerVars
<1>1. ASSUME NEW k \in Consumers, Register(k) PROVE StartedIsComplete'
  BY <1>1 DEF Register
<1>2. ASSUME NEW c \in ServeCalls, ServeAdmit(c) PROVE StartedIsComplete'
  BY <1>2 DEF ServeAdmit, Goto
<1>3. ASSUME NEW c \in ServeCalls, ServerStarted(c) PROVE StartedIsComplete'
  <2>1. c = runner /\ serve[runner] = "opening" /\ consumers = snapshot
    BY <1>3 DEF ServerStarted
  <2>2. \A w \in WorkersOf(snapshot) : work[w] \notin {"unborn", "spawned"}
    BY <1>3, <2>1 DEF ServerStarted, Unstarted
  <2>3. UNCHANGED <<consumers, consumerStarted>>
    BY <1>3 DEF ServerStarted
  <2> QED
    BY <2>1, <2>2, <2>3
<1>4. ASSUME NEW w \in Workers, WorkerStart(w) PROVE StartedIsComplete'
  BY <1>4 DEF WorkerStart, Become, WorkerOnly
<1>5. ASSUME NEW c \in ServeCalls, CleanupReport(c) PROVE StartedIsComplete'
  BY <1>5 DEF CleanupReport, Goto
<1>6. ASSUME NEW c \in ServeCalls, ServeEnter(c) \/ ServeReject(c) \/
   ConfigureTopology(c) \/ OpenChannel(c) \/ StartConsumer(c) \/ WorkerReady(c) \/
   ServeContextDone(c) \/ ServeWorkerError(c) \/ ServeConnectionClosed(c) \/
   CleanupCancel(c) \/ CleanupJoin(c) \/ CleanupClose(c) \/ CleanupClosed(c) \/
   CleanupSettle(c) \/ CleanupSignal(c) PROVE StartedIsComplete'
  BY <1>6 DEF ServeEnter, Goto, Return, ServeReject, ConfigureTopology, Abort,
     OpenChannel, AddChannel, Unstarted, WorkersOf, StartConsumer, WorkerReady,
     ServeContextDone, ServeWorkerError, ServeConnectionClosed, CleanupCancel,
     CleanupJoin, CleanupClose, CleanupClosed, CleanupSettle, CleanupSignal
<1>7. ASSUME NEW w \in Workers, Receive(w) \/ HandlerReturns(w) \/ DeliveriesClosed(w)
   \/ SendError(w) \/ WorkerStop(w) \/ WorkerDone(w) \/ DeliveriesEnd(w) PROVE
   StartedIsComplete'
  BY <1>7 DEF Receive, Become, WorkerOnly, HandlerReturns, DeliveriesClosed, SendError,
     WorkerStop, WorkerDone, DeliveriesEnd
<1>8. ASSUME NEW s \in ShutdownCalls, ShutdownMark(s) \/ ShutdownCancel(s) \/
   ShutdownWait(s) \/ ShutdownClose(s) \/ ShutdownClosed(s) \/ ShutdownSignal(s) PROVE
   StartedIsComplete'
  BY <1>8 DEF ShutdownMark, GoShutdown, ShutdownCancel, ShutdownWait, Return,
     ShutdownClose, ShutdownClosed, ShutdownSignal
<1>9. ASSUME DriverCloses \/ ConnectionLost \/ Finished \/ UNCHANGED vars PROVE
   StartedIsComplete'
  BY <1>9 DEF DriverCloses, Disconnect, ConnectionLost, Finished
<1>10. ASSUME NEW x \in Calls, ContextEnds(x) PROVE StartedIsComplete'
  BY <1>10 DEF ContextEnds
<1> QED
  BY <1>1, <1>2, <1>3, <1>4, <1>5, <1>6, <1>7, <1>8, <1>9, <1>10 DEF Next, ServeStep,
     WorkerStep, ShutdownStep

\* The whole of what the runs check of the server's state: SafetyInv and OrderInv are
\* inductive.
THEOREM ServerInvariant == Spec => []ServerInv
<1>1. Init => ServerInv
  BY TypeInit, SafetyInit, OrderInit DEF ServerInv
<1>2. ServerInv /\ [Next]_vars => ServerInv'
  <2>1. ServerInv /\ [Next]_vars => (TypeOK /\ SafetyInv)'
    BY TypeStep, RunInvStep, QuietInvStep, EndInvStep, ShutdownInvStep, NilInvStep
       DEF ServerInv, SafetyInv
  <2>2. ServerInv /\ [Next]_vars => OrderInv'
    BY ChannelInvStep, WorkInvStep, EventInvStep, QueueInvStep, StartedStep DEF OrderInv
  <2> QED
    BY <2>1, <2>2 DEF ServerInv
<1> QED
  BY <1>1, <1>2, PTL DEF Spec

\* EventServerStarted comes after the start of every worker of every consumer,
\* EventServerStopped after their end, and a Shutdown that waited for the run returns nil
\* after that (README.md:672, server.go:309-315).
THEOREM EventsAreOrdered == Spec => []EventsInOrder
<1>1. ServerInv => EventsInOrder
  <2> SUFFICES ASSUME ServerInv PROVE EventsInOrder
    OBVIOUS
  <2> USE DEF ServerInv, TypeOK, SafetyInv, OrderInv
  <2>1. StoppedIsLast
    <3> SUFFICES ASSUME "ServerStopped" \in serverEvents
                 PROVE  consumerStopped = consumerStarted /\ WorkersFinished
      BY DEF StoppedIsLast
    <3>1. WorkersFinished
      BY DEF EventInv, QuietInv, JoinedAt, SettledAt
    <3>2. \A w \in Workers : w \in consumerStopped <=> w \in consumerStarted
      BY <3>1 DEF WorkInv, WorkersFinished, WorkPlaces
    <3> QED
      BY <3>1, <3>2
  <2>2. StoppedIsAwaited
    BY DEF StoppedIsAwaited, EventInv, ShutdownInv
  <2> QED
    BY <2>1, <2>2 DEF EventsInOrder
<1> QED
  BY ServerInvariant, <1>1, PTL

\* Whatever the startup had opened when it failed, Serve's cleanup leaves no AMQP channel
\* open.
THEOREM ChannelsAreReleased == Spec => []ChannelsReleased
<1>1. ServerInv => ChannelsReleased
  BY DEF ServerInv, OrderInv, ChannelInv, ChannelsReleased, JoinedAt
<1> QED
  BY ServerInvariant, <1>1, PTL

\* No two active workers share the queue of an exclusive consumer, however the
\* registrations and Serve interleave.
THEOREM ExclusiveIsAlone == Spec => []ExclusiveAlone
<1>1. ServerInv => ExclusiveAlone
  <2> SUFFICES ASSUME ServerInv, NEW v \in Workers, NEW w \in Workers, v # w,
                      Queue[Owner[v]] = Queue[Owner[w]],
                      work[v] # "unborn", work[w] # "unborn"
               PROVE  Owner[v] \notin Exclusive
    BY DEF ExclusiveAlone
  <2>1. Owner[v] \in consumers /\ Owner[w] \in consumers
    BY DEF ServerInv, OrderInv, WorkInv
  <2>2. CASE Owner[v] = Owner[w]
    BY <2>2, ConfigurationAssumption
  <2>3. CASE Owner[v] # Owner[w]
    BY <2>1, <2>3 DEF ServerInv, OrderInv, QueueInv
  <2> QED
    BY <2>2, <2>3
<1> QED
  BY ServerInvariant, <1>1, PTL

(***************************************************************************)
(* The server runs once                                                    *)
(***************************************************************************)

\* What a run is, once there is one, and a shutdown, once requested, are final.
THEOREM RunsOnce == Spec => SingleRun
<1>1. ASSUME TypeOK, SafetyInv, [Next]_vars
      PROVE  [/\ served => served' /\ runner' = runner /\ consumers' = consumers
              /\ closed => closed' /\ (running' => running)]_vars
  <2> DEFINE Final == /\ served => served' /\ runner' = runner /\ consumers' = consumers
                      /\ closed => closed' /\ (running' => running)
  <2> USE <1>1 DEF TypeOK, SafetyInv, RunInv, RunningAt, SettledAt, vars, serverVars, closeVars,
                   runVars, callVars, eventVars, brokerVars
  <2>1. ASSUME NEW k \in Consumers, Register(k) PROVE Final
    BY <2>1 DEF Register
  <2>2. ASSUME NEW c \in ServeCalls, ServeEnter(c) PROVE Final
    BY <2>2 DEF ServeEnter, Goto, Return
  <2>3. ASSUME NEW c \in ServeCalls, ServeReject(c) PROVE Final
    BY <2>3 DEF ServeReject, Goto, Return, Rejection, Errors
  <2>4. ASSUME NEW c \in ServeCalls, ServeAdmit(c) PROVE Final
    BY <2>4 DEF ServeAdmit, Goto
  <2>5. ASSUME NEW c \in ServeCalls, ConfigureTopology(c) PROVE Final
    BY <2>5 DEF ConfigureTopology, Goto, Return, Abort
  <2>6. ASSUME NEW c \in ServeCalls, OpenChannel(c) PROVE Final
    BY <2>6 DEF OpenChannel, AddChannel, Goto, Return, Abort
  <2>7. ASSUME NEW c \in ServeCalls, StartConsumer(c) PROVE Final
    BY <2>7 DEF StartConsumer, Goto, Return, Abort
  <2>8. ASSUME NEW c \in ServeCalls, WorkerReady(c) PROVE Final
    BY <2>8 DEF WorkerReady, Goto
  <2>9. ASSUME NEW c \in ServeCalls, ServerStarted(c) PROVE Final
    BY <2>9 DEF ServerStarted, Goto
  <2>10. ASSUME NEW c \in ServeCalls, ServeContextDone(c) PROVE Final
    BY <2>10 DEF ServeContextDone, Goto, Return, Abort
  <2>11. ASSUME NEW c \in ServeCalls, ServeWorkerError(c) PROVE Final
    BY <2>11 DEF ServeWorkerError, Goto, Return, Abort
  <2>12. ASSUME NEW c \in ServeCalls, ServeConnectionClosed(c) PROVE Final
    BY <2>12 DEF ServeConnectionClosed, Goto, Return, Abort
  <2>13. ASSUME NEW c \in ServeCalls, CleanupCancel(c) PROVE Final
    BY <2>13 DEF CleanupCancel, Goto
  <2>14. ASSUME NEW c \in ServeCalls, CleanupJoin(c) PROVE Final
    BY <2>14 DEF CleanupJoin, Goto
  <2>15. ASSUME NEW c \in ServeCalls, CleanupClose(c) PROVE Final
    BY <2>15 DEF CleanupClose, Goto, StartClose
  <2>16. ASSUME NEW c \in ServeCalls, CleanupClosed(c) PROVE Final
    BY <2>16 DEF CleanupClosed, Goto, Return
  <2>17. ASSUME NEW c \in ServeCalls, CleanupSettle(c) PROVE Final
    BY <2>17 DEF CleanupSettle, Goto
  <2>18. ASSUME NEW c \in ServeCalls, CleanupReport(c) PROVE Final
    BY <2>18 DEF CleanupReport, Goto
  <2>19. ASSUME NEW c \in ServeCalls, CleanupSignal(c) PROVE Final
    BY <2>19 DEF CleanupSignal, Goto
  <2>20. ASSUME NEW w \in Workers, WorkerStart(w) PROVE Final
    BY <2>20 DEF WorkerStart, Become, WorkerOnly
  <2>21. ASSUME NEW w \in Workers, Receive(w) PROVE Final
    BY <2>21 DEF Receive, Become, WorkerOnly
  <2>22. ASSUME NEW w \in Workers, HandlerReturns(w) PROVE Final
    BY <2>22 DEF HandlerReturns, Become, WorkerOnly
  <2>23. ASSUME NEW w \in Workers, DeliveriesClosed(w) PROVE Final
    BY <2>23 DEF DeliveriesClosed, Become, WorkerOnly
  <2>24. ASSUME NEW w \in Workers, SendError(w) PROVE Final
    BY <2>24 DEF SendError, Become, WorkerOnly
  <2>25. ASSUME NEW w \in Workers, WorkerStop(w) PROVE Final
    BY <2>25 DEF WorkerStop, Become, WorkerOnly
  <2>26. ASSUME NEW w \in Workers, WorkerDone(w) PROVE Final
    BY <2>26 DEF WorkerDone, Become, WorkerOnly
  <2>27. ASSUME NEW s \in ShutdownCalls, ShutdownMark(s) PROVE Final
    BY <2>27 DEF ShutdownMark, GoShutdown
  <2>28. ASSUME NEW s \in ShutdownCalls, ShutdownCancel(s) PROVE Final
    BY <2>28 DEF ShutdownCancel, GoShutdown
  <2>29. ASSUME NEW s \in ShutdownCalls, ShutdownWait(s) PROVE Final
    BY <2>29 DEF ShutdownWait, GoShutdown, Return
  <2>30. ASSUME NEW s \in ShutdownCalls, ShutdownClose(s) PROVE Final
    BY <2>30 DEF ShutdownClose, GoShutdown, StartClose
  <2>31. ASSUME NEW s \in ShutdownCalls, ShutdownClosed(s) PROVE Final
    BY <2>31 DEF ShutdownClosed, GoShutdown, Return
  <2>32. ASSUME NEW s \in ShutdownCalls, ShutdownSignal(s) PROVE Final
    BY <2>32 DEF ShutdownSignal, GoShutdown
  <2>33. ASSUME DriverCloses PROVE Final
    BY <2>33 DEF DriverCloses, Disconnect
  <2>34. ASSUME ConnectionLost PROVE Final
    BY <2>34 DEF ConnectionLost, Disconnect
  <2>35. ASSUME NEW w \in Workers, DeliveriesEnd(w) PROVE Final
    BY <2>35 DEF DeliveriesEnd
  <2>36. ASSUME NEW x \in Calls, ContextEnds(x) PROVE Final
    BY <2>36 DEF ContextEnds
  <2>37. ASSUME Finished \/ UNCHANGED vars PROVE Final
    BY <2>37 DEF Finished
  <2> QED
    BY <2>1, <2>2, <2>3, <2>4, <2>5, <2>6, <2>7, <2>8, <2>9, <2>10, <2>11, <2>12, <2>13, <2>14, <2>15, <2>16, <2>17, <2>18, <2>19, <2>20, <2>21, <2>22, <2>23, <2>24, <2>25, <2>26, <2>27, <2>28, <2>29, <2>30, <2>31, <2>32, <2>33, <2>34, <2>35, <2>36, <2>37 DEF Next, ServeStep, WorkerStep, ShutdownStep
<1> QED
  BY SafetyInvariant, <1>1, PTL DEF Spec, SingleRun

(***************************************************************************)
(* The server implements its contract                                      *)
(***************************************************************************)

\* The initial states map to the contract's.
LEMMA ContractInit == Init => Contract!Init
BY DEF Init, Contract!Init, Phase, Released, Served, Outcome, Calls

\* Every step maps to a step of the contract or to none.
LEMMA ContractStep ==
  ASSUME TypeOK, SafetyInv, [Next]_vars
  PROVE  [Contract!Next]_<<Phase, closed, Released, Served, Outcome>>
<1> DEFINE Map == <<Phase, closed, Released, Served, Outcome>>
<1> USE ConfigurationAssumption
    DEF TypeOK, SafetyInv, RunInv, EndInv, ShutdownInv, RunningAt, SettledAt, Calls,
        Phase, Released, Served, Outcome, vars, serverVars, closeVars, runVars, callVars,
        eventVars, brokerVars
<1>1. ASSUME NEW k \in Consumers, Register(k) PROVE [Contract!Next]_Map
  BY <1>1 DEF Register
<1>2. ASSUME NEW c \in ServeCalls, ServeEnter(c) PROVE [Contract!Next]_Map
  <2>1. UNCHANGED <<Phase, closed, Released>>
    BY <1>2 DEF ServeEnter
  <2>2. Outcome' = Outcome
    BY <1>2 DEF ServeEnter, Return
  <2>3. Served[c] = "idle"
    BY <1>2 DEF ServeEnter
  <2>4. Served' = [Served EXCEPT ![c] = "returned"] \/ Served' = Served
    <3>1. CASE serve' = [serve EXCEPT ![c] = "returned"]
      BY <3>1
    <3>2. CASE serve' = [serve EXCEPT ![c] = "entering"]
      BY <1>2, <3>2 DEF ServeEnter
    <3> QED
      BY <1>2, <3>1, <3>2 DEF ServeEnter, Goto
  <2>5. Contract!Reject(c) \/ UNCHANGED Map
    BY <2>1, <2>2, <2>3, <2>4 DEF Contract!Reject
  <2> QED
    BY <2>5 DEF Contract!Next
<1>3. ASSUME NEW c \in ServeCalls, ServeReject(c) PROVE [Contract!Next]_Map
  <2>1. UNCHANGED <<Phase, closed, Released>>
    BY <1>3 DEF ServeReject
  <2>2. Outcome' = Outcome
    BY <1>3 DEF ServeReject, Return
  <2>3. Served[c] = "idle"
    BY <1>3 DEF ServeReject
  <2>4. Served' = [Served EXCEPT ![c] = "returned"]
    BY <1>3 DEF ServeReject, Goto
  <2>5. Contract!Reject(c)
    BY <2>1, <2>2, <2>3, <2>4 DEF Contract!Reject
  <2> QED
    BY <2>5 DEF Contract!Next
<1>4. ASSUME NEW c \in ServeCalls, ServeAdmit(c) PROVE [Contract!Next]_Map
  <2>1. Contract!Admit(c)
    BY <1>4 DEF ServeAdmit, Goto, Contract!Admit
  <2> QED
    BY <2>1 DEF Contract!Next
<1>5. ASSUME NEW c \in ServeCalls, ConfigureTopology(c) PROVE [Contract!Next]_Map
  BY <1>5 DEF ConfigureTopology, Goto, Return, Abort
<1>6. ASSUME NEW c \in ServeCalls, OpenChannel(c) PROVE [Contract!Next]_Map
  BY <1>6 DEF OpenChannel, AddChannel, Goto, Return, Abort
<1>7. ASSUME NEW c \in ServeCalls, StartConsumer(c) PROVE [Contract!Next]_Map
  BY <1>7 DEF StartConsumer, Goto, Return, Abort
<1>8. ASSUME NEW c \in ServeCalls, WorkerReady(c) PROVE [Contract!Next]_Map
  BY <1>8 DEF WorkerReady, Goto
<1>9. ASSUME NEW c \in ServeCalls, ServerStarted(c) PROVE [Contract!Next]_Map
  BY <1>9 DEF ServerStarted, Goto
<1>10. ASSUME NEW c \in ServeCalls, ServeContextDone(c) PROVE [Contract!Next]_Map
  BY <1>10 DEF ServeContextDone, Goto, Return, Abort
<1>11. ASSUME NEW c \in ServeCalls, ServeWorkerError(c) PROVE [Contract!Next]_Map
  BY <1>11 DEF ServeWorkerError, Goto, Return, Abort
<1>12. ASSUME NEW c \in ServeCalls, ServeConnectionClosed(c) PROVE [Contract!Next]_Map
  BY <1>12 DEF ServeConnectionClosed, Goto, Return, Abort
<1>13. ASSUME NEW c \in ServeCalls, CleanupCancel(c) PROVE [Contract!Next]_Map
  BY <1>13 DEF CleanupCancel, Goto
<1>14. ASSUME NEW c \in ServeCalls, CleanupJoin(c) PROVE [Contract!Next]_Map
  BY <1>14 DEF CleanupJoin, Goto
<1>15. ASSUME NEW c \in ServeCalls, CleanupClose(c) PROVE [Contract!Next]_Map
  BY <1>15 DEF CleanupClose, Goto, StartClose
<1>16. ASSUME NEW c \in ServeCalls, CleanupClosed(c) PROVE [Contract!Next]_Map
  BY <1>16 DEF CleanupClosed, Goto, Return
<1>17. ASSUME NEW c \in ServeCalls, CleanupSettle(c) PROVE [Contract!Next]_Map
  <2>1. Contract!Stop
    BY <1>17 DEF CleanupSettle, Goto, Contract!Stop
  <2> QED
    BY <2>1 DEF Contract!Next
<1>18. ASSUME NEW c \in ServeCalls, CleanupReport(c) PROVE [Contract!Next]_Map
  BY <1>18 DEF CleanupReport, Goto
<1>19. ASSUME NEW c \in ServeCalls, CleanupSignal(c) PROVE [Contract!Next]_Map
  <2>1. Contract!Return(c)
    BY <1>19 DEF CleanupSignal, Goto, Contract!Return
  <2> QED
    BY <2>1 DEF Contract!Next
<1>20. ASSUME NEW w \in Workers, WorkerStart(w) PROVE [Contract!Next]_Map
  BY <1>20 DEF WorkerStart, Become, WorkerOnly
<1>21. ASSUME NEW w \in Workers, Receive(w) PROVE [Contract!Next]_Map
  BY <1>21 DEF Receive, Become, WorkerOnly
<1>22. ASSUME NEW w \in Workers, HandlerReturns(w) PROVE [Contract!Next]_Map
  BY <1>22 DEF HandlerReturns, Become, WorkerOnly
<1>23. ASSUME NEW w \in Workers, DeliveriesClosed(w) PROVE [Contract!Next]_Map
  BY <1>23 DEF DeliveriesClosed, Become, WorkerOnly
<1>24. ASSUME NEW w \in Workers, SendError(w) PROVE [Contract!Next]_Map
  BY <1>24 DEF SendError, Become, WorkerOnly
<1>25. ASSUME NEW w \in Workers, WorkerStop(w) PROVE [Contract!Next]_Map
  BY <1>25 DEF WorkerStop, Become, WorkerOnly
<1>26. ASSUME NEW w \in Workers, WorkerDone(w) PROVE [Contract!Next]_Map
  BY <1>26 DEF WorkerDone, Become, WorkerOnly
<1>27. ASSUME NEW s \in ShutdownCalls, ShutdownMark(s) PROVE [Contract!Next]_Map
  <2>1. Contract!Request(s)
    BY <1>27 DEF ShutdownMark, GoShutdown, Contract!Request
  <2> QED
    BY <2>1 DEF Contract!Next
<1>28. ASSUME NEW s \in ShutdownCalls, ShutdownCancel(s) PROVE [Contract!Next]_Map
  BY <1>28 DEF ShutdownCancel, GoShutdown
<1>29. ASSUME NEW s \in ShutdownCalls, ShutdownWait(s) PROVE [Contract!Next]_Map
  BY <1>29 DEF ShutdownWait, GoShutdown, Return
<1>30. ASSUME NEW s \in ShutdownCalls, ShutdownClose(s) PROVE [Contract!Next]_Map
  BY <1>30 DEF ShutdownClose, GoShutdown, StartClose
<1>31. ASSUME NEW s \in ShutdownCalls, ShutdownClosed(s) PROVE [Contract!Next]_Map
  <2>1. UNCHANGED <<Phase, closed, Released, Served>>
    BY <1>31 DEF ShutdownClosed, Return
  <2>2. Outcome[s] = "requested"
    BY <1>31 DEF ShutdownClosed
  <2>3. CASE sawIdle[s]
    BY <1>31, <2>1, <2>3 DEF ShutdownClosed, GoShutdown, Return
  <2>4. CASE ~sawIdle[s]
    <3>1. Outcome' = [Outcome EXCEPT ![s] = IF result'[s] = {} THEN "succeeded" ELSE "failed"]
      BY <1>31, <2>4 DEF ShutdownClosed, GoShutdown, Return
    <3>2. result'[s] = {} => ~running /\ closing = "done"
      BY <1>31, <2>4 DEF ShutdownClosed, Return
    <3>3. Contract!Succeed(s) \/ Contract!Fail(s)
      BY <2>1, <2>2, <3>1, <3>2 DEF Contract!Fail, Contract!Succeed
    <3> QED
      BY <3>3 DEF Contract!Next
  <2> QED
    BY <2>3, <2>4
<1>32. ASSUME NEW s \in ShutdownCalls, ShutdownSignal(s) PROVE [Contract!Next]_Map
  <2>1. Contract!Succeed(s) \/ Contract!Fail(s)
    BY <1>32 DEF ShutdownSignal, GoShutdown, Contract!Fail, Contract!Succeed
  <2> QED
    BY <2>1 DEF Contract!Next
<1>33. ASSUME DriverCloses PROVE [Contract!Next]_Map
  <2>1. Contract!Release
    BY <1>33 DEF DriverCloses, Disconnect, Contract!Release
  <2> QED
    BY <2>1 DEF Contract!Next
<1>34. ASSUME ConnectionLost PROVE [Contract!Next]_Map
  BY <1>34 DEF ConnectionLost, Disconnect
<1>35. ASSUME NEW w \in Workers, DeliveriesEnd(w) PROVE [Contract!Next]_Map
  BY <1>35 DEF DeliveriesEnd
<1>36. ASSUME NEW x \in Calls, ContextEnds(x) PROVE [Contract!Next]_Map
  BY <1>36 DEF ContextEnds
<1>37. ASSUME Finished \/ UNCHANGED vars PROVE [Contract!Next]_Map
  BY <1>37 DEF Finished
<1> QED
  BY <1>1, <1>2, <1>3, <1>4, <1>5, <1>6, <1>7, <1>8, <1>9, <1>10, <1>11, <1>12, <1>13, <1>14, <1>15, <1>16, <1>17, <1>18, <1>19, <1>20, <1>21, <1>22, <1>23, <1>24, <1>25, <1>26, <1>27, <1>28, <1>29, <1>30, <1>31, <1>32, <1>33, <1>34, <1>35, <1>36, <1>37 DEF Next, ServeStep, WorkerStep, ShutdownStep

\* RabbitServer implements SingleUseServer.
THEOREM Implements == Spec => ImplementsContract
<1>1. TypeOK /\ SafetyInv /\ [Next]_vars
        => [Contract!Next]_<<Phase, closed, Released, Served, Outcome>>
  BY ContractStep
<1> QED
  BY ContractInit, SafetyInvariant, <1>1, PTL DEF Spec, ImplementsContract, Contract!Spec, Contract!vars
=============================================================================

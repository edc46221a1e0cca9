------------------------ MODULE LoggerLifecycleProofs ------------------------
(***************************************************************************)
(* Proofs about LoggerLifecycle, for any loggers, paths and calls.         *)
(***************************************************************************)
EXTENDS LoggerLifecycle, TLAPS

(***************************************************************************)
(* The inductive invariant                                                 *)
(***************************************************************************)

\* RegistryInv holds initially.
LEMMA RegistryInit == Init => RegistryInv
  BY LoggersAssumption
     DEF Init, RegistryInv, TypeOK, CloseInv, PathInv, OneWriter, NoStaleReservation,
         ClosesAgree, Reserves, InClose

\* Every step preserves the types.
LEMMA TypeStep == RegistryInv /\ [Next]_vars => TypeOK'
<1> SUFFICES ASSUME RegistryInv, [Next]_vars PROVE TypeOK'
  OBVIOUS
<1> USE LoggersAssumption DEF RegistryInv, TypeOK, CloseInv, InClose, ErrorOf, vars
<1>1. ASSUME NEW l \in Loggers, Refuse(l) PROVE TypeOK'
  BY <1>1 DEF Refuse
<1>2. ASSUME NEW l \in Loggers, Make(l) PROVE TypeOK'
  BY <1>2 DEF Make
<1>3. ASSUME NEW e \in Entries, CanLog(e) PROVE TypeOK'
  BY <1>3 DEF CanLog, EntryAt
<1>4. ASSUME NEW e \in Entries, Write(e) PROVE TypeOK'
  BY <1>4 DEF Write, EntryAt
<1>5. ASSUME NEW k \in Closes, AlreadyClosed(k) PROVE TypeOK'
  BY <1>5 DEF AlreadyClosed, CloseAt
<1>6. ASSUME NEW k \in Closes, CloseLogger(k) PROVE TypeOK'
  BY <1>6 DEF CloseLogger, CloseAt
<1>7. ASSUME NEW k \in Closes, CloseWriter(k) PROVE TypeOK'
  BY <1>7 DEF CloseWriter, CloseAt
<1>8. ASSUME NEW k \in Closes, CloseFile(k) PROVE TypeOK'
  BY <1>8 DEF CloseFile, CloseAt
<1>9. ASSUME NEW k \in Closes, Release(k) PROVE TypeOK'
  BY <1>9 DEF Release, CloseAt
<1>10. ASSUME NEW k \in Closes, CloseReturn(k) PROVE TypeOK'
  BY <1>10 DEF CloseReturn, CloseAt
<1>11. ASSUME Finished \/ UNCHANGED vars PROVE TypeOK'
  BY <1>11 DEF Finished
<1> QED
  BY <1>1, <1>2, <1>3, <1>4, <1>5, <1>6, <1>7, <1>8, <1>9, <1>10, <1>11 DEF Next,
     CloseStep

\* Every step preserves CloseInv: closeMutex admits one Close of a logger.
LEMMA CloseInvStep == RegistryInv /\ [Next]_vars => CloseInv'
<1> SUFFICES ASSUME RegistryInv, [Next]_vars PROVE CloseInv'
  OBVIOUS
<1> USE LoggersAssumption DEF RegistryInv, TypeOK, CloseInv, PathInv, Reserves, InClose, ErrorOf, vars
<1>1. ASSUME NEW l \in Loggers, Refuse(l) PROVE CloseInv'
  BY <1>1 DEF Refuse
<1>2. ASSUME NEW l \in Loggers, Make(l) PROVE CloseInv'
  BY <1>2 DEF Make
<1>3. ASSUME NEW e \in Entries, CanLog(e) PROVE CloseInv'
  BY <1>3 DEF CanLog, EntryAt
<1>4. ASSUME NEW e \in Entries, Write(e) PROVE CloseInv'
  BY <1>4 DEF Write, EntryAt
<1>5. ASSUME NEW k \in Closes, AlreadyClosed(k) PROVE CloseInv'
  BY <1>5 DEF AlreadyClosed, CloseAt
<1>6. ASSUME NEW k \in Closes, CloseLogger(k) PROVE CloseInv'
  BY <1>6 DEF CloseLogger, CloseAt
<1>7. ASSUME NEW k \in Closes, CloseWriter(k) PROVE CloseInv'
  BY <1>7 DEF CloseWriter, CloseAt
<1>8. ASSUME NEW k \in Closes, CloseFile(k) PROVE CloseInv'
  BY <1>8 DEF CloseFile, CloseAt
<1>9. ASSUME NEW k \in Closes, Release(k) PROVE CloseInv'
  BY <1>9 DEF Release, CloseAt
<1>10. ASSUME NEW k \in Closes, CloseReturn(k) PROVE CloseInv'
  BY <1>10 DEF CloseReturn, CloseAt
<1>11. ASSUME Finished \/ UNCHANGED vars PROVE CloseInv'
  BY <1>11 DEF Finished
<1> QED
  BY <1>1, <1>2, <1>3, <1>4, <1>5, <1>6, <1>7, <1>8, <1>9, <1>10, <1>11 DEF Next,
     CloseStep

\* Every step preserves PathInv: NewLogger reserves what nobody has, and only the holder
\* releases it.
LEMMA PathStep == RegistryInv /\ [Next]_vars => PathInv'
<1> SUFFICES ASSUME RegistryInv, [Next]_vars PROVE PathInv'
  OBVIOUS
<1> USE LoggersAssumption DEF RegistryInv, TypeOK, CloseInv, PathInv, Reserves, InClose, vars
<1>1. ASSUME NEW l \in Loggers, Refuse(l) PROVE PathInv'
  BY <1>1 DEF Refuse
<1>2. ASSUME NEW l \in Loggers, Make(l) PROVE PathInv'
  BY <1>2 DEF Make
<1>3. ASSUME NEW e \in Entries, CanLog(e) PROVE PathInv'
  BY <1>3 DEF CanLog, EntryAt
<1>4. ASSUME NEW e \in Entries, Write(e) PROVE PathInv'
  BY <1>4 DEF Write, EntryAt
<1>5. ASSUME NEW k \in Closes, AlreadyClosed(k) PROVE PathInv'
  BY <1>5 DEF AlreadyClosed, CloseAt
<1>6. ASSUME NEW k \in Closes, CloseLogger(k) PROVE PathInv'
  BY <1>6 DEF CloseLogger, CloseAt
<1>7. ASSUME NEW k \in Closes, CloseWriter(k) PROVE PathInv'
  BY <1>7 DEF CloseWriter, CloseAt
<1>8. ASSUME NEW k \in Closes, CloseFile(k) PROVE PathInv'
  BY <1>8 DEF CloseFile, CloseAt
<1>9. ASSUME NEW k \in Closes, Release(k) PROVE PathInv'
  BY <1>9 DEF Release, CloseAt
<1>10. ASSUME NEW k \in Closes, CloseReturn(k) PROVE PathInv'
  BY <1>10 DEF CloseReturn, CloseAt
<1>11. ASSUME Finished \/ UNCHANGED vars PROVE PathInv'
  BY <1>11 DEF Finished
<1> QED
  BY <1>1, <1>2, <1>3, <1>4, <1>5, <1>6, <1>7, <1>8, <1>9, <1>10, <1>11 DEF Next,
     CloseStep

\* Every step preserves NoStaleReservation.
LEMMA StaleStep == RegistryInv /\ [Next]_vars => NoStaleReservation'
<1> SUFFICES ASSUME RegistryInv, [Next]_vars PROVE NoStaleReservation'
  OBVIOUS
<1> USE LoggersAssumption DEF RegistryInv, TypeOK, CloseInv, PathInv, NoStaleReservation, Reserves, InClose, vars
<1>1. ASSUME NEW l \in Loggers, Refuse(l) PROVE NoStaleReservation'
  BY <1>1 DEF Refuse
<1>2. ASSUME NEW l \in Loggers, Make(l) PROVE NoStaleReservation'
  BY <1>2 DEF Make
<1>3. ASSUME NEW e \in Entries, CanLog(e) PROVE NoStaleReservation'
  BY <1>3 DEF CanLog, EntryAt
<1>4. ASSUME NEW e \in Entries, Write(e) PROVE NoStaleReservation'
  BY <1>4 DEF Write, EntryAt
<1>5. ASSUME NEW k \in Closes, AlreadyClosed(k) PROVE NoStaleReservation'
  BY <1>5 DEF AlreadyClosed, CloseAt
<1>6. ASSUME NEW k \in Closes, CloseLogger(k) PROVE NoStaleReservation'
  BY <1>6 DEF CloseLogger, CloseAt
<1>7. ASSUME NEW k \in Closes, CloseWriter(k) PROVE NoStaleReservation'
  BY <1>7 DEF CloseWriter, CloseAt
<1>8. ASSUME NEW k \in Closes, CloseFile(k) PROVE NoStaleReservation'
  BY <1>8 DEF CloseFile, CloseAt
<1>9. ASSUME NEW k \in Closes, Release(k) PROVE NoStaleReservation'
  BY <1>9 DEF Release, CloseAt
<1>10. ASSUME NEW k \in Closes, CloseReturn(k) PROVE NoStaleReservation'
  BY <1>10 DEF CloseReturn, CloseAt
<1>11. ASSUME Finished \/ UNCHANGED vars PROVE NoStaleReservation'
  BY <1>11 DEF Finished
<1> QED
  BY <1>1, <1>2, <1>3, <1>4, <1>5, <1>6, <1>7, <1>8, <1>9, <1>10, <1>11 DEF Next,
     CloseStep

\* One writer per path, one reservation per writer, one Close per logger: whatever fails
\* in NewLogger, Write or Close, and whoever else is making a logger on the same path
\* (daily_writer.go:69, logger.go:180-203).
THEOREM RegistryInvariant == Spec => []RegistryInv
<1>1. RegistryInv /\ [Next]_vars => RegistryInv'
  <2>1. ASSUME RegistryInv, [Next]_vars PROVE PathInv' => OneWriter'
    <3>1. open' \subseteq Loggers
      BY <2>1, TypeStep DEF TypeOK
    <3> QED
      BY <3>1 DEF PathInv, OneWriter
  <2>2. ASSUME RegistryInv, [Next]_vars PROVE CloseInv' => ClosesAgree'
    BY DEF CloseInv, ClosesAgree
  <2> QED
    BY TypeStep, CloseInvStep, PathStep, StaleStep, <2>1, <2>2 DEF RegistryInv
<1> QED
  BY RegistryInit, <1>1, PTL DEF Spec

(***************************************************************************)
(* After Close                                                             *)
(***************************************************************************)

\* A Close that has returned is final: whatever else happens, no step writes through its
\* logger or opens its file again (logger.go:187-188).
THEOREM CloseIsFinal == Spec => ClosedIsFinal
<1> DEFINE Final ==
      \A k \in Closes : close[k] = "returned" =>
        /\ Of[k] \notin open'
        /\ \A e \in Entries : Of[e] = Of[k] /\ entry[e] # "written" => entry'[e] # "written"
<1>1. RegistryInv /\ [Next]_vars => [Final]_vars
  <2> SUFFICES ASSUME RegistryInv, Next, NEW k \in Closes, close[k] = "returned"
               PROVE  /\ Of[k] \notin open'
                      /\ \A e \in Entries :
                           Of[e] = Of[k] /\ entry[e] # "written" => entry'[e] # "written"
    OBVIOUS
  <2>1. Of[k] \in writerClosed /\ Of[k] \notin locked /\ Of[k] \notin open
    BY LoggersAssumption DEF RegistryInv, TypeOK, CloseInv, PathInv, Reserves
  <2>2. ASSUME NEW e \in Entries, CanLog(e)
        PROVE  open' = open /\ entry' = [entry EXCEPT ![e] = entry'[e]] /\ entry'[e] # "written"
    BY <2>2 DEF CanLog, EntryAt, RegistryInv, TypeOK
  <2>3. ASSUME NEW e \in Entries, Write(e)
        PROVE  /\ entry' = [entry EXCEPT ![e] = entry'[e]]
               /\ open' \subseteq open \cup {Of[e]}
               /\ Of[e] = Of[k] => open' = open /\ entry'[e] # "written"
    BY <2>1, <2>3 DEF Write, EntryAt, RegistryInv, TypeOK
  <2>4. ASSUME NEW j \in Closes, CloseStep(j) PROVE open' \subseteq open /\ entry' = entry
    BY <2>4 DEF CloseStep, AlreadyClosed, CloseLogger, CloseWriter, CloseFile, Release, CloseReturn
  <2>5. ASSUME NEW l \in Loggers, Refuse(l) \/ Make(l) PROVE UNCHANGED <<open, entry>>
    BY <2>5 DEF Refuse, Make
  <2>6. ASSUME Finished PROVE UNCHANGED <<open, entry>>
    BY <2>6 DEF Finished, vars
  <2>7. entry \in [Entries -> {"idle", "checked", "written", "dropped"}]
    BY DEF RegistryInv, TypeOK
  <2> QED
    BY <2>1, <2>2, <2>3, <2>4, <2>5, <2>6, <2>7 DEF Next
<1> QED
  BY RegistryInvariant, <1>1, PTL DEF Spec, ClosedIsFinal
=============================================================================

--------------------------- MODULE PgClientProofs ---------------------------
(***************************************************************************)
(* Proofs about PgClient, for any pools, goroutines and calls, and about   *)
(* PgNewClient, the call that makes the client, for any addresses, options *)
(* and configurers.                                                        *)
(***************************************************************************)
EXTENDS PgClient, PgNewClient, FiniteSetTheorems, SequenceTheorems, TLAPS

\* The constants, as the steps below use them.
LEMMA Constant ==
  /\ IsFiniteSet(Uses) /\ NoCall \notin Closes /\ MaxConns \in Nat \ {0}
  /\ Pings \subseteq Uses
  BY PoolAssumption DEF Uses

\* Those that hold a connection are finitely many.
LEMMA HoldingFinite == IsFiniteSet(Holding) /\ Cardinality(Holding) \in Nat
  BY Constant, FS_Subset, FS_CardinalityType DEF Holding

(***************************************************************************)
(* The invariant of PgClient                                               *)
(***************************************************************************)

\* ClientInv holds initially.
LEMMA ClientInit == Init => ClientInv
<1> SUFFICES ASSUME Init PROVE ClientInv
  OBVIOUS
<1>1. Holding = {}
  BY DEF Init, Holding
<1>2. TypeOK
  BY Constant DEF Init, TypeOK
<1>3. CloseInv
  BY Constant DEF Init, CloseInv
<1>4. PoolInv
  BY <1>1, Constant, FS_EmptySet DEF Init, PoolInv
<1> QED
  BY <1>2, <1>3, <1>4 DEF ClientInv

\* Every step preserves it.
LEMMA ClientStep == ClientInv /\ [Next]_vars => ClientInv'
<1> SUFFICES ASSUME ClientInv, [Next]_vars PROVE ClientInv'
  OBVIOUS
<1> USE Constant DEF ClientInv
<1>1. ASSUME NEW u \in Uses, Begin(u) PROVE ClientInv'
  <2>1. TypeOK' /\ CloseInv'
    BY <1>1 DEF TypeOK, CloseInv, Begin, Goto, Return
  <2>2. Holding' = Holding
    BY <1>1 DEF TypeOK, Holding, Begin, Goto, Return
  <2> QED
    BY <1>1, <2>1, <2>2 DEF PoolInv, Begin
<1>2. ASSUME NEW u \in Uses, Acquire(u) PROVE ClientInv'
  <2>1. TypeOK' /\ CloseInv'
    BY <1>2 DEF TypeOK, CloseInv, Acquire, Goto, Return
  <2>2. CASE pool = "open" /\ use' = [use EXCEPT ![u] = "holding"]
    <3>1. Holding' = Holding \cup {u} /\ u \notin Holding
      BY <1>2, <2>2 DEF TypeOK, Holding, Acquire
    <3>2. Cardinality(Holding') = Cardinality(Holding) + 1
      BY <3>1, HoldingFinite, FS_AddElement
    <3> QED
      BY <1>2, <2>1, <2>2, <3>2, HoldingFinite DEF PoolInv, Acquire
  <2>3. CASE use' = [use EXCEPT ![u] = "returned"]
    <3>1. Holding' = Holding
      BY <1>2, <2>3 DEF TypeOK, Holding, Acquire
    <3> QED
      BY <1>2, <2>1, <3>1 DEF PoolInv, Acquire
  <2> QED
    BY <1>2, <2>2, <2>3 DEF Acquire, Goto, Return
<1>3. ASSUME NEW u \in Uses, GiveUp(u) PROVE ClientInv'
  <2>1. TypeOK' /\ CloseInv'
    BY <1>3 DEF TypeOK, CloseInv, GiveUp, Goto, Return
  <2>2. Holding' = Holding
    BY <1>3 DEF TypeOK, Holding, GiveUp, Goto, Return
  <2> QED
    BY <1>3, <2>1, <2>2 DEF PoolInv, GiveUp
<1>4. ASSUME NEW u \in Uses, Release(u) PROVE ClientInv'
  <2>1. TypeOK' /\ CloseInv'
    BY <1>4 DEF TypeOK, CloseInv, Release, Goto, Return
  <2>2. Holding' = Holding \ {u} /\ u \in Holding
    BY <1>4 DEF TypeOK, Holding, Release, Goto, Return
  <2>3. Cardinality(Holding') = Cardinality(Holding) - 1
    BY <2>2, HoldingFinite, FS_RemoveElement
  <2> QED
    BY <1>4, <2>1, <2>2, <2>3, HoldingFinite DEF PoolInv, Release
<1>5. ASSUME NEW k \in Closes, Call(k) PROVE ClientInv'
  BY <1>5 DEF TypeOK, CloseInv, PoolInv, Holding, Call, CloseAt
<1>6. ASSUME NEW k \in Closes, Lock(k) PROVE ClientInv'
  <2>1. closed /\ mutex = NoCall => pool = "closed"
    BY DEF TypeOK, CloseInv
  <2>2. TypeOK' /\ PoolInv'
    BY <1>6 DEF TypeOK, PoolInv, Holding, Lock, CloseAt
  <2>3. CASE closed
    <3>1. close' = [close EXCEPT ![k] = "returned"] /\ UNCHANGED <<closed, mutex, pool>>
      BY <1>6, <2>3 DEF Lock, CloseAt
    <3>2. mutex = NoCall /\ close[k] = "locking"
      BY <1>6 DEF Lock
    <3>3. CloseInv'
      BY <2>1, <2>3, <3>1, <3>2 DEF TypeOK, CloseInv
    <3> QED
      BY <2>2, <3>3
  <2>4. CASE ~closed
    <3>1. close' = [close EXCEPT ![k] = "locked"] /\ mutex' = k /\ closed' /\ pool' = pool
      BY <1>6, <2>4 DEF Lock, CloseAt
    <3>2. mutex = NoCall /\ pool = "open"
      BY <1>6, <2>4 DEF Lock, CloseInv, TypeOK
    <3>3. CloseInv'
      BY <2>4, <3>1, <3>2 DEF TypeOK, CloseInv
    <3> QED
      BY <2>2, <3>3
  <2> QED
    BY <2>3, <2>4
<1>7. ASSUME NEW k \in Closes, ClosePool(k) PROVE ClientInv'
  BY <1>7 DEF TypeOK, CloseInv, PoolInv, Holding, ClosePool, CloseAt
<1>8. ASSUME NEW k \in Closes, Unlock(k) PROVE ClientInv'
  <2>1. TypeOK' /\ PoolInv'
    BY <1>8 DEF TypeOK, PoolInv, Holding, Unlock, CloseAt
  <2>2. CloseInv'
    BY <1>8 DEF TypeOK, CloseInv, Unlock, CloseAt
  <2> QED
    BY <2>1, <2>2
<1>9. ASSUME PoolCloses PROVE ClientInv'
  BY <1>9 DEF TypeOK, CloseInv, PoolInv, Holding, PoolCloses
<1>10. ASSUME Finished \/ UNCHANGED vars PROVE ClientInv'
  <2>1. UNCHANGED vars
    BY <1>10 DEF Finished
  <2>2. TypeOK' /\ PoolInv'
    BY <2>1 DEF vars, TypeOK, PoolInv, Holding
  <2>3. CloseInv'
    BY <2>1 DEF vars, CloseInv
  <2> QED
    BY <2>2, <2>3
<1> QED
  BY <1>1, <1>2, <1>3, <1>4, <1>5, <1>6, <1>7, <1>8, <1>9, <1>10 DEF Next, CloseStep

\* Whichever goroutines close and use the client, closed, closeMutex and the pool
\* agree, and the pool never lends more than it has (client.go:171-187).
THEOREM ClientInvariant == Spec => []ClientInv
<1>1. ClientInv /\ [Next]_vars => ClientInv'
  BY ClientStep
<1> QED
  BY ClientInit, <1>1, PTL DEF Spec

(***************************************************************************)
(* The contract                                                            *)
(***************************************************************************)
\* Init is mapped to the contract's.
LEMMA ContractInit == Init => Contract!Init
  BY DEF Init, Contract!Init, Used, Requested

\* A use that returns is mapped to its end.
LEMMA UseReturns ==
  ASSUME TypeOK, NEW u \in Uses, NEW value, Return(u, value)
  PROVE  Used' = [Used EXCEPT ![u] = IF value = "nil" THEN "succeeded" ELSE "failed"]
  BY DEF TypeOK, Used, Return, Goto

\* Every step is one of the contract's or a stutter.
LEMMA ContractStep ==
  ClientInv /\ [Next]_vars => [Contract!Next]_<<pool, Used, Requested>>
<1> SUFFICES ASSUME ClientInv, [Next]_vars PROVE [Contract!Next]_<<pool, Used, Requested>>
  OBVIOUS
<1> USE DEF ClientInv
<1>1. ASSUME NEW u \in Uses, Begin(u) PROVE [Contract!Next]_<<pool, Used, Requested>>
  <2>1. CASE Return(u, "ErrClientClosed")
    <3>1. Used' = [Used EXCEPT ![u] = "failed"]
      BY <2>1, UseReturns
    <3>2. Used[u] = "idle"
      BY <1>1 DEF Begin, Used
    <3>3. Contract!Refuse(u)
      BY <1>1, <3>1, <3>2 DEF Begin, Contract!Refuse, Contract!UseTo, Used, Requested
    <3> QED
      BY <3>3 DEF Contract!Next
  <2>2. CASE Goto(u, "acquiring") /\ UNCHANGED result
    <3>1. UNCHANGED <<pool, Used, Requested>>
      BY <1>1, <2>2 DEF Begin, Goto, TypeOK, Used, Requested
    <3> QED
      BY <3>1
  <2> QED
    BY <1>1, <2>1, <2>2 DEF Begin
<1>2. ASSUME NEW u \in Uses, Acquire(u) PROVE [Contract!Next]_<<pool, Used, Requested>>
  <2>1. Used[u] = "idle"
    BY <1>2 DEF Acquire, Used
  <2>2. CASE pool = "open" /\ Goto(u, "holding") /\ UNCHANGED result
    <3>1. Used' = [Used EXCEPT ![u] = "using"]
      BY <2>2 DEF Goto, TypeOK, Used
    <3>2. Contract!Begin(u)
      BY <1>2, <2>1, <2>2, <3>1 DEF Acquire, Contract!Begin, Contract!UseTo, Used, Requested
    <3> QED
      BY <3>2 DEF Contract!Next
  <2>3. ASSUME NEW value \in {"connection", "closed pool"}, Return(u, value)
        PROVE  [Contract!Next]_<<pool, Used, Requested>>
    <3>1. Used' = [Used EXCEPT ![u] = "failed"]
      BY <2>3, UseReturns
    <3>2. Contract!Refuse(u)
      BY <1>2, <2>1, <3>1 DEF Acquire, Contract!Refuse, Contract!UseTo, Used, Requested
    <3> QED
      BY <3>2 DEF Contract!Next
  <2> QED
    BY <1>2, <2>2, <2>3 DEF Acquire
<1>3. ASSUME NEW u \in Uses, GiveUp(u) PROVE [Contract!Next]_<<pool, Used, Requested>>
  <2>1. Used[u] = "idle"
    BY <1>3 DEF GiveUp, Used
  <2>2. Used' = [Used EXCEPT ![u] = "failed"]
    BY <1>3, UseReturns DEF GiveUp
  <2>3. Contract!Refuse(u)
    BY <1>3, <2>1, <2>2 DEF GiveUp, Contract!Refuse, Contract!UseTo, Used, Requested
  <2> QED
    BY <2>3 DEF Contract!Next
<1>4. ASSUME NEW u \in Uses, Release(u) PROVE [Contract!Next]_<<pool, Used, Requested>>
  <2>1. Used[u] = "using" /\ pool # "closed"
    BY <1>4 DEF Release, Used, PoolInv, Holding
  <2>2. CASE Return(u, "nil")
    <3>1. Used' = [Used EXCEPT ![u] = "succeeded"]
      BY <2>2, UseReturns
    <3>2. Contract!Succeed(u)
      BY <1>4, <2>1, <3>1 DEF Release, Contract!Succeed, Contract!UseTo, Used, Requested
    <3> QED
      BY <3>2 DEF Contract!Next
  <2>3. CASE Return(u, "connection")
    <3>1. Used' = [Used EXCEPT ![u] = "failed"]
      BY <2>3, UseReturns
    <3>2. Contract!Fail(u)
      BY <1>4, <2>1, <3>1 DEF Release, Contract!Fail, Contract!UseTo, Used, Requested
    <3> QED
      BY <3>2 DEF Contract!Next
  <2> QED
    BY <1>4, <2>2, <2>3 DEF Release
<1>5. ASSUME NEW k \in Closes, Call(k) PROVE [Contract!Next]_<<pool, Used, Requested>>
  <2>1. Contract!Request(k)
    BY <1>5 DEF TypeOK, Call, CloseAt, Contract!Request, Used, Requested
  <2> QED
    BY <2>1 DEF Contract!Next
<1>6. ASSUME NEW k \in Closes, Lock(k) PROVE [Contract!Next]_<<pool, Used, Requested>>
  <2>1. CASE closed
    <3>1. pool = "closed"
      BY <1>6, <2>1, PoolAssumption DEF Lock, TypeOK, CloseInv
    <3>2. Contract!Return(k)
      BY <1>6, <2>1, <3>1 DEF TypeOK, Lock, CloseAt, Contract!Return, Used, Requested
    <3> QED
      BY <3>2 DEF Contract!Next
  <2>2. CASE ~closed
    <3>1. UNCHANGED <<pool, Used, Requested>>
      BY <1>6, <2>2 DEF TypeOK, Lock, CloseAt, Used, Requested
    <3> QED
      BY <3>1
  <2> QED
    BY <2>1, <2>2
<1>7. ASSUME NEW k \in Closes, ClosePool(k) PROVE [Contract!Next]_<<pool, Used, Requested>>
  <2>1. pool = "open" /\ Requested[k] = "requested"
    BY <1>7 DEF ClosePool, CloseInv, Requested
  <2>2. UNCHANGED <<Used, Requested>>
    BY <1>7 DEF TypeOK, ClosePool, CloseAt, Used, Requested
  <2>3. Contract!Shut
    BY <1>7, <2>1, <2>2 DEF ClosePool, Contract!Shut, Used, Requested
  <2> QED
    BY <2>3 DEF Contract!Next
<1>8. ASSUME NEW k \in Closes, Unlock(k) PROVE [Contract!Next]_<<pool, Used, Requested>>
  <2>1. Contract!Return(k)
    BY <1>8 DEF TypeOK, Unlock, CloseAt, Contract!Return, Used, Requested
  <2> QED
    BY <2>1 DEF Contract!Next
<1>9. ASSUME PoolCloses PROVE [Contract!Next]_<<pool, Used, Requested>>
  <2>1. Contract!Release
    BY <1>9 DEF PoolCloses, Contract!Release, Used, Requested
  <2> QED
    BY <2>1 DEF Contract!Next
<1>10. ASSUME Finished \/ UNCHANGED vars PROVE [Contract!Next]_<<pool, Used, Requested>>
  BY <1>10 DEF Finished, vars, Used, Requested
<1> QED
  BY <1>1, <1>2, <1>3, <1>4, <1>5, <1>6, <1>7, <1>8, <1>9, <1>10 DEF Next, CloseStep

\* PgClient implements SharedClient: nothing succeeds on a closed pool, and a Close
\* that returns, the first or a later one, finds it closed.
THEOREM ClientImplements == Spec => ImplementsClient
<1>1. ClientInv /\ [Next]_vars => [Contract!Next]_Contract!vars
  BY ContractStep DEF Contract!vars, Used, Requested
<1> QED
  BY ContractInit, ClientInvariant, <1>1, PTL DEF Spec, ImplementsClient, Contract!Spec

(***************************************************************************)
(* PgNewClient: sequences of endpoints                                     *)
(***************************************************************************)

\* A non-empty set of naturals has a least member.
LEMMA LeastNumber ==
  ASSUME NEW T \in SUBSET Nat, T # {}
  PROVE  \E x \in T : \A y \in T : x <= y
<1> DEFINE R == OpToRel(<, Nat)
<1>1. IsWellFoundedOn(R, Nat)
  BY NatLessThanWellFounded
<1>2. PICK x \in T : \A y \in T : <<y, x>> \notin R
  <2>1. T \subseteq Nat
    OBVIOUS
  <2> HIDE DEF R
  <2> QED
    BY ONLY <1>1, <2>1, T # {}, WFMin, Zenon
<1>3. R = {p \in Nat \X Nat : p[1] < p[2]}
  BY DEF OpToRel
<1> HIDE DEF R
<1>4. ASSUME NEW y \in T PROVE x <= y
  <2>1. x \in Nat /\ y \in Nat /\ <<y, x>> \notin R
    BY <1>2
  <2>2. <<y, x>> \in Nat \X Nat /\ <<y, x>>[1] = y /\ <<y, x>>[2] = x
    BY <2>1
  <2>3. ~(<<y, x>>[1] < <<y, x>>[2])
    BY <1>3, <2>1, <2>2
  <2> QED
    BY <2>1, <2>2, <2>3
<1> QED
  BY <1>4

\* What FlattenSeq computes: the concatenations of the first sequences of s.
ArePartial(f, s, n) == f = [i \in 1..n |-> IF i = 1 THEN s[i] ELSE f[i - 1] \o s[i]]
Partial(s) == CHOOSE f : ArePartial(f, s, Len(s))

\* FlattenSeq returns the last of them.
LEMMA FlattenIsLast ==
  ASSUME NEW s, Len(s) # 0
  PROVE  FlattenSeq(s) = Partial(s)[Len(s)]
  BY DEF FlattenSeq, Partial, ArePartial

\* There is such a function for every length, by the least one for which there is none.
LEMMA PartialExists ==
  ASSUME NEW s, NEW n \in Nat
  PROVE  \E f : ArePartial(f, s, n)
<1> DEFINE Without == {k \in Nat : ~\E f : ArePartial(f, s, k)}
<1>1. SUFFICES ASSUME Without # {} PROVE FALSE
  OBVIOUS
<1>2. PICK k \in Without : \A j \in Without : k <= j
  <2>1. Without \in SUBSET Nat
    OBVIOUS
  <2> HIDE DEF Without
  <2> QED
    BY <1>1, <2>1, LeastNumber
<1>3. CASE k = 0
  <2> DEFINE g == [i \in 1..0 |-> 0]
  <2>1. g = [i \in 1..0 |-> IF i = 1 THEN s[i] ELSE g[i - 1] \o s[i]]
    OBVIOUS
  <2>2. ArePartial(g, s, 0)
    BY <2>1 DEF ArePartial
  <2> QED
    BY <1>2, <1>3, <2>2
<1>4. CASE k # 0
  <2>1. k - 1 \in Nat /\ k - 1 \notin Without
    BY <1>2, <1>4
  <2>2. PICK f : ArePartial(f, s, k - 1)
    BY <2>1
  <2> DEFINE g == [i \in 1..k |-> IF i = 1 THEN s[i] ELSE f[i - 1] \o s[i]]
  <2>3. \A i \in 1..(k - 1) : g[i] = f[i]
    <3>1. \A i \in 1..(k - 1) : f[i] = IF i = 1 THEN s[i] ELSE f[i - 1] \o s[i]
      BY <2>1, <2>2 DEF ArePartial
    <3>2. \A i \in 1..(k - 1) : i \in 1..k
      BY <2>1
    <3> QED
      BY <3>1, <3>2
  <2>4. g = [i \in 1..k |-> IF i = 1 THEN s[i] ELSE g[i - 1] \o s[i]]
    <3>1. \A i \in 1..k : i # 1 => i - 1 \in 1..(k - 1)
      BY <2>1
    <3>2. \A i \in 1..k : i # 1 => g[i - 1] = f[i - 1]
      BY <2>3, <3>1
    <3> QED
      BY <3>2
  <2>5. ArePartial(g, s, k)
    BY <2>4 DEF ArePartial
  <2> QED
    BY <1>2, <2>5
<1> QED
  BY <1>3, <1>4

\* So Partial obeys the equation that describes it.
LEMMA PartialIs ==
  ASSUME NEW s, Len(s) \in Nat
  PROVE  \A i \in 1..Len(s) :
           Partial(s)[i] = IF i = 1 THEN s[i] ELSE Partial(s)[i - 1] \o s[i]
<1>1. ArePartial(Partial(s), s, Len(s))
  BY PartialExists, Zenon DEF Partial
<1> QED
  BY <1>1 DEF ArePartial

\* The elements of a sequence.
Elements(q) == {q[j] : j \in DOMAIN q}

\* The elements of two sequences, one after the other.
LEMMA ConcatElements ==
  ASSUME NEW E, NEW q \in Seq(E), NEW r \in Seq(E)
  PROVE  Elements(q \o r) = Elements(q) \cup Elements(r)
<1>1. /\ DOMAIN (q \o r) = 1..(Len(q) + Len(r)) /\ DOMAIN q = 1..Len(q) /\ DOMAIN r = 1..Len(r)
      /\ Len(q) \in Nat /\ Len(r) \in Nat
      /\ \A i \in 1..(Len(q) + Len(r)) : (q \o r)[i] = IF i <= Len(q) THEN q[i] ELSE r[i - Len(q)]
  <2>1. q \o r \in Seq(E) /\ Len(q \o r) = Len(q) + Len(r)
    BY ConcatProperties
  <2> QED
    BY <2>1, ConcatProperties, LenProperties
<1>2. ASSUME NEW x \in Elements(q \o r) PROVE x \in Elements(q) \cup Elements(r)
  <2>1. PICK i \in 1..(Len(q) + Len(r)) : x = (q \o r)[i]
    BY <1>1 DEF Elements
  <2>2. CASE i <= Len(q)
    BY <1>1, <2>1, <2>2 DEF Elements
  <2>3. CASE ~(i <= Len(q))
    <3>1. i - Len(q) \in 1..Len(r)
      BY <1>1, <2>3
    <3> QED
      BY <1>1, <2>1, <2>3, <3>1 DEF Elements
  <2> QED
    BY <2>2, <2>3
<1>3. ASSUME NEW x \in Elements(q) PROVE x \in Elements(q \o r)
  <2>1. PICK i \in 1..Len(q) : x = q[i]
    BY <1>1 DEF Elements
  <2>2. i \in 1..(Len(q) + Len(r)) /\ (q \o r)[i] = x
    BY <1>1, <2>1
  <2> QED
    BY <1>1, <2>2 DEF Elements
<1>4. ASSUME NEW x \in Elements(r) PROVE x \in Elements(q \o r)
  <2>1. PICK i \in 1..Len(r) : x = r[i]
    BY <1>1 DEF Elements
  <2>2. /\ i + Len(q) \in 1..(Len(q) + Len(r)) /\ ~(i + Len(q) <= Len(q))
        /\ (i + Len(q)) - Len(q) = i
    BY <1>1, <2>1
  <2>3. (q \o r)[i + Len(q)] = x
    BY <1>1, <2>1, <2>2
  <2> QED
    BY <1>1, <2>2, <2>3 DEF Elements
<1> QED
  BY <1>2, <1>3, <1>4

\* The elements of the first n sequences of s.
Gathered(s, n) == UNION {Elements(s[i]) : i \in 1..n}

\* The concatenation of some sequences has their elements.
LEMMA PartialElements ==
  ASSUME NEW E, NEW s \in Seq(Seq(E)), NEW n \in 1..Len(s)
  PROVE  /\ Partial(s)[n] \in Seq(E)
         /\ Elements(Partial(s)[n]) = Gathered(s, n)
<1> DEFINE P(k) == /\ Partial(s)[k] \in Seq(E)
                   /\ Elements(Partial(s)[k]) = Gathered(s, k)
           Failing == {k \in 1..Len(s) : ~P(k)}
<1> HIDE DEF P
<1>1. /\ Len(s) \in Nat /\ \A i \in 1..Len(s) : s[i] \in Seq(E)
      /\ \A i \in 1..Len(s) : Partial(s)[i] = IF i = 1 THEN s[i] ELSE Partial(s)[i - 1] \o s[i]
  <2>1. Len(s) \in Nat /\ \A i \in 1..Len(s) : s[i] \in Seq(E)
    BY LenProperties
  <2> QED
    BY <2>1, PartialIs
<1>2. SUFFICES ASSUME Failing # {} PROVE FALSE
  BY DEF P
<1>3. PICK k \in Failing : \A j \in Failing : k <= j
  <2>1. Failing \in SUBSET Nat
    BY <1>1
  <2> HIDE DEF Failing
  <2> QED
    BY <1>2, <2>1, LeastNumber
<1>4. CASE k = 1
  <2>1. Partial(s)[1] = s[1] /\ s[1] \in Seq(E)
    <3>1. 1 \in 1..Len(s)
      BY <1>3, <1>4
    <3> HIDE DEF Failing
    <3> QED
      BY <1>1, <3>1
  <2>2. {Elements(s[i]) : i \in 1..1} = {Elements(s[1])}
    OBVIOUS
  <2>3. Elements(s[1]) = Gathered(s, 1)
    BY <2>2 DEF Gathered
  <2> QED
    BY <1>3, <1>4, <2>1, <2>3 DEF P
<1>5. CASE k # 1
  <2>1. k \in 1..Len(s) /\ k - 1 \in 1..Len(s) /\ k - 1 \notin Failing
    BY <1>1, <1>3, <1>5
  <2>2. P(k - 1) /\ ~P(k)
    BY <1>3, <2>1
  <2>3. Partial(s)[k] = Partial(s)[k - 1] \o s[k] /\ s[k] \in Seq(E)
    BY <1>1, <1>5, <2>1
  <2>4. Partial(s)[k] \in Seq(E)
    BY <2>2, <2>3, ConcatProperties DEF P
  <2>5. Elements(Partial(s)[k]) = Elements(Partial(s)[k - 1]) \cup Elements(s[k])
    BY <2>2, <2>3, ConcatElements DEF P
  <2>6. Gathered(s, k) = Gathered(s, k - 1) \cup Elements(s[k])
    <3>1. \A i : i \in 1..k <=> i \in 1..(k - 1) \/ i = k
      BY <1>1, <2>1
    <3>2. 1..k = 1..(k - 1) \cup {k}
      BY <3>1
    <3>3. \A J, j : UNION {Elements(s[i]) : i \in J \cup {j}}
                      = (UNION {Elements(s[i]) : i \in J}) \cup Elements(s[j])
      OBVIOUS
    <3> QED
      BY <3>2, <3>3 DEF Gathered
  <2>7. P(k)
    BY <2>2, <2>4, <2>5, <2>6 DEF P
  <2> QED
    BY <2>2, <2>7
<1> QED
  BY <1>4, <1>5

\* No two endpoints of q have the same address.
Distinct(q) == \A i, j \in DOMAIN q : q[i].address = q[j].address => i = j

\* Two sequences without an address in common, each with every address once.
LEMMA ConcatDistinct ==
  ASSUME NEW E, NEW q \in Seq(E), NEW r \in Seq(E), Distinct(q), Distinct(r),
         \A x \in Elements(q), y \in Elements(r) : x.address # y.address
  PROVE  Distinct(q \o r)
<1>1. /\ DOMAIN (q \o r) = 1..(Len(q) + Len(r)) /\ DOMAIN q = 1..Len(q) /\ DOMAIN r = 1..Len(r)
      /\ Len(q) \in Nat /\ Len(r) \in Nat
      /\ \A i \in 1..(Len(q) + Len(r)) : (q \o r)[i] = IF i <= Len(q) THEN q[i] ELSE r[i - Len(q)]
  <2>1. q \o r \in Seq(E) /\ Len(q \o r) = Len(q) + Len(r)
    BY ConcatProperties
  <2> QED
    BY <2>1, ConcatProperties, LenProperties
<1> SUFFICES ASSUME NEW i \in 1..(Len(q) + Len(r)), NEW j \in 1..(Len(q) + Len(r)),
                    (q \o r)[i].address = (q \o r)[j].address
             PROVE  i = j
  BY <1>1 DEF Distinct
<1>2. ASSUME NEW k \in 1..(Len(q) + Len(r))
      PROVE  \/ k \in 1..Len(q) /\ (q \o r)[k] = q[k] /\ q[k] \in Elements(q)
             \/ /\ k - Len(q) \in 1..Len(r) /\ (q \o r)[k] = r[k - Len(q)]
                /\ r[k - Len(q)] \in Elements(r)
  <2>1. CASE k <= Len(q)
    <3>1. k \in 1..Len(q)
      BY <1>1, <2>1
    <3> QED
      BY <1>1, <2>1, <3>1 DEF Elements
  <2>2. CASE ~(k <= Len(q))
    <3>1. k - Len(q) \in 1..Len(r)
      BY <1>1, <2>2
    <3> QED
      BY <1>1, <2>2, <3>1 DEF Elements
  <2> QED
    BY <2>1, <2>2
<1>3. CASE i \in 1..Len(q) /\ (q \o r)[i] = q[i] /\ q[i] \in Elements(q)
  <2>1. j \in 1..Len(q) /\ (q \o r)[j] = q[j]
    BY <1>2, <1>3
  <2> QED
    BY <1>1, <1>3, <2>1 DEF Distinct
<1>4. CASE /\ i - Len(q) \in 1..Len(r) /\ (q \o r)[i] = r[i - Len(q)]
           /\ r[i - Len(q)] \in Elements(r)
  <2>1. j - Len(q) \in 1..Len(r) /\ (q \o r)[j] = r[j - Len(q)]
    BY <1>2, <1>4
  <2>2. i - Len(q) = j - Len(q)
    BY <1>1, <1>4, <2>1 DEF Distinct
  <2> QED
    BY <1>1, <2>2
<1> QED
  BY <1>2, <1>3, <1>4

\* The concatenation of sequences that have no address in common.
LEMMA PartialDistinct ==
  ASSUME NEW E, NEW s \in Seq(Seq(E)), \A i \in 1..Len(s) : Distinct(s[i]),
         \A i, j \in 1..Len(s) : \A x \in Elements(s[i]), y \in Elements(s[j]) :
           x.address = y.address => i = j,
         NEW n \in 1..Len(s)
  PROVE  Distinct(Partial(s)[n])
<1> DEFINE Failing == {k \in 1..Len(s) : ~Distinct(Partial(s)[k])}
<1>1. /\ Len(s) \in Nat /\ \A i \in 1..Len(s) : s[i] \in Seq(E)
      /\ \A i \in 1..Len(s) : Partial(s)[i] = IF i = 1 THEN s[i] ELSE Partial(s)[i - 1] \o s[i]
  <2>1. Len(s) \in Nat /\ \A i \in 1..Len(s) : s[i] \in Seq(E)
    BY LenProperties
  <2> QED
    BY <2>1, PartialIs
<1>2. SUFFICES ASSUME Failing # {} PROVE FALSE
  OBVIOUS
<1>3. PICK k \in Failing : \A j \in Failing : k <= j
  <2>1. Failing \in SUBSET Nat
    BY <1>1
  <2> HIDE DEF Failing
  <2> QED
    BY <1>2, <2>1, LeastNumber
<1>4. CASE k = 1
  <2>1. k \in 1..Len(s) /\ ~Distinct(Partial(s)[k])
    BY <1>3
  <2> HIDE DEF Failing
  <2>2. Partial(s)[1] = s[1] /\ Distinct(s[1])
    BY <1>1, <1>4, <2>1
  <2> QED
    BY <1>4, <2>1, <2>2
<1>5. CASE k # 1
  <2>1. k \in 1..Len(s) /\ k - 1 \in 1..Len(s) /\ ~Distinct(Partial(s)[k])
    BY <1>1, <1>3, <1>5
  <2>2. Distinct(Partial(s)[k - 1])
    <3>1. ~(k <= k - 1)
      BY <1>1, <2>1
    <3>2. k - 1 \notin Failing
      BY <1>3, <3>1
    <3> QED
      BY <2>1, <3>2
  <2> HIDE DEF Failing
  <2>3. Partial(s)[k] = Partial(s)[k - 1] \o s[k] /\ s[k] \in Seq(E) /\ Distinct(s[k])
    BY <1>1, <1>5, <2>1
  <2>4. /\ Partial(s)[k - 1] \in Seq(E)
        /\ Elements(Partial(s)[k - 1]) = Gathered(s, k - 1)
    BY <2>1, PartialElements
  <2>5. \A x \in Elements(Partial(s)[k - 1]), y \in Elements(s[k]) : x.address # y.address
    <3> SUFFICES ASSUME NEW x \in Elements(Partial(s)[k - 1]), NEW y \in Elements(s[k]),
                        x.address = y.address
                 PROVE  FALSE
      OBVIOUS
    <3>1. PICK i \in 1..(k - 1) : x \in Elements(s[i])
      BY <2>4 DEF Gathered
    <3>2. i \in 1..Len(s) /\ i # k
      BY <1>1, <2>1
    <3> QED
      BY <2>1, <3>1, <3>2
  <2>6. Distinct(Partial(s)[k - 1] \o s[k])
    BY <2>2, <2>3, <2>4, <2>5, ConcatDistinct
  <2> QED
    BY <2>1, <2>3, <2>6
<1> QED
  BY <1>4, <1>5

\* What FlattenSeq returns has the elements of its sequences.
LEMMA FlattenElements ==
  ASSUME NEW E, NEW s \in Seq(Seq(E))
  PROVE  /\ FlattenSeq(s) \in Seq(E)
         /\ Elements(FlattenSeq(s)) = Gathered(s, Len(s))
<1>1. Len(s) \in Nat
  BY LenProperties
<1>2. CASE Len(s) = 0
  <2>1. s = <<>> /\ FlattenSeq(s) = s
    <3>1. s = <<>>
      BY <1>2, EmptySeq
    <3> QED
      BY <1>2, <3>1 DEF FlattenSeq
  <2>2. FlattenSeq(s) \in Seq(E)
    BY <2>1, EmptySeq
  <2>3. Elements(s) = {} /\ Gathered(s, Len(s)) = {}
    <3>1. DOMAIN s = {}
      BY <2>1
    <3>2. 1..Len(s) = {}
      BY <1>2
    <3> QED
      BY <3>1, <3>2 DEF Elements, Gathered
  <2> QED
    BY <2>1, <2>2, <2>3
<1>3. CASE Len(s) # 0
  <2>1. Len(s) \in 1..Len(s)
    BY <1>1, <1>3
  <2>2. FlattenSeq(s) = Partial(s)[Len(s)]
    BY <1>3, FlattenIsLast
  <2>3. /\ Partial(s)[Len(s)] \in Seq(E)
        /\ Elements(Partial(s)[Len(s)]) = Gathered(s, Len(s))
    BY <2>1, PartialElements
  <2> QED
    BY <2>2, <2>3
<1> QED
  BY <1>2, <1>3

\* It has no address twice if they have none in common.
LEMMA FlattenDistinct ==
  ASSUME NEW E, NEW s \in Seq(Seq(E)), \A i \in 1..Len(s) : Distinct(s[i]),
         \A i, j \in 1..Len(s) : \A x \in Elements(s[i]), y \in Elements(s[j]) :
           x.address = y.address => i = j
  PROVE  Distinct(FlattenSeq(s))
<1>1. Len(s) \in Nat
  BY LenProperties
<1>2. CASE Len(s) = 0
  <2>1. s = <<>>
    BY <1>2, EmptySeq
  <2>2. FlattenSeq(s) = s
    BY <1>2, <2>1 DEF FlattenSeq
  <2> QED
    BY <2>1, <2>2 DEF Distinct
<1>3. CASE Len(s) # 0
  <2>1. Len(s) \in 1..Len(s)
    BY <1>1, <1>3
  <2>2. FlattenSeq(s) = Partial(s)[Len(s)]
    BY <1>3, FlattenIsLast
  <2>3. Distinct(Partial(s)[Len(s)])
    BY <2>1, PartialDistinct
  <2> QED
    BY <2>2, <2>3
<1> QED
  BY <1>2, <1>3

\* pgx tries endpoints that are well formed.
LEMMA AttemptsOK ==
  ASSUME NEW a \in Addresses, NEW mode \in AllModes
  PROVE  Attempts(a, mode) \in Seq(Endpoints)
<1>1. Host[a] \in {Host[b] : b \in Addresses}
  OBVIOUS
<1>2. /\ Endpoint(a, Plain) \in Endpoints
      /\ Endpoint(a, Encrypted) \in Endpoints
      /\ Endpoint(a, Authority) \in Endpoints
      /\ Endpoint(a, Verified(Host[a])) \in Endpoints
  BY <1>1 DEF Endpoint, Endpoints, Plain, Encrypted, Authority, Verified
<1>3. \A x, y \in Endpoints : <<x>> \in Seq(Endpoints) /\ <<x, y>> \in Seq(Endpoints)
  OBVIOUS
<1>4. \/ Attempts(a, mode) = <<Endpoint(a, Plain)>>
      \/ Attempts(a, mode) = <<Endpoint(a, Plain), Endpoint(a, Encrypted)>>
      \/ Attempts(a, mode) = <<Endpoint(a, Encrypted), Endpoint(a, Plain)>>
      \/ Attempts(a, mode) = <<Endpoint(a, Encrypted)>>
      \/ Attempts(a, mode) = <<Endpoint(a, Authority)>>
      \/ Attempts(a, mode) = <<Endpoint(a, Verified(Host[a]))>>
  BY DEF Attempts, AllModes
<1> QED
  BY <1>2, <1>3, <1>4

\* So are the endpoints of a configuration that was parsed.
LEMMA ParsedOK ==
  ASSUME NewTypeOK
  PROVE  Parsed \in Seq(Endpoints)
<1> DEFINE hosts == IF paramHosts = <<>> THEN stringHosts ELSE paramHosts
           mode == IF paramMode = "unset" THEN stringMode ELSE paramMode
           lists == [i \in DOMAIN hosts |-> Attempts(hosts[i], mode)]
<1>1. hosts \in Seq(Addresses) /\ mode \in AllModes
  BY PgAssumption DEF NewTypeOK
<1>2. Parsed = FlattenSeq(lists)
  BY DEF Parsed
<1> HIDE DEF hosts, mode
<1>3. \A i \in DOMAIN hosts : Attempts(hosts[i], mode) \in Seq(Endpoints)
  BY <1>1, AttemptsOK, LenProperties
<1>4. lists \in Seq(Seq(Endpoints))
  BY <1>1, <1>3, LenProperties
<1> HIDE DEF lists
<1> QED
  BY <1>2, <1>4, FlattenElements

\* What Covered says of the name of an endpoint.
NameFits(base, x) ==
  /\ x.name \in {base.name, Host[x.address]} \ {NoName}
  /\ x.name # base.name => base.name = NoName /\ x.name \notin Unnamed

\* applyTLSConfig gives every address its TLS, once.
LEMMA SecuredIs ==
  ASSUME NewTypeOK, NEW base \in Bases,
         \A a \in Reachable : ~Nameless(base, a)
  PROVE  LET secured == Secured(base)
         IN  /\ secured \in Seq(Endpoints)
             /\ {x.address : x \in Elements(secured)} = Reachable
             /\ Distinct(secured)
             /\ \A x \in Elements(secured) :
                  /\ x.tls = "verified"
                  /\ NameFits(base, x)
<1> DEFINE tls(i) == Endpoint(endpoints[i].address,
                                  TLSConfigForHost(base, endpoints[i].address))
           lists == [i \in DOMAIN endpoints |-> IF Fresh(i) THEN <<tls(i)>> ELSE <<>>]
           n == Len(endpoints)
<1>1. Secured(base) = FlattenSeq(lists)
  BY DEF Secured
<1>2. /\ n \in Nat /\ DOMAIN endpoints = 1..n
      /\ \A i \in 1..n : endpoints[i] \in Endpoints /\ endpoints[i].address \in Addresses
  <2>1. endpoints \in Seq(Endpoints)
    BY DEF NewTypeOK
  <2>2. /\ n \in Nat /\ DOMAIN endpoints = 1..n
        /\ \A i \in 1..n : endpoints[i] \in Endpoints
    BY <2>1, LenProperties
  <2> QED
    BY <2>2 DEF Endpoints
<1>3. ASSUME NEW i \in 1..n
      PROVE  /\ tls(i) \in Endpoints /\ tls(i).address = endpoints[i].address
             /\ tls(i).tls = "verified"
             /\ NameFits(base, tls(i))
  <2> DEFINE a == endpoints[i].address
             named == IF base.name = NoName THEN Host[a] ELSE base.name
  <2>1. a \in Addresses /\ base.name \in Names \cup {NoName}
    BY <1>2 DEF Bases
  <2>2. /\ named \in Names \cup {Host[b] : b \in Addresses}
        /\ named \in {base.name, Host[a]} \ {NoName}
        /\ named # base.name => base.name = NoName /\ named \notin Unnamed
    <3>1. a \in Reachable
      BY <1>2 DEF Reachable
    <3> QED
      BY PgAssumption, <2>1, <3>1 DEF Nameless
  <2>3. tls(i) = [address |-> a, tls |-> "verified", name |-> named]
    BY DEF Endpoint, TLSConfigForHost, Verified
  <2> HIDE DEF tls, named, a
  <2>4. tls(i) \in Endpoints
    BY <2>1, <2>2, <2>3 DEF Endpoints
  <2> QED
    BY <2>2, <2>3, <2>4 DEF a, NameFits
<1> HIDE DEF tls
<1>4. /\ lists \in Seq(Seq(Endpoints)) /\ Len(lists) = n
      /\ \A i \in 1..n : Elements(lists[i]) = IF Fresh(i) THEN {tls(i)} ELSE {}
      /\ \A i \in 1..n : Distinct(lists[i])
  <2>1. \A x \in Endpoints : <<x>> \in Seq(Endpoints)
    OBVIOUS
  <2>2. <<>> \in Seq(Endpoints)
    OBVIOUS
  <2>3. \A i \in 1..n : (IF Fresh(i) THEN <<tls(i)>> ELSE <<>>) \in Seq(Endpoints)
    BY <1>3, <2>1, <2>2
  <2>4. lists \in Seq(Seq(Endpoints)) /\ Len(lists) = n
    BY <1>2, <2>3
  <2>5. \A x : Elements(<<x>>) = {x} /\ Distinct(<<x>>)
    BY DEF Elements, Distinct
  <2>6. Elements(<<>>) = {} /\ Distinct(<<>>)
    BY DEF Elements, Distinct
  <2>7. \A i \in 1..n : lists[i] = IF Fresh(i) THEN <<tls(i)>> ELSE <<>>
    BY <1>2
  <2> HIDE DEF lists
  <2> QED
    BY <2>4, <2>5, <2>6, <2>7
<1> HIDE DEF lists
<1>5. Secured(base) \in Seq(Endpoints) /\ Elements(Secured(base)) = Gathered(lists, n)
  BY <1>1, <1>4, FlattenElements
<1>6. \A x : x \in Gathered(lists, n) <=> \E i \in 1..n : Fresh(i) /\ x = tls(i)
  BY <1>4 DEF Gathered
<1>7. {x.address : x \in Gathered(lists, n)} = Reachable
  <2>1. ASSUME NEW x \in Gathered(lists, n) PROVE x.address \in Reachable
    BY <1>2, <1>3, <1>6 DEF Reachable
  <2>2. ASSUME NEW a \in Reachable PROVE \E x \in Gathered(lists, n) : x.address = a
    <3> DEFINE At == {i \in 1..n : endpoints[i].address = a}
    <3>1. At \in SUBSET Nat /\ At # {}
      BY <1>2 DEF Reachable
    <3>2. PICK i \in At : \A j \in At : i <= j
      <4> HIDE DEF At
      <4> QED
        BY <3>1, LeastNumber
    <3>3. i \in 1..n /\ endpoints[i].address = a
      BY <3>2
    <3>4. ASSUME NEW j \in 1..(i - 1) PROVE endpoints[j].address # a
      <4>1. j \in 1..n /\ ~(i <= j)
        BY <1>2, <3>3
      <4> QED
        BY <3>2, <4>1
    <3>5. Fresh(i)
      BY <3>3, <3>4 DEF Fresh
    <3> QED
      BY <1>3, <1>6, <3>3, <3>5
  <2> QED
    BY <2>1, <2>2
<1>8. Distinct(Secured(base))
  <2>1. ASSUME NEW i \in 1..n, NEW j \in 1..n, Fresh(i), Fresh(j),
               tls(i).address = tls(j).address
        PROVE  i = j
    <3>1. endpoints[i].address = endpoints[j].address
      BY <1>3, <2>1
    <3>2. ~(i < j)
      <4> SUFFICES ASSUME i < j PROVE FALSE
        OBVIOUS
      <4>1. i \in 1..(j - 1)
        BY <1>2
      <4> QED
        BY <2>1, <3>1, <4>1 DEF Fresh
    <3>3. ~(j < i)
      <4> SUFFICES ASSUME j < i PROVE FALSE
        OBVIOUS
      <4>1. j \in 1..(i - 1)
        BY <1>2
      <4> QED
        BY <2>1, <3>1, <4>1 DEF Fresh
    <3> QED
      BY <1>2, <3>2, <3>3
  <2>2. \A i, j \in 1..Len(lists) : \A x \in Elements(lists[i]), y \in Elements(lists[j]) :
          x.address = y.address => i = j
    BY <1>4, <2>1
  <2>3. \A i \in 1..Len(lists) : Distinct(lists[i])
    BY <1>4
  <2> QED
    BY <1>1, <1>4, <2>2, <2>3, FlattenDistinct
<1> QED
  BY <1>3, <1>5, <1>6, <1>7, <1>8

(***************************************************************************)
(* The steps of the construction                                           *)
(***************************************************************************)

\* StageInv holds when the call begins.
LEMMA NewInitial ==
  ASSUME NewInit
  PROVE  StageInv
<1>1. limits \in [Limits -> Int]
  <2>1. Least \in [Limits -> Int]
    BY DEF Least
  <2>2. limits = [Least EXCEPT !.MaxConns = 2]
    BY DEF NewInit
  <2> QED
    BY <2>1, <2>2
<1>2. endpoints \in Seq(Endpoints) /\ configurers \in Seq(Tampering \cup Setting)
  BY EmptySeq DEF NewInit
<1>3. /\ stage = "options" /\ options \in 0..MaxOptions /\ stringHosts \in HostLists
      /\ stringMode \in Modes /\ paramHosts = <<>> /\ paramMode = "unset"
      /\ tlsConfig = NoBase /\ wanted = {}
  BY PgAssumption DEF NewInit
<1>4. tlsConfigured \in BOOLEAN /\ requireTLS \in BOOLEAN /\ connectionCheck \in BOOLEAN
  BY DEF NewInit
<1>5. driver \in BOOLEAN /\ ~driver
  BY DEF NewInit
<1>6. NewTypeOK
  BY <1>1, <1>2, <1>3, <1>4, <1>5 DEF NewTypeOK
<1>7. NoPoolLeak /\ LimitsInv /\ TLSInv
  BY <1>3, <1>5 DEF NoPoolLeak, LimitsInv, TLSInv
<1> QED
  BY <1>6, <1>7 DEF StageInv

\* One of NewClient's options.
AnyOption ==
  \/ WithConnectionString \/ WithHost \/ WithSSLMode \/ WithTLSConfig
  \/ WithRequireTLS \/ WithConnectionCheck \/ WithPoolConfigurer \/ WithLimit

\* Each option is applied before the configuration is parsed, and changes only the
\* settings.
LEMMA OptionKeeps ==
  ASSUME AnyOption
  PROVE  Option
BY DEF AnyOption, WithConnectionString, WithHost, WithSSLMode, WithTLSConfig,
       WithRequireTLS, WithConnectionCheck, WithPoolConfigurer, WithLimit,
       withPoolConfigurer

\* An option leaves the settings well formed.
LEMMA OptionType ==
  ASSUME NewTypeOK, AnyOption
  PROVE  NewTypeOK'
<1>1. /\ stage' = stage /\ options' \in 0..MaxOptions
      /\ endpoints' = endpoints /\ wanted' = wanted /\ limits' = limits /\ driver' = driver
  BY PgAssumption, OptionKeeps DEF Option, NewTypeOK
<1>2. /\ stringHosts' \in HostLists /\ paramHosts' \in HostLists \cup {<<>>}
      /\ stringMode' \in Modes /\ paramMode' \in Modes \cup {"unset"}
      /\ tlsConfig' \in Bases \cup {NoBase}
  BY DEF AnyOption, NewTypeOK, WithConnectionString, WithHost, WithSSLMode,
         WithTLSConfig, WithRequireTLS, WithConnectionCheck,
         WithPoolConfigurer, WithLimit, withPoolConfigurer
<1>3. tlsConfigured' \in BOOLEAN /\ requireTLS' \in BOOLEAN /\ connectionCheck' \in BOOLEAN
  BY DEF AnyOption, NewTypeOK, WithConnectionString, WithHost, WithSSLMode,
         WithTLSConfig, WithRequireTLS, WithConnectionCheck,
         WithPoolConfigurer, WithLimit, withPoolConfigurer
<1>4. configurers' \in Seq(Tampering \cup Setting)
  <2>1. CASE configurers' = configurers
    BY <2>1 DEF NewTypeOK
  <2>2. CASE \E c \in Tampering \cup Setting : configurers' = Append(configurers, c)
    BY <2>2 DEF NewTypeOK
  <2>3. [kind |-> "fails"] \in Tampering
    BY DEF Tampering
  <2>4. configurers' = configurers \/ WithPoolConfigurer \/ WithLimit
    BY DEF AnyOption, WithConnectionString, WithHost, WithSSLMode,
           WithTLSConfig, WithRequireTLS, WithConnectionCheck
  <2>5. ASSUME WithPoolConfigurer PROVE configurers' \in Seq(Tampering \cup Setting)
    BY <2>2, <2>5 DEF WithPoolConfigurer, withPoolConfigurer
  <2>6. ASSUME WithLimit PROVE configurers' \in Seq(Tampering \cup Setting)
    BY <2>2, <2>3, <2>6 DEF WithLimit, withPoolConfigurer
  <2> QED
    BY <2>1, <2>4, <2>5, <2>6
<1> QED
  BY <1>1, <1>2, <1>3, <1>4 DEF NewTypeOK

\* A configurer leaves endpoints and limits well formed.
LEMMA ConfigureType ==
  ASSUME NewTypeOK, Configure
  PROVE  NewTypeOK'
<1> DEFINE c == Head(configurers)
<1>1. c \in Tampering \cup Setting /\ configurers' \in Seq(Tampering \cup Setting)
  BY HeadTailProperties DEF NewTypeOK, Configure
<1>2. ASSUME c.kind = "routes" PROVE c.routes \in Seq(Endpoints)
  <2>1. c.routes \in Routes
    BY <1>1, <1>2 DEF Tampering, Setting
  <2> QED
    BY <2>1, PgAssumption
<1>3. endpoints' \in Seq(Endpoints)
  <2>1. endpoints' = endpoints \/ (c.kind = "routes" /\ endpoints' = c.routes)
    BY DEF Configure, Apply, Fail
  <2> QED
    BY <1>2, <2>1 DEF NewTypeOK
<1>4. limits' \in [Limits -> Int]
  <2>1. CASE limits' = limits
    BY <2>1 DEF NewTypeOK
  <2>2. CASE c.kind = "limit" /\ limits' = [limits EXCEPT ![c.limit] = c.value]
    <3>1. c \in Setting
      BY <1>1, <2>2 DEF Tampering
    <3>2. c.limit \in Limits /\ c.value \in Int
      BY PgAssumption, <3>1 DEF Setting
    <3> QED
      BY <2>2, <3>2 DEF NewTypeOK
  <2> QED
    BY <2>1, <2>2 DEF Configure, Apply, Fail
<1>5. /\ stage' \in {stage, "failed"} /\ options' = options /\ wanted' = wanted
      /\ stringHosts' = stringHosts /\ stringMode' = stringMode
      /\ paramHosts' = paramHosts /\ paramMode' = paramMode /\ tlsConfig' = tlsConfig
  BY DEF Configure, Apply, Fail
<1>6. /\ tlsConfigured' \in BOOLEAN /\ requireTLS' \in BOOLEAN
      /\ connectionCheck' \in BOOLEAN /\ driver' \in BOOLEAN
  BY DEF NewTypeOK, Configure, Apply, Fail
<1> QED
  BY <1>1, <1>3, <1>4, <1>5, <1>6 DEF NewTypeOK

\* One of the other steps of NewClient.
AnyCheck ==
  \/ Validate \/ Parse \/ Configured \/ ApplyTLS \/ ValidatePool
  \/ RequireTLS \/ NewPool \/ Ping

\* They change neither settings nor limits.
LEMMA CheckKeeps ==
  ASSUME AnyCheck
  PROVE  /\ options' = options /\ settings' = settings /\ limits' = limits
BY DEF AnyCheck, Validate, Parse, Configured, ApplyTLS, ValidatePool,
       RequireTLS, NewPool, Ping, Fail, settings

\* What applyTLSConfig leaves covers every server that was wanted.
LEMMA ApplyTLSCovers ==
  ASSUME StageInv, ApplyTLS, stage' = "validatePool"
  PROVE  /\ endpoints' \in Seq(Endpoints)
         /\ tlsConfigured => Covered'
<1>1. NewTypeOK /\ Reachable = wanted /\ endpoints \in Seq(Endpoints)
  BY DEF StageInv, TLSInv, NewTypeOK, ApplyTLS
<1>2. CASE ~tlsConfigured
  BY <1>1, <1>2 DEF ApplyTLS, Fail
<1>3. CASE tlsConfigured
  <2>1. /\ tlsConfig.valid /\ \A a \in wanted : ~Nameless(tlsConfig, a)
        /\ endpoints' = Secured(tlsConfig) /\ wanted' = wanted /\ tlsConfig' = tlsConfig
    BY <1>3 DEF ApplyTLS, Fail, settings
  <2>2. tlsConfig \in Bases
    BY <1>1, <2>1 DEF NewTypeOK, NoBase
  <2>3. /\ endpoints' \in Seq(Endpoints)
        /\ {x.address : x \in Elements(endpoints')} = wanted
        /\ Distinct(endpoints')
        /\ \A x \in Elements(endpoints') :
             /\ x.tls = "verified"
             /\ NameFits(tlsConfig, x)
    BY <1>1, <2>1, <2>2, SecuredIs
  <2>4. Reachable' = wanted'
    BY <2>1, <2>3 DEF Reachable, Elements
  <2>5. IsInjective([i \in DOMAIN endpoints' |-> endpoints'[i].address])
    BY <2>3 DEF Distinct, IsInjective
  <2>6. \A i \in DOMAIN endpoints' :
          /\ endpoints'[i].tls = "verified"
          /\ endpoints'[i].name \in {tlsConfig'.name, Host[endpoints'[i].address]} \ {NoName}
          /\ endpoints'[i].name # tlsConfig'.name =>
               tlsConfig'.name = NoName /\ endpoints'[i].name \notin Unnamed
    BY <2>1, <2>3 DEF Elements, NameFits
  <2> QED
    BY <2>3, <2>4, <2>5, <2>6 DEF Covered
<1> QED
  BY <1>2, <1>3

\* They leave the endpoints well formed, and only name servers that exist.
LEMMA CheckType ==
  ASSUME StageInv, AnyCheck
  PROVE  NewTypeOK'
<1>1. NewTypeOK
  BY DEF StageInv
<1>2. /\ options' = options /\ stringHosts' = stringHosts /\ stringMode' = stringMode
      /\ paramHosts' = paramHosts /\ paramMode' = paramMode /\ configurers' = configurers
      /\ tlsConfigured' = tlsConfigured /\ tlsConfig' = tlsConfig /\ requireTLS' = requireTLS
      /\ connectionCheck' = connectionCheck /\ limits' = limits
  BY CheckKeeps DEF settings
<1>3. stage' \in {"parse", "configure", "tls", "validatePool", "requireTLS", "pool",
                  "ping", "connected", "failed"}
  BY DEF AnyCheck, Validate, Parse, Configured, ApplyTLS, ValidatePool,
         RequireTLS, NewPool, Ping, Fail
<1>4. driver' \in BOOLEAN
  BY <1>1 DEF AnyCheck, NewTypeOK, Validate, Parse, Configured, ApplyTLS,
         ValidatePool, RequireTLS, NewPool, Ping, Fail
<1>5. endpoints' \in Seq(Endpoints)
  <2>1. ASSUME Parse PROVE endpoints' \in Seq(Endpoints)
    BY <1>1, <2>1, ParsedOK DEF Parse, Fail, NewTypeOK
  <2>2. ASSUME ApplyTLS PROVE endpoints' \in Seq(Endpoints)
    BY <1>1, <2>2, ApplyTLSCovers DEF ApplyTLS, Fail, NewTypeOK
  <2>3. Parse \/ ApplyTLS \/ endpoints' = endpoints
    BY DEF AnyCheck, Validate, Configured, ValidatePool, RequireTLS,
           NewPool, Ping, Fail
  <2> QED
    BY <1>1, <2>1, <2>2, <2>3 DEF NewTypeOK
<1>6. wanted' \subseteq Addresses
  <2>1. wanted' = wanted \/ wanted' = Reachable
    BY DEF AnyCheck, Validate, Parse, Configured, ApplyTLS, ValidatePool,
           RequireTLS, NewPool, Ping, Fail, Reachable
  <2>2. \A i \in DOMAIN endpoints : endpoints[i] \in Endpoints
    BY <1>1, LenProperties DEF NewTypeOK
  <2>3. Reachable \subseteq Addresses
    BY <2>2 DEF Reachable, Endpoints
  <2> QED
    BY <1>1, <2>1, <2>3 DEF NewTypeOK
<1> QED
  BY <1>1, <1>2, <1>3, <1>4, <1>5, <1>6 DEF NewTypeOK

\* A step is an option, a configurer, or one of NewClient's own.
LEMMA NewCases ==
  ASSUME [NewNext]_newVars
  PROVE  AnyOption \/ Configure \/ AnyCheck \/ UNCHANGED newVars
BY DEF NewNext, AnyOption, AnyCheck, Ended

\* A pool is made by NewPool, and is gone when Ping fails.
LEMMA NewPoolStep ==
  ASSUME StageInv, [NewNext]_newVars
  PROVE  NoPoolLeak'
<1>1. NoPoolLeak /\ driver \in BOOLEAN
  BY DEF StageInv, NewTypeOK
<1>2. CASE AnyOption
  <2>1. stage' = stage /\ driver' = driver
    BY <1>2, OptionKeeps DEF Option
  <2> QED
    BY <1>1, <2>1 DEF NoPoolLeak
<1>3. CASE Configure
  <2>1. stage = "configure" /\ driver' = driver
    BY <1>3 DEF Configure, Fail
  <2> QED
    BY <1>1, <2>1 DEF NoPoolLeak
<1>4. CASE AnyCheck
  <2>1. ASSUME stage \notin {"pool", "ping"} PROVE driver' = driver /\ stage # "connected"
    BY <1>4, <2>1 DEF AnyCheck, Validate, Parse, Configured, ApplyTLS,
       ValidatePool, RequireTLS, NewPool, Ping, Fail
  <2>2. CASE stage \notin {"pool", "ping"}
    BY <1>1, <2>1, <2>2 DEF NoPoolLeak
  <2>3. CASE stage = "pool"
    <3>1. NewPool
      BY <1>4, <2>3 DEF AnyCheck, Validate, Parse, Configured, ApplyTLS,
         ValidatePool, RequireTLS, Ping
    <3> QED
      BY <1>1, <2>3, <3>1 DEF NoPoolLeak, NewPool, Fail
  <2>4. CASE stage = "ping"
    <3>1. Ping
      BY <1>4, <2>4 DEF AnyCheck, Validate, Parse, Configured, ApplyTLS,
         ValidatePool, RequireTLS, NewPool
    <3> QED
      BY <3>1 DEF NoPoolLeak, Ping
  <2> QED
    BY <2>2, <2>3, <2>4
<1>5. CASE UNCHANGED newVars
  BY <1>1, <1>5 DEF NoPoolLeak, newVars
<1> QED
  BY <1>2, <1>3, <1>4, <1>5, NewCases

\* The limits are set by configurers alone, and looked at after all of them.
LEMMA LimitsStep ==
  ASSUME StageInv, [NewNext]_newVars
  PROVE  LimitsInv'
<1>1. LimitsInv /\ limits \in [Limits -> Int]
  BY DEF StageInv, NewTypeOK
<1>2. CASE AnyOption
  <2>1. stage' = "options"
    BY <1>2, OptionKeeps DEF Option
  <2> QED
    BY <2>1 DEF LimitsInv
<1>3. CASE Configure
  <2>1. stage' \in {"configure", "failed"}
    BY <1>3 DEF Configure, Fail
  <2> QED
    BY <2>1 DEF LimitsInv
<1>4. CASE AnyCheck
  <2>1. limits' = limits
    BY <1>4, CheckKeeps
  <2>2. CASE stage \in {"requireTLS", "pool", "ping", "connected"}
    BY <1>1, <2>1, <2>2 DEF LimitsInv
  <2>3. CASE stage \notin {"requireTLS", "pool", "ping", "connected", "validatePool"}
    <3>1. stage' \in {"parse", "configure", "tls", "validatePool", "failed"}
      BY <1>4, <2>3 DEF AnyCheck, Validate, Parse, Configured, ApplyTLS,
         ValidatePool, RequireTLS, NewPool, Ping, Fail
    <3> QED
      BY <3>1 DEF LimitsInv
  <2>4. CASE stage = "validatePool"
    <3>1. ValidLimits \/ stage' = "failed"
      BY <1>4, <2>4 DEF AnyCheck, Validate, Parse, Configured, ApplyTLS,
         ValidatePool, RequireTLS, NewPool, Ping, Fail
    <3>2. ASSUME ValidLimits
          PROVE  {limits["MinConns"], limits["MinIdleConns"]} \subseteq 0..limits["MaxConns"]
      <4>1. /\ limits["MinConns"] \in Int /\ limits["MinIdleConns"] \in Int
            /\ limits["MaxConns"] \in Int
        BY <1>1 DEF Limits
      <4>2. limits["MinConns"] >= 0 /\ limits["MinIdleConns"] >= 0
        BY <3>2 DEF ValidLimits, Least, Limits
      <4> QED
        BY <3>2, <4>1, <4>2 DEF ValidLimits
    <3> QED
      BY <2>1, <3>1, <3>2 DEF LimitsInv, ValidLimits
  <2> QED
    BY <2>2, <2>3, <2>4
<1>5. CASE UNCHANGED newVars
  BY <1>1, <1>5 DEF LimitsInv, newVars
<1> QED
  BY <1>2, <1>3, <1>4, <1>5, NewCases

\* What applyTLSConfig and validateTLSRequired made sure of is not undone: no
\* configurer runs after them.
LEMMA TLSStep ==
  ASSUME StageInv, [NewNext]_newVars
  PROVE  TLSInv'
<1>1. TLSInv /\ NewTypeOK
  BY DEF StageInv
<1>2. CASE AnyOption
  <2>1. stage' = "options"
    BY <1>2, OptionKeeps DEF Option
  <2> QED
    BY <2>1 DEF TLSInv
<1>3. CASE Configure
  <2>1. stage' \in {"configure", "failed"}
    BY <1>3 DEF Configure, Fail
  <2> QED
    BY <2>1 DEF TLSInv
<1>4. CASE AnyCheck
  <2>1. tlsConfigured' = tlsConfigured /\ tlsConfig' = tlsConfig /\ requireTLS' = requireTLS
    BY <1>4, CheckKeeps DEF settings
  <2>2. CASE Validate \/ Parse
    <3>1. stage' \in {"parse", "configure", "failed"}
      BY <2>2 DEF Validate, Parse, Fail
    <3> QED
      BY <3>1 DEF TLSInv
  <2>3. CASE Configured
    <3>1. stage' = "tls" /\ wanted' = Reachable /\ endpoints' = endpoints
      BY <2>3 DEF Configured, Reachable
    <3>2. Reachable' = wanted'
      BY <3>1 DEF Reachable
    <3> QED
      BY <3>1, <3>2 DEF TLSInv
  <2>4. CASE ApplyTLS
    <3>1. stage' \in {"validatePool", "failed"}
      BY <2>4 DEF ApplyTLS, Fail
    <3>2. stage' = "validatePool" /\ tlsConfigured => Covered'
      BY <2>4, ApplyTLSCovers
    <3> QED
      BY <2>1, <3>1, <3>2 DEF TLSInv
  <2>5. CASE ValidatePool \/ RequireTLS \/ NewPool \/ Ping
    <3>1. /\ endpoints' = endpoints /\ wanted' = wanted
          /\ stage \in {"validatePool", "requireTLS", "pool", "ping"}
          /\ stage' \in {"requireTLS", "pool", "ping", "connected", "failed"}
      BY <2>5 DEF ValidatePool, RequireTLS, NewPool, Ping, Fail
    <3>2. tlsConfigured' => Covered'
      BY <1>1, <2>1, <3>1 DEF TLSInv, Covered, Reachable
    <3>3. stage' \in {"pool", "ping", "connected"} /\ requireTLS' => Encrypts'
      <4>1. CASE RequireTLS
        <5>1. stage' = "failed" \/ ~requireTLS \/ AllTLS
          BY <4>1 DEF RequireTLS, Fail
        <5> QED
          BY <2>1, <3>1, <5>1 DEF AllTLS, Encrypts
      <4>2. CASE ValidatePool
        BY <4>2 DEF ValidatePool, Fail
      <4>3. CASE NewPool \/ Ping
        <5>1. stage \in {"pool", "ping"}
          BY <4>3 DEF NewPool, Ping
        <5> QED
          BY <1>1, <2>1, <3>1, <5>1 DEF TLSInv, Encrypts
      <4> QED
        BY <2>5, <4>1, <4>2, <4>3
    <3> QED
      BY <3>1, <3>2, <3>3 DEF TLSInv
  <2> QED
    BY <1>4, <2>2, <2>3, <2>4, <2>5 DEF AnyCheck
<1>5. CASE UNCHANGED newVars
  BY <1>1, <1>5 DEF TLSInv, Covered, Reachable, Encrypts, newVars, settings
<1> QED
  BY <1>2, <1>3, <1>4, <1>5, NewCases

\* Every step preserves StageInv.
LEMMA NewStep ==
  ASSUME StageInv, [NewNext]_newVars
  PROVE  StageInv'
<1>1. NewTypeOK'
  <2>1. NewTypeOK
    BY DEF StageInv
  <2>2. CASE UNCHANGED newVars
    BY <2>1, <2>2 DEF NewTypeOK, newVars, settings
  <2> QED
    BY <2>1, <2>2, NewCases, OptionType, ConfigureType, CheckType
<1> QED
  BY <1>1, NewPoolStep, LimitsStep, TLSStep DEF StageInv

\* Each stage of NewClient has made sure of what the later ones rely on: the pool's
\* limits hold, TLS is applied to every server once, and no pool is left behind by a
\* call that fails (client.go:64-113).
THEOREM StagesHold == NewSpec => []StageInv
<1>1. NewInit => StageInv
  BY NewInitial
<1>2. StageInv /\ [NewNext]_newVars => StageInv'
  BY NewStep
<1> QED
  BY <1>1, <1>2, PTL DEF NewSpec

\* Whatever the options, their order and the configurers, a pool that must use TLS has
\* no way to connect without it (client_options.go:57,200,214).
THEOREM NoPlainTransportLeft == NewSpec => []NoPlainTransport
<1>1. StageInv => NoPlainTransport
  BY DEF StageInv, NoPoolLeak, TLSInv, NoPlainTransport
<1> QED
  BY <1>1, StagesHold, PTL

\* With WithTLSConfig the pool tries every server that was configured once, and
\* verifies each under its own name or the caller's.
THEOREM TLSCoversServers == NewSpec => []TLSCoversAll
<1>1. StageInv => TLSCoversAll
  BY DEF StageInv, NoPoolLeak, TLSInv, TLSCoversAll
<1> QED
  BY <1>1, StagesHold, PTL
=============================================================================

------------------------ MODULE MongoNewClientProofs ------------------------
(***************************************************************************)
(* Proofs about MongoNewClient, for any passwords, and key files and       *)
(* options of any length.                                                  *)
(***************************************************************************)
EXTENDS MongoNewClient, WellFoundedInduction, TLAPS

(***************************************************************************)
(* Extreme members of sets of natural numbers                              *)
(***************************************************************************)

\* A non-empty set of naturals has a least member.
LEMMA LeastNumber ==
  ASSUME NEW T \in SUBSET Nat, T # {}
  PROVE  \E x \in T : \A y \in T : x <= y
<1> DEFINE R == OpToRel(<, Nat)
<1>1. IsWellFoundedOn(R, Nat)
  BY NatLessThanWellFounded
<1>2. PICK x \in T : \A y \in T : <<y, x>> \notin R
  <2>1. T \subseteq Nat
    OBVIOUS
  <2> HIDE DEF R
  <2> QED
    BY ONLY <1>1, <2>1, T # {}, WFMin, Zenon
<1>3. R = {p \in Nat \X Nat : p[1] < p[2]}
  BY DEF OpToRel
<1> HIDE DEF R
<1>4. ASSUME NEW y \in T PROVE x <= y
  <2>1. x \in Nat /\ y \in Nat /\ <<y, x>> \notin R
    BY <1>2
  <2>2. <<y, x>> \in Nat \X Nat /\ <<y, x>>[1] = y /\ <<y, x>>[2] = x
    BY <2>1
  <2>3. ~(<<y, x>>[1] < <<y, x>>[2])
    BY <1>3, <2>1, <2>2
  <2> QED
    BY <2>1, <2>2, <2>3
<1> QED
  BY <1>4

\* A bounded one has a greatest member, and Max is it.
LEMMA GreatestNumber ==
  ASSUME NEW T \in SUBSET Nat, T # {}, NEW n \in Nat, \A x \in T : x <= n
  PROVE  Max(T) \in T /\ \A x \in T : x <= Max(T)
<1> DEFINE U == {m \in Nat : \A x \in T : x <= m}
<1>1. PICK m \in U : \A k \in U : m <= k
  <2>1. U \in SUBSET Nat /\ n \in U
    OBVIOUS
  <2> HIDE DEF U
  <2> QED
    BY <2>1, LeastNumber
<1>2. m \in T
  <2> SUFFICES ASSUME m \notin T PROVE FALSE
    OBVIOUS
  <2>1. \A x \in T : x <= m - 1
    OBVIOUS
  <2>2. PICK x \in T : x \in Nat
    OBVIOUS
  <2>3. x <= m - 1 /\ m \in Nat
    BY <2>1, <2>2
  <2>4. m - 1 \in Nat
    BY <2>2, <2>3
  <2> QED
    BY <2>1, <2>4, <1>1
<1>3. Max(T) \in T /\ \A x \in T : Max(T) >= x
  BY <1>2 DEF Max
<1> QED
  BY <1>3

(***************************************************************************)
(* What the driver makes of the options                                    *)
(***************************************************************************)

\* The last position of a merge at which TLS is set decides.
LEMMA LastDecides ==
  ASSUME NEW merged, NEW k \in DOMAIN merged, DOMAIN merged \subseteq Int,
         merged[k] \notin {"none", "plain"},
         \A i \in DOMAIN merged : i > k => merged[i] \in {"none", "plain"}
  PROVE  Effective(merged) = merged[k]
<1> DEFINE set == {i \in DOMAIN merged : merged[i] \notin {"none", "plain"}}
<1>1. k \in set /\ \A i \in set : k >= i
  OBVIOUS
<1>2. Max(set) = k
  BY <1>1 DEF Max
<1> QED
  BY <1>1, <1>2 DEF Effective

\* The effective configuration is one of those merged, or none.
LEMMA EffectiveIsMerged ==
  ASSUME NEW merged, NEW n \in Nat, DOMAIN merged = 1..n
  PROVE  \/ Effective(merged) = "none"
         \/ \E i \in DOMAIN merged :
              merged[i] \notin {"none", "plain"} /\ Effective(merged) = merged[i]
<1> DEFINE set == {i \in DOMAIN merged : merged[i] \notin {"none", "plain"}}
<1>1. ASSUME set # {} PROVE Max(set) \in set
  BY <1>1, GreatestNumber, set \in SUBSET Nat, \A x \in set : x <= n
<1> QED
  BY <1>1 DEF Effective

\* The validated options make a configuration of the URI's, a caller's or NewTLS's, and
\* NewTLS's whenever WithTLS was used.
LEMMA MergedTLS ==
  ASSUME TypeOK, uri # "cleared", Valid
  PROVE  /\ Effective(Merged) \in {"none", "tls", "made"}
         /\ tlsConfigured => Effective(Merged) = "made"
<1> DEFINE n == Len(driverOptions)
<1>1. /\ n \in Nat /\ DOMAIN driverOptions = 1..n
      /\ \A i \in 1..n : driverOptions[i] \in {"tls", "plain"}
      /\ uri \in {"tls", "plain"} /\ tlsConfig \in {"none", "made"}
      /\ tlsConfigured => tlsConfig = "made"
  BY DEF TypeOK, Valid, DriverOptions
<1>2. /\ DOMAIN Merged = 1..(n + 2)
      /\ Merged[1] = uri /\ Merged[n + 2] = tlsConfig
      /\ \A i \in 2..(n + 1) : Merged[i] = driverOptions[i - 1]
  BY <1>1 DEF Merged, TypeOK
<1> HIDE DEF n
<1>3. ASSUME NEW i \in DOMAIN Merged PROVE Merged[i] \in {"none", "plain", "tls", "made"}
  <2>1. CASE i = 1
    BY <1>1, <1>2, <2>1
  <2>2. CASE i = n + 2
    BY <1>1, <1>2, <2>2
  <2>3. CASE i \in 2..(n + 1)
    <3>1. i - 1 \in 1..n
      BY <1>1, <2>3
    <3> QED
      BY <1>1, <1>2, <2>3, <3>1
  <2> QED
    BY <1>1, <1>2, <2>1, <2>2, <2>3
<1>4. Effective(Merged) \in {"none", "tls", "made"}
  <2>1. n + 2 \in Nat
    BY <1>1
  <2> QED
    BY <1>2, <1>3, <2>1, EffectiveIsMerged
<1>5. ASSUME tlsConfigured PROVE Effective(Merged) = "made"
  <2>1. /\ n + 2 \in DOMAIN Merged /\ DOMAIN Merged \subseteq Int /\ Merged[n + 2] = "made"
        /\ \A i \in DOMAIN Merged : ~(i > n + 2)
    BY <1>1, <1>2, <1>5
  <2> QED
    BY <2>1, LastDecides
<1> QED
  BY <1>4, <1>5

(***************************************************************************)
(* The inductive invariant                                                 *)
(***************************************************************************)

\* SecretsInv holds initially.
LEMMA SecretsInit == Init => SecretsInv
<1> SUFFICES ASSUME Init PROVE SecretsInv
  OBVIOUS
<1>1. keyFile \in Seq(Blocks)
  BY SetupAssumption DEF Init, BoundedSeq, SeqOf
<1>2. TypeOK
  <2>1. <<>> \in Seq(Blocks) /\ <<>> \in Seq(DriverOptions)
    OBVIOUS
  <2>2. 0 \in 0..Len(keyFile) /\ 0 \in 0..MaxOptions
    BY <1>1, SetupAssumption
  <2> QED
    BY <1>1, <2>1, <2>2 DEF Init, TypeOK
<1>3. KeyInv
  BY DEF Init, KeyInv, SecondKey
<1> QED
  BY <1>2, <1>3 DEF Init, SecretsInv, CopyInv, Held, MergeInv, PasswordGone

\* Every step preserves the types.
LEMMA TypeStep == SecretsInv /\ [Next]_vars => TypeOK'
<1> SUFFICES ASSUME SecretsInv, [Next]_vars PROVE TypeOK'
  OBVIOUS
<1> USE SetupAssumption DEF SecretsInv, TypeOK, vars, tlsVars, clientVars, Option, ClearPassword, Held, CopyInv
<1>1. ASSUME WithClientKeyPassword PROVE TypeOK'
  BY <1>1 DEF WithClientKeyPassword
<1>2. ASSUME ReadFiles PROVE TypeOK'
  BY <1>2 DEF ReadFiles
<1>3. ASSUME PrepareBlock PROVE TypeOK'
  <2>1. keyFile[read + 1] \in Blocks
    BY <1>3 DEF PrepareBlock
  <2>2. KeyFault(keyFile[read + 1]) \in
          {"none", "noPassword", "wrongPassword", "damaged", "legacy", "unknown"}
    BY DEF KeyFault, Protected
  <2>3. InTheClear(keyFile[read + 1]) \in Blocks
    BY <2>1 DEF InTheClear, Blocks, Keys, Protected
  <2>4. CASE tls' = "failed"
    BY <1>3, <2>2, <2>4 DEF PrepareBlock, FailTLS
  <2>5. CASE tls' # "failed"
    <3>1. /\ read' = read + 1 /\ read < Len(keyFile)
          /\ resultPEM' = Append(resultPEM, InTheClear(keyFile[read + 1]))
          /\ UNCHANGED <<tls, keyFile, password, copies, fault, clientVars, options>>
      BY <1>3, <2>5 DEF PrepareBlock, FailTLS
    <3>2. read' \in 0..Len(keyFile)
      BY <3>1
    <3> QED
      BY <2>3, <3>1, <3>2
  <2> QED
    BY <2>4, <2>5
<1>4. ASSUME KeyPrepared PROVE TypeOK'
  BY <1>4 DEF KeyPrepared, FailTLS
<1>5. ASSUME KeyPair PROVE TypeOK'
  BY <1>5 DEF KeyPair
<1>6. ASSUME WithTLS PROVE TypeOK'
  BY <1>6 DEF WithTLS
<1>7. ASSUME WithDriverOptions PROVE TypeOK'
  BY <1>7 DEF WithDriverOptions
<1>8. ASSUME Validate PROVE TypeOK'
  BY <1>8 DEF Validate
<1>9. ASSUME Connect PROVE TypeOK'
  <2>1. CASE client' = "failed"
    BY <1>9, <2>1 DEF Connect
  <2>2. CASE client' = "connected"
    <3>1. Effective(Merged) \in {"none", "tls", "made"}
      BY <1>9, MergedTLS DEF Connect, MergeInv
    <3> QED
      BY <1>9, <2>2, <3>1 DEF Connect
  <2> QED
    BY <1>9, <2>1, <2>2 DEF Connect
<1>10. ASSUME Finished \/ UNCHANGED vars PROVE TypeOK'
  BY <1>10 DEF Finished
<1> QED
  BY <1>1, <1>2, <1>3, <1>4, <1>5, <1>6, <1>7, <1>8, <1>9, <1>10 DEF Next

\* Every step preserves KeyInv: a block is read only if it makes no second key.
LEMMA KeyStep == SecretsInv /\ [Next]_vars => KeyInv'
<1> SUFFICES ASSUME SecretsInv, [Next]_vars PROVE KeyInv'
  OBVIOUS
<1> USE SetupAssumption DEF SecretsInv, TypeOK, vars, tlsVars, clientVars, Option, KeyInv, SecondKey, KeysAt
<1>1. ASSUME WithClientKeyPassword PROVE KeyInv'
  BY <1>1 DEF WithClientKeyPassword
<1>2. ASSUME ReadFiles PROVE KeyInv'
  BY <1>2 DEF ReadFiles
<1>3. ASSUME PrepareBlock PROVE KeyInv'
  <2> DEFINE block == keyFile[read + 1]
  <2>1. CASE tls' = "failed"
    BY <1>3, <2>1 DEF PrepareBlock, FailTLS
  <2>2. CASE tls' # "failed"
    <3>1. /\ read' = read + 1 /\ resultPEM' = Append(resultPEM, InTheClear(block))
          /\ UNCHANGED <<tls, keyFile, fault>> /\ tls = "key" /\ read < Len(keyFile)
          /\ ~(block \in Keys /\ SecondKey) /\ KeyFault(block) = "none"
      BY <1>3, <2>2 DEF PrepareBlock, FailTLS
    <3>2. block \in {"clear", "encrypted", "other"}
      BY <3>1 DEF KeyFault, Blocks, Keys, Protected
    <3>3. resultPEM' = [i \in 1..read' |-> InTheClear(keyFile'[i])]
      BY <3>1
    <3>4. \A i, j \in 1..read' : {keyFile'[i], keyFile'[j]} \subseteq Keys => i = j
      BY <3>1
    <3> QED
      BY <3>1, <3>2, <3>3, <3>4
  <2> QED
    BY <2>1, <2>2
<1>4. ASSUME KeyPrepared PROVE KeyInv'
  BY <1>4 DEF KeyPrepared, FailTLS
<1>5. ASSUME KeyPair PROVE KeyInv'
  BY <1>5 DEF KeyPair
<1>6. ASSUME WithTLS PROVE KeyInv'
  BY <1>6 DEF WithTLS
<1>7. ASSUME WithDriverOptions PROVE KeyInv'
  BY <1>7 DEF WithDriverOptions
<1>8. ASSUME Validate PROVE KeyInv'
  BY <1>8 DEF Validate
<1>9. ASSUME Connect PROVE KeyInv'
  BY <1>9 DEF Connect
<1>10. ASSUME Finished \/ UNCHANGED vars PROVE KeyInv'
  BY <1>10 DEF Finished
<1> QED
  BY <1>1, <1>2, <1>3, <1>4, <1>5, <1>6, <1>7, <1>8, <1>9, <1>10 DEF Next

\* Every step preserves CopyInv: a password is overwritten before it is replaced or dropped.
LEMMA CopyStep == SecretsInv /\ [Next]_vars => CopyInv'
<1> SUFFICES ASSUME SecretsInv, [Next]_vars PROVE CopyInv'
  OBVIOUS
<1> USE SetupAssumption DEF SecretsInv, TypeOK, vars, tlsVars, clientVars, Option, CopyInv, KeyInv, Held, ClearPassword
<1>1. ASSUME WithClientKeyPassword PROVE CopyInv'
  BY <1>1 DEF WithClientKeyPassword
<1>2. ASSUME ReadFiles PROVE CopyInv'
  BY <1>2 DEF ReadFiles
<1>3. ASSUME PrepareBlock PROVE CopyInv'
  BY <1>3 DEF PrepareBlock, FailTLS
<1>4. ASSUME KeyPrepared PROVE CopyInv'
  BY <1>4 DEF KeyPrepared, FailTLS
<1>5. ASSUME KeyPair PROVE CopyInv'
  BY <1>5 DEF KeyPair
<1>6. ASSUME WithTLS PROVE CopyInv'
  BY <1>6 DEF WithTLS
<1>7. ASSUME WithDriverOptions PROVE CopyInv'
  BY <1>7 DEF WithDriverOptions
<1>8. ASSUME Validate PROVE CopyInv'
  BY <1>8 DEF Validate
<1>9. ASSUME Connect PROVE CopyInv'
  BY <1>9 DEF Connect
<1>10. ASSUME Finished \/ UNCHANGED vars PROVE CopyInv'
  BY <1>10 DEF Finished
<1> QED
  BY <1>1, <1>2, <1>3, <1>4, <1>5, <1>6, <1>7, <1>8, <1>9, <1>10 DEF Next

\* Every step preserves MergeInv.
LEMMA MergeStep == SecretsInv /\ [Next]_vars => MergeInv'
<1> SUFFICES ASSUME SecretsInv, [Next]_vars PROVE MergeInv'
  OBVIOUS
<1> USE SetupAssumption DEF SecretsInv, TypeOK, vars, tlsVars, clientVars, Option, MergeInv, Valid
<1>1. ASSUME WithClientKeyPassword PROVE MergeInv'
  BY <1>1 DEF WithClientKeyPassword
<1>2. ASSUME ReadFiles PROVE MergeInv'
  BY <1>2 DEF ReadFiles
<1>3. ASSUME PrepareBlock PROVE MergeInv'
  BY <1>3 DEF PrepareBlock, FailTLS
<1>4. ASSUME KeyPrepared PROVE MergeInv'
  BY <1>4 DEF KeyPrepared, FailTLS
<1>5. ASSUME KeyPair PROVE MergeInv'
  BY <1>5 DEF KeyPair
<1>6. ASSUME WithTLS PROVE MergeInv'
  BY <1>6 DEF WithTLS
<1>7. ASSUME WithDriverOptions PROVE MergeInv'
  BY <1>7 DEF WithDriverOptions
<1>8. ASSUME Validate PROVE MergeInv'
  BY <1>8 DEF Validate
<1>9. ASSUME Connect PROVE MergeInv'
  BY <1>9 DEF Connect
<1>10. ASSUME Finished \/ UNCHANGED vars PROVE MergeInv'
  BY <1>10 DEF Finished
<1> QED
  BY <1>1, <1>2, <1>3, <1>4, <1>5, <1>6, <1>7, <1>8, <1>9, <1>10 DEF Next

\* Every step preserves KeyAsSpecified.
LEMMA SpecifiedStep == SecretsInv /\ KeyAsSpecified /\ [Next]_vars => KeyAsSpecified'
<1> SUFFICES ASSUME SecretsInv, KeyAsSpecified, [Next]_vars PROVE KeyAsSpecified'
  OBVIOUS
<1> USE SetupAssumption DEF SecretsInv, TypeOK, vars, tlsVars, clientVars, Option, KeyAsSpecified, KeysAt
<1>1. ASSUME WithClientKeyPassword PROVE KeyAsSpecified'
  BY <1>1 DEF WithClientKeyPassword
<1>2. ASSUME ReadFiles PROVE KeyAsSpecified'
  BY <1>2 DEF ReadFiles
<1>3. ASSUME PrepareBlock PROVE KeyAsSpecified'
  <2> DEFINE block == keyFile[read + 1]
  <2>1. CASE tls' # "failed"
    <3>1. /\ tls = "key" /\ UNCHANGED <<tls, keyFile, fault>>
      BY <1>3, <2>1 DEF PrepareBlock, FailTLS
    <3>2. tls' = "key" /\ fault' = "none"
      BY <3>1 DEF KeyInv
    <3> QED
      BY <3>2
  <2>2. CASE tls' = "failed"
    <3>1. /\ UNCHANGED <<keyFile, read, resultPEM>> /\ tls = "key" /\ read < Len(keyFile)
          /\ \/ fault' = "several" /\ block \in Keys /\ SecondKey
             \/ fault' = KeyFault(block) /\ fault' # "none"
                  /\ ~(block \in Keys /\ SecondKey)
      BY <1>3, <2>2 DEF PrepareBlock, FailTLS
    <3>2. read + 1 \in DOMAIN keyFile /\ 1..read \subseteq DOMAIN keyFile
      BY <3>1
    <3>3. CASE fault' = "several" /\ block \in Keys /\ SecondKey
      <4>1. PICK i \in 1..read : keyFile[i] \in Keys
        BY <3>3 DEF SecondKey
      <4>2. KeysAt(resultPEM) = {i} /\ resultPEM[i] = "clear"
        BY <4>1 DEF KeyInv, InTheClear, Keys, Protected
      <4>3. i \in KeysAt(keyFile) /\ read + 1 \in KeysAt(keyFile) /\ i # read + 1
        BY <3>2, <3>3, <4>1
      <4> QED
        BY <2>2, <3>1, <3>3, <4>2, <4>3
    <3>4. CASE fault' = KeyFault(block) /\ fault' # "none" /\ ~(block \in Keys /\ SecondKey)
      <4>1. /\ block \in Keys /\ fault' \notin {"none", "noKey", "several"}
            /\ block \in IF fault' \in Keys THEN {fault'} ELSE Protected
        BY <3>4 DEF KeyFault, Keys, Protected
      <4>2. read + 1 \in KeysAt(keyFile) /\ \A j \in KeysAt(keyFile) : read + 1 <= j
        <5>1. read + 1 \in KeysAt(keyFile)
          BY <3>2, <4>1
        <5>2. ASSUME NEW j \in KeysAt(keyFile) PROVE read + 1 <= j
          <6>1. j \in 1..Len(keyFile) /\ keyFile[j] \in Keys /\ read \in Nat
            OBVIOUS
          <6>2. j \notin 1..read
            BY <3>4, <4>1, <6>1 DEF SecondKey
          <6> QED
            BY <6>1, <6>2
        <5> QED
          BY <5>1, <5>2
      <4> QED
        BY <2>2, <3>1, <4>1, <4>2
    <3> QED
      BY <3>1, <3>3, <3>4
  <2> QED
    BY <2>1, <2>2
<1>4. ASSUME KeyPrepared PROVE KeyAsSpecified'
  <2>1. CASE \E i \in DOMAIN keyFile : keyFile[i] \in Keys
    <3>1. /\ tls = "key" /\ read = Len(keyFile) /\ tls' = "pair"
          /\ UNCHANGED <<keyFile, read, resultPEM, fault>>
      BY <1>4, <2>1 DEF KeyPrepared
    <3>2. PICK i \in DOMAIN keyFile : keyFile[i] \in Keys
      BY <2>1
    <3>3. KeysAt(keyFile) = {i} /\ keyFile[i] \in {"clear", "encrypted"}
      BY <3>1, <3>2 DEF KeyInv, Keys, Protected
    <3>4. resultPEM = [k \in DOMAIN keyFile |-> InTheClear(keyFile[k])]
      BY <3>1 DEF KeyInv
    <3> QED
      BY <3>1, <3>3, <3>4
  <2>2. CASE ~\E i \in DOMAIN keyFile : keyFile[i] \in Keys
    BY <1>4, <2>2 DEF KeyPrepared, FailTLS, Keys
  <2> QED
    BY <2>1, <2>2
<1>5. ASSUME KeyPair PROVE KeyAsSpecified'
  BY <1>5 DEF KeyPair
<1>6. ASSUME WithTLS PROVE KeyAsSpecified'
  BY <1>6 DEF WithTLS
<1>7. ASSUME WithDriverOptions PROVE KeyAsSpecified'
  BY <1>7 DEF WithDriverOptions
<1>8. ASSUME Validate PROVE KeyAsSpecified'
  BY <1>8 DEF Validate
<1>9. ASSUME Connect PROVE KeyAsSpecified'
  BY <1>9 DEF Connect
<1>10. ASSUME Finished \/ UNCHANGED vars PROVE KeyAsSpecified'
  BY <1>10 DEF Finished
<1> QED
  BY <1>1, <1>2, <1>3, <1>4, <1>5, <1>6, <1>7, <1>8, <1>9, <1>10 DEF Next

\* Every step preserves TLSWins.
LEMMA WinsStep == SecretsInv /\ TLSWins /\ [Next]_vars => TLSWins'
<1> SUFFICES ASSUME SecretsInv, TLSWins, [Next]_vars PROVE TLSWins'
  OBVIOUS
<1> USE SetupAssumption DEF SecretsInv, TypeOK, vars, tlsVars, clientVars, Option, TLSWins
<1>1. ASSUME WithClientKeyPassword PROVE TLSWins'
  BY <1>1 DEF WithClientKeyPassword
<1>2. ASSUME ReadFiles PROVE TLSWins'
  BY <1>2 DEF ReadFiles
<1>3. ASSUME PrepareBlock PROVE TLSWins'
  BY <1>3 DEF PrepareBlock, FailTLS
<1>4. ASSUME KeyPrepared PROVE TLSWins'
  BY <1>4 DEF KeyPrepared, FailTLS
<1>5. ASSUME KeyPair PROVE TLSWins'
  BY <1>5 DEF KeyPair
<1>6. ASSUME WithTLS PROVE TLSWins'
  BY <1>6 DEF WithTLS
<1>7. ASSUME WithDriverOptions PROVE TLSWins'
  BY <1>7 DEF WithDriverOptions
<1>8. ASSUME Validate PROVE TLSWins'
  BY <1>8 DEF Validate
<1>9. ASSUME Connect PROVE TLSWins'
  <2>1. CASE client' = "failed"
    BY <1>9, <2>1 DEF Connect
  <2>2. CASE client' = "connected"
    BY <1>9, <2>2, MergedTLS DEF Connect, MergeInv, Valid
  <2> QED
    BY <1>9, <2>1, <2>2 DEF Connect
<1>10. ASSUME Finished \/ UNCHANGED vars PROVE TLSWins'
  BY <1>10 DEF Finished
<1> QED
  BY <1>1, <1>2, <1>3, <1>4, <1>5, <1>6, <1>7, <1>8, <1>9, <1>10 DEF Next

(***************************************************************************)
(* Theorems                                                                *)
(***************************************************************************)

\* SecretsInv always holds: no copy of a password outlives NewTLS, whatever the options
\* and the key file (tls.go, Zeroize of clientKeyPassword).
THEOREM SecretsInvariant == Spec => []SecretsInv
<1>1. SecretsInv /\ [Next]_vars => SecretsInv'
  <2> SUFFICES ASSUME SecretsInv, [Next]_vars PROVE SecretsInv'
    OBVIOUS
  <2>1. TypeOK' /\ KeyInv' /\ CopyInv' /\ MergeInv'
    BY TypeStep, KeyStep, CopyStep, MergeStep
  <2> QED
    BY <2>1 DEF SecretsInv, PasswordGone, CopyInv, Held
<1> QED
  BY SecretsInit, <1>1, PTL DEF Spec

\* A key file is accepted and refused as README.md:244-247 describes.
THEOREM KeysAreAsSpecified == Spec => []KeyAsSpecified
<1>1. Init => KeyAsSpecified
  BY DEF Init, KeyAsSpecified
<1> QED
  BY SecretsInvariant, SpecifiedStep, <1>1, PTL DEF Spec

\* WithTLS decides over the URI and the driver's options, in whatever order they came
\* (client_options.go:69).
THEOREM TLSDecides == Spec => []TLSWins
<1>1. Init => TLSWins
  BY DEF Init, TLSWins
<1> QED
  BY SecretsInvariant, WinsStep, <1>1, PTL DEF Spec
=============================================================================

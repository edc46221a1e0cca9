-------------------------- MODULE DailyWriterProofs --------------------------
(***************************************************************************)
(* Proofs about DailyWriter, for any records, limits, days and number of   *)
(* failures.                                                               *)
(***************************************************************************)
EXTENDS DailyWriter, FiniteSetTheorems, TLAPS

(***************************************************************************)
(* Extreme members of sets of natural numbers                              *)
(***************************************************************************)

\* A non-empty set of naturals has a least member.
LEMMA LeastNumber ==
  ASSUME NEW T \in SUBSET Nat, T # {}
  PROVE  \E x \in T : \A y \in T : x <= y
<1> DEFINE R == OpToRel(<, Nat)
<1>1. IsWellFoundedOn(R, Nat)
  BY NatLessThanWellFounded
<1>2. PICK x \in T : \A y \in T : <<y, x>> \notin R
  <2>1. T \subseteq Nat
    OBVIOUS
  <2> HIDE DEF R
  <2> QED
    BY ONLY <1>1, <2>1, T # {}, WFMin, Zenon
<1>3. R = {p \in Nat \X Nat : p[1] < p[2]}
  BY DEF OpToRel
<1> HIDE DEF R
<1>4. ASSUME NEW y \in T PROVE x <= y
  <2>1. x \in Nat /\ y \in Nat /\ <<y, x>> \notin R
    BY <1>2
  <2>2. <<y, x>> \in Nat \X Nat /\ <<y, x>>[1] = y /\ <<y, x>>[2] = x
    BY <2>1
  <2>3. ~(<<y, x>>[1] < <<y, x>>[2])
    BY <1>3, <2>1, <2>2
  <2> QED
    BY <2>1, <2>2, <2>3
<1> QED
  BY <1>4

\* A bounded one has a greatest member, and Max is it.
LEMMA GreatestNumber ==
  ASSUME NEW T \in SUBSET Nat, T # {}, NEW n \in Nat, \A x \in T : x <= n
  PROVE  Max(T) \in T /\ \A x \in T : x <= Max(T)
<1> DEFINE U == {m \in Nat : \A x \in T : x <= m}
<1>1. PICK m \in U : \A k \in U : m <= k
  <2>1. U \in SUBSET Nat /\ n \in U
    OBVIOUS
  <2> HIDE DEF U
  <2> QED
    BY <2>1, LeastNumber
<1>2. m \in T
  <2> SUFFICES ASSUME m \notin T PROVE FALSE
    OBVIOUS
  <2>1. \A x \in T : x <= m - 1
    OBVIOUS
  <2>2. PICK x \in T : x \in Nat
    OBVIOUS
  <2>3. x <= m - 1 /\ m \in Nat
    BY <2>1, <2>2
  <2>4. m - 1 \in Nat
    BY <2>2, <2>3
  <2> QED
    BY <2>1, <2>4, <1>1
<1>3. Max(T) \in T /\ \A x \in T : Max(T) >= x
  BY <1>2 DEF Max
<1> QED
  BY <1>3

\* The indices of finitely many files are bounded.
LEMMA FiniteIsBounded ==
  ASSUME NEW S, IsFiniteSet(S), \A f \in S : f.index \in Nat
  PROVE  \E m \in Nat : \A f \in S : f.index <= m
<1>1. PICK n \in Nat : ExistsSurjection(1..n, S)
  BY FS_NatSurjection
<1>2. PICK h \in Surjection(1..n, S) : TRUE
  BY <1>1 DEF ExistsSurjection
<1>3. /\ \A i \in 1..n : h[i] \in S
      /\ \A f \in S : \E i \in 1..n : h[i] = f
  BY <1>2 DEF Surjection
<1> DEFINE Unbounded == {k \in 0..n : ~\E m \in Nat : \A i \in 1..k : h[i].index <= m}
<1>4. Unbounded = {}
  <2> SUFFICES ASSUME Unbounded # {} PROVE FALSE
    OBVIOUS
  <2>1. PICK k \in Unbounded : \A j \in Unbounded : k <= j
    <3>1. Unbounded \in SUBSET Nat
      OBVIOUS
    <3> HIDE DEF Unbounded
    <3> QED
      BY <3>1, LeastNumber
  <2>2. k # 0
    OBVIOUS
  <2>3. k \in 1..n /\ k - 1 \in 0..n /\ ~(k <= k - 1)
    BY <2>2
  <2>7. k - 1 \notin Unbounded
    BY <2>1, <2>3
  <2>4. PICK m \in Nat : \A i \in 1..(k - 1) : h[i].index <= m
    BY <2>3, <2>7
  <2>5. PICK l \in Nat : l >= m /\ l >= h[k].index
    <3>1. h[k].index \in Nat
      BY <1>3, <2>3
    <3> DEFINE j == h[k].index
    <3>2. j \in Nat
      BY <3>1
    <3> HIDE DEF j
    <3>3. m + j \in Nat /\ m + j >= m /\ m + j >= j
      BY <3>2
    <3> QED
      BY <3>3 DEF j
  <2>6. \A i \in 1..k : h[i].index <= l
    <3> SUFFICES ASSUME NEW i \in 1..k PROVE h[i].index <= l
      OBVIOUS
    <3>1. i \in 1..n
      BY <2>3
    <3>3. h[i].index \in Nat
      BY <1>3, <3>1
    <3>2. i = k \/ i \in 1..(k - 1)
      BY <2>3
    <3>4. CASE i = k
      BY <2>5, <3>4
    <3>5. CASE i \in 1..(k - 1)
      <4>1. h[i].index <= m /\ m <= l
        BY <2>4, <2>5, <3>5
      <4> DEFINE j == h[i].index
      <4>2. j \in Nat /\ j <= m /\ m <= l
        BY <3>3, <4>1
      <4> HIDE DEF j
      <4>3. j <= l
        BY <4>2
      <4> QED
        BY <4>3 DEF j
    <3> QED
      BY <3>2, <3>4, <3>5
  <2> QED
    BY <2>6
<1>5. PICK m \in Nat : \A i \in 1..n : h[i].index <= m
  <2>1. n \in 0..n
    OBVIOUS
  <2>2. n \notin Unbounded
    BY <1>4
  <2> SUFFICES ASSUME ~\E m \in Nat : \A i \in 1..n : h[i].index <= m
               PROVE  FALSE
    OBVIOUS
  <2>3. n \in Unbounded
    BY <2>1
  <2> QED
    BY <2>2, <2>3
<1> QED
  BY <1>3, <1>5

(***************************************************************************)
(* The disk                                                                *)
(***************************************************************************)

\* The files once one is written.
LEMMA WithIs ==
  ASSUME NEW f, NEW v
  PROVE  /\ DOMAIN With(f, v) = Logs \cup {f}
         /\ With(f, v)[f] = v
         /\ \A g \in Logs \ {f} : With(f, v)[g] = disk[g]
  BY DEF With, Logs

\* The files once some are removed.
LEMMA WithoutIs ==
  ASSUME NEW S
  PROVE  /\ DOMAIN Without(S) = Logs \ S
         /\ \A g \in Logs \ S : Without(S)[g] = disk[g]
  BY DEF Without, Logs

\* The same disk has the same files.
LEMMA SameDisk == disk' = disk => Logs' = Logs
  BY DEF Logs

\* Segments and their .gz are files, and they are not the same.
LEMMA SegmentIs ==
  ASSUME NEW d \in Days, NEW i \in Nat
  PROVE  /\ Segment(d, i) \in Files /\ Segment(d, i) # NoFile /\ ~Segment(d, i).gz
         /\ Segment(d, i).date = d /\ Segment(d, i).index = i
<1>1. Segment(d, i) \in Files
  BY DEF Segment, Files
<1> QED
  BY <1>1, WriterAssumption DEF Segment

LEMMA GzipIs ==
  ASSUME NEW f \in Files
  PROVE  /\ Gzip(f) \in Files /\ Gzip(f).gz /\ Gzip(f) # NoFile
         /\ Gzip(f).date = f.date /\ Gzip(f).index = f.index
         /\ ~f.gz => Gzip(f) # f /\ f = Segment(f.date, f.index)
  BY WriterAssumption DEF Gzip, Files, Segment

\* A segment and its .gz determine each other.
LEMMA GzipOfOne ==
  ASSUME NEW f \in Files, NEW g \in Files, ~f.gz, ~g.gz, Gzip(f) = Gzip(g)
  PROVE  f = g
  BY DEF Gzip, Files

\* A file written or some removed leave well-formed files.
LEMMA WithOK ==
  ASSUME DiskOK, NEW f \in Files, NEW v \in [records : SUBSET Records, size : Nat],
         disk' = With(f, v)
  PROVE  DiskOK'
<1>1. Logs' = Logs \cup {f} /\ disk'[f] = v /\ \A g \in Logs \ {f} : disk'[g] = disk[g]
  <2>1. /\ DOMAIN disk' = Logs \cup {f} /\ disk'[f] = v
        /\ \A g \in Logs \ {f} : disk'[g] = disk[g]
    <3>1. /\ DOMAIN With(f, v) = Logs \cup {f} /\ With(f, v)[f] = v
          /\ \A g \in Logs \ {f} : With(f, v)[g] = disk[g]
      BY WithIs
    <3> QED
      BY <3>1
  <2> QED
    BY <2>1 DEF Logs
<1>2. IsFiniteSet(Logs \cup {f})
  BY FS_AddElement DEF DiskOK
<1> QED
  BY <1>1, <1>2 DEF DiskOK

LEMMA WithoutOK ==
  ASSUME DiskOK, NEW S, disk' = Without(S)
  PROVE  DiskOK'
<1>1. Logs' = Logs \ S /\ \A g \in Logs \ S : disk'[g] = disk[g]
  BY WithoutIs DEF Logs
<1>2. IsFiniteSet(Logs \ S)
  BY FS_Difference DEF DiskOK
<1> QED
  BY <1>1, <1>2 DEF DiskOK

\* availableSegment takes the last segment of the date if it is not compressed, or a new
\* one after it (daily_writer.go:283).
LEMMA AvailableIsLast ==
  ASSUME TypeOK, NEW d \in Days
  PROVE  /\ Available(d) \in Nat
         /\ NoneAfter(d, Available(d))
         /\ Segment(d, Available(d)) \in Logs \/ NoneFrom(d, Available(d))
<1> DEFINE dated == {g \in Logs : g.date = d}
           indices == {f.index : f \in dated}
           last == Max(indices)
<1>1. \A f \in Logs : f.index \in Nat
  BY DEF TypeOK, DiskOK, Files
<1>2. PICK n \in Nat : \A f \in Logs : f.index <= n
  <2>1. IsFiniteSet(Logs)
    BY DEF TypeOK, DiskOK
  <2> QED
    BY <1>1, <2>1, FiniteIsBounded
<1>3. CASE indices = {}
  <2>1. Available(d) = 0 /\ dated = {}
    BY <1>3 DEF Available
  <2> QED
    BY <2>1 DEF NoneAfter, NoneFrom
<1>4. CASE indices # {}
  <2>1. last \in indices /\ \A i \in indices : i <= last
    <3>1. indices \in SUBSET Nat /\ \A i \in indices : i <= n
      BY <1>1, <1>2
    <3> HIDE DEF indices
    <3> QED
      BY <1>4, <3>1, GreatestNumber
  <2>2. last \in Nat /\ \A f \in Logs : f.date = d => f.index <= last
    BY <1>1, <2>1
  <2>3. \/ Available(d) = last /\ Segment(d, last) \in Logs
        \/ Available(d) = last + 1
    BY <1>4 DEF Available
  <2> HIDE DEF last
  <2> QED
    BY <1>1, <2>2, <2>3 DEF NoneAfter, NoneFrom
<1> QED
  BY <1>3, <1>4

(***************************************************************************)
(* Steps with several outcomes                                             *)
(***************************************************************************)

\* One more failure is within the bound.
LEMMA OneMoreFault ==
  ASSUME TypeOK, UNCHANGED faults \/ (faults < MaxFaults /\ faults' = faults + 1)
  PROVE  faults' \in 0..MaxFaults /\ faults <= faults' /\ 0..faults \subseteq 0..faults'
  BY WriterAssumption DEF TypeOK

\* No call has no record.
LEMMA NoCallIs ==
  /\ NoCall \in [record : Records \cup {NoRecord}, now : Int, index : Nat, todo : SUBSET Files,
                 source : Files \cup {NoFile},
                 next : {"ready", "available", "nextIndex", "open"},
                 opened : {"check", "append"}]
  /\ NoCall.opened = "check"
  BY DEF NoCall

\* The excess is of the files that were counted, and leaves MaxBackups of them at most.
LEMMA ExcessIsOld ==
  ASSUME NEW S, NEW excess \in Excess(S)
  PROVE  /\ excess \subseteq S
         /\ MaxBackups > 0 => Cardinality(S \ excess) <= MaxBackups
<1>1. CASE MaxBackups = 0 \/ Cardinality(S) <= MaxBackups
  <2>1. excess = {} /\ S \ excess = S
    BY <1>1 DEF Excess
  <2> QED
    BY <1>1, <2>1
<1>2. CASE ~(MaxBackups = 0 \/ Cardinality(S) <= MaxBackups)
  <2>1. PICK K \in kSubset(MaxBackups, S) : excess = S \ K
    BY <1>2 DEF Excess
  <2>2. K \subseteq S /\ Cardinality(K) = MaxBackups
    BY <2>1 DEF kSubset
  <2>3. S \ excess = K
    BY <2>1, <2>2
  <2>4. MaxBackups <= MaxBackups
    BY WriterAssumption
  <2> QED
    BY <2>1, <2>2, <2>3, <2>4
<1> QED
  BY <1>1, <1>2

\* cleanup removes files, never the open one, and counts what they held.
LEMMA CleanupCases ==
  ASSUME Cleanup
  PROVE  \E removed \in SUBSET (Logs \ {file}) :
           /\ disk' = Without(removed)
           /\ dropped' = dropped \cup UNION {disk[f].records : f \in removed}
<1>1. PICK excess \in Excess((Logs \ {file}) \ Expired) :
        \E removed \in SUBSET (Expired \cup excess) :
          /\ disk' = Without(removed)
          /\ dropped' = dropped \cup UNION {disk[f].records : f \in removed}
  BY DEF Cleanup
<1>2. PICK removed \in SUBSET (Expired \cup excess) :
        /\ disk' = Without(removed)
        /\ dropped' = dropped \cup UNION {disk[f].records : f \in removed}
  BY <1>1
<1>3. excess \subseteq Logs \ {file}
  <2>1. excess \subseteq (Logs \ {file}) \ Expired
    BY ExcessIsOld
  <2> QED
    BY <2>1
<1>4. Expired \subseteq Logs \ {file}
  BY DEF Expired
<1> QED
  BY <1>2, <1>3, <1>4

\* finishCurrent has nothing to close, closes the file, or fails, and the file stays.
LEMMA FinishCases ==
  ASSUME FinishCurrent
  PROVE  /\ UNCHANGED <<disk, temporaries, currentDate, currentIndex, closed, day, accepted,
                        dropped, checks>>
         /\ \E next \in {"available", "nextIndex"} :
              /\ IF next = "available" THEN pc = "finishDate" ELSE pc = "finishSize"
              /\ \/ file = NoFile /\ pc' = next
                      /\ UNCHANGED <<call, faults, file, currentSize, broken>>
                 \/ file # NoFile /\ file' = NoFile /\ currentSize' = 0 /\ pc' = "compress"
                      /\ call' = [call EXCEPT !.next = next,
                           !.todo = IF Compress /\ currentSize > 0 THEN {file} ELSE {}]
                      /\ UNCHANGED <<faults, broken>>
                 \/ file # NoFile /\ pc' = "ready" /\ call' = NoCall
                      /\ UNCHANGED <<file, currentSize>>
                      /\ \/ faults < MaxFaults /\ faults' = faults + 1 /\ broken' = TRUE
                         \/ UNCHANGED <<faults, broken>>
  BY DEF FinishCurrent, CloseCurrent, Goto, Update, Fail, ReturnError, writerVars

\* A write appends the record, a part of it, or nothing, and only the first returns nil.
LEMMA AppendCases ==
  ASSUME Append
  PROVE  /\ pc = "append" /\ pc' = "ready" /\ call' = NoCall
         /\ UNCHANGED <<temporaries, file, currentDate, currentIndex, closed, broken, day,
                        dropped, checks>>
         /\ \/ /\ disk' = With(file, [records |-> disk[file].records \cup {call.record},
                                       size |-> disk[file].size + Size[call.record]])
               /\ currentSize' = currentSize + Size[call.record]
               /\ accepted' = accepted \cup {call.record} /\ UNCHANGED faults
            \/ /\ \E part \in 0..(Size[call.record] - 1) :
                    /\ disk' = With(file, [disk[file] EXCEPT !.size = disk[file].size + part])
                    /\ currentSize' = currentSize + part
               /\ UNCHANGED accepted /\ faults < MaxFaults /\ faults' = faults + 1
            \/ UNCHANGED <<disk, currentSize, accepted, faults>>
  BY DEF Append, Update, Fail, ReturnError

\* compressLogFile puts a .gz beside its segment, or fails.
LEMMA RenameCases ==
  ASSUME WriterFields, CompressRename
  PROVE  /\ pc = "compress"
         /\ UNCHANGED <<temporaries, writerVars, day, accepted, dropped, checks>>
         /\ \/ UNCHANGED disk /\ pc' = "ready" /\ call' = NoCall /\ faults' = faults + 1
            \/ \E f \in call.todo :
                 /\ f \in Logs /\ f \in Files /\ ~f.gz
                 /\ Logs' = Logs \cup {Gzip(f)} /\ disk'[Gzip(f)] = disk[f]
                 /\ \A g \in Logs \ {Gzip(f)} : disk'[g] = disk[g]
                 /\ call' = [call EXCEPT !.source = f, !.todo = call.todo \ {f}]
                 /\ pc' = "remove" /\ UNCHANGED faults
<1>1. /\ pc = "compress"
      /\ UNCHANGED <<temporaries, writerVars, day, accepted, dropped, checks>>
  BY DEF CompressRename
<1>2. CASE UNCHANGED disk /\ Fail
  BY <1>1, <1>2 DEF Fail, ReturnError
<1>3. ASSUME NEW f \in call.todo, disk' = With(Gzip(f), disk[f]),
             Update("remove", [call EXCEPT !.source = f, !.todo = call.todo \ {f}])
      PROVE  /\ f \in Logs /\ f \in Files /\ ~f.gz
             /\ Logs' = Logs \cup {Gzip(f)} /\ disk'[Gzip(f)] = disk[f]
             /\ \A g \in Logs \ {Gzip(f)} : disk'[g] = disk[g]
             /\ call' = [call EXCEPT !.source = f, !.todo = call.todo \ {f}]
             /\ pc' = "remove" /\ UNCHANGED faults
  <2>1. f \in Logs /\ f \in Files /\ ~f.gz
    BY <1>1 DEF WriterFields, CompressInv, TypeOK, DiskOK
  <2>2. \A v : /\ DOMAIN With(Gzip(f), v) = Logs \cup {Gzip(f)}
               /\ With(Gzip(f), v)[Gzip(f)] = v
               /\ \A g \in Logs \ {Gzip(f)} : With(Gzip(f), v)[g] = disk[g]
    BY WithIs
  <2>3. Logs' = DOMAIN disk'
    BY DEF Logs
  <2> QED
    BY <1>3, <2>1, <2>2, <2>3 DEF Update
<1> QED
  BY <1>1, <1>2, <1>3 DEF CompressRename

\* Then it removes the segment, or fails.
LEMMA RemoveCases ==
  ASSUME CompressRemove
  PROVE  /\ pc = "remove"
         /\ UNCHANGED <<temporaries, writerVars, day, accepted, dropped, checks>>
         /\ \/ UNCHANGED disk /\ pc' = "ready" /\ call' = NoCall /\ faults' = faults + 1
            \/ /\ Logs' = Logs \ {call.source} /\ \A g \in Logs' : disk'[g] = disk[g]
               /\ pc' = "compress" /\ UNCHANGED <<call, faults>>
<1>1. CASE UNCHANGED disk /\ Fail
  BY <1>1 DEF CompressRemove, Fail, ReturnError
<1>2. CASE disk' = Without({call.source}) /\ Goto("compress")
  <2>1. /\ DOMAIN Without({call.source}) = Logs \ {call.source}
        /\ \A g \in Logs \ {call.source} : Without({call.source})[g] = disk[g]
    BY WithoutIs
  <2>2. Logs' = DOMAIN disk'
    BY DEF Logs
  <2> QED
    BY <1>2, <2>1, <2>2 DEF CompressRemove, Goto
<1> QED
  BY <1>1, <1>2 DEF CompressRemove

\* openSegment opens the target, which is empty if it is new, or fails, perhaps after it
\* has made it.
LEMMA OpenCases ==
  ASSUME OpenSegment, NEW target, target = Segment(call.now, call.index)
  PROVE  /\ pc = "open" /\ UNCHANGED <<temporaries, closed, broken, day, accepted, dropped, checks>>
         /\ \/ UNCHANGED disk /\ Logs' = Logs
            \/ /\ target \notin Logs /\ Logs' = Logs \cup {target}
               /\ disk'[target] = [records |-> {}, size |-> 0]
               /\ \A g \in Logs : disk'[g] = disk[g]
         /\ \/ /\ target \in Logs' /\ file' = target /\ currentSize' = disk'[target].size
               /\ currentDate' = call.now /\ currentIndex' = call.index
               /\ pc' = "cleanup" /\ UNCHANGED <<call, faults>>
            \/ /\ UNCHANGED <<file, currentDate, currentIndex, currentSize>>
               /\ pc' = "ready" /\ call' = NoCall /\ faults < MaxFaults /\ faults' = faults + 1
<1> DEFINE new == [records |-> {}, size |-> 0]
<1>1. /\ pc = "open" /\ UNCHANGED <<temporaries, closed, broken, day, accepted, dropped, checks>>
      /\ \/ /\ disk' = Opened(target) /\ file' = target /\ currentSize' = disk'[target].size
            /\ currentDate' = call.now /\ currentIndex' = call.index
            /\ pc' = "cleanup" /\ UNCHANGED <<call, faults>>
         \/ /\ disk' \in {disk, Opened(target)}
            /\ UNCHANGED <<file, currentDate, currentIndex, currentSize>>
            /\ pc' = "ready" /\ call' = NoCall /\ faults < MaxFaults /\ faults' = faults + 1
  BY DEF OpenSegment, Stat, Goto, Fail, ReturnError, writerVars
<1>2. CASE disk' = disk
  <2>1. Logs' = Logs
    BY <1>2, SameDisk
  <2>2. disk = Opened(target) => target \in Logs
    <3>1. DOMAIN With(target, new) = Logs \cup {target}
      BY WithIs
    <3> QED
      BY <3>1 DEF Opened, Logs
  <2> QED
    BY <1>1, <1>2, <2>1, <2>2
<1>3. CASE disk' # disk
  <2>1. target \notin Logs /\ disk' = With(target, new)
    BY <1>1, <1>3 DEF Opened
  <2> HIDE DEF new
  <2>2. /\ DOMAIN With(target, new) = Logs \cup {target} /\ With(target, new)[target] = new
        /\ \A g \in Logs \ {target} : With(target, new)[g] = disk[g]
    BY DEF With, Logs
  <2>3. Logs' = DOMAIN disk'
    BY DEF Logs
  <2>4. /\ Logs' = Logs \cup {target} /\ disk'[target] = new
        /\ \A g \in Logs : disk'[g] = disk[g]
    BY <2>1, <2>2, <2>3
  <2>5. /\ \/ /\ target \in Logs' /\ file' = target /\ currentSize' = disk'[target].size
              /\ currentDate' = call.now /\ currentIndex' = call.index
              /\ pc' = "cleanup" /\ UNCHANGED <<call, faults>>
           \/ /\ UNCHANGED <<file, currentDate, currentIndex, currentSize>>
              /\ pc' = "ready" /\ call' = NoCall /\ faults < MaxFaults /\ faults' = faults + 1
    BY <1>1, <2>4
  <2> QED
    BY <1>1, <2>1, <2>4, <2>5 DEF new
<1> QED
  BY <1>2, <1>3

\* The files cleanup leaves are as they were.
LEMMA CleanupDisk ==
  ASSUME Cleanup
  PROVE  \E removed \in SUBSET (Logs \ {file}) :
           /\ Logs' = Logs \ removed /\ \A g \in Logs' : disk'[g] = disk[g]
           /\ dropped' = dropped \cup UNION {disk[f].records : f \in removed}
<1>1. PICK removed \in SUBSET (Logs \ {file}) :
        /\ disk' = Without(removed)
        /\ dropped' = dropped \cup UNION {disk[f].records : f \in removed}
  BY CleanupCases
<1>2. /\ DOMAIN Without(removed) = Logs \ removed
      /\ \A g \in Logs \ removed : Without(removed)[g] = disk[g]
  BY WithoutIs
<1>3. Logs' = DOMAIN disk'
  BY DEF Logs
<1> QED
  BY <1>1, <1>2, <1>3

\* A write changes the open file alone.
LEMMA AppendDisk ==
  ASSUME WriterFields, Append
  PROVE  /\ file \in Logs /\ Logs' = Logs /\ \A g \in Logs \ {file} : disk'[g] = disk[g]
         /\ Size[call.record] \in Nat \ {0} /\ call.record \in Records \ accepted
         /\ \/ /\ disk'[file].records = disk[file].records \cup {call.record}
               /\ disk'[file].size = disk[file].size + Size[call.record]
               /\ currentSize' = currentSize + Size[call.record]
               /\ accepted' = accepted \cup {call.record} /\ UNCHANGED faults
            \/ /\ disk'[file].records = disk[file].records
               /\ \E part \in 0..(Size[call.record] - 1) :
                    /\ disk'[file].size = disk[file].size + part
                    /\ currentSize' = currentSize + part
               /\ UNCHANGED accepted /\ faults' = faults + 1
            \/ UNCHANGED <<disk, currentSize, accepted, faults>>
<1> DEFINE old == disk[file]
           size == Size[call.record]
<1>1. /\ pc = "append" /\ file # NoFile /\ file \in Logs
      /\ size \in Nat \ {0} /\ call.record \in Records \ accepted
      /\ old \in [records : SUBSET Records, size : Nat]
  BY AppendCases, WriterAssumption
     DEF WriterFields, TypeOK, DiskOK, CallInv, FileInv, SizeTracked
<1>2. ASSUME NEW v, disk' = With(file, v)
      PROVE  Logs' = Logs /\ disk'[file] = v /\ \A g \in Logs \ {file} : disk'[g] = disk[g]
  <2>1. /\ DOMAIN With(file, v) = Logs \cup {file} /\ With(file, v)[file] = v
        /\ \A g \in Logs \ {file} : With(file, v)[g] = disk[g]
    BY WithIs
  <2>2. Logs' = DOMAIN disk'
    BY DEF Logs
  <2> QED
    BY <1>1, <1>2, <2>1, <2>2
<1> DEFINE whole == [records |-> old.records \cup {call.record}, size |-> old.size + size]
           some(part) == [old EXCEPT !.size = old.size + part]
<1>3. /\ whole.records = old.records \cup {call.record} /\ whole.size = old.size + size
      /\ \A part : some(part).records = old.records /\ some(part).size = old.size + part
  BY <1>1
<1>4. CASE disk' = With(file, whole) /\ currentSize' = currentSize + size
             /\ accepted' = accepted \cup {call.record} /\ UNCHANGED faults
  <2> HIDE DEF whole, old, size
  <2>1. Logs' = Logs /\ disk'[file] = whole /\ \A g \in Logs \ {file} : disk'[g] = disk[g]
    BY <1>2, <1>4
  <2> QED
    BY <1>1, <1>3, <1>4, <2>1 DEF old, size
<1>5. ASSUME NEW part \in 0..(size - 1), disk' = With(file, some(part)),
             currentSize' = currentSize + part, UNCHANGED accepted, faults' = faults + 1
      PROVE  /\ Logs' = Logs /\ \A g \in Logs \ {file} : disk'[g] = disk[g]
             /\ disk'[file].records = old.records /\ disk'[file].size = old.size + part
  <2> HIDE DEF some, old, size
  <2> QED
    BY <1>2, <1>3, <1>5
<1>6. CASE UNCHANGED <<disk, currentSize, accepted, faults>>
  BY <1>1, <1>6, SameDisk
<1>7. \/ disk' = With(file, whole) /\ currentSize' = currentSize + size
           /\ accepted' = accepted \cup {call.record} /\ UNCHANGED faults
      \/ /\ \E part \in 0..(size - 1) :
              disk' = With(file, some(part)) /\ currentSize' = currentSize + part
         /\ UNCHANGED accepted /\ faults' = faults + 1
      \/ UNCHANGED <<disk, currentSize, accepted, faults>>
  BY AppendCases
<1> HIDE DEF whole, some
<1> QED
  BY <1>1, <1>4, <1>5, <1>6, <1>7

(***************************************************************************)
(* The inductive invariant                                                 *)
(***************************************************************************)

\* WriterFields holds initially.
LEMMA FieldsInit == Init => WriterFields
<1> SUFFICES ASSUME Init PROVE WriterFields
  OBVIOUS
<1>1. Logs = {} /\ IsFiniteSet(Logs)
  BY FS_EmptySet DEF Init, Logs
<1>2. DiskOK
  BY <1>1 DEF Init, DiskOK
<1>3. TypeOK
  <2>1. currentDate \in Days /\ day \in Days /\ 0 \in 0..MaxFaults /\ 0 \in 0..0
    BY WriterAssumption DEF Init
  <2> QED
    BY <1>2, <2>1 DEF Init, TypeOK
<1>4. CallInv
  BY WriterAssumption DEF Init, CallInv, NoCall
<1> QED
  BY <1>1, <1>3, <1>4
     DEF Init, WriterFields, SizeTracked, OpenIsLast, FileInv, CompressInv, TargetInv,
         AtOrBefore, DiskInv, NoCall

\* Every step leaves well-formed files.
LEMMA DiskTypeStep == WriterFields /\ [Next]_vars => DiskOK'
<1> SUFFICES ASSUME WriterFields, [Next]_vars PROVE DiskOK'
  OBVIOUS
<1> USE WriterAssumption, SameDisk DEF WriterFields, vars, writerVars, checks, Goto, Update, ReturnError, Fail, NoCall, TypeOK, DiskOK
<1>1. ASSUME NEW r \in Records, WriteStart(r) PROVE DiskOK'
  BY <1>1 DEF WriteStart
<1>2. ASSUME FinishCurrent PROVE DiskOK'
  BY <1>2 DEF FinishCurrent, CloseCurrent
<1>3. ASSUME CompressRename PROVE DiskOK'
  <2>1. CASE UNCHANGED disk
    BY <2>1
  <2>2. ASSUME NEW f \in call.todo, disk' = With(Gzip(f), disk[f]) PROVE DiskOK'
    <3>1. f \in Logs /\ f \in Files
      BY <1>3 DEF CompressRename, CompressInv
    <3> QED
      BY <2>2, <3>1, WithOK, GzipIs
  <2> QED
    BY <1>3, <2>1, <2>2 DEF CompressRename
<1>4. ASSUME CompressRemove PROVE DiskOK'
  <2>1. CASE UNCHANGED disk
    BY <2>1
  <2> QED
    BY <1>4, <2>1, WithoutOK DEF CompressRemove
<1>5. ASSUME CompressEnd PROVE DiskOK'
  BY <1>5 DEF CompressEnd
<1>6. ASSUME AvailableSegment PROVE DiskOK'
  BY <1>6 DEF AvailableSegment, Completed
<1>7. ASSUME NextIndex PROVE DiskOK'
  BY <1>7 DEF NextIndex
<1>8. ASSUME OpenSegment PROVE DiskOK'
  <2> DEFINE target == Segment(call.now, call.index)
  <2>1. CASE UNCHANGED disk
    BY <2>1
  <2>2. CASE disk' = With(target, [records |-> {}, size |-> 0])
    <3>1. target \in Files
      BY <1>8, SegmentIs DEF OpenSegment, CallInv
    <3>2. [records |-> {}, size |-> 0] \in [records : SUBSET Records, size : Nat]
      OBVIOUS
    <3> HIDE DEF target
    <3> QED
      BY <2>2, <3>1, <3>2, WithOK
  <2> QED
    BY <1>8, <2>1, <2>2 DEF OpenSegment, Opened
<1>9. ASSUME Cleanup PROVE DiskOK'
  <2>1. PICK removed : disk' = Without(removed)
    BY <1>9 DEF Cleanup
  <2> QED
    BY <2>1, WithoutOK
<1>10. ASSUME Check PROVE DiskOK'
  BY <1>10 DEF Check
<1>11. ASSUME Append PROVE DiskOK'
  <2>1. CASE UNCHANGED disk
    BY <2>1
  <2>2. /\ file \in Files /\ file \in Logs /\ call.record \in Records
        /\ Size[call.record] \in Nat
    BY <1>11 DEF Append, CallInv, FileInv, SizeTracked, TypeOK
  <2> DEFINE old == disk[file]
             size == Size[call.record]
  <2>3. old \in [records : SUBSET Records, size : Nat]
    BY <2>2
  <2>4. CASE disk' = With(file, [records |-> old.records \cup {call.record},
                                size |-> old.size + size])
    <3>1. [records |-> old.records \cup {call.record}, size |-> old.size + size]
            \in [records : SUBSET Records, size : Nat]
      BY <2>2, <2>3
    <3> HIDE DEF old, size
    <3> QED
      BY <2>2, <2>4, <3>1, WithOK
  <2>5. ASSUME NEW part \in 0..(size - 1), disk' = With(file, [old EXCEPT !.size = old.size + part])
        PROVE  DiskOK'
    <3>1. [old EXCEPT !.size = old.size + part] \in [records : SUBSET Records, size : Nat]
      BY <2>2, <2>3
    <3> HIDE DEF old
    <3> QED
      BY <2>2, <2>5, <3>1, WithOK
  <2> QED
    BY <1>11, AppendCases, <2>1, <2>4, <2>5
<1>12. ASSUME Close PROVE DiskOK'
  BY <1>12 DEF Close
<1>13. ASSUME Restart PROVE DiskOK'
  BY <1>13 DEF Restart, Reopen
<1>14. ASSUME Crash PROVE DiskOK'
  BY <1>14 DEF Crash, Reopen
<1>15. ASSUME Tick PROVE DiskOK'
  BY <1>15 DEF Tick
<1>16. ASSUME UNCHANGED vars PROVE DiskOK'
  BY <1>16
<1> QED
  BY <1>1, <1>2, <1>3, <1>4, <1>5, <1>6, <1>7, <1>8, <1>9, <1>10, <1>11, <1>12, <1>13,
     <1>14, <1>15, <1>16 DEF Next, WriteStep

\* Every step preserves the types.
LEMMA TypeStep == WriterFields /\ DiskOK' /\ [Next]_vars => TypeOK'
<1> SUFFICES ASSUME WriterFields, DiskOK', [Next]_vars PROVE TypeOK'
  OBVIOUS
<1> USE WriterAssumption, SameDisk DEF WriterFields, vars, writerVars, checks, Goto, Update, ReturnError, Fail, NoCall, TypeOK, CallInv, FileInv
<1>1. ASSUME NEW r \in Records, WriteStart(r) PROVE TypeOK'
  BY <1>1 DEF WriteStart
<1>2. ASSUME FinishCurrent PROVE TypeOK'
  <2>1. /\ UNCHANGED <<temporaries, currentDate, currentIndex, closed, day, accepted, dropped,
                        checks>>
        /\ pc' \in {"available", "nextIndex", "compress", "ready"}
        /\ file' \in {file, NoFile} /\ currentSize' \in {currentSize, 0}
        /\ UNCHANGED faults \/ (faults < MaxFaults /\ faults' = faults + 1)
    BY <1>2, FinishCases
  <2>2. broken' \in BOOLEAN
    BY <1>2, FinishCases
  <2>3. file' \in Files \cup {NoFile} /\ currentSize' \in Nat
    BY <2>1
  <2> QED
    BY <2>1, <2>2, <2>3, OneMoreFault
<1>3. ASSUME CompressRename PROVE TypeOK'
  <2>1. /\ UNCHANGED <<temporaries, writerVars, day, accepted, dropped, checks>>
        /\ pc' \in {"remove", "ready"}
        /\ UNCHANGED faults \/ (faults < MaxFaults /\ faults' = faults + 1)
    BY <1>3 DEF CompressRename
  <2> QED
    BY <2>1, OneMoreFault
<1>4. ASSUME CompressRemove PROVE TypeOK'
  BY <1>4 DEF CompressRemove
<1>5. ASSUME CompressEnd PROVE TypeOK'
  BY <1>5 DEF CompressEnd
<1>6. ASSUME AvailableSegment PROVE TypeOK'
  BY <1>6 DEF AvailableSegment, Completed
<1>7. ASSUME NextIndex PROVE TypeOK'
  BY <1>7 DEF NextIndex
<1>8. ASSUME OpenSegment PROVE TypeOK'
  <2>1. CASE UNCHANGED writerVars
    <3>1. /\ UNCHANGED <<temporaries, day, accepted, dropped, checks>> /\ pc' \in {"cleanup", "ready"}
          /\ UNCHANGED faults \/ (faults < MaxFaults /\ faults' = faults + 1)
      BY <1>8 DEF OpenSegment
    <3> QED
      BY <2>1, <3>1, OneMoreFault
  <2>2. CASE ~UNCHANGED writerVars
    <3> DEFINE target == Segment(call.now, call.index)
    <3>1. /\ disk' = Opened(target) /\ file' = target /\ currentDate' = call.now
          /\ currentIndex' = call.index /\ currentSize' = disk'[target].size /\ pc' = "cleanup"
          /\ UNCHANGED <<temporaries, faults, closed, broken, day, accepted, dropped, checks>>
      BY <1>8, <2>2 DEF OpenSegment, Stat
    <3>2. target \in Files /\ call.now \in Days /\ call.index \in Nat
      BY <1>8, SegmentIs DEF OpenSegment
    <3>3. target \in Logs'
      <4>1. CASE target \in Logs
        BY <3>1, <4>1 DEF Opened, Logs
      <4>2. CASE target \notin Logs
        <5>1. DOMAIN disk' = Logs \cup {target}
          BY <3>1, <4>2, WithIs DEF Opened
        <5> QED
          BY <5>1 DEF Logs
      <4> QED
        BY <4>1, <4>2
    <3>4. disk'[target].size \in Nat
      BY <3>3 DEF DiskOK
    <3> HIDE DEF target
    <3> QED
      BY <3>1, <3>2, <3>4
  <2> QED
    BY <2>1, <2>2
<1>9. ASSUME Cleanup PROVE TypeOK'
  <2>1. /\ UNCHANGED <<temporaries, writerVars, day, accepted>> /\ pc' \in {"check", "append"}
        /\ UNCHANGED faults \/ (faults < MaxFaults /\ faults' = faults + 1)
        /\ maintenanceErr' \in BOOLEAN /\ clean' \in BOOLEAN
    BY <1>9 DEF Cleanup
  <2>2. dropped' \subseteq Records
    <3>1. PICK removed \in SUBSET Logs :
                 dropped' = dropped \cup UNION {disk[f].records : f \in removed}
      BY <1>9, CleanupCases
    <3> QED
      BY <3>1 DEF DiskOK
  <2> QED
    BY <2>1, <2>2, OneMoreFault
<1>10. ASSUME Check PROVE TypeOK'
  BY <1>10 DEF Check
<1>11. ASSUME Append PROVE TypeOK'
  <2>1. call.record \in Records /\ Size[call.record] \in Nat
    BY <1>11 DEF Append
  <2>2. /\ UNCHANGED <<temporaries, file, currentDate, currentIndex, closed, broken, day, dropped,
                        checks>>
        /\ pc' = "ready" /\ accepted' \subseteq Records
        /\ UNCHANGED faults \/ (faults < MaxFaults /\ faults' = faults + 1)
    BY <1>11, <2>1, AppendCases
  <2>3. currentSize' \in Nat
    <3>1. \/ currentSize' = currentSize + Size[call.record] \/ UNCHANGED currentSize
          \/ \E part \in 0..(Size[call.record] - 1) : currentSize' = currentSize + part
      BY <1>11, AppendCases
    <3> QED
      BY <2>1, <3>1
  <2> QED
    BY <2>2, <2>3, OneMoreFault
<1>12. ASSUME Close PROVE TypeOK'
  BY <1>12 DEF Close
<1>13. ASSUME Restart PROVE TypeOK'
  BY <1>13 DEF Restart, Reopen
<1>14. ASSUME Crash PROVE TypeOK'
  <2>1. /\ faults < MaxFaults /\ faults' = faults + 1 /\ temporaries' \in {temporaries, temporaries + 1}
        /\ UNCHANGED <<currentDate, day, accepted, dropped, clean>> /\ pc' = "ready"
        /\ maintenanceErr' = FALSE /\ closed' = FALSE /\ broken' = FALSE /\ file' = NoFile /\ currentSize' = 0
        /\ currentIndex' = 0
    BY <1>14 DEF Crash, Reopen
  <2>2. temporaries' \in 0..faults' /\ faults' \in 0..MaxFaults
    BY <2>1
  <2> QED
    BY <2>1, <2>2
<1>15. ASSUME Tick PROVE TypeOK'
  BY <1>15 DEF Tick
<1>16. ASSUME UNCHANGED vars PROVE TypeOK'
  BY <1>16
<1> QED
  BY <1>1, <1>2, <1>3, <1>4, <1>5, <1>6, <1>7, <1>8, <1>9, <1>10, <1>11, <1>12, <1>13,
     <1>14, <1>15, <1>16 DEF Next, WriteStep

\* Every step preserves CallInv.
LEMMA CallStep == WriterFields /\ [Next]_vars => CallInv'
<1> SUFFICES ASSUME WriterFields, [Next]_vars PROVE CallInv'
  OBVIOUS
<1> USE WriterAssumption, SameDisk DEF WriterFields, vars, writerVars, checks, Goto, Update, ReturnError, Fail, NoCall, TypeOK, DiskOK, CallInv, FileInv
<1>1. ASSUME NEW r \in Records, WriteStart(r) PROVE CallInv'
  BY <1>1 DEF WriteStart
<1>2. ASSUME FinishCurrent PROVE CallInv'
  <2>1. PICK next \in {"available", "nextIndex"} :
               \/ call' = call /\ pc' = next
               \/ file # NoFile /\ pc' = "compress"
                    /\ call' = [call EXCEPT !.next = next,
                         !.todo = IF Compress /\ currentSize > 0 THEN {file} ELSE {}]
               \/ call' = NoCall /\ pc' = "ready"
    BY <1>2, FinishCases
  <2>2. UNCHANGED accepted /\ pc \in {"finishDate", "finishSize"}
    BY <1>2, FinishCases
  <2>3. CASE call' = call /\ pc' = next
    BY <2>2, <2>3
  <2>4. CASE file # NoFile /\ pc' = "compress"
               /\ call' = [call EXCEPT !.next = next,
                    !.todo = IF Compress /\ currentSize > 0 THEN {file} ELSE {}]
    <3>1. (IF Compress /\ currentSize > 0 THEN {file} ELSE {}) \in SUBSET Files
      BY <2>4
    <3> QED
      BY <2>2, <2>4, <3>1
  <2>5. CASE call' = NoCall /\ pc' = "ready"
    BY <2>5, NoCallIs DEF NoCall
  <2> QED
    BY <2>1, <2>3, <2>4, <2>5
<1>3. ASSUME CompressRename PROVE CallInv'
  <2>1. CASE call' = NoCall /\ pc' = "ready"
    BY <2>1, NoCallIs DEF NoCall
  <2>2. ASSUME NEW f \in call.todo, call' = [call EXCEPT !.source = f, !.todo = call.todo \ {f}],
               pc' = "remove", pc = "compress"
        PROVE  CallInv'
    BY <1>3, <2>2 DEF CompressRename
  <2> QED
    BY <1>3, <2>1, <2>2 DEF CompressRename
<1>4. ASSUME CompressRemove PROVE CallInv'
  BY <1>4 DEF CompressRemove
<1>5. ASSUME CompressEnd PROVE CallInv'
  BY <1>5 DEF CompressEnd
<1>6. ASSUME AvailableSegment PROVE CallInv'
  <2>1. CASE call' = NoCall /\ pc' = "ready"
    BY <2>1, NoCallIs DEF NoCall
  <2>2. CASE pc' = "compress"
    <3> DEFINE todo == IF Compress THEN {f \in Logs : ~f.gz} \ {Segment(call.now, Available(call.now))}
                       ELSE {}
    <3>1. /\ pc = "available" /\ UNCHANGED accepted
          /\ call' = [call EXCEPT !.index = Available(call.now), !.next = "open", !.todo = todo]
      BY <1>6, <2>2 DEF AvailableSegment, Completed
    <3>2. todo \in SUBSET Files
      BY DEF DiskOK
    <3>3. Available(call.now) \in Nat
      BY <3>1, AvailableIsLast
    <3> HIDE DEF todo
    <3> QED
      BY <2>2, <3>1, <3>2, <3>3
  <2> QED
    BY <1>6, <2>1, <2>2 DEF AvailableSegment, Completed
<1>7. ASSUME NextIndex PROVE CallInv'
  <2>1. /\ pc = "nextIndex" /\ pc' = "open" /\ UNCHANGED accepted
        /\ call' = [call EXCEPT !.index = currentIndex + 1, !.opened = "append"]
    BY <1>7 DEF NextIndex
  <2>2. currentIndex + 1 \in Nat
    OBVIOUS
  <2> QED
    BY <2>1, <2>2
<1>8. ASSUME OpenSegment PROVE CallInv'
  BY <1>8 DEF OpenSegment, Opened, Stat
<1>9. ASSUME Cleanup PROVE CallInv'
  BY <1>9 DEF Cleanup
<1>10. ASSUME Check PROVE CallInv'
  BY <1>10 DEF Check
<1>11. ASSUME Append PROVE CallInv'
  <2> QED
    BY <1>11, AppendCases, NoCallIs DEF NoCall
<1>12. ASSUME Close PROVE CallInv'
  BY <1>12 DEF Close
<1>13. ASSUME Restart PROVE CallInv'
  BY <1>13 DEF Restart, Reopen
<1>14. ASSUME Crash PROVE CallInv'
  BY <1>14 DEF Crash, Reopen
<1>15. ASSUME Tick PROVE CallInv'
  BY <1>15 DEF Tick
<1>16. ASSUME UNCHANGED vars PROVE CallInv'
  BY <1>16
<1> QED
  BY <1>1, <1>2, <1>3, <1>4, <1>5, <1>6, <1>7, <1>8, <1>9, <1>10, <1>11, <1>12, <1>13,
     <1>14, <1>15, <1>16 DEF Next, WriteStep

\* Every step preserves FileInv.
LEMMA FileStep == WriterFields /\ [Next]_vars => FileInv'
<1> SUFFICES ASSUME WriterFields, [Next]_vars PROVE FileInv'
  OBVIOUS
<1> USE WriterAssumption, SameDisk DEF WriterFields, vars, writerVars, checks, Goto, Update, ReturnError, Fail, NoCall, TypeOK, CallInv, FileInv
<1>1. ASSUME NEW r \in Records, WriteStart(r) PROVE FileInv'
  BY <1>1 DEF WriteStart
<1>2. ASSUME FinishCurrent PROVE FileInv'
  BY <1>2 DEF FinishCurrent, CloseCurrent
<1>3. ASSUME CompressRename PROVE FileInv'
  BY <1>3 DEF CompressRename
<1>4. ASSUME CompressRemove PROVE FileInv'
  BY <1>4 DEF CompressRemove
<1>5. ASSUME CompressEnd PROVE FileInv'
  BY <1>5 DEF CompressEnd
<1>6. ASSUME AvailableSegment PROVE FileInv'
  BY <1>6 DEF AvailableSegment, Completed
<1>7. ASSUME NextIndex PROVE FileInv'
  BY <1>7 DEF NextIndex
<1>8. ASSUME OpenSegment PROVE FileInv'
  <2> DEFINE target == Segment(call.now, call.index)
  <2>1. CASE pc' = "ready"
    <3>1. UNCHANGED <<file, currentDate, currentIndex, closed>> /\ pc = "open"
      BY <1>8, <2>1, OpenCases
    <3> QED
      BY <2>1, <3>1
  <2>2. CASE pc' # "ready"
    <3>1. /\ file' = target /\ currentSize' = disk'[target].size /\ pc' = "cleanup"
          /\ currentDate' = call.now /\ currentIndex' = call.index /\ UNCHANGED <<call, closed>>
          /\ pc = "open"
          /\ target \notin Logs => disk'[target] = [records |-> {}, size |-> 0]
      BY <1>8, <2>2, OpenCases
    <3>2. target # NoFile /\ target.date = call.now /\ target.index = call.index
      BY <3>1, SegmentIs
    <3>3. ASSUME call.opened = "append" PROVE currentSize' = 0
      <4>1. NoneFrom(call.now, call.index)
        BY <3>1, <3>3 DEF TargetInv
      <4>2. target \notin Logs
        BY <3>2, <4>1 DEF NoneFrom
      <4> HIDE DEF target
      <4> QED
        BY <3>1, <4>2
    <3>4. file' = Segment(currentDate', currentIndex')
      BY <3>1
    <3>5. ~closed'
      BY <3>1
    <3> HIDE DEF target
    <3> QED
      BY <3>1, <3>2, <3>3, <3>4, <3>5
  <2> QED
    BY <2>1, <2>2
<1>9. ASSUME Cleanup PROVE FileInv'
  BY <1>9 DEF Cleanup
<1>10. ASSUME Check PROVE FileInv'
  BY <1>10 DEF Check
<1>11. ASSUME Append PROVE FileInv'
  BY <1>11 DEF Append
<1>12. ASSUME Close PROVE FileInv'
  BY <1>12 DEF Close
<1>13. ASSUME Restart PROVE FileInv'
  BY <1>13 DEF Restart, Reopen
<1>14. ASSUME Crash PROVE FileInv'
  BY <1>14 DEF Crash, Reopen
<1>15. ASSUME Tick PROVE FileInv'
  BY <1>15 DEF Tick
<1>16. ASSUME UNCHANGED vars PROVE FileInv'
  BY <1>16
<1> QED
  BY <1>1, <1>2, <1>3, <1>4, <1>5, <1>6, <1>7, <1>8, <1>9, <1>10, <1>11, <1>12, <1>13,
     <1>14, <1>15, <1>16 DEF Next, WriteStep

\* Every step preserves SizeTracked: no file is changed behind the writer.
LEMMA TrackStep == WriterFields /\ [Next]_vars => SizeTracked'
<1> SUFFICES ASSUME WriterFields, [Next]_vars PROVE SizeTracked'
  OBVIOUS
<1> USE WriterAssumption, SameDisk DEF WriterFields, vars, writerVars, checks, Goto, Update, ReturnError, Fail, NoCall, TypeOK, DiskOK, FileInv, SizeTracked
<1>1. ASSUME NEW r \in Records, WriteStart(r) PROVE SizeTracked'
  BY <1>1 DEF WriteStart
<1>2. ASSUME FinishCurrent PROVE SizeTracked'
  BY <1>2 DEF FinishCurrent, CloseCurrent
<1>3. ASSUME CompressRename PROVE SizeTracked'
  BY <1>3 DEF CompressRename
<1>4. ASSUME CompressRemove PROVE SizeTracked'
  BY <1>4 DEF CompressRemove
<1>5. ASSUME CompressEnd PROVE SizeTracked'
  BY <1>5 DEF CompressEnd
<1>6. ASSUME AvailableSegment PROVE SizeTracked'
  BY <1>6 DEF AvailableSegment, Completed
<1>7. ASSUME NextIndex PROVE SizeTracked'
  BY <1>7 DEF NextIndex
<1>8. ASSUME OpenSegment PROVE SizeTracked'
  <2> DEFINE target == Segment(call.now, call.index)
  <2>1. CASE pc' = "ready"
    <3>1. file = NoFile /\ UNCHANGED file
      BY <1>8, <2>1, OpenCases
    <3> QED
      BY <3>1
  <2>2. CASE pc' # "ready"
    BY <1>8, <2>2, OpenCases
  <2> QED
    BY <2>1, <2>2
<1>9. ASSUME Cleanup PROVE SizeTracked'
  <2>1. UNCHANGED <<file, currentSize>>
    BY <1>9 DEF Cleanup
  <2> QED
    BY <1>9, <2>1, CleanupDisk
<1>10. ASSUME Check PROVE SizeTracked'
  BY <1>10 DEF Check
<1>11. ASSUME Append PROVE SizeTracked'
  <2>1. UNCHANGED file
    BY <1>11 DEF Append
  <2> QED
    BY <1>11, <2>1, AppendDisk
<1>12. ASSUME Close PROVE SizeTracked'
  BY <1>12 DEF Close
<1>13. ASSUME Restart PROVE SizeTracked'
  BY <1>13 DEF Restart, Reopen
<1>14. ASSUME Crash PROVE SizeTracked'
  BY <1>14 DEF Crash, Reopen
<1>15. ASSUME Tick PROVE SizeTracked'
  BY <1>15 DEF Tick
<1>16. ASSUME UNCHANGED vars PROVE SizeTracked'
  BY <1>16
<1> QED
  BY <1>1, <1>2, <1>3, <1>4, <1>5, <1>6, <1>7, <1>8, <1>9, <1>10, <1>11, <1>12, <1>13,
     <1>14, <1>15, <1>16 DEF Next, WriteStep

\* Every step preserves CompressInv: a .gz is made of a segment that still has all it holds.
LEMMA CompressStep == WriterFields /\ [Next]_vars => CompressInv'
<1> SUFFICES ASSUME WriterFields, [Next]_vars PROVE CompressInv'
  OBVIOUS
<1> USE WriterAssumption, SameDisk DEF WriterFields, vars, writerVars, checks, Goto, Update, ReturnError, Fail, NoCall, TypeOK, DiskOK, CallInv, FileInv, CompressInv
<1>1. ASSUME NEW r \in Records, WriteStart(r) PROVE CompressInv'
  BY <1>1 DEF WriteStart
<1>2. ASSUME FinishCurrent PROVE CompressInv'
  <2>1. UNCHANGED disk /\ pc' # "remove"
    BY <1>2, FinishCases
  <2>2. ASSUME pc' = "compress" PROVE call'.todo \subseteq {f \in Logs : ~f.gz}
    <3>1. file # NoFile /\ call'.todo \subseteq {file}
      BY <1>2, <2>2, FinishCases
    <3>2. file \in Logs /\ ~file.gz
      BY <3>1 DEF SizeTracked, Segment
    <3> QED
      BY <3>1, <3>2
  <2> QED
    BY <2>1, <2>2
<1>3. ASSUME CompressRename PROVE CompressInv'
  <2>1. CASE UNCHANGED disk /\ pc' = "ready"
    BY <2>1
  <2>2. ASSUME NEW f \in call.todo, f \in Logs, f \in Files, ~f.gz, Logs' = Logs \cup {Gzip(f)},
               disk'[Gzip(f)] = disk[f], \A g \in Logs \ {Gzip(f)} : disk'[g] = disk[g],
               call' = [call EXCEPT !.source = f, !.todo = call.todo \ {f}], pc' = "remove"
        PROVE  CompressInv'
    <3>1. Gzip(f) # f /\ Gzip(f).gz
      BY <2>2, GzipIs
    <3>2. call'.source = f /\ call'.todo = call.todo \ {f}
      BY <2>2
    <3>3. call.todo \subseteq {g \in Logs : ~g.gz}
      BY <1>3, RenameCases
    <3>4. ASSUME NEW g \in Logs', ~g.gz, Gzip(g) \in Logs'
          PROVE  disk'[Gzip(g)].records \subseteq disk'[g].records
      <4>1. g \in Logs /\ g \in Files /\ g # Gzip(f) /\ disk'[g] = disk[g]
        BY <2>2, <3>1, <3>4
      <4>2. CASE Gzip(g) = Gzip(f)
        <5>1. g = f
          BY <2>2, <3>4, <4>1, <4>2, GzipOfOne
        <5> QED
          BY <2>2, <4>1, <4>2, <5>1
      <4>3. CASE Gzip(g) # Gzip(f)
        BY <2>2, <3>4, <4>1, <4>3
      <4> QED
        BY <4>2, <4>3
    <3> QED
      BY <2>2, <3>1, <3>2, <3>3, <3>4
  <2> QED
    BY <1>3, <2>1, <2>2, RenameCases
<1>4. ASSUME CompressRemove PROVE CompressInv'
  <2>1. CASE UNCHANGED disk /\ pc' = "ready"
    BY <2>1
  <2>2. CASE /\ Logs' = Logs \ {call.source} /\ \A g \in Logs' : disk'[g] = disk[g]
             /\ pc = "remove" /\ pc' = "compress" /\ UNCHANGED call
    BY <2>2
  <2> QED
    BY <1>4, <2>1, <2>2, RemoveCases
<1>5. ASSUME CompressEnd PROVE CompressInv'
  BY <1>5 DEF CompressEnd
<1>6. ASSUME AvailableSegment PROVE CompressInv'
  <2>1. UNCHANGED disk /\ pc' \in {"compress", "ready"}
    BY <1>6 DEF AvailableSegment, Completed
  <2>2. ASSUME pc' = "compress" PROVE call'.todo \subseteq {f \in Logs : ~f.gz}
    <3> DEFINE todo == IF Compress THEN {f \in Logs : ~f.gz} \ {Segment(call.now, Available(call.now))}
                       ELSE {}
    <3>1. call' = [call EXCEPT !.index = Available(call.now), !.next = "open", !.todo = todo]
      BY <1>6, <2>2 DEF AvailableSegment, Completed
    <3>2. todo \subseteq {f \in Logs : ~f.gz}
      OBVIOUS
    <3> HIDE DEF todo
    <3> QED
      BY <3>1, <3>2
  <2> QED
    BY <2>1, <2>2
<1>7. ASSUME NextIndex PROVE CompressInv'
  BY <1>7 DEF NextIndex
<1>8. ASSUME OpenSegment PROVE CompressInv'
  <2> DEFINE target == Segment(call.now, call.index)
  <2>1. pc = "open" /\ pc' \in {"cleanup", "ready"}
    BY <1>8, OpenCases
  <2>2. target \in Files /\ ~target.gz /\ target.date = call.now /\ target.index = call.index
    BY <2>1, SegmentIs
  <2>3. \/ UNCHANGED disk /\ Logs' = Logs
        \/ /\ target \notin Logs /\ Logs' = Logs \cup {target}
           /\ disk'[target] = [records |-> {}, size |-> 0]
           /\ \A g \in Logs : disk'[g] = disk[g]
    BY <1>8, OpenCases
  <2>4. target \notin Logs => NoneFrom(call.now, call.index)
    BY <2>1 DEF TargetInv, AtOrBefore
  <2> HIDE DEF target
  <2>5. CASE UNCHANGED disk
    BY <2>1, <2>5
  <2>6. CASE target \notin Logs /\ Logs' = Logs \cup {target} /\ \A g \in Logs : disk'[g] = disk[g]
    <3>1. ASSUME NEW g \in Logs', ~g.gz, Gzip(g) \in Logs'
          PROVE  disk'[Gzip(g)].records \subseteq disk'[g].records
      <4>1. g \in Files
        BY <2>2, <2>6
      <4>2. Gzip(g) \in Logs /\ Gzip(g).date = g.date /\ Gzip(g).index = g.index
        BY <2>2, <2>6, <3>1, <4>1, GzipIs
      <4>3. g # target
        BY <2>2, <2>4, <2>6, <4>2 DEF NoneFrom
      <4> QED
        BY <2>6, <3>1, <4>2, <4>3
    <3> QED
      BY <2>1, <3>1
  <2> QED
    BY <2>3, <2>5, <2>6
<1>9. ASSUME Cleanup PROVE CompressInv'
  <2>1. pc = "cleanup" /\ pc' \in {"check", "append"}
    BY <1>9 DEF Cleanup
  <2> QED
    BY <1>9, <2>1, CleanupDisk
<1>10. ASSUME Check PROVE CompressInv'
  BY <1>10 DEF Check
<1>11. ASSUME Append PROVE CompressInv'
  <2>1. pc' = "ready" /\ ~file.gz
    BY <1>11, AppendCases DEF Segment
  <2>2. /\ file \in Logs /\ Logs' = Logs /\ \A g \in Logs \ {file} : disk'[g] = disk[g]
        /\ disk[file].records \subseteq disk'[file].records
    BY <1>11, AppendDisk
  <2>3. ASSUME NEW g \in Logs, ~g.gz, Gzip(g) \in Logs
        PROVE  disk'[Gzip(g)].records \subseteq disk'[g].records
    <3>1. Gzip(g) # file
      BY <2>1, GzipIs
    <3> QED
      BY <2>2, <2>3, <3>1
  <2> QED
    BY <2>1, <2>2, <2>3
<1>12. ASSUME Close PROVE CompressInv'
  BY <1>12 DEF Close
<1>13. ASSUME Restart PROVE CompressInv'
  BY <1>13 DEF Restart, Reopen
<1>14. ASSUME Crash PROVE CompressInv'
  BY <1>14 DEF Crash, Reopen
<1>15. ASSUME Tick PROVE CompressInv'
  BY <1>15 DEF Tick
<1>16. ASSUME UNCHANGED vars PROVE CompressInv'
  BY <1>16
<1> QED
  BY <1>1, <1>2, <1>3, <1>4, <1>5, <1>6, <1>7, <1>8, <1>9, <1>10, <1>11, <1>12, <1>13,
     <1>14, <1>15, <1>16 DEF Next, WriteStep

\* Every step preserves TargetInv.
LEMMA TargetStep == WriterFields /\ [Next]_vars => TargetInv'
<1> SUFFICES ASSUME WriterFields, [Next]_vars PROVE TargetInv'
  OBVIOUS
<1> USE WriterAssumption, SameDisk DEF WriterFields, vars, writerVars, checks, Goto, Update, ReturnError, Fail, NoCall, TypeOK, CallInv, FileInv, TargetInv, AtOrBefore, NoneAfter, NoneFrom
<1>1. ASSUME NEW r \in Records, WriteStart(r) PROVE TargetInv'
  BY <1>1 DEF WriteStart
<1>2. ASSUME FinishCurrent PROVE TargetInv'
  <2>1. UNCHANGED <<disk, currentDate, currentIndex>> /\ pc' \notin {"open", "remove"}
    BY <1>2, FinishCases
  <2>2. pc' = "compress" => call'.next \in {"available", "nextIndex"}
    BY <1>2, FinishCases
  <2>3. ASSUME pc' = "nextIndex" \/ (pc' = "compress" /\ call'.next = "nextIndex")
        PROVE  call'.now = currentDate /\ \A f \in Logs : f.date = currentDate => f.index <= currentIndex
    <3>1. file # NoFile /\ pc = "finishSize" /\ call'.now = call.now
      BY <1>2, <2>3, FinishCases
    <3>2. file.date = currentDate /\ file.index = currentIndex /\ currentDate = call.now
      BY <3>1 DEF Segment
    <3> QED
      BY <3>1, <3>2 DEF OpenIsLast
  <2> QED
    BY <2>1, <2>2, <2>3
<1>3. ASSUME CompressRename PROVE TargetInv'
  <2>1. CASE pc' = "ready"
    BY <2>1
  <2>2. ASSUME NEW f \in call.todo, f \in Logs, f \in Files, ~f.gz, Logs' = Logs \cup {Gzip(f)},
               call' = [call EXCEPT !.source = f, !.todo = call.todo \ {f}], pc' = "remove",
               pc = "compress", UNCHANGED writerVars
        PROVE  TargetInv'
    <3>1. Gzip(f).date = f.date /\ Gzip(f).index = f.index
      BY <2>2, GzipIs
    <3>2. /\ call'.source = f /\ call'.todo = call.todo \ {f} /\ call'.next = call.next
          /\ call'.now = call.now /\ call'.index = call.index
      BY <2>2
    <3> QED
      BY <2>2, <3>1, <3>2
  <2> QED
    BY <1>3, <2>1, <2>2, RenameCases
<1>4. ASSUME CompressRemove PROVE TargetInv'
  <2>1. CASE pc' = "ready"
    BY <2>1
  <2>2. CASE /\ Logs' = Logs \ {call.source} /\ pc = "remove" /\ pc' = "compress"
             /\ UNCHANGED call /\ UNCHANGED writerVars
    BY <2>2
  <2> QED
    BY <1>4, <2>1, <2>2, RemoveCases
<1>5. ASSUME CompressEnd PROVE TargetInv'
  <2>1. /\ pc = "compress" /\ pc' = call.next /\ UNCHANGED <<disk, call, currentDate, currentIndex>>
    BY <1>5 DEF CompressEnd
  <2> QED
    BY <2>1
<1>6. ASSUME AvailableSegment PROVE TargetInv'
  <2>1. CASE pc' = "ready"
    BY <2>1
  <2>2. CASE pc' # "ready"
    <3> DEFINE todo == IF Compress THEN {f \in Logs : ~f.gz} \ {Segment(call.now, Available(call.now))}
                       ELSE {}
               index == Available(call.now)
    <3>1. /\ call' = [call EXCEPT !.index = index, !.next = "open", !.todo = todo]
          /\ pc = "available" /\ pc' = "compress" /\ UNCHANGED disk
      BY <1>6, <2>2 DEF AvailableSegment, Completed
    <3>2. Segment(call.now, index) \notin todo
      OBVIOUS
    <3>3. /\ NoneAfter(call.now, index)
          /\ Segment(call.now, index) \in Logs \/ NoneFrom(call.now, index)
      BY <3>1, AvailableIsLast
    <3> HIDE DEF todo, index
    <3>4. call'.now = call.now /\ call'.index = index /\ call'.next = "open" /\ call'.todo = todo
      BY <3>1
    <3> QED
      BY <3>1, <3>2, <3>3, <3>4
  <2> QED
    BY <2>1, <2>2
<1>7. ASSUME NextIndex PROVE TargetInv'
  <2>1. /\ pc = "nextIndex" /\ pc' = "open" /\ UNCHANGED <<disk, currentDate, currentIndex>>
        /\ call' = [call EXCEPT !.index = currentIndex + 1, !.opened = "append"]
    BY <1>7 DEF NextIndex
  <2>2. call'.now = currentDate /\ call'.index = currentIndex + 1
    BY <2>1
  <2>3. \A f \in Logs : f.date = currentDate => f.index < currentIndex + 1 /\ f.index <= currentIndex + 1
    <3>1. \A f \in Logs : f.index \in Int
      BY DEF DiskOK, Files
    <3> QED
      BY <2>1, <3>1
  <2> QED
    BY <2>1, <2>2, <2>3
<1>8. ASSUME OpenSegment PROVE TargetInv'
  BY <1>8 DEF OpenSegment, Opened, Stat
<1>9. ASSUME Cleanup PROVE TargetInv'
  BY <1>9 DEF Cleanup
<1>10. ASSUME Check PROVE TargetInv'
  BY <1>10 DEF Check
<1>11. ASSUME Append PROVE TargetInv'
  BY <1>11 DEF Append
<1>12. ASSUME Close PROVE TargetInv'
  BY <1>12 DEF Close
<1>13. ASSUME Restart PROVE TargetInv'
  BY <1>13 DEF Restart, Reopen
<1>14. ASSUME Crash PROVE TargetInv'
  BY <1>14 DEF Crash, Reopen
<1>15. ASSUME Tick PROVE TargetInv'
  BY <1>15 DEF Tick
<1>16. ASSUME UNCHANGED vars PROVE TargetInv'
  BY <1>16
<1> QED
  BY <1>1, <1>2, <1>3, <1>4, <1>5, <1>6, <1>7, <1>8, <1>9, <1>10, <1>11, <1>12, <1>13,
     <1>14, <1>15, <1>16 DEF Next, WriteStep

\* Every step preserves OpenIsLast.
LEMMA LastStep == WriterFields /\ [Next]_vars => OpenIsLast'
<1> SUFFICES ASSUME WriterFields, [Next]_vars PROVE OpenIsLast'
  OBVIOUS
<1> USE WriterAssumption, SameDisk DEF WriterFields, vars, writerVars, checks, Goto, Update, ReturnError, Fail, NoCall, TypeOK, CallInv, FileInv, OpenIsLast
<1>1. ASSUME NEW r \in Records, WriteStart(r) PROVE OpenIsLast'
  BY <1>1 DEF WriteStart
<1>2. ASSUME FinishCurrent PROVE OpenIsLast'
  BY <1>2 DEF FinishCurrent, CloseCurrent
<1>3. ASSUME CompressRename PROVE OpenIsLast'
  BY <1>3 DEF CompressRename
<1>4. ASSUME CompressRemove PROVE OpenIsLast'
  BY <1>4 DEF CompressRemove
<1>5. ASSUME CompressEnd PROVE OpenIsLast'
  BY <1>5 DEF CompressEnd
<1>6. ASSUME AvailableSegment PROVE OpenIsLast'
  BY <1>6 DEF AvailableSegment, Completed
<1>7. ASSUME NextIndex PROVE OpenIsLast'
  BY <1>7 DEF NextIndex
<1>8. ASSUME OpenSegment PROVE OpenIsLast'
  <2> DEFINE target == Segment(call.now, call.index)
  <2>1. CASE pc' = "ready"
    <3>1. file = NoFile /\ UNCHANGED file
      BY <1>8, <2>1, OpenCases
    <3> QED
      BY <3>1
  <2>2. CASE pc' # "ready"
    <3>1. pc = "open" /\ file' = target /\ Logs' \subseteq Logs \cup {target}
      BY <1>8, <2>2, OpenCases
    <3>2. target.date = call.now /\ target.index = call.index /\ call.index \in Nat
      BY <3>1, SegmentIs
    <3>3. \A f \in Logs : f.date = call.now => f.index <= call.index
      BY <3>1 DEF TargetInv, AtOrBefore, NoneAfter
    <3> HIDE DEF target
    <3> QED
      BY <3>1, <3>2, <3>3
  <2> QED
    BY <2>1, <2>2
<1>9. ASSUME Cleanup PROVE OpenIsLast'
  <2>1. UNCHANGED file
    BY <1>9 DEF Cleanup
  <2> QED
    BY <1>9, <2>1, CleanupDisk
<1>10. ASSUME Check PROVE OpenIsLast'
  BY <1>10 DEF Check
<1>11. ASSUME Append PROVE OpenIsLast'
  <2>1. UNCHANGED file
    BY <1>11 DEF Append
  <2>2. Logs' = Logs
    BY <1>11, AppendDisk
  <2> QED
    BY <2>1, <2>2
<1>12. ASSUME Close PROVE OpenIsLast'
  BY <1>12 DEF Close
<1>13. ASSUME Restart PROVE OpenIsLast'
  BY <1>13 DEF Restart, Reopen
<1>14. ASSUME Crash PROVE OpenIsLast'
  BY <1>14 DEF Crash, Reopen
<1>15. ASSUME Tick PROVE OpenIsLast'
  BY <1>15 DEF Tick
<1>16. ASSUME UNCHANGED vars PROVE OpenIsLast'
  BY <1>16
<1> QED
  BY <1>1, <1>2, <1>3, <1>4, <1>5, <1>6, <1>7, <1>8, <1>9, <1>10, <1>11, <1>12, <1>13,
     <1>14, <1>15, <1>16 DEF Next, WriteStep

\* Every step preserves DiskInv.
LEMMA DiskStep == WriterFields /\ [Next]_vars => DiskInv'
<1> SUFFICES ASSUME WriterFields, [Next]_vars PROVE DiskInv'
  OBVIOUS
<1> USE WriterAssumption, SameDisk DEF WriterFields, vars, writerVars, checks, Goto, Update, ReturnError, Fail, NoCall, TypeOK, CallInv, FileInv, DiskInv
<1>1. ASSUME NEW r \in Records, WriteStart(r) PROVE DiskInv'
  BY <1>1 DEF WriteStart
<1>2. ASSUME FinishCurrent PROVE DiskInv'
  BY <1>2 DEF FinishCurrent, CloseCurrent
<1>3. ASSUME CompressRename PROVE DiskInv'
  <2>1. UNCHANGED accepted
    BY <1>3 DEF CompressRename
  <2>2. CASE UNCHANGED disk
    BY <2>1, <2>2
  <2>3. ASSUME NEW f \in Logs, Logs' = Logs \cup {Gzip(f)}, disk'[Gzip(f)] = disk[f],
               \A g \in Logs \ {Gzip(f)} : disk'[g] = disk[g]
        PROVE  DiskInv'
    BY <2>1, <2>3
  <2> QED
    BY <1>3, <2>2, <2>3, RenameCases
<1>4. ASSUME CompressRemove PROVE DiskInv'
  <2>1. UNCHANGED accepted
    BY <1>4 DEF CompressRemove
  <2> QED
    BY <1>4, <2>1, RemoveCases
<1>5. ASSUME CompressEnd PROVE DiskInv'
  BY <1>5 DEF CompressEnd
<1>6. ASSUME AvailableSegment PROVE DiskInv'
  BY <1>6 DEF AvailableSegment, Completed
<1>7. ASSUME NextIndex PROVE DiskInv'
  BY <1>7 DEF NextIndex
<1>8. ASSUME OpenSegment PROVE DiskInv'
  <2> DEFINE target == Segment(call.now, call.index)
  <2>1. UNCHANGED accepted
    BY <1>8, OpenCases
  <2>2. \/ UNCHANGED disk /\ Logs' = Logs
        \/ /\ target \notin Logs /\ Logs' = Logs \cup {target}
           /\ disk'[target] = [records |-> {}, size |-> 0]
           /\ \A g \in Logs : disk'[g] = disk[g]
    BY <1>8, OpenCases
  <2> HIDE DEF target
  <2> QED
    BY <2>1, <2>2
<1>9. ASSUME Cleanup PROVE DiskInv'
  <2>1. UNCHANGED accepted
    BY <1>9 DEF Cleanup
  <2> QED
    BY <1>9, <2>1, CleanupDisk
<1>10. ASSUME Check PROVE DiskInv'
  BY <1>10 DEF Check
<1>11. ASSUME Append PROVE DiskInv'
  <2>1. /\ file \in Logs /\ Logs' = Logs /\ \A g \in Logs \ {file} : disk'[g] = disk[g]
        /\ accepted \subseteq accepted'
    BY <1>11, AppendDisk
  <2>2. disk'[file].records \subseteq accepted' /\ (disk'[file].size = 0 => disk'[file].records = {})
    <3>1. disk[file].size \in Nat /\ disk[file].records \subseteq accepted
      BY <2>1 DEF DiskOK
    <3>2. CASE UNCHANGED disk
      BY <2>1, <3>2
    <3>3. CASE /\ disk'[file].records = disk[file].records \cup {call.record}
               /\ disk'[file].size = disk[file].size + Size[call.record]
               /\ accepted' = accepted \cup {call.record}
      <4>1. disk'[file].size # 0
        BY <1>11, <3>1, <3>3, AppendDisk
      <4> QED
        BY <3>1, <3>3, <4>1
    <3>4. ASSUME NEW part \in 0..(Size[call.record] - 1),
                 disk'[file].size = disk[file].size + part,
                 disk'[file].records = disk[file].records
          PROVE  /\ disk'[file].records \subseteq accepted'
                 /\ disk'[file].size = 0 => disk'[file].records = {}
      <4>1. Size[call.record] \in Nat
        BY <1>11, AppendDisk
      <4>2. disk'[file].size = 0 => disk[file].size = 0
        BY <3>1, <3>4, <4>1
      <4> QED
        BY <2>1, <3>1, <3>4, <4>2
    <3> QED
      BY <1>11, <3>2, <3>3, <3>4, AppendDisk
  <2> QED
    BY <2>1, <2>2
<1>12. ASSUME Close PROVE DiskInv'
  BY <1>12 DEF Close
<1>13. ASSUME Restart PROVE DiskInv'
  BY <1>13 DEF Restart, Reopen
<1>14. ASSUME Crash PROVE DiskInv'
  BY <1>14 DEF Crash, Reopen
<1>15. ASSUME Tick PROVE DiskInv'
  BY <1>15 DEF Tick
<1>16. ASSUME UNCHANGED vars PROVE DiskInv'
  BY <1>16
<1> QED
  BY <1>1, <1>2, <1>3, <1>4, <1>5, <1>6, <1>7, <1>8, <1>9, <1>10, <1>11, <1>12, <1>13,
     <1>14, <1>15, <1>16 DEF Next, WriteStep

\* Every step preserves Kept.
LEMMA KeptStep == WriterFields /\ Kept /\ [Next]_vars => Kept'
<1> SUFFICES ASSUME WriterFields, Kept, [Next]_vars PROVE Kept'
  OBVIOUS
<1> USE WriterAssumption, SameDisk DEF WriterFields, vars, writerVars, checks, Goto, Update, ReturnError, Fail, NoCall, Kept
<1>1. ASSUME NEW r \in Records, WriteStart(r) PROVE Kept'
  BY <1>1 DEF WriteStart
<1>2. ASSUME FinishCurrent PROVE Kept'
  BY <1>2 DEF FinishCurrent, CloseCurrent
<1>3. ASSUME CompressRename PROVE Kept'
  <2>1. UNCHANGED <<accepted, dropped>>
    BY <1>3 DEF CompressRename
  <2>2. CASE UNCHANGED disk
    BY <2>1, <2>2
  <2>3. ASSUME NEW f \in Logs, ~f.gz, Logs' = Logs \cup {Gzip(f)}, disk'[Gzip(f)] = disk[f],
               \A g \in Logs \ {Gzip(f)} : disk'[g] = disk[g]
        PROVE  Kept'
    <3> SUFFICES ASSUME NEW r \in accepted \ dropped PROVE \E g \in Logs' : r \in disk'[g].records
      BY <2>1
    <3>1. PICK g \in Logs : r \in disk[g].records
      OBVIOUS
    <3>2. CASE g = Gzip(f)
      <4>1. r \in disk[f].records
        BY <2>3, <3>1, <3>2 DEF CompressInv
      <4> QED
        BY <2>3, <4>1
    <3>3. CASE g # Gzip(f)
      BY <2>3, <3>1, <3>3
    <3> QED
      BY <3>2, <3>3
  <2> QED
    BY <1>3, <2>2, <2>3, RenameCases
<1>4. ASSUME CompressRemove PROVE Kept'
  <2>1. UNCHANGED <<accepted, dropped>> /\ pc = "remove"
    BY <1>4 DEF CompressRemove
  <2>2. CASE UNCHANGED disk
    BY <2>1, <2>2
  <2>3. CASE Logs' = Logs \ {call.source} /\ \A g \in Logs' : disk'[g] = disk[g]
    <3>1. /\ call.source \in Logs /\ Gzip(call.source) \in Logs /\ Gzip(call.source) # call.source
          /\ disk[Gzip(call.source)] = disk[call.source]
      <4>1. /\ call.source \in Logs /\ Gzip(call.source) \in Logs /\ ~call.source.gz
            /\ disk[Gzip(call.source)] = disk[call.source]
        BY <2>1 DEF CompressInv
      <4>2. call.source \in Files
        BY <4>1 DEF TypeOK, DiskOK
      <4>3. Gzip(call.source) # call.source
        BY <4>1, <4>2, GzipIs
      <4> QED
        BY <4>1, <4>3
    <3> SUFFICES ASSUME NEW r \in accepted \ dropped PROVE \E g \in Logs' : r \in disk'[g].records
      BY <2>1
    <3>2. PICK g \in Logs : r \in disk[g].records
      OBVIOUS
    <3>3. CASE g = call.source
      BY <2>3, <3>1, <3>2, <3>3
    <3>4. CASE g # call.source
      BY <2>3, <3>2, <3>4
    <3> QED
      BY <3>3, <3>4
  <2> QED
    BY <1>4, <2>2, <2>3, RemoveCases
<1>5. ASSUME CompressEnd PROVE Kept'
  BY <1>5 DEF CompressEnd
<1>6. ASSUME AvailableSegment PROVE Kept'
  BY <1>6 DEF AvailableSegment, Completed
<1>7. ASSUME NextIndex PROVE Kept'
  BY <1>7 DEF NextIndex
<1>8. ASSUME OpenSegment PROVE Kept'
  <2> DEFINE target == Segment(call.now, call.index)
  <2>1. UNCHANGED <<accepted, dropped>>
    BY <1>8, OpenCases
  <2>2. Logs \subseteq Logs' /\ \A g \in Logs : disk'[g] = disk[g]
    BY <1>8, OpenCases
  <2> QED
    BY <2>1, <2>2
<1>9. ASSUME Cleanup PROVE Kept'
  <2>1. UNCHANGED accepted
    BY <1>9 DEF Cleanup
  <2>2. PICK removed \in SUBSET (Logs \ {file}) :
          /\ Logs' = Logs \ removed /\ \A g \in Logs' : disk'[g] = disk[g]
          /\ dropped' = dropped \cup UNION {disk[f].records : f \in removed}
    BY <1>9, CleanupDisk
  <2>3. ASSUME NEW r \in accepted', r \notin dropped' PROVE \E g \in Logs' : r \in disk'[g].records
    <3>1. r \in accepted \ dropped
      BY <2>1, <2>2, <2>3
    <3>2. PICK g \in Logs : r \in disk[g].records
      BY <3>1
    <3>3. g \notin removed
      BY <2>2, <2>3, <3>2
    <3> QED
      BY <2>2, <3>2, <3>3
  <2> QED
    BY <2>3
<1>10. ASSUME Check PROVE Kept'
  BY <1>10 DEF Check
<1>11. ASSUME Append PROVE Kept'
  <2>1. /\ file \in Logs /\ Logs' = Logs /\ \A g \in Logs \ {file} : disk'[g] = disk[g]
        /\ disk[file].records \subseteq disk'[file].records
        /\ accepted' \ accepted \subseteq disk'[file].records
    BY <1>11, AppendDisk
  <2>2. UNCHANGED dropped
    BY <1>11 DEF Append
  <2>3. ASSUME NEW r \in accepted', r \notin dropped PROVE \E g \in Logs : r \in disk'[g].records
    <3>1. CASE r \in accepted
      <4>1. PICK g \in Logs : r \in disk[g].records
        BY <2>3, <3>1
      <4> QED
        BY <2>1, <4>1
    <3>2. CASE r \notin accepted
      BY <2>1, <2>3, <3>2
    <3> QED
      BY <3>1, <3>2
  <2> QED
    BY <2>1, <2>2, <2>3
<1>12. ASSUME Close PROVE Kept'
  BY <1>12 DEF Close
<1>13. ASSUME Restart PROVE Kept'
  BY <1>13 DEF Restart, Reopen
<1>14. ASSUME Crash PROVE Kept'
  BY <1>14 DEF Crash, Reopen
<1>15. ASSUME Tick PROVE Kept'
  BY <1>15 DEF Tick
<1>16. ASSUME UNCHANGED vars PROVE Kept'
  BY <1>16
<1> QED
  BY <1>1, <1>2, <1>3, <1>4, <1>5, <1>6, <1>7, <1>8, <1>9, <1>10, <1>11, <1>12, <1>13,
     <1>14, <1>15, <1>16 DEF Next, WriteStep

\* Every step preserves NoDuplicates.
LEMMA DuplicatesStep == WriterFields /\ NoDuplicates /\ [Next]_vars => NoDuplicates'
<1> SUFFICES ASSUME WriterFields, NoDuplicates, [Next]_vars PROVE NoDuplicates'
  OBVIOUS
<1> USE WriterAssumption, SameDisk DEF WriterFields, vars, writerVars, checks, Goto, Update, ReturnError, Fail, NoCall, TypeOK, FileInv, NoDuplicates
<1>1. ASSUME NEW r \in Records, WriteStart(r) PROVE NoDuplicates'
  BY <1>1 DEF WriteStart
<1>2. ASSUME FinishCurrent PROVE NoDuplicates'
  <2>1. UNCHANGED disk /\ pc # "remove" /\ pc' # "remove"
    BY <1>2, FinishCases
  <2>2. faults' = faults \/ faults' = faults + 1
    BY <1>2, FinishCases
  <2>3. faults \in Nat
    BY DEF TypeOK
  <2>4. faults' = 0 => faults = 0
    BY <2>2, <2>3
  <2> QED
    BY <2>1, <2>4
<1>3. ASSUME CompressRename PROVE NoDuplicates'
  <2>1. CASE faults' = faults + 1
    BY <2>1
  <2>2. ASSUME NEW f \in Logs, f \in Files, ~f.gz, Logs' = Logs \cup {Gzip(f)}, disk'[Gzip(f)] = disk[f],
               \A g \in Logs \ {Gzip(f)} : disk'[g] = disk[g],
               call'.source = f, pc = "compress", pc' = "remove", UNCHANGED faults
        PROVE  NoDuplicates'
    <3> SUFFICES ASSUME faults = 0, NEW g \in Logs' \ {f}, NEW h \in Logs' \ {f}, g # h
                 PROVE  disk'[g].records \cap disk'[h].records = {}
      BY <2>2
    <3>1. \A k \in Logs : k # f => disk[k].records \cap disk[f].records = {}
      BY <2>2
    <3>2. CASE g = Gzip(f)
      BY <2>2, <3>1, <3>2
    <3>3. CASE h = Gzip(f)
      BY <2>2, <3>1, <3>3
    <3>4. CASE g # Gzip(f) /\ h # Gzip(f)
      BY <2>2, <3>4
    <3> QED
      BY <3>2, <3>3, <3>4
  <2>3. ASSUME NEW f \in call.todo, call' = [call EXCEPT !.source = f, !.todo = call.todo \ {f}]
        PROVE  call'.source = f
    BY <2>3
  <2> QED
    BY <1>3, <2>1, <2>2, <2>3, RenameCases
<1>4. ASSUME CompressRemove PROVE NoDuplicates'
  <2>1. CASE faults' = faults + 1
    BY <2>1
  <2>2. CASE /\ Logs' = Logs \ {call.source} /\ \A g \in Logs' : disk'[g] = disk[g]
             /\ pc = "remove" /\ pc' = "compress" /\ UNCHANGED faults
    BY <2>2
  <2> QED
    BY <1>4, <2>1, <2>2, RemoveCases
<1>5. ASSUME CompressEnd PROVE NoDuplicates'
  BY <1>5 DEF CompressEnd
<1>6. ASSUME AvailableSegment PROVE NoDuplicates'
  BY <1>6 DEF AvailableSegment, Completed
<1>7. ASSUME NextIndex PROVE NoDuplicates'
  BY <1>7 DEF NextIndex
<1>8. ASSUME OpenSegment PROVE NoDuplicates'
  <2> DEFINE target == Segment(call.now, call.index)
  <2>1. pc = "open" /\ pc' # "remove" /\ (faults' = 0 => faults = 0)
    BY <1>8, OpenCases
  <2>2. \/ UNCHANGED disk /\ Logs' = Logs
        \/ /\ target \notin Logs /\ Logs' = Logs \cup {target}
           /\ disk'[target].records = {} /\ \A g \in Logs : disk'[g] = disk[g]
    BY <1>8, OpenCases
  <2> HIDE DEF target
  <2> QED
    BY <2>1, <2>2
<1>9. ASSUME Cleanup PROVE NoDuplicates'
  <2>1. pc = "cleanup" /\ pc' = call.opened
    BY <1>9 DEF Cleanup
  <2>2. pc # "remove" /\ pc' # "remove"
    BY <2>1 DEF CallInv
  <2>3. Logs' \subseteq Logs /\ \A g \in Logs' : disk'[g] = disk[g]
    BY <1>9, CleanupDisk
  <2>4. faults' = faults \/ faults' = faults + 1
    BY <1>9 DEF Cleanup
  <2>5. faults \in Nat
    BY DEF TypeOK
  <2>6. faults' = 0 => faults = 0
    BY <2>4, <2>5
  <2> QED
    BY <2>2, <2>3, <2>6
<1>10. ASSUME Check PROVE NoDuplicates'
  BY <1>10 DEF Check
<1>11. ASSUME Append PROVE NoDuplicates'
  <2>1. pc = "append" /\ pc' # "remove" /\ (faults' = 0 => faults = 0)
    BY <1>11, AppendCases
  <2>2. /\ file \in Logs /\ Logs' = Logs /\ \A g \in Logs \ {file} : disk'[g] = disk[g]
        /\ disk'[file].records \subseteq disk[file].records \cup {call.record}
        /\ call.record \notin accepted
    BY <1>11, AppendDisk
  <2>3. \A g \in Logs : call.record \notin disk[g].records
    BY <2>2 DEF DiskInv
  <2> SUFFICES ASSUME faults = 0, NEW g \in Logs, NEW h \in Logs, g # h
               PROVE  disk'[g].records \cap disk'[h].records = {}
    BY <2>1, <2>2
  <2>4. disk[g].records \cap disk[h].records = {}
    BY <2>1
  <2> QED
    BY <2>2, <2>3, <2>4
<1>12. ASSUME Close PROVE NoDuplicates'
  BY <1>12 DEF Close
<1>13. ASSUME Restart PROVE NoDuplicates'
  BY <1>13 DEF Restart, Reopen
<1>14. ASSUME Crash PROVE NoDuplicates'
  <2>1. faults' = faults + 1
    BY <1>14 DEF Crash
  <2> QED
    BY <2>1
<1>15. ASSUME Tick PROVE NoDuplicates'
  BY <1>15 DEF Tick
<1>16. ASSUME UNCHANGED vars PROVE NoDuplicates'
  BY <1>16
<1> QED
  BY <1>1, <1>2, <1>3, <1>4, <1>5, <1>6, <1>7, <1>8, <1>9, <1>10, <1>11, <1>12, <1>13,
     <1>14, <1>15, <1>16 DEF Next, WriteStep

\* Every step preserves SegmentsBounded: only an empty segment takes an entry that does not fit.
LEMMA BoundedStep == WriterFields /\ SegmentsBounded /\ [Next]_vars => SegmentsBounded'
<1> SUFFICES ASSUME WriterFields, SegmentsBounded, [Next]_vars PROVE SegmentsBounded'
  OBVIOUS
<1> USE WriterAssumption, SameDisk DEF WriterFields, vars, writerVars, checks, Goto, Update, ReturnError, Fail, NoCall, SegmentsBounded
<1>1. ASSUME NEW r \in Records, WriteStart(r) PROVE SegmentsBounded'
  BY <1>1 DEF WriteStart
<1>2. ASSUME FinishCurrent PROVE SegmentsBounded'
  BY <1>2 DEF FinishCurrent, CloseCurrent
<1>3. ASSUME CompressRename PROVE SegmentsBounded'
  <2>1. CASE UNCHANGED disk
    BY <2>1
  <2>2. ASSUME NEW f \in Logs, Logs' = Logs \cup {Gzip(f)}, disk'[Gzip(f)] = disk[f],
               \A g \in Logs \ {Gzip(f)} : disk'[g] = disk[g]
        PROVE  SegmentsBounded'
    BY <2>2
  <2> QED
    BY <1>3, <2>1, <2>2, RenameCases
<1>4. ASSUME CompressRemove PROVE SegmentsBounded'
  <2>1. Logs' \subseteq Logs /\ \A g \in Logs' : disk'[g] = disk[g]
    BY <1>4, RemoveCases
  <2> QED
    BY <2>1
<1>5. ASSUME CompressEnd PROVE SegmentsBounded'
  BY <1>5 DEF CompressEnd
<1>6. ASSUME AvailableSegment PROVE SegmentsBounded'
  BY <1>6 DEF AvailableSegment, Completed
<1>7. ASSUME NextIndex PROVE SegmentsBounded'
  BY <1>7 DEF NextIndex
<1>8. ASSUME OpenSegment PROVE SegmentsBounded'
  <2> DEFINE target == Segment(call.now, call.index)
  <2>1. \/ UNCHANGED disk /\ Logs' = Logs
        \/ /\ target \notin Logs /\ Logs' = Logs \cup {target}
           /\ disk'[target].size = 0 /\ \A g \in Logs : disk'[g] = disk[g]
    BY <1>8, OpenCases
  <2>2. ~(0 > MaxSize)
    OBVIOUS
  <2> HIDE DEF target
  <2> QED
    BY <2>1, <2>2
<1>9. ASSUME Cleanup PROVE SegmentsBounded'
  <2>1. Logs' \subseteq Logs /\ \A g \in Logs' : disk'[g] = disk[g]
    BY <1>9, CleanupDisk
  <2> QED
    BY <2>1
<1>10. ASSUME Check PROVE SegmentsBounded'
  BY <1>10 DEF Check
<1>11. ASSUME Append PROVE SegmentsBounded'
  <2>1. /\ file \in Logs /\ Logs' = Logs /\ \A g \in Logs \ {file} : disk'[g] = disk[g]
        /\ Size[call.record] \in Nat
    BY <1>11, AppendDisk
  <2>2. /\ currentSize = disk[file].size /\ currentSize \in Nat
        /\ currentSize = 0 \/ currentSize + Size[call.record] <= MaxSize
    <3>1. pc = "append"
      BY <1>11, AppendCases
    <3>2. file # NoFile /\ (currentSize = 0 \/ currentSize + Size[call.record] <= MaxSize)
      BY <3>1 DEF FileInv
    <3>3. currentSize = disk[file].size
      BY <3>2 DEF SizeTracked
    <3>4. currentSize \in Nat
      BY DEF TypeOK
    <3> QED
      BY <3>2, <3>3, <3>4
  <2>3. disk'[file].size > MaxSize => Cardinality(disk'[file].records) <= 1
    <3>1. CASE UNCHANGED disk
      BY <2>1, <3>1
    <3>2. CASE ~UNCHANGED disk /\ currentSize = 0
      <4>1. disk[file].records = {}
        BY <2>1, <2>2, <3>2 DEF DiskInv
      <4>2. disk'[file].records \in {{}, {call.record}}
        <5>1. \/ disk'[file].records = disk[file].records \cup {call.record}
              \/ disk'[file].records = disk[file].records
          BY <1>11, <3>2, AppendDisk
        <5> QED
          BY <4>1, <5>1
      <4>3. CASE disk'[file].records = {}
        <5>1. Cardinality({}) = 0
          BY FS_EmptySet
        <5> QED
          BY <4>3, <5>1
      <4>4. CASE disk'[file].records = {call.record}
        <5>1. Cardinality({call.record}) = 1
          BY FS_Singleton
        <5> QED
          BY <4>4, <5>1
      <4> QED
        BY <4>2, <4>3, <4>4
    <3>3. CASE ~UNCHANGED disk /\ currentSize # 0
      <4>1. \/ disk'[file].size = disk[file].size + Size[call.record]
            \/ \E part \in 0..(Size[call.record] - 1) : disk'[file].size = disk[file].size + part
        BY <1>11, <3>3, AppendDisk
      <4>2. disk'[file].size <= MaxSize
        BY <2>1, <2>2, <3>3, <4>1
      <4>3. disk'[file].size \in Int
        BY <2>1, <2>2, <4>1
      <4> QED
        BY <4>2, <4>3
    <3> QED
      BY <3>1, <3>2, <3>3
  <2> QED
    BY <2>1, <2>3
<1>12. ASSUME Close PROVE SegmentsBounded'
  BY <1>12 DEF Close
<1>13. ASSUME Restart PROVE SegmentsBounded'
  BY <1>13 DEF Restart, Reopen
<1>14. ASSUME Crash PROVE SegmentsBounded'
  BY <1>14 DEF Crash, Reopen
<1>15. ASSUME Tick PROVE SegmentsBounded'
  BY <1>15 DEF Tick
<1>16. ASSUME UNCHANGED vars PROVE SegmentsBounded'
  BY <1>16
<1> QED
  BY <1>1, <1>2, <1>3, <1>4, <1>5, <1>6, <1>7, <1>8, <1>9, <1>10, <1>11, <1>12, <1>13,
     <1>14, <1>15, <1>16 DEF Next, WriteStep

\* Every step preserves RetentionHolds.
LEMMA RetentionStep == WriterFields /\ RetentionHolds /\ [Next]_vars => RetentionHolds'
<1> SUFFICES ASSUME WriterFields, RetentionHolds, [Next]_vars PROVE RetentionHolds'
  OBVIOUS
<1> USE WriterAssumption, SameDisk DEF WriterFields, vars, writerVars, checks, Goto, Update, ReturnError, Fail, NoCall, FileInv, RetentionHolds,
       FewBackups, NoneExpired
<1>1. ASSUME NEW r \in Records, WriteStart(r) PROVE RetentionHolds'
  BY <1>1 DEF WriteStart
<1>2. ASSUME FinishCurrent PROVE RetentionHolds'
  <2>1. /\ UNCHANGED <<disk, currentDate, checks>> /\ pc # "cleanup"
        /\ (file' = NoFile \/ UNCHANGED file)
    BY <1>2, FinishCases
  <2> QED
    BY <2>1
<1>3. ASSUME CompressRename PROVE RetentionHolds'
  BY <1>3 DEF CompressRename
<1>4. ASSUME CompressRemove PROVE RetentionHolds'
  BY <1>4 DEF CompressRemove
<1>5. ASSUME CompressEnd PROVE RetentionHolds'
  BY <1>5 DEF CompressEnd
<1>6. ASSUME AvailableSegment PROVE RetentionHolds'
  BY <1>6 DEF AvailableSegment, Completed
<1>7. ASSUME NextIndex PROVE RetentionHolds'
  BY <1>7 DEF NextIndex
<1>8. ASSUME OpenSegment PROVE RetentionHolds'
  <2>1. pc' = "cleanup" \/ (file = NoFile /\ UNCHANGED file)
    BY <1>8, OpenCases
  <2> QED
    BY <2>1
<1>9. ASSUME Cleanup PROVE RetentionHolds'
  <2>1. (clean' \/ maintenanceErr') /\ UNCHANGED <<file, currentDate>> /\ currentDate = call.now
    BY <1>9 DEF Cleanup
  <2> SUFFICES ASSUME clean' PROVE FewBackups' /\ NoneExpired'
    BY <2>1
  <2>2. PICK excess \in Excess((Logs \ {file}) \ Expired) :
               disk' = Without(Expired \cup excess)
    BY <1>9 DEF Cleanup
  <2>3. DOMAIN Without(Expired \cup excess) = Logs \ (Expired \cup excess)
    BY WithoutIs
  <2>4. Logs' \ {file} = ((Logs \ {file}) \ Expired) \ excess
    BY <2>2, <2>3 DEF Logs
  <2>5. FewBackups'
    BY <2>1, <2>4, ExcessIsOld
  <2>6. NoneExpired'
    <3> SUFFICES ASSUME MaxAge > 0, NEW f \in Logs' \ {file}
                 PROVE  f.date >= call.now - MaxAge
      BY <2>1
    <3>1. f \in Logs \ {file} /\ f \notin Expired
      BY <2>4
    <3>2. f.date \in Int /\ call.now \in Int
      BY <3>1, <2>1 DEF TypeOK, DiskOK, Files
    <3> QED
      BY <3>1, <3>2 DEF Expired
  <2> QED
    BY <2>5, <2>6
<1>10. ASSUME Check PROVE RetentionHolds'
  BY <1>10 DEF Check
<1>11. ASSUME Append PROVE RetentionHolds'
  <2>1. UNCHANGED <<file, currentDate, checks>> /\ pc = "append" /\ Logs' = Logs
    BY <1>11, AppendCases, AppendDisk
  <2> QED
    BY <2>1
<1>12. ASSUME Close PROVE RetentionHolds'
  BY <1>12 DEF Close
<1>13. ASSUME Restart PROVE RetentionHolds'
  BY <1>13 DEF Restart, Reopen
<1>14. ASSUME Crash PROVE RetentionHolds'
  BY <1>14 DEF Crash, Reopen
<1>15. ASSUME Tick PROVE RetentionHolds'
  BY <1>15 DEF Tick
<1>16. ASSUME UNCHANGED vars PROVE RetentionHolds'
  BY <1>16
<1> QED
  BY <1>1, <1>2, <1>3, <1>4, <1>5, <1>6, <1>7, <1>8, <1>9, <1>10, <1>11, <1>12, <1>13,
     <1>14, <1>15, <1>16 DEF Next, WriteStep

\* No step takes records from a file that stays.
LEMMA ShrinksStep == WriterFields /\ [Next]_vars => NothingShrinks
<1> SUFFICES ASSUME WriterFields, [Next]_vars PROVE NothingShrinks
  OBVIOUS
<1> USE WriterAssumption, SameDisk DEF WriterFields, vars, writerVars, checks, Goto, Update, ReturnError, Fail, NoCall, NothingShrinks
<1>1. ASSUME NEW r \in Records, WriteStart(r) PROVE NothingShrinks
  BY <1>1 DEF WriteStart
<1>2. ASSUME FinishCurrent PROVE NothingShrinks
  BY <1>2 DEF FinishCurrent, CloseCurrent
<1>3. ASSUME CompressRename PROVE NothingShrinks
  <2>1. CASE UNCHANGED disk
    BY <2>1
  <2>2. ASSUME NEW f \in Logs, ~f.gz, Logs' = Logs \cup {Gzip(f)}, disk'[Gzip(f)] = disk[f],
               \A g \in Logs \ {Gzip(f)} : disk'[g] = disk[g]
        PROVE  NothingShrinks
    BY <2>2 DEF CompressInv
  <2> QED
    BY <1>3, <2>1, <2>2, RenameCases
<1>4. ASSUME CompressRemove PROVE NothingShrinks
  <2>1. Logs' \subseteq Logs /\ \A g \in Logs' : disk'[g] = disk[g]
    BY <1>4, RemoveCases
  <2> QED
    BY <2>1
<1>5. ASSUME CompressEnd PROVE NothingShrinks
  BY <1>5 DEF CompressEnd
<1>6. ASSUME AvailableSegment PROVE NothingShrinks
  BY <1>6 DEF AvailableSegment, Completed
<1>7. ASSUME NextIndex PROVE NothingShrinks
  BY <1>7 DEF NextIndex
<1>8. ASSUME OpenSegment PROVE NothingShrinks
  <2> DEFINE target == Segment(call.now, call.index)
  <2>1. \A g \in Logs : disk'[g] = disk[g]
    BY <1>8, OpenCases
  <2> QED
    BY <2>1
<1>9. ASSUME Cleanup PROVE NothingShrinks
  <2>1. Logs' \subseteq Logs /\ \A g \in Logs' : disk'[g] = disk[g]
    BY <1>9, CleanupDisk
  <2> QED
    BY <2>1
<1>10. ASSUME Check PROVE NothingShrinks
  BY <1>10 DEF Check
<1>11. ASSUME Append PROVE NothingShrinks
  <2>1. /\ \A g \in Logs \ {file} : disk'[g] = disk[g]
        /\ disk[file].records \subseteq disk'[file].records
    BY <1>11, AppendDisk
  <2> QED
    BY <2>1
<1>12. ASSUME Close PROVE NothingShrinks
  BY <1>12 DEF Close
<1>13. ASSUME Restart PROVE NothingShrinks
  BY <1>13 DEF Restart, Reopen
<1>14. ASSUME Crash PROVE NothingShrinks
  BY <1>14 DEF Crash, Reopen
<1>15. ASSUME Tick PROVE NothingShrinks
  BY <1>15 DEF Tick
<1>16. ASSUME UNCHANGED vars PROVE NothingShrinks
  BY <1>16
<1> QED
  BY <1>1, <1>2, <1>3, <1>4, <1>5, <1>6, <1>7, <1>8, <1>9, <1>10, <1>11, <1>12, <1>13,
     <1>14, <1>15, <1>16 DEF Next, WriteStep

\* WriterFields is inductive.
LEMMA FieldsStep == WriterFields /\ [Next]_vars => WriterFields'
<1> SUFFICES ASSUME WriterFields, [Next]_vars PROVE WriterFields'
  OBVIOUS
<1>1. DiskOK'
  BY DiskTypeStep
<1> QED
  BY <1>1, TypeStep, CallStep, FileStep, TrackStep, CompressStep, TargetStep, LastStep, DiskStep
     DEF WriterFields

(***************************************************************************)
(* Theorems                                                                *)
(***************************************************************************)

\* The writer's fields and locals describe the disk, after any failure.
THEOREM FieldsInvariant == Spec => []WriterFields
<1> QED
  BY FieldsInit, FieldsStep, PTL DEF Spec

\* An accepted entry stays on disk until the retention removes it, and without failures
\* in one file (daily_writer.go:482-545).
THEOREM EntriesAreKept == Spec => []NothingLost
<1>1. Init => Kept /\ NoDuplicates
  BY DEF Init, Kept, NoDuplicates, Logs
<1>2. WriterFields /\ (Kept /\ NoDuplicates) /\ [Next]_vars => (Kept /\ NoDuplicates)'
  BY KeptStep, DuplicatesStep
<1>3. Spec => [](Kept /\ NoDuplicates)
  BY FieldsInvariant, <1>1, <1>2, PTL DEF Spec
<1>4. Kept /\ NoDuplicates => NothingLost
  BY DEF NothingLost
<1> QED
  BY <1>3, <1>4, PTL

\* A segment outgrows the limit by one entry at most (README.md:169-170).
THEOREM SegmentsAreBounded == Spec => []SegmentsBounded
<1>1. Init => SegmentsBounded
  BY DEF Init, SegmentsBounded, Logs
<1> QED
  BY FieldsInvariant, BoundedStep, <1>1, PTL DEF Spec

\* A cleanup that did not fail leaves MaxBackups finished files at most and none that has
\* expired, until the next; one that failed is told by MaintenanceError
\* (daily_writer.go:186-194,331-374).
THEOREM RetentionIsKept == Spec => []RetentionHolds
<1>1. Init => RetentionHolds
  BY DEF Init, RetentionHolds, NoneExpired, FewBackups
<1> QED
  BY FieldsInvariant, RetentionStep, <1>1, PTL DEF Spec

\* No file is replaced by one that holds less (daily_writer.go:536).
THEOREM NothingIsOverwritten == Spec => NothingOverwritten
<1>1. Spec => [][NothingShrinks]_vars
  BY FieldsInvariant, ShrinksStep, PTL DEF Spec
<1> QED
  BY <1>1 DEF NothingOverwritten
=============================================================================

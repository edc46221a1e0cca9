---------------------------- MODULE DailyWriter -----------------------------
(***************************************************************************)
(* The rotating log writer (src/logger/daily_writer.go): the segments of   *)
(* one directory and base name, written by one dailyWriter at a time.      *)
(*                                                                         *)
(* Write holds the writer's mutex from its first step to its last, so what *)
(* comes between its steps is failures of the file system and the end of   *)
(* the process, after which a new writer finds the disk as it was left.    *)
(* What the operating system has accepted survives the process.            *)
(***************************************************************************)
EXTENDS Integers, FiniteSets, FiniteSetsExt

CONSTANTS
  Records,     \* the entries given to Write; each is accepted at most once
  Size,        \* Size[r]: the bytes of r, in some unit
  MaxSize,     \* maxSizeBytes, in the same unit
  MaxBackups,  \* maxBackups; 0 is no limit
  MaxAge,      \* maxAgeDays; 0 is no limit
  Compress,    \* compress
  Days,        \* the days the clock can show
  MaxFaults,   \* bound: failures and crashes in a behaviour
  NoFile, NoRecord

\* A log file by its name: the segment and whether it is compressed.
Files == [date : Days, index : Nat, gz : BOOLEAN]

ASSUME WriterAssumption ==
  /\ Size \in [Records -> Nat \ {0}]
  /\ MaxSize \in Nat \ {0} /\ MaxBackups \in Nat /\ MaxAge \in Nat
  /\ Compress \in BOOLEAN
  /\ Days \subseteq Int /\ Days # {}
  /\ MaxFaults \in Nat
  /\ NoRecord \notin Records /\ NoFile \notin Files

VARIABLES
  disk,         \* the log files there are, each with its records and its size
  temporaries,  \* temporary files of compressions left behind
  \* fields of dailyWriter; an open file is known by its segment
  file, currentDate, currentIndex, currentSize, closed,
  broken,       \* file failed to close: os.File refuses its descriptor from then on
  maintenanceErr, \* some cleanup of this writer failed (MaintenanceError)
  \* the call in progress
  pc,           \* "ready" when the mutex is free
  call,         \* the locals of Write and of what it calls
  \* the world
  day,          \* what the clock shows; it can be set back
  faults,
  accepted,     \* records whose Write returned nil
  dropped,      \* records that were in a file removed by the retention
  clean         \* the last cleanup removed all it should have

writerVars == <<file, currentDate, currentIndex, currentSize, closed, broken>>
checks == <<maintenanceErr, clean>>
vars == <<disk, temporaries, writerVars, pc, call, day, faults, accepted, dropped, checks>>

Segment(d, i) == [date |-> d, index |-> i, gz |-> FALSE]
Gzip(f) == [f EXCEPT !.gz = TRUE]
Logs == DOMAIN disk

\* The disk with v in file f, and without the files of S.
With(f, v) == [g \in Logs \cup {f} |-> IF g = f THEN v ELSE disk[g]]
Without(S) == [g \in Logs \ S |-> disk[g]]

\* No call: the record to write, the day read, the index to open, the segments
\* still to compress, the one being compressed, what comes after, and what follows
\* once a segment is open.
NoCall == [record |-> NoRecord, now |-> 0, index |-> 0, todo |-> {},
           source |-> NoFile, next |-> "ready", opened |-> "check"]

Init ==
  /\ disk = [f \in {} |-> 0] /\ temporaries = 0
  /\ file = NoFile /\ currentDate \in Days /\ currentIndex = 0 /\ currentSize = 0
  /\ closed = FALSE /\ broken = FALSE
  /\ pc = "ready" /\ call = NoCall
  /\ day = currentDate /\ faults = 0
  /\ accepted = {} /\ dropped = {} /\ maintenanceErr = FALSE /\ clean = TRUE

Goto(place) == pc' = place /\ UNCHANGED <<call, faults>>
Update(place, locals) == pc' = place /\ call' = locals /\ UNCHANGED faults

\* Write returns an error: some operation on the file system fails now, or the
\* descriptor was already unusable.
ReturnError == pc' = "ready" /\ call' = NoCall
Fail == faults < MaxFaults /\ faults' = faults + 1 /\ ReturnError

----------------------------------------------------------------------------
(* Write, openDate and openNextSegment *)

WriteStart(r) ==
  /\ pc = "ready" /\ ~closed /\ r \notin accepted
  /\ Update(IF file = NoFile \/ currentDate # day THEN "finishDate" ELSE "check",
            [NoCall EXCEPT !.record = r, !.now = day])
  /\ UNCHANGED <<disk, temporaries, writerVars, day, accepted, dropped, checks>>

\* finishCurrent: a file that does not close stays in w.file, and fails again.
CloseCurrent(next) ==
  \/ /\ file = NoFile
     /\ Goto(next) /\ UNCHANGED writerVars
  \/ /\ file # NoFile /\ ~broken
     /\ file' = NoFile /\ currentSize' = 0
     /\ Update("compress", [call EXCEPT !.next = next,
                 !.todo = IF Compress /\ currentSize > 0 THEN {file} ELSE {}])
     /\ UNCHANGED <<currentDate, currentIndex, closed, broken>>
  \/ /\ file # NoFile /\ ~broken
     /\ Fail /\ broken' = TRUE
     /\ UNCHANGED <<file, currentDate, currentIndex, currentSize, closed>>
  \/ /\ file # NoFile /\ broken
     /\ ReturnError /\ UNCHANGED <<writerVars, faults>>

FinishCurrent ==
  /\ \/ pc = "finishDate" /\ CloseCurrent("available")
     \/ pc = "finishSize" /\ CloseCurrent("nextIndex")
  /\ UNCHANGED <<disk, temporaries, day, accepted, dropped, checks>>

\* compressLogFile up to the rename, which replaces an older .gz of the segment; a
\* failure removes the temporary file.
CompressRename ==
  /\ pc = "compress" /\ call.todo # {}
  /\ \/ \E f \in call.todo :
          /\ disk' = With(Gzip(f), disk[f])
          /\ Update("remove", [call EXCEPT !.source = f, !.todo = @ \ {f}])
     \/ Fail /\ UNCHANGED disk
  /\ UNCHANGED <<temporaries, writerVars, day, accepted, dropped, checks>>

\* Bug: the compressed segment is not removed.
BugRemove ==
  /\ pc = "remove"
  /\ Goto("compress")
  /\ UNCHANGED <<disk, temporaries, writerVars, day, accepted, dropped, checks>>

\* Chtimes and Remove.
CompressRemove ==
  /\ pc = "remove"
  /\ \/ disk' = Without({call.source}) /\ Goto("compress")
     \/ Fail /\ UNCHANGED disk
  /\ UNCHANGED <<temporaries, writerVars, day, accepted, dropped, checks>>

CompressEnd ==
  /\ pc = "compress" /\ call.todo = {}
  /\ Goto(call.next)
  /\ UNCHANGED <<disk, temporaries, writerVars, day, accepted, dropped, checks>>

\* Bug: compressed segments are not counted.
BugUncompressed(date) ==
  LET indices == {f.index : f \in {g \in Logs : g.date = date /\ ~g.gz}}
  IN  IF indices = {} THEN 0
      ELSE LET last == Max(indices)
           IN  IF disk[Segment(date, last)].size < MaxSize THEN last ELSE last + 1

\* availableSegment: the last segment of the date while it has room.
Available(date) ==
  LET indices == {f.index : f \in {g \in Logs : g.date = date}}
      last == Max(indices)
  IN  IF indices = {} THEN 0
      ELSE IF Segment(date, last) \in Logs /\ disk[Segment(date, last)].size < MaxSize
      THEN last ELSE last + 1

\* compressCompletedFiles: what it compresses, if compression is on.
Completed(active) == IF Compress THEN {f \in Logs : ~f.gz} \ {active} ELSE {}

AvailableSegment ==
  /\ pc = "available"
  /\ \/ LET index == Available(call.now)
        IN  Update("compress", [call EXCEPT !.index = index, !.next = "open",
                                !.todo = Completed(Segment(call.now, index))])
     \/ Fail
  /\ UNCHANGED <<disk, temporaries, writerVars, day, accepted, dropped, checks>>

\* openNextSegment goes on in the writer's own date; Write rotates once only.
NextIndex ==
  /\ pc = "nextIndex"
  /\ Update("open", [call EXCEPT !.index = currentIndex + 1, !.opened = "append"])
  /\ UNCHANGED <<disk, temporaries, writerVars, day, accepted, dropped, checks>>

\* Bug: the file is truncated when it is opened.
BugOpened(segment) == With(segment, [records |-> {}, size |-> 0])

\* OpenFile with O_CREATE and O_APPEND.
Opened(segment) ==
  IF segment \in Logs THEN disk ELSE With(segment, [records |-> {}, size |-> 0])

\* Stat
Stat(files, segment) == files[segment].size

\* When the size rotates a segment, currentDate is the day Write read.
OpenSegment ==
  /\ pc = "open"
  /\ LET segment == Segment(call.now, call.index)
         opened == Opened(segment)
     IN  \/ /\ disk' = opened
            /\ file' = segment /\ currentDate' = call.now /\ currentIndex' = call.index
            /\ currentSize' = Stat(opened, segment)
            /\ Goto("cleanup") /\ UNCHANGED <<closed, broken>>
         \/ /\ disk' \in {disk, opened} \* OpenFile or Stat fails
            /\ Fail /\ UNCHANGED writerVars
  /\ UNCHANGED <<temporaries, day, accepted, dropped, checks>>

\* cleanup: the expired files go, then all but the newest MaxBackups of the others;
\* sort.Slice may leave the .log and the .gz of a segment in either order.  What it
\* cannot list or remove it leaves, and Write goes on: recordMaintenanceError keeps that
\* it failed.
Newer(f, g) == f.date > g.date \/ (f.date = g.date /\ f.index > g.index)
Expired == {f \in Logs \ {file} : MaxAge > 0 /\ f.date < call.now - MaxAge}

\* Bug: one backup too many is kept.
BugExcess(S) ==
  IF MaxBackups = 0 \/ Cardinality(S) <= MaxBackups + 1 THEN {{}}
  ELSE {S \ K : K \in {L \in kSubset(MaxBackups + 1, S) :
                         \A k \in L, f \in S \ L : ~Newer(f, k)}}

Excess(S) ==
  IF MaxBackups = 0 \/ Cardinality(S) <= MaxBackups THEN {{}}
  ELSE {S \ K : K \in {L \in kSubset(MaxBackups, S) :
                         \A k \in L, f \in S \ L : ~Newer(f, k)}}

Cleanup ==
  /\ pc = "cleanup"
  /\ \E excess \in Excess((Logs \ {file}) \ Expired), failed \in BOOLEAN :
       LET doomed == Expired \cup excess
       IN  \E removed \in SUBSET doomed :
             /\ IF failed THEN faults < MaxFaults /\ (removed # doomed \/ doomed = {})
                          ELSE removed = doomed
             /\ faults' = IF failed THEN faults + 1 ELSE faults
             /\ maintenanceErr' = (maintenanceErr \/ failed) /\ clean' = ~failed
             /\ disk' = Without(removed)
             /\ dropped' = dropped \cup UNION {disk[f].records : f \in removed}
  /\ pc' = call.opened /\ UNCHANGED call
  /\ UNCHANGED <<temporaries, writerVars, day, accepted>>

\* Bug: the segment grows past the limit before it is replaced.
BugCheck ==
  /\ pc = "check"
  /\ Goto(IF currentSize > MaxSize THEN "finishSize" ELSE "append")
  /\ UNCHANGED <<disk, temporaries, writerVars, day, accepted, dropped, checks>>

\* Back in Write: an entry that does not fit goes to a new segment, unless this one is
\* empty.
Check ==
  /\ pc = "check"
  /\ Goto(IF currentSize > 0 /\ currentSize + Size[call.record] > MaxSize
          THEN "finishSize" ELSE "append")
  /\ UNCHANGED <<disk, temporaries, writerVars, day, accepted, dropped, checks>>

\* A write that fails may have written a part of the entry.
Append ==
  /\ pc = "append"
  /\ \/ /\ ~broken
        /\ disk' = With(file, [records |-> disk[file].records \cup {call.record},
                               size |-> disk[file].size + Size[call.record]])
        /\ currentSize' = currentSize + Size[call.record]
        /\ accepted' = accepted \cup {call.record}
        /\ Update("ready", NoCall)
     \/ \E part \in 0..(Size[call.record] - 1) :
          /\ ~broken
          /\ disk' = With(file, [disk[file] EXCEPT !.size = @ + part])
          /\ currentSize' = currentSize + part
          /\ Fail /\ UNCHANGED accepted
     \/ /\ broken
        /\ ReturnError /\ UNCHANGED <<disk, currentSize, accepted, faults>>
  /\ UNCHANGED <<temporaries, file, currentDate, currentIndex, closed, broken, day, dropped, checks>>

WriteStep ==
  \/ FinishCurrent \/ CompressRename \/ CompressRemove \/ CompressEnd \/ AvailableSegment
  \/ NextIndex \/ OpenSegment \/ Cleanup \/ Check \/ Append

----------------------------------------------------------------------------
(* Close, the process and the clock *)

\* Close drops the file whatever Sync and Close return.
Close ==
  /\ pc = "ready" /\ ~closed
  /\ closed' = TRUE
  /\ file' = NoFile
  /\ currentSize' = IF file = NoFile THEN currentSize ELSE 0
  /\ UNCHANGED <<disk, temporaries, currentDate, currentIndex, broken, pc, call, day, faults,
                 accepted, dropped, checks>>

\* A new writer on the files of a closed one.
Reopen ==
  /\ closed' = FALSE /\ broken' = FALSE /\ file' = NoFile /\ currentSize' = 0
  /\ currentIndex' = 0 /\ maintenanceErr' = FALSE
  /\ UNCHANGED <<disk, currentDate, day, accepted, dropped, clean>>

Restart == closed /\ Reopen /\ UNCHANGED <<temporaries, pc, call, faults>>

\* The process ends anywhere; the temporary file of a compression stays.
Crash ==
  /\ Fail
  /\ temporaries' = IF pc = "compress" /\ call.todo # {} THEN temporaries + 1 ELSE temporaries
  /\ Reopen

Tick ==
  /\ pc = "ready"
  /\ day' \in Days \ {day}
  /\ UNCHANGED <<disk, temporaries, writerVars, pc, call, faults, accepted, dropped, checks>>

Next == (\E r \in Records : WriteStart(r)) \/ WriteStep \/ Close \/ Restart \/ Crash \/ Tick

Spec == Init /\ [][Next]_vars

----------------------------------------------------------------------------
DiskOK ==
  /\ Logs \subseteq Files /\ IsFiniteSet(Logs)
  /\ \A f \in Logs : disk[f] \in [records : SUBSET Records, size : Nat]

TypeOK ==
  /\ DiskOK
  /\ faults \in 0..MaxFaults /\ temporaries \in 0..faults
  /\ file \in Files \cup {NoFile} /\ currentDate \in Days
  /\ currentIndex \in Nat /\ currentSize \in Nat
  /\ closed \in BOOLEAN /\ broken \in BOOLEAN
  /\ maintenanceErr \in BOOLEAN /\ clean \in BOOLEAN
  /\ pc \in {"ready", "finishDate", "finishSize", "compress", "remove", "available",
             "nextIndex", "open", "cleanup", "check", "append"}
  /\ day \in Days
  /\ accepted \subseteq Records /\ dropped \subseteq Records

\* A rotation never replaces a file by one that holds less.
NothingShrinks == \A f \in Logs : f \in Logs' => disk[f].records \subseteq disk'[f].records
NothingOverwritten == [][NothingShrinks]_vars

\* A segment is no bigger than the limit, except for one entry that is
\* (README.md:169-170).
SegmentsBounded ==
  \A f \in Logs : disk[f].size > MaxSize => Cardinality(disk[f].records) <= 1

\* The size that decides the next rotation is the size of the open file.
SizeTracked == file # NoFile => file \in Logs /\ currentSize = disk[file].size

\* The open segment is the last of its date: a date's entries are in index order.
OpenIsLast ==
  file # NoFile => \A f \in Logs : f.date = file.date => f.index <= file.index

\* The locals of the call in progress.
CallInv ==
  /\ call \in [record : Records \cup {NoRecord}, now : Int, index : Nat, todo : SUBSET Files,
               source : Files \cup {NoFile}, next : {"ready", "available", "nextIndex", "open"},
               opened : {"check", "append"}]
  /\ pc # "ready" => call.record \in Records \ accepted /\ call.now \in Days
  /\ pc \in {"compress", "remove"} => call.next \in {"available", "nextIndex", "open"}
  /\ call.opened = "append" => pc \in {"open", "cleanup", "append"}

\* Which segment is open at each step, and that it has room for the record before that
\* is appended.
FileInv ==
  /\ file # NoFile => file = Segment(currentDate, currentIndex)
  /\ closed => file = NoFile /\ pc = "ready"
  /\ pc \in {"compress", "remove", "available", "nextIndex", "open"} => file = NoFile
  /\ pc \in {"cleanup", "check", "append", "finishSize"} =>
       file # NoFile /\ currentDate = call.now
  /\ pc = "cleanup" /\ call.opened = "append" => currentSize = 0
  /\ pc = "append" => currentSize = 0 \/ currentSize + Size[call.record] <= MaxSize

\* The segments to compress are there and not compressed; an older .gz holds no more
\* than its segment, and the .gz just made holds the same.
CompressInv ==
  /\ \A f \in Logs :
       ~f.gz /\ Gzip(f) \in Logs => disk[Gzip(f)].records \subseteq disk[f].records
  /\ pc \in {"compress", "remove"} => call.todo \subseteq {f \in Logs : ~f.gz}
  /\ pc = "remove" =>
       /\ {call.source, Gzip(call.source)} \subseteq Logs /\ ~call.source.gz
       /\ call.source \notin call.todo
       /\ disk[Gzip(call.source)] = disk[call.source]

AtOrBefore(place) == pc = place \/ (pc \in {"compress", "remove"} /\ call.next = place)
NoneAfter(date, index) == \A f \in Logs : f.date = date => f.index <= index
NoneFrom(date, index) == \A f \in Logs : f.date = date => f.index < index

\* The segment to be opened is the last of its date, or a new one after it, whatever is
\* compressed in between.
TargetInv ==
  LET target == Segment(call.now, call.index) IN
  /\ AtOrBefore("open") =>
       /\ NoneAfter(call.now, call.index)
       /\ target \in Logs \/ NoneFrom(call.now, call.index)
  /\ pc \in {"compress", "remove"} /\ call.next = "open" => target \notin call.todo
  /\ pc = "remove" /\ call.next = "open" => target # call.source
  /\ pc = "open" /\ call.opened = "append" => NoneFrom(call.now, call.index)
  /\ AtOrBefore("nextIndex") => currentDate = call.now /\ NoneAfter(currentDate, currentIndex)

\* What the files hold was accepted, and a file that holds something has a size.
DiskInv ==
  \A f \in Logs :
    disk[f].records \subseteq accepted /\ (disk[f].size = 0 => disk[f].records = {})

\* The writer's fields, and the locals of its call, describe the disk, after any
\* failure.
WriterFields ==
  TypeOK /\ SizeTracked /\ OpenIsLast /\ CallInv /\ FileInv /\ CompressInv /\ TargetInv
    /\ DiskInv

\* What the retention allows beside the open file, whose date is the day of the last
\* cleanup.
FewBackups == MaxBackups > 0 => Cardinality(Logs \ {file}) <= MaxBackups
NoneExpired == MaxAge > 0 => \A f \in Logs \ {file} : f.date >= currentDate - MaxAge

\* While a file is open there are no finished files too many or too old, unless the last
\* cleanup failed; then MaintenanceError tells, for Write did not (190-192, README.md:180).
RetentionHolds ==
  file # NoFile /\ pc # "cleanup" =>
    IF clean THEN FewBackups /\ NoneExpired ELSE maintenanceErr

\* Without failures an entry is in one file, compressed or not, or in none; a segment
\* being compressed is about to go.
NoDuplicates ==
  faults = 0 =>
    \A f, g \in Logs \ (IF pc = "remove" THEN {call.source} ELSE {}) :
      f # g => disk[f].records \cap disk[g].records = {}

\* An entry whose Write returned nil stays in some file until the retention removes
\* a file that holds it.
Kept == \A r \in accepted \ dropped : \E f \in Logs : r \in disk[f].records

\* That is so through failed compressions, failed removals and crashes; without
\* failures the entry is in no other file.
NothingLost == Kept /\ NoDuplicates
=============================================================================

--------------------------- MODULE MCDailyWriter ----------------------------
(* DailyWriter on small instances. *)
EXTENDS DailyWriter

\* Two small entries and one bigger than a segment of two units.
ThreeRecords == 1..3
MixedSizes == [r \in ThreeRecords |-> IF r = 3 THEN 3 ELSE 1]
ThreeDays == 0..2
=============================================================================

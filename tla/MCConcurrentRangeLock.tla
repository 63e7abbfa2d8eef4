----------------------- MODULE MCConcurrentRangeLock -----------------------
(***************************************************************************)
(* Instances of ConcurrentRangeLock for TLC.                               *)
(***************************************************************************)
EXTENDS ConcurrentRangeLock, TLC

R(s, e) == [start |-> s, end |-> e]

(***************************************************************************)
(* Two ranges that meet in one key, and one that overlaps neither.         *)
(***************************************************************************)
MeetingRanges == {R(1, 2), R(2, 3)}
ThreeRanges == MeetingRanges \cup {R(4, 5)}

(***************************************************************************)
(* A range that begins at the lowest key of its type, and a range of one   *)
(* key.                                                                    *)
(***************************************************************************)
LowestKey == {R(0, 2), R(4, 5)}
SingleKey == {R(1, 1), R(4, 5)}

ThreadSymmetry == Permutations(Threads)
=============================================================================

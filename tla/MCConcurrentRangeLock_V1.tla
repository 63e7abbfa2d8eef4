---------------------- MODULE MCConcurrentRangeLock_V1 ----------------------
(***************************************************************************)
(* Instances of ConcurrentRangeLock_V1 for TLC.                            *)
(***************************************************************************)
EXTENDS ConcurrentRangeLock_V1

R(s, e) == [start |-> s, end |-> e]

(***************************************************************************)
(* Two ranges that overlap in more than a key and one apart from them, and *)
(* two ranges that meet in one key.                                        *)
(***************************************************************************)
ApartRanges == {R(1, 3), R(2, 4), R(5, 6)}
MeetingRanges == {R(1, 2), R(2, 3)}
=============================================================================

-------------------------- MODULE MCSongRangeLock --------------------------
(***************************************************************************)
(* Instances of SongRangeLock for TLC.                                     *)
(***************************************************************************)
EXTENDS SongRangeLock

R(s, e) == [start |-> s, end |-> e]

(***************************************************************************)
(* A range at the lowest key, one that meets it in a key, one of a single  *)
(* key and one behind the others.                                          *)
(***************************************************************************)
FourRanges == {R(0, 1), R(1, 2), R(2, 2), R(4, 5)}
=============================================================================

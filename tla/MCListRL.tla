------------------------------ MODULE MCListRL ------------------------------
(***************************************************************************)
(* Instances of ListRL for TLC.                                            *)
(***************************************************************************)
EXTENDS ListRL, TLC

R(s, e) == [start |-> s, end |-> e]

(***************************************************************************)
(* Two ranges that touch without overlapping, and one that overlaps both.  *)
(***************************************************************************)
TouchingRanges == {R(1, 3), R(3, 5), R(2, 4)}

ThreadSymmetry == Permutations(Threads)
=============================================================================

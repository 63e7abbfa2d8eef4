-------------------------- MODULE MCConcurrentTree --------------------------
(***************************************************************************)
(* An instance of ConcurrentTree for TLC.                                  *)
(***************************************************************************)
EXTENDS ConcurrentTree

R(s, e) == [start |-> s, end |-> e]
All == R(0, 20)

(***************************************************************************)
(* Nothing; a root with a child on each side; trees in which a search for  *)
(* the lower ranges rotates once, or twice.                                *)
(***************************************************************************)
FourLoads ==
  { <<>>,
    <<R(8, 8), R(4, 5), R(12, 13)>>,
    <<R(16, 17), R(12, 13), R(10, 11), R(6, 7), R(4, 5), R(2, 3)>>,
    <<R(2, 3), R(16, 17), R(4, 5), R(12, 13), R(10, 11), R(6, 7)>> }

(***************************************************************************)
(* Three disjoint ranges and one that overlaps two of them.                *)
(***************************************************************************)
SomeRanges == {R(4, 5), R(8, 8), R(12, 13), R(5, 9)}
=============================================================================

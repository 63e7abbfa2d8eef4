------------------------------ MODULE KeyRange ------------------------------
(***************************************************************************)
(* The class keyrange of src/src/v4/keyrange.cc: closed ranges of keys and *)
(* how two of them compare.                                                *)
(***************************************************************************)
EXTENDS Intervals

(***************************************************************************)
(* The position of range a with respect to range b.  The code compares a's *)
(* right key with itself, so ranges that begin at the same key are equal.  *)
(***************************************************************************)
Compare(a, b) ==
  CASE a.end < b.start -> "LESS_THAN"
    [] a.start > b.end -> "GREATER_THAN"
    [] OTHER -> IF a.start = b.start THEN "EQUALS" ELSE "OVERLAPS"

Overlaps(a, b) == Compare(a, b) \in {"EQUALS", "OVERLAPS"}
=============================================================================

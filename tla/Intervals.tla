----------------------------- MODULE Intervals -----------------------------
(***************************************************************************)
(* Ranges of keys, and the two readings of "these ranges overlap" that the *)
(* range locks of this repository use.  A range is a record with the       *)
(* source's two fields, start and end.                                     *)
(***************************************************************************)
EXTENDS Integers

RangesOver(keys) == [start : keys, end : keys]

(***************************************************************************)
(* [start, end] holds both of its ends: the reading of the README, of      *)
(* src/src/v0, src/src/v3 and src/src/v4.                                  *)
(***************************************************************************)
ClosedOverlap(a, b) == a.start <= b.end /\ b.start <= a.end

(***************************************************************************)
(* [start, end) does not hold its end: the reading of src/src/v2.          *)
(***************************************************************************)
HalfOpenOverlap(a, b) == a.start < b.end /\ b.start < a.end
=============================================================================

---------------------- MODULE AtomicMarkableReference ----------------------
(***************************************************************************)
(* The word that holds a reference and a mark, and the operations on it    *)
(* (src/src/v0/atomic_reference.hpp).  Nodes come from operator new and    *)
(* are never freed, so the low bit of an address is free for the mark and  *)
(* packing loses nothing: a word is a record with the two parts.           *)
(***************************************************************************)

Pack(ref, mark) == [ref |-> ref, mark |-> mark]

WordsOver(refs) == [ref : refs, mark : BOOLEAN]

(***************************************************************************)
(* Whether compareAndSet succeeds on the word w; if it does, the word      *)
(* becomes Pack(newRef, newMark), and otherwise it stays.                  *)
(***************************************************************************)
SameRef(w, expectedRef, expectedMark) ==    \* mutant: the mark is not compared
  w.ref = expectedRef

CanSet(w, expectedRef, expectedMark) == w = Pack(expectedRef, expectedMark)

(***************************************************************************)
(* attemptMark(expectedRef, TRUE) is one load and one compareAndSet.  Its  *)
(* only effect is that of the compareAndSet, which succeeds only on the    *)
(* word the load saw, so it is one step.                                   *)
(***************************************************************************)
AttemptMark(w, expectedRef) ==
  IF CanSet(w, expectedRef, FALSE) THEN Pack(expectedRef, TRUE) ELSE w
=============================================================================

------------------------------- MODULE ListRL -------------------------------
(***************************************************************************)
(* The lock-free linked list of src/src/v2/range_lock.cpp.  A lock is a    *)
(* node of a list ordered by range; MutexRangeRelease marks the node's     *)
(* next pointer and leaves it to later insertions to unlink it.            *)
(*                                                                         *)
(* A step is one access to a shared pointer, with the thread's own         *)
(* computation up to the next one.                                         *)
(***************************************************************************)
EXTENDS Naturals, Intervals

CONSTANTS
  Threads,
  Requests,     \* the ranges the clients lock
  MaxCalls,     \* bound: calls of MutexRangeAcquire, by all threads together
  head, Null    \* listrl->head, and the null pointer

(***************************************************************************)
(* The k-th call of MutexRangeAcquire makes node k.  The list's head is a  *)
(* node without a range.                                                   *)
(***************************************************************************)
LNode == 1 .. MaxCalls
Cells == LNode \cup {head}

(***************************************************************************)
(* A pointer to a node or to nothing, with its lowest bit.                 *)
(***************************************************************************)
Ptr(n, marked) == [node |-> n, marked |-> marked]
Pointers == [node : LNode \cup {Null}, marked : BOOLEAN]

ASSUME ListAssumption ==
  /\ MaxCalls \in Nat
  /\ head \notin LNode /\ Null \notin Cells
  /\ \A r \in Requests : r \in RangesOver(Int) /\ r.start < r.end

VARIABLES
  next,           \* next[n]: the pointer in node n, and in head
  range,          \* start and end of a node
  elementsCount,
  pc, frame,      \* where each thread is, and its local variables
  calls,          \* how often MutexRangeAcquire has been called
  owned,          \* nodes acquired and not yet given back
  phased,         \* whether the clients keep acquiring and releasing apart
  present,        \* history: nodes inserted and not yet marked
  contended       \* history: whether an overlapping node has been present
                  \* at some moment of the thread's call of acquire

listVars == <<next, range, present>>
vars == <<next, range, elementsCount, pc, frame, calls, owned, phased,
          present, contended>>

Rest == [op |-> "none",                          \* which call is running
         want |-> [start |-> 0, end |-> 0],      \* the range of node lock
         lock |-> head, prev |-> head, cur |-> Null, succ |-> Null]

Init ==
  /\ next = [n \in Cells |-> Ptr(Null, FALSE)]
  /\ range = [n \in LNode |-> [start |-> 0, end |-> 0]]
  /\ elementsCount = 0
  /\ pc = [t \in Threads |-> "idle"]
  /\ frame = [t \in Threads |-> Rest]
  /\ calls = 0
  /\ owned = {}
  /\ phased \in BOOLEAN
  /\ present = {}
  /\ contended = [t \in Threads |-> FALSE]

Go(t, label, f) ==
  /\ pc' = [pc EXCEPT ![t] = label]
  /\ frame' = [frame EXCEPT ![t] = f]

Running(op) == \E t \in Threads : frame[t].op = op

(***************************************************************************)
(* compare(cur, lock): 1, -1 and 0 in the code.                            *)
(***************************************************************************)
PrecedesStart(r, n) == range[n].start >= r.start    \* mutant: starts only
SucceedsStrictly(r, n) == r.start > range[n].end    \* mutant: off by one

Precedes(r, n) == range[n].start >= r.end
Succeeds(r, n) == r.start >= range[n].end

-----------------------------------------------------------------------------
(***************************************************************************)
(* MutexRangeAcquire and InsertNode.                                       *)
(***************************************************************************)
Acquire(t, r) ==
  /\ pc[t] = "idle"
  /\ calls < MaxCalls
  /\ phased => ~Running("release")
  /\ calls' = calls + 1
  /\ range' = [range EXCEPT ![calls + 1] = r]
  /\ contended' = [contended EXCEPT ![t] =
                     \E n \in present : HalfOpenOverlap(range[n], r)]
  /\ Go(t, "read", [Rest EXCEPT !.op = "acquire", !.want = r,
                                !.lock = calls + 1])
  /\ UNCHANGED <<next, elementsCount, owned, present>>

(***************************************************************************)
(* The inner loop goes on with the unmarked pointer to c: at the end of    *)
(* the list the new node is inserted, otherwise c is looked at.            *)
(***************************************************************************)
Visit(t, f, c) ==
  Go(t, IF c = Null THEN "insert" ELSE "check",
        [f EXCEPT !.cur = c, !.succ = Null])

(***************************************************************************)
(* Mutant of ReadPrev: looks at the same deleted prev again.               *)
(***************************************************************************)
ReadPrevAgain(t) ==
  /\ pc[t] = "read"
  /\ ~next[frame[t].prev].marked
  /\ Visit(t, frame[t], next[frame[t].prev].node)
  /\ UNCHANGED <<listVars, elementsCount, calls, owned, contended>>

(***************************************************************************)
(* Load *prev.  A marked pointer means that prev is deleted: start over.   *)
(***************************************************************************)
ReadPrev(t) ==
  /\ pc[t] = "read"
  /\ LET f == frame[t]
         p == next[f.prev]
     IN  IF p.marked THEN Go(t, "read", [f EXCEPT !.prev = head, !.cur = Null])
                     ELSE Visit(t, f, p.node)
  /\ UNCHANGED <<listVars, elementsCount, calls, owned, contended>>

(***************************************************************************)
(* Mutant of CheckCur: deleted nodes exclude as well.                      *)
(***************************************************************************)
CheckCurRange(t) ==
  /\ pc[t] = "check"
  /\ LET f == frame[t] IN
     \/ Precedes(f.want, f.cur) /\ Go(t, "insert", f)
     \/ /\ ~Precedes(f.want, f.cur) /\ Succeeds(f.want, f.cur)
        /\ Go(t, "read", [f EXCEPT !.prev = f.cur, !.cur = Null])
     \/ /\ ~Precedes(f.want, f.cur) /\ ~Succeeds(f.want, f.cur)
        /\ Go(t, "overlap", f)
  /\ UNCHANGED <<listVars, elementsCount, calls, owned, contended>>

(***************************************************************************)
(* Load cur->next to see whether cur is deleted; if not, compare ranges.   *)
(***************************************************************************)
CheckCur(t) ==
  /\ pc[t] = "check"
  /\ LET f == frame[t] IN
     \/ next[f.cur].marked /\ Go(t, "next", f)
     \/ /\ ~next[f.cur].marked /\ Precedes(f.want, f.cur)
        /\ Go(t, "insert", f)
     \/ /\ ~next[f.cur].marked /\ ~Precedes(f.want, f.cur)
        /\ Succeeds(f.want, f.cur)
        /\ Go(t, "read", [f EXCEPT !.prev = f.cur, !.cur = Null])
     \/ /\ ~next[f.cur].marked /\ ~Precedes(f.want, f.cur)
        /\ ~Succeeds(f.want, f.cur)
        /\ Go(t, "overlap", f)
  /\ UNCHANGED <<listVars, elementsCount, calls, owned, contended>>

ReadNext(t) ==
  /\ pc[t] = "next"
  /\ Go(t, "snip", [frame[t] EXCEPT !.succ = next[frame[t].cur].node])
  /\ UNCHANGED <<listVars, elementsCount, calls, owned, contended>>

(***************************************************************************)
(* Mutants of Snip: a plain store, and a compare-and-swap that does not    *)
(* look at prev's mark.                                                    *)
(***************************************************************************)
SnipStore(t) ==
  /\ pc[t] = "snip"
  /\ next' = [next EXCEPT ![frame[t].prev] = Ptr(frame[t].succ, FALSE)]
  /\ Visit(t, frame[t], frame[t].succ)
  /\ UNCHANGED <<range, present, elementsCount, calls, owned, contended>>

SnipUnmarks(t) ==
  /\ pc[t] = "snip"
  /\ LET f == frame[t]
     IN  /\ next' = IF next[f.prev].node = f.cur
                    THEN [next EXCEPT ![f.prev] = Ptr(f.succ, FALSE)]
                    ELSE next
         /\ Visit(t, f, f.succ)
  /\ UNCHANGED <<range, present, elementsCount, calls, owned, contended>>

(***************************************************************************)
(* Try to unlink cur.  Whether that succeeds or not, the search goes on    *)
(* with cur's successor, from the same prev.                               *)
(***************************************************************************)
Snip(t) ==
  /\ pc[t] = "snip"
  /\ LET f == frame[t]
     IN  /\ next' = IF next[f.prev] = Ptr(f.cur, FALSE)
                    THEN [next EXCEPT ![f.prev] = Ptr(f.succ, FALSE)]
                    ELSE next
         /\ Visit(t, f, f.succ)
  /\ UNCHANGED <<range, present, elementsCount, calls, owned, contended>>

(***************************************************************************)
(* Link the node between prev and cur: "the range is acquired now".        *)
(***************************************************************************)
Insert(t) ==
  /\ pc[t] = "insert"
  /\ LET f == frame[t] IN
     \/ /\ next[f.prev] = Ptr(f.cur, FALSE)
        /\ next' = [next EXCEPT ![f.lock] = Ptr(f.cur, FALSE),
                                ![f.prev] = Ptr(f.lock, FALSE)]
        /\ present' = present \cup {f.lock}
        /\ contended' = [u \in Threads |->
             u # t /\ ( \/ contended[u]
                        \/ /\ frame[u].op = "acquire" /\ pc[u] # "count"
                           /\ HalfOpenOverlap(f.want, frame[u].want) )]
        /\ Go(t, "count", [f EXCEPT !.prev = head, !.cur = Null])
     \/ /\ next[f.prev] # Ptr(f.cur, FALSE)
        /\ Go(t, "read", [f EXCEPT !.cur = Null])
        /\ UNCHANGED <<next, present, contended>>
  /\ UNCHANGED <<range, elementsCount, calls, owned>>

CountUp(t) ==
  /\ pc[t] = "count"
  /\ elementsCount' = elementsCount + 1
  /\ owned' = owned \cup {frame[t].lock}
  /\ Go(t, "idle", Rest)
  /\ UNCHANGED <<listVars, calls, contended>>

(***************************************************************************)
(* InsertNode returned false: the caller gets a null pointer.              *)
(***************************************************************************)
RefuseUncounts(t) ==     \* mutant: takes back a count that was not made
  /\ pc[t] = "overlap"
  /\ Go(t, "idle", Rest)
  /\ elementsCount' = elementsCount - 1
  /\ contended' = [contended EXCEPT ![t] = FALSE]
  /\ UNCHANGED <<listVars, calls, owned>>

Refuse(t) ==
  /\ pc[t] = "overlap"
  /\ Go(t, "idle", Rest)
  /\ contended' = [contended EXCEPT ![t] = FALSE]
  /\ UNCHANGED <<listVars, elementsCount, calls, owned>>

-----------------------------------------------------------------------------
(***************************************************************************)
(* MutexRangeRelease and DeleteNode: a load, a plain store, a count.       *)
(***************************************************************************)
Release(t, n) ==
  /\ pc[t] = "idle"
  /\ n \in owned
  /\ phased => ~Running("acquire")
  /\ owned' = owned \ {n}
  /\ Go(t, "load", [Rest EXCEPT !.op = "release", !.want = range[n],
                                !.lock = n])
  /\ UNCHANGED <<listVars, elementsCount, calls, contended>>

LoadNext(t) ==
  /\ pc[t] = "load"
  /\ Go(t, "store", [frame[t] EXCEPT !.succ = next[frame[t].lock].node])
  /\ UNCHANGED <<listVars, elementsCount, calls, owned, contended>>

StoreMarked(t) ==
  /\ pc[t] = "store"
  /\ LET f == frame[t]
     IN  /\ next' = [next EXCEPT ![f.lock] = Ptr(f.succ, TRUE)]
         /\ present' = present \ {f.lock}
         /\ Go(t, "uncount", [f EXCEPT !.succ = Null])
  /\ UNCHANGED <<range, elementsCount, calls, owned, contended>>

CountDown(t) ==
  /\ pc[t] = "uncount"
  /\ elementsCount' = elementsCount - 1
  /\ Go(t, "idle", Rest)
  /\ UNCHANGED <<listVars, calls, owned, contended>>

-----------------------------------------------------------------------------
Step(t) ==
  \/ ReadPrev(t) \/ CheckCur(t) \/ ReadNext(t) \/ Snip(t) \/ Insert(t)
  \/ CountUp(t) \/ Refuse(t)
  \/ LoadNext(t) \/ StoreMarked(t) \/ CountDown(t)

Next ==
  /\ \E t \in Threads :
       \/ \E r \in Requests : Acquire(t, r)
       \/ \E n \in LNode : Release(t, n)
       \/ Step(t)
  /\ UNCHANGED phased

Spec == Init /\ [][Next]_vars

(***************************************************************************)
(* Threads are scheduled; nothing makes a client call.                     *)
(***************************************************************************)
FairSpec ==
  Spec /\ \A t \in Threads : WF_vars(Step(t) /\ UNCHANGED phased)

-----------------------------------------------------------------------------
Labels == {"idle", "read", "check", "next", "snip", "insert", "count",
           "overlap", "load", "store", "uncount"}

Frames == [op : {"none", "acquire", "release"}, want : RangesOver(Int),
           lock : Cells, prev : Cells,
           cur : LNode \cup {Null}, succ : LNode \cup {Null}]

(***************************************************************************)
(* Every variable has its type; the unsigned elementsCount never wraps     *)
(* below zero.                                                             *)
(***************************************************************************)
TypeOK ==
  /\ next \in [Cells -> Pointers]
  /\ range \in [LNode -> RangesOver(Int)]
  /\ elementsCount \in Nat
  /\ pc \in [Threads -> Labels]
  /\ frame \in [Threads -> Frames]
  /\ calls \in 0 .. MaxCalls
  /\ owned \in SUBSET LNode
  /\ phased \in BOOLEAN
  /\ present \in SUBSET LNode
  /\ contended \in [Threads -> BOOLEAN]

(***************************************************************************)
(* Mutual exclusion: "success - the range is acquired now" (line 77) is    *)
(* said of no two overlapping ranges at a time.                            *)
(***************************************************************************)
MutualExclusion ==
  \A m, n \in present : m # n => ~HalfOpenOverlap(range[m], range[n])

(***************************************************************************)
(* A lock that has been acquired and not released can be found from the    *)
(* head, which is how later insertions learn of it: as long as the clients *)
(* keep acquiring and releasing apart (see MutualExclusion if they do not).*)
(***************************************************************************)
Follows(n, m) == next[n].node = m

ReachableIn(k) ==
  LET r[i \in 0 .. k] ==
        IF i = 0 THEN {head}
        ELSE r[i - 1] \cup {m \in LNode : \E n \in r[i - 1] : Follows(n, m)}
  IN  r[k]

LocksReachable == phased => present \subseteq ReachableIn(MaxCalls)

(***************************************************************************)
(* Insertion keeps the order: a pointer leads from a range to a later one, *)
(* in deleted nodes too, so that no insertion can run in a circle.         *)
(***************************************************************************)
PointersAscend ==
  \A n \in LNode :
    next[n].node # Null => range[n].end <= range[next[n].node].start

(***************************************************************************)
(* MutexRangeAcquire returns a null pointer only if an overlapping range   *)
(* was locked at some moment of the call.                                  *)
(***************************************************************************)
RefusalsJustified == \A t \in Threads : pc[t] = "overlap" => contended[t]

(***************************************************************************)
(* A deleted node stays as it is, so an insertion that unlinks it in       *)
(* several steps links the right successor.                                *)
(***************************************************************************)
MarkedPointersFrozen ==
  [][\A n \in Cells : next[n].marked => next'[n] = next[n]]_vars

(***************************************************************************)
(* Every call returns.                                                     *)
(***************************************************************************)
CallsReturn == \A t \in Threads : (pc[t] # "idle") ~> (pc[t] = "idle")

-----------------------------------------------------------------------------
(***************************************************************************)
(* The list as a range lock: a range is granted by the compare-and-swap of *)
(* Insert and freed by the store of StoreMarked.                           *)
(***************************************************************************)
CallOf(t) ==
  LET f == frame[t] IN
  CASE f.op = "none" -> [op |-> "idle"]
    [] f.op = "acquire" /\ pc[t] # "count" ->
         [op |-> "tryLock", range |-> f.want, contended |-> contended[t]]
    [] f.op = "acquire" /\ pc[t] = "count" ->
         [op |-> "granted", range |-> f.want]
    [] f.op = "release" /\ pc[t] # "uncount" ->
         [op |-> "releaseLock", range |-> f.want]
    [] OTHER -> [op |-> "released", range |-> f.want]

Abstract == INSTANCE RangeLock WITH
  held <- {range[n] : n \in present},
  call <- [t \in Threads |-> CallOf(t)],
  owned <- {range[n] : n \in owned},
  Overlap <- HalfOpenOverlap

(***************************************************************************)
(* Every behaviour of the list in which the clients keep acquiring and     *)
(* releasing apart is one of the abstract range lock: RefusalsJustified    *)
(* holds of the others, but MutualExclusion does not.                      *)
(***************************************************************************)
ImplementsRangeLock ==
  /\ Abstract!Init
  /\ [][~phased \/ Abstract!Next]_(Abstract!lockVars)
=============================================================================

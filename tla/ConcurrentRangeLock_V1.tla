----------------------- MODULE ConcurrentRangeLock_V1 -----------------------
(***************************************************************************)
(* The lock-based skip list of src/src/v1/range_lock.hpp.  Searches take   *)
(* no lock; an insertion or a removal then locks the predecessors it has   *)
(* found, checks that they still are the predecessors, and starts over if  *)
(* they are not.                                                           *)
(*                                                                         *)
(* A step is one access to a shared field or mutex.  The fields next and   *)
(* marked are plain in the code and read without a lock; the model takes   *)
(* every access as one indivisible step, in program order.  fullyLinked is *)
(* read by searchLock only, which changes nothing and is called by two     *)
(* unit tests only (test/v1/unittest.cpp); it is left out.                 *)
(***************************************************************************)
EXTENDS Naturals, Intervals

CONSTANTS
  Threads,
  MaxLevel,         \* the template argument maxLevel
  Min, Max,         \* numeric_limits<T>::min() and max()
  Requests,         \* the ranges the clients lock
  MaxCalls,         \* bound: calls of tryLock, by all threads together
  Misuse,           \* whether clients release ranges they do not own
  head, tail, Null

Levels == 0 .. MaxLevel
NotFound == -1
Heights == 1 .. MaxLevel    \* generateRandomLevel()

(***************************************************************************)
(* The k-th call of tryLock makes node k.                                  *)
(***************************************************************************)
NewNodes == 1 .. MaxCalls
Node_V1 == NewNodes \cup {head, tail}

ASSUME V1Assumption ==
  /\ MaxLevel \in Nat \ {0} /\ MaxCalls \in Nat
  /\ head # tail /\ Null \notin Node_V1 /\ Null \notin Threads
  /\ head \notin NewNodes /\ tail \notin NewNodes
  /\ Min \in Int /\ Max \in Int /\ Min < Max
  /\ \A r \in Requests :
       /\ r \in RangesOver(Int)
       /\ Min <= r.start /\ r.start <= r.end /\ r.end <= Max

VARIABLES
  next,           \* next[n][l]: the successor of node n at level l
  marked,
  fullyLinked,
  range,          \* start and end of a node
  topLevel,       \* the highest level a node is in
  mutex,          \* the thread that holds a node's mutex, or Null
  elementsCount,
  pc, frame,      \* where each thread is, and its local variables
  calls,          \* how often tryLock has been called
  owned,          \* nodes for which tryLock has returned true, unreleased
  linked,         \* history: the nodes in the list of level 0
  contended       \* history: whether an overlapping node has been linked
                  \* at some moment of the thread's call of tryLock

nodeVars == <<next, marked, fullyLinked, range, topLevel, linked>>
vars == <<next, marked, fullyLinked, range, topLevel, mutex, elementsCount,
          pc, frame, calls, owned, linked, contended>>

Start(n) == range[n].start
End(n) == range[n].end
Locked == linked \ {head, tail}

(***************************************************************************)
(* The locals of a thread outside every call.                              *)
(***************************************************************************)
Rest == [find |-> "none",                        \* which find is running
         want |-> [start |-> Min, end |-> Min],  \* its arguments
         top |-> 0,                              \* topLevel
         at |-> 0,                               \* the level to lock or link
         node |-> head,                          \* newNode_V1, victim
         isMarked |-> FALSE,
         lvl |-> 0, pred |-> head, found |-> NotFound,
         preds |-> [l \in Levels |-> head],
         succs |-> [l \in Levels |-> head]]

Init ==
  /\ next = [n \in Node_V1 |-> [l \in Levels |->
               IF n = head THEN tail ELSE Null]]
  /\ marked = [n \in Node_V1 |-> FALSE]
  /\ fullyLinked = [n \in Node_V1 |-> FALSE]
  /\ range = [n \in Node_V1 |-> IF n = tail THEN [start |-> Max, end |-> Max]
                                            ELSE [start |-> Min, end |-> Min]]
  /\ topLevel = [n \in Node_V1 |-> IF n \in NewNodes THEN 0 ELSE MaxLevel]
  /\ mutex = [n \in Node_V1 |-> Null]
  /\ elementsCount = 0
  /\ pc = [t \in Threads |-> "idle"]
  /\ frame = [t \in Threads |-> Rest]
  /\ calls = 0
  /\ owned = {}
  /\ linked = {head, tail}
  /\ contended = [t \in Threads |-> FALSE]

Go(t, label, f) ==
  /\ pc' = [pc EXCEPT ![t] = label]
  /\ frame' = [frame EXCEPT ![t] = f]

(***************************************************************************)
(* Node_V1Locker: the nodes a thread has tracked are those it has locked.  *)
(***************************************************************************)
UnlockAll(t) ==
  mutex' = [n \in Node_V1 |-> IF mutex[n] = t THEN Null ELSE mutex[n]]

-----------------------------------------------------------------------------
(***************************************************************************)
(* The two searches, findInsert and findExact.                             *)
(***************************************************************************)
StartFind(f, kind) ==
  [f EXCEPT !.find = kind, !.lvl = MaxLevel, !.at = 0,
            !.pred = head, !.found = NotFound,
            !.preds = Rest.preds, !.succs = Rest.succs]

PassesStart(f, c) == f.want.start >= Start(c)    \* mutant: passes the node

Passes(f, c) == f.want.start >= End(c)

HitsNear(f, c) ==                 \* mutant: findInsert is off by one
  IF f.find = "insert" THEN f.want.end + 1 >= Start(c)
                       ELSE f.want = range[c]

Hits(f, c) == IF f.find = "insert" THEN f.want.end >= Start(c)
                                   ELSE f.want = range[c]

(***************************************************************************)
(* The search is over: what the call does next.  findExact that has found  *)
(* nothing ends the process.                                               *)
(***************************************************************************)
AfterFind(f) ==
  CASE f.find = "insert" /\ f.found = NotFound -> "lock"
    [] f.find = "insert" /\ f.found # NotFound -> "seen"
    [] f.find = "exact" /\ f.found = NotFound -> "exit"
    [] f.find = "exact" /\ f.found # NotFound ->
         IF f.isMarked THEN "lock" ELSE "check"

Finish(t, f) ==
  Go(t, AfterFind(f),
     [f EXCEPT !.pred = head,
               !.node = IF f.find = "exact" /\ f.found # NotFound
                        THEN f.succs[f.found] ELSE @])

(***************************************************************************)
(* Read the successor of pred; pass it, or leave the level with it.  The   *)
(* tail has no successor (its pointers are never set): whoever passes the  *)
(* tail follows nothing, and is lost.                                      *)
(***************************************************************************)
ReadNext(t) ==
  /\ pc[t] = "find"
  /\ LET f == frame[t]
         curr == next[f.pred][f.lvl]
         g == [f EXCEPT !.preds[f.lvl] = f.pred, !.succs[f.lvl] = curr,
                        !.found = IF f.found = NotFound /\ Hits(f, curr)
                                  THEN f.lvl ELSE f.found]
     IN
     IF curr = Null THEN Go(t, "crash", f) ELSE
       \/ Passes(f, curr) /\ Go(t, "find", [f EXCEPT !.pred = curr])
       \/ /\ ~Passes(f, curr) /\ f.lvl > 0
          /\ Go(t, "find", [g EXCEPT !.lvl = @ - 1])
       \/ ~Passes(f, curr) /\ f.lvl = 0 /\ Finish(t, g)
  /\ UNCHANGED <<nodeVars, mutex, elementsCount, calls, owned, contended>>

-----------------------------------------------------------------------------
(***************************************************************************)
(* tryLock.                                                                *)
(***************************************************************************)
TryLock(t, r, height) ==
  /\ pc[t] = "idle"
  /\ calls < MaxCalls
  /\ calls' = calls + 1
  /\ contended' = [contended EXCEPT ![t] =
                     \E n \in Locked : ClosedOverlap(range[n], r)]
  /\ Go(t, "find", StartFind([Rest EXCEPT !.want = r, !.top = height,
                                          !.node = calls + 1],
                             "insert"))
  /\ UNCHANGED <<nodeVars, mutex, elementsCount, owned>>

(***************************************************************************)
(* An overlapping node was found: if it is being deleted, search again.    *)
(***************************************************************************)
Seen(t) ==
  /\ pc[t] = "seen"
  /\ LET f == frame[t]
     IN  IF marked[f.succs[f.found]]
         THEN Go(t, "find", StartFind(f, "insert"))
         ELSE Go(t, "refuse", f)
  /\ UNCHANGED <<nodeVars, mutex, elementsCount, calls, owned, contended>>

(***************************************************************************)
(* tryLock has met an overlapping range, or releaseLock one that is being  *)
(* linked or deleted by another thread: return false.                      *)
(***************************************************************************)
ReturnFalse(t) ==
  /\ pc[t] \in {"refuse", "wrong"}
  /\ Go(t, "idle", Rest)
  /\ contended' = [contended EXCEPT ![t] = FALSE]
  /\ UNCHANGED <<nodeVars, mutex, elementsCount, calls, owned>>

(***************************************************************************)
(* Lock the predecessor of level f.at, unless this thread has it already.  *)
(* Used by tryLock and by releaseLock.                                     *)
(***************************************************************************)
LockPredNot(t) ==     \* mutant: the predecessor is not locked
  /\ pc[t] = "lock"
  /\ Go(t, "validate", frame[t])
  /\ UNCHANGED <<nodeVars, mutex, elementsCount, calls, owned, contended>>

LockPred(t) ==
  /\ pc[t] = "lock"
  /\ LET p == frame[t].preds[frame[t].at]
     IN  mutex[p] \in {Null, t} /\ mutex' = [mutex EXCEPT ![p] = t]
  /\ Go(t, "validate", frame[t])
  /\ UNCHANGED <<nodeVars, elementsCount, calls, owned, contended>>

(***************************************************************************)
(* Whether the predecessor still is one.  Mutants: without the look at its *)
(* mark, without the look at its successor.                                *)
(***************************************************************************)
ValidUnmarked(f) ==
  next[f.preds[f.at]][f.at]
    = IF f.find = "insert" THEN f.succs[f.at] ELSE f.node

ValidMarks(f) == ~marked[f.preds[f.at]] /\ ~marked[f.succs[f.at]]

Valid(f) ==
  LET p == f.preds[f.at]
      s == f.succs[f.at]
  IN  IF f.find = "insert"
      THEN ~marked[p] /\ ~marked[s] /\ next[p][f.at] = s
      ELSE ~marked[p] /\ next[p][f.at] = f.node

(***************************************************************************)
(* Go on to the next level, to the change of the list, or, with every lock *)
(* given back, to another search.  Mutant: the locks are kept.             *)
(***************************************************************************)
ValidateKeeps(t) ==
  /\ pc[t] = "validate"
  /\ LET f == frame[t] IN
     \/ /\ Valid(f) /\ f.at < f.top
        /\ Go(t, "lock", [f EXCEPT !.at = @ + 1])
     \/ /\ Valid(f) /\ f.at = f.top
        /\ IF f.find = "insert" THEN Go(t, "link", [f EXCEPT !.at = 0])
                                ELSE Go(t, "unlink", f)
     \/ ~Valid(f) /\ Go(t, "find", StartFind(f, f.find))
  /\ UNCHANGED <<nodeVars, mutex, elementsCount, calls, owned, contended>>

Validate(t) ==
  /\ pc[t] = "validate"
  /\ LET f == frame[t] IN
     \/ /\ Valid(f) /\ f.at < f.top
        /\ Go(t, "lock", [f EXCEPT !.at = @ + 1])
        /\ UNCHANGED mutex
     \/ /\ Valid(f) /\ f.at = f.top
        /\ IF f.find = "insert" THEN Go(t, "link", [f EXCEPT !.at = 0])
                                ELSE Go(t, "unlink", f)
        /\ UNCHANGED mutex
     \/ /\ ~Valid(f)
        /\ UnlockAll(t)
        /\ Go(t, "find", StartFind(f, f.find))
  /\ UNCHANGED <<nodeVars, elementsCount, calls, owned, contended>>

(***************************************************************************)
(* Link the new node, from level 0 up: with level 0 the range is locked.   *)
(***************************************************************************)
Link(t) ==
  /\ pc[t] = "link"
  /\ LET f == frame[t] IN
     /\ next' = [next EXCEPT ![f.node][f.at] = f.succs[f.at],
                             ![f.preds[f.at]][f.at] = f.node]
     /\ range' = [range EXCEPT ![f.node] = f.want]
     /\ topLevel' = [topLevel EXCEPT ![f.node] = f.top]
     /\ linked' = linked \cup {f.node}
     /\ contended' = IF f.at > 0 THEN contended ELSE
          [u \in Threads |->
             u # t /\ ( \/ contended[u]
                        \/ /\ frame[u].find = "insert"
                           /\ frame[u].node \notin linked
                           /\ ClosedOverlap(f.want, frame[u].want) )]
     /\ IF f.at < f.top THEN Go(t, "link", [f EXCEPT !.at = @ + 1])
                        ELSE Go(t, "full", f)
  /\ UNCHANGED <<marked, fullyLinked, mutex, elementsCount, calls, owned>>

SetFullyLinked(t) ==
  /\ pc[t] = "full"
  /\ fullyLinked' = [fullyLinked EXCEPT ![frame[t].node] = TRUE]
  /\ Go(t, "count", frame[t])
  /\ UNCHANGED <<next, marked, range, topLevel, linked, mutex, elementsCount,
                 calls, owned, contended>>

CountUpNever(t) ==     \* mutant: the counter is forgotten
  /\ pc[t] = "count"
  /\ Go(t, "unlock", frame[t])
  /\ UNCHANGED <<nodeVars, mutex, elementsCount, calls, owned, contended>>

CountUp(t) ==
  /\ pc[t] = "count"
  /\ elementsCount' = elementsCount + 1
  /\ Go(t, "unlock", frame[t])
  /\ UNCHANGED <<nodeVars, mutex, calls, owned, contended>>

(***************************************************************************)
(* The ScopeGuard gives back the locks, and tryLock or releaseLock returns *)
(* true.                                                                   *)
(***************************************************************************)
Return(t) ==
  /\ pc[t] = "unlock"
  /\ UnlockAll(t)
  /\ owned' = IF frame[t].find = "insert" THEN owned \cup {frame[t].node}
                                          ELSE owned
  /\ Go(t, "idle", Rest)
  /\ UNCHANGED <<nodeVars, elementsCount, calls, contended>>

-----------------------------------------------------------------------------
(***************************************************************************)
(* releaseLock.                                                            *)
(***************************************************************************)
ReleaseLock(t, r) ==
  /\ pc[t] = "idle"
  /\ r \in IF Misuse THEN Requests ELSE {range[n] : n \in owned}
  /\ owned' = {n \in owned : range[n] # r}
  /\ Go(t, "find", StartFind([Rest EXCEPT !.want = r], "exact"))
  /\ UNCHANGED <<nodeVars, mutex, elementsCount, calls, contended>>

CheckVictim(t) ==
  /\ pc[t] = "check"
  /\ LET f == frame[t]
     IN  Go(t, IF topLevel[f.node] = f.found /\ ~marked[f.node]
               THEN "victim" ELSE "wrong", f)
  /\ UNCHANGED <<nodeVars, mutex, elementsCount, calls, owned, contended>>

LockVictim(t) ==
  /\ pc[t] = "victim"
  /\ mutex[frame[t].node] = Null
  /\ mutex' = [mutex EXCEPT ![frame[t].node] = t]
  /\ Go(t, "mark", frame[t])
  /\ UNCHANGED <<nodeVars, elementsCount, calls, owned, contended>>

(***************************************************************************)
(* The victim is marked once; its mutex is held until the end of this      *)
(* round only.                                                             *)
(***************************************************************************)
Mark(t) ==
  /\ pc[t] = "mark"
  /\ LET f == frame[t] IN
     /\ marked' = [marked EXCEPT ![f.node] = TRUE]
     /\ IF marked[f.node]
        THEN UnlockAll(t) /\ Go(t, "wrong", f)
        ELSE /\ Go(t, "lock", [f EXCEPT !.isMarked = TRUE, !.at = 0,
                                        !.top = topLevel[f.node]])
             /\ UNCHANGED mutex
  /\ UNCHANGED <<next, fullyLinked, range, topLevel, linked, elementsCount,
                 calls, owned, contended>>

(***************************************************************************)
(* Take the victim out, from its highest level down: with level 0 the      *)
(* range is free.                                                          *)
(***************************************************************************)
Unlink(t) ==
  /\ pc[t] = "unlink"
  /\ LET f == frame[t] IN
     /\ next' = [next EXCEPT ![f.preds[f.at]][f.at] = next[f.node][f.at]]
     /\ linked' = IF f.at = 0 THEN linked \ {f.node} ELSE linked
     /\ IF f.at > 0 THEN Go(t, "unlink", [f EXCEPT !.at = @ - 1])
                    ELSE Go(t, "uncount", f)
  /\ UNCHANGED <<marked, fullyLinked, range, topLevel, mutex, elementsCount,
                 calls, owned, contended>>

CountDown(t) ==
  /\ pc[t] = "uncount"
  /\ elementsCount' = elementsCount - 1
  /\ Go(t, "unlock", frame[t])
  /\ UNCHANGED <<nodeVars, mutex, calls, owned, contended>>

-----------------------------------------------------------------------------
Step(t) ==
  \/ ReadNext(t) \/ Seen(t) \/ ReturnFalse(t) \/ LockPred(t) \/ Validate(t)
  \/ Link(t) \/ SetFullyLinked(t) \/ CountUp(t) \/ Return(t)
  \/ CheckVictim(t) \/ LockVictim(t) \/ Mark(t) \/ Unlink(t)
  \/ CountDown(t)

(***************************************************************************)
(* exit(0) ends the process, whatever the other threads are doing.         *)
(***************************************************************************)
Next ==
  /\ \A u \in Threads : pc[u] # "exit"
  /\ \E t \in Threads :
       \/ \E r \in Requests, height \in Heights : TryLock(t, r, height)
       \/ \E r \in Requests : ReleaseLock(t, r)
       \/ Step(t)

Spec == Init /\ [][Next]_vars

(***************************************************************************)
(* Threads are scheduled: a thread that can go on does so in the end.      *)
(* Nothing is assumed of std::mutex, which need not be fair: while a mutex *)
(* is free again and again, a thread that waits for it may wait forever.   *)
(***************************************************************************)
FairSpec == Spec /\ \A t \in Threads : WF_vars(Step(t))

-----------------------------------------------------------------------------
Labels == {"idle", "find", "seen", "refuse", "lock", "validate", "link",
           "full", "count", "unlock", "check", "victim", "mark", "unlink",
           "uncount", "wrong", "exit"}

Frames == [find : {"none", "insert", "exact"}, want : RangesOver(Int),
           top : Levels, at : Levels, node : Node_V1, isMarked : BOOLEAN,
           lvl : Levels, pred : Node_V1, found : Levels \cup {NotFound},
           preds : [Levels -> Node_V1], succs : [Levels -> Node_V1]]

(***************************************************************************)
(* Every variable has its type.  No search reads a successor that has not  *)
(* been set (no label is "crash"; pred and succs are nodes), though a node *)
(* is published on level 0 before its upper pointers are written; the      *)
(* unsigned counter never goes below zero.                                 *)
(***************************************************************************)
TypeOK ==
  /\ next \in [Node_V1 -> [Levels -> Node_V1 \cup {Null}]]
  /\ marked \in [Node_V1 -> BOOLEAN]
  /\ fullyLinked \in [Node_V1 -> BOOLEAN]
  /\ range \in [Node_V1 -> RangesOver(Int)]
  /\ topLevel \in [Node_V1 -> Levels]
  /\ mutex \in [Node_V1 -> Threads \cup {Null}]
  /\ elementsCount \in Nat
  /\ pc \in [Threads -> Labels]
  /\ frame \in [Threads -> Frames]
  /\ calls \in 0 .. MaxCalls
  /\ owned \in SUBSET NewNodes
  /\ linked \in SUBSET Node_V1
  /\ contended \in [Threads -> BOOLEAN]

(***************************************************************************)
(* Mutual exclusion, in the README's reading of [start, end]: no two       *)
(* ranges in the list overlap.                                             *)
(***************************************************************************)
MutualExclusion ==
  \A m, n \in Locked : m # n => ~ClosedOverlap(range[m], range[n])

(***************************************************************************)
(* What a client has been granted stays in the list of every level of its  *)
(* node, fully linked and unmarked, until it is released: the release      *)
(* insists on meeting the node on its highest level.                       *)
(***************************************************************************)
OwnersProtected ==
  \A n \in owned :
    /\ fullyLinked[n] /\ ~marked[n]
    /\ \A l \in 0 .. topLevel[n] : \E p \in linked : next[p][l] = n

(***************************************************************************)
(* The list of level 0 is an ordered chain from head to tail; ranges may   *)
(* meet in a key.                                                          *)
(***************************************************************************)
OrderedChain ==
  /\ {head, tail} \subseteq linked
  /\ \A p \in linked \ {tail} :
       /\ next[p][0] \in linked
       /\ End(p) <= Start(next[p][0])
       /\ \A q \in linked :
            Start(q) <= Start(p) \/ Start(next[p][0]) <= Start(q)

(***************************************************************************)
(* A client that releases what it owns is not told of wrong usage and does *)
(* not end the process, although the search of the release runs without    *)
(* locks among other changes.                                              *)
(***************************************************************************)
OwnerReleases == \A t \in Threads : pc[t] \notin {"wrong", "exit"}

(***************************************************************************)
(* The successors of a marked node stay as they are.  A release relies on  *)
(* it: when its first round fails it gives the victim's mutex back and     *)
(* does not take it again before it copies the victim's pointers.          *)
(***************************************************************************)
MarkedNodesFrozen ==
  [][\A n \in Node_V1 : marked[n] => next'[n] = next[n]]_vars

(***************************************************************************)
(* Nobody waits in a circle for mutexes: while some thread is in a call,   *)
(* some thread can go on.  The predecessors are locked from level 0 up,    *)
(* which is from the highest key down, and the victim before them.         *)
(***************************************************************************)
DeadlockFree ==
  (\E t \in Threads : pc[t] # "idle") => \E t \in Threads : ENABLED Step(t)

(***************************************************************************)
(* Every call returns, unless a release that has marked its victim waits   *)
(* forever for the mutex of a predecessor.  This can happen: a tryLock     *)
(* that finds its successor marked locks the predecessor, fails to         *)
(* validate, unlocks and repeats, and may overtake the release every time. *)
(* Nothing else keeps a call: nobody waits forever for a mutex before      *)
(* anything is marked, validates in vain, or searches forever for a node   *)
(* whose release goes on.                                                  *)
(***************************************************************************)
Starved(t) == pc[t] = "lock" /\ frame[t].isMarked

ReturnsUnlessStarved ==
  \A t \in Threads :
    (pc[t] # "idle") ~> (pc[t] = "idle" \/ \E u \in Threads : []Starved(u))

-----------------------------------------------------------------------------
(***************************************************************************)
(* The list as a range lock: a range is granted by the Link and freed by   *)
(* the Unlink of level 0.                                                  *)
(***************************************************************************)
CallOf(t) ==
  LET f == frame[t] IN
  CASE f.find = "none" -> [op |-> "idle"]
    [] f.find = "insert" /\ f.node \notin linked ->
         [op |-> "tryLock", range |-> f.want, contended |-> contended[t]]
    [] f.find = "insert" /\ f.node \in linked ->
         [op |-> "granted", range |-> f.want]
    [] f.find = "exact" /\ pc[t] \notin {"uncount", "unlock"} ->
         [op |-> "releaseLock", range |-> f.want]
    [] OTHER -> [op |-> "released", range |-> f.want]

Abstract == INSTANCE RangeLock WITH
  held <- {range[n] : n \in Locked},
  call <- [t \in Threads |-> CallOf(t)],
  owned <- {range[n] : n \in owned},
  Overlap <- ClosedOverlap

(***************************************************************************)
(* Every behaviour of the list, for ranges that do not meet in a key, is   *)
(* one of the abstract range lock.                                         *)
(***************************************************************************)
ImplementsRangeLock == Abstract!Spec
=============================================================================

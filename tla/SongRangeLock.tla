--------------------------- MODULE SongRangeLock ---------------------------
(***************************************************************************)
(* The skip list under one mutex of src/src/v3/range_lock.cpp.  Every call *)
(* holds spinlock_ from its first to its last access to the list, so a     *)
(* search, an insertion and a removal are one step each.                   *)
(***************************************************************************)
EXTENDS Naturals, FiniteSets, Intervals

CONSTANTS
  Threads,
  MAX_LEVEL, MAX_VALUE,
  SizeModulus,      \* size_t counts modulo this
  Requests,         \* the ranges the clients lock
  MaxCalls,         \* bound: calls of tryLock, by all threads together
  Misuse,           \* whether clients release ranges they do not own
  head, tail, Null

Levels == 0 .. MAX_LEVEL

(***************************************************************************)
(* The k-th call of tryLock makes node k.                                  *)
(***************************************************************************)
NewNodes == 1 .. MaxCalls
SkipListNode == NewNodes \cup {head, tail}

ASSUME SongAssumption ==
  /\ MAX_LEVEL \in Nat /\ MAX_VALUE \in Nat /\ MaxCalls \in Nat
  /\ SizeModulus \in Nat \ {0}
  /\ head # tail /\ Null \notin SkipListNode /\ Null \notin Threads
  /\ head \notin NewNodes /\ tail \notin NewNodes
  /\ \A r \in Requests : r \in RangesOver(0 .. MAX_VALUE) /\ r.start <= r.end

VARIABLES
  forward,        \* forward[n][l]: the successor of node n at level l
  range,          \* start and end of a node
  level,          \* the highest level a node is in
  elementsCount,
  spinlock_,      \* the thread that holds the mutex, or Null
  pc, frame,      \* where each thread is, and its local variables
  calls,          \* how often tryLock has been called
  owned,          \* nodes for which tryLock has returned true, unreleased
  contended       \* history: whether an overlapping node has been linked
                  \* at some moment of the thread's call of tryLock

listVars == <<forward, range, level>>
vars == <<forward, range, level, elementsCount, spinlock_, pc, frame, calls,
          owned, contended>>

Start(n) == range[n].start
End(n) == range[n].end

Rest == [op |-> "none",                       \* which call is running
         want |-> [start |-> 0, end |-> 0],   \* its arguments
         node |-> head,                       \* the node of this tryLock
         height |-> 0,                        \* randomLevel()
         nodes |-> [l \in Levels |-> head]]

Init ==
  /\ forward = [n \in SkipListNode |-> [l \in Levels |->
                  IF n = head THEN tail ELSE Null]]
  /\ range = [n \in SkipListNode |->
                IF n = tail THEN [start |-> MAX_VALUE, end |-> MAX_VALUE]
                            ELSE [start |-> 0, end |-> 0]]
  /\ level = [n \in SkipListNode |-> IF n \in NewNodes THEN 0 ELSE MAX_LEVEL]
  /\ elementsCount = 0
  /\ spinlock_ = Null
  /\ pc = [t \in Threads |-> "idle"]
  /\ frame = [t \in Threads |-> Rest]
  /\ calls = 0
  /\ owned = {}
  /\ contended = [t \in Threads |-> FALSE]

Go(t, label, f) ==
  /\ pc' = [pc EXCEPT ![t] = label]
  /\ frame' = [frame EXCEPT ![t] = f]

(***************************************************************************)
(* The pointers of one level, and the nodes that a walk along such         *)
(* pointers meets from the head.                                           *)
(***************************************************************************)
Row(l) == [n \in SkipListNode |-> forward[n][l]]

Reach(row) ==
  LET met[i \in 0 .. MaxCalls + 1] ==
        IF i = 0 THEN {head}
        ELSE met[i - 1] \cup ({row[n] : n \in met[i - 1]} \ {Null})
  IN  met[MaxCalls + 1]

Chain(l) == Reach(Row(l))

Locked == Chain(0) \ {head, tail}

-----------------------------------------------------------------------------
(***************************************************************************)
(* Along the pointers of a level as far as the nodes lie before the wanted *)
(* range, the set before.  A null pointer stops the walk.                  *)
(***************************************************************************)
Walk(row, before) ==
  LET walk[n \in SkipListNode] ==
        IF row[n] \in before THEN walk[row[n]] ELSE n
  IN  walk

(***************************************************************************)
(* From the head down, on every level from where the level above ended:    *)
(* the predecessors on all levels.                                         *)
(***************************************************************************)
Descend(before) ==
  LET preds[l \in Levels] ==
        Walk(Row(l), before)[IF l = MAX_LEVEL THEN head ELSE preds[l + 1]]
  IN  preds

EndsBefore(n, r) == End(n) < r.start

StartsBefore(n, r) == Start(n) < r.start

(***************************************************************************)
(* What FindNodes returns for the neighbours pred and curr at level 0.     *)
(* Mutant: the head is a range like any other.                             *)
(***************************************************************************)
FoundAlsoHead(r, pred, curr) == ~(r.start > End(pred) /\ r.end < Start(curr))

Found(r, pred, curr) ==
  IF pred = head THEN ~(r.start >= End(pred) /\ r.end < Start(curr))
                 ELSE ~(r.start > End(pred) /\ r.end < Start(curr))

-----------------------------------------------------------------------------
TryLock(t, r, height) ==
  /\ pc[t] = "idle"
  /\ calls < MaxCalls
  /\ calls' = calls + 1
  /\ contended' = [contended EXCEPT ![t] =
                     \E n \in Locked : ClosedOverlap(range[n], r)]
  /\ Go(t, "lock", [Rest EXCEPT !.op = "tryLock", !.want = r,
                                !.node = calls + 1, !.height = height])
  /\ UNCHANGED <<listVars, elementsCount, spinlock_, owned>>

ReleaseLock(t, r) ==
  /\ pc[t] = "idle"
  /\ r \in IF Misuse THEN Requests ELSE {range[n] : n \in owned}
  /\ owned' = {n \in owned : range[n] # r}
  /\ Go(t, "lock", [Rest EXCEPT !.op = "releaseLock", !.want = r])
  /\ UNCHANGED <<listVars, elementsCount, spinlock_, calls, contended>>

Lock(t) ==
  /\ spinlock_ = Null
  /\ pc[t] = "lock"
  /\ spinlock_' = t
  /\ Go(t, IF frame[t].op = "tryLock" THEN "find" ELSE "remove", frame[t])
  /\ UNCHANGED <<listVars, elementsCount, calls, owned, contended>>

(***************************************************************************)
(* FindNodes dereferences the successor it has reached on every level: a   *)
(* null pointer there ends the process.                                    *)
(***************************************************************************)
FindNodes(t) ==
  /\ pc[t] = "find"
  /\ LET f == frame[t]
         nodes == Descend({n \in SkipListNode : EndsBefore(n, f.want)})
     IN  IF \E l \in Levels : forward[nodes[l]][l] = Null
         THEN Go(t, "crash", f)
         ELSE Go(t, IF Found(f.want, nodes[0], forward[nodes[0]][0])
                    THEN "unlock" ELSE "insert",
                    [f EXCEPT !.nodes = nodes])
  /\ UNCHANGED <<listVars, elementsCount, spinlock_, calls, owned, contended>>

(***************************************************************************)
(* The pointers with the node of frame f linked in.                        *)
(***************************************************************************)
Linked(f) ==
  [n \in SkipListNode |-> [l \in Levels |->
     IF l <= f.height /\ n = f.node THEN forward[f.nodes[l]][l]
     ELSE IF l <= f.height /\ n = f.nodes[l] THEN f.node
     ELSE forward[n][l]]]

InsertRange(t) ==
  /\ pc[t] = "insert"
  /\ LET f == frame[t] IN
     /\ forward' = Linked(f)
     /\ range' = [range EXCEPT ![f.node] = f.want]
     /\ level' = [level EXCEPT ![f.node] = f.height]
     /\ contended' = [u \in Threads |->
          u # t /\ ( \/ contended[u]
                     \/ /\ frame[u].op = "tryLock"
                        /\ ClosedOverlap(f.want, frame[u].want) )]
     /\ Go(t, "count", f)
  /\ UNCHANGED <<elementsCount, spinlock_, calls, owned>>

CountUp(t) ==
  /\ pc[t] = "count"
  /\ elementsCount' = (elementsCount + 1) % SizeModulus
  /\ Go(t, "unlock", [frame[t] EXCEPT !.op = "granted"])
  /\ UNCHANGED <<listVars, spinlock_, calls, owned, contended>>

(***************************************************************************)
(* releaseLock removes the node behind the predecessors of start, whatever *)
(* its range is: on level 0, and upwards until a level does not have it.   *)
(* Mutant: on level 0 only.                                                *)
(***************************************************************************)
CutBottom(preds, curr) == {0}

Cut(preds, curr) ==
  {l \in Levels : \A k \in 0 .. l : forward[preds[k]][k] = curr}

Remove(t) ==
  /\ pc[t] = "remove"
  /\ LET f == frame[t]
         preds == Descend({n \in SkipListNode : StartsBefore(n, f.want)})
         curr == forward[preds[0]][0]
     IN  IF curr = Null
         THEN Go(t, "crash", f) /\ UNCHANGED forward
         ELSE /\ forward' = [n \in SkipListNode |-> [l \in Levels |->
                   IF n = preds[l] /\ l \in Cut(preds, curr)
                   THEN forward[curr][l] ELSE forward[n][l]]]
              /\ Go(t, "uncount", [f EXCEPT !.op = "released"])
  /\ UNCHANGED <<range, level, elementsCount, spinlock_, calls, owned,
                 contended>>

CountDownNever(t) ==     \* mutant: the counter is forgotten
  /\ pc[t] = "uncount"
  /\ Go(t, "unlock", frame[t])
  /\ UNCHANGED <<listVars, elementsCount, spinlock_, calls, owned, contended>>

CountDown(t) ==
  /\ pc[t] = "uncount"
  /\ elementsCount' = (elementsCount + SizeModulus - 1) % SizeModulus
  /\ Go(t, "unlock", frame[t])
  /\ UNCHANGED <<listVars, spinlock_, calls, owned, contended>>

(***************************************************************************)
(* The lock_guard gives the mutex back and the call returns.  Mutant: a    *)
(* refusal keeps the mutex.                                                *)
(***************************************************************************)
UnlockUnlessRefused(t) ==
  /\ pc[t] = "unlock"
  /\ spinlock_' = IF frame[t].op = "tryLock" THEN spinlock_ ELSE Null
  /\ owned' = IF frame[t].op = "granted" THEN owned \cup {frame[t].node}
                                         ELSE owned
  /\ contended' = [contended EXCEPT ![t] = FALSE]
  /\ Go(t, "idle", Rest)
  /\ UNCHANGED <<listVars, elementsCount, calls>>

Unlock(t) ==
  /\ pc[t] = "unlock"
  /\ spinlock_' = Null
  /\ owned' = IF frame[t].op = "granted" THEN owned \cup {frame[t].node}
                                         ELSE owned
  /\ contended' = [contended EXCEPT ![t] = FALSE]
  /\ Go(t, "idle", Rest)
  /\ UNCHANGED <<listVars, elementsCount, calls>>

-----------------------------------------------------------------------------
Step(t) ==
  \/ Lock(t) \/ FindNodes(t) \/ InsertRange(t) \/ CountUp(t)
  \/ Remove(t) \/ CountDown(t) \/ Unlock(t)

Next ==
  \E t \in Threads :
    \/ \E r \in Requests, height \in Levels : TryLock(t, r, height)
    \/ \E r \in Requests : ReleaseLock(t, r)
    \/ Step(t)

Spec == Init /\ [][Next]_vars

(***************************************************************************)
(* Threads are scheduled.  A std::mutex promises no order among those that *)
(* wait for it: that none is overtaken forever comes from MaxCalls.        *)
(***************************************************************************)
FairSpec == Spec /\ \A t \in Threads : WF_vars(Step(t))

-----------------------------------------------------------------------------
(***************************************************************************)
(* Every level is an ordered chain from head to tail of exactly the locked *)
(* nodes that are high enough.  releaseLock needs it: it stops cutting at  *)
(* the first level where it does not meet the node.                        *)
(***************************************************************************)
SkipListShape ==
  \A l \in Levels :
    /\ Chain(l) = {n \in Chain(0) : level[n] >= l} /\ tail \in Chain(l)
    /\ \A n \in Chain(l) \ {head, tail} : End(n) < Start(forward[n][l])

(***************************************************************************)
(* What a client has been granted and has not released is in the list: no  *)
(* release of another range removes it.                                    *)
(***************************************************************************)
OwnersProtected == owned \subseteq Locked

(***************************************************************************)
(* Whenever nobody holds the mutex, size() is the number of locked ranges. *)
(***************************************************************************)
SizeCounts == spinlock_ = Null => elementsCount = Cardinality(Locked)

(***************************************************************************)
(* Every call returns: no path through a call keeps the mutex, and none    *)
(* follows a null pointer.                                                 *)
(***************************************************************************)
CallsReturn == \A t \in Threads : (pc[t] # "idle") ~> (pc[t] = "idle")

-----------------------------------------------------------------------------
(***************************************************************************)
(* The list as a range lock: a range is granted by InsertRange and freed   *)
(* by Remove.                                                              *)
(***************************************************************************)
CallOf(t) ==
  LET f == frame[t] IN
  CASE f.op = "none" -> [op |-> "idle"]
    [] f.op = "tryLock" /\ pc[t] # "count" ->
         [op |-> "tryLock", range |-> f.want, contended |-> contended[t]]
    [] f.op = "granted" \/ pc[t] = "count" ->
         [op |-> "granted", range |-> f.want]
    [] OTHER -> [op |-> f.op, range |-> f.want]

Abstract == INSTANCE RangeLock WITH
  held <- {range[n] : n \in Locked},
  call <- [t \in Threads |-> CallOf(t)],
  owned <- {range[n] : n \in owned},
  Overlap <- ClosedOverlap

(***************************************************************************)
(* Every behaviour of the list is one of the abstract range lock.          *)
(***************************************************************************)
ImplementsRangeLock == Abstract!Spec
=============================================================================

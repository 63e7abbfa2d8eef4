------------------------ MODULE ConcurrentRangeLock ------------------------
(***************************************************************************)
(* The lock-free skip list of src/src/v0/range_lock.hpp.  Every node of    *)
(* the list is a locked range; a node is deleted in two stages, first      *)
(* marked and then cut out ("snipped") by whichever search passes it.      *)
(*                                                                         *)
(* A step is one access to a shared word, with the thread's own            *)
(* computation up to the next access.  The C++ atomics are taken as        *)
(* sequentially consistent.                                                *)
(***************************************************************************)
EXTENDS Naturals, FiniteSets, Intervals, AtomicMarkableReference

CONSTANTS
  Threads,
  MaxLevel,         \* the template argument maxLevel
  Min, Max,         \* numeric_limits<T>::min() and max()
  SizeModulus,      \* size_t counts modulo this
  Requests,         \* the ranges the clients lock
  MaxCalls,         \* bound: calls of tryLock, by all threads together
  Misuse,           \* whether clients release ranges they do not own
  head, tail, Null

Levels == 0 .. MaxLevel

(***************************************************************************)
(* The k-th call of tryLock makes node k.  An attempt that fails leaks its *)
(* node before anyone else has seen it, so the next attempt of the same    *)
(* call can use the same name.                                             *)
(***************************************************************************)
NewNodes == 1 .. MaxCalls
Node == NewNodes \cup {head, tail}

ASSUME LevelAssumption == MaxLevel \in Nat

ASSUME SizeAssumption == SizeModulus \in Nat \ {0} /\ MaxCalls \in Nat

ASSUME RequestAssumption ==
  /\ Min \in Int /\ Max \in Int /\ Min < Max
  /\ \A r \in Requests :
       /\ r \in RangesOver(Int)
       /\ Min <= r.start /\ r.start <= r.end /\ r.end <= Max

ASSUME NodeAssumption ==
  /\ head # tail /\ Null \notin Node
  /\ head \notin NewNodes /\ tail \notin NewNodes

VARIABLES
  next,           \* next[n][l]: the word of node n at level l
  range,          \* start and end of a node
  topLevel,       \* the highest level a node is in
  elementsCount,  \* the atomic counter behind size()
  pc, frame,      \* where each thread is, and its local variables
  calls,          \* how often tryLock has been called
  owned,          \* nodes for which tryLock has returned true, unreleased
  linked,         \* history: the nodes in the list of level 0
  contended       \* history: whether an overlapping node has been linked
                  \* at some moment of the thread's call of tryLock

listVars == <<next, range, topLevel, linked>>
vars == <<next, range, topLevel, elementsCount, pc, frame, calls, owned,
          linked, contended>>

Start(n) == range[n].start
End(n) == range[n].end
Locked == linked \ {head, tail}

(***************************************************************************)
(* The locals of a thread outside every call.  A local whose value is dead *)
(* is put back to head.                                                    *)
(***************************************************************************)
Rest == [find |-> "none",                        \* which find is running
         want |-> [start |-> Min, end |-> Min],  \* its arguments
         top |-> 0,                              \* randomLevel()
         at |-> 0,                               \* the level to link next
         node |-> head,                          \* newNode, nodeToRemove
         lvl |-> 0, pred |-> head, curr |-> head, succ |-> head,
         preds |-> [l \in Levels |-> head],
         succs |-> [l \in Levels |-> head]]

Init ==
  /\ next = [n \in Node |-> [l \in Levels |->
               Pack(IF n = head THEN tail ELSE Null, FALSE)]]
  /\ range = [n \in Node |-> IF n = tail THEN [start |-> Max, end |-> Max]
                                         ELSE [start |-> Min, end |-> Min]]
  /\ topLevel = [n \in Node |-> IF n \in {head, tail} THEN MaxLevel ELSE 0]
  /\ elementsCount = 0
  /\ pc = [t \in Threads |-> "idle"]
  /\ frame = [t \in Threads |-> Rest]
  /\ calls = 0
  /\ owned = {}
  /\ linked = {head, tail}
  /\ contended = [t \in Threads |-> FALSE]

Go(t, label, f) ==
  /\ pc' = [pc EXCEPT ![t] = label]
  /\ frame' = [frame EXCEPT ![t] = f]

-----------------------------------------------------------------------------
(***************************************************************************)
(* The three searches, findInsert, findExact and findDelete.  They differ  *)
(* in their two comparisons and in what they return.                       *)
(***************************************************************************)
Enter(f) == IF f.find = "insert" THEN f.want.start > Start(f.curr)
                                 ELSE f.want.start >= Start(f.curr)

(* Mutant: findExact and findDelete pass nodes as findInsert does.         *)
PassAll(f) == f.want.start >= Start(f.curr)

Pass(f) == IF f.find = "insert" THEN f.want.start >= Start(f.curr)
                                ELSE f.want.start >= End(f.curr)

StartFind(f, kind) ==
  [f EXCEPT !.find = kind, !.lvl = MaxLevel,
            !.pred = head, !.curr = head, !.succ = head,
            !.preds = Rest.preds, !.succs = Rest.succs]

(***************************************************************************)
(* What findInsert returns, negated, and what findExact returns.           *)
(***************************************************************************)
RangeFreeTouching(f) ==    \* mutant: ranges that meet in a key do not overlap
  f.want.start >= End(f.pred) /\ f.want.end <= Start(f.curr)

RangeFreeGap(f) ==         \* mutant: adjacent ranges overlap
  f.want.start > End(f.pred) + 1 /\ f.want.end + 1 < Start(f.curr)

RangeFree(f) == f.want.start > End(f.pred) /\ f.want.end < Start(f.curr)
RangeFound(f) == f.want = range[f.curr]

(***************************************************************************)
(* The search leaves a level with f.pred and f.curr around the wanted      *)
(* range: it goes down, or returns to its caller.  findDelete has no       *)
(* preds and succs.                                                        *)
(***************************************************************************)
Settle(t, f) ==
  LET g == IF f.find = "delete" THEN f
           ELSE [f EXCEPT !.preds[f.lvl] = f.pred, !.succs[f.lvl] = f.curr]
      h == [g EXCEPT !.pred = head, !.curr = head, !.succ = head]
  IN  \/ /\ f.lvl > 0
         /\ Go(t, "curr", [g EXCEPT !.lvl = f.lvl - 1,
                                    !.curr = head, !.succ = head])
      \/ /\ f.lvl = 0 /\ f.find = "insert" /\ f.at = 0
         /\ Go(t, IF RangeFree(f) THEN "link" ELSE "found", h)
      \/ /\ f.lvl = 0 /\ f.find = "insert" /\ f.at > 0
         /\ Go(t, "up", h)
      \/ /\ f.lvl = 0 /\ f.find = "exact" /\ RangeFound(f)
         /\ Go(t, IF topLevel[f.curr] > 0 THEN "mark" ELSE "bottom",
                  [h EXCEPT !.node = f.curr, !.lvl = topLevel[f.curr]])
      \/ /\ f.lvl = 0 /\ f.find = "exact" /\ ~RangeFound(f)
         /\ Go(t, "wrong", h)
      \/ /\ f.lvl = 0 /\ f.find = "delete"
         /\ Go(t, "uncount", h)

(***************************************************************************)
(* The search has moved on to f.curr and asks for its start.  Behind the   *)
(* tail there is no node: null is dereferenced, and the thread is lost.    *)
(***************************************************************************)
Arrive(t, f) ==
  IF f.curr = Null THEN Go(t, "crash", f)
                   ELSE \/ Enter(f) /\ Go(t, "succ", f)
                        \/ ~Enter(f) /\ Settle(t, f)

ReadCurr(t) ==
  /\ pc[t] = "curr"
  /\ LET f == frame[t]
     IN  Arrive(t, [f EXCEPT !.curr = next[f.pred][f.lvl].ref])
  /\ UNCHANGED <<listVars, elementsCount, calls, owned, contended>>

ReadSucc(t) ==
  /\ pc[t] = "succ"
  /\ LET f == frame[t]
         w == next[f.curr][f.lvl]
     IN  \/ w.mark /\ Go(t, "snip", [f EXCEPT !.succ = w.ref])
         \/ ~w.mark /\ Pass(f)
              /\ Arrive(t, [f EXCEPT !.pred = f.curr, !.curr = w.ref])
         \/ ~w.mark /\ ~Pass(f) /\ Settle(t, f)
  /\ UNCHANGED <<listVars, elementsCount, calls, owned, contended>>

(***************************************************************************)
(* Mutants of Snip: a plain store instead of compareAndSet, and a search   *)
(* that tries the same compareAndSet again when it fails.                  *)
(***************************************************************************)
SnipStore(t) ==
  /\ pc[t] = "snip"
  /\ LET f == frame[t] IN
     /\ next' = [next EXCEPT ![f.pred][f.lvl] = Pack(f.succ, FALSE)]
     /\ linked' = IF f.lvl = 0 THEN linked \ {f.curr} ELSE linked
     /\ Go(t, "again", [f EXCEPT !.curr = head, !.succ = head])
  /\ UNCHANGED <<range, topLevel, elementsCount, calls, owned, contended>>

SnipInsists(t) ==
  /\ CanSet(next[frame[t].pred][frame[t].lvl], frame[t].curr, FALSE)
  /\ SnipStore(t)

(***************************************************************************)
(* Cut the marked node out of this level; if pred has changed or has been  *)
(* marked itself, search again from the head.                              *)
(***************************************************************************)
Snip(t) ==
  /\ pc[t] = "snip"
  /\ LET f == frame[t] IN
     \/ /\ CanSet(next[f.pred][f.lvl], f.curr, FALSE)
        /\ next' = [next EXCEPT ![f.pred][f.lvl] = Pack(f.succ, FALSE)]
        /\ linked' = IF f.lvl = 0 THEN linked \ {f.curr} ELSE linked
        /\ Go(t, "again", [f EXCEPT !.curr = head, !.succ = head])
     \/ /\ ~CanSet(next[f.pred][f.lvl], f.curr, FALSE)
        /\ Go(t, "curr", StartFind(f, f.find))
        /\ UNCHANGED <<next, linked>>
  /\ UNCHANGED <<range, topLevel, elementsCount, calls, owned, contended>>

(***************************************************************************)
(* After a snip the search reads pred's successor again and goes on with   *)
(* it without the test of the outer loop.                                  *)
(***************************************************************************)
Reread(t) ==
  /\ pc[t] = "again"
  /\ LET f == frame[t]
     IN  Go(t, "succ", [f EXCEPT !.curr = next[f.pred][f.lvl].ref])
  /\ UNCHANGED <<listVars, elementsCount, calls, owned, contended>>

-----------------------------------------------------------------------------
(***************************************************************************)
(* tryLock.                                                                *)
(***************************************************************************)
TryLock(t, r, height) ==
  /\ pc[t] = "idle"
  /\ calls < MaxCalls
  /\ calls' = calls + 1
  /\ contended' = [contended EXCEPT ![t] =
                     \E n \in Locked : ClosedOverlap(range[n], r)]
  /\ Go(t, "curr", StartFind([Rest EXCEPT !.want = r, !.top = height,
                                          !.node = calls + 1],
                             "insert"))
  /\ UNCHANGED <<listVars, elementsCount, owned>>

(***************************************************************************)
(* An overlap was found: return false.                                     *)
(***************************************************************************)
Refuse(t) ==
  /\ pc[t] = "found"
  /\ Go(t, "idle", Rest)
  /\ contended' = [contended EXCEPT ![t] = FALSE]
  /\ UNCHANGED <<listVars, elementsCount, calls, owned>>

(***************************************************************************)
(* The words of a new node, after two mutants: the successor of level 0 on *)
(* every level, and predecessors for successors.                           *)
(***************************************************************************)
NewWordsFlat(f) ==
  [l \in Levels |-> Pack(IF l <= f.top THEN f.succs[0] ELSE Null, FALSE)]

NewWordsSwapped(f) ==
  [l \in Levels |-> Pack(IF l <= f.top THEN f.preds[l] ELSE Null, FALSE)]

NewWords(f) ==
  [l \in Levels |-> Pack(IF l <= f.top THEN f.succs[l] ELSE Null, FALSE)]

(***************************************************************************)
(* Make the node and link it into level 0: from here on the range is       *)
(* locked.  If that fails, the node is dropped and the search repeated.    *)
(***************************************************************************)
LinkBottom(t) ==
  /\ pc[t] = "link"
  /\ LET f == frame[t]
         pred == f.preds[0]
     IN
     \/ /\ CanSet(next[pred][0], f.succs[0], FALSE)
        /\ next' = [next EXCEPT ![f.node] = NewWords(f),
                                ![pred][0] = Pack(f.node, FALSE)]
        /\ range' = [range EXCEPT ![f.node] = f.want]
        /\ topLevel' = [topLevel EXCEPT ![f.node] = f.top]
        /\ linked' = linked \cup {f.node}
        /\ contended' = [u \in Threads |->
             u # t /\ ( \/ contended[u]
                        \/ /\ frame[u].find = "insert" /\ frame[u].at = 0
                           /\ ClosedOverlap(f.want, frame[u].want) )]
        /\ Go(t, IF f.top > 0 THEN "up" ELSE "count", [f EXCEPT !.at = 1])
     \/ /\ ~CanSet(next[pred][0], f.succs[0], FALSE)
        /\ Go(t, "curr", StartFind(f, "insert"))
        /\ UNCHANGED <<listVars, contended>>
  /\ UNCHANGED <<elementsCount, calls, owned>>

(***************************************************************************)
(* Link the node into level f.at.  The node's own word of that level keeps *)
(* the successor found before the node was published, also after the       *)
(* search has been repeated.                                               *)
(***************************************************************************)
LinkUpper(t) ==
  /\ pc[t] = "up"
  /\ LET f == frame[t]
         pred == f.preds[f.at]
     IN
     \/ /\ CanSet(next[pred][f.at], f.succs[f.at], FALSE)
        /\ next' = [next EXCEPT ![pred][f.at] = Pack(f.node, FALSE)]
        /\ Go(t, IF f.at < f.top THEN "up" ELSE "count",
                 [f EXCEPT !.at = @ + 1])
     \/ /\ ~CanSet(next[pred][f.at], f.succs[f.at], FALSE)
        /\ Go(t, "curr", StartFind(f, "insert"))
        /\ UNCHANGED next
  /\ UNCHANGED <<range, topLevel, linked, elementsCount, calls, owned,
                 contended>>

(***************************************************************************)
(* Count the node and return true.                                         *)
(***************************************************************************)
CountUp(t) ==
  /\ pc[t] = "count"
  /\ elementsCount' = IF elementsCount = SizeModulus - 1 THEN 0
                                                         ELSE elementsCount + 1
  /\ owned' = owned \cup {frame[t].node}
  /\ Go(t, "idle", Rest)
  /\ UNCHANGED <<listVars, calls, contended>>

-----------------------------------------------------------------------------
(***************************************************************************)
(* releaseLock.                                                            *)
(***************************************************************************)
ReleaseLock(t, r) ==
  /\ pc[t] = "idle"
  /\ \/ \E n \in owned : range[n] = r /\ owned' = owned \ {n}
     \/ Misuse /\ r \in Requests /\ UNCHANGED owned
  /\ Go(t, "curr", StartFind([Rest EXCEPT !.want = r], "exact"))
  /\ UNCHANGED <<listVars, elementsCount, calls, contended>>

(***************************************************************************)
(* Mark the upper levels, highest first.                                   *)
(***************************************************************************)
MarkUpper(t) ==
  /\ pc[t] = "mark"
  /\ LET f == frame[t]
         w == next[f.node][f.lvl]
     IN  IF w.mark THEN Go(t, IF f.lvl > 1 THEN "mark" ELSE "bottom",
                              [f EXCEPT !.lvl = @ - 1, !.succ = head])
                   ELSE Go(t, "attempt", [f EXCEPT !.succ = w.ref])
  /\ UNCHANGED <<listVars, elementsCount, calls, owned, contended>>

TryMarkOnce(t) ==      \* mutant: goes on without looking at the result
  /\ pc[t] = "attempt"
  /\ LET f == frame[t]
     IN  /\ next' = [next EXCEPT ![f.node][f.lvl] = AttemptMark(@, f.succ)]
         /\ Go(t, IF f.lvl > 1 THEN "mark" ELSE "bottom",
                  [f EXCEPT !.lvl = @ - 1, !.succ = head])
  /\ UNCHANGED <<range, topLevel, linked, elementsCount, calls, owned,
                 contended>>

TryMark(t) ==
  /\ pc[t] = "attempt"
  /\ LET f == frame[t]
     IN  /\ next' = [next EXCEPT ![f.node][f.lvl] = AttemptMark(@, f.succ)]
         /\ Go(t, "mark", [f EXCEPT !.succ = head])
  /\ UNCHANGED <<range, topLevel, linked, elementsCount, calls, owned,
                 contended>>

ReadBottom(t) ==
  /\ pc[t] = "bottom"
  /\ LET f == frame[t]
     IN  Go(t, "delete", [f EXCEPT !.succ = next[f.node][0].ref])
  /\ UNCHANGED <<listVars, elementsCount, calls, owned, contended>>

(***************************************************************************)
(* Mutants of MarkBottom: a plain store instead of compareAndSet, and a    *)
(* release that leaves the snip to later searches.                         *)
(***************************************************************************)
MarkBottomStore(t) ==
  /\ pc[t] = "delete"
  /\ LET f == frame[t] IN
     /\ next' = [next EXCEPT ![f.node][0] = Pack(f.succ, TRUE)]
     /\ Go(t, "curr", StartFind(f, "delete"))
  /\ UNCHANGED <<range, topLevel, linked, elementsCount, calls, owned,
                 contended>>

MarkBottomLazy(t) ==
  /\ pc[t] = "delete"
  /\ LET f == frame[t] IN
     /\ CanSet(next[f.node][0], f.succ, FALSE)
     /\ next' = [next EXCEPT ![f.node][0] = Pack(f.succ, TRUE)]
     /\ Go(t, "uncount", [f EXCEPT !.find = "delete", !.succ = head])
  /\ UNCHANGED <<range, topLevel, linked, elementsCount, calls, owned,
                 contended>>

(***************************************************************************)
(* Mark level 0: the thread whose compareAndSet succeeds is the one that   *)
(* deletes the node.                                                       *)
(***************************************************************************)
MarkBottom(t) ==
  /\ pc[t] = "delete"
  /\ LET f == frame[t] IN
     \/ /\ CanSet(next[f.node][0], f.succ, FALSE)
        /\ next' = [next EXCEPT ![f.node][0] = Pack(f.succ, TRUE)]
        /\ Go(t, "curr", StartFind(f, "delete"))
     \/ /\ ~CanSet(next[f.node][0], f.succ, FALSE)
        /\ Go(t, "recheck", f)
        /\ UNCHANGED next
  /\ UNCHANGED <<range, topLevel, linked, elementsCount, calls, owned,
                 contended>>

Recheck(t) ==
  /\ pc[t] = "recheck"
  /\ LET f == frame[t]
         w == next[f.node][0]
     IN  IF w.mark THEN Go(t, "wrong", [f EXCEPT !.succ = head])
                   ELSE Go(t, "delete", [f EXCEPT !.succ = w.ref])
  /\ UNCHANGED <<listVars, elementsCount, calls, owned, contended>>

(***************************************************************************)
(* findDelete is done: return true.                                        *)
(***************************************************************************)
CountDownSigned(t) ==     \* mutant: the counter does not wrap
  /\ pc[t] = "uncount"
  /\ elementsCount' = elementsCount - 1
  /\ Go(t, "idle", Rest)
  /\ UNCHANGED <<listVars, calls, owned, contended>>

CountDown(t) ==
  /\ pc[t] = "uncount"
  /\ elementsCount' = IF elementsCount = 0 THEN SizeModulus - 1
                                           ELSE elementsCount - 1
  /\ Go(t, "idle", Rest)
  /\ UNCHANGED <<listVars, calls, owned, contended>>

(***************************************************************************)
(* "Wrong usage of releaseLock": return false.                             *)
(***************************************************************************)
ReportWrong(t) ==
  /\ pc[t] = "wrong"
  /\ Go(t, "idle", Rest)
  /\ UNCHANGED <<listVars, elementsCount, calls, owned, contended>>

-----------------------------------------------------------------------------
(***************************************************************************)
(* The next step of a thread that is in a call.                            *)
(***************************************************************************)
Step(t) ==
  \/ ReadCurr(t) \/ ReadSucc(t) \/ Snip(t) \/ Reread(t)
  \/ Refuse(t) \/ LinkBottom(t) \/ LinkUpper(t) \/ CountUp(t)
  \/ MarkUpper(t) \/ TryMark(t) \/ ReadBottom(t) \/ MarkBottom(t)
  \/ Recheck(t) \/ CountDown(t) \/ ReportWrong(t)

Next ==
  \E t \in Threads :
    \/ \E r \in Requests, height \in Levels : TryLock(t, r, height)
    \/ \E r \in Requests : ReleaseLock(t, r)
    \/ Step(t)

Spec == Init /\ [][Next]_vars

(***************************************************************************)
(* Threads are scheduled: a thread inside a call keeps taking its steps.   *)
(* Nothing makes a client call.                                            *)
(***************************************************************************)
FairSpec == Spec /\ \A t \in Threads : WF_vars(Step(t))
-----------------------------------------------------------------------------
(***************************************************************************)
(* Type invariant.                                                         *)
(***************************************************************************)
Labels == {"idle", "curr", "succ", "snip", "again", "found", "link", "up",
           "count", "mark", "attempt", "bottom", "delete", "recheck",
           "uncount", "wrong"}

Frames ==
  [find : {"none", "insert", "exact", "delete"},
   want : RangesOver(Int),
   top : Levels, at : 0 .. (MaxLevel + 1),
   node : Node, lvl : Levels,
   pred : Node, curr : Node, succ : Node,
   preds : [Levels -> Node], succs : [Levels -> Node]]

(***************************************************************************)
(* Every variable has its type.  In particular no thread dereferences null *)
(* (no label is "crash"; pred, curr and succ are nodes), which the code    *)
(* does not test for: it relies on the tail stopping every search, as it   *)
(* does where no range begins at the highest key.                          *)
(***************************************************************************)
TypeOK ==
  /\ next \in [Node -> [Levels -> WordsOver(Node \cup {Null})]]
  /\ range \in [Node -> RangesOver(Int)]
  /\ topLevel \in [Node -> Levels]
  /\ elementsCount \in 0 .. (SizeModulus - 1)
  /\ pc \in [Threads -> Labels]
  /\ frame \in [Threads -> Frames]
  /\ calls \in 0 .. MaxCalls
  /\ owned \in SUBSET NewNodes
  /\ linked \in SUBSET Node
  /\ contended \in [Threads -> BOOLEAN]

(***************************************************************************)
(* Mutual exclusion: no two ranges in the list overlap, whether they are   *)
(* granted, still being linked, or marked and not yet cut out.             *)
(***************************************************************************)
MutualExclusion ==
  \A m, n \in Locked : m # n => ~ClosedOverlap(range[m], range[n])

(***************************************************************************)
(* What a thread has been granted stays locked until that grant itself is  *)
(* given back: no search, release or retry of another thread takes the     *)
(* owner's node out of the list of level 0 or marks it.                    *)
(***************************************************************************)
OwnersProtected ==
  \A n \in owned :
    /\ \E p \in linked : next[p][0].ref = n
    /\ ~next[n][0].mark

(***************************************************************************)
(* The list of level 0 is a chain from head to tail, in order, without     *)
(* overlap, and nothing lies between neighbours: what the test             *)
(* CorrectOrderOfInsertion walks over after the fact, in every state.      *)
(***************************************************************************)
OrderedChain ==
  /\ {head, tail} \subseteq linked
  /\ \A p \in linked \ {tail} :
       /\ next[p][0].ref \in linked
       /\ End(p) < Start(next[p][0].ref)
       /\ \A q \in linked :
            Start(q) <= Start(p) \/ Start(next[p][0].ref) <= Start(q)

(***************************************************************************)
(* tryLock returns false only if a range that overlaps the request was in  *)
(* the list at some moment of the call.                                    *)
(***************************************************************************)
RefusalsJustified == \A t \in Threads : pc[t] = "found" => contended[t]

(***************************************************************************)
(* releaseLock never tells a client that releases what it owns of "wrong   *)
(* usage".                                                                 *)
(***************************************************************************)
OwnerReleases == \A t \in Threads : pc[t] # "wrong"

(***************************************************************************)
(* Memory safety: a search only follows a node's word at a level that the  *)
(* node has (next is an array of topLevel + 1 words) and never stands on   *)
(* the tail when it goes on.  It has to hold although upper levels are     *)
(* linked with references that may be out of date.                         *)
(***************************************************************************)
WordsExist ==
  \A t \in Threads :
    LET f == frame[t] IN
    /\ pc[t] \in {"curr", "snip", "again"} =>
         f.lvl <= topLevel[f.pred] /\ f.pred # tail
    /\ pc[t] \in {"succ", "snip"} => f.lvl <= topLevel[f.curr]
    /\ pc[t] = "up" => f.at <= topLevel[f.preds[f.at]]

(***************************************************************************)
(* No level leads back: the successor of a node, at any of its levels,     *)
(* starts after it.  The one exception is a node that was linked on an     *)
(* upper level in front of the deleted node of an earlier lock that began  *)
(* at the same key.  A level with a cycle would trap every search.         *)
(***************************************************************************)
LevelsAscend ==
  \A n \in Node, l \in Levels :
    LET s == next[n][l].ref IN
    s # Null => \/ Start(n) < Start(s)
                \/ Start(n) = Start(s) /\ l > 0 /\ next[s][0].mark

(***************************************************************************)
(* A node is marked from its highest level down, so that a search that     *)
(* finds a node unmarked at any level has found a range that is locked.    *)
(***************************************************************************)
UnmarkedIsLinked ==
  \A n \in Node, l \in Levels :
    next[n][l].ref # Null /\ ~next[n][l].mark =>
      n \in linked /\ ~next[n][0].mark

(***************************************************************************)
(* size() counts the locked ranges modulo the width of size_t, apart from  *)
(* the calls that are between changing the list and counting: of several   *)
(* releases of one range exactly one deletes it.                           *)
(***************************************************************************)
Live == {n \in Locked : ~next[n][0].mark}
Uncounted == {t \in Threads : frame[t].find = "insert" /\ frame[t].at > 0}
Deleting == {t \in Threads : frame[t].find = "delete"}

SizeCounts ==
  (elementsCount + Cardinality(Uncounted)) % SizeModulus
    = (Cardinality(Live) + Cardinality(Deleting)) % SizeModulus

(***************************************************************************)
(* A marked word never changes again.  Snip relies on it: it writes the    *)
(* successor it read from the marked word some steps before.               *)
(***************************************************************************)
MarkedWordsFrozen ==
  [][\A n \in Node, l \in Levels :
       next[n][l].mark => next'[n][l] = next[n][l]]_vars

(***************************************************************************)
(* Every call returns, although every loop of the code retries without a   *)
(* bound when another thread has got in between.                           *)
(***************************************************************************)
CallsReturn == \A t \in Threads : (pc[t] # "idle") ~> (pc[t] = "idle")

-----------------------------------------------------------------------------
(***************************************************************************)
(* The skip list implements the range lock.  A range is locked while its   *)
(* node is in the list of level 0: it is granted by the compareAndSet of   *)
(* LinkBottom and freed by the Snip of level 0, whoever does it.           *)
(***************************************************************************)
CallOf(t) ==
  LET f == frame[t] IN
  CASE f.find = "none" -> [op |-> "idle"]
    [] f.find = "insert" /\ f.at = 0 ->
         [op |-> "tryLock", range |-> f.want, contended |-> contended[t]]
    [] f.find = "insert" /\ f.at > 0 -> [op |-> "granted", range |-> f.want]
    [] f.find = "exact" \/ (f.find = "delete" /\ f.node \in linked) ->
         [op |-> "releaseLock", range |-> f.want]
    [] OTHER -> [op |-> "released", range |-> f.want]

Abstract == INSTANCE RangeLock WITH
  held <- {range[n] : n \in Locked},
  call <- [t \in Threads |-> CallOf(t)],
  owned <- {range[n] : n \in owned},
  Overlap <- ClosedOverlap

(***************************************************************************)
(* Every behaviour of the list, seen through this mapping, is one of the   *)
(* abstract range lock: grants exclude, refusals are justified, a release  *)
(* frees the released range and nothing else, and has freed it when it     *)
(* returns.                                                                *)
(***************************************************************************)
ImplementsRangeLock == Abstract!Spec
=============================================================================

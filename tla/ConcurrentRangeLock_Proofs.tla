-------------------- MODULE ConcurrentRangeLock_Proofs --------------------
(***************************************************************************)
(* Proofs about the skip list of src/src/v0, for every number of threads,  *)
(* levels, calls and requests, no range of which begins at the highest     *)
(* key.                                                                    *)
(***************************************************************************)
EXTENDS ConcurrentRangeLock, TLAPS

(***************************************************************************)
(* No range begins at the highest key, which is where the tail begins: a   *)
(* search for such a range may step over the tail.  The theorems assume    *)
(* this; TypeOK is violated without it.                                    *)
(***************************************************************************)
BelowMax == \A r \in Requests : r.start < Max

(***************************************************************************)
(* A node is published once it has been linked into level 0; from then on  *)
(* its range, its topLevel and its marked words are fixed for good.        *)
(***************************************************************************)
Published(n) == n = tail \/ next[n][0].ref # Null

HasLevel(n, l) == n \in Node /\ Published(n) /\ l <= topLevel[n]

(***************************************************************************)
(* The nodes in the list exclude each other, and every published node that *)
(* is not marked is in the list.                                           *)
(***************************************************************************)
Disjoint ==
  \A m, n \in linked : m # n => End(m) < Start(n) \/ End(n) < Start(m)

Membership ==
  \A n \in Node : /\ n \in linked => Published(n)
                  /\ Published(n) /\ ~next[n][0].mark => n \in linked

(***************************************************************************)
(* A published node has a successor, which has that level too, at each of  *)
(* its levels.                                                             *)
(***************************************************************************)
Successors ==
  \A n \in Node \ {tail} : Published(n) =>
    \A l \in Levels : l <= topLevel[n] => HasLevel(next[n][l].ref, l)

Ends ==
  /\ range[head] = [start |-> Min, end |-> Min]
  /\ range[tail] = [start |-> Max, end |-> Max]
  /\ topLevel[head] = MaxLevel /\ topLevel[tail] = MaxLevel
  /\ \A l \in Levels : next[tail][l] = Pack(Null, FALSE)
  /\ \A n \in Node : Published(n) => Min <= Start(n) /\ Start(n) <= End(n)
  /\ \A n \in Node, l \in Levels : next[n][l].mark => Published(n)

(***************************************************************************)
(* What a thread that is at label p with the locals f knows.               *)
(***************************************************************************)
Searching == {"curr", "succ", "snip", "again"}

Noted(f, l) == HasLevel(f.preds[l], l) /\ HasLevel(f.succs[l], l)

Searches(f) ==
  /\ f.find \in {"insert", "exact", "delete"}
  /\ HasLevel(f.pred, f.lvl) /\ f.pred # tail
  /\ f.find # "delete" => \A l \in Levels : l > f.lvl => Noted(f, l)

Inserts(f) ==
  f.find = "insert" =>
    /\ f.node \in NewNodes
    /\ f.at = 0 => f.node <= calls /\ ~Published(f.node)
    /\ f.at > 0 => HasLevel(f.node, f.top) /\ topLevel[f.node] = f.top

FrameOK(p, f) ==
  /\ p # "idle" => f.want \in Requests
  /\ p \in Searching => Searches(f)
  /\ p \in Searching /\ f.find = "insert" => f.at <= f.top
  /\ p \in {"succ", "snip"} => HasLevel(f.curr, f.lvl)
  /\ p = "snip" => next[f.curr][f.lvl] = Pack(f.succ, TRUE)
  /\ p \in {"link", "up"} =>
       f.find = "insert" /\ \A l \in Levels : Noted(f, l)
  /\ p = "link" => /\ f.at = 0
                   /\ End(f.preds[0]) < f.want.start
                   /\ f.want.end < Start(f.succs[0])
  /\ p = "up" => 0 < f.at /\ f.at <= f.top
  /\ p = "count" => f.find = "insert"
  /\ p \in {"mark", "attempt", "bottom", "delete", "recheck"} =>
       HasLevel(f.node, f.lvl) /\ f.node # tail
  /\ p \in {"mark", "attempt"} => f.lvl > 0
  /\ Inserts(f)

(***************************************************************************)
(* Nodes that no call has made yet are not published, and two calls that   *)
(* are still looking for a place do not share a node.                      *)
(***************************************************************************)
Fresh ==
  /\ \A n \in NewNodes : n > calls => ~Published(n)
  /\ \A t, u \in Threads :
       /\ t # u
       /\ frame[t].find = "insert" /\ frame[t].at = 0
       /\ frame[u].find = "insert" /\ frame[u].at = 0
       => frame[t].node # frame[u].node

ListInv == OrderedChain /\ Disjoint /\ Membership /\ Successors /\ Ends

IInv ==
  /\ BelowMax
  /\ TypeOK
  /\ ListInv
  /\ Fresh
  /\ \A t \in Threads : FrameOK(pc[t], frame[t])

-----------------------------------------------------------------------------
(***************************************************************************)
(* What no step undoes: published nodes stay published and keep their      *)
(* range and height, and marked words stay as they are.                    *)
(***************************************************************************)
Stable ==
  /\ \A n \in Node : Published(n) =>
       Published(n)' /\ range'[n] = range[n] /\ topLevel'[n] = topLevel[n]
  /\ \A n \in Node, l \in Levels :
       next[n][l].mark => next'[n][l] = next[n][l]
  /\ calls <= calls'

(***************************************************************************)
(* A search that has reached f.curr at level f.lvl, before it decides.     *)
(***************************************************************************)
Arrived(f) ==
  /\ f \in Frames /\ f.want \in Requests
  /\ Searches(f) /\ Inserts(f)
  /\ f.find = "insert" => f.at <= f.top
  /\ HasLevel(f.curr, f.lvl)

(***************************************************************************)
(* Thread t moves from the locals f to a state in which it knows what      *)
(* FrameOK says, as long as the list is as it was.                         *)
(***************************************************************************)
Moved(t, f) ==
  /\ pc' \in [Threads -> Labels]
  /\ frame' \in [Threads -> Frames]
  /\ \A u \in Threads \ {t} : pc'[u] = pc[u] /\ frame'[u] = frame[u]
  /\ FrameOK(pc'[t], frame'[t])
  /\ frame'[t].find = "insert" /\ frame'[t].at = 0 =>
       f.find = "insert" /\ f.at = 0 /\ frame'[t].node = f.node

(***************************************************************************)
(* The locals at rest, and at the start of a search, have their type.      *)
(***************************************************************************)
LEMMA RestType == Rest \in Frames
  BY LevelAssumption, RequestAssumption, SMT
     DEF Rest, Frames, Node, Levels, RangesOver

(***************************************************************************)
(* What is known of a search that starts at the head.                      *)
(***************************************************************************)
LEMMA StartFindFacts ==
  ASSUME NEW f \in Frames, NEW kind \in {"insert", "exact", "delete"}
  PROVE  LET g == StartFind(f, kind) IN
         /\ g \in Frames /\ g.find = kind /\ g.lvl = MaxLevel
         /\ g.pred = head /\ g.want = f.want /\ g.top = f.top
         /\ g.at = f.at /\ g.node = f.node
<1>1. MaxLevel \in Levels /\ head \in Node
  BY LevelAssumption DEF Levels, Node
<1>2. Rest.preds \in [Levels -> Node] /\ Rest.succs \in [Levels -> Node]
  BY RestType DEF Frames
<1> QED BY <1>1, <1>2 DEF StartFind, Frames

(***************************************************************************)
(* A search may start whenever its arguments are those of a call.          *)
(***************************************************************************)
LEMMA StartFindOK ==
  ASSUME IInv, NEW f \in Frames, NEW kind \in {"insert", "exact", "delete"},
         f.want \in Requests, Inserts(StartFind(f, kind)),
         kind = "insert" => f.at <= f.top
  PROVE  FrameOK("curr", StartFind(f, kind))
<1> DEFINE g == StartFind(f, kind)
<1>1. /\ g \in Frames /\ g.find = kind /\ g.lvl = MaxLevel
      /\ g.pred = head /\ g.want = f.want /\ g.top = f.top
      /\ g.at = f.at
  BY StartFindFacts
<1>2. HasLevel(head, MaxLevel) /\ head # tail
  BY NodeAssumption, LevelAssumption
     DEF IInv, ListInv, OrderedChain, Membership, Ends, HasLevel, Node, TypeOK
<1>3. Inserts(g)
  OBVIOUS
<1> HIDE DEF g
<1>4. Searches(g)
  BY <1>1, <1>2, LevelAssumption DEF Searches, Levels
<1>5. FrameOK("curr", g)
  BY <1>1, <1>3, <1>4 DEF FrameOK
<1> QED BY <1>5 DEF g

(***************************************************************************)
(* Moving thread t changes nothing for the others.                         *)
(***************************************************************************)
LEMMA GoFacts ==
  ASSUME TypeOK, NEW t \in Threads, NEW p \in Labels, NEW g \in Frames,
         Go(t, p, g)
  PROVE  /\ pc' \in [Threads -> Labels] /\ frame' \in [Threads -> Frames]
         /\ pc'[t] = p /\ frame'[t] = g
         /\ \A u \in Threads \ {t} : pc'[u] = pc[u] /\ frame'[u] = frame[u]
  BY DEF Go, TypeOK

(***************************************************************************)
(* A thread that goes to a label with locals that fit it has moved.        *)
(***************************************************************************)
LEMMA GoMoves ==
  ASSUME TypeOK, NEW t \in Threads, NEW p \in Labels, NEW g \in Frames,
         Go(t, p, g), FrameOK(p, g), NEW f,
         g.find = "insert" /\ g.at = 0 =>
           f.find = "insert" /\ f.at = 0 /\ g.node = f.node
  PROVE  Moved(t, f)
<1>1. /\ pc' \in [Threads -> Labels] /\ frame' \in [Threads -> Frames]
      /\ pc'[t] = p /\ frame'[t] = g
      /\ \A u \in Threads \ {t} : pc'[u] = pc[u] /\ frame'[u] = frame[u]
  BY GoFacts
<1> QED BY <1>1 DEF Moved

(***************************************************************************)
(* Settle is sound: what the search notes at a level, and what it hands to *)
(* its caller at level 0, is what FrameOK promises.  This is where the two *)
(* comparisons of findInsert's return value become the facts that          *)
(* LinkBottom needs.                                                       *)
(***************************************************************************)
LEMMA SettleOK ==
  ASSUME IInv, NEW t \in Threads, NEW f, Arrived(f), Settle(t, f)
  PROVE  Moved(t, f)
<1> DEFINE g == IF f.find = "delete" THEN f
                ELSE [f EXCEPT !.preds[f.lvl] = f.pred,
                               !.succs[f.lvl] = f.curr]
           h == [g EXCEPT !.pred = head, !.curr = head, !.succ = head]
<1>0. TypeOK /\ f \in Frames /\ f.want \in Requests
      /\ f.find \in {"insert", "exact", "delete"}
  BY DEF IInv, Arrived, Searches
<1>1. /\ g \in Frames /\ g.want = f.want /\ g.find = f.find /\ g.at = f.at
      /\ g.top = f.top /\ g.node = f.node /\ g.lvl = f.lvl
      /\ g.pred = f.pred
      /\ f.find # "delete" =>
           \A l \in Levels : /\ g.preds[l] = IF l = f.lvl THEN f.pred
                                                          ELSE f.preds[l]
                             /\ g.succs[l] = IF l = f.lvl THEN f.curr
                                                          ELSE f.succs[l]
  BY <1>0 DEF Frames
<1>2. f.find # "delete" => \A l \in Levels : l >= f.lvl => Noted(g, l)
  BY <1>0, <1>1 DEF Arrived, Searches, Noted, Levels, Frames
<1>3. Inserts(g)
  BY <1>1 DEF Arrived, Inserts
<1> HIDE DEF g
<1>4. /\ h \in Frames /\ h.want = f.want /\ h.find = f.find /\ h.at = f.at
      /\ h.top = f.top /\ h.node = f.node /\ h.lvl = f.lvl
      /\ h.preds = g.preds /\ h.succs = g.succs
  BY <1>1 DEF Frames, Node
<1>5. Inserts(h)
  BY <1>1, <1>3, <1>4 DEF Inserts
<1>6. f.find # "delete" => \A l \in Levels : l >= f.lvl => Noted(h, l)
  BY <1>2, <1>4 DEF Noted
<1>a. CASE /\ f.lvl > 0
           /\ Go(t, "curr", [g EXCEPT !.lvl = f.lvl - 1,
                                      !.curr = head, !.succ = head])
  <2> DEFINE k == [g EXCEPT !.lvl = f.lvl - 1, !.curr = head, !.succ = head]
  <2>1. f.lvl - 1 \in Levels
    BY <1>0, <1>a, LevelAssumption DEF Frames, Levels
  <2>2. /\ k \in Frames /\ k.want = f.want /\ k.find = f.find
        /\ k.at = f.at /\ k.top = f.top /\ k.node = f.node
        /\ k.lvl = f.lvl - 1 /\ k.pred = f.pred
        /\ k.preds = g.preds /\ k.succs = g.succs
    BY <1>1, <2>1 DEF Frames, Node
  <2>3. Go(t, "curr", k)
    BY <1>a
  <2> HIDE DEF k
  <2>4. Inserts(k)
    BY <1>1, <1>3, <2>2 DEF Inserts
  <2>5. HasLevel(k.pred, k.lvl) /\ k.pred # tail
    <3>1. HasLevel(f.pred, f.lvl) /\ f.pred # tail /\ f.pred \in Node
      BY <1>0 DEF Arrived, Searches, Frames
    <3>2. f.lvl \in Int /\ topLevel[f.pred] \in Int
      BY <1>0, <3>1 DEF Frames, Levels, IInv, TypeOK
    <3>3. HasLevel(f.pred, f.lvl - 1)
      BY <3>1, <3>2 DEF HasLevel
    <3> QED BY <2>2, <3>1, <3>3
  <2>6. Searches(k)
    BY <1>0, <1>2, <2>2, <2>5, LevelAssumption
       DEF Searches, Noted, Levels, Frames
  <2>7. FrameOK("curr", k)
    BY <1>0, <2>2, <2>4, <2>6 DEF FrameOK, Arrived
  <2> QED BY <1>0, <2>2, <2>7, <2>3, GoMoves DEF Labels
<1> HIDE DEF h
<1>b. CASE /\ f.lvl = 0 /\ f.find = "insert" /\ f.at = 0
           /\ Go(t, IF RangeFree(f) THEN "link" ELSE "found", h)
  <2>1. 0 \in Levels /\ h.preds[0] = f.pred /\ h.succs[0] = f.curr
    BY <1>1, <1>4, <1>b, LevelAssumption DEF Levels
  <2>2. CASE RangeFree(f)
    <3>1. End(h.preds[0]) < h.want.start /\ h.want.end < Start(h.succs[0])
      BY <1>0, <1>4, <2>1, <2>2, RequestAssumption
         DEF RangeFree, IInv, TypeOK, End, Start, Arrived, Searches,
             HasLevel, RangesOver
    <3>2. FrameOK("link", h)
      BY <1>0, <1>4, <1>5, <1>6, <1>b, <3>1 DEF FrameOK, Searching, Levels
    <3> QED BY <1>0, <1>4, <1>b, <2>2, <3>2, GoMoves DEF Labels
  <2>3. CASE ~RangeFree(f)
    <3>1. FrameOK("found", h)
      BY <1>0, <1>4, <1>5 DEF FrameOK, Searching
    <3> QED BY <1>0, <1>4, <1>b, <2>3, <3>1, GoMoves DEF Labels
  <2> QED BY <2>2, <2>3
<1>c. CASE /\ f.lvl = 0 /\ f.find = "insert" /\ f.at > 0
           /\ Go(t, "up", h)
  <2>1. FrameOK("up", h)
    BY <1>0, <1>4, <1>5, <1>6, <1>c
       DEF FrameOK, Searching, Levels, Arrived
  <2> QED BY <1>0, <1>4, <1>c, <2>1, GoMoves DEF Labels
<1>d. CASE /\ f.lvl = 0 /\ f.find = "exact" /\ RangeFound(f)
           /\ Go(t, IF topLevel[f.curr] > 0 THEN "mark" ELSE "bottom",
                    [h EXCEPT !.node = f.curr, !.lvl = topLevel[f.curr]])
  <2> DEFINE k == [h EXCEPT !.node = f.curr, !.lvl = topLevel[f.curr]]
  <2>1. f.curr \in Node /\ Published(f.curr) /\ topLevel[f.curr] \in Levels
    BY <1>0 DEF Arrived, HasLevel, TypeOK
  <2>2. f.curr # tail
    BY <1>0, <1>d, RequestAssumption
       DEF RangeFound, IInv, BelowMax, ListInv, Ends
  <2>3. /\ k \in Frames /\ k.want = f.want /\ k.find = "exact"
        /\ k.node = f.curr /\ k.lvl = topLevel[f.curr]
    BY <1>4, <1>d, <2>1 DEF Frames
  <2> HIDE DEF k
  <2>4. HasLevel(k.node, k.lvl)
    BY <2>1, <2>3 DEF HasLevel, Levels
  <2>5. CASE topLevel[f.curr] > 0
    <3>1. FrameOK("mark", k)
      BY <1>0, <2>2, <2>3, <2>4, <2>5 DEF FrameOK, Searching, Inserts
    <3> QED BY <1>0, <1>d, <2>3, <2>5, <3>1, GoMoves DEF Labels, k
  <2>6. CASE ~(topLevel[f.curr] > 0)
    <3>1. FrameOK("bottom", k)
      BY <1>0, <2>2, <2>3, <2>4 DEF FrameOK, Searching, Inserts
    <3> QED BY <1>0, <1>d, <2>3, <2>6, <3>1, GoMoves DEF Labels, k
  <2> QED BY <2>5, <2>6
<1>e. CASE /\ f.lvl = 0 /\ f.find = "exact" /\ ~RangeFound(f)
           /\ Go(t, "wrong", h)
  <2>1. FrameOK("wrong", h)
    BY <1>0, <1>4, <1>5 DEF FrameOK, Searching
  <2> QED BY <1>0, <1>4, <1>e, <2>1, GoMoves DEF Labels
<1>f. CASE f.lvl = 0 /\ f.find = "delete" /\ Go(t, "uncount", h)
  <2>1. FrameOK("uncount", h)
    BY <1>0, <1>4, <1>5 DEF FrameOK, Searching
  <2> QED BY <1>0, <1>4, <1>f, <2>1, GoMoves DEF Labels
<1> QED BY <1>a, <1>b, <1>c, <1>d, <1>e, <1>f DEF Settle, g, h

(***************************************************************************)
(* A search that has reached a node either reads on or leaves the level,   *)
(* and knows enough in both cases.                                         *)
(***************************************************************************)
LEMMA ArriveOK ==
  ASSUME IInv, NEW t \in Threads, NEW f, Arrived(f), Arrive(t, f)
  PROVE  Moved(t, f)
<1>0. f.curr # Null
  BY NodeAssumption DEF Arrived, HasLevel
<1>1. CASE Enter(f) /\ Go(t, "succ", f)
  <2>1. FrameOK("succ", f)
    BY DEF FrameOK, Arrived
  <2> QED BY <1>1, <2>1, GoMoves DEF Labels, Arrived, IInv
<1>2. CASE ~Enter(f) /\ Settle(t, f)
  BY <1>2, SettleOK
<1> QED BY <1>0, <1>1, <1>2 DEF Arrive

-----------------------------------------------------------------------------
(***************************************************************************)
(* What a thread knows survives every step of the others, as long as they  *)
(* do not publish the node it is going to use.                             *)
(***************************************************************************)
LEMMA StableLevel ==
  ASSUME TypeOK, Stable, NEW n, NEW l, HasLevel(n, l)
  PROVE  HasLevel(n, l)'
  BY DEF HasLevel, Stable

(***************************************************************************)
(* What a thread knows survives every step that leaves published nodes and *)
(* marked words alone.                                                     *)
(***************************************************************************)
LEMMA RigidFrame ==
  ASSUME IInv, TypeOK', Stable, NEW p \in Labels, NEW f \in Frames,
         FrameOK(p, f),
         f.find = "insert" /\ f.at = 0 => ~Published(f.node)'
  PROVE  FrameOK(p, f)'
<1>1. TypeOK /\ calls \in Nat /\ calls' \in Nat /\ calls <= calls'
  <2>1. TypeOK /\ calls <= calls'
    BY DEF IInv, Stable
  <2>2. calls \in Nat /\ calls' \in Nat
    BY <2>1, SizeAssumption DEF TypeOK
  <2> QED BY <2>1, <2>2
<1>2. \A n \in Node, l \in Levels : HasLevel(n, l) => HasLevel(n, l)'
  BY <1>1, StableLevel
<1>3. \A l \in Levels : Noted(f, l) => Noted(f, l)'
  BY <1>2 DEF Noted, Frames
<1>4. Searches(f) => Searches(f)'
  BY <1>2, <1>3 DEF Searches, Frames
<1>5. Inserts(f) => Inserts(f)'
  <2>1. f.find = "insert" /\ f.at > 0 /\ HasLevel(f.node, f.top)
          => topLevel'[f.node] = topLevel[f.node]
    BY DEF HasLevel, Stable
  <2> QED BY <1>1, <1>2, <2>1 DEF Inserts, Frames, NewNodes
<1>6. p = "snip" => (next[f.curr][f.lvl] = Pack(f.succ, TRUE))'
  BY DEF FrameOK, HasLevel, Stable, Pack, Frames
<1>7. p = "link" => /\ (End(f.preds[0]) < f.want.start)'
                    /\ (f.want.end < Start(f.succs[0]))'
  <2> HAVE p = "link"
  <2>1. 0 \in Levels /\ Noted(f, 0)
    BY LevelAssumption DEF FrameOK, Levels
  <2> QED BY <2>1 DEF FrameOK, Noted, HasLevel, Stable, Start, End
<1> QED BY <1>2, <1>3, <1>4, <1>5, <1>6, <1>7 DEF FrameOK, Frames

(***************************************************************************)
(* The same for a thread whose own locals did not change.                  *)
(***************************************************************************)
LEMMA StableFrame ==
  ASSUME IInv, TypeOK', Stable, NEW u \in Threads,
         FrameOK(pc'[u], frame'[u]),
         frame'[u].find = "insert" /\ frame'[u].at = 0 =>
           ~Published(frame[u].node)'
  PROVE  FrameOK(pc[u], frame[u])'
<1>1. pc'[u] \in Labels /\ frame'[u] \in Frames
  BY DEF TypeOK
<1>2. PICK p \in Labels : p = pc'[u]
  BY <1>1
<1>3. PICK f \in Frames : f = frame'[u]
  BY <1>1
<1>4. f.find = "insert" /\ f.at = 0 => ~Published(f.node)'
  BY <1>3 DEF Published
<1>5. FrameOK(p, f)
  BY <1>2, <1>3
<1>6. FrameOK(p, f)'
  BY <1>4, <1>5, RigidFrame
<1> QED BY <1>2, <1>3, <1>6

(***************************************************************************)
(* Steps that leave the list alone.                                        *)
(***************************************************************************)
LEMMA QuietList ==
  ASSUME IInv, UNCHANGED listVars, calls' = calls
  PROVE  ListInv' /\ Stable
<1>1. /\ next' = next /\ range' = range /\ topLevel' = topLevel
      /\ linked' = linked
  BY DEF listVars
<1>2. Stable
  BY <1>1 DEF Stable, Published, IInv, TypeOK
<1>3. ListInv'
  BY <1>1 DEF IInv, ListInv, OrderedChain, Disjoint, Membership, Successors,
              Ends, HasLevel, Published, Start, End
<1> QED BY <1>2, <1>3

(***************************************************************************)
(* A step that moves one thread and leaves the list alone keeps the        *)
(* invariant.                                                              *)
(***************************************************************************)
LEMMA QuietStep ==
  ASSUME IInv, NEW t \in Threads, Moved(t, frame[t]),
         UNCHANGED <<listVars, calls>>,
         elementsCount' \in 0 .. (SizeModulus - 1),
         owned' \in SUBSET NewNodes, contended' \in [Threads -> BOOLEAN]
  PROVE  IInv'
<1>1. /\ next' = next /\ range' = range /\ topLevel' = topLevel
      /\ linked' = linked /\ calls' = calls
  BY DEF listVars
<1>2. ListInv' /\ Stable
  BY <1>1, QuietList DEF listVars
<1>3. TypeOK'
  BY <1>1 DEF IInv, TypeOK, Moved
<1>4. Fresh'
  BY <1>1 DEF IInv, Fresh, Moved, Published
<1>5. ASSUME NEW u \in Threads PROVE FrameOK(pc[u], frame[u])'
  <2>1. CASE u = t
    <3>1. FrameOK(pc'[t], frame'[t])
      BY DEF Moved
    <3> QED BY <1>1, <2>1, <3>1, ZenonT(60)
            DEF FrameOK, Searches, Noted, Inserts, HasLevel, Published,
                Start, End
  <2>2. CASE u # t
    <3>1. pc'[u] = pc[u] /\ frame'[u] = frame[u]
      BY <2>2 DEF Moved
    <3>2. FrameOK(pc'[u], frame'[u])
      BY <3>1 DEF IInv
    <3>3. frame'[u].find = "insert" /\ frame'[u].at = 0 =>
            ~Published(frame[u].node)'
      BY <1>1, <3>2 DEF FrameOK, Inserts, Published
    <3> QED BY <1>2, <1>3, <3>2, <3>3, StableFrame
  <2> QED BY <2>1, <2>2
<1> QED BY <1>2, <1>3, <1>4, <1>5 DEF IInv

(***************************************************************************)
(* Steps that change the list.                                             *)
(***************************************************************************)
LEMMA LoudStep ==
  ASSUME IInv, NEW t \in Threads,
         TypeOK', ListInv', Stable, Fresh', FrameOK(pc[t], frame[t])',
         \A u \in Threads \ {t} :
           /\ pc'[u] = pc[u] /\ frame'[u] = frame[u]
           /\ frame[u].find = "insert" /\ frame[u].at = 0 =>
                ~Published(frame[u].node)'
  PROVE  IInv'
<1>1. ASSUME NEW u \in Threads PROVE FrameOK(pc[u], frame[u])'
  <2>1. CASE u = t
    BY <2>1
  <2>2. CASE u # t
    <3>1. /\ FrameOK(pc'[u], frame'[u])
          /\ frame'[u].find = "insert" /\ frame'[u].at = 0 =>
               ~Published(frame[u].node)'
      BY <2>2 DEF IInv
    <3> QED BY <3>1, StableFrame
  <2> QED BY <2>1, <2>2
<1> QED BY <1>1 DEF IInv

-----------------------------------------------------------------------------
(***************************************************************************)
(* The actions that leave the list alone.                                  *)
(***************************************************************************)
LEMMA ThreadFacts ==
  ASSUME IInv, NEW t \in Threads
  PROVE  /\ TypeOK /\ frame[t] \in Frames /\ pc[t] \in Labels
         /\ FrameOK(pc[t], frame[t])
  BY DEF IInv, TypeOK

(***************************************************************************)
(* The successor of a published node at one of its levels is a published   *)
(* node that has this level.                                               *)
(***************************************************************************)
LEMMA NextLevel ==
  ASSUME IInv, NEW n, NEW l \in Levels, HasLevel(n, l), n # tail
  PROVE  HasLevel(next[n][l].ref, l) /\ next[n][l].ref \in Node
  BY DEF IInv, ListInv, Successors, HasLevel

(***************************************************************************)
(* The counter and the clients keep their types when they do not change.   *)
(***************************************************************************)
LEMMA QuietVars ==
  ASSUME IInv, UNCHANGED <<elementsCount, owned, contended>>
  PROVE  /\ elementsCount' \in 0 .. (SizeModulus - 1)
         /\ owned' \in SUBSET NewNodes
         /\ contended' \in [Threads -> BOOLEAN]
  BY DEF IInv, TypeOK

(***************************************************************************)
(* Reading the first successor of a level (range_lock.hpp:86, 128, 168)    *)
(* keeps the invariant.                                                    *)
(***************************************************************************)
LEMMA ReadCurrStep ==
  ASSUME IInv, NEW t \in Threads, ReadCurr(t) PROVE IInv'
<1> DEFINE f == frame[t]
           c == next[f.pred][f.lvl].ref
           g == [f EXCEPT !.curr = c]
<1>1. /\ f \in Frames /\ FrameOK("curr", f) /\ Arrive(t, g)
      /\ UNCHANGED <<listVars, elementsCount, calls, owned, contended>>
  BY ThreadFacts DEF ReadCurr
<1> HIDE DEF f
<1>2. HasLevel(c, f.lvl) /\ c \in Node
  BY <1>1, NextLevel DEF FrameOK, Searching, Searches, Frames
<1> HIDE DEF c
<1>3. /\ g \in Frames /\ g.curr = c /\ g.lvl = f.lvl /\ g.pred = f.pred
      /\ g.find = f.find /\ g.want = f.want /\ g.at = f.at /\ g.top = f.top
      /\ g.node = f.node /\ g.preds = f.preds /\ g.succs = f.succs
  BY <1>1, <1>2 DEF Frames
<1> HIDE DEF g
<1>4. Arrived(g)
  BY <1>1, <1>2, <1>3
     DEF Arrived, FrameOK, Searching, Searches, Inserts, Noted
<1>5. Moved(t, g)
  BY <1>1, <1>4, ArriveOK
<1>6. Moved(t, frame[t])
  BY <1>3, <1>5 DEF Moved, f
<1> QED BY <1>1, <1>6, QuietStep, QuietVars

(***************************************************************************)
(* Reading the word of curr (range_lock.hpp:89, 131, 171) keeps the        *)
(* invariant.                                                              *)
(***************************************************************************)
LEMMA ReadSuccStep ==
  ASSUME IInv, NEW t \in Threads, ReadSucc(t) PROVE IInv'
<1> DEFINE f == frame[t]
           w == next[f.curr][f.lvl]
<1>1. /\ TypeOK /\ f \in Frames /\ FrameOK("succ", f)
      /\ UNCHANGED <<listVars, elementsCount, calls, owned, contended>>
      /\ \/ w.mark /\ Go(t, "snip", [f EXCEPT !.succ = w.ref])
         \/ ~w.mark /\ Pass(f)
              /\ Arrive(t, [f EXCEPT !.pred = f.curr, !.curr = w.ref])
         \/ ~w.mark /\ ~Pass(f) /\ Settle(t, f)
  BY ThreadFacts DEF ReadSucc
<1>0. f.curr \in Node /\ f.lvl \in Levels /\ HasLevel(f.curr, f.lvl)
      /\ f.want \in Requests
  BY <1>1 DEF FrameOK, Frames
<1>2. w = Pack(w.ref, w.mark) /\ w.mark \in BOOLEAN
  BY <1>0, <1>1 DEF TypeOK, WordsOver, Pack
<1>3. Moved(t, f)
  <2>1. CASE w.mark /\ Go(t, "snip", [f EXCEPT !.succ = w.ref])
    <3> DEFINE g == [f EXCEPT !.succ = w.ref]
    <3>1. f.curr # tail
      BY <1>0, <2>1 DEF IInv, ListInv, Ends, Pack
    <3>2. w.ref \in Node
      BY <1>0, <3>1, NextLevel
    <3>3. /\ g \in Frames /\ g.succ = w.ref /\ g.curr = f.curr
          /\ g.lvl = f.lvl /\ g.pred = f.pred /\ g.find = f.find
          /\ g.want = f.want /\ g.at = f.at /\ g.top = f.top
          /\ g.node = f.node /\ g.preds = f.preds /\ g.succs = f.succs
      BY <1>1, <3>2 DEF Frames
    <3>4. w = Pack(g.succ, TRUE) /\ Go(t, "snip", g)
      BY <1>2, <2>1, <3>3
    <3> HIDE DEF g
    <3>5. next[g.curr][g.lvl] = Pack(g.succ, TRUE)
      BY <3>3, <3>4
    <3>6. FrameOK("snip", g)
      BY <1>1, <3>3, <3>5
         DEF FrameOK, Searching, Searches, Inserts, Noted
    <3>7. TypeOK /\ "snip" \in Labels
      BY <1>1 DEF Labels
    <3> HIDE DEF f, w
    <3> QED BY <3>3, <3>4, <3>6, <3>7, GoMoves
  <2>2. CASE ~w.mark /\ Pass(f)
               /\ Arrive(t, [f EXCEPT !.pred = f.curr, !.curr = w.ref])
    <3> DEFINE g == [f EXCEPT !.pred = f.curr, !.curr = w.ref]
    <3>1. f.curr # tail
      BY <1>0, <2>2, RequestAssumption
         DEF Pass, Start, End, IInv, BelowMax, ListInv, Ends, RangesOver
    <3>2. w.ref \in Node /\ HasLevel(w.ref, f.lvl)
      BY <1>0, <3>1, NextLevel
    <3>3. /\ g \in Frames /\ g.curr = w.ref /\ g.lvl = f.lvl
          /\ g.pred = f.curr /\ g.find = f.find /\ g.want = f.want
          /\ g.at = f.at /\ g.top = f.top
          /\ g.node = f.node /\ g.preds = f.preds /\ g.succs = f.succs
      BY <1>1, <1>0, <3>2 DEF Frames
    <3>4. Arrive(t, g)
      BY <2>2
    <3> HIDE DEF g, w
    <3>5. Arrived(g)
      BY <1>0, <1>1, <3>1, <3>2, <3>3
         DEF Arrived, FrameOK, Searching, Searches, Inserts, Noted
    <3>6. Moved(t, g)
      BY <3>4, <3>5, ArriveOK
    <3> QED BY <3>3, <3>6 DEF Moved
  <2>3. CASE ~w.mark /\ ~Pass(f) /\ Settle(t, f)
    <3>1. Arrived(f)
      BY <1>1 DEF Arrived, FrameOK, Searching
    <3> QED BY <2>3, <3>1, SettleOK
  <2> QED BY <1>1, <2>1, <2>2, <2>3
<1> QED BY <1>1, <1>3, QuietStep, QuietVars

(***************************************************************************)
(* Reading again after a snip (range_lock.hpp:96, 138, 178) keeps the      *)
(* invariant.                                                              *)
(***************************************************************************)
LEMMA RereadStep ==
  ASSUME IInv, NEW t \in Threads, Reread(t) PROVE IInv'
<1> DEFINE f == frame[t]
           c == next[f.pred][f.lvl].ref
           g == [f EXCEPT !.curr = c]
<1>1. /\ TypeOK /\ f \in Frames /\ FrameOK("again", f) /\ Go(t, "succ", g)
      /\ UNCHANGED <<listVars, elementsCount, calls, owned, contended>>
  BY ThreadFacts DEF Reread
<1> HIDE DEF f
<1>2. HasLevel(c, f.lvl) /\ c \in Node
  BY <1>1, NextLevel DEF FrameOK, Searching, Searches, Frames
<1> HIDE DEF c
<1>3. /\ g \in Frames /\ g.curr = c /\ g.lvl = f.lvl /\ g.pred = f.pred
      /\ g.find = f.find /\ g.want = f.want /\ g.at = f.at /\ g.top = f.top
      /\ g.node = f.node /\ g.preds = f.preds /\ g.succs = f.succs
  BY <1>1, <1>2 DEF Frames
<1> HIDE DEF g
<1>4. FrameOK("succ", g)
  BY <1>1, <1>2, <1>3 DEF FrameOK, Searching, Searches, Inserts, Noted
<1>5. Moved(t, frame[t])
  BY <1>1, <1>3, <1>4, GoMoves DEF Labels, f
<1> QED BY <1>1, <1>5, QuietStep, QuietVars

(***************************************************************************)
(* Every return puts the locals to rest.                                   *)
(***************************************************************************)
LEMMA ReturnMoves ==
  ASSUME IInv, NEW t \in Threads, Go(t, "idle", Rest)
  PROVE  Moved(t, frame[t])
<1>1. Rest.find = "none" /\ Rest \in Frames
  BY RestType DEF Rest
<1>2. FrameOK("idle", Rest)
  BY <1>1 DEF FrameOK, Searching, Inserts
<1> QED BY <1>1, <1>2, GoMoves DEF Labels, IInv

(***************************************************************************)
(* Returning false from tryLock keeps the invariant.                       *)
(***************************************************************************)
LEMMA RefuseStep ==
  ASSUME IInv, NEW t \in Threads, Refuse(t) PROVE IInv'
<1>1. contended' \in [Threads -> BOOLEAN]
  BY DEF Refuse, IInv, TypeOK
<1>2. elementsCount' \in 0 .. (SizeModulus - 1) /\ owned' \in SUBSET NewNodes
  BY DEF Refuse, IInv, TypeOK
<1> QED BY <1>1, <1>2, ReturnMoves, QuietStep DEF Refuse

(***************************************************************************)
(* Counting a new range keeps the invariant.                               *)
(***************************************************************************)
LEMMA CountUpStep ==
  ASSUME IInv, NEW t \in Threads, CountUp(t) PROVE IInv'
<1>1. elementsCount' \in 0 .. (SizeModulus - 1)
  BY SizeAssumption DEF CountUp, IInv, TypeOK
<1>2. frame[t].node \in NewNodes
  BY ThreadFacts DEF CountUp, FrameOK, Inserts
<1>3. owned' \in SUBSET NewNodes /\ contended' \in [Threads -> BOOLEAN]
  BY <1>2 DEF CountUp, IInv, TypeOK
<1> QED BY <1>1, <1>3, ReturnMoves, QuietStep DEF CountUp

(***************************************************************************)
(* Counting a released range keeps the invariant.                          *)
(***************************************************************************)
LEMMA CountDownStep ==
  ASSUME IInv, NEW t \in Threads, CountDown(t) PROVE IInv'
<1>1. elementsCount' \in 0 .. (SizeModulus - 1)
  BY SizeAssumption DEF CountDown, IInv, TypeOK
<1>2. owned' \in SUBSET NewNodes /\ contended' \in [Threads -> BOOLEAN]
  BY DEF CountDown, IInv, TypeOK
<1> QED BY <1>1, <1>2, ReturnMoves, QuietStep DEF CountDown

(***************************************************************************)
(* Returning false from releaseLock keeps the invariant.                   *)
(***************************************************************************)
LEMMA ReportWrongStep ==
  ASSUME IInv, NEW t \in Threads, ReportWrong(t) PROVE IInv'
  BY ReturnMoves, QuietStep, QuietVars DEF ReportWrong

(***************************************************************************)
(* A call of releaseLock, by an owner or not, keeps the invariant.         *)
(***************************************************************************)
LEMMA ReleaseLockStep ==
  ASSUME IInv, NEW t \in Threads, NEW r \in Requests, ReleaseLock(t, r)
  PROVE  IInv'
<1> DEFINE f == [Rest EXCEPT !.want = r]
           g == StartFind(f, "exact")
<1>1. f \in Frames /\ f.want = r
  BY RestType, RequestAssumption DEF Frames
<1> HIDE DEF f
<1>2. g \in Frames /\ g.find = "exact"
  BY <1>1, StartFindFacts
<1>3. Inserts(g)
  BY <1>2 DEF Inserts
<1>4. FrameOK("curr", g)
  BY <1>1, <1>3, StartFindOK
<1>5. Go(t, "curr", g)
  BY DEF ReleaseLock, f
<1> HIDE DEF g
<1>6. TypeOK /\ "curr" \in Labels
  BY DEF IInv, Labels
<1>7. Moved(t, frame[t])
  BY <1>2, <1>4, <1>5, <1>6, GoMoves
<1>8. /\ owned' \in SUBSET NewNodes /\ contended' \in [Threads -> BOOLEAN]
      /\ elementsCount' \in 0 .. (SizeModulus - 1)
  BY <1>6 DEF ReleaseLock, TypeOK
<1> QED BY <1>7, <1>8, QuietStep DEF ReleaseLock

(***************************************************************************)
(* Steps of releaseLock that only move to another label or level.          *)
(***************************************************************************)
LEMMA MarkUpperStep ==
  ASSUME IInv, NEW t \in Threads, MarkUpper(t) PROVE IInv'
<1> DEFINE f == frame[t]
           w == next[f.node][f.lvl]
           g == [f EXCEPT !.lvl = @ - 1, !.succ = head]
           h == [f EXCEPT !.succ = w.ref]
<1>1. /\ TypeOK /\ f \in Frames /\ FrameOK("mark", f)
      /\ UNCHANGED <<listVars, elementsCount, calls, owned, contended>>
      /\ IF w.mark THEN Go(t, IF f.lvl > 1 THEN "mark" ELSE "bottom", g)
                   ELSE Go(t, "attempt", h)
  BY ThreadFacts DEF MarkUpper
<1> HIDE DEF f
<1>2. /\ f.lvl \in Levels /\ f.lvl > 0 /\ HasLevel(f.node, f.lvl)
      /\ f.node \in Node /\ f.node # tail
  BY <1>1 DEF FrameOK, Frames, HasLevel
<1>3. w.ref \in Node
  BY <1>2, NextLevel
<1>4. f.lvl - 1 \in Levels /\ HasLevel(f.node, f.lvl - 1)
  BY <1>1, <1>2, LevelAssumption DEF Levels, HasLevel, TypeOK
<1>5. /\ g \in Frames /\ g.lvl = f.lvl - 1 /\ g.node = f.node
      /\ g.want = f.want /\ g.find = f.find /\ g.at = f.at /\ g.top = f.top
  BY <1>1, <1>4 DEF Frames, Node
<1>6. /\ h \in Frames /\ h.lvl = f.lvl /\ h.node = f.node
      /\ h.want = f.want /\ h.find = f.find /\ h.at = f.at /\ h.top = f.top
  BY <1>1, <1>3 DEF Frames
<1>7. {"mark", "attempt", "bottom"} \subseteq Labels
  BY DEF Labels
<1> HIDE DEF g, h, w
<1>8. CASE w.mark /\ f.lvl > 1
  <2>1. FrameOK("mark", g)
    BY <1>1, <1>2, <1>4, <1>5, <1>8, LevelAssumption
       DEF FrameOK, Searching, Inserts, Levels
  <2>2. Moved(t, frame[t])
    BY <1>1, <1>5, <1>7, <1>8, <2>1, GoMoves DEF f
  <2> QED BY <1>1, <2>2, QuietStep, QuietVars
<1>9. CASE w.mark /\ ~(f.lvl > 1)
  <2>1. FrameOK("bottom", g)
    BY <1>1, <1>2, <1>4, <1>5 DEF FrameOK, Searching, Inserts
  <2>2. Moved(t, frame[t])
    BY <1>1, <1>5, <1>7, <1>9, <2>1, GoMoves DEF f
  <2> QED BY <1>1, <2>2, QuietStep, QuietVars
<1>10. CASE ~w.mark
  <2>1. FrameOK("attempt", h)
    BY <1>1, <1>2, <1>6 DEF FrameOK, Searching, Inserts
  <2>2. Moved(t, frame[t])
    BY <1>1, <1>6, <1>7, <1>10, <2>1, GoMoves DEF f
  <2> QED BY <1>1, <2>2, QuietStep, QuietVars
<1> QED BY <1>8, <1>9, <1>10

(***************************************************************************)
(* Reading the word of level 0 before marking it keeps the invariant.      *)
(***************************************************************************)
LEMMA ReadBottomStep ==
  ASSUME IInv, NEW t \in Threads, ReadBottom(t) PROVE IInv'
<1> DEFINE f == frame[t]
           g == [f EXCEPT !.succ = next[f.node][0].ref]
<1>1. /\ TypeOK /\ f \in Frames /\ FrameOK("bottom", f) /\ Go(t, "delete", g)
      /\ UNCHANGED <<listVars, elementsCount, calls, owned, contended>>
      /\ "delete" \in Labels
  BY ThreadFacts DEF ReadBottom, Labels
<1> HIDE DEF f
<1>2. HasLevel(f.node, 0) /\ 0 \in Levels /\ f.node # tail
  BY <1>1, LevelAssumption DEF FrameOK, HasLevel, Levels, Frames, TypeOK
<1>3. next[f.node][0].ref \in Node
  BY <1>2, NextLevel
<1>4. /\ g \in Frames /\ g.lvl = f.lvl /\ g.node = f.node
      /\ g.want = f.want /\ g.find = f.find /\ g.at = f.at /\ g.top = f.top
  BY <1>1, <1>3 DEF Frames
<1> HIDE DEF g
<1>5. FrameOK("delete", g)
  BY <1>1, <1>4 DEF FrameOK, Searching, Inserts
<1>6. Moved(t, frame[t])
  BY <1>1, <1>4, <1>5, GoMoves DEF f
<1> QED BY <1>1, <1>6, QuietStep, QuietVars

(***************************************************************************)
(* Looking at the mark again after a failed compareAndSet keeps the        *)
(* invariant.                                                              *)
(***************************************************************************)
LEMMA RecheckStep ==
  ASSUME IInv, NEW t \in Threads, Recheck(t) PROVE IInv'
<1> DEFINE f == frame[t]
           w == next[f.node][0]
           g == [f EXCEPT !.succ = head]
           h == [f EXCEPT !.succ = w.ref]
<1>1. /\ TypeOK /\ f \in Frames /\ FrameOK("recheck", f)
      /\ UNCHANGED <<listVars, elementsCount, calls, owned, contended>>
      /\ IF w.mark THEN Go(t, "wrong", g) ELSE Go(t, "delete", h)
      /\ "delete" \in Labels /\ "wrong" \in Labels
  BY ThreadFacts DEF Recheck, Labels
<1> HIDE DEF f
<1>2. HasLevel(f.node, 0) /\ 0 \in Levels /\ f.node # tail
  BY <1>1, LevelAssumption DEF FrameOK, HasLevel, Levels, Frames, TypeOK
<1>3. w.ref \in Node
  BY <1>2, NextLevel
<1>4. /\ g \in Frames /\ g.lvl = f.lvl /\ g.node = f.node
      /\ g.want = f.want /\ g.find = f.find /\ g.at = f.at /\ g.top = f.top
  BY <1>1 DEF Frames, Node
<1>5. /\ h \in Frames /\ h.lvl = f.lvl /\ h.node = f.node
      /\ h.want = f.want /\ h.find = f.find /\ h.at = f.at /\ h.top = f.top
  BY <1>1, <1>3 DEF Frames
<1> HIDE DEF g, h, w
<1>6. FrameOK("wrong", g) /\ FrameOK("delete", h)
  BY <1>1, <1>4, <1>5 DEF FrameOK, Searching, Inserts
<1>7. CASE w.mark
  <2>1. Moved(t, frame[t])
    BY <1>1, <1>4, <1>6, <1>7, GoMoves DEF f
  <2> QED BY <1>1, <2>1, QuietStep, QuietVars
<1>8. CASE ~w.mark
  <2>1. Moved(t, frame[t])
    BY <1>1, <1>5, <1>6, <1>8, GoMoves DEF f
  <2> QED BY <1>1, <2>1, QuietStep, QuietVars
<1> QED BY <1>7, <1>8

(***************************************************************************)
(* A call of tryLock takes a node that no call has had before.             *)
(***************************************************************************)
LEMMA TryLockStep ==
  ASSUME IInv, NEW t \in Threads, NEW r \in Requests, NEW height \in Levels,
         TryLock(t, r, height)
  PROVE  IInv'
<1> DEFINE f == [Rest EXCEPT !.want = r, !.top = height, !.node = calls + 1]
           g == StartFind(f, "insert")
<1>1. /\ TypeOK /\ Go(t, "curr", g) /\ UNCHANGED listVars
      /\ calls' = calls + 1 /\ calls < MaxCalls
      /\ elementsCount' = elementsCount /\ owned' = owned
  BY DEF TryLock, IInv
<1>2. calls + 1 \in NewNodes /\ calls \in Nat /\ ~Published(calls + 1)
  BY <1>1, SizeAssumption DEF TypeOK, NewNodes, IInv, Fresh
<1>3. /\ f \in Frames /\ f.want = r /\ f.node = calls + 1 /\ f.at = 0
      /\ f.top = height
  <2>1. Rest \in Frames /\ Rest.at = 0 /\ r \in RangesOver(Int)
        /\ calls + 1 \in Node
    BY <1>2, RestType, RequestAssumption DEF Rest, Node
  <2> QED BY <2>1 DEF Frames
<1> HIDE DEF f
<1>4. /\ g \in Frames /\ g.find = "insert" /\ g.lvl = MaxLevel
      /\ g.pred = head /\ g.want = r /\ g.at = 0 /\ g.node = calls + 1
      /\ g.top = height
  BY <1>3, StartFindFacts
<1> HIDE DEF g
<1>5. /\ pc' \in [Threads -> Labels] /\ frame' \in [Threads -> Frames]
      /\ pc'[t] = "curr" /\ frame'[t] = g
      /\ \A u \in Threads \ {t} : pc'[u] = pc[u] /\ frame'[u] = frame[u]
  <2>1. "curr" \in Labels
    BY DEF Labels
  <2> QED BY <1>1, <1>4, <2>1, GoFacts
<1>6. /\ next' = next /\ range' = range /\ topLevel' = topLevel
      /\ linked' = linked
  BY <1>1 DEF listVars
<1>7. contended' \in [Threads -> BOOLEAN]
  <2> DEFINE b == \E n \in Locked : ClosedOverlap(range[n], r)
  <2>1. contended' = [contended EXCEPT ![t] = b] /\ b \in BOOLEAN
    BY DEF TryLock
  <2> HIDE DEF b
  <2> QED BY <1>1, <2>1 DEF TypeOK
<1>8. TypeOK'
  <2>1. calls' \in 0 .. MaxCalls
    BY <1>1, <1>2, SizeAssumption
  <2> QED BY <1>1, <1>5, <1>6, <1>7, <2>1 DEF TypeOK
<1>9. Stable
  BY <1>1, <1>2, <1>6 DEF Stable, Published
<1>10. ListInv'
  BY <1>6 DEF IInv, ListInv, OrderedChain, Disjoint, Membership, Successors,
              Ends, HasLevel, Published, Start, End
<1>11. \A u \in Threads :
         frame[u].find = "insert" /\ frame[u].at = 0 =>
           frame[u].node <= calls /\ ~Published(frame[u].node)
  BY DEF IInv, FrameOK, Inserts
<1>12. Fresh'
  <2>1. (\A n \in NewNodes : n > calls => ~Published(n))'
    BY <1>1, <1>2, <1>6 DEF IInv, Fresh, Published, NewNodes
  <2>2. ASSUME NEW u \in Threads, NEW v \in Threads, u # v,
               frame'[u].find = "insert", frame'[u].at = 0,
               frame'[v].find = "insert", frame'[v].at = 0
        PROVE  frame'[u].node # frame'[v].node
    <3>1. CASE u # t /\ v # t
      BY <1>5, <2>2, <3>1 DEF IInv, Fresh
    <3>2. CASE u = t
      BY <1>2, <1>4, <1>5, <1>11, <2>2, <3>2
    <3>3. CASE v = t
      BY <1>2, <1>4, <1>5, <1>11, <2>2, <3>3
    <3> QED BY <3>1, <3>2, <3>3
  <2> QED BY <2>1, <2>2 DEF Fresh
<1>13. FrameOK(pc[t], frame[t])'
  <2>1. HasLevel(head, MaxLevel) /\ head # tail
    BY NodeAssumption, LevelAssumption
       DEF IInv, ListInv, OrderedChain, Membership, Ends, HasLevel, Node,
           TypeOK
  <2>2. /\ frame'[t].find = "insert" /\ frame'[t].lvl = MaxLevel
        /\ frame'[t].pred = head /\ frame'[t].want \in Requests
        /\ frame'[t].at = 0 /\ frame'[t].node = calls + 1
        /\ frame'[t].top \in Levels
    BY <1>4, <1>5
  <2>3. Searches(frame[t])'
    BY <1>6, <2>1, <2>2, LevelAssumption
       DEF Searches, Levels, HasLevel, Published
  <2>4. Inserts(frame[t])'
    BY <1>1, <1>2, <1>6, <2>2 DEF Inserts, Published
  <2> QED BY <1>5, <2>2, <2>3, <2>4 DEF FrameOK, Searching, Levels
<1>14. \A u \in Threads \ {t} :
         frame[u].find = "insert" /\ frame[u].at = 0 =>
           ~Published(frame[u].node)'
  BY <1>5, <1>6, <1>11 DEF Published
<1> QED BY <1>5, <1>8, <1>9, <1>10, <1>12, <1>13, <1>14, LoudStep

-----------------------------------------------------------------------------
(***************************************************************************)
(* The actions that change one word of a published node: the compareAndSet *)
(* of Snip, LinkUpper, TryMark and MarkBottom.                             *)
(***************************************************************************)
OneWord(n, l, w) ==
  /\ next' = [next EXCEPT ![n][l] = w]
  /\ UNCHANGED <<range, topLevel, elementsCount, calls, owned, contended>>

(***************************************************************************)
(* Writing one unmarked word with a reference to a node that has its level *)
(* keeps what the invariant says of words.                                 *)
(***************************************************************************)
LEMMA OneWordFacts ==
  ASSUME IInv, NEW n, NEW l \in Levels, NEW w, OneWord(n, l, w),
         HasLevel(n, l), n # tail, w \in WordsOver(Node),
         HasLevel(w.ref, l), next[n][l].mark => w = next[n][l]
  PROVE  /\ next' \in [Node -> [Levels -> WordsOver(Node \cup {Null})]]
         /\ \A m \in Node : Published(m)' <=> Published(m)
         /\ Stable /\ Successors' /\ Ends'
         /\ \A m \in Node : m # n \/ l # 0 => next'[m][0] = next[m][0]
         /\ l = 0 => next'[n][0] = w
<1>1. /\ TypeOK /\ n \in Node /\ w.ref \in Node /\ w.ref # Null
      /\ 0 \in Levels
  BY NodeAssumption, LevelAssumption DEF IInv, HasLevel, Levels
<1>2. next' \in [Node -> [Levels -> WordsOver(Node \cup {Null})]]
  BY <1>1 DEF TypeOK, OneWord, WordsOver
<1>3. \A m \in Node, k \in Levels :
        next'[m][k] = IF m = n /\ k = l THEN w ELSE next[m][k]
  BY <1>1 DEF TypeOK, OneWord
<1>4. \A m \in Node : Published(m)' <=> Published(m)
  BY <1>1, <1>3 DEF Published, HasLevel
<1>5. range' = range /\ topLevel' = topLevel /\ calls' = calls
  BY DEF OneWord
<1>6. Stable
  BY <1>1, <1>3, <1>4, <1>5, SizeAssumption DEF Stable, TypeOK
<1>7. \A m \in Node, k \in Levels : HasLevel(m, k) => HasLevel(m, k)'
  BY <1>4, <1>5 DEF HasLevel
<1>8. Successors'
  <2> SUFFICES ASSUME NEW m \in Node \ {tail}, Published(m)',
                      NEW k \in Levels, k <= topLevel'[m]
               PROVE  HasLevel(next[m][k].ref, k)'
    BY DEF Successors
  <2>1. CASE m = n /\ k = l
    <3>1. next'[m][k].ref = w.ref
      BY <1>3, <2>1
    <3> QED BY <1>4, <1>5, <2>1, <3>1 DEF HasLevel, Published
  <2>2. CASE ~(m = n /\ k = l)
    <3>1. next'[m][k] = next[m][k]
      BY <1>3, <2>2
    <3>2. HasLevel(next[m][k].ref, k)
      BY <1>4, <1>5 DEF IInv, ListInv, Successors
    <3> QED BY <1>4, <1>5, <3>1, <3>2 DEF HasLevel, Published
  <2> QED BY <2>1, <2>2
<1>9. Ends'
  <2>1. Ends /\ head \in Node /\ tail \in Node
    BY DEF IInv, ListInv, Node
  <2>2. \A m \in Node, k \in Levels : next'[m][k].mark => Published(m)'
    BY <1>3, <1>4, <2>1 DEF Ends, HasLevel
  <2>3. \A k \in Levels : next'[tail][k] = next[tail][k]
    BY <1>3, <2>1
  <2> QED BY <1>4, <1>5, <2>1, <2>2, <2>3 DEF Ends, Start, End
<1> QED BY <1>1, <1>2, <1>3, <1>4, <1>6, <1>8, <1>9

(***************************************************************************)
(* Such a step keeps the invariant if it keeps the chain of level 0.       *)
(***************************************************************************)
LEMMA OneWordStep ==
  ASSUME IInv, NEW t \in Threads, Moved(t, frame[t]),
         NEW n, NEW l \in Levels, NEW w, OneWord(n, l, w),
         HasLevel(n, l), n # tail, w \in WordsOver(Node),
         HasLevel(w.ref, l), next[n][l].mark => w = next[n][l],
         linked' \in SUBSET Node, OrderedChain', Disjoint', Membership'
  PROVE  IInv'
<1>1. /\ next' \in [Node -> [Levels -> WordsOver(Node \cup {Null})]]
      /\ \A m \in Node : Published(m)' <=> Published(m)
      /\ Stable /\ Successors' /\ Ends'
  BY OneWordFacts
<1>2. /\ range' = range /\ topLevel' = topLevel /\ calls' = calls
      /\ elementsCount' = elementsCount /\ owned' = owned
      /\ contended' = contended
  BY DEF OneWord
<1>3. TypeOK'
  BY <1>1, <1>2 DEF IInv, TypeOK, Moved
<1>4. ListInv'
  BY <1>1 DEF ListInv
<1>5. Fresh'
  <2>1. (\A m \in NewNodes : m > calls => ~Published(m))'
    BY <1>1, <1>2 DEF IInv, Fresh, Node
  <2> QED BY <2>1 DEF IInv, Fresh, Moved
<1>6. ASSUME NEW u \in Threads PROVE FrameOK(pc[u], frame[u])'
  <2>1. FrameOK(pc'[u], frame'[u])
    BY DEF IInv, Moved
  <2>2. frame'[u].find = "insert" /\ frame'[u].at = 0 =>
          ~Published(frame[u].node)'
    <3> HAVE frame'[u].find = "insert" /\ frame'[u].at = 0
    <3>1. ~Published(frame'[u].node) /\ frame'[u].node \in Node
      BY <2>1 DEF FrameOK, Inserts, Node
    <3>2. PICK m \in Node : m = frame'[u].node
      BY <3>1
    <3>3. ~Published(m)'
      BY <1>1, <3>1, <3>2
    <3> QED BY <3>2, <3>3 DEF Published
  <2> QED BY <1>1, <1>3, <2>1, <2>2, StableFrame
<1> QED BY <1>3, <1>4, <1>5, <1>6 DEF IInv

(***************************************************************************)
(* The chain of level 0 is kept when no reference of level 0 changes.      *)
(***************************************************************************)
LEMMA SameChain ==
  ASSUME IInv, linked' = linked, range' = range,
         \A m \in Node : Published(m)' <=> Published(m),
         \A m \in Node : /\ next'[m][0].ref = next[m][0].ref
                         /\ next[m][0].mark => next'[m][0].mark
  PROVE  /\ linked' \in SUBSET Node
         /\ OrderedChain' /\ Disjoint' /\ Membership'
<1>1. linked \subseteq Node
  BY DEF IInv, TypeOK
<1>2. OrderedChain'
  BY <1>1 DEF IInv, ListInv, OrderedChain, Start, End
<1>3. Disjoint'
  BY <1>1 DEF IInv, ListInv, Disjoint, Start, End
<1>4. Membership'
  BY <1>1 DEF IInv, ListInv, Membership
<1> QED BY <1>1, <1>2, <1>3, <1>4

(***************************************************************************)
(* attemptMark on an upper level keeps the invariant.                      *)
(***************************************************************************)
LEMMA TryMarkStep ==
  ASSUME IInv, NEW t \in Threads, TryMark(t) PROVE IInv'
<1> DEFINE f == frame[t]
           n == f.node
           l == f.lvl
           w == AttemptMark(next[n][l], f.succ)
           g == [f EXCEPT !.succ = head]
<1>1. /\ TypeOK /\ f \in Frames /\ FrameOK("attempt", f) /\ Go(t, "mark", g)
      /\ "mark" \in Labels /\ linked' = linked
  BY ThreadFacts DEF TryMark, Labels
<1>2. OneWord(n, l, w)
  BY <1>1 DEF TryMark, OneWord, TypeOK
<1> HIDE DEF f
<1>3. /\ l \in Levels /\ l > 0 /\ HasLevel(n, l) /\ n \in Node /\ n # tail
  BY <1>1 DEF FrameOK, Frames, HasLevel
<1>4. HasLevel(next[n][l].ref, l) /\ next[n][l].ref \in Node
  BY <1>3, NextLevel
<1>5. next[n][l] \in WordsOver(Node)
  BY <1>1, <1>3, <1>4 DEF TypeOK, WordsOver
<1>6. /\ w \in WordsOver(Node) /\ w.ref = next[n][l].ref
      /\ next[n][l].mark => w = next[n][l]
  BY <1>5 DEF AttemptMark, CanSet, Pack, WordsOver
<1>7. /\ g \in Frames /\ g.lvl = f.lvl /\ g.node = f.node
      /\ g.want = f.want /\ g.find = f.find /\ g.at = f.at /\ g.top = f.top
  BY <1>1 DEF Frames, Node
<1> HIDE DEF g, w
<1>8. FrameOK("mark", g)
  BY <1>1, <1>7 DEF FrameOK, Searching, Inserts
<1>9. Moved(t, frame[t])
  BY <1>1, <1>7, <1>8, GoMoves DEF f
<1>10. /\ \A m \in Node : Published(m)' <=> Published(m)
       /\ \A m \in Node : next'[m][0] = next[m][0]
  BY <1>2, <1>3, <1>4, <1>6, OneWordFacts DEF Levels
<1>11. linked' \in SUBSET Node /\ OrderedChain' /\ Disjoint' /\ Membership'
  BY <1>1, <1>2, <1>10, SameChain DEF OneWord
<1> QED BY <1>2, <1>3, <1>4, <1>6, <1>9, <1>11, OneWordStep

(***************************************************************************)
(* A compareAndSet that fails sends the thread back to a new search.       *)
(***************************************************************************)
LEMMA RetryStep ==
  ASSUME IInv, NEW t \in Threads, NEW kind \in {"insert", "exact", "delete"},
         frame[t].want \in Requests, Inserts(StartFind(frame[t], kind)),
         kind = "insert" => frame[t].at <= frame[t].top,
         kind = "insert" => frame[t].find = "insert",
         Go(t, "curr", StartFind(frame[t], kind))
  PROVE  Moved(t, frame[t])
<1> DEFINE g == StartFind(frame[t], kind)
<1>1. /\ TypeOK /\ frame[t] \in Frames /\ "curr" \in Labels
  BY ThreadFacts DEF Labels
<1>2. /\ g \in Frames /\ g.find = kind /\ g.at = frame[t].at
      /\ g.node = frame[t].node
  BY <1>1, StartFindFacts
<1>3. FrameOK("curr", g)
  BY <1>1, StartFindOK
<1>4. Go(t, "curr", g)
  OBVIOUS
<1> HIDE DEF g
<1> QED BY <1>1, <1>2, <1>3, <1>4, GoMoves

(***************************************************************************)
(* The compareAndSet that marks level 0 keeps the invariant.               *)
(***************************************************************************)
LEMMA MarkBottomStep ==
  ASSUME IInv, NEW t \in Threads, MarkBottom(t) PROVE IInv'
<1> DEFINE f == frame[t]
           n == f.node
           w == Pack(f.succ, TRUE)
<1>1. /\ TypeOK /\ f \in Frames /\ FrameOK("delete", f)
      /\ linked' = linked /\ range' = range /\ topLevel' = topLevel
      /\ UNCHANGED <<elementsCount, calls, owned, contended>>
  BY ThreadFacts DEF MarkBottom
<1>2. /\ 0 \in Levels /\ HasLevel(n, 0) /\ n \in Node /\ n # tail
      /\ f.want \in Requests
  BY <1>1, LevelAssumption DEF FrameOK, Frames, HasLevel, TypeOK, Levels
<1>3. CASE /\ CanSet(next[n][0], f.succ, FALSE)
           /\ next' = [next EXCEPT ![n][0] = w]
           /\ Go(t, "curr", StartFind(f, "delete"))
  <2>1. OneWord(n, 0, w)
    BY <1>1, <1>3 DEF OneWord
  <2>2. next[n][0] = Pack(f.succ, FALSE)
    BY <1>3 DEF CanSet
  <2>3. HasLevel(w.ref, 0) /\ w.ref = next[n][0].ref /\ w.ref \in Node
        /\ w.mark
    BY <1>2, <2>2, NextLevel DEF Pack
  <2>4. w \in WordsOver(Node) /\ ~next[n][0].mark
    BY <2>2, <2>3 DEF WordsOver, Pack
  <2>5. Inserts(StartFind(f, "delete"))
    BY <1>1, StartFindFacts DEF Inserts
  <2>6. Moved(t, frame[t])
    BY <1>2, <1>3, <2>5, RetryStep
  <2> HIDE DEF f, w
  <2>7. /\ \A m \in Node : Published(m)' <=> Published(m)
        /\ \A m \in Node : m # n => next'[m][0] = next[m][0]
        /\ next'[n][0] = w
    BY <1>2, <2>1, <2>3, <2>4, OneWordFacts
  <2>8. \A m \in Node : /\ next'[m][0].ref = next[m][0].ref
                        /\ next[m][0].mark => next'[m][0].mark
    BY <1>2, <2>3, <2>7
  <2>9. linked' \in SUBSET Node /\ OrderedChain' /\ Disjoint' /\ Membership'
    BY <1>1, <2>7, <2>8, SameChain
  <2> QED BY <1>2, <2>1, <2>3, <2>4, <2>6, <2>9, OneWordStep
<1>4. CASE /\ ~CanSet(next[n][0], f.succ, FALSE)
           /\ Go(t, "recheck", f) /\ UNCHANGED next
  <2>1. FrameOK("recheck", f) /\ "recheck" \in Labels
    BY <1>1 DEF FrameOK, Searching, Labels
  <2>2. Moved(t, f)
    BY <1>1, <1>4, <2>1, GoMoves
  <2>3. UNCHANGED <<listVars, calls>>
    BY <1>1, <1>4 DEF listVars
  <2> QED BY <1>1, <2>2, <2>3, QuietStep, QuietVars
<1> QED BY <1>3, <1>4 DEF MarkBottom

(***************************************************************************)
(* Linking a node into an upper level keeps the invariant, also with       *)
(* references that are out of date.                                        *)
(***************************************************************************)
LEMMA LinkUpperStep ==
  ASSUME IInv, NEW t \in Threads, LinkUpper(t) PROVE IInv'
<1> DEFINE f == frame[t]
           l == f.at
           n == f.preds[l]
           w == Pack(f.node, FALSE)
           g == [f EXCEPT !.at = @ + 1]
<1>1. /\ TypeOK /\ f \in Frames /\ FrameOK("up", f)
      /\ linked' = linked /\ range' = range /\ topLevel' = topLevel
      /\ UNCHANGED <<elementsCount, calls, owned, contended>>
  BY ThreadFacts DEF LinkUpper
<1>2. /\ f.find = "insert" /\ 0 < l /\ l <= f.top /\ l \in Levels
      /\ f.top \in Levels /\ f.want \in Requests /\ Inserts(f)
      /\ Noted(f, l)
  <2>1. l \in 0 .. (MaxLevel + 1) /\ f.top \in Levels
    BY <1>1 DEF Frames
  <2>2. l \in Levels /\ 0 < l /\ l <= f.top
    BY <1>1, <2>1, LevelAssumption DEF FrameOK, Levels
  <2> QED BY <1>1, <2>1, <2>2 DEF FrameOK
<1>3. HasLevel(n, l) /\ n \in Node /\ HasLevel(f.succs[l], l)
      /\ f.succs[l] # Null
  BY <1>2, NodeAssumption DEF Noted, HasLevel
<1>4. HasLevel(f.node, l)
  BY <1>1, <1>2, LevelAssumption DEF Inserts, HasLevel, Levels, TypeOK
<1>5. CASE /\ CanSet(next[n][l], f.succs[l], FALSE)
           /\ next' = [next EXCEPT ![n][l] = w]
           /\ Go(t, IF f.at < f.top THEN "up" ELSE "count", g)
  <2>1. OneWord(n, l, w)
    BY <1>1, <1>5 DEF OneWord
  <2>2. next[n][l] = Pack(f.succs[l], FALSE)
    BY <1>5 DEF CanSet
  <2>3. n # tail
    BY <1>2, <1>3, <2>2 DEF IInv, ListInv, Ends, Pack
  <2>4. /\ w \in WordsOver(Node) /\ w.ref = f.node /\ ~next[n][l].mark
    BY <1>4, <2>2 DEF WordsOver, Pack, HasLevel
  <2>5. /\ g \in Frames /\ g.at = f.at + 1 /\ g.node = f.node
        /\ g.want = f.want /\ g.find = f.find /\ g.top = f.top
        /\ g.preds = f.preds /\ g.succs = f.succs
    <3>1. f.at + 1 \in 0 .. (MaxLevel + 1)
      BY <1>2, LevelAssumption DEF Levels
    <3> QED BY <1>1, <3>1 DEF Frames
  <2> HIDE DEF g
  <2>6. Inserts(g) /\ g.at > 0
    BY <1>2, <2>5 DEF Inserts, Levels
  <2>7. Moved(t, f)
    <3>1. CASE f.at < f.top
      <4>1. FrameOK("up", g) /\ "up" \in Labels
        BY <1>1, <1>2, <2>5, <2>6, <3>1, LevelAssumption
           DEF FrameOK, Searching, Labels, Noted, Levels
      <4> QED BY <1>1, <1>5, <2>5, <2>6, <3>1, <4>1, GoMoves
    <3>2. CASE ~(f.at < f.top)
      <4>1. FrameOK("count", g) /\ "count" \in Labels
        BY <1>2, <2>5, <2>6 DEF FrameOK, Searching, Labels
      <4> QED BY <1>1, <1>5, <2>5, <2>6, <3>2, <4>1, GoMoves
    <3> QED BY <3>1, <3>2
  <2>8. /\ \A m \in Node : Published(m)' <=> Published(m)
        /\ \A m \in Node : next'[m][0] = next[m][0]
    <3>1. HasLevel(w.ref, l)
      BY <1>4, <2>4
    <3>2. l # 0
      BY <1>2 DEF Levels
    <3> HIDE DEF w, n, l, f
    <3> QED BY <1>2, <1>3, <2>1, <2>3, <2>4, <3>1, <3>2, OneWordFacts
  <2>9. linked' \in SUBSET Node /\ OrderedChain' /\ Disjoint' /\ Membership'
    BY <1>1, <2>8, SameChain
  <2> QED BY <1>2, <1>3, <1>4, <2>1, <2>3, <2>4, <2>7, <2>9, OneWordStep
<1>6. CASE /\ ~CanSet(next[n][l], f.succs[l], FALSE)
           /\ Go(t, "curr", StartFind(f, "insert")) /\ UNCHANGED next
  <2>1. Inserts(StartFind(f, "insert"))
    BY <1>1, <1>2, StartFindFacts DEF Inserts
  <2>2. Moved(t, f)
    BY <1>2, <1>6, <2>1, RetryStep
  <2>3. UNCHANGED <<listVars, calls>>
    BY <1>1, <1>6 DEF listVars
  <2> QED BY <1>1, <2>2, <2>3, QuietStep, QuietVars
<1> QED BY <1>5, <1>6 DEF LinkUpper

(***************************************************************************)
(* Ranges of published nodes are pairs of integers, in order; two nodes of *)
(* the list with the same start are one node.                              *)
(***************************************************************************)
LEMMA LinkedFacts ==
  ASSUME IInv, NEW n \in linked
  PROVE  /\ n \in Node /\ Published(n) /\ Start(n) \in Int /\ End(n) \in Int
         /\ Min <= Start(n) /\ Start(n) <= End(n)
  BY DEF IInv, TypeOK, ListInv, Membership, Ends, RangesOver, Start, End

(***************************************************************************)
(* No two nodes of the list start at the same key.                         *)
(***************************************************************************)
LEMMA StartsDiffer ==
  ASSUME IInv, NEW m \in linked, NEW n \in linked, Start(m) = Start(n)
  PROVE  m = n
  BY LinkedFacts DEF IInv, ListInv, Disjoint

(***************************************************************************)
(* Cutting a marked node out of the chain of level 0 leaves a chain: the   *)
(* marked node still has the successor it had when it was marked.          *)
(***************************************************************************)
LEMMA CutChain ==
  ASSUME IInv, NEW p, NEW c, NEW s, HasLevel(p, 0), p # tail,
         next[p][0] = Pack(c, FALSE), next[c][0] = Pack(s, TRUE),
         c \in Node,
         linked' = linked \ {c}, range' = range,
         \A m \in Node : Published(m)' <=> Published(m),
         \A m \in Node : m # p => next'[m][0] = next[m][0],
         next'[p][0] = Pack(s, FALSE)
  PROVE  linked' \in SUBSET Node /\ OrderedChain' /\ Disjoint' /\ Membership'
<1>1. OrderedChain /\ Disjoint /\ Membership /\ Ends /\ linked \subseteq Node
  BY DEF IInv, ListInv, TypeOK
<1>2. p \in linked /\ p \in Node
  BY <1>1 DEF Membership, HasLevel, Pack
<1>3. next[p][0].ref = c /\ next[c][0].ref = s /\ next[c][0].mark
      /\ next'[p][0].ref = s
  BY DEF Pack
<1>4. c \in linked /\ End(p) < Start(c)
  BY <1>1, <1>2, <1>3 DEF OrderedChain
<1>5. c # tail
  BY <1>1, <1>3, LevelAssumption DEF Ends, Pack, Levels
<1>6. s \in linked /\ End(c) < Start(s)
  BY <1>1, <1>3, <1>4, <1>5 DEF OrderedChain
<1>7. /\ c # p /\ s # c /\ s # p /\ c # head
      /\ Start(p) <= End(p) /\ Start(c) <= End(c) /\ Start(s) <= End(s)
      /\ {Start(p), End(p), Start(c), End(c), Start(s), End(s)} \subseteq Int
  <2>1. Start(head) = Min /\ Min \in Int
    BY <1>1, RequestAssumption DEF Ends, Start
  <2> QED BY <1>2, <1>4, <1>6, <2>1, LinkedFacts
<1>8. \A m \in linked \ {tail} : m # p => next[m][0].ref # c
  <2> SUFFICES ASSUME NEW m \in linked \ {tail}, m # p, next[m][0].ref = c
               PROVE  FALSE
    OBVIOUS
  <2>1. /\ End(m) < Start(c)
        /\ Start(m) <= Start(p) \/ Start(c) <= Start(m)
        /\ Start(p) <= Start(m) \/ Start(c) <= Start(p)
    BY <1>1, <1>2, <1>3 DEF OrderedChain
  <2>2. Start(m) \in Int /\ End(m) \in Int /\ Start(m) <= End(m)
    BY LinkedFacts
  <2>3. Start(m) = Start(p)
    BY <1>4, <1>7, <2>1, <2>2
  <2> QED BY <1>2, <2>3, StartsDiffer
<1>9. OrderedChain'
  <2>1. ({head, tail} \subseteq linked)'
    BY <1>1, <1>5, <1>7 DEF OrderedChain
  <2>2. ASSUME NEW m \in linked', m # tail
        PROVE  /\ next'[m][0].ref \in linked'
               /\ range'[m].end < range'[next'[m][0].ref].start
               /\ \A q \in linked' :
                    \/ range'[q].start <= range'[m].start
                    \/ range'[next'[m][0].ref].start <= range'[q].start
    <3>1. CASE m = p
      <4>1. ASSUME NEW q \in linked'
            PROVE  Start(q) <= Start(p) \/ Start(s) <= Start(q)
        <5>1. /\ q \in linked /\ q # c
              /\ Start(q) <= Start(p) \/ Start(c) <= Start(q)
              /\ Start(q) <= Start(c) \/ Start(s) <= Start(q)
          BY <1>1, <1>2, <1>3, <1>4, <1>5 DEF OrderedChain
        <5>2. Start(q) \in Int /\ Start(q) # Start(c)
          BY <1>4, <5>1, LinkedFacts, StartsDiffer
        <5> QED BY <1>7, <5>1, <5>2
      <4>2. End(p) < Start(s)
        BY <1>4, <1>6, <1>7
      <4> QED BY <1>3, <1>6, <1>7, <3>1, <4>1, <4>2 DEF Start, End
    <3>2. CASE m # p
      <4>1. next'[m][0] = next[m][0] /\ m \in linked \ {tail}
        BY <1>1, <2>2, <3>2
      <4> QED BY <1>1, <1>8, <3>2, <4>1 DEF OrderedChain, Start, End
    <3> QED BY <3>1, <3>2
  <2> QED BY <2>1, <2>2 DEF OrderedChain, Start, End
<1>10. Disjoint'
  BY <1>1 DEF Disjoint, Start, End
<1>11. Membership'
  <2>1. \A n \in Node : n \in linked' => Published(n)'
    BY <1>1 DEF Membership
  <2>2. next'[c][0].mark
    BY <1>3, <1>7
  <2>3. \A n \in Node : Published(n)' /\ ~next'[n][0].mark => n \in linked'
    BY <1>1, <1>2, <1>7, <2>2 DEF Membership
  <2> QED BY <2>1, <2>3 DEF Membership
<1> QED BY <1>1, <1>9, <1>10, <1>11

(***************************************************************************)
(* Cutting out a marked node, on level 0 or above, keeps the invariant.    *)
(***************************************************************************)
LEMMA SnipStep ==
  ASSUME IInv, NEW t \in Threads, Snip(t) PROVE IInv'
<1> DEFINE f == frame[t]
           l == f.lvl
           n == f.pred
           w == Pack(f.succ, FALSE)
           g == [f EXCEPT !.curr = head, !.succ = head]
<1>1. /\ TypeOK /\ f \in Frames /\ FrameOK("snip", f)
      /\ range' = range /\ topLevel' = topLevel
      /\ UNCHANGED <<elementsCount, calls, owned, contended>>
  BY ThreadFacts DEF Snip
<1>2. /\ l \in Levels /\ f.curr \in Node /\ f.succ \in Node /\ n \in Node
      /\ f.find \in {"insert", "exact", "delete"} /\ f.want \in Requests
      /\ HasLevel(n, l) /\ n # tail /\ HasLevel(f.curr, l) /\ Inserts(f)
      /\ next[f.curr][l] = Pack(f.succ, TRUE)
      /\ f.find = "insert" => f.at <= f.top
  BY <1>1 DEF FrameOK, Searching, Searches, Frames
<1>3. CASE /\ CanSet(next[n][l], f.curr, FALSE)
           /\ next' = [next EXCEPT ![n][l] = w]
           /\ linked' = IF l = 0 THEN linked \ {f.curr} ELSE linked
           /\ Go(t, "again", g)
  <2>1. OneWord(n, l, w)
    BY <1>1, <1>3 DEF OneWord
  <2>2. next[n][l] = Pack(f.curr, FALSE) /\ ~next[n][l].mark
    BY <1>3 DEF CanSet, Pack
  <2>3. f.curr # tail
    BY <1>2 DEF IInv, ListInv, Ends, Pack
  <2>4. HasLevel(f.succ, l)
    <3>1. next[f.curr][l].ref = f.succ
      BY <1>2 DEF Pack
    <3> QED BY <1>2, <2>3, <3>1, NextLevel
  <2>5. w \in WordsOver(Node) /\ w.ref = f.succ
    BY <1>2 DEF WordsOver, Pack
  <2>6. /\ g \in Frames /\ g.lvl = f.lvl /\ g.pred = f.pred
        /\ g.find = f.find /\ g.want = f.want /\ g.at = f.at
        /\ g.top = f.top /\ g.node = f.node /\ g.preds = f.preds
        /\ g.succs = f.succs
    BY <1>1 DEF Frames, Node
  <2>7. Go(t, "again", g) /\ "again" \in Labels
    BY <1>3 DEF Labels
  <2> HIDE DEF g
  <2>8. FrameOK("again", g)
    BY <1>1, <2>6 DEF FrameOK, Searching, Searches, Inserts, Noted
  <2>9. Moved(t, frame[t])
    BY <1>1, <2>6, <2>7, <2>8, GoMoves
  <2>10. HasLevel(w.ref, l)
    BY <2>4, <2>5
  <2>11. /\ \A m \in Node : Published(m)' <=> Published(m)
         /\ \A m \in Node : m # n \/ l # 0 => next'[m][0] = next[m][0]
         /\ l = 0 => next'[n][0] = w
    <3>1. /\ l \in Levels /\ HasLevel(n, l) /\ n # tail
          /\ w \in WordsOver(Node) /\ ~next[n][l].mark
      BY <1>2, <2>2, <2>5
    <3> HIDE DEF w, n, l, f
    <3> QED BY <2>1, <2>10, <3>1, OneWordFacts
  <2>12. linked' \in SUBSET Node /\ OrderedChain' /\ Disjoint'
         /\ Membership'
    <3>1. CASE l = 0
      <4>1. /\ HasLevel(n, 0) /\ next[n][0] = Pack(f.curr, FALSE)
            /\ next[f.curr][0] = Pack(f.succ, TRUE)
            /\ linked' = linked \ {f.curr}
            /\ \A m \in Node : m # n => next'[m][0] = next[m][0]
            /\ next'[n][0] = Pack(f.succ, FALSE)
        BY <1>2, <1>3, <2>2, <2>11, <3>1
      <4>2. n # tail /\ f.curr \in Node /\ range' = range
            /\ \A m \in Node : Published(m)' <=> Published(m)
        BY <1>1, <1>2, <2>11
      <4> HIDE DEF w, n, l, f
      <4> QED BY <4>1, <4>2, CutChain
    <3>2. CASE l # 0
      <4>1. linked' = linked /\ \A m \in Node : next'[m][0] = next[m][0]
        BY <1>3, <2>11, <3>2
      <4> QED BY <1>1, <2>11, <4>1, SameChain
    <3> QED BY <3>1, <3>2
  <2> HIDE DEF w, n, l, f
  <2> QED BY <1>2, <2>1, <2>2, <2>5, <2>9, <2>10, <2>12, OneWordStep
<1>4. CASE /\ ~CanSet(next[n][l], f.curr, FALSE)
           /\ Go(t, "curr", StartFind(f, f.find))
           /\ UNCHANGED <<next, linked>>
  <2>1. Inserts(StartFind(f, f.find))
    BY <1>1, <1>2, StartFindFacts DEF Inserts
  <2>2. Moved(t, f)
    BY <1>2, <1>4, <2>1, RetryStep
  <2>3. UNCHANGED <<listVars, calls>>
    BY <1>1, <1>4 DEF listVars
  <2> QED BY <1>1, <2>2, <2>3, QuietStep, QuietVars
<1> QED BY <1>3, <1>4 DEF Snip

(***************************************************************************)
(* Linking a node between two neighbours of level 0 with room between them *)
(* gives a longer chain.  The room was seen some steps ago, but it depends *)
(* only on the ranges of the two nodes, which never change; that they are  *)
(* still neighbours and pred is still in the list is what the              *)
(* compareAndSet makes sure of.                                            *)
(***************************************************************************)
LEMMA ExtendChain ==
  ASSUME IInv, NEW p, NEW s \in Node, NEW k \in NewNodes, NEW r \in Requests,
         HasLevel(p, 0), next[p][0] = Pack(s, FALSE), ~Published(k),
         End(p) < r.start, r.end < Start(s),
         linked' = linked \cup {k},
         \A m \in Node : range'[m] = IF m = k THEN r ELSE range[m],
         \A m \in Node : Published(m)' <=> Published(m) \/ m = k,
         \A m \in Node : m # p /\ m # k => next'[m][0] = next[m][0],
         next'[p][0] = Pack(k, FALSE), next'[k][0] = Pack(s, FALSE)
  PROVE  linked' \in SUBSET Node /\ OrderedChain' /\ Disjoint' /\ Membership'
<1>1. /\ OrderedChain /\ Disjoint /\ Membership /\ Ends
      /\ linked \subseteq Node /\ k \in Node /\ k # head /\ k # tail
  BY NodeAssumption DEF IInv, ListInv, TypeOK, Node
<1>2. p # tail /\ p \in Node
  <2>1. 0 \in Levels /\ s # Null /\ next[p][0].ref = s
    BY LevelAssumption, NodeAssumption DEF Levels, Pack
  <2> QED BY <1>1, <2>1 DEF Ends, Pack, HasLevel
<1>3. p \in linked
  BY <1>1, <1>2 DEF Membership, HasLevel, Pack
<1>4. next[p][0].ref = s /\ next'[p][0].ref = k /\ next'[k][0].ref = s
  BY DEF Pack
<1>5. s \in linked /\ k \notin linked
  <2>1. next[p][0].ref \in linked
    BY <1>1, <1>2, <1>3 DEF OrderedChain
  <2>2. k \notin linked
    BY <1>1 DEF Membership
  <2> QED BY <1>4, <2>1, <2>2
<1>6. k # p /\ k # s /\ k \in linked' /\ linked \subseteq linked'
  BY <1>3, <1>5
<1>7. /\ r.start \in Int /\ r.end \in Int /\ r.start <= r.end
  BY RequestAssumption DEF RangesOver
<1>8. \A m \in linked : /\ range'[m] = range[m] /\ m # k /\ m \in Node
                        /\ Start(m) \in Int /\ End(m) \in Int
                        /\ Start(m) <= End(m)
  BY <1>1, <1>5, LinkedFacts
<1>9. range'[k] = r
  BY <1>1
<1>10. \A m \in linked : Start(m) <= Start(p) \/ Start(s) <= Start(m)
  BY <1>1, <1>2, <1>3, <1>4 DEF OrderedChain
<1>11. \A m \in linked : End(m) < r.start \/ r.end < Start(m)
  <2> SUFFICES ASSUME NEW m \in linked
               PROVE  End(m) < r.start \/ r.end < Start(m)
    OBVIOUS
  <2>1. CASE Start(s) <= Start(m)
    BY <1>5, <1>7, <1>8, <2>1
  <2>2. CASE m = p
    BY <2>2
  <2>3. CASE Start(m) <= Start(p) /\ m # p
    <3>1. End(m) < Start(p) \/ End(p) < Start(m)
      BY <1>1, <1>3, <2>3 DEF Disjoint
    <3> QED BY <1>3, <1>7, <1>8, <2>3, <3>1
  <2> QED BY <1>10, <2>1, <2>2, <2>3
<1>12. OrderedChain'
  <2>1. ({head, tail} \subseteq linked)'
    BY <1>1 DEF OrderedChain
  <2>2. ASSUME NEW m \in linked', m # tail
        PROVE  /\ next'[m][0].ref \in linked'
               /\ range'[m].end < range'[next'[m][0].ref].start
               /\ \A q \in linked' :
                    \/ range'[q].start <= range'[m].start
                    \/ range'[next'[m][0].ref].start <= range'[q].start
    <3>1. CASE m = p
      <4>1. \A q \in linked : Start(q) <= Start(p) \/ r.start <= Start(q)
        BY <1>5, <1>7, <1>8, <1>10
      <4>2. r.start <= r.start
        BY <1>7
      <4> QED BY <1>3, <1>4, <1>6, <1>8, <1>9, <3>1, <4>1, <4>2, ZenonT(60)
              DEF Start, End
    <3>2. CASE m = k
      <4>1. \A q \in linked : Start(q) <= r.start \/ Start(s) <= Start(q)
        BY <1>3, <1>7, <1>8, <1>10
      <4>2. r.start <= r.start
        BY <1>7
      <4> QED BY <1>4, <1>5, <1>6, <1>8, <1>9, <3>2, <4>1, <4>2
              DEF Start, End
    <3>3. CASE m # p /\ m # k
      <4>1. m \in linked \ {tail} /\ m \in Node
        BY <1>1, <2>2, <3>3
      <4>2. next'[m][0] = next[m][0]
        BY <3>3, <4>1
      <4>3. /\ next[m][0].ref \in linked
            /\ End(m) < Start(next[m][0].ref)
            /\ \A q \in linked :
                 Start(q) <= Start(m) \/ Start(next[m][0].ref) <= Start(q)
        BY <1>1, <4>1 DEF OrderedChain
      <4>4. r.start <= Start(m) \/ Start(next[m][0].ref) <= r.start
        <5>1. CASE Start(s) <= Start(m)
          BY <1>5, <1>7, <1>8, <4>1, <5>1
        <5>2. CASE Start(m) <= Start(p)
          <6>1. Start(m) # Start(p)
            BY <1>3, <3>3, <4>1, StartsDiffer
          <6>2. Start(next[m][0].ref) <= Start(p)
            BY <1>3, <1>8, <4>1, <4>3, <5>2, <6>1
          <6> QED BY <1>3, <1>7, <1>8, <4>3, <6>2
        <5> QED BY <1>10, <4>1, <5>1, <5>2
      <4> QED BY <1>6, <1>8, <1>9, <4>1, <4>2, <4>3, <4>4 DEF Start, End
    <3> QED BY <3>1, <3>2, <3>3
  <2> QED BY <2>1, <2>2 DEF OrderedChain, Start, End
<1>13. Disjoint'
  <2> SUFFICES ASSUME NEW m \in linked', NEW n \in linked', m # n
               PROVE  \/ range'[m].end < range'[n].start
                      \/ range'[n].end < range'[m].start
    BY DEF Disjoint, Start, End
  <2>1. CASE m \in linked /\ n \in linked
    BY <1>1, <1>8, <2>1 DEF Disjoint, Start, End
  <2>2. CASE m = k
    BY <1>8, <1>9, <1>11, <2>2 DEF Start, End
  <2>3. CASE n = k
    BY <1>8, <1>9, <1>11, <2>3 DEF Start, End
  <2> QED BY <2>1, <2>2, <2>3
<1>14. Membership'
  <2>1. \A n \in Node : n \in linked' => Published(n)'
    BY <1>1 DEF Membership
  <2>2. \A n \in Node : Published(n)' /\ ~next'[n][0].mark => n \in linked'
    BY <1>1, <1>3 DEF Membership
  <2> QED BY <2>1, <2>2 DEF Membership
<1> QED BY <1>1, <1>12, <1>13, <1>14

(***************************************************************************)
(* Linking a new node into level 0 keeps the invariant: between neighbours *)
(* that enclose the range, the chain stays ordered and without overlap.    *)
(***************************************************************************)
LEMMA LinkBottomStep ==
  ASSUME IInv, NEW t \in Threads, LinkBottom(t) PROVE IInv'
<1> DEFINE f == frame[t]
           k == f.node
           p == f.preds[0]
           s == f.succs[0]
           words == [l \in Levels |->
                       Pack(IF l <= f.top THEN f.succs[l] ELSE Null, FALSE)]
           g == [f EXCEPT !.at = 1]
<1>1. /\ TypeOK /\ f \in Frames /\ FrameOK("link", f)
      /\ UNCHANGED <<elementsCount, calls, owned>>
  BY ThreadFacts DEF LinkBottom
<1>2. /\ 0 \in Levels /\ f.find = "insert" /\ f.at = 0 /\ f.want \in Requests
      /\ \A l \in Levels : Noted(f, l)
      /\ End(p) < f.want.start /\ f.want.end < Start(s)
      /\ f.top \in Levels /\ k \in NewNodes /\ k \in Node /\ k <= calls
      /\ ~Published(k) /\ Inserts(f)
  BY <1>1, LevelAssumption DEF FrameOK, Inserts, Frames, Levels, Node
<1>3. HasLevel(p, 0) /\ HasLevel(s, 0) /\ p \in Node /\ s \in Node /\ p # k
      /\ s # k /\ k # head /\ k # tail
  BY <1>2, NodeAssumption DEF Noted, HasLevel
<1>4. CASE /\ CanSet(next[p][0], s, FALSE)
           /\ next' = [next EXCEPT ![k] = words, ![p][0] = Pack(k, FALSE)]
           /\ range' = [range EXCEPT ![k] = f.want]
           /\ topLevel' = [topLevel EXCEPT ![k] = f.top]
           /\ linked' = linked \cup {k}
           /\ contended' = [u \in Threads |->
                u # t /\ ( \/ contended[u]
                           \/ /\ frame[u].find = "insert" /\ frame[u].at = 0
                              /\ ClosedOverlap(f.want, frame[u].want) )]
           /\ Go(t, IF f.top > 0 THEN "up" ELSE "count", g)
  <2>1. \A l \in Levels : f.succs[l] \in Node /\ f.succs[l] # Null
    BY <1>2, NodeAssumption DEF Noted, HasLevel
  <2>2. /\ \A m \in Node : m # p /\ m # k => next'[m] = next[m]
        /\ \A l \in Levels : l # 0 => next'[p][l] = next[p][l]
        /\ next'[p][0] = Pack(k, FALSE)
        /\ next'[k] = words
        /\ next' \in [Node -> [Levels -> WordsOver(Node \cup {Null})]]
    <3>1. words \in [Levels -> WordsOver(Node \cup {Null})]
      BY <2>1 DEF WordsOver, Pack
    <3>2. Pack(k, FALSE) \in WordsOver(Node \cup {Null})
      BY <1>2 DEF WordsOver, Pack
    <3> HIDE DEF words, k, p, f
    <3> QED BY <1>1, <1>2, <1>3, <1>4, <3>1, <3>2 DEF TypeOK
  <2>3. /\ \A l \in Levels : l <= f.top => next'[k][l] = Pack(f.succs[l], FALSE)
        /\ \A l \in Levels : ~next'[k][l].mark /\ ~next'[p][0].mark
        /\ next'[k][0] = Pack(s, FALSE)
    <3>1. \A l \in Levels : next'[k][l] =
            Pack(IF l <= f.top THEN f.succs[l] ELSE Null, FALSE)
      BY <2>2
    <3>2. 0 <= f.top
      BY <1>2, LevelAssumption DEF Levels
    <3>3. \A l \in Levels : ~next'[k][l].mark
      <4>1. \A x : Pack(x, FALSE).mark = FALSE
        BY DEF Pack
      <4> HIDE DEF k, f
      <4> QED BY <3>1, <4>1
    <3>4. \A l \in Levels : l <= f.top => next'[k][l] = Pack(f.succs[l], FALSE)
      BY <3>1
    <3>5. next'[k][0] = Pack(s, FALSE) /\ ~next'[p][0].mark
      BY <1>2, <2>2, <3>2, <3>4 DEF Pack
    <3> QED BY <3>3, <3>4, <3>5
  <2>4. /\ \A m \in Node : range'[m] = IF m = k THEN f.want ELSE range[m]
        /\ \A m \in Node : topLevel'[m] = IF m = k THEN f.top ELSE topLevel[m]
        /\ range' \in [Node -> RangesOver(Int)]
        /\ topLevel' \in [Node -> Levels]
        /\ linked' \in SUBSET Node
    BY <1>1, <1>2, <1>4 DEF TypeOK, Frames
  <2>5. \A m \in Node : Published(m)' <=> Published(m) \/ m = k
    <3>1. CanSet(next[p][0], s, FALSE) /\ next'[p][0].ref # Null
          /\ next'[k][0].ref # Null
      <4>1. k # Null /\ s # Null
        BY <1>2, <2>1, NodeAssumption
      <4>2. Pack(k, FALSE).ref = k /\ Pack(s, FALSE).ref = s
        BY DEF Pack
      <4> QED BY <1>4, <2>2, <2>3, <4>1, <4>2
    <3> HIDE DEF k, p, f, words
    <3> QED BY <1>2, <1>3, <2>2, <3>1 DEF Published, HasLevel
  <2>6. ~next[p][0].mark
    BY <1>4 DEF CanSet, Pack
  <2>7. calls' = calls /\ calls \in Nat
    BY <1>1, SizeAssumption DEF TypeOK
  <2>8. \A m \in Node, l \in Levels :
          next[m][l].mark /\ m # k => next'[m][l] = next[m][l]
    BY <1>3, <2>2, <2>6
  <2>9. \A l \in Levels : ~next[k][l].mark
    BY <1>2 DEF IInv, ListInv, Ends
  <2>10. Stable
    <3> HIDE DEF k, p, f, words
    <3> QED BY <1>2, <2>4, <2>5, <2>7, <2>8, <2>9 DEF Stable
  <2>11. contended' \in [Threads -> BOOLEAN]
    BY <1>4
  <2>12. /\ g \in Frames /\ g.at = 1 /\ g.node = k /\ g.want = f.want
         /\ g.find = "insert" /\ g.top = f.top /\ g.preds = f.preds
         /\ g.succs = f.succs
    BY <1>1, <1>2, LevelAssumption DEF Frames
  <2>13. /\ pc' \in [Threads -> Labels] /\ frame' \in [Threads -> Frames]
         /\ pc'[t] = (IF f.top > 0 THEN "up" ELSE "count") /\ frame'[t] = g
         /\ \A u \in Threads \ {t} : pc'[u] = pc[u] /\ frame'[u] = frame[u]
    <3>1. (IF f.top > 0 THEN "up" ELSE "count") \in Labels
      BY DEF Labels
    <3> HIDE DEF g
    <3> QED BY <1>1, <1>4, <2>12, <3>1, GoFacts
  <2>14. TypeOK'
    BY <1>1, <2>2, <2>4, <2>7, <2>11, <2>13 DEF TypeOK
  <2>15. OrderedChain' /\ Disjoint' /\ Membership'
    <3>1. /\ next[p][0] = Pack(s, FALSE) /\ linked' = linked \cup {k}
          /\ \A m \in Node : m # p /\ m # k => next'[m][0] = next[m][0]
      BY <1>4, <2>2 DEF CanSet
    <3> DEFINE r == f.want
    <3>2. /\ r \in Requests /\ End(p) < r.start /\ r.end < Start(s)
          /\ \A m \in Node : range'[m] = IF m = k THEN r ELSE range[m]
      BY <1>2, <2>4
    <3>3. /\ s \in Node /\ k \in NewNodes /\ HasLevel(p, 0)
          /\ ~Published(k)
          /\ next'[p][0] = Pack(k, FALSE) /\ next'[k][0] = Pack(s, FALSE)
      BY <1>2, <1>3, <2>2, <2>3
    <3> HIDE DEF k, p, s, f, words, r
    <3> QED BY <2>5, <3>1, <3>2, <3>3, ExtendChain, ZenonT(60)
  <2>16. Successors'
    <3> SUFFICES ASSUME NEW m \in Node \ {tail}, Published(m)',
                        NEW l \in Levels, l <= topLevel'[m]
                 PROVE  HasLevel(next[m][l].ref, l)'
      BY DEF Successors
    <3>1. \A n \in Node : HasLevel(n, l) => HasLevel(n, l)'
      BY <1>1, <2>10, StableLevel
    <3>2. CASE m = k
      <4>1. next'[m][l].ref = f.succs[l] /\ HasLevel(f.succs[l], l)
        <5>1. l <= f.top /\ HasLevel(f.succs[l], l)
          BY <1>2, <2>4, <3>2 DEF Noted
        <5>2. next'[k][l] = Pack(f.succs[l], FALSE)
          BY <2>3, <5>1
        <5> QED BY <3>2, <5>1, <5>2 DEF Pack
      <4>2. PICK n \in Node : n = f.succs[l]
        BY <2>1
      <4>3. HasLevel(n, l)'
        BY <3>1, <4>1, <4>2
      <4> QED BY <4>1, <4>2, <4>3 DEF HasLevel, Published
    <3>3. CASE m = p /\ l = 0
      <4>1. next'[m][l].ref = k
        BY <2>2, <3>3 DEF Pack
      <4>2. k \in Node /\ 0 <= topLevel'[k]
        BY <1>2, <2>4, LevelAssumption DEF Levels
      <4>3. PICK n \in Node : n = k
        BY <4>2
      <4>4. HasLevel(n, l)'
        BY <2>5, <3>3, <4>2, <4>3 DEF HasLevel
      <4> QED BY <4>1, <4>3, <4>4 DEF HasLevel, Published
    <3>4. CASE m # k /\ ~(m = p /\ l = 0)
      <4>1. next'[m][l] = next[m][l] /\ Published(m) /\ l <= topLevel[m]
        BY <2>2, <2>4, <2>5, <3>4
      <4>2. HasLevel(next[m][l].ref, l)
        BY <4>1 DEF IInv, ListInv, Successors
      <4>3. PICK n \in Node : n = next[m][l].ref
        BY <4>2 DEF HasLevel
      <4>4. HasLevel(n, l)'
        BY <3>1, <4>2, <4>3
      <4> QED BY <4>1, <4>3, <4>4 DEF HasLevel, Published
    <3> QED BY <3>2, <3>3, <3>4
  <2>17. Ends'
    <3>1. Ends
      BY DEF IInv, ListInv
    <3>2. /\ range'[head] = range[head] /\ range'[tail] = range[tail]
          /\ topLevel'[head] = topLevel[head]
          /\ topLevel'[tail] = topLevel[tail]
      BY <1>3, <2>4 DEF Node
    <3>3. p # tail
      BY <1>2, <1>4, <2>1, <3>1 DEF Ends, CanSet, Pack
    <3>4. next'[tail] = next[tail]
      BY <1>3, <2>2, <3>3 DEF Node
    <3>5. (\A n \in Node : Published(n) => Min <= Start(n) /\ Start(n) <= End(n))'
      BY <1>2, <2>4, <2>5, <3>1, RequestAssumption DEF Ends, Start, End
    <3>6. \A n \in Node, l \in Levels : next'[n][l].mark => Published(n)'
      <4> HIDE DEF k, p, f, words
      <4> QED BY <1>3, <2>2, <2>3, <2>5, <3>1 DEF Ends, HasLevel
    <3> QED BY <3>1, <3>2, <3>4, <3>5, <3>6 DEF Ends
  <2>18. \A u \in Threads \ {t} :
           frame[u].find = "insert" /\ frame[u].at = 0 =>
             /\ frame[u].node # k /\ frame[u].node \in Node
             /\ ~Published(frame[u].node)
    BY <1>2 DEF IInv, Fresh, FrameOK, Inserts, Node
  <2>19. Fresh'
    <3>1. (\A n \in NewNodes : n > calls => ~Published(n))'
      BY <1>2, <2>5, <2>7 DEF IInv, Fresh, Node, NewNodes
    <3>2. ASSUME NEW u \in Threads, NEW v \in Threads, u # v,
                 frame'[u].find = "insert", frame'[u].at = 0,
                 frame'[v].find = "insert", frame'[v].at = 0
          PROVE  frame'[u].node # frame'[v].node
      <4>1. u # t /\ v # t
        <5>1. frame'[t].at = 1
          BY <2>12, <2>13
        <5> QED BY <3>2, <5>1
      <4> QED BY <2>13, <3>2, <4>1 DEF IInv, Fresh
    <3> QED BY <3>1, <3>2 DEF Fresh
  <2>20. \A u \in Threads \ {t} :
           frame[u].find = "insert" /\ frame[u].at = 0 =>
             ~Published(frame[u].node)'
    <3> SUFFICES ASSUME NEW u \in Threads \ {t},
                        frame[u].find = "insert", frame[u].at = 0
                 PROVE  ~Published(frame[u].node)'
      OBVIOUS
    <3>1. PICK n \in Node : n = frame[u].node
      BY <2>18
    <3>2. ~Published(n)'
      BY <2>5, <2>18, <3>1
    <3> QED BY <2>13, <3>1, <3>2 DEF Published
  <2>21. FrameOK(pc[t], frame[t])'
    <3>1. PICK h \in Frames : h = frame'[t]
      BY <2>12, <2>13
    <3>2. /\ h.at = 1 /\ h.node = k /\ h.want = f.want /\ h.find = "insert"
          /\ h.top = f.top /\ h.preds = f.preds /\ h.succs = f.succs
      BY <2>12, <2>13, <3>1
    <3>3. \A l \in Levels : Noted(h, l)'
      <4> SUFFICES ASSUME NEW l \in Levels PROVE Noted(h, l)'
        OBVIOUS
      <4>1. HasLevel(h.preds[l], l) /\ HasLevel(h.succs[l], l)
        BY <1>2, <3>2 DEF Noted
      <4> QED BY <1>1, <2>10, <4>1, StableLevel DEF Noted
    <3>4. Inserts(h)'
      <4>1. h.node \in NewNodes /\ Published(h.node)' /\ h.node \in Node
            /\ topLevel'[h.node] = h.top /\ h.top \in Int
        BY <1>2, <2>4, <2>5, <3>2 DEF Levels
      <4> QED BY <3>2, <4>1 DEF Inserts, HasLevel
    <3>5. CASE f.top > 0
      <4>1. FrameOK("up", h)'
        BY <1>2, <3>2, <3>3, <3>4, <3>5 DEF FrameOK, Searching, Levels
      <4> QED BY <2>13, <3>1, <3>5, <4>1
    <3>6. CASE ~(f.top > 0)
      <4>1. FrameOK("count", h)'
        BY <1>2, <3>2, <3>4 DEF FrameOK, Searching
      <4> QED BY <2>13, <3>1, <3>6, <4>1
    <3> QED BY <3>5, <3>6
  <2>22. ListInv'
    BY <2>15, <2>16, <2>17 DEF ListInv
  <2> QED BY <2>10, <2>13, <2>14, <2>19, <2>20, <2>21, <2>22, LoudStep
<1>5. CASE /\ ~CanSet(next[p][0], s, FALSE)
           /\ Go(t, "curr", StartFind(f, "insert"))
           /\ UNCHANGED <<listVars, contended>>
  <2>1. Inserts(StartFind(f, "insert"))
    BY <1>1, <1>2, StartFindFacts DEF Inserts
  <2>2. f.at <= f.top
    BY <1>2, LevelAssumption DEF Levels
  <2>3. Moved(t, f)
    BY <1>2, <1>5, <2>1, <2>2, RetryStep
  <2> QED BY <1>1, <1>5, <2>3, QuietStep, QuietVars
<1> QED BY <1>4, <1>5 DEF LinkBottom, NewWords

-----------------------------------------------------------------------------
(***************************************************************************)
(* The invariant holds initially and every step keeps it.                  *)
(***************************************************************************)
LEMMA InitInv ==
  ASSUME BelowMax PROVE Init => IInv
<1> SUFFICES ASSUME Init PROVE IInv
  OBVIOUS
<1> USE DEF Init
<1>1. /\ head \in Node /\ tail \in Node /\ head # tail /\ Null \notin Node
      /\ 0 \in Levels /\ MaxLevel \in Levels /\ MaxLevel \in Nat
      /\ head \notin NewNodes /\ tail \notin NewNodes
  BY NodeAssumption, LevelAssumption DEF Node, Levels
<1>2. TypeOK
  <2>1. next \in [Node -> [Levels -> WordsOver(Node \cup {Null})]]
    BY <1>1 DEF WordsOver, Pack
  <2>2. range \in [Node -> RangesOver(Int)]
    BY RequestAssumption DEF RangesOver
  <2>3. topLevel \in [Node -> Levels]
    BY <1>1
  <2>4. elementsCount \in 0 .. (SizeModulus - 1) /\ calls \in 0 .. MaxCalls
    BY SizeAssumption
  <2>5. pc \in [Threads -> Labels] /\ frame \in [Threads -> Frames]
    BY RestType DEF Labels
  <2> QED BY <1>1, <2>1, <2>2, <2>3, <2>4, <2>5 DEF TypeOK
<1>3. \A n \in Node, l \in Levels :
        /\ next[n][l].ref = IF n = head THEN tail ELSE Null
        /\ next[n][l].mark = FALSE
        /\ next[n][l] = Pack(IF n = head THEN tail ELSE Null, FALSE)
  BY DEF Pack
<1>4. \A n \in Node : Published(n) <=> n \in {head, tail}
  BY <1>1, <1>3 DEF Published
<1>5. Start(head) = Min /\ End(head) = Min /\ Start(tail) = Max
      /\ End(tail) = Max /\ Min < Max /\ Min \in Int /\ Max \in Int
  BY <1>1, RequestAssumption DEF Start, End
<1>6. OrderedChain /\ Disjoint
  <2>1. linked = {head, tail} /\ next[head][0].ref = tail
    BY <1>1, <1>3
  <2> HIDE DEF Init
  <2>2. Disjoint
    BY <1>5, <2>1 DEF Disjoint
  <2>3. OrderedChain
    <3>1. linked \ {tail} = {head}
      BY <1>1, <2>1
    <3>2. \A q \in linked : Start(q) <= Start(head) \/ Start(tail) <= Start(q)
      BY <1>5, <2>1
    <3> QED BY <1>5, <2>1, <3>1, <3>2 DEF OrderedChain
  <2> QED BY <2>2, <2>3
<1>7. Membership
  BY <1>4 DEF Membership
<1>8. Successors
  BY <1>1, <1>3, <1>4 DEF Successors, HasLevel, Levels
<1>9. Ends
  <2>1. range[head] = [start |-> Min, end |-> Min]
        /\ range[tail] = [start |-> Max, end |-> Max]
    BY <1>1
  <2>2. topLevel[head] = MaxLevel /\ topLevel[tail] = MaxLevel
    BY <1>1
  <2>3. \A l \in Levels : next[tail][l] = Pack(Null, FALSE)
    BY <1>1, <1>3
  <2>4. \A n \in Node : Published(n) => Min <= Start(n) /\ Start(n) <= End(n)
    BY <1>4, <1>5
  <2> QED BY <1>3, <2>1, <2>2, <2>3, <2>4 DEF Ends
<1>10. Fresh
  <2>1. Rest.find = "none"
    BY DEF Rest
  <2> QED BY <1>1, <1>4, <2>1 DEF Fresh, Node
<1>11. \A t \in Threads : FrameOK(pc[t], frame[t])
  <2>1. Rest.find = "none"
    BY DEF Rest
  <2> QED BY <2>1 DEF FrameOK, Searching, Inserts
<1> QED BY <1>2, <1>6, <1>7, <1>8, <1>9, <1>10, <1>11 DEF IInv, ListInv

(***************************************************************************)
(* Every step keeps the invariant.                                         *)
(***************************************************************************)
LEMMA NextInv == IInv /\ [Next]_vars => IInv'
<1> SUFFICES ASSUME IInv, [Next]_vars PROVE IInv'
  OBVIOUS
<1>1. CASE UNCHANGED vars
  <2>1. /\ next' = next /\ range' = range /\ topLevel' = topLevel
        /\ linked' = linked /\ calls' = calls /\ pc' = pc /\ frame' = frame
        /\ elementsCount' = elementsCount /\ owned' = owned
        /\ contended' = contended
    BY <1>1 DEF vars
  <2>2. TypeOK' /\ ListInv'
    BY <2>1, QuietList DEF listVars, IInv, TypeOK
  <2>3. Fresh'
    BY <2>1 DEF IInv, Fresh, Published
  <2>4. ASSUME NEW u \in Threads PROVE FrameOK(pc[u], frame[u])'
    <3>1. FrameOK(pc[u], frame[u])
      BY DEF IInv
    <3> QED BY <2>1, <3>1, ZenonT(60)
            DEF FrameOK, Searches, Noted, Inserts, HasLevel, Published,
                Start, End
  <2> QED BY <2>2, <2>3, <2>4 DEF IInv
<1>2. ASSUME NEW t \in Threads, NEW r \in Requests, NEW height \in Levels,
             TryLock(t, r, height)
      PROVE  IInv'
  BY <1>2, TryLockStep
<1>3. ASSUME NEW t \in Threads, NEW r \in Requests, ReleaseLock(t, r)
      PROVE  IInv'
  BY <1>3, ReleaseLockStep
<1>4. ASSUME NEW t \in Threads, Step(t) PROVE IInv'
  BY <1>4, ReadCurrStep, ReadSuccStep, SnipStep, RereadStep, RefuseStep,
     LinkBottomStep, LinkUpperStep, CountUpStep, MarkUpperStep, TryMarkStep,
     ReadBottomStep, MarkBottomStep, RecheckStep, CountDownStep,
     ReportWrongStep
     DEF Step
<1> QED BY <1>1, <1>2, <1>3, <1>4 DEF Next

(***************************************************************************)
(* The inductive invariant of the skip list of src/src/v0 holds in every   *)
(* reachable state if no range begins at the highest key: chain, marks,    *)
(* published nodes and what each thread knows of them fit together after   *)
(* every step of tryLock and releaseLock.                                  *)
(***************************************************************************)
THEOREM Invariance ==
  ASSUME BelowMax PROVE Spec => []IInv
  BY InitInv, NextInv, PTL DEF Spec

(***************************************************************************)
(* Every variable keeps its type; in particular no search of v0 ever       *)
(* follows a null reference, if no range begins at the highest key.        *)
(***************************************************************************)
THEOREM TypeCorrect ==
  ASSUME BelowMax PROVE Spec => []TypeOK
<1>1. IInv => TypeOK
  BY DEF IInv
<1> QED BY <1>1, Invariance, PTL

(***************************************************************************)
(* Mutual exclusion of src/src/v0: whatever the threads call, in whatever  *)
(* order their steps fall, no two overlapping ranges are in the list.      *)
(***************************************************************************)
THEOREM Exclusion ==
  ASSUME BelowMax PROVE Spec => []MutualExclusion
<1>1. IInv => MutualExclusion
  <2> SUFFICES ASSUME IInv, NEW m \in Locked, NEW n \in Locked, m # n
               PROVE  ~ClosedOverlap(range[m], range[n])
    BY DEF MutualExclusion
  <2>1. m \in linked /\ n \in linked
    BY DEF Locked
  <2>2. End(m) < Start(n) \/ End(n) < Start(m)
    BY <2>1 DEF IInv, ListInv, Disjoint
  <2> QED BY <2>1, <2>2, LinkedFacts DEF ClosedOverlap, Start, End
<1> QED BY <1>1, Invariance, PTL

(***************************************************************************)
(* The list of level 0 of src/src/v0 is an ordered chain from head to tail *)
(* in every state.                                                         *)
(***************************************************************************)
THEOREM ChainOrdered ==
  ASSUME BelowMax PROVE Spec => []OrderedChain
<1>1. IInv => OrderedChain
  BY DEF IInv, ListInv
<1> QED BY <1>1, Invariance, PTL

(***************************************************************************)
(* The searches of src/src/v0 never read a word outside a node's array     *)
(* and, if no range begins at the highest key, never go on from the tail.  *)
(***************************************************************************)
THEOREM MemorySafe ==
  ASSUME BelowMax PROVE Spec => []WordsExist
<1>1. IInv => WordsExist
  <2> SUFFICES ASSUME IInv, NEW t \in Threads
               PROVE  LET f == frame[t] IN
                 /\ pc[t] \in {"curr", "snip", "again"} =>
                      f.lvl <= topLevel[f.pred] /\ f.pred # tail
                 /\ pc[t] \in {"succ", "snip"} => f.lvl <= topLevel[f.curr]
                 /\ pc[t] = "up" => f.at <= topLevel[f.preds[f.at]]
    BY DEF WordsExist
  <2>1. FrameOK(pc[t], frame[t]) /\ frame[t] \in Frames
    BY ThreadFacts
  <2>2. pc[t] = "up" => frame[t].at \in Levels
    BY <2>1, LevelAssumption DEF FrameOK, Frames, Levels
  <2> QED BY <2>1, <2>2 DEF FrameOK, Searching, Searches, Noted, HasLevel
<1> QED BY <1>1, Invariance, PTL

(***************************************************************************)
(* No step of src/src/v0 changes a marked word: every write to a word that *)
(* another thread can see is a compareAndSet that expects it unmarked.     *)
(***************************************************************************)
Frozen ==
  \A n \in Node, l \in Levels : next[n][l].mark => next'[n][l] = next[n][l]

(***************************************************************************)
(* A write to an unmarked word changes no marked one.                      *)
(***************************************************************************)
LEMMA WordWrite ==
  ASSUME TypeOK, NEW n \in Node, NEW l \in Levels, NEW w,
         ~next[n][l].mark, next' = [next EXCEPT ![n][l] = w]
  PROVE  Frozen
  BY DEF TypeOK, Frozen

(***************************************************************************)
(* No step inside a call changes a marked word.                            *)
(***************************************************************************)
LEMMA StepFrozen ==
  ASSUME IInv, NEW t \in Threads, Step(t) PROVE Frozen
<1> DEFINE f == frame[t]
<1>1. TypeOK /\ f \in Frames /\ FrameOK(pc[t], f) /\ 0 \in Levels
  BY ThreadFacts, LevelAssumption DEF Levels
<1>2. /\ f.lvl \in Levels /\ f.pred \in Node /\ f.node \in Node
      /\ \A l \in Levels : f.preds[l] \in Node
  BY <1>1 DEF Frames
<1>3. \A w, x : CanSet(w, x, FALSE) => ~w.mark
  BY DEF CanSet, Pack
<1>4. CASE next' = next
  BY <1>4 DEF Frozen
<1>5. CASE Snip(t)
  <2>1. \/ next' = next
        \/ /\ ~next[f.pred][f.lvl].mark
           /\ next' = [next EXCEPT ![f.pred][f.lvl] = Pack(f.succ, FALSE)]
    BY <1>3, <1>5 DEF Snip
  <2> HIDE DEF f
  <2> QED BY <1>1, <1>2, <1>4, <2>1, WordWrite
<1>6. CASE LinkUpper(t)
  <2>1. f.at \in Levels
    BY <1>1, <1>6, LevelAssumption DEF LinkUpper, FrameOK, Frames, Levels
  <2>2. \/ next' = next
        \/ /\ ~next[f.preds[f.at]][f.at].mark
           /\ next' = [next EXCEPT ![f.preds[f.at]][f.at] =
                         Pack(f.node, FALSE)]
    BY <1>3, <1>6 DEF LinkUpper
  <2> HIDE DEF f
  <2> QED BY <1>1, <1>2, <1>4, <2>1, <2>2, WordWrite
<1>7. CASE MarkBottom(t)
  <2>1. \/ next' = next
        \/ /\ ~next[f.node][0].mark
           /\ next' = [next EXCEPT ![f.node][0] = Pack(f.succ, TRUE)]
    BY <1>3, <1>7 DEF MarkBottom
  <2> HIDE DEF f
  <2> QED BY <1>1, <1>2, <1>4, <2>1, WordWrite
<1>8. CASE TryMark(t)
  <2>1. next' = [next EXCEPT ![f.node][f.lvl] =
                   AttemptMark(next[f.node][f.lvl], f.succ)]
    BY <1>1, <1>2, <1>8 DEF TryMark, TypeOK
  <2>2. CASE CanSet(next[f.node][f.lvl], f.succ, FALSE)
    BY <1>1, <1>2, <1>3, <2>1, <2>2, WordWrite
  <2>3. CASE ~CanSet(next[f.node][f.lvl], f.succ, FALSE)
    <3>1. AttemptMark(next[f.node][f.lvl], f.succ) = next[f.node][f.lvl]
      BY <2>3 DEF AttemptMark
    <3> QED BY <1>1, <1>2, <2>1, <3>1 DEF Frozen, TypeOK
  <2> QED BY <2>2, <2>3
<1>9. CASE LinkBottom(t)
  <2> DEFINE k == f.node
             p == f.preds[0]
             words == [l \in Levels |->
                         Pack(IF l <= f.top THEN f.succs[l] ELSE Null, FALSE)]
  <2>1. CASE /\ CanSet(next[p][0], f.succs[0], FALSE)
             /\ next' = [next EXCEPT ![k] = words, ![p][0] = Pack(k, FALSE)]
    <3>1. \A l \in Levels : ~next[k][l].mark
      BY <1>1, <1>2, <1>9 DEF LinkBottom, FrameOK, Inserts, IInv, ListInv, Ends
    <3>2. ~next[p][0].mark /\ p \in Node
      BY <1>1, <1>2, <1>3, <2>1
    <3> HIDE DEF k, p, words, f
    <3>3. \A n \in Node, l \in Levels :
            n # k /\ ~(n = p /\ l = 0) => next'[n][l] = next[n][l]
      BY <1>1, <2>1, <3>2 DEF TypeOK
    <3> QED BY <3>1, <3>2, <3>3 DEF Frozen
  <2> QED BY <1>4, <1>9, <2>1 DEF LinkBottom, NewWords, listVars
<1>10. CASE ~(Snip(t) \/ LinkUpper(t) \/ MarkBottom(t) \/ TryMark(t)
              \/ LinkBottom(t))
  BY <1>4, <1>10
     DEF Step, ReadCurr, ReadSucc, Reread, Refuse, CountUp, MarkUpper,
         ReadBottom, Recheck, CountDown, ReportWrong, listVars
<1> QED BY <1>5, <1>6, <1>7, <1>8, <1>9, <1>10

(***************************************************************************)
(* A word that releaseLock of src/src/v0 has marked never changes again,   *)
(* so a snip writes the successor that the marked word still has.          *)
(***************************************************************************)
THEOREM WordsFrozen ==
  ASSUME BelowMax PROVE Spec => MarkedWordsFrozen
<1>1. IInv /\ [Next]_vars => [Frozen]_vars
  <2> SUFFICES ASSUME IInv, Next PROVE Frozen
    OBVIOUS
  <2>1. ASSUME NEW t \in Threads, Step(t) PROVE Frozen
    BY <2>1, StepFrozen
  <2>2. ASSUME NEW t \in Threads, NEW r \in Requests,
               \/ ReleaseLock(t, r)
               \/ \E height \in Levels : TryLock(t, r, height)
        PROVE  Frozen
    BY <2>2 DEF ReleaseLock, TryLock, listVars, Frozen
  <2> QED BY <2>1, <2>2 DEF Next
<1>2. [Frozen]_vars <=> [\A n \in Node, l \in Levels :
        next[n][l].mark => next'[n][l] = next[n][l]]_vars
  BY DEF Frozen
<1> QED BY <1>1, <1>2, Invariance, PTL DEF Spec, MarkedWordsFrozen
=============================================================================

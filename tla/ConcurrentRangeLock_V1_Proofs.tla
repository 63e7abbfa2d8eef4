------------------- MODULE ConcurrentRangeLock_V1_Proofs -------------------
(***************************************************************************)
(* Proofs about the lock-based skip list of src/src/v1, for every number   *)
(* of threads, levels, calls and requests of more than one key.            *)
(***************************************************************************)
EXTENDS ConcurrentRangeLock_V1, FiniteSetTheorems, TLAPS

(***************************************************************************)
(* Every range holds more than one key.  A search passes a range of one    *)
(* key without seeing it, which would be granted again and never released, *)
(* and a search for the highest key alone passes the tail.  The theorems   *)
(* assume this; TypeOK is violated without it.                             *)
(***************************************************************************)
ProperRanges == \A r \in Requests : r.start < r.end

(***************************************************************************)
(* A node has a level once it has been linked there; it keeps it for good, *)
(* also when it is no longer in the list.                                  *)
(***************************************************************************)
HasLevel(n, l) == n \in Node_V1 /\ (n = tail \/ next[n][l] # Null)

Published(n) == HasLevel(n, 0)

(***************************************************************************)
(* One node lies before another.                                           *)
(***************************************************************************)
Before(m, n) == m # n /\ End(m) <= Start(n)

(***************************************************************************)
(* The nodes that are in the list of level l: a release that takes a node  *)
(* out begins with its highest level.                                      *)
(***************************************************************************)
TakenOff(n, l) ==
  \E t \in Threads :
    pc[t] = "unlink" /\ frame[t].node = n /\ frame[t].at < l

Level(l) == {n \in linked : HasLevel(n, l) /\ ~TakenOff(n, l)}

(***************************************************************************)
(* What is known of all nodes, in the list or not.                         *)
(***************************************************************************)
Pointers ==
  \A n \in Node_V1, l \in Levels : next[n][l] # Null =>
    /\ HasLevel(next[n][l], l) /\ next[n][l] # head
    /\ End(n) <= Start(next[n][l])
    /\ l <= topLevel[n]
    /\ \A k \in Levels : k <= l => next[n][k] # Null

Ends ==
  /\ range[head] = [start |-> Min, end |-> Min]
  /\ range[tail] = [start |-> Max, end |-> Max]
  /\ topLevel[head] = MaxLevel
  /\ \A l \in Levels : next[head][l] # Null /\ next[tail][l] = Null
  /\ ~marked[head] /\ ~marked[tail]

Nodes ==
  \A n \in NewNodes :
    /\ Published(n) => range[n] \in Requests /\ n <= calls
    /\ Published(n) /\ ~marked[n] => n \in linked
    /\ n \in linked => Published(n)
    /\ marked[n] => \A l \in Levels : l <= topLevel[n] => HasLevel(n, l)

(***************************************************************************)
(* The nodes of the list lie one before the other, and on every level      *)
(* neighbours have nothing between them.                                   *)
(***************************************************************************)
Disjoint == \A m, n \in linked : m # n => Before(m, n) \/ Before(n, m)

Chain(l) ==
  /\ {head, tail} \subseteq Level(l)
  /\ \A p \in Level(l) \ {tail} :
       /\ next[p][l] \in Level(l)
       /\ \A q \in Level(l) : ~(Before(p, q) /\ Before(q, next[p][l]))
  /\ \A n \in Level(l) \ {head} : \E p \in Level(l) : next[p][l] = n

ListInv ==
  /\ ProperRanges
  /\ Pointers /\ Ends /\ Nodes /\ Disjoint /\ \A l \in Levels : Chain(l)

-----------------------------------------------------------------------------
(***************************************************************************)
(* What a search has noted at level l, and what it has found.              *)
(***************************************************************************)
Noted(f, l) ==
  /\ HasLevel(f.preds[l], l) /\ f.preds[l] # tail
  /\ HasLevel(f.succs[l], l) /\ f.succs[l] # head
  /\ End(f.preds[l]) <= f.want.start
  /\ f.want.start < End(f.succs[l])
  /\ f.find = "insert" /\ f.found = NotFound
       => f.want.end < Start(f.succs[l])

FoundOK(f) ==
  /\ f.find = "insert" => Start(f.succs[f.found]) <= f.want.end
  /\ f.find = "exact" => range[f.succs[f.found]] = f.want

Searches(f) ==
  /\ f.at = 0 /\ HasLevel(f.pred, f.lvl) /\ f.pred # tail
  /\ End(f.pred) <= f.want.start
  /\ \A l \in Levels : l > f.lvl => Noted(f, l)
  /\ f.found # NotFound => f.found > f.lvl /\ FoundOK(f)

(***************************************************************************)
(* Thread t has locked the predecessor of level l and seen that it is one, *)
(* and has linked its node behind it.                                      *)
(***************************************************************************)
Secured(t, f, l) ==
  /\ mutex[f.preds[l]] = t /\ ~marked[f.preds[l]]
  /\ next[f.preds[l]][l] = IF f.find = "insert" THEN f.succs[l] ELSE f.node

Joined(t, f, l) ==
  /\ mutex[f.preds[l]] = t /\ ~marked[f.preds[l]]
  /\ next[f.preds[l]][l] = f.node /\ next[f.node][l] # Null

(***************************************************************************)
(* The node of a tryLock is its own, and unknown until it is linked.       *)
(***************************************************************************)
Placing(p, f) ==
  /\ f.find = "insert"
  /\ \/ p \in {"find", "seen", "refuse", "lock", "validate"}
     \/ p = "link" /\ f.at = 0

Placed(p, f) ==
  /\ f.find = "insert"
  /\ \/ p \in {"full", "count", "unlock"}
     \/ p = "link" /\ f.at > 0

Inserts(t, p, f) ==
  /\ f.find = "insert" =>
       /\ f.node \in NewNodes /\ f.node <= calls
       /\ f.top \in Heights /\ ~f.isMarked
  /\ Placing(p, f) => \A l \in Levels : next[f.node][l] = Null
  /\ Placed(p, f) =>
       /\ f.node \in linked /\ range[f.node] = f.want
       /\ topLevel[f.node] = f.top
       /\ \A l \in Levels : l <= f.top /\ (p = "link" => l < f.at)
            => Joined(t, f, l)
  /\ f.find = "insert" /\ p \in {"lock", "validate", "link", "full", "count"}
       => f.found = NotFound
  /\ p = "link" => \A l \in Levels : l >= f.at => next[f.node][l] = Null

(***************************************************************************)
(* The victim of a release, before and after it is marked.                 *)
(***************************************************************************)
Removes(t, p, f) ==
  /\ p \in {"check", "victim", "mark"} =>
       /\ ~f.isMarked /\ f.found \in Levels
       /\ f.node \in NewNodes /\ HasLevel(f.node, f.found)
       /\ range[f.node] = f.want
  /\ p \in {"victim", "mark"} => f.found = topLevel[f.node]
  /\ p = "mark" => mutex[f.node] = t
  /\ f.isMarked =>
       /\ f.find = "exact"
       /\ p \in {"find", "lock", "validate", "unlink", "uncount", "unlock"}
       /\ f.node \in NewNodes /\ marked[f.node] /\ range[f.node] = f.want
       /\ f.top = topLevel[f.node]
       /\ f.node \in linked <=> p \in {"find", "lock", "validate", "unlink"}

(***************************************************************************)
(* What thread t knows at label p with the locals f.                       *)
(***************************************************************************)
InsertLabels == {"seen", "refuse", "link", "full", "count"}
ExactLabels == {"check", "victim", "mark", "unlink", "uncount", "wrong",
                "exit"}

FrameOK(t, p, f) ==
  /\ p = "idle" <=> f.find = "none"
  /\ p # "idle" => f.want \in Requests
  /\ p \in InsertLabels => f.find = "insert"
  /\ p \in ExactLabels => f.find = "exact"
  /\ f.find = "exact" /\ p \in {"lock", "validate", "unlink", "uncount",
                                "unlock"} => f.isMarked
  /\ p = "find" => Searches(f)
  /\ p \in {"seen", "lock", "validate", "link", "full", "count", "check",
           "victim", "mark", "unlink"} => \A l \in Levels : Noted(f, l)
  /\ p = "seen" => f.found \in Levels /\ FoundOK(f)
  /\ p \in {"lock", "validate", "link", "unlink"} => f.at <= f.top
  /\ p \in {"lock", "validate"} =>
       \A l \in Levels : l < f.at => Secured(t, f, l)
  /\ p = "validate" => mutex[f.preds[f.at]] = t
  /\ p = "link" =>
       \A l \in Levels : f.at <= l /\ l <= f.top => Secured(t, f, l)
  /\ p = "unlink" => \A l \in Levels : l <= f.at => Secured(t, f, l)
  /\ Inserts(t, p, f) /\ Removes(t, p, f)

(***************************************************************************)
(* Two calls of tryLock do not share a node, nor do two calls of           *)
(* releaseLock that have marked theirs.                                    *)
(***************************************************************************)
Distinct ==
  \A t, u \in Threads : t # u =>
    /\ frame[t].find = "insert" /\ frame[u].find = "insert"
         => frame[t].node # frame[u].node
    /\ frame[t].isMarked /\ frame[u].isMarked
         => frame[t].node # frame[u].node

(***************************************************************************)
(* G[l] holds nodes of level l that lie before n, among them all that are  *)
(* in the list, and whoever follows the pointers of level l from there     *)
(* meets n before anything that lies behind n: nodes that left the list    *)
(* before n came may lead past it, but nobody gets to them from the head.  *)
(***************************************************************************)
Leads(G, n) ==
  \A l \in Levels :
    /\ \A g \in G[l] :
         /\ HasLevel(g, l) /\ Before(g, n) /\ g # tail
         /\ \A k \in Levels : k <= l => g \in G[k]
         /\ \/ next[g][l] \in G[l]
            \/ next[g][l] = n
            \/ Before(n, next[g][l]) /\ topLevel[n] < l
    /\ \A m \in Level(l) : Before(m, n) => m \in G[l]

(***************************************************************************)
(* A search that cannot miss n.                                            *)
(***************************************************************************)
Seeks(f, n) ==
  /\ \E G \in [Levels -> SUBSET Node_V1] : Leads(G, n) /\ f.pred \in G[f.lvl]
  /\ topLevel[n] <= f.lvl => f.found = NotFound
  /\ topLevel[n] > f.lvl => f.found = topLevel[n] /\ f.succs[f.found] = n

Types ==
  /\ next \in [Node_V1 -> [Levels -> Node_V1 \cup {Null}]]
  /\ marked \in [Node_V1 -> BOOLEAN]
  /\ fullyLinked \in [Node_V1 -> BOOLEAN]
  /\ range \in [Node_V1 -> RangesOver(Int)]
  /\ topLevel \in [Node_V1 -> Levels]
  /\ mutex \in [Node_V1 -> Threads \cup {Null}]
  /\ elementsCount \in Int
  /\ pc \in [Threads -> Labels]
  /\ frame \in [Threads -> Frames]
  /\ calls \in 0 .. MaxCalls
  /\ owned \in SUBSET NewNodes
  /\ linked \in SUBSET Node_V1
  /\ contended \in [Threads -> BOOLEAN]

IInv ==
  /\ Types
  /\ ListInv
  /\ Distinct
  /\ \A t \in Threads :
       /\ FrameOK(t, pc[t], frame[t])
       /\ pc[t] = "find" /\ frame[t].isMarked => Seeks(frame[t], frame[t].node)

-----------------------------------------------------------------------------
(***************************************************************************)
(* The locals at rest, and at the start of a search, have their type.      *)
(***************************************************************************)
LEMMA RestType == Rest \in Frames
  BY V1Assumption, SMT DEF Rest, Frames, Node_V1, Levels, RangesOver, NotFound

(***************************************************************************)
(* What is known of a search that starts at the head.                      *)
(***************************************************************************)
LEMMA StartFindFacts ==
  ASSUME NEW f \in Frames, NEW kind \in {"insert", "exact"}
  PROVE  LET g == StartFind(f, kind) IN
         /\ g \in Frames /\ g.find = kind /\ g.lvl = MaxLevel /\ g.at = 0
         /\ g.pred = head /\ g.found = NotFound
         /\ g.want = f.want /\ g.top = f.top
         /\ g.node = f.node /\ g.isMarked = f.isMarked
<1>1. MaxLevel \in Levels /\ 0 \in Levels /\ head \in Node_V1
  BY V1Assumption DEF Levels, Node_V1
<1>2. Rest.preds \in [Levels -> Node_V1] /\ Rest.succs \in [Levels -> Node_V1]
  BY RestType DEF Frames
<1> QED BY <1>1, <1>2 DEF StartFind, Frames

(***************************************************************************)
(* Moving thread t changes nothing for the others.                         *)
(***************************************************************************)
LEMMA GoFacts ==
  ASSUME Types, NEW t \in Threads, NEW p \in Labels, NEW g \in Frames,
         Go(t, p, g)
  PROVE  /\ pc' \in [Threads -> Labels] /\ frame' \in [Threads -> Frames]
         /\ pc'[t] = p /\ frame'[t] = g
         /\ \A u \in Threads \ {t} : pc'[u] = pc[u] /\ frame'[u] = frame[u]
  BY DEF Go, Types

(***************************************************************************)
(* The ranges of nodes that have been linked.                              *)
(***************************************************************************)
LEMMA PublishedFacts ==
  ASSUME Types, ListInv, NEW n, Published(n)
  PROVE  /\ n \in Node_V1 /\ Start(n) \in Int /\ End(n) \in Int
         /\ Min <= Start(n) /\ Start(n) <= End(n) /\ End(n) <= Max
         /\ n \notin {head, tail} =>
              /\ n \in NewNodes /\ range[n] \in Requests
              /\ Start(n) < End(n)
         /\ n = head => Start(n) = Min /\ End(n) = Min
         /\ n = tail => Start(n) = Max /\ End(n) = Max
<1>1. n \in Node_V1 /\ range[n] \in RangesOver(Int)
  BY DEF Published, HasLevel, Types
<1>2. Start(n) \in Int /\ End(n) \in Int
  BY <1>1 DEF Start, End, RangesOver
<1>3. CASE n \in {head, tail}
  BY <1>1, <1>2, <1>3, V1Assumption DEF ListInv, Ends, Start, End
<1>4. CASE n \notin {head, tail}
  <2>1. n \in NewNodes
    BY <1>1, <1>4 DEF Node_V1
  <2>2. range[n] \in Requests
    BY <2>1 DEF ListInv, Nodes
  <2>3. /\ Min <= range[n].start /\ range[n].start < range[n].end
        /\ range[n].end <= Max
    BY <2>2, V1Assumption DEF ListInv, ProperRanges
  <2> QED BY <1>1, <1>2, <1>4, <2>1, <2>2, <2>3, V1Assumption DEF Start, End
<1> QED BY <1>3, <1>4

(***************************************************************************)
(* A node that has a level has the levels below it, the first one too.     *)
(***************************************************************************)
LEMMA LevelFacts ==
  ASSUME Types, ListInv, NEW n, NEW l \in Levels, HasLevel(n, l)
  PROVE  /\ Published(n) /\ n \in Node_V1
         /\ \A k \in Levels : k <= l => HasLevel(n, k)
         /\ n \in NewNodes => l <= topLevel[n]
         /\ n # tail => /\ HasLevel(next[n][l], l) /\ next[n][l] # head
                        /\ next[n][l] # Null /\ next[n][l] \in Node_V1
                        /\ Before(n, next[n][l])
<1>1. 0 \in Levels /\ 0 <= l
  BY V1Assumption DEF Levels
<1>2. n \in Node_V1 /\ (n = tail \/ next[n][l] # Null)
  BY DEF HasLevel
<1>3. \A k \in Levels : k <= l => HasLevel(n, k)
  BY <1>2 DEF ListInv, Pointers, HasLevel
<1>4. Published(n)
  BY <1>1, <1>3 DEF Published
<1>5. n \in NewNodes => l <= topLevel[n]
  BY <1>2, V1Assumption DEF ListInv, Pointers
<1>6. ASSUME n # tail
      PROVE  /\ HasLevel(next[n][l], l) /\ next[n][l] # head
             /\ next[n][l] # Null /\ next[n][l] \in Node_V1
             /\ Before(n, next[n][l])
  <2>1. /\ HasLevel(next[n][l], l) /\ next[n][l] # head /\ next[n][l] # Null
        /\ End(n) <= Start(next[n][l])
    BY <1>2, <1>6 DEF ListInv, Pointers
  <2>2. next[n][l] \in Node_V1
    BY <2>1 DEF HasLevel
  <2>3. Published(next[n][l])
    BY <1>1, <2>1, <2>2 DEF ListInv, Pointers, HasLevel, Published
  <2>4. next[n][l] # n
    <3> SUFFICES ASSUME next[n][l] = n PROVE FALSE
      OBVIOUS
    <3>1. End(n) <= Start(n)
      BY <2>1
    <3>2. n # head
      BY <2>1
    <3> QED BY <1>4, <1>6, <3>1, <3>2, PublishedFacts
  <2> QED BY <2>1, <2>2, <2>4 DEF Before
<1> QED BY <1>2, <1>3, <1>4, <1>5, <1>6

(***************************************************************************)
(* Before is a strict order on the nodes that have been linked.            *)
(***************************************************************************)
LEMMA BeforeAsym ==
  ASSUME Types, ListInv, NEW a, NEW b, Published(a), Published(b),
         Before(a, b)
  PROVE  ~Before(b, a)
<1> SUFFICES ASSUME Before(b, a) PROVE FALSE
  OBVIOUS
<1>1. a # b /\ End(a) <= Start(b) /\ End(b) <= Start(a)
  BY DEF Before
<1>2. /\ Start(a) = End(a) /\ Start(b) = End(b) /\ Start(a) = Start(b)
      /\ Start(a) \in Int
  BY <1>1, PublishedFacts
<1>3. a \in {head, tail} /\ b \in {head, tail}
  <2>1. /\ a \notin {head, tail} => Start(a) < End(a)
        /\ b \notin {head, tail} => Start(b) < End(b)
    BY PublishedFacts
  <2> QED BY <1>2, <2>1
<1> QED BY <1>1, <1>2, <1>3, PublishedFacts, V1Assumption

(***************************************************************************)
(* Before is transitive.                                                   *)
(***************************************************************************)
LEMMA BeforeTrans ==
  ASSUME Types, ListInv, NEW a, NEW b, NEW c,
         Published(a), Published(b), Published(c), Before(a, b), Before(b, c)
  PROVE  Before(a, c)
<1>1. End(a) <= Start(b) /\ End(b) <= Start(c)
  BY DEF Before
<1>2. End(a) <= Start(c)
  BY <1>1, PublishedFacts
<1>3. a # c
  BY BeforeAsym
<1> QED BY <1>2, <1>3 DEF Before

-----------------------------------------------------------------------------
(***************************************************************************)
(* The nodes of a level.                                                   *)
(***************************************************************************)
LEMMA InLevel ==
  ASSUME Types, ListInv, NEW l \in Levels, NEW n \in Level(l)
  PROVE  /\ n \in linked /\ HasLevel(n, l) /\ Published(n) /\ n \in Node_V1
         /\ n # tail => /\ next[n][l] \in Level(l)
                        /\ Before(n, next[n][l])
<1>1. n \in linked /\ HasLevel(n, l)
  BY DEF Level
<1> QED BY <1>1, LevelFacts DEF ListInv, Chain

(***************************************************************************)
(* A node that is not marked is in the list of all its levels.             *)
(***************************************************************************)
LEMMA UnmarkedInLevel ==
  ASSUME IInv, NEW l \in Levels, NEW n, HasLevel(n, l), ~marked[n]
  PROVE  n \in Level(l)
<1>1. Published(n) /\ n \in Node_V1
  BY LevelFacts DEF IInv
<1>2. n \in linked
  <2>1. CASE n \in {head, tail}
    BY <2>1 DEF IInv, ListInv, Chain, Level
  <2>2. CASE n \in NewNodes
    BY <1>1, <2>2 DEF IInv, ListInv, Nodes
  <2> QED BY <1>1, <2>1, <2>2 DEF Node_V1
<1>3. ~TakenOff(n, l)
  <2> SUFFICES ASSUME NEW t \in Threads, pc[t] = "unlink", frame[t].node = n
               PROVE  FALSE
    BY DEF TakenOff
  <2>1. FrameOK(t, pc[t], frame[t])
    BY DEF IInv
  <2>2. frame[t].isMarked
    BY <2>1 DEF FrameOK, ExactLabels
  <2> QED BY <2>1, <2>2 DEF FrameOK, Removes
<1> QED BY <1>2, <1>3 DEF Level

(***************************************************************************)
(* Where the other nodes of a level lie.                                   *)
(***************************************************************************)
LEMMA Gap ==
  ASSUME IInv, NEW l \in Levels, NEW p \in Level(l) \ {tail},
         NEW q \in Level(l)
  PROVE  \/ q = p \/ Before(q, p)
         \/ q = next[p][l] \/ Before(next[p][l], q)
<1>1. /\ p \in linked /\ q \in linked /\ next[p][l] \in Level(l)
      /\ next[p][l] \in linked
  BY InLevel DEF IInv
<1>2. ~(Before(p, q) /\ Before(q, next[p][l]))
  BY DEF IInv, ListInv, Chain
<1> QED BY <1>1, <1>2 DEF IInv, ListInv, Disjoint

(***************************************************************************)
(* A node has one predecessor on each level.                               *)
(***************************************************************************)
LEMMA OnePredecessor ==
  ASSUME IInv, NEW l \in Levels, NEW p \in Level(l) \ {tail},
         NEW q \in Level(l) \ {tail}, next[p][l] = next[q][l]
  PROVE  p = q
<1>1. /\ Before(p, next[p][l]) /\ Before(q, next[q][l])
      /\ Published(p) /\ Published(q) /\ Published(next[p][l])
  BY InLevel DEF IInv
<1>2. ~Before(next[p][l], p) /\ ~Before(next[p][l], q)
  BY <1>1, BeforeAsym DEF IInv
<1>3. next[p][l] # p /\ next[p][l] # q
  BY <1>1 DEF Before
<1>4. q = p \/ Before(q, p)
  BY <1>1, <1>2, <1>3, Gap
<1>5. p = q \/ Before(p, q)
  BY <1>1, <1>2, <1>3, Gap
<1> QED BY <1>1, <1>4, <1>5, BeforeAsym DEF IInv

-----------------------------------------------------------------------------
(***************************************************************************)
(* What no step undoes: nodes keep their levels, and once they are linked  *)
(* their range; a mark stays, and the pointers of a marked node.           *)
(***************************************************************************)
Stable ==
  /\ \A n \in Node_V1, l \in Levels : HasLevel(n, l) => HasLevel(n, l)'
  /\ \A n \in Node_V1 : Published(n) =>
       range'[n] = range[n] /\ topLevel'[n] = topLevel[n]
  /\ \A n \in Node_V1 : marked[n] => marked'[n] /\ next'[n] = next[n]
  /\ calls <= calls' /\ calls' \in Nat

(***************************************************************************)
(* What a step leaves to a thread u that does not take it: the nodes whose *)
(* mutex u holds, and the node of its call.                                *)
(***************************************************************************)
Leaves(u) ==
  /\ \A n \in Node_V1 : mutex[n] = u =>
       /\ mutex'[n] = u /\ (marked'[n] => marked[n])
       /\ \A l \in Levels : next[n][l] # Null => next'[n][l] = next[n][l]
  /\ frame[u].find = "insert" =>
       /\ \A l \in Levels :
            next'[frame[u].node][l] = Null <=> next[frame[u].node][l] = Null
       /\ frame[u].node \in linked => frame[u].node \in linked'
  /\ frame[u].isMarked =>
       (frame[u].node \in linked' <=> frame[u].node \in linked)

(***************************************************************************)
(* What a search has noted stays true.                                     *)
(***************************************************************************)
LEMMA StableNoted ==
  ASSUME IInv, Stable, NEW f \in Frames, NEW l \in Levels, Noted(f, l)
  PROVE  Noted(f, l)'
<1>1. /\ HasLevel(f.preds[l], l) /\ HasLevel(f.succs[l], l)
      /\ f.preds[l] \in Node_V1 /\ f.succs[l] \in Node_V1
  BY DEF Noted, HasLevel
<1>2. Published(f.preds[l]) /\ Published(f.succs[l])
  BY <1>1, LevelFacts DEF IInv
<1>3. /\ HasLevel(f.preds[l], l)' /\ HasLevel(f.succs[l], l)'
      /\ range'[f.preds[l]] = range[f.preds[l]]
      /\ range'[f.succs[l]] = range[f.succs[l]]
  BY <1>1, <1>2 DEF Stable
<1> QED BY <1>3 DEF Noted, Start, End

(***************************************************************************)
(* What a search has found stays what it looks for.                        *)
(***************************************************************************)
LEMMA StableFound ==
  ASSUME IInv, Stable, NEW f \in Frames, f.found \in Levels,
         Noted(f, f.found), FoundOK(f)
  PROVE  FoundOK(f)'
<1>1. HasLevel(f.succs[f.found], f.found) /\ f.succs[f.found] \in Node_V1
  BY DEF Noted, HasLevel
<1>2. range'[f.succs[f.found]] = range[f.succs[f.found]]
  BY <1>1, LevelFacts DEF IInv, Stable
<1> QED BY <1>2 DEF FoundOK, Start

(***************************************************************************)
(* A search goes on from where it is.                                      *)
(***************************************************************************)
LEMMA StableSearches ==
  ASSUME IInv, Stable, NEW f \in Frames, Searches(f)
  PROVE  Searches(f)'
<1>1. f.lvl \in Levels /\ HasLevel(f.pred, f.lvl) /\ f.pred \in Node_V1
  BY DEF Searches, HasLevel, Frames
<1>2. HasLevel(f.pred, f.lvl)' /\ range'[f.pred] = range[f.pred]
  BY <1>1, LevelFacts DEF IInv, Stable
<1>3. \A l \in Levels : l > f.lvl => Noted(f, l)'
  BY StableNoted DEF Searches
<1>4. f.found # NotFound => FoundOK(f)'
  BY StableFound DEF Searches, Frames
<1> QED BY <1>2, <1>3, <1>4 DEF Searches, End

(***************************************************************************)
(* A thread that does not take the step knows what it knew.                *)
(***************************************************************************)
LEMMA StableFrame ==
  ASSUME IInv, Stable, NEW u \in Threads, Leaves(u),
         NEW p \in Labels, NEW f \in Frames, p = pc[u], f = frame[u]
  PROVE  FrameOK(u, p, f)'
<1>0. FrameOK(u, p, f)
  BY DEF IInv
<1>1. p = "find" => Searches(f)'
  BY <1>0, StableSearches DEF FrameOK
<1>2. \A l \in Levels : Noted(f, l) => Noted(f, l)'
  BY StableNoted
<1>3. p = "seen" => FoundOK(f)'
  BY <1>0, StableFound DEF FrameOK
<1>4. \A l \in Levels : f.preds[l] \in Node_V1 /\ f.succs[l] \in Node_V1
  BY DEF Frames
<1>5. ASSUME NEW l \in Levels, Noted(f, l), Secured(u, f, l)
      PROVE  Secured(u, f, l)'
  <2>1. next[f.preds[l]][l] # Null
    BY <1>5 DEF Noted, HasLevel
  <2> QED BY <1>4, <1>5, <2>1 DEF Secured, Leaves
<1>6. f.at \in Levels /\ f.node \in Node_V1
  BY DEF Frames
<1>7. Inserts(u, p, f)'
  <2>1. CASE f.find # "insert"
    <3>1. p # "link" /\ Inserts(u, p, f)
      BY <1>0, <2>1 DEF FrameOK, InsertLabels
    <3> QED BY <2>1, <3>1 DEF Inserts, Placing, Placed
  <2>2. CASE f.find = "insert"
    <3>1. /\ \A l \in Levels :
               next'[f.node][l] = Null <=> next[f.node][l] = Null
          /\ f.node \in linked => f.node \in linked'
      BY <2>2 DEF Leaves
    <3>2. Inserts(u, p, f)
      BY <1>0 DEF FrameOK
    <3>3. calls <= calls' /\ calls \in Nat /\ calls' \in Nat
      BY DEF Stable, IInv, Types
    <3>4. Placed(p, f) => /\ Published(f.node) /\ range'[f.node] = range[f.node]
                          /\ topLevel'[f.node] = topLevel[f.node]
      <4>1. Placed(p, f) => f.node \in linked /\ f.node \in NewNodes
        BY <3>2, <2>2 DEF Inserts
      <4> QED BY <4>1, <1>6 DEF IInv, ListInv, Nodes, Stable
    <3>5. \A l \in Levels : Joined(u, f, l) => Joined(u, f, l)'
      <4>1. f.node # Null
        BY <1>6, V1Assumption
      <4> QED BY <1>4, <3>1, <4>1 DEF Joined, Leaves
    <3>6. f.node \in NewNodes /\ f.node <= calls /\ f.node \in Nat
      BY <3>2, <2>2, V1Assumption DEF Inserts, NewNodes
    <3>7. f.node <= calls'
      BY <3>3, <3>6
    <3> QED BY <2>2, <3>1, <3>2, <3>4, <3>5, <3>7 DEF Inserts, Placing, Placed
  <2> QED BY <2>1, <2>2
<1>8. Removes(u, p, f)'
  <2>1. Removes(u, p, f)
    BY <1>0 DEF FrameOK
  <2>2. p \in {"check", "victim", "mark"} =>
          /\ HasLevel(f.node, f.found)' /\ range'[f.node] = range[f.node]
          /\ topLevel'[f.node] = topLevel[f.node]
    BY <1>6, <2>1, LevelFacts DEF Removes, IInv, Stable
  <2>3. p = "mark" => mutex'[f.node] = u
    BY <1>6, <2>1 DEF Removes, Leaves
  <2>4. f.isMarked =>
          /\ marked'[f.node] /\ range'[f.node] = range[f.node]
          /\ topLevel'[f.node] = topLevel[f.node]
    <3>1. f.isMarked => f.node \in NewNodes /\ marked[f.node]
      BY <2>1 DEF Removes
    <3>2. f.isMarked => Published(f.node)
      <4>1. 0 \in Levels /\ 0 <= topLevel[f.node]
        BY <1>6, V1Assumption DEF Levels, IInv, Types
      <4> QED BY <3>1, <4>1 DEF IInv, ListInv, Nodes, Published
    <3> QED BY <1>6, <3>1, <3>2 DEF Stable
  <2>5. f.isMarked => (f.node \in linked' <=> f.node \in linked)
    BY DEF Leaves
  <2> QED BY <2>1, <2>2, <2>3, <2>4, <2>5 DEF Removes
<1>9. p = "validate" => mutex'[f.preds[f.at]] = u
  BY <1>0, <1>4, <1>6 DEF FrameOK, Leaves
<1> QED BY <1>0, <1>1, <1>2, <1>3, <1>5, <1>7, <1>8, <1>9 DEF FrameOK

(***************************************************************************)
(* Nobody else's node is ever the node of a thread.                        *)
(***************************************************************************)
LEMMA StepFrames ==
  ASSUME IInv, Types', Stable, NEW t \in Threads,
         NEW q \in Labels, NEW g \in Frames, Go(t, q, g),
         \A u \in Threads \ {t} : Leaves(u),
         FrameOK(t, q, g)',
         g.find = "insert" =>
           \/ frame[t].find = "insert" /\ g.node = frame[t].node
           \/ g.node > calls,
         g.isMarked =>
           \/ frame[t].isMarked /\ g.node = frame[t].node
           \/ ~marked[g.node]
  PROVE  Distinct' /\ \A u \in Threads : FrameOK(u, pc[u], frame[u])'
<1>1. /\ pc'[t] = q /\ frame'[t] = g
      /\ \A u \in Threads \ {t} : pc'[u] = pc[u] /\ frame'[u] = frame[u]
  BY GoFacts DEF IInv
<1>2. ASSUME NEW u \in Threads PROVE FrameOK(u, pc[u], frame[u])'
  <2>1. CASE u = t
    BY <1>1, <2>1
  <2>2. CASE u # t
    <3>1. PICK p \in Labels, f \in Frames : p = pc[u] /\ f = frame[u]
      BY DEF IInv, Types
    <3>2. FrameOK(u, p, f)'
      BY <2>2, <3>1, StableFrame
    <3> QED BY <1>1, <2>2, <3>1, <3>2
  <2> QED BY <2>1, <2>2
<1>3. ASSUME NEW u \in Threads \ {t}
      PROVE  /\ frame[u].find = "insert" => frame[u].node <= calls
             /\ frame[u].isMarked => marked[frame[u].node]
  BY DEF IInv, FrameOK, Inserts, Removes
<1>4. ASSUME NEW u \in Threads \ {t}
      PROVE  /\ frame[u].find = "insert" /\ g.find = "insert"
                  => frame[u].node # g.node
             /\ frame[u].isMarked /\ g.isMarked => frame[u].node # g.node
  <2>1. frame[u].find = "insert" => frame[u].node \in Nat
    BY V1Assumption DEF IInv, FrameOK, Inserts, NewNodes
  <2>2. calls \in Nat
    BY DEF IInv, Types
  <2>3. frame[u].find = "insert" /\ g.find = "insert"
          => frame[u].node # g.node
    BY <1>3, <2>1, <2>2 DEF IInv, Distinct
  <2>4. frame[u].isMarked /\ g.isMarked => frame[u].node # g.node
    BY <1>3 DEF IInv, Distinct
  <2> QED BY <2>3, <2>4
<1>5. Distinct'
  BY <1>1, <1>4 DEF Distinct, IInv
<1> QED BY <1>2, <1>5

(***************************************************************************)
(* A step that changes nothing of the list but, at most, mutexes of its    *)
(* own thread, and begins or ends no removal.                              *)
(***************************************************************************)
Quiet(t) ==
  /\ next' = next /\ marked' = marked /\ range' = range
  /\ topLevel' = topLevel /\ linked' = linked
  /\ calls <= calls' /\ calls' \in Nat
  /\ \A n \in Node_V1 : mutex[n] \in Threads \ {t} => mutex'[n] = mutex[n]

(***************************************************************************)
(* A quiet step undoes nothing, and leaves the others what they know.      *)
(***************************************************************************)
LEMMA QuietStable ==
  ASSUME IInv, NEW t \in Threads, Quiet(t)
  PROVE  Stable /\ \A u \in Threads \ {t} : Leaves(u)
<1>1. Stable
  BY DEF Quiet, Stable, HasLevel, Published
<1>2. ASSUME NEW u \in Threads \ {t} PROVE Leaves(u)
  BY DEF Quiet, Leaves
<1> QED BY <1>1, <1>2

(***************************************************************************)
(* The levels stay as they are if nothing is linked and no removal goes    *)
(* on, although one may begin.                                             *)
(***************************************************************************)
LEMMA SameLevels ==
  ASSUME IInv, NEW t \in Threads, next' = next, linked' = linked,
         NEW q \in Labels, NEW g \in Frames, Go(t, q, g),
         pc[t] # "unlink",
         q = "unlink" => g.node \in NewNodes /\ g.at = topLevel[g.node]
  PROVE  \A l \in Levels : Level(l)' = Level(l)
<1>1. /\ pc'[t] = q /\ frame'[t] = g
      /\ \A u \in Threads \ {t} : pc'[u] = pc[u] /\ frame'[u] = frame[u]
  BY GoFacts DEF IInv
<1> SUFFICES ASSUME NEW l \in Levels PROVE Level(l)' = Level(l)
  OBVIOUS
<1>2. \A n \in Node_V1 : HasLevel(n, l)' <=> HasLevel(n, l)
  BY DEF HasLevel
<1>3. ASSUME NEW n \in linked, HasLevel(n, l)
      PROVE  TakenOff(n, l)' <=> TakenOff(n, l)
  <2>1. TakenOff(n, l) => TakenOff(n, l)'
    BY <1>1 DEF TakenOff
  <2>2. ASSUME TakenOff(n, l)' PROVE TakenOff(n, l)
    <3>1. PICK u \in Threads :
            pc'[u] = "unlink" /\ frame'[u].node = n /\ frame'[u].at < l
      BY <2>2 DEF TakenOff
    <3>2. CASE u = t
      <4>1. g.node = n /\ n \in NewNodes /\ topLevel[n] < l
        BY <1>1, <3>1, <3>2
      <4>2. l <= topLevel[n] /\ topLevel[n] \in Int /\ l \in Int
        BY <1>3, <4>1, LevelFacts, V1Assumption
           DEF IInv, Types, Node_V1, Levels
      <4> QED BY <4>1, <4>2
    <3> QED BY <1>1, <3>1, <3>2 DEF TakenOff
  <2> QED BY <2>1, <2>2
<1>4. linked \subseteq Node_V1
  BY DEF IInv, Types
<1> QED BY <1>2, <1>3, <1>4 DEF Level

(***************************************************************************)
(* The list with its marks is as good as it was.                           *)
(***************************************************************************)
LEMMA SameList ==
  ASSUME IInv, next' = next, linked' = linked, range' = range,
         topLevel' = topLevel, calls <= calls', calls' \in Nat,
         \A l \in Levels : Level(l)' = Level(l),
         \A n \in Node_V1 : marked[n] => marked'[n],
         ~marked'[head], ~marked'[tail],
         \A n \in NewNodes : marked'[n] =>
           \A l \in Levels : l <= topLevel[n] => HasLevel(n, l)
  PROVE  ListInv'
<1>1. \A n, l : HasLevel(n, l)' <=> HasLevel(n, l)
  BY DEF HasLevel
<1>2. \A n : Published(n)' <=> Published(n)
  BY <1>1 DEF Published
<1>3. \A m, n : Before(m, n)' <=> Before(m, n)
  BY DEF Before, Start, End
<1>4. Pointers'
  BY <1>1 DEF IInv, ListInv, Pointers, Start, End
<1>5. Ends'
  BY DEF IInv, ListInv, Ends
<1>6. Nodes'
  <2>1. \A n \in NewNodes : n \in Nat /\ n \in Node_V1
    BY V1Assumption DEF NewNodes, Node_V1
  <2>2. calls \in Nat
    BY DEF IInv, Types
  <2> SUFFICES ASSUME NEW n \in NewNodes
               PROVE  /\ Published(n) => range'[n] \in Requests /\ n <= calls'
                      /\ Published(n) /\ ~marked'[n] => n \in linked'
                      /\ n \in linked' => Published(n)
                      /\ marked'[n] => \A l \in Levels :
                           l <= topLevel'[n] => HasLevel(n, l)
    BY <1>1, <1>2 DEF Nodes
  <2>3. Published(n) => range[n] \in Requests /\ n <= calls
    BY DEF IInv, ListInv, Nodes
  <2>4. Published(n) => n <= calls'
    BY <2>1, <2>2, <2>3
  <2> QED BY <2>1, <2>3, <2>4 DEF IInv, ListInv, Nodes
<1>7. Disjoint'
  BY <1>3 DEF IInv, ListInv, Disjoint
<1>8. ASSUME NEW l \in Levels PROVE Chain(l)'
  <2>1. Chain(l)
    BY DEF IInv, ListInv
  <2>2. Level(l)' = Level(l)
    OBVIOUS
  <2> QED BY <1>3, <2>1, <2>2 DEF Chain
<1> QED BY <1>4, <1>5, <1>6, <1>7, <1>8 DEF IInv, ListInv, ProperRanges

-----------------------------------------------------------------------------
(***************************************************************************)
(* What a path to n relies on: n stays in the list of all its levels.      *)
(***************************************************************************)
Stays(n) ==
  /\ n \in NewNodes /\ topLevel'[n] = topLevel[n] /\ range'[n] = range[n]
  /\ \A l \in Levels : l <= topLevel[n] => n \in Level(l) /\ n \in Level(l)'

(***************************************************************************)
(* All nodes of the list that lie before n lead to it.                     *)
(***************************************************************************)
LEMMA PathFromHead ==
  ASSUME IInv, NEW n \in NewNodes,
         \A l \in Levels : l <= topLevel[n] => n \in Level(l)
  PROVE  \E G \in [Levels -> SUBSET Node_V1] :
           Leads(G, n) /\ head \in G[MaxLevel]
<1> DEFINE G == [l \in Levels |-> {m \in Level(l) : Before(m, n)}]
<1>0. /\ 0 \in Levels /\ MaxLevel \in Levels /\ n \in Node_V1
      /\ tail \notin NewNodes /\ head \notin NewNodes
  BY V1Assumption DEF Levels, Node_V1
<1>1. n \in linked /\ Published(n) /\ topLevel[n] \in Levels
  <2>1. topLevel[n] \in Levels /\ 0 <= topLevel[n]
    BY <1>0 DEF IInv, Types, Levels
  <2> QED BY <1>0, <2>1, InLevel DEF IInv
<1>2. \A l \in Levels : Level(l) \subseteq Node_V1
  BY InLevel DEF IInv
<1>3. G \in [Levels -> SUBSET Node_V1]
  BY <1>2
<1>4. head \in G[MaxLevel]
  <2>1. head \in Level(MaxLevel)
    BY <1>0 DEF IInv, ListInv, Chain
  <2>2. Published(head)
    BY <1>0, <2>1, InLevel DEF IInv
  <2>3. Start(head) = Min /\ End(head) = Min /\ Min <= Start(n)
    BY <1>1, <2>2, PublishedFacts DEF IInv
  <2>4. Before(head, n)
    BY <1>0, <2>3 DEF Before
  <2> QED BY <1>0, <2>1, <2>4
<1>5. ASSUME NEW l \in Levels, NEW g \in G[l]
      PROVE  /\ HasLevel(g, l) /\ Before(g, n) /\ g # tail
             /\ \A k \in Levels : k <= l => g \in G[k]
             /\ \/ next[g][l] \in G[l]
                \/ next[g][l] = n
                \/ Before(n, next[g][l]) /\ topLevel[n] < l
  <2>1. g \in Level(l) /\ Before(g, n)
    BY <1>5
  <2>2. HasLevel(g, l) /\ Published(g) /\ g \in linked /\ ~TakenOff(g, l)
    BY <2>1, InLevel DEF IInv, Level
  <2>3. g # tail
    <3>1. Published(tail) => End(tail) = Max
      BY PublishedFacts DEF IInv
    <3>2. Start(n) < Max
      <4>1. Start(n) < End(n) /\ End(n) <= Max /\ Start(n) \in Int
            /\ End(n) \in Int
        BY <1>0, <1>1, PublishedFacts DEF IInv
      <4> QED BY <4>1, V1Assumption
    <3>3. End(g) <= Start(n) /\ Start(n) \in Int
      BY <1>1, <2>1, PublishedFacts DEF Before, IInv
    <3> QED BY <2>2, <3>1, <3>2, <3>3, V1Assumption
  <2>4. ASSUME NEW k \in Levels, k <= l PROVE g \in G[k]
    <3>1. HasLevel(g, k)
      BY <2>2, <2>4, LevelFacts DEF IInv
    <3>2. ~TakenOff(g, k)
      <4> SUFFICES ASSUME NEW u \in Threads, pc[u] = "unlink",
                          frame[u].node = g, frame[u].at < k
                   PROVE  FALSE
        BY DEF TakenOff
      <4>1. frame[u].at \in Int /\ k \in Int /\ l \in Int
        BY V1Assumption DEF IInv, Types, Frames, Levels
      <4>2. frame[u].at < l
        BY <2>4, <4>1
      <4> QED BY <2>2, <4>2 DEF TakenOff
    <3> QED BY <2>1, <2>2, <3>1, <3>2 DEF Level
  <2>5. /\ next[g][l] \in Level(l) /\ Before(g, next[g][l])
        /\ next[g][l] \in linked
    BY <2>1, <2>3, InLevel DEF IInv
  <2>6. next[g][l] = n \/ Before(next[g][l], n) \/ Before(n, next[g][l])
    BY <1>1, <2>5 DEF IInv, ListInv, Disjoint
  <2>7. Before(next[g][l], n) => next[g][l] \in G[l]
    BY <2>5
  <2>8. Before(n, next[g][l]) => topLevel[n] < l
    <3>1. l \in Int /\ topLevel[n] \in Int
      BY <1>1, V1Assumption DEF Levels
    <3>2. n \in Level(l) => ~(Before(g, n) /\ Before(n, next[g][l]))
      BY <2>1, <2>3 DEF IInv, ListInv, Chain
    <3> QED BY <2>1, <3>1, <3>2
  <2> QED BY <2>1, <2>2, <2>3, <2>4, <2>6, <2>7, <2>8
<1>6. ASSUME NEW l \in Levels, NEW m \in Level(l), Before(m, n)
      PROVE  m \in G[l]
  BY <1>6
<1> HIDE DEF G
<1>7. Leads(G, n)
  BY <1>5, <1>6 DEF Leads
<1> QED BY <1>3, <1>4, <1>7

(***************************************************************************)
(* A search that starts cannot miss a node of the list.                    *)
(***************************************************************************)
LEMMA SeeksBegins ==
  ASSUME IInv, NEW n \in NewNodes, NEW f \in Frames,
         \A l \in Levels : l <= topLevel[n] => n \in Level(l),
         f.lvl = MaxLevel, f.pred = head, f.found = NotFound
  PROVE  Seeks(f, n)
<1>1. topLevel[n] \in Levels
  BY DEF IInv, Types, Node_V1
<1>2. topLevel[n] <= MaxLevel /\ ~(topLevel[n] > MaxLevel)
  BY <1>1, V1Assumption DEF Levels
<1> QED BY <1>2, PathFromHead DEF Seeks

(***************************************************************************)
(* Paths survive steps that write no pointer.                              *)
(***************************************************************************)
LEMMA QuietSeeks ==
  ASSUME IInv, next' = next, NEW n, Stays(n), range' = range,
         \A l \in Levels : Level(l)' = Level(l),
         NEW f \in Frames, Seeks(f, n)
  PROVE  Seeks(f, n)'
<1>1. PICK G \in [Levels -> SUBSET Node_V1] :
        Leads(G, n) /\ f.pred \in G[f.lvl]
  BY DEF Seeks
<1>2. \A m, k : Before(m, k)' <=> Before(m, k)
  BY DEF Before, Start, End
<1>3. \A m, l : HasLevel(m, l)' <=> HasLevel(m, l)
  BY DEF HasLevel
<1>4. topLevel'[n] = topLevel[n]
  BY DEF Stays
<1>5. Leads(G, n)'
  BY <1>1, <1>2, <1>3, <1>4 DEF Leads
<1> QED BY <1>1, <1>4, <1>5 DEF Seeks

(***************************************************************************)
(* A victim is in the list of all its levels until its own release takes   *)
(* it out.                                                                 *)
(***************************************************************************)
LEMMA VictimInLevels ==
  ASSUME IInv, NEW t \in Threads, frame[t].isMarked,
         pc[t] \in {"find", "lock", "validate"}
  PROVE  /\ frame[t].node \in NewNodes
         /\ \A l \in Levels : l <= topLevel[frame[t].node] =>
              frame[t].node \in Level(l)
<1> DEFINE n == frame[t].node
<1>1. n \in NewNodes /\ marked[n] /\ n \in linked
  BY DEF IInv, FrameOK, Removes
<1>2. \A l \in Levels : l <= topLevel[n] => HasLevel(n, l)
  BY <1>1 DEF IInv, ListInv, Nodes
<1>3. \A l \in Levels : ~TakenOff(n, l)
  <2> SUFFICES ASSUME NEW u \in Threads, pc[u] = "unlink", frame[u].node = n
               PROVE  FALSE
    BY DEF TakenOff
  <2>1. u # t
    OBVIOUS
  <2>2. frame[u].isMarked
    BY DEF IInv, FrameOK, ExactLabels
  <2> QED BY <2>1, <2>2 DEF IInv, Distinct
<1> QED BY <1>1, <1>2, <1>3 DEF Level

(***************************************************************************)
(* The searches of the others for their victims go on undisturbed.         *)
(***************************************************************************)
LEMMA QuietOthers ==
  ASSUME IInv, NEW t \in Threads, NEW q, NEW g, Go(t, q, g),
         next' = next, range' = range, topLevel' = topLevel,
         \A l \in Levels : Level(l)' = Level(l),
         NEW u \in Threads \ {t}, pc[u] = "find", frame[u].isMarked
  PROVE  Seeks(frame[u], frame[u].node)'
<1>1. PICK f \in Frames : f = frame[u]
  BY DEF IInv, Types
<1>2. frame'[u] = f
  BY <1>1 DEF Go, IInv, Types
<1>3. Seeks(f, f.node) /\ f.isMarked
  BY <1>1 DEF IInv
<1>4. Stays(f.node)
  BY <1>1, VictimInLevels DEF Stays
<1>5. Seeks(f, f.node)'
  BY <1>3, <1>4, QuietSeeks
<1> QED BY <1>2, <1>5

(***************************************************************************)
(* A step that changes nothing of the list keeps the invariant if its      *)
(* thread knows afterwards what it should.                                 *)
(***************************************************************************)
LEMMA QuietStep ==
  ASSUME IInv, Types', NEW t \in Threads, Quiet(t),
         NEW q \in Labels, NEW g \in Frames, Go(t, q, g), FrameOK(t, q, g)',
         pc[t] # "unlink",
         q = "unlink" => g.node \in NewNodes /\ g.at = topLevel[g.node],
         g.find = "insert" =>
           \/ frame[t].find = "insert" /\ g.node = frame[t].node
           \/ g.node > calls,
         g.isMarked => frame[t].isMarked /\ g.node = frame[t].node,
         q = "find" /\ g.isMarked => Seeks(g, g.node) /\ Stays(g.node)
  PROVE  IInv'
<1>1. Stable /\ \A u \in Threads \ {t} : Leaves(u)
  BY QuietStable
<1>2. Distinct' /\ \A u \in Threads : FrameOK(u, pc[u], frame[u])'
  BY <1>1, StepFrames
<1>3. /\ next' = next /\ marked' = marked /\ range' = range
      /\ topLevel' = topLevel /\ linked' = linked
      /\ calls <= calls' /\ calls' \in Nat
  BY DEF Quiet
<1>4. \A l \in Levels : Level(l)' = Level(l)
  BY <1>3, SameLevels
<1>5. ListInv'
  <2>1. \A n \in NewNodes : marked'[n] =>
          \A l \in Levels : l <= topLevel[n] => HasLevel(n, l)
    BY <1>3 DEF IInv, ListInv, Nodes
  <2>2. ~marked'[head] /\ ~marked'[tail]
    BY <1>3 DEF IInv, ListInv, Ends
  <2> QED BY <1>3, <1>4, <2>1, <2>2, SameList
<1>6. ASSUME NEW u \in Threads, pc'[u] = "find", frame'[u].isMarked
      PROVE  Seeks(frame[u], frame[u].node)'
  <2>1. CASE u = t
    <3>1. frame'[t] = g /\ pc'[t] = q
      BY GoFacts DEF IInv
    <3>2. Seeks(g, g.node) /\ Stays(g.node)
      BY <1>6, <2>1, <3>1
    <3>3. Seeks(g, g.node)'
      BY <1>3, <1>4, <3>2, QuietSeeks
    <3> QED BY <2>1, <3>1, <3>3
  <2>2. CASE u # t
    <3>1. pc'[u] = pc[u] /\ frame'[u] = frame[u]
      BY <2>2, GoFacts DEF IInv
    <3> QED BY <1>3, <1>4, <1>6, <2>2, <3>1, QuietOthers
  <2> QED BY <2>1, <2>2
<1> QED BY <1>2, <1>5, <1>6 DEF IInv

-----------------------------------------------------------------------------
(***************************************************************************)
(* What a thread knows does not change with the mutexes of others, and     *)
(* some labels need no mutex.                                              *)
(***************************************************************************)
LEMMA QuietFrame ==
  ASSUME IInv, NEW t \in Threads, Quiet(t),
         NEW q \in Labels, NEW g \in Frames, FrameOK(t, q, g),
         \/ \A n \in Node_V1 : mutex[n] = t => mutex'[n] = t
         \/ q \in {"find", "idle", "wrong"}
  PROVE  FrameOK(t, q, g)'
<1>1. /\ next' = next /\ marked' = marked /\ range' = range
      /\ topLevel' = topLevel /\ linked' = linked
      /\ calls <= calls' /\ calls' \in Nat /\ calls \in Nat
  BY DEF Quiet, IInv, Types
<1>2. /\ \A n, l : HasLevel(n, l)' <=> HasLevel(n, l)
      /\ \A l : Noted(g, l)' <=> Noted(g, l)
      /\ FoundOK(g)' <=> FoundOK(g)
      /\ Searches(g)' <=> Searches(g)
  BY <1>1 DEF HasLevel, Noted, FoundOK, Searches, Start, End
<1>3. \A l \in Levels : g.preds[l] \in Node_V1
  BY DEF Frames
<1>4. g.at \in Levels /\ g.node \in Node_V1
  BY DEF Frames
<1>5. ASSUME \A n \in Node_V1 : mutex[n] = t => mutex'[n] = t
      PROVE  /\ \A l \in Levels : Secured(t, g, l) => Secured(t, g, l)'
             /\ \A l \in Levels : Joined(t, g, l) => Joined(t, g, l)'
             /\ mutex[g.preds[g.at]] = t => mutex'[g.preds[g.at]] = t
             /\ mutex[g.node] = t => mutex'[g.node] = t
  BY <1>1, <1>3, <1>4, <1>5 DEF Secured, Joined
<1>6. g.find = "insert" /\ q # "idle" => g.node <= calls'
  <2>1. g.find = "insert" => g.node \in NewNodes /\ g.node <= calls
    BY DEF FrameOK, Inserts
  <2>2. \A n \in NewNodes : n \in Nat
    BY V1Assumption DEF NewNodes
  <2> QED BY <1>1, <2>1, <2>2
<1>7. CASE \A n \in Node_V1 : mutex[n] = t => mutex'[n] = t
  <2>1. Inserts(t, q, g)'
    <3>1. Inserts(t, q, g)
      BY DEF FrameOK
    <3>2. q = "idle" => g.find # "insert"
      BY DEF FrameOK
    <3> QED BY <1>1, <1>5, <1>6, <1>7, <3>1, <3>2
            DEF Inserts, Placing, Placed
  <2>2. Removes(t, q, g)'
    <3>1. Removes(t, q, g)
      BY DEF FrameOK
    <3> QED BY <1>1, <1>2, <1>5, <1>7, <3>1 DEF Removes
  <2> QED BY <1>1, <1>2, <1>5, <1>7, <2>1, <2>2 DEF FrameOK
<1>8. CASE q \in {"find", "idle", "wrong"}
  <2>1. Inserts(t, q, g)'
    <3>1. Inserts(t, q, g)
      BY DEF FrameOK
    <3>2. q = "idle" => g.find # "insert"
      BY DEF FrameOK
    <3> QED BY <1>1, <1>6, <1>8, <3>1, <3>2 DEF Inserts, Placing, Placed
  <2>2. Removes(t, q, g)'
    <3>1. Removes(t, q, g)
      BY DEF FrameOK
    <3> QED BY <1>1, <1>2, <1>8, <3>1 DEF Removes
  <2> QED BY <1>1, <1>2, <1>8, <2>1, <2>2 DEF FrameOK
<1> QED BY <1>7, <1>8

(***************************************************************************)
(* A search may start whenever its arguments are those of a call.          *)
(***************************************************************************)
LEMMA StartFindOK ==
  ASSUME IInv, NEW t \in Threads, NEW f \in Frames,
         NEW kind \in {"insert", "exact"}, f.want \in Requests,
         kind = "insert" =>
           /\ f.node \in NewNodes /\ f.node <= calls
           /\ f.top \in Heights /\ ~f.isMarked
           /\ \A l \in Levels : next[f.node][l] = Null,
         f.isMarked =>
           /\ f.node \in NewNodes /\ marked[f.node] /\ range[f.node] = f.want
           /\ f.top = topLevel[f.node] /\ f.node \in linked
  PROVE  FrameOK(t, "find", StartFind(f, kind))
<1> DEFINE g == StartFind(f, kind)
<1>1. /\ g \in Frames /\ g.find = kind /\ g.lvl = MaxLevel /\ g.at = 0
      /\ g.pred = head /\ g.found = NotFound
      /\ g.want = f.want /\ g.top = f.top
      /\ g.node = f.node /\ g.isMarked = f.isMarked
  BY StartFindFacts
<1> HIDE DEF g
<1>2. MaxLevel \in Levels /\ \A l \in Levels : ~(l > MaxLevel)
  BY V1Assumption DEF Levels
<1>3. HasLevel(head, MaxLevel) /\ head # tail /\ End(head) = Min
  <2>1. head \in Level(MaxLevel)
    BY <1>2 DEF IInv, ListInv, Chain
  <2> QED BY <1>2, <2>1, InLevel, PublishedFacts, V1Assumption DEF IInv
<1>4. Min <= f.want.start
  BY V1Assumption
<1>5. Searches(g)
  BY <1>1, <1>2, <1>3, <1>4 DEF Searches
<1>6. Inserts(t, "find", g)
  BY <1>1 DEF Inserts, Placing, Placed
<1>7. Removes(t, "find", g)
  BY <1>1 DEF Removes
<1>8. FrameOK(t, "find", g)
  BY <1>1, <1>5, <1>6, <1>7 DEF FrameOK, InsertLabels, ExactLabels
<1> QED BY <1>8 DEF g

(***************************************************************************)
(* tryLock begins.                                                         *)
(***************************************************************************)
LEMMA TryLockStep ==
  ASSUME IInv, NEW t \in Threads, NEW r \in Requests, NEW height \in Heights,
         TryLock(t, r, height)
  PROVE  IInv'
<1>0. PICK k : k = calls + 1
  OBVIOUS
<1> DEFINE e == [Rest EXCEPT !.want = r, !.top = height, !.node = k]
           g == StartFind(e, "insert")
<1>1. /\ pc[t] = "idle" /\ calls < MaxCalls /\ calls' = k
      /\ Go(t, "find", g) /\ mutex' = mutex
      /\ elementsCount' = elementsCount /\ owned' = owned
      /\ UNCHANGED <<next, marked, fullyLinked, range, topLevel, linked>>
  BY <1>0 DEF TryLock, nodeVars
<1>2. /\ calls \in Nat /\ MaxCalls \in Nat /\ k \in 1 .. MaxCalls
      /\ k \in 0 .. MaxCalls /\ k > calls
  BY <1>0, <1>1, V1Assumption DEF IInv, Types
<1>3. k \in NewNodes /\ k \in Node_V1
  BY <1>2 DEF NewNodes, Node_V1
<1>4. height \in Levels /\ r \in RangesOver(Int)
  BY V1Assumption DEF Heights, Levels
<1>5. /\ e \in Frames /\ e.want = r /\ e.top = height /\ e.node = k
      /\ e.isMarked = FALSE
  BY <1>3, <1>4, RestType DEF Frames, Rest
<1>6. /\ g \in Frames /\ g.find = "insert" /\ g.node = k
      /\ g.isMarked = FALSE /\ g.want = r /\ g.top = height
  BY <1>5, StartFindFacts
<1>7. \A l \in Levels : next[k][l] = Null
  <2>1. ~Published(k)
    BY <1>2, <1>3 DEF IInv, ListInv, Nodes
  <2> QED BY <1>3, <2>1, V1Assumption
          DEF Published, HasLevel, IInv, ListInv, Pointers, Levels
<1>8. contended' \in [Threads -> BOOLEAN]
  BY DEF TryLock, IInv, Types
<1>9. pc' \in [Threads -> Labels] /\ frame' \in [Threads -> Frames]
  BY <1>1, <1>6, GoFacts DEF IInv, Labels
<1>10. Types'
  BY <1>1, <1>2, <1>8, <1>9 DEF IInv, Types
<1>11. Quiet(t)
  BY <1>1, <1>2 DEF Quiet
<1>12. FrameOK(t, "find", g)'
  <2> HIDE DEF e, g
  <2>1. /\ next' = next /\ marked' = marked /\ range' = range
        /\ topLevel' = topLevel /\ linked' = linked
    BY <1>1
  <2>2. MaxLevel \in Levels /\ \A l \in Levels : ~(l > MaxLevel)
    BY V1Assumption DEF Levels
  <2>3. HasLevel(head, MaxLevel) /\ head # tail /\ End(head) = Min
    <3>1. head \in Level(MaxLevel)
      BY <2>2 DEF IInv, ListInv, Chain
    <3> QED BY <2>2, <3>1, InLevel, PublishedFacts, V1Assumption DEF IInv
  <2>4. Min <= r.start
    BY V1Assumption
  <2>5. /\ g.lvl = MaxLevel /\ g.pred = head /\ g.found = NotFound
        /\ g.at = 0
    BY <1>5, StartFindFacts DEF g
  <2>6. Searches(g)'
    BY <1>6, <2>1, <2>2, <2>3, <2>4, <2>5 DEF Searches, HasLevel, End
  <2>7. Inserts(t, "find", g)'
    BY <1>1, <1>2, <1>3, <1>6, <1>7, <2>1 DEF Inserts, Placing, Placed
  <2>8. Removes(t, "find", g)'
    BY <1>6 DEF Removes
  <2> QED BY <1>6, <2>6, <2>7, <2>8 DEF FrameOK, InsertLabels, ExactLabels
<1> HIDE DEF e, g
<1>13. g.node > calls
  BY <1>2, <1>6
<1> QED BY <1>1, <1>6, <1>10, <1>11, <1>12, <1>13, QuietStep DEF Labels

(***************************************************************************)
(* releaseLock begins.                                                     *)
(***************************************************************************)
LEMMA ReleaseLockStep ==
  ASSUME IInv, NEW t \in Threads, NEW r \in Requests, ReleaseLock(t, r)
  PROVE  IInv'
<1> DEFINE e == [Rest EXCEPT !.want = r]
           g == StartFind(e, "exact")
<1>1. /\ pc[t] = "idle" /\ calls' = calls
      /\ Go(t, "find", g) /\ mutex' = mutex
      /\ elementsCount' = elementsCount /\ contended' = contended
      /\ UNCHANGED <<next, marked, fullyLinked, range, topLevel, linked>>
  BY DEF ReleaseLock, nodeVars
<1>2. owned' \in SUBSET NewNodes
  BY DEF ReleaseLock, IInv, Types
<1>3. r \in RangesOver(Int) /\ calls \in Nat
  BY V1Assumption DEF IInv, Types
<1>4. e \in Frames /\ e.want = r /\ e.isMarked = FALSE
  BY <1>3, RestType DEF Frames, Rest
<1>5. g \in Frames /\ g.find = "exact" /\ g.isMarked = FALSE
  BY <1>4, StartFindFacts
<1>6. FrameOK(t, "find", g)
  BY <1>4, StartFindOK
<1> HIDE DEF e, g
<1>7. pc' \in [Threads -> Labels] /\ frame' \in [Threads -> Frames]
  BY <1>1, <1>5, GoFacts DEF IInv, Labels
<1>8. Types'
  BY <1>1, <1>2, <1>7 DEF IInv, Types
<1>9. Quiet(t)
  BY <1>1, <1>3 DEF Quiet
<1>10. FrameOK(t, "find", g)'
  BY <1>5, <1>6, <1>9, QuietFrame DEF Labels
<1> QED BY <1>1, <1>5, <1>8, <1>9, <1>10, QuietStep DEF Labels

-----------------------------------------------------------------------------
(***************************************************************************)
(* The node c is what a search with the locals f reads next.               *)
(***************************************************************************)
Reads(f, c) == c = next[f.pred][f.lvl]

(***************************************************************************)
(* What a search meets behind pred when it looks for n: something before   *)
(* n, n itself, or, above the levels of n, something behind it.            *)
(***************************************************************************)
LEMMA SeeksMeets ==
  ASSUME IInv, NEW n \in NewNodes, NEW f \in Frames, Seeks(f, n),
         Published(n), range[n] = f.want,
         NEW c, Reads(f, c)
  PROVE  /\ HasLevel(f.pred, f.lvl) /\ f.pred # tail
         /\ Passes(f, c) =>
              \E G \in [Levels -> SUBSET Node_V1] :
                Leads(G, n) /\ c \in G[f.lvl]
         /\ ~Passes(f, c) /\ f.lvl <= topLevel[n] => c = n
         /\ ~Passes(f, c) /\ topLevel[n] < f.lvl => range[c] # f.want
         /\ \A k \in Levels : k <= f.lvl =>
              \E G \in [Levels -> SUBSET Node_V1] :
                Leads(G, n) /\ f.pred \in G[k]
<1>1. PICK G \in [Levels -> SUBSET Node_V1] :
        Leads(G, n) /\ f.pred \in G[f.lvl]
  BY DEF Seeks
<1>2. f.lvl \in Levels
  BY DEF Frames
<1>3. /\ HasLevel(f.pred, f.lvl) /\ f.pred # tail
      /\ \A k \in Levels : k <= f.lvl => f.pred \in G[k]
      /\ c \in G[f.lvl] \/ c = n \/ (Before(n, c) /\ topLevel[n] < f.lvl)
  BY <1>1, <1>2 DEF Leads, Reads
<1>4. HasLevel(c, f.lvl) /\ Published(c)
  BY <1>2, <1>3, LevelFacts DEF IInv, Reads
<1>5. /\ Start(n) = f.want.start /\ End(n) = f.want.end
      /\ Start(n) \in Int /\ End(n) \in Int /\ Start(n) < End(n)
  <2>1. n \notin {head, tail}
    BY V1Assumption
  <2> QED BY <2>1, PublishedFacts DEF IInv, Start, End
<1>6. Start(c) \in Int /\ End(c) \in Int /\ Start(c) <= End(c)
  BY <1>4, PublishedFacts DEF IInv
<1>7. c \in G[f.lvl] => Passes(f, c)
  <2>1. c \in G[f.lvl] => Before(c, n)
    BY <1>1, <1>2 DEF Leads
  <2> QED BY <1>5, <1>6, <2>1 DEF Before, Passes
<1>8. c = n => ~Passes(f, c)
  BY <1>5 DEF Passes
<1>9. Before(n, c) => ~Passes(f, c) /\ range[c] # f.want
  <2>1. Before(n, c) => End(n) <= Start(c)
    BY DEF Before
  <2>2. Before(n, c) => Start(c) # f.want.start
    BY <1>5, <1>6, <2>1
  <2> QED BY <1>5, <1>6, <2>1, <2>2 DEF Passes, Start
<1>10. topLevel[n] \in Int /\ f.lvl \in Int
  BY <1>2, V1Assumption DEF IInv, Types, Node_V1, Levels
<1>11. /\ ~Passes(f, c) /\ f.lvl <= topLevel[n] => c = n
       /\ Passes(f, c) => c \in G[f.lvl]
  BY <1>3, <1>7, <1>8, <1>9, <1>10
<1>12. ~Passes(f, c) /\ topLevel[n] < f.lvl => range[c] # f.want
  <2>1. c = n /\ topLevel[n] < f.lvl => FALSE
    BY <1>2, <1>4, <1>10, LevelFacts DEF IInv
  <2> QED BY <1>3, <1>7, <1>9, <2>1
<1> QED BY <1>1, <1>3, <1>11, <1>12

(***************************************************************************)
(* The search passes a node.                                               *)
(***************************************************************************)
LEMMA PassStep ==
  ASSUME IInv, NEW t \in Threads, NEW f \in Frames, f = frame[t],
         pc[t] = "find", FrameOK(t, "find", f),
         NEW c, Reads(f, c), Passes(f, c),
         Go(t, "find", [f EXCEPT !.pred = c]),
         UNCHANGED <<nodeVars, mutex, elementsCount, calls, owned, contended>>
  PROVE  IInv'
<1> DEFINE g == [f EXCEPT !.pred = c]
<1>0. /\ f.lvl \in Levels /\ f.want \in Requests /\ HasLevel(f.pred, f.lvl)
      /\ f.pred # tail /\ Searches(f)
  BY DEF FrameOK, Searches, Frames
<1>1. HasLevel(c, f.lvl) /\ Published(c) /\ c \in Node_V1
  BY <1>0, LevelFacts DEF IInv, Reads
<1>2. /\ g \in Frames /\ g.find = f.find /\ g.want = f.want /\ g.top = f.top
      /\ g.at = f.at /\ g.node = f.node /\ g.isMarked = f.isMarked
      /\ g.lvl = f.lvl /\ g.pred = c /\ g.found = f.found
      /\ g.preds = f.preds /\ g.succs = f.succs
  BY <1>1 DEF Frames
<1> HIDE DEF g
<1>3. End(c) <= f.want.start
  <2>1. End(c) \in Int /\ f.want.start \in Int
    BY <1>0, <1>1, PublishedFacts, V1Assumption DEF IInv, RangesOver
  <2> QED BY <2>1 DEF Passes
<1>4. c # tail
  <2>1. c = tail => End(c) = Max
    BY <1>1, PublishedFacts DEF IInv
  <2>2. f.want.start < f.want.end /\ f.want.end <= Max
        /\ f.want \in RangesOver(Int)
    BY <1>0, V1Assumption DEF IInv, ListInv, ProperRanges
  <2> QED BY <1>3, <2>1, <2>2, V1Assumption DEF RangesOver
<1>5. \A l \in Levels : Noted(g, l) <=> Noted(f, l)
  BY <1>2 DEF Noted
<1>6. Searches(g)
  BY <1>0, <1>1, <1>2, <1>3, <1>4, <1>5 DEF Searches, FoundOK
<1>7. Inserts(t, "find", g) /\ Removes(t, "find", g)
  BY <1>2 DEF FrameOK, Inserts, Removes, Placing, Placed
<1>8. FrameOK(t, "find", g)
  BY <1>2, <1>6, <1>7 DEF FrameOK, InsertLabels, ExactLabels
<1>9. Go(t, "find", g)
  BY DEF g
<1>10. Quiet(t) /\ Types'
  <2>1. pc' \in [Threads -> Labels] /\ frame' \in [Threads -> Frames]
    BY <1>2, <1>9, GoFacts DEF IInv, Labels
  <2> QED BY <2>1 DEF Quiet, nodeVars, IInv, Types
<1>11. FrameOK(t, "find", g)'
  BY <1>2, <1>8, <1>10, QuietFrame DEF Labels
<1>12. g.isMarked => Seeks(g, g.node) /\ Stays(g.node)
  <2> SUFFICES ASSUME f.isMarked PROVE Seeks(g, f.node) /\ Stays(f.node)
    BY <1>2
  <2>1. /\ Seeks(f, f.node) /\ f.node \in NewNodes /\ range[f.node] = f.want
        /\ f.node \in linked
    BY DEF IInv, FrameOK, Removes
  <2>2. Published(f.node)
    BY <2>1 DEF IInv, ListInv, Nodes
  <2>3. \E G \in [Levels -> SUBSET Node_V1] :
          Leads(G, f.node) /\ c \in G[f.lvl]
    BY <2>1, <2>2, SeeksMeets
  <2>4. Seeks(g, f.node)
    BY <1>2, <2>1, <2>3 DEF Seeks
  <2>5. \A l \in Levels : Level(l)' = Level(l)
    BY <1>2, <1>9, SameLevels DEF nodeVars, Labels
  <2>6. \A l \in Levels : l <= topLevel[f.node] => f.node \in Level(l)
    BY VictimInLevels
  <2> QED BY <2>1, <2>4, <2>5, <2>6 DEF Stays, nodeVars
<1> QED BY <1>2, <1>9, <1>10, <1>11, <1>12, QuietStep DEF Labels

(***************************************************************************)
(* The locals with what a search notes when it leaves a level with c.      *)
(***************************************************************************)
Note(f, c) ==
  [f EXCEPT !.preds[f.lvl] = f.pred, !.succs[f.lvl] = c,
            !.found = IF f.found = NotFound /\ Hits(f, c)
                      THEN f.lvl ELSE f.found]

Notes(f, c, g) == g = Note(f, c)

(***************************************************************************)
(* What a search knows when it leaves a level.                             *)
(***************************************************************************)
LEMMA NoteFacts ==
  ASSUME IInv, NEW f \in Frames, Searches(f), f.want \in Requests,
         NEW c, Reads(f, c), ~Passes(f, c),
         NEW g, Notes(f, c, g)
  PROVE  /\ g \in Frames /\ g.find = f.find /\ g.want = f.want
         /\ g.top = f.top /\ g.at = 0 /\ g.node = f.node
         /\ g.isMarked = f.isMarked /\ g.lvl = f.lvl /\ g.pred = f.pred
         /\ g.found = IF f.found = NotFound /\ Hits(f, c)
                      THEN f.lvl ELSE f.found
         /\ \A l \in Levels : /\ g.preds[l] = IF l = f.lvl THEN f.pred
                                                           ELSE f.preds[l]
                              /\ g.succs[l] = IF l = f.lvl THEN c
                                                           ELSE f.succs[l]
         /\ \A l \in Levels : l >= f.lvl => Noted(g, l)
         /\ g.found # NotFound =>
              g.found \in Levels /\ g.found >= f.lvl /\ FoundOK(g)
<1>0. /\ f.lvl \in Levels /\ HasLevel(f.pred, f.lvl) /\ f.pred # tail
      /\ f.pred \in Node_V1 /\ f.found \in Levels \cup {NotFound}
  BY DEF Searches, Frames
<1>1. HasLevel(c, f.lvl) /\ Published(c) /\ c \in Node_V1 /\ c # head
  BY <1>0, LevelFacts DEF IInv, Reads
<1>2. \A l \in Levels : l \in Int /\ l # NotFound /\ l >= 0
  BY V1Assumption DEF Levels, NotFound
<1>3. /\ g \in Frames /\ g.find = f.find /\ g.want = f.want
      /\ g.top = f.top /\ g.at = f.at /\ g.node = f.node
      /\ g.isMarked = f.isMarked /\ g.lvl = f.lvl /\ g.pred = f.pred
      /\ g.found = IF f.found = NotFound /\ Hits(f, c)
                   THEN f.lvl ELSE f.found
      /\ \A l \in Levels : /\ g.preds[l] = IF l = f.lvl THEN f.pred
                                                        ELSE f.preds[l]
                           /\ g.succs[l] = IF l = f.lvl THEN c
                                                        ELSE f.succs[l]
  BY <1>0, <1>1 DEF Notes, Note, Frames
<1>4. /\ Start(c) \in Int /\ End(c) \in Int
      /\ f.want.start \in Int /\ f.want.end \in Int
  BY <1>1, PublishedFacts, V1Assumption DEF IInv, RangesOver
<1>5. f.want.start < End(c)
  BY <1>4 DEF Passes
<1>6. Noted(g, f.lvl)
  <2>1. f.find = "insert" /\ g.found = NotFound => f.want.end < Start(c)
    BY <1>0, <1>2, <1>3, <1>4 DEF Hits
  <2> QED BY <1>0, <1>1, <1>3, <1>5, <2>1 DEF Noted, Searches
<1>7. ASSUME NEW l \in Levels, l > f.lvl PROVE Noted(g, l)
  <2>1. g.preds[l] = f.preds[l] /\ g.succs[l] = f.succs[l]
    BY <1>0, <1>2, <1>3, <1>7
  <2>2. g.found = NotFound => f.found = NotFound
    BY <1>0, <1>2, <1>3
  <2>3. Noted(f, l)
    BY <1>7 DEF Searches
  <2> QED BY <1>3, <2>1, <2>2, <2>3 DEF Noted
<1>8. \A l \in Levels : l >= f.lvl => l = f.lvl \/ l > f.lvl
  BY <1>0, <1>2
<1>9. ASSUME g.found # NotFound
      PROVE  g.found \in Levels /\ g.found >= f.lvl /\ FoundOK(g)
  <2>1. CASE f.found = NotFound
    <3>1. g.found = f.lvl /\ Hits(f, c)
      BY <1>3, <1>9, <2>1
    <3>2. g.succs[g.found] = c
      BY <1>0, <1>3, <3>1
    <3>3. FoundOK(g)
      <4>1. /\ f.find = "insert" => Start(c) <= f.want.end
            /\ f.find = "exact" => range[c] = f.want
        BY <1>4, <3>1 DEF Hits
      <4> QED BY <1>3, <3>2, <4>1 DEF FoundOK
    <3> QED BY <1>0, <1>2, <3>1, <3>3
  <2>2. CASE f.found # NotFound
    <3>1. g.found = f.found /\ f.found > f.lvl /\ f.found \in Levels
          /\ FoundOK(f)
      BY <1>0, <1>3, <2>2 DEF Searches
    <3>2. g.succs[g.found] = f.succs[f.found]
      BY <1>0, <1>2, <1>3, <3>1
    <3> QED BY <1>0, <1>2, <1>3, <3>1, <3>2 DEF FoundOK
  <2> QED BY <2>1, <2>2
<1>10. g.at = 0
  BY <1>3 DEF Searches
<1> QED BY <1>3, <1>6, <1>7, <1>8, <1>9, <1>10

(***************************************************************************)
(* What the search has found when it looks for n and leaves a level.       *)
(***************************************************************************)
LEMMA NoteSeeks ==
  ASSUME IInv, NEW f \in Frames, Searches(f), f.want \in Requests,
         f.find = "exact",
         NEW c, Reads(f, c), ~Passes(f, c),
         NEW g, Notes(f, c, g),
         NEW n \in NewNodes, Seeks(f, n), Published(n), range[n] = f.want
  PROVE  /\ topLevel[n] < f.lvl => g.found = NotFound
         /\ f.lvl <= topLevel[n] =>
              g.found = topLevel[n] /\ g.succs[g.found] = n
<1>0. f.lvl \in Levels /\ topLevel[n] \in Levels
  BY DEF Frames, IInv, Types, Node_V1
<1>1. \A l \in Levels : l \in Int /\ l # NotFound /\ l >= 0
  BY V1Assumption DEF Levels, NotFound
<1>2. /\ g.found = IF f.found = NotFound /\ Hits(f, c)
                   THEN f.lvl ELSE f.found
      /\ \A l \in Levels : g.succs[l] = IF l = f.lvl THEN c ELSE f.succs[l]
  BY NoteFacts
<1>3. /\ f.lvl <= topLevel[n] => c = n
      /\ topLevel[n] < f.lvl => range[c] # f.want
  BY SeeksMeets
<1>4. /\ topLevel[n] <= f.lvl => f.found = NotFound
      /\ topLevel[n] > f.lvl =>
           f.found = topLevel[n] /\ f.succs[f.found] = n
  BY DEF Seeks
<1>5. Hits(f, c) <=> range[c] = f.want
  BY DEF Hits
<1>6. CASE topLevel[n] < f.lvl
  <2>1. f.found = NotFound /\ ~Hits(f, c)
    BY <1>0, <1>1, <1>3, <1>4, <1>5, <1>6
  <2> QED BY <1>0, <1>1, <1>2, <1>6, <2>1
<1>7. CASE topLevel[n] = f.lvl
  <2>1. f.found = NotFound /\ Hits(f, c) /\ c = n
    BY <1>0, <1>1, <1>3, <1>4, <1>5, <1>7
  <2> QED BY <1>0, <1>1, <1>2, <1>7, <2>1
<1>8. CASE topLevel[n] > f.lvl
  <2>1. f.found = topLevel[n] /\ f.succs[f.found] = n /\ f.found # NotFound
    BY <1>0, <1>1, <1>4, <1>8
  <2> QED BY <1>0, <1>1, <1>2, <1>8, <2>1
<1> QED BY <1>0, <1>1, <1>6, <1>7, <1>8

(***************************************************************************)
(* The search goes down to the next level.                                 *)
(***************************************************************************)
LEMMA DownStep ==
  ASSUME IInv, NEW t \in Threads, NEW f \in Frames, f = frame[t],
         pc[t] = "find", FrameOK(t, "find", f),
         NEW c, Reads(f, c), ~Passes(f, c), f.lvl > 0,
         NEW e, Notes(f, c, e), Go(t, "find", [e EXCEPT !.lvl = f.lvl - 1]),
         UNCHANGED <<nodeVars, mutex, elementsCount, calls, owned, contended>>
  PROVE  IInv'
<1> DEFINE g == [e EXCEPT !.lvl = f.lvl - 1]
<1>0. /\ f.lvl \in Levels /\ f.want \in Requests /\ HasLevel(f.pred, f.lvl)
      /\ f.pred # tail /\ Searches(f) /\ f.lvl - 1 \in Levels
      /\ f.lvl \in Int
  <2>1. f.lvl \in Levels
    BY DEF Frames
  <2> QED BY <2>1, V1Assumption DEF FrameOK, Searches, Levels
<1>1. /\ e \in Frames /\ e.find = f.find /\ e.want = f.want
      /\ e.top = f.top /\ e.at = 0 /\ e.node = f.node
      /\ e.isMarked = f.isMarked /\ e.pred = f.pred
      /\ \A l \in Levels : l >= f.lvl => Noted(e, l)
      /\ e.found # NotFound =>
           e.found \in Levels /\ e.found >= f.lvl /\ FoundOK(e)
  BY <1>0, NoteFacts
<1>2. /\ g \in Frames /\ g.find = f.find /\ g.want = f.want /\ g.top = f.top
      /\ g.at = 0 /\ g.node = f.node /\ g.isMarked = f.isMarked
      /\ g.lvl = f.lvl - 1 /\ g.pred = f.pred /\ g.found = e.found
      /\ g.preds = e.preds /\ g.succs = e.succs
  <2>1. e \in Frames /\ f.lvl - 1 \in Levels
    BY <1>0, <1>1
  <2>2. /\ g \in Frames /\ g.find = e.find /\ g.want = e.want
        /\ g.top = e.top /\ g.at = e.at /\ g.node = e.node
        /\ g.isMarked = e.isMarked /\ g.lvl = f.lvl - 1 /\ g.pred = e.pred
        /\ g.found = e.found /\ g.preds = e.preds /\ g.succs = e.succs
    BY <2>1 DEF Frames
  <2> HIDE DEF g
  <2> QED BY <1>1, <2>2
<1> HIDE DEF g
<1>3. \A l \in Levels : l \in Int /\ (l > f.lvl - 1 => l >= f.lvl)
  BY <1>0, V1Assumption DEF Levels
<1>4. \A l \in Levels : Noted(e, l) => Noted(g, l)
  BY <1>1, <1>2 DEF Noted
<1>5. HasLevel(f.pred, f.lvl - 1)
  BY <1>0, LevelFacts DEF IInv
<1>6. Searches(g)
  <2>1. g.found # NotFound => g.found > g.lvl
    BY <1>0, <1>1, <1>2, <1>3
  <2>2. g.found # NotFound => FoundOK(g)
    BY <1>1, <1>2 DEF FoundOK
  <2> QED BY <1>0, <1>1, <1>2, <1>3, <1>4, <1>5, <2>1, <2>2 DEF Searches
<1>7. Inserts(t, "find", g) /\ Removes(t, "find", g)
  BY <1>2 DEF FrameOK, Inserts, Removes, Placing, Placed
<1>8. FrameOK(t, "find", g)
  BY <1>2, <1>6, <1>7 DEF FrameOK, InsertLabels, ExactLabels
<1>9. Go(t, "find", g)
  BY DEF g
<1>10. Quiet(t) /\ Types'
  <2>1. pc' \in [Threads -> Labels] /\ frame' \in [Threads -> Frames]
    BY <1>2, <1>9, GoFacts DEF IInv, Labels
  <2> QED BY <2>1 DEF Quiet, nodeVars, IInv, Types
<1>11. FrameOK(t, "find", g)'
  BY <1>2, <1>8, <1>10, QuietFrame DEF Labels
<1>12. g.isMarked => Seeks(g, g.node) /\ Stays(g.node)
  <2> SUFFICES ASSUME f.isMarked PROVE Seeks(g, f.node) /\ Stays(f.node)
    BY <1>2
  <2>1. /\ Seeks(f, f.node) /\ f.node \in NewNodes /\ range[f.node] = f.want
        /\ f.node \in linked /\ f.find = "exact"
    BY DEF IInv, FrameOK, Removes
  <2>2. Published(f.node) /\ topLevel[f.node] \in Levels
    BY <2>1 DEF IInv, ListInv, Nodes, Types, Node_V1
  <2>3. \E G \in [Levels -> SUBSET Node_V1] :
          Leads(G, f.node) /\ f.pred \in G[f.lvl - 1]
    <3>1. f.lvl - 1 <= f.lvl
      BY <1>0
    <3> QED BY <1>0, <2>1, <2>2, <3>1, SeeksMeets
  <2>4. Seeks(g, f.node)
    <3>1. /\ topLevel[f.node] < f.lvl => e.found = NotFound
          /\ f.lvl <= topLevel[f.node] =>
               e.found = topLevel[f.node] /\ e.succs[e.found] = f.node
      BY <1>0, <2>1, <2>2, NoteSeeks
    <3>2. /\ topLevel[f.node] <= f.lvl - 1 => topLevel[f.node] < f.lvl
          /\ topLevel[f.node] > f.lvl - 1 => f.lvl <= topLevel[f.node]
      BY <1>0, <1>3, <2>2
    <3> QED BY <1>2, <2>3, <3>1, <3>2 DEF Seeks
  <2>5. \A l \in Levels : Level(l)' = Level(l)
    BY <1>2, <1>9, SameLevels DEF nodeVars, Labels
  <2>6. \A l \in Levels : l <= topLevel[f.node] => f.node \in Level(l)
    BY VictimInLevels
  <2> QED BY <2>1, <2>4, <2>5, <2>6 DEF Stays, nodeVars
<1> QED BY <1>2, <1>9, <1>10, <1>11, <1>12, QuietStep DEF Labels

(***************************************************************************)
(* The search is over, and its caller knows what it needs.                 *)
(***************************************************************************)
LEMMA FinishStep ==
  ASSUME IInv, NEW t \in Threads, NEW f \in Frames, f = frame[t],
         pc[t] = "find", FrameOK(t, "find", f),
         NEW c, Reads(f, c), ~Passes(f, c), f.lvl = 0,
         NEW e, Notes(f, c, e), Finish(t, e),
         UNCHANGED <<nodeVars, mutex, elementsCount, calls, owned, contended>>
  PROVE  IInv'
<1> DEFINE n == IF e.find = "exact" /\ e.found # NotFound
                THEN e.succs[e.found] ELSE e.node
           g == [e EXCEPT !.pred = head, !.node = n]
           q == AfterFind(e)
<1>0. f.want \in Requests /\ Searches(f) /\ head \in Node_V1
  BY DEF FrameOK, Node_V1
<1>1. /\ e \in Frames /\ e.find = f.find /\ e.want = f.want
      /\ e.top = f.top /\ e.at = 0 /\ e.node = f.node
      /\ e.isMarked = f.isMarked
      /\ \A l \in Levels : l >= 0 => Noted(e, l)
      /\ e.found # NotFound => e.found \in Levels /\ FoundOK(e)
  BY <1>0, NoteFacts
<1>2. \A l \in Levels : l >= 0 /\ l # NotFound /\ l \in Int
  BY V1Assumption DEF Levels, NotFound
<1>3. /\ n \in Node_V1 /\ e.find \in {"insert", "exact"}
      /\ e.found \in Levels \cup {NotFound}
  BY <1>1 DEF Frames, FrameOK
<1>4. /\ g \in Frames /\ g.find = f.find /\ g.want = f.want /\ g.top = f.top
      /\ g.at = 0 /\ g.node = n /\ g.isMarked = f.isMarked
      /\ g.found = e.found /\ g.preds = e.preds /\ g.succs = e.succs
  <2>1. /\ g \in Frames /\ g.find = e.find /\ g.want = e.want
        /\ g.top = e.top /\ g.at = e.at /\ g.node = n
        /\ g.isMarked = e.isMarked /\ g.found = e.found
        /\ g.preds = e.preds /\ g.succs = e.succs
    <3> HIDE DEF n
    <3> QED BY <1>0, <1>1, <1>3 DEF Frames
  <2> HIDE DEF g, n
  <2> QED BY <1>1, <2>1
<1>5. q \in Labels /\ Go(t, q, g) /\ q \in {"lock", "seen", "exit", "check"}
  BY <1>3 DEF AfterFind, Finish, Labels
<1>6. /\ q = "lock" <=> \/ e.find = "insert" /\ e.found = NotFound
                        \/ e.find = "exact" /\ e.found # NotFound /\ e.isMarked
      /\ q = "seen" <=> e.find = "insert" /\ e.found # NotFound
      /\ q = "exit" <=> e.find = "exact" /\ e.found = NotFound
      /\ q = "check" <=> /\ e.find = "exact" /\ e.found # NotFound
                         /\ ~e.isMarked
  BY <1>3 DEF AfterFind
<1>7. e.find = "insert" => n = f.node
  BY <1>1
<1>8. e.find = "exact" /\ e.found # NotFound =>
        /\ n \in NewNodes /\ HasLevel(n, e.found) /\ range[n] = f.want
  <2> SUFFICES ASSUME e.find = "exact", e.found # NotFound
               PROVE  n \in NewNodes /\ HasLevel(n, e.found) /\ range[n] = f.want
    OBVIOUS
  <2>1. n = e.succs[e.found] /\ Noted(e, e.found) /\ FoundOK(e)
    BY <1>1, <1>2
  <2> HIDE DEF n
  <2>2. HasLevel(n, e.found) /\ n # head /\ range[n] = f.want
    BY <1>1, <2>1 DEF Noted, FoundOK
  <2>3. n # tail
    <3>1. range[tail].start = Max
      BY DEF IInv, ListInv, Ends
    <3>2. f.want.start < f.want.end /\ f.want.end <= Max
          /\ f.want.start \in Int /\ f.want.end \in Int
      BY <1>0, V1Assumption DEF RangesOver, IInv, ListInv, ProperRanges
    <3> QED BY <2>2, <3>1, <3>2, V1Assumption
  <2> QED BY <1>3, <2>2, <2>3 DEF Node_V1
<1>9. f.isMarked => e.find = "exact" /\ e.found # NotFound /\ n = f.node
  <2> SUFFICES ASSUME f.isMarked
               PROVE  e.find = "exact" /\ e.found # NotFound /\ n = f.node
    OBVIOUS
  <2>1. /\ Seeks(f, f.node) /\ f.node \in NewNodes /\ range[f.node] = f.want
        /\ f.node \in linked /\ f.find = "exact"
    BY DEF IInv, FrameOK, Removes
  <2>2. Published(f.node) /\ topLevel[f.node] \in Levels
    BY <2>1 DEF IInv, ListInv, Nodes, Types, Node_V1
  <2>3. f.lvl <= topLevel[f.node]
    BY <1>2, <2>2
  <2>4. e.found = topLevel[f.node] /\ e.succs[e.found] = f.node
    BY <1>0, <2>1, <2>2, <2>3, NoteSeeks
  <2> QED BY <1>1, <1>2, <2>1, <2>2, <2>4
<1> HIDE DEF g, n, q
<1>10. \A l \in Levels : Noted(g, l)
  <2>1. g.find = e.find /\ g.want = e.want
    BY <1>1, <1>4
  <2> QED BY <1>1, <1>2, <1>4, <2>1 DEF Noted
<1>11. g.found # NotFound => FoundOK(g) /\ g.found \in Levels
  <2>1. g.find = e.find /\ g.want = e.want
    BY <1>1, <1>4
  <2> QED BY <1>1, <1>4, <2>1 DEF FoundOK
<1>12. Inserts(t, q, g)
  <2>1. CASE g.find = "insert"
    <3>1. g.node = f.node /\ Inserts(t, "find", f) /\ f.find = "insert"
      BY <1>1, <1>4, <1>7, <2>1 DEF FrameOK
    <3>2. /\ f.node \in NewNodes /\ f.node <= calls /\ f.top \in Heights
          /\ ~f.isMarked /\ \A l \in Levels : next[f.node][l] = Null
      BY <3>1 DEF Inserts, Placing
    <3>3. q = "lock" => g.found = NotFound
      BY <1>1, <1>4, <1>6, <2>1
    <3> QED BY <1>4, <1>5, <3>1, <3>2, <3>3 DEF Inserts, Placing, Placed
  <2>2. CASE g.find # "insert"
    BY <1>5, <2>2 DEF Inserts, Placing, Placed
  <2> QED BY <2>1, <2>2
<1>13. Removes(t, q, g)
  <2>1. q = "check" => /\ ~g.isMarked /\ g.found \in Levels
                       /\ g.node \in NewNodes /\ HasLevel(g.node, g.found)
                       /\ range[g.node] = g.want
    BY <1>1, <1>4, <1>6, <1>8
  <2>2. g.isMarked =>
          /\ g.find = "exact" /\ q = "lock"
          /\ g.node \in NewNodes /\ marked[g.node] /\ range[g.node] = g.want
          /\ g.top = topLevel[g.node] /\ g.node \in linked
    <3> SUFFICES ASSUME f.isMarked
                 PROVE  /\ g.find = "exact" /\ q = "lock"
                        /\ g.node \in NewNodes /\ marked[g.node]
                        /\ range[g.node] = g.want
                        /\ g.top = topLevel[g.node] /\ g.node \in linked
      BY <1>4
    <3>1. Removes(t, "find", f)
      BY DEF FrameOK
    <3>2. g.node = f.node /\ q = "lock" /\ g.find = "exact"
      BY <1>1, <1>4, <1>6, <1>9
    <3> QED BY <1>4, <3>1, <3>2 DEF Removes
  <2> QED BY <1>5, <2>1, <2>2 DEF Removes
<1>14. FrameOK(t, q, g)
  <2>1. q = "lock" /\ g.find = "exact" => g.isMarked
    BY <1>1, <1>4, <1>6
  <2>2. q = "seen" => g.found \in Levels /\ FoundOK(g) /\ g.find = "insert"
    BY <1>1, <1>4, <1>6, <1>11
  <2>3. q \in {"exit", "check"} => g.find = "exact"
    BY <1>1, <1>4, <1>6
  <2>4. g.top \in Levels /\ g.find # "none"
    BY <1>1, <1>3, <1>4 DEF Frames
  <2>5. \A l \in Levels : ~(l < g.at)
    BY <1>2, <1>4
  <2>6. g.at <= g.top
    BY <1>2, <1>4, <2>4
  <2> QED BY <1>0, <1>4, <1>5, <1>10, <1>12, <1>13, <2>1, <2>2, <2>3, <2>4,
             <2>5, <2>6 DEF FrameOK, InsertLabels, ExactLabels
<1>15. Quiet(t) /\ Types'
  <2>1. pc' \in [Threads -> Labels] /\ frame' \in [Threads -> Frames]
    BY <1>4, <1>5, GoFacts DEF IInv
  <2> QED BY <2>1 DEF Quiet, nodeVars, IInv, Types
<1>16. PICK p \in Labels, h \in Frames : p = q /\ h = g
  BY <1>4, <1>5
<1>17. FrameOK(t, p, h)'
  <2>1. FrameOK(t, p, h)
    BY <1>14, <1>16
  <2>2. mutex' = mutex
    OBVIOUS
  <2> QED BY <1>15, <2>1, <2>2, QuietFrame
<1>18. g.find = "insert" => frame[t].find = "insert" /\ g.node = frame[t].node
  BY <1>1, <1>4, <1>7
<1>19. g.isMarked => frame[t].isMarked /\ g.node = frame[t].node
  BY <1>4, <1>9
<1> QED BY <1>5, <1>15, <1>16, <1>17, <1>18, <1>19, QuietStep

(***************************************************************************)
(* A search always has a successor to read: it does not pass the tail.     *)
(***************************************************************************)
LEMMA ReadsNode ==
  ASSUME IInv, NEW t \in Threads, pc[t] = "find"
  PROVE  next[frame[t].pred][frame[t].lvl] # Null
<1>1. PICK f \in Frames : f = frame[t]
  BY DEF IInv, Types
<1>2. FrameOK(t, "find", f) /\ f.lvl \in Levels
  BY <1>1 DEF IInv, Frames
<1>3. HasLevel(f.pred, f.lvl) /\ f.pred # tail
  BY <1>2 DEF FrameOK, Searches
<1> QED BY <1>1, <1>3 DEF HasLevel

(***************************************************************************)
(* findInsert and findExact read a successor.                              *)
(***************************************************************************)
LEMMA ReadNextStep ==
  ASSUME IInv, NEW t \in Threads, ReadNext(t)
  PROVE  IInv'
<1>1. PICK f \in Frames : f = frame[t]
  BY DEF IInv, Types
<1>2. PICK c : Reads(f, c)
  BY DEF Reads
<1>3. PICK e : Notes(f, c, e)
  BY DEF Notes
<1>4. FrameOK(t, "find", f) /\ pc[t] = "find"
  BY <1>1 DEF IInv, ReadNext
<1>5. UNCHANGED <<nodeVars, mutex, elementsCount, calls, owned, contended>>
  BY DEF ReadNext
<1>6. \/ Passes(f, c) /\ Go(t, "find", [f EXCEPT !.pred = c])
      \/ /\ ~Passes(f, c) /\ f.lvl > 0
         /\ Go(t, "find", [e EXCEPT !.lvl = e.lvl - 1])
      \/ ~Passes(f, c) /\ f.lvl = 0 /\ Finish(t, e)
  BY <1>1, <1>2, <1>3, <1>4, ReadsNode DEF ReadNext, Reads, Notes, Note
<1>7. CASE Passes(f, c) /\ Go(t, "find", [f EXCEPT !.pred = c])
  BY <1>1, <1>2, <1>4, <1>5, <1>7, PassStep
<1>8. CASE ~Passes(f, c)
  <2>1. Searches(f) /\ f.want \in Requests
    BY <1>4 DEF FrameOK
  <2>2. e.lvl = f.lvl
    BY <1>2, <1>3, <1>8, <2>1, NoteFacts
  <2>3. CASE f.lvl > 0 /\ Go(t, "find", [e EXCEPT !.lvl = e.lvl - 1])
    BY <1>1, <1>2, <1>3, <1>4, <1>5, <1>8, <2>2, <2>3, DownStep
  <2>4. CASE f.lvl = 0 /\ Finish(t, e)
    BY <1>1, <1>2, <1>3, <1>4, <1>5, <1>8, <2>4, FinishStep
  <2> QED BY <1>6, <1>8, <2>3, <2>4
<1> QED BY <1>6, <1>7, <1>8

-----------------------------------------------------------------------------
(***************************************************************************)
(* A thread at rest knows nothing.                                         *)
(***************************************************************************)
LEMMA RestOK ==
  ASSUME NEW t \in Threads
  PROVE  FrameOK(t, "idle", Rest)
<1>1. Rest.find = "none" /\ Rest.isMarked = FALSE
  BY DEF Rest
<1> QED BY <1>1 DEF FrameOK, Inserts, Removes, Placing, Placed, InsertLabels,
                    ExactLabels

(***************************************************************************)
(* A thread that returns keeps the invariant.                              *)
(***************************************************************************)
LEMMA ReturnsStep ==
  ASSUME IInv, NEW t \in Threads, Quiet(t), Go(t, "idle", Rest),
         pc[t] # "unlink",
         fullyLinked' = fullyLinked, elementsCount' = elementsCount,
         calls' = calls, mutex' \in [Node_V1 -> Threads \cup {Null}],
         owned' \in SUBSET NewNodes, contended' \in [Threads -> BOOLEAN]
  PROVE  IInv'
<1>1. Rest \in Frames /\ Rest.find = "none" /\ Rest.isMarked = FALSE
  BY RestType DEF Rest
<1>2. pc' \in [Threads -> Labels] /\ frame' \in [Threads -> Frames]
  BY <1>1, GoFacts DEF IInv, Labels
<1>3. Types'
  BY <1>2 DEF Quiet, IInv, Types
<1>4. FrameOK(t, "idle", Rest)'
  BY <1>1, RestOK, QuietFrame DEF Labels
<1> QED BY <1>1, <1>3, <1>4, QuietStep DEF Labels

(***************************************************************************)
(* So does one that starts its search over, also for a node that it has    *)
(* marked: it will meet it again.                                          *)
(***************************************************************************)
LEMMA RestartStep ==
  ASSUME IInv, NEW t \in Threads, NEW f \in Frames, f = frame[t],
         pc[t] \in {"seen", "validate"}, Quiet(t),
         Go(t, "find", StartFind(f, f.find)),
         fullyLinked' = fullyLinked, elementsCount' = elementsCount,
         calls' = calls, mutex' \in [Node_V1 -> Threads \cup {Null}],
         owned' = owned, contended' = contended
  PROVE  IInv'
<1>1. FrameOK(t, pc[t], f) /\ pc[t] # "unlink"
  BY DEF IInv
<1>2. PICK kind \in {"insert", "exact"} : kind = f.find
  BY <1>1 DEF FrameOK, Frames
<1>3. PICK g \in Frames : g = StartFind(f, kind)
  BY StartFindFacts
<1>4. /\ g.find = kind /\ g.lvl = MaxLevel /\ g.pred = head
      /\ g.found = NotFound /\ g.node = f.node /\ g.isMarked = f.isMarked
  BY <1>3, StartFindFacts
<1>5. FrameOK(t, "find", g)
  <2>1. f.want \in Requests
    BY <1>1 DEF FrameOK
  <2>2. kind = "insert" =>
          /\ f.node \in NewNodes /\ f.node <= calls
          /\ f.top \in Heights /\ ~f.isMarked
          /\ \A l \in Levels : next[f.node][l] = Null
    BY <1>1, <1>2 DEF FrameOK, Inserts, Placing
  <2>3. f.isMarked =>
          /\ f.node \in NewNodes /\ marked[f.node] /\ range[f.node] = f.want
          /\ f.top = topLevel[f.node] /\ f.node \in linked
    BY <1>1 DEF FrameOK, Removes
  <2> QED BY <1>3, <2>1, <2>2, <2>3, StartFindOK
<1>6. Go(t, "find", g)
  BY <1>2, <1>3
<1>7. pc' \in [Threads -> Labels] /\ frame' \in [Threads -> Frames]
  BY <1>6, GoFacts DEF IInv, Labels
<1>8. Types'
  BY <1>7 DEF Quiet, IInv, Types
<1>9. FrameOK(t, "find", g)'
  BY <1>5, QuietFrame DEF Labels
<1>10. g.isMarked => Seeks(g, g.node) /\ Stays(g.node)
  <2> SUFFICES ASSUME f.isMarked PROVE Seeks(g, f.node) /\ Stays(f.node)
    BY <1>4
  <2>1. pc[t] = "validate"
    BY <1>1 DEF FrameOK, Removes
  <2>2. /\ f.node \in NewNodes
        /\ \A l \in Levels : l <= topLevel[f.node] => f.node \in Level(l)
    BY <2>1, VictimInLevels
  <2>3. Seeks(g, f.node)
    BY <1>4, <2>2, SeeksBegins
  <2>4. \A l \in Levels : Level(l)' = Level(l)
    BY <1>1, <1>6, SameLevels DEF Quiet, Labels
  <2> QED BY <2>2, <2>3, <2>4 DEF Stays, Quiet
<1> QED BY <1>1, <1>2, <1>4, <1>6, <1>8, <1>9, <1>10, QuietStep DEF Labels

(***************************************************************************)
(* A thread goes on with its locals as they are.                           *)
(***************************************************************************)
LEMMA OnwardStep ==
  ASSUME IInv, NEW t \in Threads, NEW f \in Frames, f = frame[t], Quiet(t),
         NEW q \in Labels \ {"unlink", "find"}, Go(t, q, f),
         pc[t] # "unlink", FrameOK(t, q, f)',
         fullyLinked' \in [Node_V1 -> BOOLEAN], elementsCount' \in Int,
         calls' = calls, mutex' \in [Node_V1 -> Threads \cup {Null}],
         owned' = owned, contended' = contended
  PROVE  IInv'
<1>1. pc' \in [Threads -> Labels] /\ frame' \in [Threads -> Frames]
  BY GoFacts DEF IInv
<1>2. Types'
  BY <1>1 DEF Quiet, IInv, Types
<1> QED BY <1>2, QuietStep

(***************************************************************************)
(* tryLock looks at the node that it has found.                            *)
(***************************************************************************)
LEMMA SeenStep ==
  ASSUME IInv, NEW t \in Threads, Seen(t)
  PROVE  IInv'
<1>1. PICK f \in Frames : f = frame[t]
  BY DEF IInv, Types
<1>2. Quiet(t) /\ mutex' = mutex
  BY DEF Seen, nodeVars, Quiet, IInv, Types
<1>3. FrameOK(t, "seen", f) /\ pc[t] = "seen" /\ f.find = "insert"
  BY <1>1 DEF IInv, Seen, FrameOK, InsertLabels
<1>4. /\ fullyLinked' = fullyLinked /\ elementsCount' = elementsCount
      /\ calls' = calls /\ owned' = owned /\ contended' = contended
      /\ mutex' \in [Node_V1 -> Threads \cup {Null}]
  BY <1>2 DEF Seen, nodeVars, IInv, Types
<1>5. CASE Go(t, "find", StartFind(f, "insert"))
  BY <1>1, <1>2, <1>3, <1>4, <1>5, RestartStep
<1>6. CASE Go(t, "refuse", f)
  <2>1. FrameOK(t, "refuse", f)
    BY <1>3 DEF FrameOK, Inserts, Removes, Placing, Placed, InsertLabels,
                ExactLabels
  <2>2. FrameOK(t, "refuse", f)'
    BY <1>2, <2>1, QuietFrame DEF Labels
  <2>3. fullyLinked' \in [Node_V1 -> BOOLEAN] /\ elementsCount' \in Int
    BY <1>4 DEF IInv, Types
  <2> QED BY <1>1, <1>2, <1>3, <1>4, <1>6, <2>2, <2>3, OnwardStep DEF Labels
<1> QED BY <1>1, <1>5, <1>6 DEF Seen

(***************************************************************************)
(* A call returns false.                                                   *)
(***************************************************************************)
LEMMA ReturnFalseStep ==
  ASSUME IInv, NEW t \in Threads, ReturnFalse(t)
  PROVE  IInv'
<1>1. /\ pc[t] # "unlink" /\ Go(t, "idle", Rest) /\ Quiet(t)
      /\ fullyLinked' = fullyLinked /\ elementsCount' = elementsCount
      /\ calls' = calls /\ mutex' = mutex /\ owned' = owned
  BY DEF ReturnFalse, nodeVars, Quiet, IInv, Types
<1>2. contended' \in [Threads -> BOOLEAN]
  BY DEF ReturnFalse, IInv, Types
<1>3. owned' \in SUBSET NewNodes /\ mutex' \in [Node_V1 -> Threads \cup {Null}]
  BY <1>1 DEF IInv, Types
<1> QED BY <1>1, <1>2, <1>3, ReturnsStep

(***************************************************************************)
(* A call returns true and gives its mutexes back.                         *)
(***************************************************************************)
LEMMA ReturnStep ==
  ASSUME IInv, NEW t \in Threads, Return(t)
  PROVE  IInv'
<1>1. /\ pc[t] = "unlock" /\ Go(t, "idle", Rest)
      /\ fullyLinked' = fullyLinked /\ elementsCount' = elementsCount
      /\ calls' = calls /\ contended' = contended
      /\ UNCHANGED <<next, marked, range, topLevel, linked>>
      /\ mutex' = [n \in Node_V1 |-> IF mutex[n] = t THEN Null ELSE mutex[n]]
  BY DEF Return, nodeVars, UnlockAll
<1>2. mutex' \in [Node_V1 -> Threads \cup {Null}]
  BY <1>1 DEF IInv, Types
<1>3. Quiet(t)
  BY <1>1 DEF Quiet, IInv, Types
<1>4. owned' \in SUBSET NewNodes
  <2>1. FrameOK(t, pc[t], frame[t])
    BY DEF IInv
  <2>2. frame[t].find = "insert" => frame[t].node \in NewNodes
    BY <2>1 DEF FrameOK, Inserts
  <2> QED BY <2>2 DEF Return, IInv, Types
<1>5. contended' \in [Threads -> BOOLEAN]
  BY <1>1 DEF IInv, Types
<1> QED BY <1>1, <1>2, <1>3, <1>4, <1>5, ReturnsStep

(***************************************************************************)
(* The counter and the flag are written by a thread that keeps its locks.  *)
(***************************************************************************)
LEMMA CountStep ==
  ASSUME IInv, NEW t \in Threads,
         SetFullyLinked(t) \/ CountUp(t) \/ CountDown(t)
  PROVE  IInv'
<1>1. PICK f \in Frames : f = frame[t]
  BY DEF IInv, Types
<1>2. PICK q \in {"count", "unlock"} :
        /\ pc[t] \in {"full", "count", "uncount"} /\ Go(t, q, f)
        /\ q = "count" => pc[t] = "full"
        /\ q = "unlock" => pc[t] \in {"count", "uncount"}
  BY <1>1 DEF SetFullyLinked, CountUp, CountDown
<1>3. /\ UNCHANGED <<next, marked, range, topLevel, linked>>
      /\ mutex' = mutex /\ calls' = calls /\ owned' = owned
      /\ contended' = contended
  BY DEF SetFullyLinked, CountUp, CountDown, nodeVars
<1>4. fullyLinked' \in [Node_V1 -> BOOLEAN] /\ elementsCount' \in Int
  <2>1. fullyLinked \in [Node_V1 -> BOOLEAN] /\ elementsCount \in Int
    BY DEF IInv, Types
  <2>2. CASE SetFullyLinked(t)
    BY <2>1, <2>2 DEF SetFullyLinked
  <2>3. CASE CountUp(t)
    BY <2>1, <2>3 DEF CountUp, nodeVars
  <2>4. CASE CountDown(t)
    BY <2>1, <2>4 DEF CountDown, nodeVars
  <2> QED BY <2>2, <2>3, <2>4
<1>5. Quiet(t)
  BY <1>3 DEF Quiet, IInv, Types
<1>6. FrameOK(t, q, f)
  <2>1. FrameOK(t, pc[t], f)
    BY <1>1 DEF IInv
  <2>2. Inserts(t, q, f)
    <3>1. PICK p \in {"full", "count", "uncount"} : p = pc[t]
      BY <1>2
    <3>2. Inserts(t, p, f) /\ ~Placing(q, f) /\ q # "link" /\ p # "link"
      BY <1>2, <2>1, <3>1 DEF FrameOK, Placing
    <3>3. CASE f.find = "insert"
      <4>1. p \in {"full", "count"}
        BY <2>1, <3>1, <3>3 DEF FrameOK, ExactLabels
      <4>2. Placed(p, f) /\ f.found = NotFound
        BY <3>2, <3>3, <4>1 DEF Placed, Inserts
      <4> QED BY <3>2, <3>3, <4>2 DEF Inserts
    <3>4. CASE f.find # "insert"
      BY <3>2, <3>4 DEF Inserts, Placed
    <3> QED BY <3>3, <3>4
  <2>3. Removes(t, q, f)
    BY <1>2, <2>1 DEF FrameOK, Removes
  <2>4. q = "count" => f.find = "insert" /\ \A l \in Levels : Noted(f, l)
    BY <1>2, <2>1 DEF FrameOK, InsertLabels
  <2>5. /\ f.find # "none" /\ f.want \in Requests
        /\ q = "unlock" /\ f.find = "exact" => f.isMarked
    BY <1>2, <2>1 DEF FrameOK, InsertLabels, ExactLabels
  <2> QED BY <1>2, <2>2, <2>3, <2>4, <2>5
          DEF FrameOK, InsertLabels, ExactLabels
<1>7. q \in Labels \ {"unlink", "find"} /\ pc[t] # "unlink"
  BY <1>2 DEF Labels
<1>8. FrameOK(t, q, f)'
  BY <1>3, <1>5, <1>6, <1>7, QuietFrame
<1>9. mutex' \in [Node_V1 -> Threads \cup {Null}]
  BY <1>3 DEF IInv, Types
<1> QED BY <1>1, <1>2, <1>3, <1>4, <1>5, <1>7, <1>8, <1>9, OnwardStep

-----------------------------------------------------------------------------
(***************************************************************************)
(* A call locks the predecessor of a level.                                *)
(***************************************************************************)
LEMMA LockPredStep ==
  ASSUME IInv, NEW t \in Threads, LockPred(t)
  PROVE  IInv'
<1>1. PICK f \in Frames : f = frame[t]
  BY DEF IInv, Types
<1>2. PICK p \in Node_V1 : p = f.preds[f.at]
  BY DEF Frames
<1>3. /\ pc[t] = "lock" /\ Go(t, "validate", f)
      /\ mutex[p] \in {Null, t} /\ mutex' = [mutex EXCEPT ![p] = t]
      /\ UNCHANGED <<next, marked, range, topLevel, linked>>
      /\ fullyLinked' = fullyLinked /\ elementsCount' = elementsCount
      /\ calls' = calls /\ owned' = owned /\ contended' = contended
  BY <1>1, <1>2 DEF LockPred, nodeVars
<1>4. /\ mutex' \in [Node_V1 -> Threads \cup {Null}] /\ mutex'[p] = t
      /\ \A n \in Node_V1 : mutex[n] = t => mutex'[n] = t
      /\ \A n \in Node_V1 : mutex[n] \in Threads \ {t} => mutex'[n] = mutex[n]
  BY <1>2, <1>3, V1Assumption DEF IInv, Types
<1>5. Quiet(t)
  BY <1>3, <1>4 DEF Quiet, IInv, Types
<1>6. FrameOK(t, "lock", f)
  BY <1>1, <1>3 DEF IInv
<1>7. FrameOK(t, "lock", f)'
  BY <1>4, <1>5, <1>6, QuietFrame DEF Labels
<1>8. FrameOK(t, "validate", f)'
  <2>1. Inserts(t, "validate", f)'
    BY <1>7 DEF FrameOK, Inserts, Placing, Placed
  <2>2. Removes(t, "validate", f)'
    BY <1>7 DEF FrameOK, Removes
  <2>3. mutex'[f.preds[f.at]] = t
    BY <1>2, <1>4
  <2> QED BY <1>7, <2>1, <2>2, <2>3 DEF FrameOK, InsertLabels, ExactLabels
<1>9. fullyLinked' \in [Node_V1 -> BOOLEAN] /\ elementsCount' \in Int
  BY <1>3 DEF IInv, Types
<1> QED BY <1>1, <1>3, <1>4, <1>5, <1>8, <1>9, OnwardStep DEF Labels

(***************************************************************************)
(* releaseLock locks its victim.                                           *)
(***************************************************************************)
LEMMA LockVictimStep ==
  ASSUME IInv, NEW t \in Threads, LockVictim(t)
  PROVE  IInv'
<1>1. PICK f \in Frames : f = frame[t]
  BY DEF IInv, Types
<1>2. f.node \in Node_V1
  BY DEF Frames
<1>3. /\ pc[t] = "victim" /\ Go(t, "mark", f)
      /\ mutex[f.node] = Null /\ mutex' = [mutex EXCEPT ![f.node] = t]
      /\ UNCHANGED <<next, marked, range, topLevel, linked>>
      /\ fullyLinked' = fullyLinked /\ elementsCount' = elementsCount
      /\ calls' = calls /\ owned' = owned /\ contended' = contended
  BY <1>1 DEF LockVictim, nodeVars
<1>4. /\ mutex' \in [Node_V1 -> Threads \cup {Null}] /\ mutex'[f.node] = t
      /\ \A n \in Node_V1 : mutex[n] = t => mutex'[n] = t
      /\ \A n \in Node_V1 : mutex[n] \in Threads \ {t} => mutex'[n] = mutex[n]
  BY <1>2, <1>3, V1Assumption DEF IInv, Types
<1>5. Quiet(t)
  BY <1>3, <1>4 DEF Quiet, IInv, Types
<1>6. FrameOK(t, "victim", f)
  BY <1>1, <1>3 DEF IInv
<1>7. FrameOK(t, "victim", f)'
  BY <1>4, <1>5, <1>6, QuietFrame DEF Labels
<1>8. FrameOK(t, "mark", f)'
  <2>1. Inserts(t, "mark", f)'
    BY <1>7 DEF FrameOK, Inserts, Placing, Placed
  <2>2. Removes(t, "mark", f)'
    BY <1>4, <1>7 DEF FrameOK, Removes
  <2> QED BY <1>7, <2>1, <2>2 DEF FrameOK, InsertLabels, ExactLabels
<1>9. fullyLinked' \in [Node_V1 -> BOOLEAN] /\ elementsCount' \in Int
  BY <1>3 DEF IInv, Types
<1> QED BY <1>1, <1>3, <1>4, <1>5, <1>8, <1>9, OnwardStep DEF Labels

(***************************************************************************)
(* releaseLock checks that its victim has all its levels.                  *)
(***************************************************************************)
LEMMA CheckVictimStep ==
  ASSUME IInv, NEW t \in Threads, CheckVictim(t)
  PROVE  IInv'
<1>1. PICK f \in Frames : f = frame[t]
  BY DEF IInv, Types
<1>2. PICK q \in {"victim", "wrong"} :
        Go(t, q, f) /\ (q = "victim" => topLevel[f.node] = f.found)
  BY <1>1 DEF CheckVictim
<1>3. /\ pc[t] = "check" /\ mutex' = mutex
      /\ UNCHANGED <<next, marked, range, topLevel, linked>>
      /\ fullyLinked' = fullyLinked /\ elementsCount' = elementsCount
      /\ calls' = calls /\ owned' = owned /\ contended' = contended
  BY DEF CheckVictim, nodeVars
<1>4. Quiet(t)
  BY <1>3 DEF Quiet, IInv, Types
<1>5. FrameOK(t, "check", f)
  BY <1>1, <1>3 DEF IInv
<1>6. FrameOK(t, q, f)
  <2>1. Inserts(t, q, f)
    BY <1>5 DEF FrameOK, ExactLabels, Inserts, Placing, Placed
  <2>2. Removes(t, q, f)
    BY <1>2, <1>5 DEF FrameOK, Removes
  <2> QED BY <1>5, <2>1, <2>2 DEF FrameOK, InsertLabels, ExactLabels
<1>7. FrameOK(t, q, f)'
  BY <1>3, <1>4, <1>6, QuietFrame DEF Labels
<1>8. /\ fullyLinked' \in [Node_V1 -> BOOLEAN] /\ elementsCount' \in Int
      /\ mutex' \in [Node_V1 -> Threads \cup {Null}]
  BY <1>3 DEF IInv, Types
<1> QED BY <1>1, <1>2, <1>3, <1>4, <1>7, <1>8, OnwardStep DEF Labels

(***************************************************************************)
(* A predecessor is as good as it was found to be, or all mutexes are      *)
(* given back.                                                             *)
(***************************************************************************)
LEMMA ValidateStep ==
  ASSUME IInv, NEW t \in Threads, Validate(t)
  PROVE  IInv'
<1>1. PICK f \in Frames : f = frame[t]
  BY DEF IInv, Types
<1>2. /\ pc[t] = "validate" /\ FrameOK(t, "validate", f)
      /\ UNCHANGED <<next, marked, range, topLevel, linked>>
      /\ fullyLinked' = fullyLinked /\ elementsCount' = elementsCount
      /\ calls' = calls /\ owned' = owned /\ contended' = contended
  BY <1>1 DEF Validate, nodeVars, IInv
<1>3. f.at \in Levels /\ f.top \in Levels /\ f.node \in Node_V1
  BY DEF Frames
<1>4. Valid(f) => Secured(t, f, f.at)
  BY <1>2, <1>3 DEF Valid, Secured, FrameOK
<1>5. \A l \in Levels : l < f.at => Secured(t, f, l)
  BY <1>2 DEF FrameOK
<1>6. CASE /\ ~Valid(f) /\ UnlockAll(t) /\ Go(t, "find", StartFind(f, f.find))
  <2>1. mutex' \in [Node_V1 -> Threads \cup {Null}]
    BY <1>6 DEF UnlockAll, IInv, Types
  <2>2. Quiet(t)
    BY <1>2, <1>6 DEF UnlockAll, Quiet, IInv, Types
  <2> QED BY <1>1, <1>2, <1>6, <2>1, <2>2, RestartStep
<1>7. ASSUME mutex' = mutex, NEW q \in {"lock", "link", "unlink"},
             NEW g \in Frames, Go(t, q, g), FrameOK(t, q, g),
             q = "unlink" => g.node \in NewNodes /\ g.at = topLevel[g.node],
             g.find = f.find, g.node = f.node, g.isMarked = f.isMarked
      PROVE  IInv'
  <2>1. Quiet(t) /\ q \in Labels /\ q # "find" /\ pc[t] # "unlink"
    BY <1>2, <1>7 DEF Quiet, IInv, Types, Labels
  <2>2. FrameOK(t, q, g)'
    BY <1>7, <2>1, QuietFrame
  <2>3. pc' \in [Threads -> Labels] /\ frame' \in [Threads -> Frames]
    BY <1>7, <2>1, GoFacts DEF IInv
  <2>4. Types'
    BY <1>2, <1>7, <2>3 DEF IInv, Types
  <2> QED BY <1>1, <1>7, <2>1, <2>2, <2>4, QuietStep
<1>8. CASE /\ Valid(f) /\ f.at < f.top /\ mutex' = mutex
           /\ Go(t, "lock", [f EXCEPT !.at = f.at + 1])
  <2>1. PICK g \in Frames : g = [f EXCEPT !.at = f.at + 1]
    <3>1. f.at + 1 \in Levels
      BY <1>3, <1>8, V1Assumption DEF Levels
    <3> QED BY <3>1 DEF Frames
  <2>2. /\ g.at = f.at + 1 /\ g.find = f.find /\ g.want = f.want
        /\ g.top = f.top /\ g.node = f.node /\ g.isMarked = f.isMarked
        /\ g.found = f.found /\ g.preds = f.preds /\ g.succs = f.succs
    BY <2>1 DEF Frames
  <2>3. \A l \in Levels : Noted(g, l) <=> Noted(f, l)
    BY <2>2 DEF Noted
  <2>4. \A l \in Levels : l < g.at => Secured(t, g, l)
    <3>1. \A l \in Levels : l < g.at => l < f.at \/ l = f.at
      BY <1>3, <2>2 DEF Levels
    <3> QED BY <1>4, <1>5, <1>8, <2>2, <3>1 DEF Secured
  <2>5. g.at <= g.top
    BY <1>3, <1>8, <2>2 DEF Levels
  <2>6. Inserts(t, "lock", g)
    BY <1>2, <2>2 DEF FrameOK, Inserts, Placing, Placed
  <2>7. Removes(t, "lock", g)
    BY <1>2, <2>2 DEF FrameOK, Removes
  <2>8. FrameOK(t, "lock", g)
    BY <1>2, <2>2, <2>3, <2>4, <2>5, <2>6, <2>7
       DEF FrameOK, InsertLabels, ExactLabels
  <2> QED BY <1>7, <1>8, <2>1, <2>2, <2>8
<1>9. CASE /\ Valid(f) /\ f.at = f.top /\ mutex' = mutex
           /\ f.find = "insert" /\ Go(t, "link", [f EXCEPT !.at = 0])
  <2>1. PICK g \in Frames : g = [f EXCEPT !.at = 0]
    <3>1. 0 \in Levels
      BY V1Assumption DEF Levels
    <3> QED BY <3>1 DEF Frames
  <2>2. /\ g.at = 0 /\ g.find = f.find /\ g.want = f.want
        /\ g.top = f.top /\ g.node = f.node /\ g.isMarked = f.isMarked
        /\ g.found = f.found /\ g.preds = f.preds /\ g.succs = f.succs
    BY <2>1 DEF Frames
  <2>3. \A l \in Levels : Noted(g, l) <=> Noted(f, l)
    BY <2>2 DEF Noted
  <2>4. \A l \in Levels : l <= g.top => Secured(t, g, l)
    <3>1. \A l \in Levels : l <= g.top => l < f.at \/ l = f.at
      BY <1>3, <1>9, <2>2 DEF Levels
    <3> QED BY <1>4, <1>5, <1>9, <2>2, <3>1 DEF Secured
  <2>5. g.at <= g.top
    BY <1>3, <2>2 DEF Levels
  <2>6. Inserts(t, "link", g)
    <3>1. /\ f.node \in NewNodes /\ f.node <= calls /\ f.top \in Heights
          /\ ~f.isMarked /\ \A l \in Levels : next[f.node][l] = Null
          /\ f.found = NotFound
      BY <1>2, <1>9 DEF FrameOK, Inserts, Placing
    <3>2. ~Placed("link", g)
      BY <2>2 DEF Placed
    <3> QED BY <2>2, <3>1, <3>2 DEF Inserts
  <2>7. Removes(t, "link", g)
    <3>1. ~f.isMarked
      BY <1>2, <1>9 DEF FrameOK, Inserts
    <3> QED BY <2>2, <3>1 DEF Removes
  <2>8. FrameOK(t, "link", g)
    BY <1>2, <1>9, <2>2, <2>3, <2>4, <2>5, <2>6, <2>7
       DEF FrameOK, InsertLabels, ExactLabels
  <2> QED BY <1>7, <1>9, <2>1, <2>2, <2>8
<1>10. CASE /\ Valid(f) /\ f.at = f.top /\ mutex' = mutex
            /\ f.find # "insert" /\ Go(t, "unlink", f)
  <2>1. f.find = "exact" /\ f.isMarked
    BY <1>2, <1>10 DEF FrameOK, Frames
  <2>2. /\ f.node \in NewNodes /\ marked[f.node] /\ range[f.node] = f.want
        /\ f.top = topLevel[f.node] /\ f.node \in linked
    BY <1>2, <2>1 DEF FrameOK, Removes
  <2>3. \A l \in Levels : l <= f.at => Secured(t, f, l)
    <3>1. \A l \in Levels : l <= f.at => l < f.at \/ l = f.at
      BY <1>3 DEF Levels
    <3> QED BY <1>4, <1>5, <1>10, <3>1
  <2>4. Inserts(t, "unlink", f)
    BY <2>1 DEF Inserts, Placing, Placed
  <2>5. Removes(t, "unlink", f)
    BY <2>1, <2>2 DEF Removes
  <2>6. FrameOK(t, "unlink", f)
    BY <1>2, <2>1, <2>3, <2>4, <2>5 DEF FrameOK, InsertLabels, ExactLabels
  <2> QED BY <1>7, <1>10, <2>2, <2>6
<1>11. \/ /\ Valid(f) /\ f.at < f.top /\ mutex' = mutex
          /\ Go(t, "lock", [f EXCEPT !.at = f.at + 1])
       \/ /\ Valid(f) /\ f.at = f.top /\ mutex' = mutex
          /\ f.find = "insert" /\ Go(t, "link", [f EXCEPT !.at = 0])
       \/ /\ Valid(f) /\ f.at = f.top /\ mutex' = mutex
          /\ f.find # "insert" /\ Go(t, "unlink", f)
       \/ /\ ~Valid(f) /\ UnlockAll(t) /\ Go(t, "find", StartFind(f, f.find))
  BY <1>1 DEF Validate
<1> QED BY <1>6, <1>8, <1>9, <1>10, <1>11

-----------------------------------------------------------------------------
(***************************************************************************)
(* A release marks its victim.                                             *)
(***************************************************************************)
LEMMA MarkStep ==
  ASSUME IInv, NEW t \in Threads, Mark(t)
  PROVE  IInv'
<1>1. PICK f \in Frames : f = frame[t]
  BY DEF IInv, Types
<1>2. /\ pc[t] = "mark" /\ FrameOK(t, "mark", f)
      /\ UNCHANGED <<next, range, topLevel, linked>>
      /\ marked' = [marked EXCEPT ![f.node] = TRUE]
      /\ fullyLinked' = fullyLinked /\ elementsCount' = elementsCount
      /\ calls' = calls /\ owned' = owned /\ contended' = contended
  BY <1>1 DEF Mark, IInv
<1>3. /\ f.node \in NewNodes /\ HasLevel(f.node, f.found)
      /\ range[f.node] = f.want /\ f.found = topLevel[f.node]
      /\ f.found \in Levels /\ mutex[f.node] = t /\ f.want \in Requests
      /\ f.find = "exact"
  BY <1>2 DEF FrameOK, Removes, ExactLabels
<1>4. f.node \in Node_V1 /\ f.node # head /\ f.node # tail
  BY <1>3, V1Assumption DEF Node_V1
<1>5. CASE marked[f.node] /\ UnlockAll(t) /\ Go(t, "wrong", f)
  <2>1. marked' = marked
    BY <1>2, <1>5 DEF IInv, Types
  <2>2. mutex' \in [Node_V1 -> Threads \cup {Null}]
    BY <1>5 DEF UnlockAll, IInv, Types
  <2>3. Quiet(t)
    BY <1>2, <1>5, <2>1 DEF UnlockAll, Quiet, IInv, Types
  <2>4. FrameOK(t, "wrong", f)
    <3>1. Inserts(t, "wrong", f)
      BY <1>3 DEF Inserts, Placing, Placed
    <3>2. Removes(t, "wrong", f)
      BY <1>2 DEF FrameOK, Removes
    <3> QED BY <1>3, <3>1, <3>2 DEF FrameOK, InsertLabels, ExactLabels
  <2>5. FrameOK(t, "wrong", f)'
    BY <2>3, <2>4, QuietFrame DEF Labels
  <2>6. fullyLinked' \in [Node_V1 -> BOOLEAN] /\ elementsCount' \in Int
    BY <1>2 DEF IInv, Types
  <2> QED BY <1>1, <1>2, <1>5, <2>2, <2>3, <2>5, <2>6, OnwardStep DEF Labels
<1>6. CASE /\ ~marked[f.node] /\ mutex' = mutex
           /\ Go(t, "lock", [f EXCEPT !.isMarked = TRUE, !.at = 0,
                                      !.top = topLevel[f.node]])
  <2>1. PICK g \in Frames : g = [f EXCEPT !.isMarked = TRUE, !.at = 0,
                                          !.top = topLevel[f.node]]
    <3>1. 0 \in Levels /\ topLevel[f.node] \in Levels
      BY <1>4, V1Assumption DEF Levels, IInv, Types
    <3> QED BY <3>1 DEF Frames
  <2>2. /\ g.at = 0 /\ g.find = f.find /\ g.want = f.want
        /\ g.top = topLevel[f.node] /\ g.node = f.node /\ g.isMarked = TRUE
        /\ g.found = f.found /\ g.preds = f.preds /\ g.succs = f.succs
    BY <2>1 DEF Frames
  <2>3. Go(t, "lock", g) /\ "lock" \in Labels
    BY <1>6, <2>1 DEF Labels
  <2>4. /\ \A n \in Node_V1 : marked[n] => marked'[n]
        /\ \A n \in Node_V1 : n # f.node => marked'[n] = marked[n]
        /\ marked'[f.node] /\ marked' \in [Node_V1 -> BOOLEAN]
    BY <1>2, <1>4 DEF IInv, Types
  <2>5. Stable
    BY <1>2, <2>4 DEF Stable, HasLevel, Published, IInv, Types
  <2>6. \A u \in Threads \ {t} : Leaves(u)
    BY <1>2, <1>3, <1>6, <2>4 DEF Leaves
  <2>7. Types'
    <3>1. pc' \in [Threads -> Labels] /\ frame' \in [Threads -> Frames]
      BY <2>3, GoFacts DEF IInv
    <3> QED BY <1>2, <1>6, <2>4, <3>1 DEF IInv, Types
  <2>8. f.node \in linked
    BY <1>3, <1>6, LevelFacts DEF IInv, ListInv, Nodes
  <2>9. FrameOK(t, "lock", g)'
    <3>1. \A l \in Levels : Noted(g, l)'
      <4>1. \A l \in Levels : Noted(g, l)
        BY <1>2, <2>2 DEF FrameOK, Noted
      <4> QED BY <2>5, <4>1, StableNoted
    <3>2. \A l \in Levels : ~(l < g.at)
      BY <2>2 DEF Levels
    <3>3. g.at <= g.top /\ g.find = "exact" /\ g.want \in Requests
      BY <1>3, <2>2 DEF Levels
    <3>4. Inserts(t, "lock", g)'
      BY <3>3 DEF Inserts, Placing, Placed
    <3>5. Removes(t, "lock", g)'
      BY <1>2, <1>3, <2>2, <2>4, <2>8 DEF Removes
    <3> QED BY <2>2, <3>1, <3>2, <3>3, <3>4, <3>5
            DEF FrameOK, InsertLabels, ExactLabels
  <2>10. Distinct' /\ \A u \in Threads : FrameOK(u, pc[u], frame[u])'
    BY <1>3, <1>6, <2>2, <2>3, <2>5, <2>6, <2>7, <2>9, StepFrames
  <2>11. \A l \in Levels : Level(l)' = Level(l)
    BY <1>2, <2>3, SameLevels
  <2>12. ListInv'
    <3>1. \A n \in NewNodes : marked'[n] =>
            \A l \in Levels : l <= topLevel[n] => HasLevel(n, l)
      <4> SUFFICES ASSUME NEW n \in NewNodes, marked'[n], NEW l \in Levels,
                          l <= topLevel[n]
                   PROVE  HasLevel(n, l)
        OBVIOUS
      <4>1. CASE n = f.node
        BY <1>3, <4>1, LevelFacts DEF IInv
      <4>2. CASE n # f.node
        BY <2>4, <4>2 DEF Node_V1, IInv, ListInv, Nodes
      <4> QED BY <4>1, <4>2
    <3>2. ~marked'[head] /\ ~marked'[tail]
      BY <1>4, <2>4 DEF Node_V1, IInv, ListInv, Ends
    <3>3. calls <= calls' /\ calls' \in Nat
      BY <1>2 DEF IInv, Types
    <3> QED BY <1>2, <2>4, <2>11, <3>1, <3>2, <3>3, SameList
  <2>13. ASSUME NEW u \in Threads, pc'[u] = "find", frame'[u].isMarked
         PROVE  Seeks(frame[u], frame[u].node)'
    <3>1. pc'[t] = "lock"
      BY <2>3, GoFacts DEF IInv
    <3>2. u \in Threads \ {t} /\ pc[u] = "find" /\ frame[u].isMarked
      BY <2>3, <2>13, <3>1, GoFacts DEF IInv
    <3> QED BY <1>2, <2>3, <2>11, <3>2, QuietOthers
  <2> QED BY <2>7, <2>10, <2>12, <2>13 DEF IInv
<1> QED BY <1>1, <1>5, <1>6 DEF Mark

-----------------------------------------------------------------------------
(***************************************************************************)
(* Node n comes into the list of level a, between p and its successor s.   *)
(***************************************************************************)
Links(n, p, s, a) ==
  /\ a \in Levels /\ n \in NewNodes /\ ~marked[n] /\ n <= calls
  /\ p \in Level(a) /\ p # tail /\ s = next[p][a]
  /\ next[n][a] = Null /\ \A k \in Levels : k < a => next[n][k] # Null
  /\ \A m \in Node_V1, l \in Levels : next'[m][l] =
       IF l = a /\ m = n THEN s ELSE IF l = a /\ m = p THEN n ELSE next[m][l]
  /\ range'[n] \in Requests /\ a <= topLevel'[n]
  /\ End(p) <= range'[n].start /\ range'[n].end <= Start(s)
  /\ \A m \in Node_V1 : m # n \/ Published(m) =>
       range'[m] = range[m] /\ topLevel'[m] = topLevel[m]
  /\ linked' = linked \cup {n} /\ marked' = marked /\ calls' = calls
  /\ \A m, l : TakenOff(m, l)' <=> TakenOff(m, l)

(***************************************************************************)
(* The new node's neighbours, and where it lies between them.              *)
(***************************************************************************)
LEMMA LinksFacts ==
  ASSUME IInv, NEW n, NEW p, NEW s, NEW a, Links(n, p, s, a)
  PROVE  /\ n \in Node_V1 /\ n # head /\ n # tail /\ n # p /\ n # s
         /\ p \in linked /\ HasLevel(p, a) /\ Published(p) /\ p \in Node_V1
         /\ s \in Level(a) /\ s \in linked /\ Published(s) /\ s \in Node_V1
         /\ s # Null /\ s # head /\ HasLevel(s, a) /\ Before(p, s)
         /\ next[p][a] # Null
         /\ range'[n].start \in Int /\ range'[n].end \in Int
         /\ Min <= range'[n].start /\ range'[n].start < range'[n].end
         /\ range'[n].end <= Max
         /\ n \in linked <=> Published(n)
         /\ Published(n) <=> a # 0
<1>1. /\ a \in Levels /\ n \in NewNodes /\ p \in Level(a) /\ p # tail
      /\ s = next[p][a] /\ range'[n] \in Requests /\ next[n][a] = Null
      /\ ~marked[n] /\ \A k \in Levels : k < a => next[n][k] # Null
  BY DEF Links
<1>2. n \in Node_V1 /\ n # head /\ n # tail
  BY <1>1, V1Assumption DEF Node_V1
<1>3. /\ p \in linked /\ HasLevel(p, a) /\ Published(p) /\ p \in Node_V1
      /\ s \in Level(a) /\ Before(p, s)
  BY <1>1, InLevel DEF IInv
<1>4. /\ s \in linked /\ Published(s) /\ s \in Node_V1 /\ HasLevel(s, a)
  BY <1>1, <1>3, InLevel DEF IInv
<1>5. s # head /\ s # Null /\ next[p][a] # Null
  BY <1>1, <1>3, LevelFacts DEF IInv
<1>6. n # p /\ n # s
  BY <1>1, <1>2, <1>3, <1>4 DEF HasLevel
<1>7. /\ range'[n].start \in Int /\ range'[n].end \in Int
      /\ Min <= range'[n].start /\ range'[n].start < range'[n].end
      /\ range'[n].end <= Max
  <2>1. /\ range'[n] \in RangesOver(Int) /\ Min <= range'[n].start
        /\ range'[n].start < range'[n].end /\ range'[n].end <= Max
    BY <1>1, V1Assumption DEF IInv, ListInv, ProperRanges
  <2> QED BY <2>1 DEF RangesOver
<1>8. n \in linked <=> Published(n)
  BY <1>1 DEF IInv, ListInv, Nodes
<1>9. Published(n) <=> a # 0
  <2>1. 0 \in Levels /\ (a = 0 \/ 0 < a)
    BY <1>1, V1Assumption DEF Levels
  <2> QED BY <1>1, <1>2, <2>1 DEF Published, HasLevel
<1> QED BY <1>2, <1>3, <1>4, <1>5, <1>6, <1>7, <1>8, <1>9

(***************************************************************************)
(* What the link changes of levels, and of the order.                      *)
(***************************************************************************)
LEMMA LinksLevels ==
  ASSUME IInv, NEW n, NEW p, NEW s, NEW a, Links(n, p, s, a)
  PROVE  /\ \A m \in Node_V1, l \in Levels :
              HasLevel(m, l)' <=> HasLevel(m, l) \/ (m = n /\ l = a)
         /\ \A m \in Node_V1 : Published(m)' <=> Published(m) \/ m = n
         /\ \A m \in Node_V1 : Published(m) => Start(m)' = Start(m)
                                               /\ End(m)' = End(m)
         /\ Start(n)' = range'[n].start /\ End(n)' = range'[n].end
         /\ \A l \in Levels \ {a} : Level(l)' = Level(l)
         /\ Level(a)' = Level(a) \cup {n}
<1>0. /\ a \in Levels /\ s \in Node_V1 /\ s # Null /\ n \in Node_V1 /\ n # tail
      /\ p # tail /\ next[p][a] # Null /\ HasLevel(p, a) /\ p \in Node_V1
      /\ n # Null
  BY LinksFacts, V1Assumption DEF Links
<1>1. \A m \in Node_V1, l \in Levels : next'[m][l] =
       IF l = a /\ m = n THEN s ELSE IF l = a /\ m = p THEN n ELSE next[m][l]
  BY DEF Links
<1>2. \A m \in Node_V1, l \in Levels :
        HasLevel(m, l)' <=> HasLevel(m, l) \/ (m = n /\ l = a)
  BY <1>0, <1>1 DEF HasLevel
<1>3. 0 \in Levels
  BY V1Assumption DEF Levels
<1>4. \A m \in Node_V1 : Published(m)' <=> Published(m) \/ m = n
  <2>1. a # 0 => Published(n)
    BY LinksFacts
  <2> QED BY <1>2, <1>3, <2>1 DEF Published
<1>5. \A m \in Node_V1 : Published(m) => Start(m)' = Start(m)
                                         /\ End(m)' = End(m)
  BY DEF Links, Start, End
<1>6. Start(n)' = range'[n].start /\ End(n)' = range'[n].end
  BY DEF Start, End
<1>7. /\ linked' = linked \cup {n} /\ linked \subseteq Node_V1
      /\ \A m, l : TakenOff(m, l)' <=> TakenOff(m, l)
  BY DEF Links, IInv, Types
<1>8. ASSUME NEW l \in Levels \ {a} PROVE Level(l)' = Level(l)
  <2>1. n \notin linked => ~HasLevel(n, l)
    <3>1. n \notin linked => ~Published(n)
      BY LinksFacts
    <3> QED BY <1>0, <3>1, LevelFacts DEF IInv
  <2>2. \A m \in Node_V1 : HasLevel(m, l)' <=> HasLevel(m, l)
    BY <1>2
  <2> QED BY <1>0, <1>7, <2>1, <2>2 DEF Level
<1>9. ~TakenOff(n, a)
  <2> SUFFICES ASSUME NEW u \in Threads, pc[u] = "unlink", frame[u].node = n
               PROVE  FALSE
    BY DEF TakenOff
  <2>1. FrameOK(u, pc[u], frame[u])
    BY DEF IInv
  <2>2. frame[u].isMarked
    BY <2>1 DEF FrameOK, ExactLabels
  <2>3. marked[n]
    BY <2>1, <2>2 DEF FrameOK, Removes
  <2> QED BY <2>3 DEF Links
<1>10. Level(a)' = Level(a) \cup {n}
  BY <1>0, <1>2, <1>7, <1>9 DEF Level
<1> QED BY <1>2, <1>4, <1>5, <1>6, <1>8, <1>10

(***************************************************************************)
(* The other nodes of the level lie on one side of the new node.           *)
(***************************************************************************)
LEMMA LinksAround ==
  ASSUME IInv, NEW n, NEW p, NEW s, NEW a, Links(n, p, s, a),
         NEW m \in Level(a)
  PROVE  /\ m # n /\ m \in linked /\ Published(m) /\ m \in Node_V1
         /\ \/ Before(m, n)' /\ ~Before(n, m)' /\ (m = p \/ Before(m, p))
            \/ Before(n, m)' /\ ~Before(m, n)' /\ (m = s \/ Before(s, m))
<1>1. /\ a \in Levels /\ p \in Level(a) \ {tail} /\ s = next[p][a]
      /\ End(p) <= range'[n].start /\ range'[n].end <= Start(s)
      /\ next[n][a] = Null
  BY DEF Links
<1>2. /\ n # tail /\ Published(p) /\ Published(s) /\ n # p /\ n # s
      /\ range'[n].start \in Int /\ range'[n].end \in Int
      /\ range'[n].start < range'[n].end
  BY LinksFacts
<1>3. m \in linked /\ HasLevel(m, a) /\ Published(m) /\ m \in Node_V1
  BY <1>1, InLevel DEF IInv
<1>4. m # n
  BY <1>1, <1>2, <1>3 DEF HasLevel
<1>5. /\ Start(n)' = range'[n].start /\ End(n)' = range'[n].end
      /\ Start(m)' = Start(m) /\ End(m)' = End(m)
  BY <1>3, LinksLevels
<1>6. /\ Start(m) \in Int /\ End(m) \in Int /\ Start(m) <= End(m)
      /\ Start(p) \in Int /\ End(p) \in Int /\ Start(p) <= End(p)
      /\ Start(s) \in Int /\ End(s) \in Int /\ Start(s) <= End(s)
  BY <1>2, <1>3, PublishedFacts DEF IInv
<1>7. \/ m = p \/ Before(m, p) \/ m = s \/ Before(s, m)
  BY <1>1, Gap
<1>8. CASE m = p \/ Before(m, p)
  <2>1. End(m) <= End(p)
    BY <1>6, <1>8 DEF Before
  <2>2. End(m) <= range'[n].start /\ ~(range'[n].end <= Start(m))
    BY <1>1, <1>2, <1>6, <2>1
  <2> QED BY <1>3, <1>4, <1>5, <1>8, <2>2 DEF Before
<1>9. CASE m = s \/ Before(s, m)
  <2>1. Start(s) <= Start(m)
    BY <1>6, <1>9 DEF Before
  <2>2. range'[n].end <= Start(m) /\ ~(End(m) <= range'[n].start)
    BY <1>1, <1>2, <1>6, <2>1
  <2> QED BY <1>3, <1>4, <1>5, <1>9, <2>2 DEF Before
<1> QED BY <1>7, <1>8, <1>9

(***************************************************************************)
(* The pointers still ascend, and the ends are as they were.               *)
(***************************************************************************)
LEMMA LinksPointers ==
  ASSUME IInv, NEW n, NEW p, NEW s, NEW a, Links(n, p, s, a)
  PROVE  Pointers' /\ Ends' /\ Nodes'
<1>0. /\ a \in Levels /\ n \in NewNodes /\ n \in Node_V1 /\ p \in Node_V1
      /\ n # head /\ n # tail /\ n # p /\ n # s /\ p # tail /\ s # head
      /\ HasLevel(p, a) /\ HasLevel(s, a) /\ s \in Node_V1 /\ s # Null
      /\ Published(p) /\ Published(s) /\ n # Null
      /\ head \in Node_V1 /\ tail \in Node_V1 /\ 0 \in Levels
  <2>1. /\ a \in Levels /\ n \in NewNodes /\ n # p /\ p # tail
        /\ HasLevel(p, a) /\ HasLevel(s, a) /\ n # s /\ s # head
        /\ Published(p) /\ Published(s) /\ s \in Node_V1 /\ s # Null
        /\ p \in Node_V1
    BY LinksFacts DEF Links
  <2>2. /\ n \in Node_V1 /\ n # Null /\ n # head /\ n # tail
        /\ head \in Node_V1 /\ tail \in Node_V1 /\ 0 \in Levels
    BY <2>1, V1Assumption DEF Node_V1, Levels
  <2> QED BY <2>1, <2>2
<1>1. \A m \in Node_V1, l \in Levels : next'[m][l] =
       IF l = a /\ m = n THEN s ELSE IF l = a /\ m = p THEN n ELSE next[m][l]
  BY DEF Links
<1>2. /\ \A m \in Node_V1, l \in Levels :
           HasLevel(m, l)' <=> HasLevel(m, l) \/ (m = n /\ l = a)
      /\ \A m \in Node_V1 : Published(m)' <=> Published(m) \/ m = n
      /\ \A m \in Node_V1 : Published(m) => Start(m)' = Start(m)
                                            /\ End(m)' = End(m)
      /\ Start(n)' = range'[n].start /\ End(n)' = range'[n].end
  BY LinksLevels
<1>3. \A m \in Node_V1 : m # n \/ Published(m) =>
        range'[m] = range[m] /\ topLevel'[m] = topLevel[m]
  BY DEF Links
<1>4. Pointers /\ Ends /\ Nodes
  BY DEF IInv, ListInv
<1>5. ASSUME NEW m \in Node_V1, NEW l \in Levels, next'[m][l] # Null
      PROVE  /\ HasLevel(next[m][l], l)' /\ next'[m][l] # head
             /\ (End(m) <= Start(next[m][l]))'
             /\ l <= topLevel'[m]
             /\ \A k \in Levels : k <= l => next'[m][k] # Null
  <2>1. CASE m = n /\ l = a
    <3>1. next'[m][l] = s
      BY <1>1, <2>1
    <3>2. (End(n) <= Start(s))'
      BY <1>0, <1>2 DEF Links
    <3>3. \A k \in Levels : k <= a => next'[n][k] # Null
      <4>1. \A k \in Levels : k <= a => k < a \/ k = a
        BY <1>0 DEF Levels
      <4>2. \A k \in Levels : k < a => next[n][k] # Null
        BY DEF Links
      <4> QED BY <1>0, <1>1, <4>1, <4>2
    <3>4. a <= topLevel'[n]
      BY DEF Links
    <3> QED BY <1>0, <1>2, <2>1, <3>1, <3>2, <3>3, <3>4
  <2>2. CASE m = p /\ l = a
    <3>1. next'[m][l] = n
      BY <1>0, <1>1, <2>2
    <3>2. (End(p) <= Start(n))'
      BY <1>0, <1>2 DEF Links
    <3>3. next[p][a] # Null
      BY LinksFacts
    <3>4. \A k \in Levels : k <= a => next[p][k] # Null
      BY <1>0, <1>4, <3>3 DEF Pointers
    <3>5. \A k \in Levels : k <= a => next'[p][k] # Null
      BY <1>0, <1>1, <3>4
    <3>6. a <= topLevel'[p]
      BY <1>0, <1>3, <1>4, <3>3 DEF Pointers
    <3> QED BY <1>0, <1>2, <2>2, <3>1, <3>2, <3>5, <3>6
  <2>3. CASE ~(m = n /\ l = a) /\ ~(m = p /\ l = a)
    <3>1. next'[m][l] = next[m][l] /\ next[m][l] # Null
      BY <1>1, <1>5, <2>3
    <3>2. PICK c : c = next[m][l]
      OBVIOUS
    <3>3. /\ HasLevel(c, l) /\ c # head /\ End(m) <= Start(c)
          /\ l <= topLevel[m] /\ \A k \in Levels : k <= l => next[m][k] # Null
      BY <1>4, <3>1, <3>2 DEF Pointers
    <3>4. HasLevel(m, l) /\ c \in Node_V1
      BY <3>1, <3>3 DEF HasLevel
    <3>5. Published(m) /\ Published(c)
      BY <3>3, <3>4, LevelFacts DEF IInv
    <3>6. (End(m) <= Start(c))'
      BY <1>2, <3>3, <3>4, <3>5
    <3>7. \A k \in Levels : k <= l => next'[m][k] # Null
      BY <1>0, <1>1, <3>3
    <3>8. l <= topLevel'[m] /\ HasLevel(c, l)'
      BY <1>2, <1>3, <3>3, <3>4, <3>5
    <3> QED BY <3>1, <3>2, <3>3, <3>6, <3>7, <3>8
  <2> QED BY <2>1, <2>2, <2>3
<1>6. Pointers'
  BY <1>5 DEF Pointers
<1>7. Ends'
  <2>1. \A l \in Levels : next'[head][l] # Null /\ next'[tail][l] = Null
    BY <1>0, <1>1, <1>4 DEF Ends
  <2>2. marked' = marked
    BY DEF Links
  <2> QED BY <1>0, <1>3, <1>4, <2>1, <2>2 DEF Ends
<1>8. ASSUME NEW m \in NewNodes
      PROVE  /\ Published(m)' => range'[m] \in Requests /\ m <= calls'
             /\ Published(m)' /\ ~marked'[m] => m \in linked'
             /\ m \in linked' => Published(m)'
             /\ marked'[m] => \A l \in Levels :
                  l <= topLevel'[m] => HasLevel(m, l)'
  <2>0. m \in Node_V1
    BY DEF Node_V1
  <2>1. /\ linked' = linked \cup {n} /\ marked' = marked /\ calls' = calls
        /\ ~marked[n] /\ range'[n] \in Requests /\ n <= calls
    BY DEF Links
  <2>2. CASE m = n
    BY <1>2, <2>0, <2>1, <2>2
  <2>3. CASE m # n
    <3>1. Published(m)' <=> Published(m)
      BY <1>2, <2>0, <2>3
    <3>2. range'[m] = range[m] /\ topLevel'[m] = topLevel[m]
      BY <1>3, <2>0, <2>3
    <3>3. \A l \in Levels : HasLevel(m, l)' <=> HasLevel(m, l)
      BY <1>2, <2>0, <2>3
    <3> QED BY <1>4, <2>1, <2>3, <3>1, <3>2, <3>3 DEF Nodes
  <2> QED BY <2>2, <2>3
<1>9. Nodes'
  BY <1>8 DEF Nodes
<1> QED BY <1>6, <1>7, <1>9

(***************************************************************************)
(* The new node lies apart from all others: its neighbours have nothing    *)
(* between them.                                                           *)
(***************************************************************************)
LEMMA LinksDisjoint ==
  ASSUME IInv, NEW n, NEW p, NEW s, NEW a, Links(n, p, s, a)
  PROVE  Disjoint'
<1>1. linked' = linked \cup {n} /\ (n \in linked <=> Published(n))
  BY LinksFacts DEF Links
<1>2. \A m \in linked : Published(m) /\ m \in Node_V1
  <2> SUFFICES ASSUME NEW m \in linked PROVE Published(m) /\ m \in Node_V1
    OBVIOUS
  <2>1. m \in Node_V1
    BY DEF IInv, Types
  <2>2. CASE m \in NewNodes
    BY <2>1, <2>2 DEF IInv, ListInv, Nodes
  <2>3. CASE m \in {head, tail}
    <3>1. 0 \in Levels
      BY V1Assumption DEF Levels
    <3>2. m \in Level(0)
      BY <2>3, <3>1 DEF IInv, ListInv, Chain
    <3> QED BY <2>1, <3>1, <3>2, InLevel DEF IInv
  <2> QED BY <2>1, <2>2, <2>3 DEF Node_V1
<1>3. \A m, k \in linked : Before(m, k)' <=> Before(m, k)
  BY <1>2, LinksLevels DEF Before
<1>4. \A m, k \in linked : m # k => Before(m, k)' \/ Before(k, m)'
  BY <1>3 DEF IInv, ListInv, Disjoint
<1>5. CASE n \in linked
  BY <1>1, <1>4, <1>5 DEF Disjoint
<1>6. CASE n \notin linked
  <2>1. a = 0 /\ 0 \in Levels
    BY <1>1, <1>6, LinksFacts, V1Assumption DEF Levels
  <2>2. linked \subseteq Level(0)
    <3> SUFFICES ASSUME NEW m \in linked PROVE m \in Level(0)
      OBVIOUS
    <3>1. HasLevel(m, 0)
      BY <1>2 DEF Published
    <3>2. ~TakenOff(m, 0)
      BY DEF TakenOff, IInv, Types, Frames, Levels
    <3> QED BY <3>1, <3>2 DEF Level
  <2>3. \A m \in linked : Before(m, n)' \/ Before(n, m)'
    BY <2>1, <2>2, LinksAround
  <2> QED BY <1>1, <1>4, <2>3 DEF Disjoint
<1> QED BY <1>5, <1>6

(***************************************************************************)
(* The new node joins the chain of its level.                              *)
(***************************************************************************)
LEMMA LinksChain ==
  ASSUME IInv, NEW n, NEW p, NEW s, NEW a, Links(n, p, s, a)
  PROVE  \A l \in Levels : Chain(l)'
<1>0. /\ a \in Levels /\ n # p /\ n # s /\ p \in Node_V1 /\ n \in Node_V1
      /\ n # tail /\ n # head /\ s \in Level(a) /\ p \in Level(a)
      /\ p # tail /\ s = next[p][a] /\ Before(p, s)
  BY LinksFacts DEF Links
<1>1. \A m \in Node_V1, l \in Levels : next'[m][l] =
       IF l = a /\ m = n THEN s ELSE IF l = a /\ m = p THEN n ELSE next[m][l]
  BY DEF Links
<1>2. /\ \A l \in Levels \ {a} : Level(l)' = Level(l)
      /\ Level(a)' = Level(a) \cup {n}
  BY LinksLevels
<1>3. ASSUME NEW l \in Levels
      PROVE  \A m \in Level(l) : Published(m) /\ m \in Node_V1
  BY <1>3, InLevel DEF IInv
<1>4. ASSUME NEW l \in Levels
      PROVE  \A m, k \in Level(l) : Before(m, k)' <=> Before(m, k)
  BY <1>3, <1>4, LinksLevels DEF Before
<1>5. \A l \in Levels : Chain(l)
  BY DEF IInv, ListInv
<1>6. ASSUME NEW l \in Levels \ {a} PROVE Chain(l)'
  <2>1. Level(l)' = Level(l) /\ Chain(l)
    BY <1>2, <1>5
  <2>2. \A m \in Level(l) : next'[m][l] = next[m][l]
    BY <1>1, <1>3
  <2> QED BY <1>4, <2>1, <2>2 DEF Chain
<1>7. Chain(a)'
  <2>0. Chain(a)
    BY <1>0, <1>5
  <2>1. {head, tail} \subseteq Level(a)'
    BY <1>2, <2>0 DEF Chain
  <2>2. /\ next'[n][a] = s /\ next'[p][a] = n
        /\ \A m \in Level(a) : m # p => next'[m][a] = next[m][a]
    <3>1. n \notin Level(a)
      BY LinksAround
    <3> QED BY <1>0, <1>1, <1>3, <3>1
  <2>3. ASSUME NEW x \in Level(a)' \ {tail}
        PROVE  /\ next'[x][a] \in Level(a)'
               /\ \A q \in Level(a)' :
                    ~(Before(x, q)' /\ Before(q, next[x][a])')
    <3>1. CASE x = n
      <4>1. ASSUME NEW q \in Level(a), Before(n, q)' PROVE ~Before(q, s)'
        <5>1. q = s \/ Before(s, q)
          BY <4>1, LinksAround
        <5>2. Published(q) /\ Published(s)
          BY <1>0, <1>3
        <5>3. ~Before(q, s)
          BY <5>1, <5>2, BeforeAsym DEF Before, IInv
        <5> QED BY <1>0, <1>4, <5>3
      <4>2. ~Before(n, n)'
        BY DEF Before
      <4> QED BY <1>0, <1>2, <2>2, <3>1, <4>1, <4>2
    <3>2. CASE x = p
      <4>1. ASSUME NEW q \in Level(a), Before(p, q)' PROVE ~Before(q, n)'
        <5>1. Before(p, q) /\ Published(q) /\ Published(p)
          BY <1>0, <1>3, <1>4, <4>1
        <5>2. ~Before(q, p) /\ q # p
          BY <5>1, BeforeAsym DEF Before, IInv
        <5> QED BY <5>2, LinksAround
      <4>2. ~Before(n, n)'
        BY DEF Before
      <4> QED BY <1>0, <1>2, <2>2, <3>2, <4>1, <4>2
    <3>3. CASE x # n /\ x # p
      <4>1. x \in Level(a) /\ next'[x][a] = next[x][a]
        BY <1>2, <2>2, <3>3
      <4>2. /\ next[x][a] \in Level(a) /\ Published(x)
            /\ \A q \in Level(a) : ~(Before(x, q) /\ Before(q, next[x][a]))
        BY <1>0, <1>3, <2>0, <2>3, <4>1 DEF Chain
      <4>3. ~(Before(x, n)' /\ Before(n, next[x][a])')
        <5> SUFFICES ASSUME Before(x, n)', Before(n, next[x][a])'
                     PROVE  FALSE
          OBVIOUS
        <5>1. Before(x, p)
          BY <3>3, <4>1, LinksAround
        <5>2. PICK y : y = next[x][a]
          OBVIOUS
        <5>3. y \in Level(a) /\ Before(n, y)'
          BY <4>1, <4>2, <5>2
        <5>4. y = s \/ Before(s, y)
          BY <5>3, LinksAround
        <5>5. Before(p, y)
          <6>1. Published(p) /\ Published(s) /\ Published(y)
            BY <1>0, <1>3, <5>3
          <6> QED BY <1>0, <5>4, <6>1, BeforeTrans DEF IInv
        <5> QED BY <1>0, <4>2, <5>1, <5>2, <5>5
      <4>4. \A q \in Level(a) : ~(Before(x, q)' /\ Before(q, next[x][a])')
        <5>1. PICK y : y = next[x][a]
          OBVIOUS
        <5>2. \A q \in Level(a) : ~(Before(x, q)' /\ Before(q, y)')
          BY <1>0, <1>4, <4>1, <4>2, <5>1
        <5> QED BY <4>1, <5>1, <5>2
      <4> QED BY <1>2, <4>1, <4>2, <4>3, <4>4
    <3> QED BY <3>1, <3>2, <3>3
  <2>4. ASSUME NEW m \in Level(a)' \ {head}
        PROVE  \E x \in Level(a)' : next'[x][a] = m
    <3>1. CASE m = n
      BY <1>0, <1>2, <2>2, <3>1
    <3>2. CASE m = s
      BY <1>2, <2>2, <3>2
    <3>3. CASE m # n /\ m # s
      <4>1. m \in Level(a) \ {head}
        BY <1>2, <2>4, <3>3
      <4>2. PICK x \in Level(a) : next[x][a] = m
        BY <2>0, <4>1 DEF Chain
      <4>3. x # p
        BY <1>0, <3>3, <4>2
      <4> QED BY <1>2, <2>2, <4>2, <4>3
    <3> QED BY <3>1, <3>2, <3>3
  <2> QED BY <2>1, <2>3, <2>4 DEF Chain
<1> QED BY <1>6, <1>7

(***************************************************************************)
(* Whoever is on the way to a victim v still meets it.                     *)
(***************************************************************************)
LEMMA LinksSeeks ==
  ASSUME IInv, NEW n, NEW p, NEW s, NEW a, Links(n, p, s, a), Disjoint',
         NEW v \in NewNodes, v # n,
         \A l \in Levels : l <= topLevel[v] => v \in Level(l),
         NEW f \in Frames, Seeks(f, v)
  PROVE  Seeks(f, v)'
<1>0. /\ a \in Levels /\ n \in Node_V1 /\ v \in Node_V1 /\ p \in Level(a)
      /\ Published(p) /\ Published(s) /\ p \in Node_V1 /\ s \in Level(a)
      /\ n # p /\ n # tail /\ next[n][a] = Null /\ s = next[p][a]
      /\ v # tail /\ p # tail
  BY LinksFacts, V1Assumption DEF Links, Node_V1
<1>1. /\ v \in linked /\ Published(v) /\ topLevel[v] \in Levels
      /\ topLevel'[v] = topLevel[v]
  <2>1. 0 \in Levels /\ topLevel[v] \in Levels /\ 0 <= topLevel[v]
    BY <1>0, V1Assumption DEF IInv, Types, Levels
  <2>2. v \in linked /\ Published(v)
    BY <2>1, InLevel DEF IInv
  <2> QED BY <1>0, <2>1, <2>2 DEF Links
<1>2. PICK G \in [Levels -> SUBSET Node_V1] :
        Leads(G, v) /\ f.pred \in G[f.lvl]
  BY DEF Seeks
<1>3. /\ \A m \in Node_V1, l \in Levels :
           HasLevel(m, l)' <=> HasLevel(m, l) \/ (m = n /\ l = a)
      /\ \A m \in Node_V1 : Published(m) => Start(m)' = Start(m)
                                            /\ End(m)' = End(m)
      /\ \A l \in Levels \ {a} : Level(l)' = Level(l)
      /\ Level(a)' = Level(a) \cup {n}
  BY LinksLevels
<1>4. \A m, k \in Node_V1 : Published(m) /\ Published(k)
        => (Before(m, k)' <=> Before(m, k))
  BY <1>3 DEF Before
<1>5. \A m \in Node_V1, l \in Levels : next'[m][l] =
       IF l = a /\ m = n THEN s ELSE IF l = a /\ m = p THEN n ELSE next[m][l]
  BY DEF Links
<1>6. PICK H \in [Levels -> SUBSET Node_V1] :
        /\ \A l \in Levels \ {a} : H[l] = G[l]
        /\ H[a] = G[a] \cup {x \in {n} : Before(n, v)'}
  <2>1. [G EXCEPT ![a] = G[a] \cup {x \in {n} : Before(n, v)'}]
          \in [Levels -> SUBSET Node_V1]
    BY <1>0
  <2> QED BY <1>0, <2>1
<1>7. \A l \in Levels : G[l] \subseteq H[l]
  BY <1>6
<1>8. ASSUME NEW l \in Levels, NEW g \in G[l]
      PROVE  /\ HasLevel(g, l) /\ Before(g, v) /\ g # tail /\ g \in Node_V1
             /\ Published(g) /\ (\A k \in Levels : k <= l => g \in G[k])
             /\ \/ next[g][l] \in G[l]
                \/ next[g][l] = v
                \/ Before(v, next[g][l]) /\ topLevel[v] < l
             /\ next[g][l] \in Node_V1 /\ Published(next[g][l])
  <2>1. /\ HasLevel(g, l) /\ Before(g, v) /\ g # tail /\ g \in Node_V1
        /\ (\A k \in Levels : k <= l => g \in G[k])
        /\ \/ next[g][l] \in G[l]
           \/ next[g][l] = v
           \/ Before(v, next[g][l]) /\ topLevel[v] < l
    BY <1>2, <1>8 DEF Leads
  <2>2. Published(g) /\ HasLevel(next[g][l], l) /\ next[g][l] \in Node_V1
    BY <2>1, LevelFacts DEF IInv
  <2>3. Published(next[g][l])
    BY <2>2, LevelFacts DEF IInv
  <2> QED BY <2>1, <2>2, <2>3
<1>9. ASSUME NEW l \in Levels, NEW g \in G[l]
      PROVE  /\ HasLevel(g, l)' /\ Before(g, v)' /\ g # tail
             /\ \A k \in Levels : k <= l => g \in H[k]
             /\ \/ next'[g][l] \in H[l]
                \/ next'[g][l] = v
                \/ Before(v, next[g][l])' /\ topLevel'[v] < l
  <2>1. HasLevel(g, l)' /\ Before(g, v)' /\ g # tail
    BY <1>0, <1>1, <1>3, <1>4, <1>8
  <2>2. \A k \in Levels : k <= l => g \in H[k]
    BY <1>7, <1>8
  <2>3. CASE l = a /\ g = p
    <3>1. next'[g][l] = n
      BY <1>0, <1>5, <2>3
    <3>2. Before(n, v)' => n \in H[l]
      BY <1>6, <2>3
    <3>3. ASSUME ~Before(n, v)'
          PROVE  Before(v, n)' /\ topLevel[v] < a
      <4>1. Before(v, n)'
        BY <1>1, <3>3 DEF Disjoint, Links
      <4>2. v \in Level(a) => v = p \/ Before(v, p)
        BY <3>3, LinksAround
      <4>3. v # p /\ ~Before(v, p)
        BY <1>0, <1>1, <1>8, <2>3, BeforeAsym DEF Before, IInv
      <4>4. topLevel[v] \in Int /\ a \in Int
        BY <1>0, <1>1 DEF Levels
      <4> QED BY <1>0, <4>1, <4>2, <4>3, <4>4
    <3>4. ~Before(n, v)' => Before(v, next[g][l])' /\ topLevel'[v] < l
      BY <1>1, <2>3, <3>1, <3>3
    <3> QED BY <2>1, <2>2, <3>1, <3>2, <3>4
  <2>4. CASE ~(l = a /\ g = p)
    <3>1. ~(l = a /\ g = n)
      BY <1>0, <1>8 DEF HasLevel
    <3>2. next'[g][l] = next[g][l]
      BY <1>5, <1>8, <2>4, <3>1
    <3>3. PICK c : c = next[g][l]
      OBVIOUS
    <3>4. c \in G[l] \/ c = v \/ (Before(v, c) /\ topLevel[v] < l)
      BY <1>8, <3>3
    <3>5. Before(v, c)' <=> Before(v, c)
      BY <1>0, <1>1, <1>4, <1>8, <3>3
    <3> QED BY <1>1, <1>7, <2>1, <2>2, <3>2, <3>3, <3>4, <3>5
  <2> QED BY <2>3, <2>4
<1>10. ASSUME Before(n, v)'
       PROVE  /\ HasLevel(n, a)' /\ n # tail
              /\ \A k \in Levels : k <= a => n \in H[k]
              /\ \/ next'[n][a] \in H[a]
                 \/ next'[n][a] = v
                 \/ Before(v, next[n][a])' /\ topLevel'[v] < a
  <2>1. HasLevel(n, a)' /\ n # tail
    BY <1>0, <1>3
  <2>2. ASSUME NEW k \in Levels, k <= a PROVE n \in H[k]
    <3>1. CASE k = a
      BY <1>6, <1>10, <3>1
    <3>2. CASE k # a
      <4>1. k < a /\ a # 0
        BY <1>0, <2>2, <3>2 DEF Levels
      <4>2. Published(n) /\ n \in linked
        BY <4>1, LinksFacts
      <4>3. HasLevel(n, k) /\ ~marked[n]
        BY <1>0, <4>1 DEF Links, HasLevel
      <4>4. n \in Level(k)
        BY <4>3, UnmarkedInLevel
      <4>5. Before(n, v)
        BY <1>0, <1>1, <1>4, <1>10, <4>2
      <4> QED BY <1>2, <1>7, <4>4, <4>5 DEF Leads
    <3> QED BY <3>1, <3>2
  <2>3. next'[n][a] = s
    BY <1>0, <1>5
  <2>4. Before(p, v)
    <3>2. /\ End(p) <= range'[n].start /\ range'[n].end <= Start(v)
          /\ range'[n].start < range'[n].end
          /\ range'[n].start \in Int /\ range'[n].end \in Int
      <4>1. End(p) <= range'[n].start
        BY DEF Links
      <4>2. /\ range'[n].start < range'[n].end
            /\ range'[n].start \in Int /\ range'[n].end \in Int
        BY LinksFacts
      <4>3. End(n)' <= Start(v)'
        BY <1>10 DEF Before
      <4>4. End(n)' = range'[n].end /\ Start(v)' = Start(v)
        BY <1>0, <1>1, <1>3, LinksLevels
      <4> QED BY <4>1, <4>2, <4>3, <4>4
    <3>3. End(p) \in Int /\ Start(p) <= End(p) /\ Start(p) \in Int
          /\ Start(v) \in Int
      BY <1>0, <1>1, PublishedFacts DEF IInv
    <3>4. End(p) <= Start(v) /\ Start(p) < Start(v)
      BY <3>2, <3>3
    <3>5. p # v
      BY <3>3, <3>4
    <3> QED BY <3>4, <3>5 DEF Before
  <2>5. p \in G[a]
    BY <1>0, <1>2, <2>4 DEF Leads
  <2>6. s \in G[a] \/ s = v \/ (Before(v, s) /\ topLevel[v] < a)
    BY <1>0, <1>8, <2>5
  <2>7. Before(v, s)' <=> Before(v, s)
    BY <1>0, <1>1, <1>4, <1>8, <2>5
  <2> QED BY <1>0, <1>1, <1>7, <2>1, <2>2, <2>3, <2>6, <2>7
<1>11. ASSUME NEW l \in Levels, NEW m \in Level(l)', Before(m, v)'
       PROVE  m \in H[l]
  <2>1. CASE m \in Level(l)
    <3>1. Published(m) /\ m \in Node_V1
      BY <2>1, InLevel DEF IInv
    <3>2. Before(m, v)
      BY <1>0, <1>1, <1>4, <1>11, <3>1
    <3> QED BY <1>2, <1>7, <2>1, <3>2 DEF Leads
  <2>2. CASE m \notin Level(l)
    <3>1. l = a /\ m = n
      BY <1>3, <1>11, <2>2
    <3> QED BY <1>6, <1>11, <3>1
  <2> QED BY <2>1, <2>2
<1>12. Leads(H, v)'
  <2> SUFFICES ASSUME NEW l \in Levels
               PROVE  /\ \A g \in H[l] :
                           /\ HasLevel(g, l)' /\ Before(g, v)' /\ g # tail
                           /\ \A k \in Levels : k <= l => g \in H[k]
                           /\ \/ next'[g][l] \in H[l]
                              \/ next'[g][l] = v
                              \/ Before(v, next[g][l])' /\ topLevel'[v] < l
                      /\ \A m \in Level(l)' : Before(m, v)' => m \in H[l]
    BY DEF Leads
  <2>1. \A g \in H[l] : g \in G[l] \/ (g = n /\ l = a /\ Before(n, v)')
    BY <1>6
  <2> QED BY <1>9, <1>10, <1>11, <2>1
<1>13. f.pred \in H[f.lvl]
  BY <1>2, <1>7 DEF Frames
<1> QED BY <1>1, <1>12, <1>13 DEF Seeks

(***************************************************************************)
(* A call of tryLock links its node at one level.                          *)
(***************************************************************************)
LEMMA LinkStep ==
  ASSUME IInv, NEW t \in Threads, Link(t)
  PROVE  /\ IInv' /\ Stable
         /\ Links(frame[t].node, frame[t].preds[frame[t].at],
                  frame[t].succs[frame[t].at], frame[t].at)
<1>1. PICK f \in Frames : f = frame[t]
  BY DEF IInv, Types
<1>2. PICK n \in Node_V1, a \in Levels, p \in Node_V1, s \in Node_V1 :
        n = f.node /\ a = f.at /\ p = f.preds[a] /\ s = f.succs[a]
  BY DEF Frames
<1>3. /\ pc[t] = "link" /\ FrameOK(t, "link", f)
      /\ next' = [next EXCEPT ![n][a] = s, ![p][a] = n]
      /\ range' = [range EXCEPT ![n] = f.want]
      /\ topLevel' = [topLevel EXCEPT ![n] = f.top]
      /\ linked' = linked \cup {n}
      /\ marked' = marked /\ fullyLinked' = fullyLinked
      /\ mutex' = mutex /\ elementsCount' = elementsCount
      /\ calls' = calls /\ owned' = owned
  BY <1>1, <1>2 DEF Link, IInv
<1>4. /\ f.find = "insert" /\ n \in NewNodes /\ n <= calls /\ ~f.isMarked
      /\ f.found = NotFound /\ f.want \in Requests /\ f.top \in Heights
      /\ a <= f.top /\ \A l \in Levels : l >= a => next[n][l] = Null
  BY <1>2, <1>3 DEF FrameOK, InsertLabels, Inserts
<1>5. \A l \in Levels : a <= l /\ l <= f.top => Secured(t, f, l)
  BY <1>2, <1>3 DEF FrameOK
<1>6. \A l \in Levels : Noted(f, l)
  BY <1>3 DEF FrameOK
<1>7. a > 0 => /\ n \in linked /\ range[n] = f.want /\ topLevel[n] = f.top
               /\ \A l \in Levels : l < a => Joined(t, f, l)
  <2>1. \A l \in Levels : l < a => l <= f.top
    BY <1>4 DEF Levels, Heights
  <2> QED BY <1>2, <1>3, <1>4, <2>1 DEF FrameOK, Inserts, Placed
<1>8. /\ mutex[p] = t /\ ~marked[p] /\ next[p][a] = s
      /\ HasLevel(p, a) /\ p # tail /\ HasLevel(s, a) /\ s # head
      /\ End(p) <= f.want.start /\ f.want.end < Start(s)
  <2>1. Secured(t, f, a) /\ Noted(f, a)
    BY <1>4, <1>5, <1>6 DEF Levels
  <2> QED BY <1>2, <1>4, <2>1 DEF Secured, Noted
<1>9. n # p /\ n # tail /\ n # head /\ s # Null /\ n # Null
  <2>1. next[n][a] = Null
    BY <1>4 DEF Levels
  <2> QED BY <1>4, <1>8, <2>1, V1Assumption DEF HasLevel
<1>10. \A m \in Node_V1, l \in Levels : next'[m][l] =
       IF l = a /\ m = n THEN s ELSE IF l = a /\ m = p THEN n ELSE next[m][l]
  BY <1>3, <1>9 DEF IInv, Types
<1>11. p \in Level(a)
  BY <1>8, UnmarkedInLevel
<1>12. 0 \in Levels /\ (a = 0 \/ a > 0)
  BY V1Assumption DEF Levels
<1>13. ~marked[n]
  <2>1. next[n][a] = Null
    BY <1>4 DEF Levels
  <2>2. CASE a = 0
    <3>1. 0 <= topLevel[n]
      BY DEF IInv, Types, Levels
    <3> QED BY <1>4, <1>9, <1>12, <2>1, <2>2, <3>1
            DEF IInv, ListInv, Nodes, HasLevel
  <2>3. CASE a > 0
    BY <1>4, <1>7, <1>9, <2>1, <2>3 DEF IInv, ListInv, Nodes, HasLevel
  <2> QED BY <1>12, <2>2, <2>3
<1>14. PICK q \in Labels, g \in Frames :
         /\ Go(t, q, g)
         /\ \/ q = "link" /\ a < f.top /\ g = [f EXCEPT !.at = a + 1]
            \/ q = "full" /\ a = f.top /\ g = f
  <2>1. CASE f.at < f.top /\ Go(t, "link", [f EXCEPT !.at = f.at + 1])
    <3>1. a + 1 \in Levels
      BY <1>2, <1>4, <2>1, V1Assumption DEF Levels, Heights
    <3>2. [f EXCEPT !.at = a + 1] \in Frames
      BY <3>1 DEF Frames
    <3> QED BY <1>2, <2>1, <3>2 DEF Labels
  <2>2. CASE ~(f.at < f.top) /\ Go(t, "full", f)
    <3>1. a = f.top
      BY <1>2, <1>4, <2>2 DEF Levels, Heights
    <3> QED BY <2>2, <3>1 DEF Labels
  <2> QED BY <1>1, <2>1, <2>2 DEF Link
<1>15. /\ g.find = f.find /\ g.want = f.want /\ g.top = f.top
       /\ g.node = f.node /\ g.isMarked = f.isMarked /\ g.found = f.found
       /\ g.preds = f.preds /\ g.succs = f.succs
       /\ q = "link" => g.at = a + 1
  BY <1>14 DEF Frames
<1>16. /\ pc'[t] = q /\ frame'[t] = g /\ q # "unlink" /\ q # "find"
       /\ pc' \in [Threads -> Labels] /\ frame' \in [Threads -> Frames]
       /\ \A u \in Threads \ {t} : pc'[u] = pc[u] /\ frame'[u] = frame[u]
  BY <1>14, GoFacts DEF IInv
<1>17. \A m, l : TakenOff(m, l)' <=> TakenOff(m, l)
  BY <1>3, <1>16 DEF TakenOff
<1>18. /\ range'[n] = f.want /\ topLevel'[n] = f.top
       /\ \A m \in Node_V1 : m # n => range'[m] = range[m]
                                      /\ topLevel'[m] = topLevel[m]
  BY <1>3 DEF IInv, Types
<1>19. Published(n) <=> a > 0
  <2>1. next[n][a] = Null /\ 0 <= a
    BY <1>4 DEF Levels
  <2>2. a > 0 => next[n][0] # Null
    BY <1>2, <1>7, <1>12 DEF Joined
  <2> QED BY <1>9, <1>12, <2>1, <2>2 DEF Published, HasLevel
<1>20. Links(n, p, s, a)
  <2>1. \A m \in Node_V1 : m # n \/ Published(m) =>
          range'[m] = range[m] /\ topLevel'[m] = topLevel[m]
    BY <1>7, <1>18, <1>19
  <2>2. \A k \in Levels : k < a => next[n][k] # Null
    <3>1. \A k \in Levels : k < a => a > 0
      BY DEF Levels
    <3> QED BY <1>2, <1>7, <3>1 DEF Joined
  <2>3. next[n][a] = Null
    BY <1>4 DEF Levels
  <2>4. f.want.end <= Start(s)
    <3>1. f.want.end \in Int
      BY <1>4, V1Assumption DEF RangesOver
    <3>2. Start(s) \in Int
      BY DEF IInv, Types, Start, RangesOver
    <3> QED BY <1>8, <3>1, <3>2
  <2> QED BY <1>3, <1>4, <1>8, <1>10, <1>11, <1>13, <1>17, <1>18, <2>1, <2>2,
             <2>3, <2>4 DEF Links
<1>21. Types'
  <2>1. next' \in [Node_V1 -> [Levels -> Node_V1 \cup {Null}]]
    <3>1. next \in [Node_V1 -> [Levels -> Node_V1 \cup {Null}]]
      BY DEF IInv, Types
    <3> QED BY <1>3, <3>1
  <2>2. range' \in [Node_V1 -> RangesOver(Int)]
    <3>1. f.want \in RangesOver(Int)
      BY DEF Frames
    <3> QED BY <1>3, <3>1 DEF IInv, Types
  <2>3. topLevel' \in [Node_V1 -> Levels]
    <3>1. f.top \in Levels
      BY DEF Frames
    <3> QED BY <1>3, <3>1 DEF IInv, Types
  <2>4. contended' \in [Threads -> BOOLEAN]
    <3>1. contended \in [Threads -> BOOLEAN]
      BY DEF IInv, Types
    <3> QED BY <3>1 DEF Link
  <2>5. linked' \in SUBSET Node_V1
    BY <1>3 DEF IInv, Types
  <2> QED BY <1>3, <1>16, <2>1, <2>2, <2>3, <2>4, <2>5 DEF IInv, Types
<1>22. Disjoint'
  BY <1>20, LinksDisjoint
<1>23. ListInv'
  BY <1>20, <1>22, LinksPointers, LinksChain DEF IInv, ListInv, ProperRanges
<1>24. Stable
  <2>1. \A m \in Node_V1, l \in Levels : HasLevel(m, l) => HasLevel(m, l)'
    BY <1>20, LinksLevels
  <2>2. \A m \in Node_V1 : Published(m) =>
          range'[m] = range[m] /\ topLevel'[m] = topLevel[m]
    BY <1>20 DEF Links
  <2>3. \A m \in Node_V1 : marked[m] => marked'[m] /\ next'[m] = next[m]
    BY <1>3, <1>8, <1>13 DEF IInv, Types
  <2>4. calls <= calls' /\ calls' \in Nat
    BY <1>3 DEF IInv, Types
  <2> QED BY <2>1, <2>2, <2>3, <2>4 DEF Stable
<1>25. ASSUME NEW u \in Threads \ {t} PROVE Leaves(u)
  <2>1. FrameOK(u, pc[u], frame[u]) /\ frame[u].node \in Node_V1
    BY DEF IInv, Types, Frames
  <2>2. \A m \in Node_V1 : mutex[m] = u =>
          /\ mutex'[m] = u /\ (marked'[m] => marked[m])
          /\ \A l \in Levels : next[m][l] # Null => next'[m][l] = next[m][l]
    <3>1. next[n][a] = Null
      BY <1>4 DEF Levels
    <3>2. \A m \in Node_V1 : mutex[m] = u => m # p
      BY <1>8
    <3>3. ASSUME NEW m \in Node_V1, m # p, NEW l \in Levels,
                 next[m][l] # Null
          PROVE  next'[m][l] = next[m][l]
      BY <1>10, <3>1, <3>3
    <3> QED BY <1>3, <3>2, <3>3
  <2>3. frame[u].find = "insert" =>
          /\ \A l \in Levels : next'[frame[u].node][l] = Null
                               <=> next[frame[u].node][l] = Null
          /\ frame[u].node \in linked => frame[u].node \in linked'
    <3>1. frame[u].find = "insert" => frame[u].node # n
      BY <1>1, <1>2, <1>4 DEF IInv, Distinct
    <3>2. ASSUME NEW m \in Node_V1, m # n, NEW l \in Levels
          PROVE  next'[m][l] = Null <=> next[m][l] = Null
      BY <1>8, <1>9, <1>10, <3>2
    <3> QED BY <1>3, <2>1, <3>1, <3>2
  <2>4. frame[u].isMarked =>
          (frame[u].node \in linked' <=> frame[u].node \in linked)
    <3>1. frame[u].isMarked => frame[u].node # n
      BY <1>13, <2>1 DEF FrameOK, Removes
    <3> QED BY <1>3, <3>1
  <2> QED BY <2>2, <2>3, <2>4 DEF Leaves
<1>26. FrameOK(t, q, g)'
  <2>1. \A l \in Levels : Noted(g, l)'
    <3>1. \A l \in Levels : Noted(g, l)
      BY <1>6, <1>15 DEF Noted
    <3> QED BY <1>24, <3>1, StableNoted
  <2>2. \A l \in Levels, m \in Node_V1 : l # a => next'[m][l] = next[m][l]
    BY <1>10
  <2>3. \A l \in Levels : f.preds[l] \in Node_V1
    BY DEF Frames
  <2>4. \A l \in Levels : q = "link" /\ g.at <= l /\ l <= g.top
          => Secured(t, g, l)'
    <3>1. \A l \in Levels : q = "link" /\ g.at <= l /\ l <= g.top
            => a <= l /\ l # a /\ l <= f.top
      BY <1>15 DEF Levels
    <3>2. ASSUME NEW l \in Levels, l # a, Secured(t, f, l)
          PROVE  Secured(t, g, l)'
      <4>1. next'[f.preds[l]][l] = next[f.preds[l]][l]
        BY <2>2, <2>3, <3>2
      <4> QED BY <1>3, <1>15, <3>2, <4>1 DEF Secured
    <3> QED BY <1>5, <3>1, <3>2
  <2>5. \A l \in Levels : l < a => Joined(t, g, l)'
    <3>1. \A l \in Levels : l < a => a > 0 /\ l # a
      BY DEF Levels
    <3>2. ASSUME NEW l \in Levels, l # a, Joined(t, f, l)
          PROVE  Joined(t, g, l)'
      <4>1. /\ next'[f.preds[l]][l] = next[f.preds[l]][l]
            /\ next'[f.node][l] = next[f.node][l]
        BY <1>2, <2>2, <2>3, <3>2
      <4> QED BY <1>3, <1>15, <3>2, <4>1 DEF Joined
    <3> QED BY <1>7, <3>1, <3>2
  <2>6. Joined(t, g, a)'
    <3>1. next'[p][a] = n /\ next'[n][a] = s
      BY <1>9, <1>10
    <3>2. g.preds[a] = p /\ g.node = n
      BY <1>2, <1>15
    <3>3. mutex'[p] = t /\ ~marked'[p]
      BY <1>3, <1>8
    <3> QED BY <1>9, <3>1, <3>2, <3>3 DEF Joined
  <2>7. \A l \in Levels : l <= f.top /\ (q = "link" => l < g.at)
          => Joined(t, g, l)'
    <3>1. \A l \in Levels : l <= f.top /\ (q = "link" => l < g.at)
            => l < a \/ l = a
      BY <1>4, <1>14, <1>15 DEF Levels, Heights
    <3> QED BY <2>5, <2>6, <3>1
  <2>8. q = "link" => \A l \in Levels : l >= g.at => next'[n][l] = Null
    <3>1. \A l \in Levels : q = "link" /\ l >= g.at => l >= a /\ l # a
      BY <1>15 DEF Levels
    <3> QED BY <1>4, <2>2, <3>1
  <2>9. ~Placing(q, g)
    BY <1>14, <1>15 DEF Placing, Levels
  <2>10. Inserts(t, q, g)'
    <3>1. /\ g.node \in NewNodes /\ g.node <= calls' /\ g.top \in Heights
          /\ ~g.isMarked /\ g.found = NotFound /\ g.node \in linked'
          /\ range'[g.node] = g.want /\ topLevel'[g.node] = g.top
      BY <1>2, <1>3, <1>4, <1>15, <1>18
    <3> QED BY <1>2, <1>15, <2>7, <2>8, <2>9, <3>1 DEF Inserts
  <2>11. Removes(t, q, g)'
    BY <1>4, <1>14, <1>15 DEF Removes
  <2>12. q = "link" => g.at <= g.top
    BY <1>4, <1>14, <1>15 DEF Levels, Heights
  <2> QED BY <1>4, <1>14, <1>15, <2>1, <2>4, <2>10, <2>11, <2>12
          DEF FrameOK, InsertLabels, ExactLabels
<1>27. Distinct' /\ \A u \in Threads : FrameOK(u, pc[u], frame[u])'
  <2>1. g.find = "insert" => frame[t].find = "insert" /\ g.node = frame[t].node
    BY <1>1, <1>4, <1>15
  <2>2. ~g.isMarked
    BY <1>4, <1>15
  <2> QED BY <1>14, <1>21, <1>24, <1>25, <1>26, <2>1, <2>2, StepFrames
<1>28. ASSUME NEW u \in Threads, pc'[u] = "find", frame'[u].isMarked
       PROVE  Seeks(frame[u], frame[u].node)'
  <2>1. u # t /\ pc[u] = "find" /\ frame'[u] = frame[u]
    BY <1>16, <1>28
  <2>2. PICK h \in Frames : h = frame[u]
    BY DEF IInv, Types
  <2>3. h.isMarked /\ Seeks(h, h.node)
    BY <1>28, <2>1, <2>2 DEF IInv
  <2>4. /\ h.node \in NewNodes
        /\ \A l \in Levels : l <= topLevel[h.node] => h.node \in Level(l)
    BY <2>1, <2>2, <2>3, VictimInLevels
  <2>5. h.node # n
    <3>1. FrameOK(u, pc[u], h)
      BY <2>2 DEF IInv
    <3> QED BY <1>13, <2>3, <3>1 DEF FrameOK, Removes
  <2>6. Seeks(h, h.node)'
    BY <1>20, <1>22, <2>3, <2>4, <2>5, LinksSeeks
  <2> QED BY <2>1, <2>2, <2>6
<1>29. IInv'
  BY <1>21, <1>23, <1>27, <1>28 DEF IInv
<1> QED BY <1>1, <1>2, <1>20, <1>24, <1>29

-----------------------------------------------------------------------------
(***************************************************************************)
(* Node n leaves the list of level a, where p comes before it and c after. *)
(***************************************************************************)
Unlinks(n, p, c, a) ==
  /\ a \in Levels /\ n \in NewNodes /\ marked[n]
  /\ p \in Level(a) /\ p # tail /\ n = next[p][a] /\ c = next[n][a]
  /\ \A m \in Node_V1, l \in Levels :
       next'[m][l] = IF l = a /\ m = p THEN c ELSE next[m][l]
  /\ range' = range /\ topLevel' = topLevel /\ marked' = marked
  /\ calls' = calls
  /\ linked' \subseteq linked /\ linked \ {n} \subseteq linked'
  /\ \A l \in Levels \ {a} : Level(l)' = Level(l)
  /\ Level(a)' = Level(a) \ {n}

(***************************************************************************)
(* The node that leaves, and its neighbours.                               *)
(***************************************************************************)
LEMMA UnlinksFacts ==
  ASSUME IInv, NEW n, NEW p, NEW c, NEW a, Unlinks(n, p, c, a)
  PROVE  /\ n \in Node_V1 /\ n # head /\ n # tail /\ n # p /\ n # c
         /\ p \in Node_V1 /\ Published(p)
         /\ n \in Level(a) /\ Published(n) /\ HasLevel(n, a)
         /\ c \in Level(a) /\ Published(c) /\ c \in Node_V1 /\ c # Null
         /\ HasLevel(c, a) /\ c # head
         /\ Before(p, n) /\ Before(n, c) /\ Before(p, c)
         /\ next[p][a] # Null
         /\ \A m \in Node_V1, l \in Levels : HasLevel(m, l)' <=> HasLevel(m, l)
         /\ \A m \in Node_V1 : Published(m)' <=> Published(m)
         /\ \A m, k : Before(m, k)' <=> Before(m, k)
<1>1. /\ a \in Levels /\ n \in NewNodes /\ p \in Level(a) /\ p # tail
      /\ n = next[p][a] /\ c = next[n][a]
  BY DEF Unlinks
<1>2. n \in Node_V1 /\ n # head /\ n # tail /\ 0 \in Levels
  BY <1>1, V1Assumption DEF Node_V1, Levels
<1>3. /\ p \in Node_V1 /\ Published(p) /\ HasLevel(p, a) /\ n \in Level(a)
      /\ Before(p, n)
  BY <1>1, InLevel DEF IInv
<1>4. /\ Published(n) /\ HasLevel(n, a) /\ c \in Level(a) /\ Before(n, c)
  BY <1>1, <1>2, <1>3, InLevel DEF IInv
<1>5. Published(c) /\ c \in Node_V1 /\ HasLevel(c, a)
  BY <1>1, <1>4, InLevel DEF IInv
<1>6. c # head /\ c # Null /\ next[p][a] # Null
  BY <1>1, <1>2, <1>3, <1>4, LevelFacts DEF IInv
<1>7. Before(p, c)
  BY <1>3, <1>4, <1>5, BeforeTrans DEF IInv
<1>8. \A m \in Node_V1, l \in Levels : HasLevel(m, l)' <=> HasLevel(m, l)
  BY <1>1, <1>6 DEF HasLevel, Unlinks
<1>9. \A m \in Node_V1 : Published(m)' <=> Published(m)
  BY <1>2, <1>8 DEF Published
<1>10. \A m, k : Before(m, k)' <=> Before(m, k)
  BY DEF Unlinks, Before, Start, End
<1>11. n # p /\ n # c
  BY <1>3, <1>4 DEF Before
<1> QED BY <1>1, <1>2, <1>3, <1>4, <1>5, <1>6, <1>7, <1>8, <1>9, <1>10, <1>11

(***************************************************************************)
(* The list is one without the node.                                       *)
(***************************************************************************)
LEMMA UnlinksList ==
  ASSUME IInv, NEW n, NEW p, NEW c, NEW a, Unlinks(n, p, c, a)
  PROVE  ListInv'
<1>0. /\ n \in Node_V1 /\ n # head /\ n # tail /\ n # p /\ n # c
      /\ p \in Node_V1 /\ Published(p) /\ n \in Level(a) /\ Published(n)
      /\ c \in Level(a) /\ Published(c) /\ c \in Node_V1 /\ c # Null
      /\ HasLevel(c, a) /\ c # head /\ Before(p, n) /\ Before(n, c)
      /\ Before(p, c) /\ next[p][a] # Null
  BY UnlinksFacts
<1>1. /\ a \in Levels /\ n \in NewNodes /\ marked[n] /\ p \in Level(a)
      /\ p # tail /\ n = next[p][a] /\ c = next[n][a]
  BY DEF Unlinks
<1>2. /\ range' = range /\ topLevel' = topLevel /\ marked' = marked
      /\ calls' = calls /\ linked' \subseteq linked
      /\ linked \ {n} \subseteq linked'
      /\ \A l \in Levels \ {a} : Level(l)' = Level(l)
      /\ Level(a)' = Level(a) \ {n}
  BY DEF Unlinks
<1>3. \A m \in Node_V1, l \in Levels :
        next'[m][l] = IF l = a /\ m = p THEN c ELSE next[m][l]
  BY DEF Unlinks
<1>4. /\ \A m \in Node_V1, l \in Levels : HasLevel(m, l)' <=> HasLevel(m, l)
      /\ \A m \in Node_V1 : Published(m)' <=> Published(m)
      /\ \A m, k : Before(m, k)' <=> Before(m, k)
  BY UnlinksFacts
<1>5. Pointers /\ Ends /\ Nodes /\ Disjoint /\ \A l \in Levels : Chain(l)
  BY DEF IInv, ListInv
<1>6. ASSUME NEW m \in Node_V1, NEW l \in Levels, next'[m][l] # Null
      PROVE  /\ HasLevel(next[m][l], l)' /\ next'[m][l] # head
             /\ (End(m) <= Start(next[m][l]))'
             /\ l <= topLevel'[m]
             /\ \A k \in Levels : k <= l => next'[m][k] # Null
  <2>1. next[m][l] # Null
    BY <1>0, <1>3, <1>6
  <2>2. l <= topLevel'[m] /\ \A k \in Levels : k <= l => next'[m][k] # Null
    BY <1>0, <1>2, <1>3, <1>5, <2>1 DEF Pointers
  <2>3. PICK y : y = next'[m][l]
    OBVIOUS
  <2>4. HasLevel(y, l) /\ y # head /\ End(m) <= Start(y)
    <3>1. CASE l = a /\ m = p
      BY <1>0, <1>3, <2>3, <3>1 DEF Before
    <3>2. CASE ~(l = a /\ m = p)
      BY <1>3, <1>5, <2>1, <2>3, <3>2 DEF Pointers
    <3> QED BY <3>1, <3>2
  <2>5. HasLevel(y, l)' /\ (End(m) <= Start(y))'
    BY <1>2, <1>4, <2>4 DEF HasLevel, Start, End
  <2> QED BY <2>2, <2>3, <2>4, <2>5
<1>7. Pointers'
  BY <1>6 DEF Pointers
<1>8. Ends'
  <2>1. head \in Node_V1 /\ tail \in Node_V1
    BY DEF Node_V1
  <2> QED BY <1>0, <1>1, <1>2, <1>3, <1>5, <2>1 DEF Ends
<1>9. Nodes'
  <2>1. \A m \in NewNodes : m \in Node_V1
    BY DEF Node_V1
  <2> QED BY <1>1, <1>2, <1>4, <1>5, <2>1 DEF Nodes
<1>10. Disjoint'
  BY <1>2, <1>4, <1>5 DEF Disjoint
<1>11. \A l \in Levels : \A m \in Level(l) : Published(m) /\ m \in Node_V1
  BY InLevel DEF IInv
<1>12. ASSUME NEW l \in Levels \ {a} PROVE Chain(l)'
  <2>1. Level(l)' = Level(l) /\ Chain(l)
    BY <1>2, <1>5
  <2>2. \A m \in Level(l) : next'[m][l] = next[m][l]
    BY <1>3, <1>11
  <2> QED BY <1>4, <2>1, <2>2 DEF Chain
<1>13. Chain(a)'
  <2>0. Chain(a)
    BY <1>1, <1>5
  <2>1. {head, tail} \subseteq Level(a)'
    BY <1>0, <1>2, <2>0 DEF Chain
  <2>2. /\ next'[p][a] = c
        /\ \A m \in Level(a) : m # p => next'[m][a] = next[m][a]
    BY <1>0, <1>1, <1>3, <1>11
  <2>3. ASSUME NEW x \in Level(a)' \ {tail}
        PROVE  /\ next'[x][a] \in Level(a)'
               /\ \A q \in Level(a)' :
                    ~(Before(x, q)' /\ Before(q, next[x][a])')
    <3>0. x \in Level(a) /\ x # n
      BY <1>2, <2>3
    <3>1. CASE x = p
      <4>1. ASSUME NEW q \in Level(a) \ {n}, Before(p, q) PROVE ~Before(q, c)
        <5>1. q \in Level(a) /\ Published(q)
          BY <1>1, <1>11
        <5>2. q # p /\ ~Before(q, p)
          BY <1>0, <4>1, <5>1, BeforeAsym DEF Before, IInv
        <5>3. Before(n, q)
          BY <1>1, <5>1, <5>2, Gap
        <5>4. q # n /\ ~Before(q, n)
          BY <1>0, <5>1, <5>3, BeforeAsym DEF Before, IInv
        <5>5. q = c \/ Before(c, q)
          BY <1>0, <1>1, <5>1, <5>4, Gap
        <5> QED BY <1>0, <5>1, <5>5, BeforeAsym DEF Before, IInv
      <4> QED BY <1>0, <1>2, <1>4, <2>2, <3>1, <4>1
    <3>2. CASE x # p
      <4>1. next'[x][a] = next[x][a]
        BY <2>2, <3>0, <3>2
      <4>2. /\ next[x][a] \in Level(a)
            /\ \A q \in Level(a) : ~(Before(x, q) /\ Before(q, next[x][a]))
        BY <2>0, <2>3, <3>0 DEF Chain
      <4>3. next[x][a] # n
        BY <1>1, <2>3, <3>0, <3>2, OnePredecessor
      <4>4. PICK y : y = next[x][a]
        OBVIOUS
      <4>5. \A q \in Level(a)' : ~(Before(x, q)' /\ Before(q, y)')
        BY <1>2, <1>4, <4>2, <4>4
      <4> QED BY <1>2, <4>1, <4>2, <4>3, <4>4, <4>5
    <3> QED BY <3>1, <3>2
  <2>4. ASSUME NEW m \in Level(a)' \ {head}
        PROVE  \E x \in Level(a)' : next'[x][a] = m
    <3>1. CASE m = c
      BY <1>0, <1>1, <1>2, <2>2, <3>1
    <3>2. CASE m # c
      <4>1. m \in Level(a) \ {head} /\ m # n
        BY <1>2, <2>4
      <4>2. PICK x \in Level(a) : next[x][a] = m
        BY <2>0, <4>1 DEF Chain
      <4>3. x # p /\ x # n
        BY <1>1, <3>2, <4>1, <4>2
      <4> QED BY <1>2, <2>2, <4>2, <4>3
    <3> QED BY <3>1, <3>2
  <2> QED BY <2>1, <2>3, <2>4 DEF Chain
<1> QED BY <1>7, <1>8, <1>9, <1>10, <1>12, <1>13
        DEF IInv, ListInv, ProperRanges

(***************************************************************************)
(* Whoever is on the way to another victim v still meets it.               *)
(***************************************************************************)
LEMMA UnlinksSeeks ==
  ASSUME IInv, NEW n, NEW p, NEW c, NEW a, Unlinks(n, p, c, a),
         NEW v \in NewNodes, v # n,
         \A l \in Levels : l <= topLevel[v] => v \in Level(l),
         NEW f \in Frames, Seeks(f, v)
  PROVE  Seeks(f, v)'
<1>0. /\ n \in Node_V1 /\ p \in Node_V1 /\ Published(n) /\ Published(c)
      /\ Before(n, c) /\ v \in Node_V1 /\ n # tail
  BY UnlinksFacts DEF Node_V1
<1>1. Published(v)
  <2>1. 0 \in Levels /\ topLevel[v] \in Levels /\ 0 <= topLevel[v]
    BY <1>0, V1Assumption DEF IInv, Types, Levels
  <2> QED BY <2>1, InLevel DEF IInv
<1>2. PICK G \in [Levels -> SUBSET Node_V1] :
        Leads(G, v) /\ f.pred \in G[f.lvl]
  BY DEF Seeks
<1>3. /\ \A m \in Node_V1, l \in Levels : HasLevel(m, l)' <=> HasLevel(m, l)
      /\ \A m, k : Before(m, k)' <=> Before(m, k)
  BY UnlinksFacts
<1>4. /\ a \in Levels /\ n = next[p][a] /\ c = next[n][a]
      /\ topLevel' = topLevel
      /\ \A l \in Levels : Level(l)' \subseteq Level(l)
      /\ \A m \in Node_V1, l \in Levels :
           next'[m][l] = IF l = a /\ m = p THEN c ELSE next[m][l]
  BY DEF Unlinks
<1>5. ASSUME NEW l \in Levels, NEW g \in G[l]
      PROVE  /\ HasLevel(g, l) /\ Before(g, v) /\ g # tail /\ g \in Node_V1
             /\ (\A k \in Levels : k <= l => g \in G[k])
             /\ \/ next[g][l] \in G[l]
                \/ next[g][l] = v
                \/ Before(v, next[g][l]) /\ topLevel[v] < l
  BY <1>2, <1>5 DEF Leads
<1>6. ASSUME NEW l \in Levels, NEW g \in G[l]
      PROVE  /\ HasLevel(g, l)' /\ Before(g, v)' /\ g # tail
             /\ \A k \in Levels : k <= l => g \in G[k]
             /\ \/ next'[g][l] \in G[l]
                \/ next'[g][l] = v
                \/ Before(v, next[g][l])' /\ topLevel'[v] < l
  <2>1. PICK y : y = next'[g][l]
    OBVIOUS
  <2>2. y \in G[l] \/ y = v \/ (Before(v, y) /\ topLevel[v] < l)
    <3>1. CASE l = a /\ g = p
      <4>1. y = c
        BY <1>0, <1>4, <2>1, <3>1
      <4>2. n \in G[a] \/ (Before(v, n) /\ topLevel[v] < a)
        BY <1>4, <1>5, <3>1
      <4>3. CASE n \in G[a]
        BY <1>4, <1>5, <3>1, <4>1, <4>3
      <4>4. CASE Before(v, n) /\ topLevel[v] < a
        BY <1>0, <1>1, <3>1, <4>1, <4>4, BeforeTrans DEF IInv
      <4> QED BY <4>2, <4>3, <4>4
    <3>2. CASE ~(l = a /\ g = p)
      BY <1>4, <1>5, <2>1, <3>2
    <3> QED BY <3>1, <3>2
  <2> QED BY <1>3, <1>4, <1>5, <2>1, <2>2
<1>7. \A l \in Levels : \A m \in Level(l)' : Before(m, v)' => m \in G[l]
  BY <1>2, <1>3, <1>4 DEF Leads
<1>8. Leads(G, v)'
  BY <1>6, <1>7 DEF Leads
<1> QED BY <1>2, <1>4, <1>8 DEF Seeks

(***************************************************************************)
(* A call of tryLock either has not linked its node yet, or holds the      *)
(* mutex of the node before it.                                            *)
(***************************************************************************)
LEMMA InsertPhases ==
  ASSUME IInv, NEW u \in Threads, frame[u].find = "insert"
  PROVE  /\ Placing(pc[u], frame[u]) \/ Placed(pc[u], frame[u])
         /\ Placing(pc[u], frame[u]) => frame[u].node \notin linked
<1>1. PICK f \in Frames, p \in Labels : f = frame[u] /\ p = pc[u]
  BY DEF IInv, Types
<1>2. FrameOK(u, p, f) /\ f.find = "insert"
  BY <1>1 DEF IInv
<1>3. p # "idle" /\ p \notin ExactLabels
  BY <1>2 DEF FrameOK
<1>4. f.at = 0 \/ f.at > 0
  BY DEF Frames, Levels
<1>5. Placing(p, f) \/ Placed(p, f)
  BY <1>2, <1>3, <1>4 DEF Labels, ExactLabels, Placing, Placed
<1>6. Placing(p, f) => f.node \notin linked
  <2>1. f.node \in NewNodes /\ f.node # tail /\ 0 \in Levels
    BY <1>2, V1Assumption DEF FrameOK, Inserts, Levels
  <2>2. Placing(p, f) => next[f.node][0] = Null
    BY <1>2, <2>1 DEF FrameOK, Inserts
  <2> QED BY <2>1, <2>2 DEF IInv, ListInv, Nodes, Published, HasLevel
<1> QED BY <1>1, <1>5, <1>6

(***************************************************************************)
(* A release takes its victim out of the list of one level.                *)
(***************************************************************************)
LEMMA UnlinkStep ==
  ASSUME IInv, NEW t \in Threads, Unlink(t)
  PROVE  /\ IInv' /\ Stable
         /\ Unlinks(frame[t].node, frame[t].preds[frame[t].at],
                    next[frame[t].node][frame[t].at], frame[t].at)
         /\ \A u \in Threads : frame[u].find = "insert" =>
              frame[u].node # frame[t].node
<1>1. PICK f \in Frames : f = frame[t]
  BY DEF IInv, Types
<1>2. PICK n \in Node_V1, a \in Levels, p \in Node_V1 :
        n = f.node /\ a = f.at /\ p = f.preds[a]
  BY DEF Frames
<1>3. /\ pc[t] = "unlink" /\ FrameOK(t, "unlink", f)
      /\ next' = [next EXCEPT ![p][a] = next[n][a]]
      /\ linked' = IF a = 0 THEN linked \ {n} ELSE linked
      /\ range' = range /\ topLevel' = topLevel
      /\ marked' = marked /\ fullyLinked' = fullyLinked
      /\ mutex' = mutex /\ elementsCount' = elementsCount
      /\ calls' = calls /\ owned' = owned /\ contended' = contended
  BY <1>1, <1>2 DEF Unlink, IInv
<1>4. /\ f.find = "exact" /\ f.isMarked /\ f.want \in Requests
      /\ a <= f.top /\ \A l \in Levels : Noted(f, l)
      /\ \A l \in Levels : l <= a => Secured(t, f, l)
  BY <1>2, <1>3 DEF FrameOK, ExactLabels
<1>5. /\ n \in NewNodes /\ marked[n] /\ range[n] = f.want
      /\ f.top = topLevel[n] /\ n \in linked
  BY <1>2, <1>3, <1>4 DEF FrameOK, Removes
<1>6. /\ mutex[p] = t /\ ~marked[p] /\ next[p][a] = n
      /\ HasLevel(p, a) /\ p # tail
  <2>1. Secured(t, f, a) /\ Noted(f, a)
    BY <1>4 DEF Levels
  <2> QED BY <1>2, <1>4, <2>1 DEF Secured, Noted
<1>7. p \in Level(a)
  BY <1>6, UnmarkedInLevel
<1>8. PICK c : c = next[n][a]
  OBVIOUS
<1>9. n \in Level(a) /\ n # tail /\ n # head /\ c \in Node_V1
  <2>1. n \in Level(a) /\ n # tail /\ n # head
    BY <1>5, <1>6, <1>7, InLevel, V1Assumption DEF IInv
  <2> QED BY <1>8, <2>1, InLevel DEF IInv
<1>10. 0 \in Levels /\ (a = 0 \/ a > 0)
  BY V1Assumption DEF Levels
<1>11. PICK q \in Labels, g \in Frames :
         /\ Go(t, q, g)
         /\ \/ q = "unlink" /\ a > 0 /\ g = [f EXCEPT !.at = a - 1]
            \/ q = "uncount" /\ a = 0 /\ g = f
  <2>1. CASE f.at > 0 /\ Go(t, "unlink", [f EXCEPT !.at = f.at - 1])
    <3>1. a - 1 \in Levels
      BY <1>2, <2>1, V1Assumption DEF Levels
    <3>2. [f EXCEPT !.at = a - 1] \in Frames
      BY <3>1 DEF Frames
    <3> QED BY <1>2, <2>1, <3>2 DEF Labels
  <2>2. CASE ~(f.at > 0) /\ Go(t, "uncount", f)
    BY <1>2, <1>10, <2>2 DEF Labels
  <2> QED BY <1>1, <2>1, <2>2 DEF Unlink
<1>12. /\ g.find = f.find /\ g.want = f.want /\ g.top = f.top
       /\ g.node = f.node /\ g.isMarked = f.isMarked /\ g.found = f.found
       /\ g.preds = f.preds /\ g.succs = f.succs
       /\ q = "unlink" => g.at = a - 1
  BY <1>11 DEF Frames
<1>13. /\ pc'[t] = q /\ frame'[t] = g /\ q # "find"
       /\ pc' \in [Threads -> Labels] /\ frame' \in [Threads -> Frames]
       /\ \A u \in Threads \ {t} : pc'[u] = pc[u] /\ frame'[u] = frame[u]
  BY <1>11, GoFacts DEF IInv
<1>14. \A m \in Node_V1, l \in Levels :
         next'[m][l] = IF l = a /\ m = p THEN c ELSE next[m][l]
  BY <1>3, <1>8 DEF IInv, Types
<1>15. \A m \in Node_V1, l \in Levels : HasLevel(m, l)' <=> HasLevel(m, l)
  <2>1. c # Null
    BY <1>9, V1Assumption
  <2> QED BY <1>6, <1>14, <2>1 DEF HasLevel
<1>16. ASSUME NEW m \in Node_V1, NEW l \in Levels, m # n
       PROVE  TakenOff(m, l)' <=> TakenOff(m, l)
  <2>1. frame[t].node = n /\ frame'[t].node = n
    BY <1>1, <1>2, <1>12, <1>13
  <2> QED BY <1>13, <1>16, <2>1 DEF TakenOff
<1>17. ASSUME NEW l \in Levels
       PROVE  /\ TakenOff(n, l) <=> a < l
              /\ n \in linked' => (TakenOff(n, l)' <=> a - 1 < l)
  <2>1. \A u \in Threads \ {t} : ~(pc[u] = "unlink" /\ frame[u].node = n)
    <3> SUFFICES ASSUME NEW u \in Threads \ {t}, pc[u] = "unlink",
                        frame[u].node = n
                 PROVE  FALSE
      OBVIOUS
    <3>1. frame[u].isMarked /\ frame[t].isMarked
      BY <1>1, <1>4 DEF IInv, FrameOK, ExactLabels
    <3> QED BY <1>1, <1>2, <3>1 DEF IInv, Distinct
  <2>2. TakenOff(n, l) <=> a < l
    BY <1>1, <1>2, <1>3, <2>1 DEF TakenOff
  <2>3. ASSUME n \in linked' PROVE TakenOff(n, l)' <=> a - 1 < l
    <3>1. q = "unlink" /\ g.at = a - 1 /\ g.node = n
      BY <1>2, <1>3, <1>11, <1>12, <2>3
    <3>2. \A u \in Threads \ {t} : ~(pc'[u] = "unlink" /\ frame'[u].node = n)
      BY <1>13, <2>1
    <3> QED BY <1>13, <3>1, <3>2 DEF TakenOff
  <2> QED BY <2>2, <2>3
<1>18. linked' \subseteq linked /\ linked \ {n} \subseteq linked'
       /\ linked \subseteq Node_V1
  BY <1>3 DEF IInv, Types
<1>19. ASSUME NEW l \in Levels, l # a PROVE Level(l)' = Level(l)
  <2>1. \A m \in Node_V1 \ {n} : m \in Level(l)' <=> m \in Level(l)
    BY <1>15, <1>16, <1>18 DEF Level
  <2>2. n \in Level(l)' <=> n \in Level(l)
    <3>1. a \in Int /\ l \in Int
      BY DEF Levels
    <3>2. CASE a = 0
      <4>1. a < l
        BY <1>19, <3>2 DEF Levels
      <4> QED BY <1>3, <1>17, <3>2, <4>1 DEF Level
    <3>3. CASE a # 0
      <4>1. n \in linked' /\ n \in linked
        BY <1>3, <1>5, <3>3
      <4>2. a < l <=> a - 1 < l
        BY <1>19, <3>1
      <4> QED BY <1>15, <1>17, <4>1, <4>2 DEF Level
    <3> QED BY <3>2, <3>3
  <2>3. Level(l) \subseteq Node_V1 /\ Level(l)' \subseteq Node_V1
    BY <1>18 DEF Level
  <2> QED BY <2>1, <2>2, <2>3
<1>20. Level(a)' = Level(a) \ {n}
  <2>1. \A m \in Node_V1 \ {n} : m \in Level(a)' <=> m \in Level(a)
    BY <1>15, <1>16, <1>18 DEF Level
  <2>2. n \notin Level(a)'
    <3>1. a - 1 < a
      BY DEF Levels
    <3> QED BY <1>17, <3>1 DEF Level
  <2>3. Level(a) \subseteq Node_V1 /\ Level(a)' \subseteq Node_V1
    BY <1>18 DEF Level
  <2> QED BY <2>1, <2>2, <2>3
<1>21. Unlinks(n, p, c, a)
  BY <1>3, <1>5, <1>6, <1>7, <1>8, <1>14, <1>18, <1>19, <1>20 DEF Unlinks
<1>22. ListInv'
  BY <1>21, UnlinksList
<1>23. Types'
  <2>1. next' \in [Node_V1 -> [Levels -> Node_V1 \cup {Null}]]
    <3>1. next \in [Node_V1 -> [Levels -> Node_V1 \cup {Null}]]
      BY DEF IInv, Types
    <3> QED BY <1>3, <3>1
  <2>2. linked' \in SUBSET Node_V1
    BY <1>18
  <2> QED BY <1>3, <1>13, <2>1, <2>2 DEF IInv, Types
<1>24. Stable
  <2>1. \A m \in Node_V1 : marked[m] => marked'[m] /\ next'[m] = next[m]
    BY <1>3, <1>6 DEF IInv, Types
  <2>2. calls <= calls' /\ calls' \in Nat
    BY <1>3 DEF IInv, Types
  <2> QED BY <1>3, <1>15, <2>1, <2>2 DEF Stable
<1>25. ASSUME NEW u \in Threads, frame[u].find = "insert"
      PROVE  frame[u].node # n
  <2> SUFFICES ASSUME frame[u].node = n PROVE FALSE
    OBVIOUS
  <2>1. PICK h \in Frames, b \in Labels : h = frame[u] /\ b = pc[u]
    BY DEF IInv, Types
  <2>2. Placed(b, h) /\ Inserts(u, b, h) /\ h.node = n
    <3>1. FrameOK(u, pc[u], frame[u])
      BY DEF IInv
    <3> QED BY <1>25, <1>5, <2>1, <3>1, InsertPhases DEF FrameOK
  <2>3. Joined(u, h, 0)
    <3>1. h.find = "insert" /\ h.top \in Heights
      BY <1>25, <2>1, <2>2 DEF Inserts
    <3>2. 0 <= h.top /\ (b = "link" => 0 < h.at)
      BY <2>2, <3>1 DEF Placed, Heights
    <3> QED BY <1>10, <2>2, <3>2 DEF Inserts
  <2>4. PICK x \in Node_V1 : x = h.preds[0]
    BY <1>10 DEF Frames
  <2>5. mutex[x] = u /\ ~marked[x] /\ next[x][0] = n
    BY <2>2, <2>3, <2>4 DEF Joined
  <2>6. PICK y \in Node_V1 : y = f.preds[0]
    BY <1>10 DEF Frames
  <2>7. mutex[y] = t /\ ~marked[y] /\ next[y][0] = n
    <3>1. Secured(t, f, 0)
      BY <1>4, <1>10 DEF Levels
    <3> QED BY <1>2, <1>4, <2>6, <3>1 DEF Secured
  <2>8. n # Null /\ \A z \in Node_V1 : next[z][0] = n => HasLevel(z, 0)
                                                      /\ z # tail
    <3>1. n # Null /\ next[tail][0] = Null
      BY <1>10, V1Assumption DEF IInv, ListInv, Ends
    <3> QED BY <3>1 DEF HasLevel
  <2>9. x \in Level(0) \ {tail} /\ y \in Level(0) \ {tail}
    BY <1>10, <2>5, <2>7, <2>8, UnmarkedInLevel
  <2>10. x = y
    BY <1>10, <2>5, <2>7, <2>9, OnePredecessor
  <2>11. u # t
    BY <1>25, <1>1, <1>4
  <2> QED BY <2>5, <2>7, <2>10, <2>11
<1>26. ASSUME NEW u \in Threads \ {t} PROVE Leaves(u)
  <2>1. FrameOK(u, pc[u], frame[u]) /\ frame[u].node \in Node_V1
    BY DEF IInv, Types, Frames
  <2>2. \A m \in Node_V1 : mutex[m] = u =>
          /\ mutex'[m] = u /\ (marked'[m] => marked[m])
          /\ \A l \in Levels : next[m][l] # Null => next'[m][l] = next[m][l]
    <3>1. \A m \in Node_V1 : mutex[m] = u => m # p
      BY <1>6
    <3> QED BY <1>3, <1>14, <3>1
  <2>3. \A m \in Node_V1, l \in Levels : next'[m][l] = Null
                                         <=> next[m][l] = Null
    <3>1. c # Null /\ next[p][a] # Null
      BY <1>6, <1>9, V1Assumption
    <3> QED BY <1>14, <3>1
  <2>4. frame[u].find = "insert" => frame[u].node # n
    BY <1>25
  <2>5. frame[u].isMarked =>
          (frame[u].node \in linked' <=> frame[u].node \in linked)
    <3>1. frame[u].isMarked => frame[u].node # n
      BY <1>1, <1>2, <1>4 DEF IInv, Distinct
    <3> QED BY <1>18, <3>1
  <2> QED BY <1>18, <2>1, <2>2, <2>3, <2>4, <2>5 DEF Leaves
<1>27. FrameOK(t, q, g)'
  <2>1. \A l \in Levels : Noted(g, l)'
    <3>1. \A l \in Levels : Noted(g, l)
      BY <1>4, <1>12 DEF Noted
    <3> QED BY <1>24, <3>1, StableNoted
  <2>2. q = "unlink" => \A l \in Levels : l <= g.at => Secured(t, g, l)'
    <3>1. \A l \in Levels : q = "unlink" /\ l <= g.at => l <= a /\ l # a
      BY <1>12 DEF Levels
    <3>2. ASSUME NEW l \in Levels, l # a, Secured(t, f, l)
          PROVE  Secured(t, g, l)'
      <4>1. next'[f.preds[l]][l] = next[f.preds[l]][l]
        BY <1>14, <3>2 DEF Frames
      <4> QED BY <1>3, <1>12, <3>2, <4>1 DEF Secured
    <3> QED BY <1>4, <3>1, <3>2
  <2>3. Inserts(t, q, g)'
    BY <1>4, <1>11, <1>12 DEF Inserts, Placing, Placed
  <2>4. g.node \in linked' <=> q = "unlink"
    BY <1>2, <1>3, <1>5, <1>10, <1>11, <1>12
  <2>5. Removes(t, q, g)'
    BY <1>2, <1>3, <1>4, <1>5, <1>11, <1>12, <2>4 DEF Removes
  <2>6. q = "unlink" => g.at <= g.top
    BY <1>4, <1>12 DEF Levels, Frames
  <2> QED BY <1>4, <1>11, <1>12, <2>1, <2>2, <2>3, <2>5, <2>6
          DEF FrameOK, InsertLabels, ExactLabels
<1>28. Distinct' /\ \A u \in Threads : FrameOK(u, pc[u], frame[u])'
  <2>1. g.find # "insert"
    BY <1>4, <1>12
  <2>2. frame[t].isMarked /\ g.node = frame[t].node
    BY <1>1, <1>4, <1>12
  <2> QED BY <1>11, <1>23, <1>24, <1>26, <1>27, <2>1, <2>2, StepFrames
<1>29. ASSUME NEW u \in Threads, pc'[u] = "find", frame'[u].isMarked
       PROVE  Seeks(frame[u], frame[u].node)'
  <2>1. u # t /\ pc[u] = "find" /\ frame'[u] = frame[u]
    BY <1>13, <1>29
  <2>2. PICK h \in Frames : h = frame[u]
    BY DEF IInv, Types
  <2>3. h.isMarked /\ Seeks(h, h.node)
    BY <1>29, <2>1, <2>2 DEF IInv
  <2>4. /\ h.node \in NewNodes
        /\ \A l \in Levels : l <= topLevel[h.node] => h.node \in Level(l)
    BY <2>1, <2>2, <2>3, VictimInLevels
  <2>5. h.node # n
    BY <1>1, <1>2, <1>4, <2>1, <2>2, <2>3 DEF IInv, Distinct
  <2>6. Seeks(h, h.node)'
    BY <1>21, <2>3, <2>4, <2>5, UnlinksSeeks
  <2> QED BY <2>1, <2>2, <2>6
<1>30. IInv'
  BY <1>22, <1>23, <1>28, <1>29 DEF IInv
<1> QED BY <1>1, <1>2, <1>8, <1>21, <1>24, <1>25, <1>30

-----------------------------------------------------------------------------
(***************************************************************************)
(* The empty list, and every step.                                         *)
(***************************************************************************)
LEMMA InitInv ==
  ASSUME ProperRanges PROVE Init => IInv
<1> SUFFICES ASSUME Init PROVE IInv
  OBVIOUS
<1>0. /\ head \in Node_V1 /\ tail \in Node_V1 /\ 0 \in Levels
      /\ MaxLevel \in Levels /\ head # tail /\ tail # Null /\ Null # head
      /\ \A n \in NewNodes : n # head /\ n # tail /\ n \in Node_V1
  BY V1Assumption DEF Node_V1, Levels
<1>1. Types
  <2>1. /\ [start |-> Max, end |-> Max] \in RangesOver(Int)
        /\ [start |-> Min, end |-> Min] \in RangesOver(Int)
    BY V1Assumption DEF RangesOver
  <2>2. next \in [Node_V1 -> [Levels -> Node_V1 \cup {Null}]]
    BY <1>0 DEF Init
  <2>3. range \in [Node_V1 -> RangesOver(Int)]
    BY <2>1 DEF Init
  <2>4. topLevel \in [Node_V1 -> Levels]
    BY <1>0 DEF Init
  <2>5. pc \in [Threads -> Labels] /\ frame \in [Threads -> Frames]
    BY RestType DEF Init, Labels
  <2>6. calls \in 0 .. MaxCalls
    BY V1Assumption DEF Init
  <2> QED BY <1>0, <2>2, <2>3, <2>4, <2>5, <2>6 DEF Init, Types
<1>2. \A n \in Node_V1, l \in Levels :
        next[n][l] = IF n = head THEN tail ELSE Null
  BY DEF Init
<1>3. \A n, l : l \in Levels => (HasLevel(n, l) <=> n \in {head, tail})
  BY <1>0, <1>2 DEF HasLevel
<1>4. /\ range[head] = [start |-> Min, end |-> Min]
      /\ range[tail] = [start |-> Max, end |-> Max]
      /\ topLevel[head] = MaxLevel /\ ~marked[head] /\ ~marked[tail]
      /\ \A n \in NewNodes : ~marked[n]
      /\ linked = {head, tail}
  BY <1>0 DEF Init
<1>5. /\ Before(head, tail) /\ ~Before(tail, head) /\ End(head) <= Start(tail)
      /\ ~Before(head, head) /\ ~Before(tail, tail)
  BY <1>0, <1>4, V1Assumption DEF Before, Start, End
<1>6. ASSUME NEW l \in Levels PROVE Level(l) = {head, tail}
  <2>1. \A n : ~TakenOff(n, l)
    BY DEF TakenOff, Init
  <2> QED BY <1>3, <1>4, <2>1 DEF Level
<1>7. Pointers
  <2> SUFFICES ASSUME NEW n \in Node_V1, NEW l \in Levels, next[n][l] # Null
               PROVE  /\ HasLevel(next[n][l], l) /\ next[n][l] # head
                      /\ End(n) <= Start(next[n][l])
                      /\ l <= topLevel[n]
                      /\ \A k \in Levels : k <= l => next[n][k] # Null
    BY DEF Pointers
  <2>1. n = head /\ next[n][l] = tail
    BY <1>2
  <2>2. l <= MaxLevel
    BY V1Assumption DEF Levels
  <2> QED BY <1>0, <1>2, <1>3, <1>4, <1>5, <2>1, <2>2
<1>8. Ends
  BY <1>0, <1>2, <1>4 DEF Ends
<1>9. Nodes
  BY <1>0, <1>3, <1>4 DEF Nodes, Published
<1>10. Disjoint
  BY <1>4, <1>5 DEF Disjoint
<1>11. ASSUME NEW l \in Levels PROVE Chain(l)
  <2>1. Level(l) = {head, tail} /\ next[head][l] = tail
    BY <1>0, <1>2, <1>6
  <2> QED BY <1>0, <1>5, <2>1 DEF Chain
<1>12. ASSUME NEW t \in Threads
       PROVE  /\ FrameOK(t, pc[t], frame[t])
              /\ pc[t] # "find" /\ frame[t].find = "none"
              /\ frame[t].isMarked = FALSE
  <2>1. pc[t] = "idle" /\ frame[t] = Rest
    BY DEF Init
  <2>2. FrameOK(t, pc[t], frame[t])
    BY <2>1, RestOK
  <2>3. Rest.find = "none" /\ Rest.isMarked = FALSE
    BY DEF Rest
  <2> QED BY <2>1, <2>2, <2>3
<1>13. Distinct
  BY <1>12 DEF Distinct
<1> QED BY <1>1, <1>7, <1>8, <1>9, <1>10, <1>11, <1>12, <1>13
        DEF IInv, ListInv

(***************************************************************************)
(* Every step keeps the inductive invariant.                               *)
(***************************************************************************)
LEMMA NextInv == IInv /\ [Next]_vars => IInv'
<1> SUFFICES ASSUME IInv, [Next]_vars PROVE IInv'
  OBVIOUS
<1>1. CASE UNCHANGED vars
  <2>1. /\ next' = next /\ marked' = marked /\ fullyLinked' = fullyLinked
        /\ range' = range /\ topLevel' = topLevel /\ mutex' = mutex
        /\ elementsCount' = elementsCount /\ pc' = pc /\ frame' = frame
        /\ calls' = calls /\ owned' = owned /\ linked' = linked
        /\ contended' = contended
    BY <1>1 DEF vars
  <2>2. /\ \A n, l : HasLevel(n, l)' <=> HasLevel(n, l)
        /\ \A m, n : Before(m, n)' <=> Before(m, n)
        /\ \A n : Published(n)' <=> Published(n)
    BY <2>1 DEF HasLevel, Published, Before, Start, End
  <2>3. \A l : Level(l)' = Level(l)
    BY <2>1, <2>2 DEF Level, TakenOff
  <2>4. Types'
    BY <2>1 DEF IInv, Types
  <2>5. Distinct'
    BY <2>1 DEF IInv, Distinct
  <2>6. Stable /\ \A u \in Threads : Leaves(u)
    BY <2>1 DEF Stable, Leaves, IInv, Types, HasLevel
  <2>7. ListInv'
    <3>1. /\ ~marked'[head] /\ ~marked'[tail]
          /\ \A n \in NewNodes : marked'[n] =>
               \A l \in Levels : l <= topLevel[n] => HasLevel(n, l)
      BY <2>1 DEF IInv, ListInv, Ends, Nodes
    <3>2. calls <= calls' /\ calls' \in Nat
      BY <2>1 DEF IInv, Types
    <3> QED BY <2>1, <2>3, <3>1, <3>2, SameList
  <2>8. ASSUME NEW u \in Threads
        PROVE  /\ FrameOK(u, pc[u], frame[u])'
               /\ pc'[u] = "find" /\ frame'[u].isMarked
                    => Seeks(frame[u], frame[u].node)'
    <3>1. PICK p \in Labels, f \in Frames : p = pc[u] /\ f = frame[u]
      BY DEF IInv, Types
    <3>2. FrameOK(u, p, f)'
      BY <2>6, <3>1, StableFrame
    <3>3. ASSUME p = "find", f.isMarked PROVE Seeks(f, f.node)'
      <4>1. Seeks(f, f.node)
        BY <3>1, <3>3 DEF IInv
      <4>2. Stays(f.node)
        BY <2>1, <2>3, <3>1, <3>3, VictimInLevels DEF Stays
      <4> QED BY <2>1, <2>3, <4>1, <4>2, QuietSeeks
    <3> QED BY <2>1, <3>1, <3>2, <3>3
  <2> QED BY <2>4, <2>5, <2>7, <2>8 DEF IInv
<1>2. CASE Next
  <2>1. PICK t \in Threads :
          \/ \E r \in Requests, height \in Heights : TryLock(t, r, height)
          \/ \E r \in Requests : ReleaseLock(t, r)
          \/ Step(t)
    BY <1>2 DEF Next
  <2>2. ASSUME NEW r \in Requests, NEW height \in Heights,
               TryLock(t, r, height)
        PROVE  IInv'
    BY <2>2, TryLockStep
  <2>3. ASSUME NEW r \in Requests, ReleaseLock(t, r) PROVE IInv'
    BY <2>3, ReleaseLockStep
  <2>4. CASE Step(t)
    BY <2>4, ReadNextStep, SeenStep, ReturnFalseStep, LockPredStep,
       ValidateStep, LinkStep, CountStep, ReturnStep, CheckVictimStep,
       LockVictimStep, MarkStep, UnlinkStep DEF Step
  <2> QED BY <2>1, <2>2, <2>3, <2>4
<1> QED BY <1>1, <1>2

(***************************************************************************)
(* The inductive invariant holds in every reachable state of src/src/v1,   *)
(* if every range holds more than one key.                                 *)
(***************************************************************************)
THEOREM Invariance ==
  ASSUME ProperRanges PROVE Spec => []IInv
  BY InitInv, NextInv, PTL DEF Spec

(***************************************************************************)
(* Level 0 of the list is an ordered chain.                                *)
(***************************************************************************)
LEMMA ChainOfLevel0 == IInv => OrderedChain
<1> SUFFICES ASSUME IInv PROVE OrderedChain
  OBVIOUS
<1>1. 0 \in Levels
  BY V1Assumption DEF Levels
<1>2. linked \subseteq Level(0)
  <2> SUFFICES ASSUME NEW n \in linked PROVE n \in Level(0)
    OBVIOUS
  <2>1. n \in Node_V1
    BY DEF IInv, Types
  <2>2. CASE n \in {head, tail}
    BY <1>1, <2>2 DEF IInv, ListInv, Chain
  <2>3. CASE n \in NewNodes
    <3>1. HasLevel(n, 0)
      BY <2>3 DEF IInv, ListInv, Nodes, Published
    <3>2. ~TakenOff(n, 0)
      BY DEF TakenOff, IInv, Types, Frames, Levels
    <3> QED BY <3>1, <3>2 DEF Level
  <2> QED BY <2>1, <2>2, <2>3 DEF Node_V1
<1>3. {head, tail} \subseteq linked
  BY <1>1 DEF IInv, ListInv, Chain, Level
<1>4. ASSUME NEW p \in linked \ {tail}
      PROVE  /\ next[p][0] \in linked
             /\ End(p) <= Start(next[p][0])
             /\ \A q \in linked :
                  Start(q) <= Start(p) \/ Start(next[p][0]) <= Start(q)
  <2>1. p \in Level(0) \ {tail}
    BY <1>2
  <2>2. /\ next[p][0] \in Level(0) /\ Before(p, next[p][0])
        /\ Published(p)
    BY <1>1, <2>1, InLevel DEF IInv
  <2>3. next[p][0] \in linked /\ Published(next[p][0])
    BY <1>1, <2>2, InLevel DEF IInv
  <2>4. ASSUME NEW q \in linked
        PROVE  Start(q) <= Start(p) \/ Start(next[p][0]) <= Start(q)
    <3>1. q \in Level(0)
      BY <1>2
    <3>2. Published(q)
      BY <1>1, <3>1, InLevel DEF IInv
    <3>3. \/ q = p \/ Before(q, p)
          \/ q = next[p][0] \/ Before(next[p][0], q)
      BY <1>1, <2>1, <3>1, Gap
    <3>4. /\ Start(q) \in Int /\ End(q) \in Int /\ Start(q) <= End(q)
          /\ Start(p) \in Int /\ Start(next[p][0]) \in Int
          /\ End(next[p][0]) \in Int
          /\ Start(next[p][0]) <= End(next[p][0])
      BY <2>2, <2>3, <3>2, PublishedFacts DEF IInv
    <3> QED BY <3>3, <3>4 DEF Before
  <2> QED BY <2>2, <2>3, <2>4 DEF Before
<1> QED BY <1>3, <1>4 DEF OrderedChain

(***************************************************************************)
(* Whatever clients release and whatever ranges of more than one key they  *)
(* lock, the list of level 0 is an ordered chain from head to tail: the    *)
(* range of a node is never below the end of the one before it, and no     *)
(* node lies between two neighbours.                                       *)
(***************************************************************************)
THEOREM ChainOrdered ==
  ASSUME ProperRanges PROVE Spec => []OrderedChain
  BY Invariance, ChainOfLevel0, PTL

(***************************************************************************)
(* Only Link and Unlink write pointers, and not those of a marked node.    *)
(***************************************************************************)
LEMMA StepFrozen ==
  IInv /\ [Next]_vars => \A n \in Node_V1 : marked[n] => next'[n] = next[n]
<1> SUFFICES ASSUME IInv, [Next]_vars, NEW n \in Node_V1, marked[n]
             PROVE  next'[n] = next[n]
  OBVIOUS
<1>1. CASE next' = next
  BY <1>1
<1>2. ASSUME NEW t \in Threads, Link(t) \/ Unlink(t)
      PROVE  next'[n] = next[n]
  BY <1>2, LinkStep, UnlinkStep DEF Stable
<1>3. ASSUME NEW t \in Threads, Step(t) \/ \E r \in Requests :
               ReleaseLock(t, r) \/ \E height \in Heights : TryLock(t, r, height)
      PROVE  next' = next \/ Link(t) \/ Unlink(t)
  <2>1. CASE ReadNext(t) \/ Seen(t) \/ ReturnFalse(t) \/ LockPred(t)
    BY <2>1 DEF ReadNext, Seen, ReturnFalse, LockPred, nodeVars
  <2>2. CASE Validate(t) \/ SetFullyLinked(t) \/ CountUp(t) \/ Return(t)
    BY <2>2 DEF Validate, SetFullyLinked, CountUp, Return, nodeVars
  <2>3. CASE CheckVictim(t) \/ LockVictim(t) \/ Mark(t) \/ CountDown(t)
    BY <2>3 DEF CheckVictim, LockVictim, Mark, CountDown, nodeVars
  <2>4. CASE \E r \in Requests :
               ReleaseLock(t, r) \/ \E height \in Heights : TryLock(t, r, height)
    BY <2>4 DEF ReleaseLock, TryLock, nodeVars
  <2> QED BY <1>3, <2>1, <2>2, <2>3, <2>4 DEF Step
<1>4. CASE UNCHANGED vars
  BY <1>1, <1>4 DEF vars
<1> QED BY <1>1, <1>2, <1>3, <1>4 DEF Next

(***************************************************************************)
(* The successors of a marked node never change, so that a release may     *)
(* copy them without the mutex of its victim.                              *)
(***************************************************************************)
THEOREM MarkedFrozen ==
  ASSUME ProperRanges PROVE Spec => MarkedNodesFrozen
<1>1. IInv /\ [Next]_vars
        => [\A n \in Node_V1 : marked[n] => next'[n] = next[n]]_vars
  BY StepFrozen
<1>2. Spec => []IInv
  BY Invariance
<1> QED BY <1>1, <1>2, PTL DEF Spec, MarkedNodesFrozen

-----------------------------------------------------------------------------
(***************************************************************************)
(* The nodes that elementsCount counts: those in the list but for the ones *)
(* whose tryLock has yet to count them, and those whose releaseLock has    *)
(* yet to count them off.                                                  *)
(***************************************************************************)
Adding == {"link", "full", "count"}

Counted ==
  {n \in Locked : \A t \in Threads : pc[t] \in Adding => frame[t].node # n}
    \cup {n \in NewNodes : \E t \in Threads :
                             pc[t] = "uncount" /\ frame[t].node = n}

CountInv == elementsCount = Cardinality(Counted)

(***************************************************************************)
(* Steps after which the same nodes are to be counted.                     *)
(***************************************************************************)
LEMMA SameCounted ==
  ASSUME NEW t \in Threads, linked' = linked,
         \A u \in Threads \ {t} : pc'[u] = pc[u] /\ frame'[u] = frame[u],
         pc[t] # "uncount", pc'[t] # "uncount",
         pc[t] \in Adding => /\ pc'[t] \in Adding
                             /\ frame'[t].node = frame[t].node,
         pc'[t] \in Adding => \/ /\ pc[t] \in Adding
                                 /\ frame'[t].node = frame[t].node
                              \/ frame'[t].node \notin linked
  PROVE  Counted' = Counted
<1>1. Locked' = Locked
  BY DEF Locked
<1>2. ASSUME NEW n \in Locked
      PROVE  (\A u \in Threads : pc'[u] \in Adding => frame'[u].node # n)
             <=> (\A u \in Threads : pc[u] \in Adding => frame[u].node # n)
  BY DEF Locked
<1>3. ASSUME NEW n \in NewNodes
      PROVE  (\E u \in Threads : pc'[u] = "uncount" /\ frame'[u].node = n)
             <=> (\E u \in Threads : pc[u] = "uncount" /\ frame[u].node = n)
  OBVIOUS
<1> QED BY <1>1, <1>2, <1>3 DEF Counted

(***************************************************************************)
(* There are finitely many nodes.                                          *)
(***************************************************************************)
LEMMA CountedFinite ==
  ASSUME IInv
  PROVE  IsFiniteSet(Counted) /\ Cardinality(Counted) \in Nat
<1>1. Counted \subseteq NewNodes
  BY DEF Counted, Locked, IInv, Types, Node_V1
<1>2. IsFiniteSet(NewNodes)
  BY FS_Interval, V1Assumption DEF NewNodes
<1>3. IsFiniteSet(Counted)
  BY <1>1, <1>2, FS_Subset
<1> QED BY <1>3, FS_CardinalityType

(***************************************************************************)
(* Linking a node leaves it to the increment to come.                      *)
(***************************************************************************)
LEMMA LinkCounted ==
  ASSUME IInv, NEW t \in Threads, Link(t)
  PROVE  Counted' = Counted
<1>1. PICK f \in Frames : f = frame[t]
  BY DEF IInv, Types
<1>2. PICK n : n = f.node
  OBVIOUS
<1>3. PICK q \in {"link", "full"}, g \in Frames : Go(t, q, g) /\ g.node = n
  <2>1. CASE f.at < f.top /\ Go(t, "link", [f EXCEPT !.at = f.at + 1])
    <3>1. f.at \in Levels /\ f.top \in Levels
      BY DEF Frames
    <3>2. f.at + 1 \in Levels
      BY <2>1, <3>1, V1Assumption DEF Levels
    <3>3. [f EXCEPT !.at = f.at + 1] \in Frames
      BY <3>2 DEF Frames
    <3>4. [f EXCEPT !.at = f.at + 1].node = n
      BY <1>2 DEF Frames
    <3> QED BY <2>1, <3>3, <3>4
  <2>2. CASE Go(t, "full", f)
    BY <1>2, <2>2
  <2> QED BY <1>1, <2>1, <2>2 DEF Link
<1>4. /\ pc[t] = "link" /\ linked' = linked \cup {n}
  BY <1>1, <1>2 DEF Link
<1>5. /\ pc'[t] = q /\ frame'[t] = g
      /\ \A u \in Threads \ {t} : pc'[u] = pc[u] /\ frame'[u] = frame[u]
  BY <1>3, GoFacts DEF IInv, Labels
<1>6. ASSUME NEW m, m # n
      PROVE  /\ m \in Locked' <=> m \in Locked
             /\ (\A u \in Threads : pc'[u] \in Adding => frame'[u].node # m)
                <=> (\A u \in Threads : pc[u] \in Adding => frame[u].node # m)
  <2>1. m \in Locked' <=> m \in Locked
    BY <1>4, <1>6 DEF Locked
  <2>2. frame[t].node # m /\ frame'[t].node # m
    BY <1>1, <1>2, <1>3, <1>5, <1>6
  <2> QED BY <1>5, <2>1, <2>2
<1>7. /\ pc[t] \in Adding /\ frame[t].node = n
      /\ pc'[t] \in Adding /\ frame'[t].node = n
  BY <1>1, <1>2, <1>3, <1>4, <1>5 DEF Adding
<1>8. \A m : m \in {k \in Locked : \A u \in Threads :
                      pc[u] \in Adding => frame[u].node # k}
             <=> m \in {k \in Locked : \A u \in Threads :
                          pc[u] \in Adding => frame[u].node # k}'
  BY <1>6, <1>7
<1>9. \A m : (\E u \in Threads : pc'[u] = "uncount" /\ frame'[u].node = m)
             <=> (\E u \in Threads : pc[u] = "uncount" /\ frame[u].node = m)
  BY <1>3, <1>4, <1>5
<1> QED BY <1>8, <1>9 DEF Counted

(***************************************************************************)
(* Unlinking a node hands it to the pending decrement.                     *)
(***************************************************************************)
LEMMA UnlinkCounted ==
  ASSUME IInv, NEW t \in Threads, Unlink(t)
  PROVE  Counted' = Counted
<1>1. PICK f \in Frames : f = frame[t]
  BY DEF IInv, Types
<1>2. f.at \in Levels /\ pc[t] = "unlink" /\ FrameOK(t, "unlink", f)
  BY <1>1 DEF Unlink, IInv, Frames
<1>3. CASE f.at > 0
  <2>1. linked' = linked /\ Go(t, "unlink", [f EXCEPT !.at = f.at - 1])
    BY <1>1, <1>3 DEF Unlink
  <2>2. f.at - 1 \in Levels
    BY <1>2, <1>3, V1Assumption DEF Levels
  <2>3. [f EXCEPT !.at = f.at - 1] \in Frames
    BY <2>2 DEF Frames
  <2>4. /\ pc'[t] = "unlink"
        /\ \A u \in Threads \ {t} : pc'[u] = pc[u] /\ frame'[u] = frame[u]
    BY <2>1, <2>3, GoFacts DEF IInv, Labels
  <2> QED BY <1>2, <2>1, <2>4, SameCounted DEF Adding
<1>4. CASE ~(f.at > 0)
  <2>1. PICK n : n = f.node
    OBVIOUS
  <2>2. linked' = linked \ {n} /\ Go(t, "uncount", f)
    <3>1. f.at = 0
      BY <1>2, <1>4 DEF Levels
    <3> QED BY <1>1, <1>4, <2>1, <3>1 DEF Unlink
  <2>3. n \in NewNodes /\ n \in linked /\ n # head /\ n # tail
    BY <1>2, <2>1, V1Assumption DEF FrameOK, ExactLabels, Removes
  <2>4. /\ pc'[t] = "uncount" /\ frame'[t] = f
        /\ \A u \in Threads \ {t} : pc'[u] = pc[u] /\ frame'[u] = frame[u]
    BY <2>2, GoFacts DEF IInv, Labels
  <2>5. \A u \in Threads : pc[u] \in Adding => frame[u].node # n
    <3>1. \A u \in Threads : pc[u] \in Adding => frame[u].find = "insert"
      BY DEF IInv, FrameOK, InsertLabels, Adding
    <3>2. \A u \in Threads : frame[u].find = "insert" => frame[u].node # n
      BY <1>1, <2>1, UnlinkStep
    <3> QED BY <3>1, <3>2
  <2>6. n \in Counted /\ n \in Counted'
    BY <2>1, <2>3, <2>4, <2>5 DEF Counted, Locked
  <2>7. ASSUME NEW m, m # n PROVE m \in Counted' <=> m \in Counted
    <3>1. m \in Locked' <=> m \in Locked
      BY <2>2, <2>7 DEF Locked
    <3>2. (\A u \in Threads : pc'[u] \in Adding => frame'[u].node # m)
            <=> (\A u \in Threads : pc[u] \in Adding => frame[u].node # m)
      BY <1>2, <2>4 DEF Adding
    <3>3. (\E u \in Threads : pc'[u] = "uncount" /\ frame'[u].node = m)
            <=> (\E u \in Threads : pc[u] = "uncount" /\ frame[u].node = m)
      BY <1>2, <2>1, <2>4, <2>7
    <3> QED BY <3>1, <3>2, <3>3 DEF Counted
  <2> QED BY <2>6, <2>7
<1> QED BY <1>3, <1>4

(***************************************************************************)
(* The increment counts one node more.                                     *)
(***************************************************************************)
LEMMA CountUpCounted ==
  ASSUME IInv, NEW t \in Threads, CountUp(t)
  PROVE  \E n : n \notin Counted /\ Counted' = Counted \cup {n}
<1>1. PICK f \in Frames : f = frame[t]
  BY DEF IInv, Types
<1>2. PICK n : n = f.node
  OBVIOUS
<1>3. /\ pc[t] = "count" /\ Go(t, "unlock", f) /\ linked' = linked
      /\ FrameOK(t, "count", f)
  BY <1>1 DEF CountUp, nodeVars, IInv
<1>4. /\ pc'[t] = "unlock" /\ frame'[t] = f
      /\ \A u \in Threads \ {t} : pc'[u] = pc[u] /\ frame'[u] = frame[u]
  BY <1>3, GoFacts DEF IInv, Labels
<1>5. /\ f.find = "insert" /\ n \in NewNodes /\ n \in linked
      /\ n # head /\ n # tail
  BY <1>2, <1>3, V1Assumption DEF FrameOK, InsertLabels, Inserts, Placed
<1>6. \A u \in Threads \ {t} : pc[u] \in Adding => frame[u].node # n
  BY <1>1, <1>2, <1>5
     DEF IInv, FrameOK, InsertLabels, Adding, Distinct
<1>7. \A u \in Threads : pc[u] = "uncount" => frame[u].node # n
  BY <1>5 DEF IInv, FrameOK, ExactLabels, Removes
<1>8. n \notin Counted
  BY <1>1, <1>2, <1>3, <1>7 DEF Counted, Adding
<1>9. n \in Counted'
  BY <1>3, <1>4, <1>5, <1>6 DEF Counted, Locked, Adding
<1>10. ASSUME NEW m, m # n PROVE m \in Counted' <=> m \in Counted
  <2>1. m \in Locked' <=> m \in Locked
    BY <1>3 DEF Locked
  <2>2. (\A u \in Threads : pc'[u] \in Adding => frame'[u].node # m)
          <=> (\A u \in Threads : pc[u] \in Adding => frame[u].node # m)
    BY <1>1, <1>2, <1>4, <1>10 DEF Adding
  <2>3. (\E u \in Threads : pc'[u] = "uncount" /\ frame'[u].node = m)
          <=> (\E u \in Threads : pc[u] = "uncount" /\ frame[u].node = m)
    BY <1>3, <1>4
  <2> QED BY <2>1, <2>2, <2>3 DEF Counted
<1> QED BY <1>8, <1>9, <1>10

(***************************************************************************)
(* The decrement counts one node less.                                     *)
(***************************************************************************)
LEMMA CountDownCounted ==
  ASSUME IInv, NEW t \in Threads, CountDown(t)
  PROVE  \E n \in Counted : Counted' = Counted \ {n}
<1>1. PICK f \in Frames : f = frame[t]
  BY DEF IInv, Types
<1>2. PICK n : n = f.node
  OBVIOUS
<1>3. /\ pc[t] = "uncount" /\ Go(t, "unlock", f) /\ linked' = linked
      /\ FrameOK(t, "uncount", f)
  BY <1>1 DEF CountDown, nodeVars, IInv
<1>4. /\ pc'[t] = "unlock" /\ frame'[t] = f
      /\ \A u \in Threads \ {t} : pc'[u] = pc[u] /\ frame'[u] = frame[u]
  BY <1>3, GoFacts DEF IInv, Labels
<1>5. f.isMarked /\ n \in NewNodes /\ n \notin linked
  BY <1>2, <1>3 DEF FrameOK, ExactLabels, Removes
<1>6. \A u \in Threads \ {t} : pc[u] = "uncount" => frame[u].node # n
  BY <1>1, <1>2, <1>5 DEF IInv, FrameOK, ExactLabels, Distinct
<1>7. n \in Counted
  BY <1>1, <1>2, <1>3, <1>5 DEF Counted
<1>8. n \notin Counted'
  BY <1>3, <1>4, <1>5, <1>6 DEF Counted, Locked
<1>9. ASSUME NEW m, m # n PROVE m \in Counted' <=> m \in Counted
  <2>1. m \in Locked' <=> m \in Locked
    BY <1>3 DEF Locked
  <2>2. (\A u \in Threads : pc'[u] \in Adding => frame'[u].node # m)
          <=> (\A u \in Threads : pc[u] \in Adding => frame[u].node # m)
    BY <1>3, <1>4 DEF Adding
  <2>3. (\E u \in Threads : pc'[u] = "uncount" /\ frame'[u].node = m)
          <=> (\E u \in Threads : pc[u] = "uncount" /\ frame[u].node = m)
    BY <1>1, <1>2, <1>3, <1>4, <1>9
  <2> QED BY <2>1, <2>2, <2>3 DEF Counted
<1> QED BY <1>7, <1>8, <1>9

(***************************************************************************)
(* Where a search goes.                                                    *)
(***************************************************************************)
LEMMA ReadNextLabels ==
  ASSUME IInv, NEW t \in Threads, ReadNext(t)
  PROVE  /\ pc'[t] \in {"find", "seen", "lock", "check", "exit"}
         /\ \A u \in Threads \ {t} : pc'[u] = pc[u] /\ frame'[u] = frame[u]
<1>1. PICK f \in Frames : f = frame[t]
  BY DEF IInv, Types
<1>2. f.find \in {"insert", "exact"}
  BY <1>1 DEF ReadNext, IInv, FrameOK, Frames
<1>3. PICK c : Reads(f, c)
  BY DEF Reads
<1>4. PICK e : Notes(f, c, e)
  BY DEF Notes
<1>5. e.find = f.find
  BY <1>4 DEF Notes, Note, Frames
<1>6. \/ \E g : Go(t, "find", g)
      \/ Finish(t, e)
  <2>1. next[f.pred][f.lvl] # Null
    BY <1>1, ReadsNode DEF ReadNext
  <2> QED BY <1>1, <1>3, <1>4, <2>1 DEF ReadNext, Reads, Notes, Note
<1>7. AfterFind(e) \in {"seen", "lock", "check", "exit"}
  BY <1>2, <1>5 DEF AfterFind
<1>8. \E q \in {"find", "seen", "lock", "check", "exit"} : \E g : Go(t, q, g)
  BY <1>6, <1>7 DEF Finish
<1> QED BY <1>8 DEF Go, IInv, Types

(***************************************************************************)
(* The counter follows the set of counted nodes.                           *)
(***************************************************************************)
LEMMA CountNext == IInv /\ CountInv /\ [Next]_vars => CountInv'
<1> SUFFICES ASSUME IInv, CountInv, [Next]_vars PROVE CountInv'
  OBVIOUS
<1>1. IsFiniteSet(Counted) /\ Cardinality(Counted) \in Nat
  BY CountedFinite
<1>2. CASE elementsCount' = elementsCount /\ Counted' = Counted
  BY <1>2 DEF CountInv
<1>3. CASE UNCHANGED vars
  <2>1. Counted' = Counted /\ elementsCount' = elementsCount
    BY <1>3 DEF Counted, Locked, vars
  <2> QED BY <1>2, <2>1
<1>4. pc \in [Threads -> Labels] /\ frame \in [Threads -> Frames]
  BY DEF IInv, Types
<1>5. ASSUME NEW t \in Threads,
             \/ \E r \in Requests, height \in Heights : TryLock(t, r, height)
             \/ \E r \in Requests : ReleaseLock(t, r)
             \/ ReadNext(t) \/ Seen(t) \/ ReturnFalse(t) \/ LockPred(t)
             \/ Return(t) \/ CheckVictim(t) \/ LockVictim(t) \/ Mark(t)
      PROVE  CountInv'
  <2>1. /\ linked' = linked /\ elementsCount' = elementsCount
        /\ pc[t] \in {"idle", "find", "seen", "refuse", "wrong", "lock",
                      "unlock", "check", "victim", "mark"}
    <3>1. CASE \/ \E r \in Requests, height \in Heights :
                    TryLock(t, r, height)
               \/ \E r \in Requests : ReleaseLock(t, r)
      BY <3>1 DEF TryLock, ReleaseLock, nodeVars
    <3>2. CASE ReadNext(t) \/ Seen(t) \/ ReturnFalse(t) \/ LockPred(t)
      BY <3>2 DEF ReadNext, Seen, ReturnFalse, LockPred, nodeVars
    <3>3. CASE Return(t) \/ CheckVictim(t) \/ LockVictim(t) \/ Mark(t)
      BY <3>3 DEF Return, CheckVictim, LockVictim, Mark, nodeVars
    <3> QED BY <1>5, <3>1, <3>2, <3>3
  <2>2. /\ pc'[t] \in {"idle", "find", "seen", "refuse", "wrong", "lock",
                       "exit", "check", "victim", "mark", "validate"}
        /\ \A u \in Threads \ {t} : pc'[u] = pc[u] /\ frame'[u] = frame[u]
    <3>1. CASE ReadNext(t)
      BY <3>1, ReadNextLabels
    <3>2. CASE ~ReadNext(t)
      <4>1. \E q \in {"idle", "find", "refuse", "wrong", "lock",
                      "victim", "mark", "validate"} : \E g : Go(t, q, g)
        <5>1. CASE \/ \E r \in Requests, height \in Heights :
                        TryLock(t, r, height)
                   \/ \E r \in Requests : ReleaseLock(t, r)
          BY <5>1 DEF TryLock, ReleaseLock
        <5>2. CASE Seen(t) \/ ReturnFalse(t) \/ LockPred(t) \/ Return(t)
          BY <5>2 DEF Seen, ReturnFalse, LockPred, Return
        <5>3. CASE CheckVictim(t) \/ LockVictim(t) \/ Mark(t)
          BY <5>3 DEF CheckVictim, LockVictim, Mark
        <5> QED BY <1>5, <3>2, <5>1, <5>2, <5>3
      <4> QED BY <1>4, <4>1 DEF Go
    <3> QED BY <3>1, <3>2
  <2>3. Counted' = Counted
    BY <2>1, <2>2, SameCounted DEF Adding
  <2> QED BY <1>2, <2>1, <2>3
<1>6. ASSUME NEW t \in Threads, Validate(t) PROVE CountInv'
  <2>1. PICK f \in Frames : f = frame[t]
    BY <1>4
  <2>2. /\ linked' = linked /\ elementsCount' = elementsCount
        /\ pc[t] = "validate"
    BY <1>6 DEF Validate, nodeVars
  <2>3. \/ \E q \in {"lock", "unlink", "find"} : \E g : Go(t, q, g)
        \/ f.find = "insert" /\ Go(t, "link", [f EXCEPT !.at = 0])
    BY <1>6, <2>1 DEF Validate
  <2>4. \A u \in Threads \ {t} : pc'[u] = pc[u] /\ frame'[u] = frame[u]
    BY <1>4, <2>3 DEF Go
  <2>5. \/ pc'[t] \in {"lock", "unlink", "find"}
        \/ f.find = "insert" /\ pc'[t] = "link" /\ frame'[t].node = f.node
    <3>1. [f EXCEPT !.at = 0].node = f.node
      BY DEF Frames
    <3> QED BY <1>4, <2>3, <3>1 DEF Go
  <2>6. f.find = "insert" => f.node \notin linked
    BY <2>1, <2>2, InsertPhases DEF Placing
  <2>7. Counted' = Counted
    BY <2>2, <2>4, <2>5, <2>6, SameCounted DEF Adding
  <2> QED BY <1>2, <2>2, <2>7
<1>7. ASSUME NEW t \in Threads, SetFullyLinked(t) PROVE CountInv'
  <2>1. /\ linked' = linked /\ elementsCount' = elementsCount
        /\ pc[t] = "full" /\ Go(t, "count", frame[t])
    BY <1>7 DEF SetFullyLinked
  <2>2. /\ pc'[t] = "count" /\ frame'[t] = frame[t]
        /\ \A u \in Threads \ {t} : pc'[u] = pc[u] /\ frame'[u] = frame[u]
    BY <1>4, <2>1 DEF Go
  <2>3. Counted' = Counted
    BY <2>1, <2>2, SameCounted DEF Adding
  <2> QED BY <1>2, <2>1, <2>3
<1>8. ASSUME NEW t \in Threads, Link(t) PROVE CountInv'
  <2>1. elementsCount' = elementsCount
    BY <1>8 DEF Link
  <2> QED BY <1>2, <1>8, <2>1, LinkCounted
<1>9. ASSUME NEW t \in Threads, Unlink(t) PROVE CountInv'
  <2>1. elementsCount' = elementsCount
    BY <1>9 DEF Unlink
  <2> QED BY <1>2, <1>9, <2>1, UnlinkCounted
<1>10. ASSUME NEW t \in Threads, CountUp(t) PROVE CountInv'
  <2>1. elementsCount' = elementsCount + 1
    BY <1>10 DEF CountUp
  <2>2. PICK n : n \notin Counted /\ Counted' = Counted \cup {n}
    BY <1>10, CountUpCounted
  <2>3. Cardinality(Counted \cup {n}) = Cardinality(Counted) + 1
    BY <1>1, <2>2, FS_AddElement
  <2> QED BY <2>1, <2>2, <2>3 DEF CountInv
<1>11. ASSUME NEW t \in Threads, CountDown(t) PROVE CountInv'
  <2>1. elementsCount' = elementsCount - 1
    BY <1>11 DEF CountDown
  <2>2. PICK n \in Counted : Counted' = Counted \ {n}
    BY <1>11, CountDownCounted
  <2>3. Cardinality(Counted \ {n}) = Cardinality(Counted) - 1
    BY <1>1, <2>2, FS_RemoveElement
  <2> QED BY <2>1, <2>2, <2>3 DEF CountInv
<1> QED BY <1>3, <1>5, <1>6, <1>7, <1>8, <1>9, <1>10, <1>11 DEF Next, Step

(***************************************************************************)
(* The list begins empty.                                                  *)
(***************************************************************************)
LEMMA CountInit == Init => CountInv
<1> SUFFICES ASSUME Init PROVE CountInv
  OBVIOUS
<1>1. Counted = {}
  BY DEF Init, Counted, Locked
<1> QED BY <1>1, FS_EmptySet DEF CountInv, Init

(***************************************************************************)
(* Every variable keeps its type, whatever clients release, if every range *)
(* holds more than one key: no search follows a pointer that has not been  *)
(* set, and the unsigned counter does not go below zero.                   *)
(***************************************************************************)
THEOREM TypeCorrect ==
  ASSUME ProperRanges PROVE Spec => []TypeOK
<1>1. Spec => []IInv
  BY Invariance
<1>2. Spec => []CountInv
  BY <1>1, CountInit, CountNext, PTL DEF Spec
<1>3. IInv /\ CountInv => TypeOK
  BY CountedFinite DEF IInv, Types, TypeOK, CountInv
<1> QED BY <1>1, <1>2, <1>3, PTL
=============================================================================

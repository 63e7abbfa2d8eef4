--------------------------- MODULE ListRL_Proofs ---------------------------
(***************************************************************************)
(* Proofs about the list of src/src/v2, for every number of threads, calls *)
(* and requests.                                                           *)
(***************************************************************************)
EXTENDS ListRL, NatSets, FiniteSetTheorems, TLAPS

(***************************************************************************)
(* A node has been inserted: it is locked, or it has been deleted and      *)
(* keeps its mark for good.                                                *)
(***************************************************************************)
Inserted(n) == n \in LNode /\ (n \in present \/ next[n].marked)

(***************************************************************************)
(* Pointers lead to inserted nodes and to later ranges; nodes that are not *)
(* inserted yet are untouched.                                             *)
(***************************************************************************)
PointersOK ==
  /\ ~next[head].marked
  /\ \A n \in present : ~next[n].marked
  /\ \A n \in Cells : next[n].node # Null => Inserted(next[n].node)
  /\ \A n \in LNode : Inserted(n) => n <= calls /\ range[n] \in Requests
  /\ \A n \in LNode : ~Inserted(n) => next[n].node = Null
  /\ PointersAscend

(***************************************************************************)
(* What a thread that is at label p with the locals f knows.               *)
(***************************************************************************)
Search == {"read", "check", "next", "snip", "insert"}

FrameOK(p, f) ==
  /\ p = "idle" => f = Rest
  /\ p \in Search \cup {"overlap"} =>
       /\ f.op = "acquire"
       /\ f.lock \in LNode /\ f.lock <= calls /\ ~Inserted(f.lock)
       /\ f.want = range[f.lock] /\ f.want \in Requests
       /\ \/ f.prev = head
          \/ Inserted(f.prev) /\ range[f.prev].end <= f.want.start
  /\ p \in {"check", "next", "snip"} => Inserted(f.cur)
  /\ p = "next" => next[f.cur].marked
  /\ p = "snip" => next[f.cur] = Ptr(f.succ, TRUE)
  /\ p = "insert" => \/ f.cur = Null
                     \/ Inserted(f.cur) /\ f.want.end <= range[f.cur].start
  /\ p = "count" => f.op = "acquire"
  /\ p \in {"load", "store", "uncount"} => f.op = "release"
  /\ p \in {"count", "load", "store"} => f.lock \in present \ owned
  /\ p = "store" =>
       /\ \/ f.succ = Null
          \/ Inserted(f.succ) /\ range[f.lock].end <= range[f.succ].start
       /\ phased => f.succ = next[f.lock].node
  /\ p = "uncount" => f.lock \in LNode /\ next[f.lock].marked
  /\ p # "idle" => f.want = range[f.lock]

(***************************************************************************)
(* No two calls work on the same node, and what is owned is locked.        *)
(***************************************************************************)
Apart ==
  /\ owned \subseteq present
  /\ \A t, u \in Threads : 
       t # u /\ pc[t] # "idle" /\ pc[u] # "idle" => frame[t].lock # frame[u].lock

(***************************************************************************)
(* A call that is still looking for its place has met contention if        *)
(* anything that overlaps is locked now.                                   *)
(***************************************************************************)
Looking(t) == pc[t] \in Search \cup {"overlap"}

ContentionSeen ==
  \A t \in Threads : Looking(t) =>
    /\ \A n \in present :
         HalfOpenOverlap(range[n], frame[t].want) => contended[t]
    /\ pc[t] = "overlap" => contended[t]

(***************************************************************************)
(* size(): the nodes acquired and counted, not yet uncounted.              *)
(***************************************************************************)
Counted == owned \cup {frame[t].lock : t \in {u \in Threads : frame[u].op = "release"}}

(***************************************************************************)
(* With phased clients: the chain of the nodes of L from the head.         *)
(***************************************************************************)
Chain(L) ==
  /\ present \subseteq L /\ \A n \in L : Inserted(n)
  /\ \A p \in L \cup {head} : next[p].node = Null \/ next[p].node \in L
  /\ \A m, n \in L : m # n => ~HalfOpenOverlap(range[m], range[n])
  /\ \A p \in L \cup {head}, q \in L :
       \/ p # head /\ range[q].start <= range[p].start
       \/ next[p].node # Null /\ range[next[p].node].start <= range[q].start

Phased ==
  phased =>
    /\ ~(Running("acquire") /\ Running("release"))
    /\ \E L \in SUBSET LNode : Chain(L)

IInv ==
  /\ TypeOK
  /\ PointersOK
  /\ \A t \in Threads : FrameOK(pc[t], frame[t])
  /\ Apart
  /\ ContentionSeen
  /\ Phased
  /\ elementsCount = Cardinality(Counted)

-----------------------------------------------------------------------------
(***************************************************************************)
(* Thread t moves to label p with locals g; the others stay.               *)
(***************************************************************************)
LEMMA GoFacts ==
  ASSUME TypeOK, NEW t \in Threads, NEW p \in Labels, NEW g \in Frames,
         Go(t, p, g)
  PROVE  /\ pc' \in [Threads -> Labels] /\ frame' \in [Threads -> Frames]
         /\ pc'[t] = p /\ frame'[t] = g
         /\ \A u \in Threads \ {t} : pc'[u] = pc[u] /\ frame'[u] = frame[u]
  BY DEF Go, TypeOK

(***************************************************************************)
(* The locals of an idle thread.                                           *)
(***************************************************************************)
LEMMA RestType == Rest \in Frames
  BY DEF Rest, Frames, Cells, RangesOver

(***************************************************************************)
(* Which call a label belongs to.                                          *)
(***************************************************************************)
LEMMA LabelOp ==
  ASSUME IInv, NEW t \in Threads
  PROVE  /\ frame[t].op = "none" <=> pc[t] = "idle"
         /\ frame[t].op = "acquire" <=> Looking(t) \/ pc[t] = "count"
         /\ frame[t].op = "release" <=> pc[t] \in {"load", "store", "uncount"}
<1>1. FrameOK(pc[t], frame[t]) /\ pc[t] \in Labels
  BY DEF IInv, TypeOK
<1> QED BY <1>1 DEF FrameOK, Looking, Search, Labels, Rest

(***************************************************************************)
(* Steps that change nothing but where t is and what it remembers, inside  *)
(* of a call.                                                              *)
(***************************************************************************)
LEMMA QuietStep ==
  ASSUME IInv, NEW t \in Threads, NEW p \in Labels, NEW g \in Frames,
         Go(t, p, g), pc[t] # "idle", p # "idle",
         UNCHANGED <<next, range, present, elementsCount, calls, owned,
                     contended, phased>>,
         FrameOK(p, g), g.op = frame[t].op, g.lock = frame[t].lock,
         p \in Search \cup {"overlap"} => Looking(t) /\ g.want = frame[t].want,
         p = "overlap" => contended[t]
  PROVE  IInv'
<1>1. /\ pc' \in [Threads -> Labels] /\ frame' \in [Threads -> Frames]
      /\ pc'[t] = p /\ frame'[t] = g
      /\ \A u \in Threads \ {t} : pc'[u] = pc[u] /\ frame'[u] = frame[u]
  BY GoFacts DEF IInv
<1>2. TypeOK'
  BY <1>1 DEF IInv, TypeOK
<1>3. PointersOK'
  BY DEF IInv, PointersOK, PointersAscend, Inserted
<1>4. \A u \in Threads : FrameOK(pc[u], frame[u])'
  <2> TAKE u \in Threads
  <2>1. FrameOK(pc'[u], frame'[u])
    BY <1>1 DEF IInv
  <2> QED BY <2>1 DEF FrameOK, Inserted
<1>5. Apart'
  BY <1>1 DEF IInv, Apart
<1>6. ContentionSeen'
  BY <1>1 DEF IInv, ContentionSeen, Looking
<1>7. Counted' = Counted
  <2>1. \A u \in Threads : frame'[u].op = frame[u].op /\ frame'[u].lock = frame[u].lock
    BY <1>1
  <2> QED BY <2>1 DEF Counted
<1>8. Phased'
  <2>1. \A op : Running(op)' <=> Running(op)
    BY <1>1 DEF Running
  <2>2. \A L \in SUBSET LNode : Chain(L)' <=> Chain(L)
    BY DEF Chain, Inserted
  <2> QED BY <2>1, <2>2 DEF IInv, Phased
<1> QED BY <1>2, <1>3, <1>4, <1>5, <1>6, <1>7, <1>8 DEF IInv

(***************************************************************************)
(* The locals of a thread are a frame and the pointers lead somewhere.     *)
(***************************************************************************)
LEMMA ThreadFacts ==
  ASSUME IInv, NEW t \in Threads
  PROVE  /\ TypeOK /\ frame[t] \in Frames /\ pc[t] \in Labels
         /\ FrameOK(pc[t], frame[t])
  BY DEF IInv, TypeOK

(***************************************************************************)
(* The search goes on with the unmarked pointer to c.                      *)
(***************************************************************************)
LEMMA VisitFacts ==
  ASSUME NEW f \in Frames, NEW c \in LNode \cup {Null}, IInv, NEW q \in Search,
         FrameOK(q, f), c = Null \/ Inserted(c)
  PROVE  LET p == IF c = Null THEN "insert" ELSE "check"
             g == [f EXCEPT !.cur = c, !.succ = Null]
         IN  /\ p \in Labels /\ p \in Search /\ g \in Frames
             /\ FrameOK(p, g) /\ g.op = f.op /\ g.lock = f.lock
             /\ g.want = f.want
<1> DEFINE g == [f EXCEPT !.cur = c, !.succ = Null]
<1>1. /\ g \in Frames /\ g.op = f.op /\ g.lock = f.lock /\ g.want = f.want
      /\ g.prev = f.prev /\ g.cur = c
  BY DEF Frames
<1> HIDE DEF g
<1>2. c = Null => FrameOK("insert", g)
  BY <1>1 DEF FrameOK, Search
<1>3. c # Null => FrameOK("check", g)
  BY <1>1 DEF FrameOK, Search
<1> QED BY <1>1, <1>2, <1>3 DEF Labels, Search, g

(***************************************************************************)
(* ReadPrev: from a deleted prev the search starts over, otherwise it goes *)
(* on with an inserted node.                                               *)
(***************************************************************************)
LEMMA ReadPrevStep ==
  ASSUME IInv, NEW t \in Threads, ReadPrev(t), UNCHANGED phased
  PROVE  IInv'
<1> DEFINE f == frame[t]
<1>1. /\ f \in Frames /\ pc[t] = "read" /\ FrameOK("read", f) /\ Looking(t)
      /\ TypeOK
  BY ThreadFacts DEF ReadPrev, Looking, Search
<1>2. UNCHANGED <<next, range, present, elementsCount, calls, owned,
                  contended, phased>>
  BY DEF ReadPrev, listVars
<1>3. CASE next[f.prev].marked
  <2> DEFINE g == [f EXCEPT !.prev = head, !.cur = Null]
  <2>1. Go(t, "read", g)
    BY <1>3 DEF ReadPrev
  <2>2. /\ g \in Frames /\ g.op = f.op /\ g.lock = f.lock /\ g.want = f.want
        /\ g.prev = head
    BY <1>1 DEF Frames, Cells
  <2> HIDE DEF g
  <2>3. FrameOK("read", g)
    BY <1>1, <2>2 DEF FrameOK, Search
  <2> QED BY <1>1, <1>2, <2>1, <2>2, <2>3, QuietStep DEF Search, Labels
<1>4. CASE ~next[f.prev].marked
  <2> DEFINE c == next[f.prev].node
             p == IF c = Null THEN "insert" ELSE "check"
             g == [f EXCEPT !.cur = c, !.succ = Null]
  <2>1. c \in LNode \cup {Null} /\ (c = Null \/ Inserted(c))
    BY <1>1 DEF IInv, PointersOK, TypeOK, Pointers, Frames
  <2>2. Go(t, p, g)
    BY <1>4 DEF ReadPrev, Visit
  <2>3. /\ p \in Labels /\ p \in Search /\ g \in Frames /\ FrameOK(p, g)
        /\ g.op = f.op /\ g.lock = f.lock /\ g.want = f.want
    BY <1>1, <2>1, VisitFacts DEF Search
  <2>4. p # "idle" /\ p # "overlap"
    OBVIOUS
  <2> HIDE DEF p, g
  <2> QED BY <1>1, <1>2, <2>2, <2>3, <2>4, QuietStep
<1> QED BY <1>3, <1>4

(***************************************************************************)
(* CheckCur: an inserted node that is not marked is locked, so a refusal   *)
(* is one for a locked node.                                               *)
(***************************************************************************)
LEMMA CheckCurStep ==
  ASSUME IInv, NEW t \in Threads, CheckCur(t), UNCHANGED phased
  PROVE  IInv'
<1> DEFINE f == frame[t]
<1>1. /\ f \in Frames /\ pc[t] = "check" /\ FrameOK("check", f) /\ Looking(t)
      /\ TypeOK
  BY ThreadFacts DEF CheckCur, Looking, Search
<1>2. UNCHANGED <<next, range, present, elementsCount, calls, owned,
                  contended, phased>>
  BY DEF CheckCur, listVars
<1>3. /\ Inserted(f.cur) /\ f.cur \in LNode /\ range[f.cur] \in Requests
      /\ f.want \in Requests
  BY <1>1 DEF FrameOK, Search, Inserted, IInv, PointersOK
<1>4. CASE next[f.cur].marked /\ Go(t, "next", f)
  <2>1. FrameOK("next", f)
    BY <1>1, <1>4 DEF FrameOK, Search
  <2> QED BY <1>1, <1>2, <1>4, <2>1, QuietStep DEF Search, Labels
<1>5. CASE Precedes(f.want, f.cur) /\ Go(t, "insert", f)
  <2>1. f.want.end <= range[f.cur].start
    BY <1>3, <1>5, ListAssumption DEF Precedes, RangesOver
  <2>2. FrameOK("insert", f)
    BY <1>1, <1>3, <2>1 DEF FrameOK, Search
  <2> QED BY <1>1, <1>2, <1>5, <2>2, QuietStep DEF Search, Labels
<1>6. CASE /\ Succeeds(f.want, f.cur)
           /\ Go(t, "read", [f EXCEPT !.prev = f.cur, !.cur = Null])
  <2> DEFINE g == [f EXCEPT !.prev = f.cur, !.cur = Null]
  <2>1. range[f.cur].end <= f.want.start
    BY <1>3, <1>6, ListAssumption DEF Succeeds, RangesOver
  <2>2. /\ g \in Frames /\ g.op = f.op /\ g.lock = f.lock /\ g.want = f.want
        /\ g.prev = f.cur
    BY <1>1, <1>3 DEF Frames, Cells
  <2>3. Go(t, "read", g)
    BY <1>6
  <2> HIDE DEF g
  <2>4. FrameOK("read", g)
    BY <1>1, <1>3, <2>1, <2>2 DEF FrameOK, Search
  <2> QED BY <1>1, <1>2, <2>2, <2>3, <2>4, QuietStep DEF Search, Labels
<1>7. CASE /\ ~next[f.cur].marked /\ ~Precedes(f.want, f.cur)
           /\ ~Succeeds(f.want, f.cur) /\ Go(t, "overlap", f)
  <2>1. f.cur \in present
    BY <1>3, <1>7 DEF Inserted
  <2>2. HalfOpenOverlap(range[f.cur], f.want)
    BY <1>3, <1>7, ListAssumption
       DEF Precedes, Succeeds, HalfOpenOverlap, RangesOver
  <2>3. contended[t]
    BY <1>1, <2>1, <2>2 DEF IInv, ContentionSeen
  <2>4. FrameOK("overlap", f)
    BY <1>1 DEF FrameOK, Search
  <2> QED BY <1>1, <1>2, <1>7, <2>3, <2>4, QuietStep DEF Search, Labels
<1> QED BY <1>4, <1>5, <1>6, <1>7 DEF CheckCur

(***************************************************************************)
(* ReadNext: the successor of a deleted node is read once and for all.     *)
(***************************************************************************)
LEMMA ReadNextStep ==
  ASSUME IInv, NEW t \in Threads, ReadNext(t), UNCHANGED phased
  PROVE  IInv'
<1> DEFINE f == frame[t]
           g == [f EXCEPT !.succ = next[f.cur].node]
<1>1. /\ f \in Frames /\ pc[t] = "next" /\ FrameOK("next", f) /\ Looking(t)
      /\ TypeOK
  BY ThreadFacts DEF ReadNext, Looking, Search
<1>2. UNCHANGED <<next, range, present, elementsCount, calls, owned,
                  contended, phased>>
  BY DEF ReadNext, listVars
<1>3. /\ f.cur \in Cells /\ next[f.cur] \in Pointers /\ next[f.cur].marked
      /\ Inserted(f.cur)
  BY <1>1 DEF FrameOK, Inserted, Cells, TypeOK
<1>4. /\ g \in Frames /\ g.op = f.op /\ g.lock = f.lock /\ g.want = f.want
      /\ g.prev = f.prev /\ g.cur = f.cur /\ g.succ = next[f.cur].node
  BY <1>1, <1>3 DEF Frames, Pointers
<1>5. Go(t, "snip", g)
  BY DEF ReadNext
<1> HIDE DEF g
<1>6. next[f.cur] = Ptr(g.succ, TRUE)
  BY <1>3, <1>4 DEF Pointers, Ptr
<1>7. FrameOK("snip", g)
  BY <1>1, <1>3, <1>4, <1>6 DEF FrameOK, Search
<1> QED BY <1>1, <1>2, <1>4, <1>5, <1>7, QuietStep DEF Search, Labels

(***************************************************************************)
(* LoadNext: a release remembers the successor of its node.                *)
(***************************************************************************)
LEMMA LoadNextStep ==
  ASSUME IInv, NEW t \in Threads, LoadNext(t), UNCHANGED phased
  PROVE  IInv'
<1> DEFINE f == frame[t]
           g == [f EXCEPT !.succ = next[f.lock].node]
<1>1. /\ f \in Frames /\ pc[t] = "load" /\ FrameOK("load", f) /\ TypeOK
  BY ThreadFacts DEF LoadNext
<1>2. UNCHANGED <<next, range, present, elementsCount, calls, owned,
                  contended, phased>>
  BY DEF LoadNext, listVars
<1>3. /\ f.lock \in LNode /\ f.lock \in Cells /\ next[f.lock] \in Pointers
  BY <1>1 DEF FrameOK, Cells, TypeOK
<1>4. /\ g \in Frames /\ g.op = f.op /\ g.lock = f.lock /\ g.want = f.want
      /\ g.succ = next[f.lock].node
  BY <1>1, <1>3 DEF Frames, Pointers
<1>5. Go(t, "store", g)
  BY DEF LoadNext
<1> HIDE DEF g
<1>6. \/ g.succ = Null
      \/ Inserted(g.succ) /\ range[g.lock].end <= range[g.succ].start
  BY <1>3, <1>4 DEF IInv, PointersOK, PointersAscend
<1>7. FrameOK("store", g)
  BY <1>1, <1>3, <1>4, <1>6 DEF FrameOK, Search
<1> QED BY <1>1, <1>2, <1>4, <1>5, <1>7, QuietStep DEF Search, Labels

-----------------------------------------------------------------------------
(***************************************************************************)
(* What no step undoes: an inserted node stays inserted and keeps its      *)
(* range, and a marked pointer stays as it is.                             *)
(***************************************************************************)
Stable ==
  /\ \A n \in LNode : Inserted(n) => Inserted(n)' /\ range'[n] = range[n]
  /\ \A n \in Cells : next[n].marked => next'[n] = next[n]
  /\ calls <= calls' /\ phased' = phased

(***************************************************************************)
(* What a thread knows survives the steps of the others.                   *)
(***************************************************************************)
LEMMA StableFrame ==
  ASSUME IInv, TypeOK', Stable, NEW u \in Threads,
         pc'[u] = pc[u], frame'[u] = frame[u],
         Looking(u) => /\ ~Inserted(frame[u].lock)'
                       /\ range'[frame[u].lock] = range[frame[u].lock],
         pc[u] \in {"count", "load", "store"} =>
           frame[u].lock \in present' \ owned',
         phased /\ pc[u] = "store" =>
           next'[frame[u].lock].node = next[frame[u].lock].node
  PROVE  FrameOK(pc[u], frame[u])'
<1>0. frame[u] \in Frames /\ pc[u] \in Labels /\ FrameOK(pc[u], frame[u])
  BY ThreadFacts
<1>f. PICK f \in Frames : f = frame[u] /\ frame'[u] = f
  BY <1>0
<1>p. PICK p \in Labels : p = pc[u] /\ pc'[u] = p
  BY <1>0
<1>1. /\ FrameOK(p, f) /\ calls \in Nat /\ calls' \in Nat
      /\ calls <= calls'
  <2>1. TypeOK
    BY DEF IInv
  <2> QED BY <1>0, <1>f, <1>p, <2>1, ListAssumption DEF Stable, TypeOK
<1>2. \A n : Inserted(n) => n \in LNode /\ n \in Cells
  BY DEF Inserted, Cells
<1>3. \A n : Inserted(n) => Inserted(n)' /\ range'[n] = range[n]
  BY <1>2 DEF Stable
<1>4. \A n : n \in present \/ (n \in LNode /\ next[n].marked) => Inserted(n)
  BY DEF Inserted, IInv, TypeOK
<1>5. p # "idle" => range'[f.lock] = range[f.lock]
  <2>1. Looking(u) \/ p \in {"idle", "count", "load", "store", "uncount"}
    BY <1>p DEF Looking, Search, Labels
  <2> QED BY <1>1, <1>f, <1>3, <1>4, <2>1 DEF FrameOK
<1>6. p \in Search \cup {"overlap"} =>
       /\ f.op = "acquire"
       /\ f.lock \in LNode /\ f.lock <= calls' /\ ~Inserted(f.lock)'
       /\ f.want = range'[f.lock] /\ f.want \in Requests
       /\ \/ f.prev = head
          \/ Inserted(f.prev)' /\ range'[f.prev].end <= f.want.start
  <2> HAVE p \in Search \cup {"overlap"}
  <2>1. Looking(u) /\ p # "idle"
    BY <1>p DEF Looking, Search
  <2>2. ~Inserted(f.lock)'
    BY <2>1, <1>f DEF Inserted
  <2>3. f.lock \in Nat /\ f.lock <= calls
    BY <1>1 DEF FrameOK, LNode
  <2>4. f.lock <= calls'
    BY <1>1, <2>3
  <2> QED BY <1>1, <1>3, <1>5, <2>1, <2>2, <2>4 DEF FrameOK
<1>7. \A n \in Cells : next[n].marked => next'[n] = next[n]
  BY DEF Stable
<1>8. p \in {"check", "next", "snip"} => f.cur \in Cells /\ Inserted(f.cur)
  BY <1>1, <1>2 DEF FrameOK
<1>9. p = "uncount" => f.lock \in LNode /\ next'[f.lock].marked
  BY <1>1, <1>7 DEF FrameOK, Cells
<1>10. p = "snip" => next'[f.cur] = Ptr(f.succ, TRUE)
  BY <1>1, <1>7, <1>8 DEF FrameOK, Ptr
<1>11. p = "next" => next'[f.cur].marked
  BY <1>1, <1>7, <1>8 DEF FrameOK
<1>12. p = "store" =>
          /\ \/ f.succ = Null
             \/ Inserted(f.succ)' /\ range'[f.lock].end <= range'[f.succ].start
          /\ phased' => f.succ = next'[f.lock].node
  BY <1>1, <1>f, <1>p, <1>3, <1>5 DEF FrameOK, Stable
<1>13. p = "insert" =>
          \/ f.cur = Null
          \/ Inserted(f.cur)' /\ f.want.end <= range'[f.cur].start
  BY <1>1, <1>3 DEF FrameOK
<1>14. p \in {"count", "load", "store"} => f.lock \in present' \ owned'
  BY <1>f, <1>p
<1>15. p # "idle" => f.want = range'[f.lock]
  BY <1>1, <1>5 DEF FrameOK
<1>16. p \in {"check", "next", "snip"} => Inserted(f.cur)'
  BY <1>3, <1>8
<1>17. FrameOK(p, f)'
  BY <1>1, <1>6, <1>9, <1>10, <1>11, <1>12, <1>13, <1>14, <1>15, <1>16
     DEF FrameOK
<1> QED BY <1>f, <1>p, <1>17

(***************************************************************************)
(* Steps that leave the list alone.                                        *)
(***************************************************************************)
LEMMA SameList ==
  ASSUME IInv, UNCHANGED <<next, range, present, calls, phased>>
  PROVE  /\ Stable /\ PointersOK'
         /\ \A n : Inserted(n)' <=> Inserted(n)
         /\ \A L \in SUBSET LNode : Chain(L)' <=> Chain(L)
<1>1. \A n : Inserted(n)' <=> Inserted(n)
  BY DEF Inserted
<1>2. Stable
  BY <1>1, ListAssumption DEF Stable, IInv, TypeOK
<1>3. PointersOK'
  BY <1>1 DEF IInv, PointersOK, PointersAscend
<1>4. \A L \in SUBSET LNode : Chain(L)' <=> Chain(L)
  BY <1>1 DEF Chain
<1> QED BY <1>1, <1>2, <1>3, <1>4

(***************************************************************************)
(* Counted nodes are nodes, so there are finitely many.                    *)
(***************************************************************************)
LEMMA CountedFinite ==
  ASSUME IInv
  PROVE  /\ IsFiniteSet(Counted) /\ Cardinality(Counted) \in Nat
         /\ elementsCount = Cardinality(Counted)
<1>1. \A t \in Threads : frame[t].op = "release" => frame[t].lock \in LNode
  <2> TAKE t \in Threads
  <2> HAVE frame[t].op = "release"
  <2>1. pc[t] \in {"load", "store", "uncount"} /\ FrameOK(pc[t], frame[t])
    BY LabelOp, ThreadFacts
  <2> QED BY <2>1 DEF FrameOK, IInv, TypeOK
<1>2. Counted \subseteq LNode
  BY <1>1 DEF Counted, IInv, TypeOK
<1>3. IsFiniteSet(LNode)
  BY ListAssumption, FS_Interval DEF LNode
<1>4. IsFiniteSet(Counted)
  BY <1>2, <1>3, FS_Subset
<1>5. Cardinality(Counted) \in Nat
  BY <1>4, FS_CardinalityType
<1> QED BY <1>4, <1>5 DEF IInv

(***************************************************************************)
(* A thread that is not in a releasing call works on a node that is not    *)
(* counted.                                                                *)
(***************************************************************************)
LEMMA NotCounted ==
  ASSUME IInv, NEW t \in Threads, pc[t] = "count"
  PROVE  frame[t].lock \notin Counted
<1>1. frame[t].lock \notin owned
  BY ThreadFacts DEF FrameOK
<1>2. \A u \in Threads : frame[u].op = "release" =>
        u # t /\ pc[u] # "idle" /\ frame[u].lock # frame[t].lock
  <2> TAKE u \in Threads
  <2> HAVE frame[u].op = "release"
  <2>1. pc[u] \in {"load", "store", "uncount"}
    BY LabelOp
  <2>2. u # t /\ pc[u] # "idle"
    BY <2>1
  <2> QED BY <2>2 DEF IInv, Apart
<1> QED BY <1>1, <1>2 DEF Counted

(***************************************************************************)
(* A call returns: t is idle again, and owns its node or does not.         *)
(***************************************************************************)
LEMMA ReturnStep ==
  ASSUME IInv, NEW t \in Threads, pc[t] # "idle", Go(t, "idle", Rest),
         UNCHANGED <<next, range, present, calls, phased>>,
         owned' = owned \/ (/\ frame[t].lock \in present
                            /\ owned' = owned \cup {frame[t].lock}),
         contended' \in [Threads -> BOOLEAN],
         \A u \in Threads \ {t} : contended'[u] = contended[u],
         elementsCount' \in Nat, elementsCount' = Cardinality(Counted')
  PROVE  IInv'
<1> DEFINE n == frame[t].lock
<1>1. TypeOK /\ present \subseteq LNode /\ owned \subseteq present
  BY ThreadFacts DEF TypeOK, IInv, Apart
<1>4. /\ pc' \in [Threads -> Labels] /\ frame' \in [Threads -> Frames]
      /\ pc'[t] = "idle" /\ frame'[t] = Rest
      /\ \A u \in Threads \ {t} : pc'[u] = pc[u] /\ frame'[u] = frame[u]
  BY <1>1, RestType, GoFacts DEF Labels
<1>5. /\ Stable /\ PointersOK' /\ \A m : Inserted(m)' <=> Inserted(m)
      /\ \A L \in SUBSET LNode : Chain(L)' <=> Chain(L)
  BY SameList
<1>6. TypeOK'
  BY <1>1, <1>4 DEF TypeOK
<1>7. \A u \in Threads \ {t} : pc[u] # "idle" => frame[u].lock # n
  BY <1>1 DEF IInv, Apart
<1>8. \A u \in Threads : FrameOK(pc[u], frame[u])'
  <2> TAKE u \in Threads
  <2>1. CASE u = t
    BY <1>4, <2>1 DEF FrameOK, Search
  <2>2. CASE u # t
    <3>1. pc'[u] = pc[u] /\ frame'[u] = frame[u] /\ FrameOK(pc[u], frame[u])
      BY <1>4, <2>2, ThreadFacts
    <3>2. pc[u] \in {"count", "load", "store"} =>
            frame[u].lock \in present' \ owned'
      BY <1>7, <2>2, <3>1 DEF FrameOK
    <3>3. Looking(u) => ~Inserted(frame[u].lock)'
      BY <1>5, <3>1 DEF FrameOK, Looking, Inserted
    <3> QED BY <1>5, <1>6, <3>1, <3>2, <3>3, StableFrame
  <2> QED BY <2>1, <2>2
<1>9. Apart'
  BY <1>1, <1>4 DEF IInv, Apart
<1>10. ContentionSeen'
  BY <1>4 DEF IInv, ContentionSeen, Looking, Search
<1>11. Phased'
  <2>1. \A op \in {"acquire", "release"} : Running(op)' => Running(op)
    BY <1>4 DEF Running, Rest
  <2> QED BY <1>5, <2>1 DEF IInv, Phased
<1> QED BY <1>5, <1>6, <1>8, <1>9, <1>10, <1>11 DEF IInv

(***************************************************************************)
(* The counter and the nodes it counts change together.                    *)
(***************************************************************************)
LEMMA CountUpStep ==
  ASSUME IInv, NEW t \in Threads, CountUp(t), UNCHANGED phased
  PROVE  IInv'
<1> DEFINE n == frame[t].lock
<1>1. /\ TypeOK /\ pc[t] = "count" /\ Go(t, "idle", Rest)
      /\ n \in present /\ frame[t].op = "acquire"
  BY ThreadFacts DEF CountUp, FrameOK
<1>2. UNCHANGED <<next, range, present, calls, phased, contended>>
  BY DEF CountUp, listVars
<1>3. owned' = owned \cup {n} /\ elementsCount' = elementsCount + 1
  BY DEF CountUp
<1>4. /\ frame'[t] = Rest
      /\ \A u \in Threads \ {t} : frame'[u] = frame[u]
  BY <1>1, RestType, GoFacts DEF Labels
<1>5. Counted' = Counted \cup {n}
  <2>1. \A u \in Threads : frame'[u].op = "release" <=> frame[u].op = "release"
    BY <1>1, <1>4 DEF Rest
  <2>2. \A u \in Threads : frame[u].op = "release" => frame'[u] = frame[u]
    BY <1>1, <1>4
  <2> QED BY <1>3, <2>1, <2>2 DEF Counted
<1>6. n \notin Counted
  BY <1>1, NotCounted
<1>7. elementsCount' \in Nat /\ elementsCount' = Cardinality(Counted')
  <2>1. PICK S : S = Counted
    OBVIOUS
  <2>2. IsFiniteSet(S) /\ Cardinality(S) \in Nat /\ elementsCount = Cardinality(S)
    BY <2>1, CountedFinite
  <2>3. Cardinality(S \cup {n}) = Cardinality(S) + 1
    BY <1>6, <2>1, <2>2, FS_AddElement
  <2>4. Counted' = S \cup {n}
    BY <1>5, <2>1
  <2>5. elementsCount' = Cardinality(S) + 1
    BY <1>3, <2>2
  <2> QED BY <2>2, <2>3, <2>4, <2>5
<1>8. contended' \in [Threads -> BOOLEAN]
  BY <1>1, <1>2 DEF TypeOK
<1> QED BY <1>1, <1>2, <1>3, <1>7, <1>8, ReturnStep

(***************************************************************************)
(* Refuse: the node of a refused call was never counted.                   *)
(***************************************************************************)
LEMMA RefuseStep ==
  ASSUME IInv, NEW t \in Threads, Refuse(t), UNCHANGED phased
  PROVE  IInv'
<1>1. /\ TypeOK /\ pc[t] = "overlap" /\ Go(t, "idle", Rest)
      /\ frame[t].op = "acquire"
  BY ThreadFacts DEF Refuse, FrameOK
<1>2. UNCHANGED <<next, range, present, calls, phased, owned, elementsCount>>
  BY DEF Refuse, listVars
<1>3. /\ frame'[t] = Rest
      /\ \A u \in Threads \ {t} : frame'[u] = frame[u]
  BY <1>1, RestType, GoFacts DEF Labels
<1>4. Counted' = Counted
  <2>1. \A u \in Threads : frame'[u].op = "release" <=> frame[u].op = "release"
    BY <1>1, <1>3 DEF Rest
  <2>2. \A u \in Threads : frame[u].op = "release" => frame'[u] = frame[u]
    BY <1>1, <1>3
  <2> QED BY <1>2, <2>1, <2>2 DEF Counted
<1>5. elementsCount' \in Nat /\ elementsCount' = Cardinality(Counted')
  BY <1>2, <1>4, CountedFinite
<1>6. /\ contended' \in [Threads -> BOOLEAN]
      /\ \A u \in Threads \ {t} : contended'[u] = contended[u]
  BY <1>1 DEF TypeOK, Refuse
<1> QED BY <1>1, <1>2, <1>5, <1>6, ReturnStep

(***************************************************************************)
(* CountDown: the node of a release is counted until then.                 *)
(***************************************************************************)
LEMMA CountDownStep ==
  ASSUME IInv, NEW t \in Threads, CountDown(t), UNCHANGED phased
  PROVE  IInv'
<1> DEFINE n == frame[t].lock
<1>1. /\ TypeOK /\ pc[t] = "uncount" /\ Go(t, "idle", Rest)
      /\ frame[t].op = "release" /\ n \in LNode /\ next[n].marked
  BY ThreadFacts DEF CountDown, FrameOK
<1>2. UNCHANGED <<next, range, present, calls, phased, owned, contended>>
  BY DEF CountDown, listVars
<1>3. elementsCount' = elementsCount - 1
  BY DEF CountDown
<1>4. /\ frame'[t] = Rest
      /\ \A u \in Threads \ {t} : frame'[u] = frame[u]
  BY <1>1, RestType, GoFacts DEF Labels
<1>5. Counted' = Counted \ {n}
  <2>1. n \notin owned
    BY <1>1 DEF IInv, Apart, PointersOK
  <2>2. \A u \in Threads \ {t} : frame[u].op = "release" => frame[u].lock # n
    <3> TAKE u \in Threads \ {t}
    <3> HAVE frame[u].op = "release"
    <3>1. pc[u] # "idle"
      BY LabelOp
    <3> QED BY <1>1, <3>1 DEF IInv, Apart
  <2>3. \A u \in Threads : frame'[u].op = "release" =>
          u # t /\ frame[u].op = "release" /\ frame'[u] = frame[u]
    BY <1>4 DEF Rest
  <2> QED BY <1>2, <1>4, <2>1, <2>2, <2>3 DEF Counted
<1>6. n \in Counted
  BY <1>1 DEF Counted
<1>7. elementsCount' \in Nat /\ elementsCount' = Cardinality(Counted')
  <2>1. PICK S : S = Counted
    OBVIOUS
  <2>2. IsFiniteSet(S) /\ Cardinality(S) \in Nat /\ elementsCount = Cardinality(S)
    BY <2>1, CountedFinite
  <2>3. Cardinality(S) # 0
    BY <1>6, <2>1, <2>2, FS_EmptySet
  <2>4. Cardinality(S \ {n}) = Cardinality(S) - 1
    BY <1>6, <2>1, <2>2, FS_RemoveElement
  <2>5. Counted' = S \ {n}
    BY <1>5, <2>1
  <2>6. elementsCount' = Cardinality(S) - 1
    BY <1>3, <2>2
  <2> QED BY <2>2, <2>3, <2>4, <2>5, <2>6
<1>8. contended' \in [Threads -> BOOLEAN]
  BY <1>1, <1>2 DEF TypeOK
<1> QED BY <1>1, <1>2, <1>7, <1>8, ReturnStep

(***************************************************************************)
(* The node that a running call works on is not owned, and it is among     *)
(* the nodes made so far.                                                  *)
(***************************************************************************)
LEMMA LockFacts ==
  ASSUME IInv, NEW u \in Threads, pc[u] # "idle"
  PROVE  /\ frame[u].lock \in LNode /\ frame[u].lock \notin owned
         /\ frame[u].lock <= calls
<1>1. FrameOK(pc[u], frame[u]) /\ pc[u] \in Labels /\ TypeOK
  BY ThreadFacts
<1>2. CASE Looking(u)
  BY <1>1, <1>2 DEF FrameOK, Looking, Inserted, IInv, Apart
<1>3. CASE pc[u] \in {"count", "load", "store"}
  BY <1>1, <1>3 DEF FrameOK, Inserted, IInv, TypeOK, PointersOK
<1>4. CASE pc[u] = "uncount"
  BY <1>1, <1>4 DEF FrameOK, Inserted, IInv, Apart, PointersOK
<1> QED BY <1>1, <1>2, <1>3, <1>4 DEF Labels, Looking, Search

(***************************************************************************)
(* Release: the node moves from the owner to the call, and stays counted.  *)
(***************************************************************************)
LEMMA ReleaseStep ==
  ASSUME IInv, NEW t \in Threads, NEW n \in LNode, Release(t, n),
         UNCHANGED phased
  PROVE  IInv'
<1> DEFINE g == [Rest EXCEPT !.op = "release", !.want = range[n], !.lock = n]
<1>1. /\ TypeOK /\ pc[t] = "idle" /\ n \in owned /\ n \in present
      /\ Go(t, "load", g) /\ owned' = owned \ {n}
      /\ phased => ~Running("acquire")
  BY DEF Release, IInv, Apart
<1>2. UNCHANGED <<next, range, present, elementsCount, calls, contended,
                  phased>>
  BY DEF Release, listVars
<1>3. /\ g \in Frames /\ g.op = "release" /\ g.lock = n /\ g.want = range[n]
  BY <1>1, RestType DEF Rest, Frames, Cells, TypeOK
<1> HIDE DEF g
<1>4. /\ pc' \in [Threads -> Labels] /\ frame' \in [Threads -> Frames]
      /\ pc'[t] = "load" /\ frame'[t] = g
      /\ \A u \in Threads \ {t} : pc'[u] = pc[u] /\ frame'[u] = frame[u]
  BY <1>1, <1>3, GoFacts DEF Labels
<1>5. /\ Stable /\ PointersOK' /\ \A m : Inserted(m)' <=> Inserted(m)
      /\ \A L \in SUBSET LNode : Chain(L)' <=> Chain(L)
  BY <1>2, SameList
<1>6. TypeOK'
  BY <1>1, <1>2, <1>4 DEF TypeOK
<1>7. \A u \in Threads : pc[u] # "idle" => frame[u].lock # n
  BY <1>1, LockFacts
<1>8. \A u \in Threads : FrameOK(pc[u], frame[u])'
  <2> TAKE u \in Threads
  <2>1. CASE u = t
    <3>1. n \in present' \ owned' /\ g.want = range'[n]
      BY <1>1, <1>2, <1>3
    <3>2. PICK h \in Frames : h = g
      BY <1>3
    <3>3. FrameOK("load", h)'
      BY <1>3, <3>1, <3>2 DEF FrameOK, Search
    <3> QED BY <1>4, <2>1, <3>2, <3>3
  <2>2. CASE u # t
    <3>1. pc'[u] = pc[u] /\ frame'[u] = frame[u] /\ FrameOK(pc[u], frame[u])
      BY <1>4, <2>2, ThreadFacts
    <3>2. pc[u] \in {"count", "load", "store"} =>
            frame[u].lock \in present' \ owned'
      BY <1>1, <1>2, <3>1 DEF FrameOK
    <3>3. Looking(u) => ~Inserted(frame[u].lock)'
      BY <1>5, <3>1 DEF FrameOK, Looking, Inserted
    <3> QED BY <1>2, <1>5, <1>6, <3>1, <3>2, <3>3, StableFrame
  <2> QED BY <2>1, <2>2
<1>9. Apart'
  BY <1>1, <1>2, <1>3, <1>4, <1>7 DEF IInv, Apart
<1>10. ContentionSeen'
  BY <1>2, <1>4 DEF IInv, ContentionSeen, Looking, Search
<1>11. Phased'
  <2>1. Running("acquire")' => Running("acquire")
    BY <1>3, <1>4 DEF Running
  <2> QED BY <1>1, <1>2, <1>5, <2>1 DEF IInv, Phased
<1>12. Counted' = Counted
  <2>1. frame[t].op # "release"
    BY <1>1, LabelOp
  <2>2. {u \in Threads : frame'[u].op = "release"} =
          {u \in Threads : frame[u].op = "release"} \cup {t}
    BY <1>3, <1>4
  <2> QED BY <1>1, <1>3, <1>4, <2>1, <2>2 DEF Counted
<1> QED BY <1>2, <1>5, <1>6, <1>8, <1>9, <1>10, <1>11, <1>12 DEF IInv

(***************************************************************************)
(* Acquire: the new node is known to its own call only.                    *)
(***************************************************************************)
LEMMA AcquireStep ==
  ASSUME IInv, NEW t \in Threads, NEW r \in Requests, Acquire(t, r),
         UNCHANGED phased
  PROVE  IInv'
<1>0. PICK n : n = calls + 1
  OBVIOUS
<1> DEFINE g == [Rest EXCEPT !.op = "acquire", !.want = r, !.lock = n]
<1>1. /\ TypeOK /\ pc[t] = "idle" /\ Go(t, "read", g) /\ calls' = n
      /\ range' = [range EXCEPT ![n] = r] /\ calls < MaxCalls
      /\ phased => ~Running("release")
  BY <1>0 DEF Acquire, IInv
<1>2. UNCHANGED <<next, present, elementsCount, owned, phased>>
  BY DEF Acquire
<1>3. /\ n \in LNode /\ calls \in Nat /\ n \in Nat /\ r \in RangesOver(Int)
  BY <1>0, <1>1, ListAssumption DEF TypeOK, LNode
<1>4. /\ g \in Frames /\ g.op = "acquire" /\ g.lock = n /\ g.want = r
      /\ g.prev = head
  BY <1>3, RestType DEF Rest, Frames, Cells
<1> HIDE DEF g
<1>5. /\ pc' \in [Threads -> Labels] /\ frame' \in [Threads -> Frames]
      /\ pc'[t] = "read" /\ frame'[t] = g
      /\ \A u \in Threads \ {t} : pc'[u] = pc[u] /\ frame'[u] = frame[u]
  BY <1>1, <1>4, GoFacts DEF Labels
<1>6. /\ contended' \in [Threads -> BOOLEAN]
      /\ \A u \in Threads \ {t} : contended'[u] = contended[u]
      /\ contended'[t] <=> \E m \in present : HalfOpenOverlap(range[m], r)
  BY <1>1 DEF TypeOK, Acquire, HalfOpenOverlap
<1>7. TypeOK'
  <2>1. range' \in [LNode -> RangesOver(Int)]
    BY <1>1, <1>3 DEF TypeOK
  <2>2. calls' \in 0 .. MaxCalls
    BY <1>0, <1>1, <1>3, ListAssumption
  <2> QED BY <1>1, <1>2, <1>5, <1>6, <2>1, <2>2 DEF TypeOK
<1>8. \A m : Inserted(m)' <=> Inserted(m)
  BY <1>2 DEF Inserted
<1>9. \A m \in LNode : Inserted(m) => m # n /\ m <= calls /\ range'[m] = range[m]
  <2> TAKE m \in LNode
  <2> HAVE Inserted(m)
  <2>1. m <= calls /\ m \in Nat
    BY DEF IInv, PointersOK, LNode
  <2>2. m # n
    BY <1>0, <1>3, <2>1
  <2> QED BY <1>1, <1>3, <2>1, <2>2 DEF TypeOK
<1>10. /\ n # head /\ ~Inserted(n) /\ \A m \in LNode : m # n => range'[m] = range[m]
  BY <1>1, <1>3, <1>9, ListAssumption DEF TypeOK
<1>11. Stable
  BY <1>0, <1>1, <1>2, <1>3, <1>8, <1>9 DEF Stable
<1>12. PointersOK'
  <2>1. \A m \in LNode : Inserted(m)' => m <= calls' /\ range'[m] \in Requests
    <3> TAKE m \in LNode
    <3> HAVE Inserted(m)'
    <3>1. Inserted(m) /\ m <= calls /\ m \in Nat /\ range'[m] = range[m]
      BY <1>8, <1>9 DEF LNode
    <3>2. m <= calls'
      BY <1>0, <1>1, <1>3, <3>1
    <3> QED BY <3>1, <3>2 DEF IInv, PointersOK
  <2>2. PointersAscend'
    <3> SUFFICES ASSUME NEW m \in LNode, next[m].node # Null
                 PROVE  range'[m].end <= range'[next[m].node].start
      BY <1>2 DEF PointersAscend
    <3>1. Inserted(m) /\ Inserted(next[m].node) /\ next[m].node \in LNode
      BY DEF IInv, PointersOK, Inserted, Cells
    <3>2. range'[m] = range[m] /\ range'[next[m].node] = range[next[m].node]
      BY <1>9, <3>1
    <3> QED BY <3>2 DEF IInv, PointersOK, PointersAscend
  <2> QED BY <1>2, <1>8, <2>1, <2>2 DEF IInv, PointersOK
<1>13. \A u \in Threads : pc[u] # "idle" =>
          frame[u].lock # n /\ range'[frame[u].lock] = range[frame[u].lock]
  <2> TAKE u \in Threads
  <2> HAVE pc[u] # "idle"
  <2>1. frame[u].lock \in LNode /\ frame[u].lock <= calls /\ frame[u].lock \in Nat
    BY LockFacts DEF LNode
  <2>2. frame[u].lock # n
    BY <1>0, <1>3, <2>1
  <2> QED BY <1>10, <2>1, <2>2
<1>14. \A u \in Threads : FrameOK(pc[u], frame[u])'
  <2> TAKE u \in Threads
  <2>1. CASE u = t
    <3>1. ~Inserted(n)' /\ n <= calls' /\ range'[n] = r
      BY <1>1, <1>3, <1>8, <1>10 DEF TypeOK
    <3>2. PICK h \in Frames : h = g
      BY <1>4
    <3>3. FrameOK("read", h)'
      BY <1>3, <1>4, <3>1, <3>2 DEF FrameOK, Search
    <3> QED BY <1>5, <2>1, <3>2, <3>3
  <2>2. CASE u # t
    <3>1. pc'[u] = pc[u] /\ frame'[u] = frame[u] /\ FrameOK(pc[u], frame[u])
      BY <1>5, <2>2, ThreadFacts
    <3>2. pc[u] \in {"count", "load", "store"} =>
            frame[u].lock \in present' \ owned'
      BY <1>2, <3>1 DEF FrameOK
    <3>3. Looking(u) => ~Inserted(frame[u].lock)' /\ pc[u] # "idle"
      BY <1>8, <3>1 DEF FrameOK, Looking, Search, Inserted
    <3>4. Looking(u) => range'[frame[u].lock] = range[frame[u].lock]
      BY <1>13, <3>3
    <3> QED BY <1>2, <1>7, <1>11, <3>1, <3>2, <3>3, <3>4, StableFrame
  <2> QED BY <2>1, <2>2
<1>15. Apart'
  BY <1>2, <1>4, <1>5, <1>13 DEF IInv, Apart
<1>16. ContentionSeen'
  <2>1. \A m \in present : range'[m] = range[m]
    BY <1>1, <1>9 DEF Inserted, TypeOK
  <2> SUFFICES ASSUME NEW u \in Threads, Looking(u)'
               PROVE  /\ \A m \in present :
                           HalfOpenOverlap(range[m], frame'[u].want) => contended'[u]
                      /\ pc'[u] = "overlap" => contended'[u]
    BY <1>2, <2>1 DEF ContentionSeen
  <2>2. CASE u = t
    <3>1. frame'[u].want = r /\ pc'[u] = "read"
      BY <1>4, <1>5, <2>2
    <3>2. \A m \in present : HalfOpenOverlap(range[m], r) => contended'[u]
      BY <1>6, <2>2
    <3> QED BY <3>1, <3>2
  <2>3. CASE u # t
    <3>1. /\ pc'[u] = pc[u] /\ frame'[u] = frame[u]
          /\ contended'[u] = contended[u] /\ Looking(u)
      BY <1>5, <1>6, <2>3 DEF Looking
    <3>2. /\ \A m \in present :
               HalfOpenOverlap(range[m], frame[u].want) => contended[u]
          /\ pc[u] = "overlap" => contended[u]
      BY <3>1 DEF IInv, ContentionSeen
    <3> QED BY <3>1, <3>2
  <2> QED BY <2>2, <2>3
<1>17. Phased'
  <2>1. Running("release")' => Running("release")
    BY <1>4, <1>5 DEF Running
  <2>2. \A L \in SUBSET LNode : Chain(L) => Chain(L)'
    <3> SUFFICES ASSUME NEW L \in SUBSET LNode, Chain(L)
                 PROVE  Chain(L)'
      OBVIOUS
    <3>1. \A m \in L : Inserted(m) /\ Inserted(m)' /\ range'[m] = range[m]
      BY <1>8, <1>9 DEF Chain
    <3>2. \A p \in L \cup {head} : next[p].node # Null =>
             next[p].node \in L /\ range'[next[p].node] = range[next[p].node]
      BY <3>1 DEF Chain
    <3>3. \A p \in L \cup {head}, q \in L :
             \/ p # head /\ range'[q].start <= range'[p].start
             \/ next[p].node # Null /\ range'[next[p].node].start <= range'[q].start
      BY <3>1, <3>2 DEF Chain
    <3>4. \A m1, m2 \in L : m1 # m2 => ~HalfOpenOverlap(range'[m1], range'[m2])
      BY <3>1 DEF Chain
    <3> QED BY <1>2, <3>1, <3>2, <3>3, <3>4 DEF Chain
  <2> QED BY <1>1, <1>2, <2>1, <2>2 DEF IInv, Phased
<1>18. Counted' = Counted
  <2>1. frame[t].op # "release"
    BY <1>1, LabelOp
  <2>2. {u \in Threads : frame'[u].op = "release"} =
          {u \in Threads : frame[u].op = "release"}
    BY <1>4, <1>5, <2>1
  <2>3. \A u \in {v \in Threads : frame[v].op = "release"} : frame'[u] = frame[u]
    BY <1>5, <2>1
  <2> QED BY <1>2, <2>2, <2>3 DEF Counted
<1> QED BY <1>2, <1>7, <1>12, <1>14, <1>15, <1>16, <1>17, <1>18 DEF IInv

-----------------------------------------------------------------------------
(***************************************************************************)
(* The chain of phased clients.  Its ranges are ordered and proper, and    *)
(* the pointer of p skips none of them (the last conjunct of Chain).       *)
(***************************************************************************)
LEMMA ChainFacts ==
  ASSUME IInv, NEW L \in SUBSET LNode, Chain(L)
  PROVE  /\ \A n \in L : /\ range[n].start \in Int /\ range[n].end \in Int
                         /\ range[n].start < range[n].end
         /\ \A m, n \in L : m = n \/ range[m].end <= range[n].start
                                  \/ range[n].end <= range[m].start
         /\ head \notin L /\ Null \notin L
<1>1. \A n \in L : range[n] \in Requests
  BY DEF Chain, IInv, PointersOK
<1>2. \A n \in L : /\ range[n].start \in Int /\ range[n].end \in Int
                   /\ range[n].start < range[n].end
  BY <1>1, ListAssumption DEF RangesOver
<1>3. \A m, n \in L : m = n \/ range[m].end <= range[n].start
                            \/ range[n].end <= range[m].start
  BY <1>2 DEF Chain, HalfOpenOverlap
<1>4. head \notin L /\ Null \notin L
  BY ListAssumption DEF Cells
<1> QED BY <1>2, <1>3, <1>4

(***************************************************************************)
(* An unmarked pointer to an inserted node is one of the chain's.          *)
(***************************************************************************)
LEMMA UnmarkedInChain ==
  ASSUME IInv, NEW L \in SUBSET LNode, Chain(L), NEW p \in Cells,
         p = head \/ Inserted(p), ~next[p].marked
  PROVE  p \in L \cup {head}
  BY DEF Chain, Inserted

(***************************************************************************)
(* Unlinking c behind p: the chain without c.                              *)
(***************************************************************************)
LEMMA ChainSnip ==
  ASSUME IInv, NEW L \in SUBSET LNode, Chain(L),
         NEW p \in L \cup {head}, NEW c \in L, NEW s,
         next[p].node = c, next[c].node = s, c \notin present,
         UNCHANGED <<range, present>>, next'[p].node = s,
         \A n \in Cells \ {p} : next'[n] = next[n],
         \A n : Inserted(n)' <=> Inserted(n)
  PROVE  Chain(L \ {c})'
<1> DEFINE st(n) == range[n].start
           en(n) == range[n].end
           to(n) == next[n].node
<1>0. L \subseteq Cells /\ head \in Cells
  BY DEF Cells
<1>1. /\ \A n \in L : st(n) \in Int /\ en(n) \in Int /\ st(n) < en(n)
      /\ \A m, n \in L : m = n \/ en(m) <= st(n) \/ en(n) <= st(m)
      /\ head \notin L /\ Null \notin L
  BY ChainFacts
<1>2. /\ \A n \in L \cup {head} : to(n) = Null \/ to(n) \in L
      /\ \A n \in L \cup {head}, q \in L :
           \/ n # head /\ st(q) <= st(n)
           \/ to(n) # Null /\ st(to(n)) <= st(q)
  BY DEF Chain
<1>3. /\ \A n \in L : to(n) # Null => en(n) <= st(to(n))
  BY DEF IInv, PointersOK, PointersAscend
<1>4. to(p) = c /\ to(c) = s /\ s # c /\ (s = Null \/ s \in L) /\ p # c
  BY <1>1, <1>2, <1>3
<1> HIDE DEF st, en, to
<1>5. \A n \in L \cup {head} : n # p => to(n) # c
  <2> SUFFICES ASSUME NEW n \in L \cup {head}, n # p, to(n) = c
               PROVE  FALSE
    OBVIOUS
  <2>1. CASE n = head
    <3>1. p \in L /\ p # head
      BY <2>1
    <3>2. st(c) <= st(p)
      BY <1>2, <2>1, <3>1
    <3>3. st(p) < en(p) /\ en(p) <= st(c)
      BY <1>1, <1>3, <1>4, <3>1
    <3> QED BY <1>1, <3>1, <3>2, <3>3
  <2>2. CASE p = head
    <3>1. n \in L /\ n # head
      BY <2>2
    <3>2. st(c) <= st(n)
      BY <1>2, <1>4, <2>2, <3>1
    <3>3. st(n) < en(n) /\ en(n) <= st(c)
      BY <1>1, <1>3, <3>1
    <3> QED BY <1>1, <3>1, <3>2, <3>3
  <2>3. CASE n \in L /\ p \in L
    <3>1. st(n) < en(n) /\ en(n) <= st(c) /\ st(p) < en(p) /\ en(p) <= st(c)
      BY <1>1, <1>3, <1>4, <2>3
    <3>2. st(p) <= st(n) \/ st(c) <= st(p)
      BY <1>2, <2>3
    <3>3. st(n) <= st(p) \/ st(c) <= st(n)
      BY <1>2, <1>4, <2>3
    <3>4. en(n) <= st(p) \/ en(p) <= st(n)
      BY <1>1, <2>3
    <3> QED BY <1>1, <2>3, <3>1, <3>2, <3>3, <3>4
  <2> QED BY <2>1, <2>2, <2>3
<1>6. \A n \in (L \ {c}) \cup {head} :
         /\ n \in Cells
         /\ next'[n].node = IF n = p THEN s ELSE to(n)
  BY <1>0 DEF to
<1>7. \A n \in (L \ {c}) \cup {head} : next'[n].node = Null \/ next'[n].node \in L \ {c}
  BY <1>2, <1>4, <1>5, <1>6
<1>8. \A n \in (L \ {c}) \cup {head}, q \in L \ {c} :
         \/ n # head /\ st(q) <= st(n)
         \/ next'[n].node # Null /\ st(next'[n].node) <= st(q)
  <2> TAKE n \in (L \ {c}) \cup {head}, q \in L \ {c}
  <2>1. CASE n # p
    BY <1>2, <1>6, <2>1
  <2>2. CASE n = p
    <3>1. \/ n # head /\ st(q) <= st(n)
          \/ st(c) <= st(q)
      BY <1>2, <1>4, <2>2
    <3>2. CASE st(c) <= st(q)
      <4>1. \/ st(q) <= st(c)
            \/ s # Null /\ st(s) <= st(q)
        BY <1>2, <1>4
      <4>2. /\ st(q) \in Int /\ st(c) \in Int /\ st(c) < en(c) /\ st(q) < en(q)
            /\ en(q) \in Int /\ en(c) \in Int
            /\ en(q) <= st(c) \/ en(c) <= st(q)
        BY <1>1
      <4>3. ~(st(q) <= st(c))
        BY <3>2, <4>2
      <4> QED BY <1>6, <2>2, <4>1, <4>3
    <3> QED BY <3>1, <3>2
  <2> QED BY <2>1, <2>2
<1>9. \A n \in (L \ {c}) \cup {head}, q \in L \ {c} :
         \/ n # head /\ range'[q].start <= range'[n].start
         \/ next'[n].node # Null /\ range'[next'[n].node].start <= range'[q].start
  BY <1>8 DEF st
<1>10. present' \subseteq L \ {c} /\ \A n \in L \ {c} : Inserted(n)'
  BY DEF Chain
<1>11. \A m, n \in L \ {c} : m # n => ~HalfOpenOverlap(range'[m], range'[n])
  BY DEF Chain
<1>12. PICK M : M = L \ {c}
  OBVIOUS
<1>13. Chain(M)'
  BY <1>7, <1>9, <1>10, <1>11, <1>12 DEF Chain
<1> QED BY <1>12, <1>13

(***************************************************************************)
(* Linking x between p and its successor c: the chain with x.  Nothing in  *)
(* the chain overlaps x, since the pointer of p skips nothing.             *)
(***************************************************************************)
LEMMA ChainInsert ==
  ASSUME IInv, NEW L \in SUBSET LNode, Chain(L), NEW x \in LNode, x \notin L,
         range[x] \in Requests,
         NEW p \in L \cup {head}, NEW c, next[p].node = c,
         p # head => range[p].end <= range[x].start,
         c # Null => range[x].end <= range[c].start,
         UNCHANGED range, present' = present \cup {x},
         next'[p].node = x, next'[x].node = c,
         \A n \in Cells \ {p, x} : next'[n] = next[n],
         \A n \in LNode : Inserted(n)' <=> Inserted(n) \/ n = x
  PROVE  Chain(L \cup {x})'
<1> DEFINE st(n) == range[n].start
           en(n) == range[n].end
           to(n) == next[n].node
<1>0. L \subseteq Cells /\ head \in Cells
  BY DEF Cells
<1>1. /\ \A n \in L : st(n) \in Int /\ en(n) \in Int /\ st(n) < en(n)
      /\ \A m, n \in L : m = n \/ en(m) <= st(n) \/ en(n) <= st(m)
      /\ head \notin L /\ Null \notin L
  BY ChainFacts
<1>2. /\ \A n \in L \cup {head} : to(n) = Null \/ to(n) \in L
      /\ \A n \in L \cup {head}, q \in L :
           \/ n # head /\ st(q) <= st(n)
           \/ to(n) # Null /\ st(to(n)) <= st(q)
  BY DEF Chain
<1>3. /\ st(x) \in Int /\ en(x) \in Int /\ st(x) < en(x)
      /\ x # head /\ x # Null
  BY ListAssumption DEF RangesOver, Cells
<1>4. /\ p # head => p \in L /\ en(p) <= st(x)
      /\ c # Null => en(x) <= st(c)
  BY <1>2
<1>5. \A q \in L : \/ p # head /\ st(q) <= st(p)
                   \/ c # Null /\ st(c) <= st(q)
  <2>1. to(p) = c
    OBVIOUS
  <2> QED BY <1>2, <2>1
<1>6. c = Null \/ c \in L
  BY <1>2
<1>7. to(p) = c
  OBVIOUS
<1> HIDE DEF st, en, to
<1>8. \A q \in L : \/ en(q) <= st(x) /\ p # head /\ st(q) <= st(p)
                   \/ en(x) <= st(q) /\ c # Null /\ st(c) <= st(q)
  <2> TAKE q \in L
  <2>1. CASE p # head /\ st(q) <= st(p)
    <3>1. q = p \/ en(q) <= st(p) \/ en(p) <= st(q)
      BY <1>1, <1>4, <2>1
    <3>2. /\ st(p) \in Int /\ en(p) \in Int /\ st(p) < en(p) /\ en(p) <= st(x)
          /\ st(q) \in Int /\ en(q) \in Int /\ st(q) < en(q)
      BY <1>1, <1>4, <2>1
    <3> QED BY <1>3, <2>1, <3>1, <3>2
  <2>2. CASE c # Null /\ st(c) <= st(q)
    BY <1>1, <1>3, <1>4, <1>6, <2>2
  <2> QED BY <1>5, <2>1, <2>2
<1>9. \A n \in L \cup {x, head} :
         next'[n].node = IF n = p THEN x ELSE IF n = x THEN c ELSE to(n)
  BY <1>0 DEF to
<1>10. \A n \in L \cup {x, head} : next'[n].node = Null \/ next'[n].node \in L \cup {x}
  BY <1>2, <1>6, <1>9
<1>11. \A n \in L \cup {x, head}, q \in L \cup {x} :
         \/ n # head /\ st(q) <= st(n)
         \/ next'[n].node # Null /\ st(next'[n].node) <= st(q)
  <2> TAKE n \in L \cup {x, head}, q \in L \cup {x}
  <2>1. CASE n = p /\ q = x
    BY <1>3, <1>9, <2>1
  <2>2. CASE n = x /\ q = x
    BY <1>3, <2>2
  <2>3. CASE n = p /\ q \in L
    <3>1. next'[n].node = x
      BY <1>9, <2>3
    <3>2. en(x) <= st(q) => st(x) <= st(q)
      BY <1>1, <1>3, <2>3
    <3> QED BY <1>3, <1>8, <2>3, <3>1, <3>2
  <2>4. CASE n = x /\ q \in L
    <3>1. next'[n].node = c
      BY <1>9, <2>4
    <3>2. en(q) <= st(x) => st(q) <= st(x)
      BY <1>1, <1>3, <2>4
    <3> QED BY <1>3, <1>8, <2>4, <3>1, <3>2
  <2>5. CASE n # p /\ n # x /\ q \in L
    <3>1. next'[n].node = to(n) /\ n \in L \cup {head}
      BY <1>9, <2>5
    <3> QED BY <1>2, <2>5, <3>1
  <2>6. CASE n # p /\ n # x /\ n \in L /\ q = x
    <3>1. CASE en(x) <= st(n)
      BY <1>1, <1>3, <2>6, <3>1
    <3>2. CASE p # head /\ st(n) <= st(p)
      <4>1. en(n) <= st(p) \/ en(p) <= st(n)
        BY <1>1, <1>4, <2>6, <3>2
      <4>2. st(p) <= st(n) \/ (to(n) # Null /\ st(to(n)) <= st(p))
        BY <1>2, <1>4, <2>6, <3>2
      <4>3. /\ st(p) \in Int /\ en(p) \in Int /\ st(p) < en(p) /\ en(p) <= st(x)
            /\ st(n) \in Int /\ en(n) \in Int /\ st(n) < en(n)
        BY <1>1, <1>4, <2>6, <3>2
      <4>4. to(n) # Null /\ st(to(n)) <= st(p)
        BY <3>2, <4>1, <4>2, <4>3
      <4>5. st(to(n)) \in Int
        BY <1>1, <1>2, <2>6, <4>4
      <4>6. st(to(n)) <= st(x)
        BY <1>3, <4>3, <4>4, <4>5
      <4> QED BY <1>9, <2>6, <4>4, <4>6
    <3> QED BY <1>8, <2>6, <3>1, <3>2
  <2>7. CASE n # p /\ n = head /\ q = x
    <3>1. p \in L /\ p # head /\ to(head) # Null /\ st(to(head)) <= st(p)
      BY <1>2, <2>7
    <3>2. /\ st(p) \in Int /\ en(p) \in Int /\ st(p) < en(p) /\ en(p) <= st(x)
          /\ st(to(head)) \in Int
      BY <1>1, <1>2, <1>4, <3>1
    <3>3. st(to(head)) <= st(x)
      BY <1>3, <3>1, <3>2
    <3>4. next'[n].node = to(head)
      BY <1>3, <1>9, <2>7
    <3> QED BY <2>7, <3>1, <3>3, <3>4
  <2> QED BY <2>1, <2>2, <2>3, <2>4, <2>5, <2>6, <2>7
<1>12. PICK M : M = L \cup {x}
  OBVIOUS
<1>13. \A n \in M \cup {head}, q \in M :
         \/ n # head /\ range'[q].start <= range'[n].start
         \/ next'[n].node # Null /\ range'[next'[n].node].start <= range'[q].start
  BY <1>11, <1>12 DEF st
<1>14. present' \subseteq M /\ \A n \in M : Inserted(n)'
  BY <1>12 DEF Chain
<1>15. \A m, n \in M : m # n => ~HalfOpenOverlap(range'[m], range'[n])
  <2>1. \A q \in L : ~HalfOpenOverlap(range[x], range[q])
    BY <1>1, <1>3, <1>8 DEF HalfOpenOverlap, st, en
  <2>2. \A q \in L : ~HalfOpenOverlap(range[q], range[x])
    BY <1>1, <1>3, <1>8 DEF HalfOpenOverlap, st, en
  <2> QED BY <1>12, <2>1, <2>2 DEF Chain
<1>16. Chain(M)'
  BY <1>10, <1>12, <1>13, <1>14, <1>15 DEF Chain
<1> QED BY <1>12, <1>16

(***************************************************************************)
(* StoreMarked: the node is deleted.  With phased clients the plain store  *)
(* leaves its successor alone.                                             *)
(***************************************************************************)
LEMMA StoreMarkedStep ==
  ASSUME IInv, NEW t \in Threads, StoreMarked(t), UNCHANGED phased
  PROVE  IInv'
<1>0. /\ frame[t] \in Frames /\ pc[t] = "store" /\ TypeOK
      /\ FrameOK("store", frame[t])
  BY ThreadFacts DEF StoreMarked
<1>f. PICK f \in Frames : f = frame[t]
  BY <1>0
<1>n. PICK n \in present \ owned : n = f.lock
  BY <1>0, <1>f DEF FrameOK
<1> DEFINE g == [f EXCEPT !.succ = Null]
<1>1. /\ next' = [next EXCEPT ![n] = Ptr(f.succ, TRUE)]
      /\ present' = present \ {n} /\ Go(t, "uncount", g)
      /\ UNCHANGED <<range, elementsCount, calls, owned, contended, phased>>
  BY <1>f, <1>n DEF StoreMarked
<1>2. /\ n \in LNode /\ n \in Cells /\ n # head /\ ~next[n].marked
      /\ f.succ \in LNode \cup {Null}
      /\ f.op = "release" /\ f.want = range[n]
  BY <1>0, <1>f, <1>n, ListAssumption DEF IInv, TypeOK, PointersOK, Cells, Frames, FrameOK
<1>3. /\ g \in Frames /\ g.op = f.op /\ g.lock = n /\ g.want = f.want
  BY <1>n DEF Frames
<1> HIDE DEF g
<1>4. /\ pc' \in [Threads -> Labels] /\ frame' \in [Threads -> Frames]
      /\ pc'[t] = "uncount" /\ frame'[t] = g
      /\ \A u \in Threads \ {t} : pc'[u] = pc[u] /\ frame'[u] = frame[u]
  BY <1>0, <1>1, <1>3, GoFacts DEF Labels
<1>5. /\ next' \in [Cells -> Pointers]
      /\ next'[n].node = f.succ /\ next'[n].marked
      /\ \A m \in Cells \ {n} : next'[m] = next[m]
  BY <1>0, <1>1, <1>2 DEF TypeOK, Ptr, Pointers
<1>6. TypeOK'
  BY <1>0, <1>1, <1>4, <1>5 DEF TypeOK
<1>7. \A m : Inserted(m)' <=> Inserted(m)
  BY <1>1, <1>2, <1>5 DEF Inserted, Cells
<1>8. Stable
  <2>1. \A m \in Cells : next[m].marked => next'[m] = next[m]
    BY <1>2, <1>5
  <2>2. \A m \in LNode : Inserted(m) => Inserted(m)' /\ range'[m] = range[m]
    BY <1>1, <1>7
  <2>3. calls <= calls'
    BY <1>0, <1>1, ListAssumption DEF TypeOK
  <2> QED BY <1>1, <2>1, <2>2, <2>3 DEF Stable
<1>9. f.succ = Null \/ (Inserted(f.succ) /\ range[n].end <= range[f.succ].start)
  BY <1>0, <1>f, <1>n DEF FrameOK
<1>10. PointersOK'
  <2>1. \A m \in Cells : (next[m].node # Null => Inserted(next[m].node))'
    <3> SUFFICES ASSUME NEW m \in Cells, next'[m].node # Null
                 PROVE  Inserted(next[m].node)'
      OBVIOUS
    <3>1. PICK k : k = next'[m].node
      OBVIOUS
    <3>2. Inserted(k)
      BY <1>5, <1>9, <3>1 DEF IInv, PointersOK
    <3>3. Inserted(k)'
      BY <1>7, <3>2
    <3> QED BY <3>1, <3>3 DEF Inserted
  <2>2. \A m \in LNode : ~Inserted(m)' => next'[m].node = Null
    BY <1>5, <1>7, <1>n DEF IInv, PointersOK, Inserted, Cells
  <2>3. PointersAscend'
    BY <1>1, <1>2, <1>5, <1>9 DEF IInv, PointersOK, PointersAscend, Cells
  <2>4. ~next'[head].marked /\ \A m \in present' : ~next'[m].marked
    BY <1>0, <1>1, <1>2, <1>5 DEF IInv, PointersOK, Cells, TypeOK
  <2>5. \A m \in LNode : Inserted(m)' => m <= calls' /\ range'[m] \in Requests
    BY <1>1, <1>7 DEF IInv, PointersOK
  <2> QED BY <2>1, <2>2, <2>3, <2>4, <2>5 DEF PointersOK
<1>11. \A u \in Threads \ {t} : pc[u] # "idle" => frame[u].lock # n
  BY <1>0, <1>f, <1>n DEF IInv, Apart
<1>12. \A u \in Threads : FrameOK(pc[u], frame[u])'
  <2> TAKE u \in Threads
  <2>1. CASE u = t
    <3>2. PICK h \in Frames : h = g
      BY <1>3
    <3>3. FrameOK("uncount", h)'
      BY <1>1, <1>2, <1>3, <1>5, <3>2 DEF FrameOK, Search
    <3> QED BY <1>4, <2>1, <3>2, <3>3
  <2>2. CASE u # t
    <3>1. pc'[u] = pc[u] /\ frame'[u] = frame[u] /\ FrameOK(pc[u], frame[u])
      BY <1>4, <2>2, ThreadFacts
    <3>2. pc[u] \in {"count", "load", "store"} =>
            /\ frame[u].lock \in present' \ owned' /\ frame[u].lock \in Cells
            /\ frame[u].lock # n
      BY <1>0, <1>1, <1>11, <2>2, <3>1 DEF FrameOK, TypeOK, Cells
    <3>3. Looking(u) => ~Inserted(frame[u].lock)'
      BY <1>7, <3>1 DEF FrameOK, Looking, Inserted
    <3>4. pc[u] = "store" => next'[frame[u].lock].node = next[frame[u].lock].node
      BY <1>5, <3>2
    <3> QED BY <1>1, <1>6, <1>8, <3>1, <3>2, <3>3, <3>4, StableFrame
  <2> QED BY <2>1, <2>2
<1>13. Apart'
  BY <1>0, <1>1, <1>3, <1>4, <1>f, <1>n DEF IInv, Apart
<1>14. ContentionSeen'
  BY <1>1, <1>4 DEF IInv, ContentionSeen, Looking, Search
<1>15. Counted' = Counted
  <2>1. \A u \in Threads : frame'[u].op = frame[u].op /\ frame'[u].lock = frame[u].lock
    BY <1>3, <1>4, <1>f, <1>n
  <2> QED BY <1>1, <2>1 DEF Counted
<1>16. Phased'
  <2> SUFFICES ASSUME phased
               PROVE  /\ ~(Running("acquire") /\ Running("release"))'
                      /\ \E L \in SUBSET LNode : Chain(L)'
    BY <1>1 DEF Phased
  <2>1. \A u \in Threads : frame'[u].op = frame[u].op
    BY <1>3, <1>4, <1>f
  <2>2. \A m \in Cells : next'[m].node = next[m].node
    BY <1>0, <1>5, <1>f, <1>n DEF FrameOK
  <2>3. PICK L \in SUBSET LNode : Chain(L)
    BY DEF IInv, Phased
  <2>4. \A m \in L \cup {head} : next'[m].node = next[m].node
    BY <2>2 DEF Cells
  <2>5. Chain(L)'
    BY <1>1, <1>7, <2>3, <2>4 DEF Chain
  <2>6. ~(Running("acquire") /\ Running("release"))'
    BY <2>1 DEF IInv, Phased, Running
  <2> QED BY <2>5, <2>6
<1> QED BY <1>1, <1>6, <1>10, <1>12, <1>13, <1>14, <1>15, <1>16 DEF IInv

(***************************************************************************)
(* Snip: whether cur is unlinked or not, the search goes on behind it.     *)
(***************************************************************************)
LEMMA SnipStep ==
  ASSUME IInv, NEW t \in Threads, Snip(t), UNCHANGED phased
  PROVE  IInv'
<1>0. /\ frame[t] \in Frames /\ pc[t] = "snip" /\ TypeOK /\ Looking(t)
      /\ FrameOK("snip", frame[t])
  BY ThreadFacts DEF Snip, Looking, Search
<1>f. PICK f \in Frames : f = frame[t]
  BY <1>0
<1> DEFINE c == f.succ
           p == IF c = Null THEN "insert" ELSE "check"
           g == [f EXCEPT !.cur = c, !.succ = Null]
<1>1. /\ UNCHANGED <<range, present, elementsCount, calls, owned, contended, phased>>
      /\ Go(t, p, g)
  BY <1>f DEF Snip, Visit
<1>2. /\ f.cur \in LNode /\ f.cur \in Cells /\ Inserted(f.cur)
      /\ next[f.cur].node = f.succ /\ next[f.cur].marked
      /\ f.prev \in Cells /\ (f.prev = head \/ Inserted(f.prev))
  BY <1>0, <1>f DEF FrameOK, Search, Inserted, Cells, Frames, Ptr
<1>3. c \in LNode \cup {Null} /\ (c = Null \/ Inserted(c))
  BY <1>0, <1>2, <1>f DEF IInv, PointersOK, TypeOK, Pointers, Frames
<1>4. /\ p \in Labels /\ p \in Search /\ g \in Frames /\ FrameOK(p, g)
      /\ g.op = f.op /\ g.lock = f.lock /\ g.want = f.want
  BY <1>0, <1>f, <1>3, VisitFacts, ZenonT(60) DEF Search
<1>5. p # "idle" /\ p # "overlap" /\ p # "store" /\ p # "count"
  OBVIOUS
<1>6. CASE next' = next
  <2> HIDE DEF p, g
  <2> QED BY <1>0, <1>1, <1>4, <1>5, <1>6, <1>f, QuietStep
<1>7. CASE /\ next[f.prev] = Ptr(f.cur, FALSE)
           /\ next' = [next EXCEPT ![f.prev] = Ptr(f.succ, FALSE)]
  <2>2. /\ f.prev \in Cells /\ (f.prev = head \/ Inserted(f.prev))
        /\ next[f.prev].node = f.cur /\ ~next[f.prev].marked
    BY <1>0, <1>f, <1>7 DEF FrameOK, Search, Frames, Ptr
  <2>3. /\ next' \in [Cells -> Pointers]
        /\ next'[f.prev].node = f.succ /\ ~next'[f.prev].marked
        /\ \A m \in Cells \ {f.prev} : next'[m] = next[m]
    BY <1>0, <1>7, <2>2 DEF TypeOK, Ptr, Pointers, Frames
  <2>4. \A m \in Cells : next'[m].marked <=> next[m].marked
    BY <2>2, <2>3
  <2>5. \A m : Inserted(m)' <=> Inserted(m)
    BY <1>1, <2>4 DEF Inserted, Cells
  <2>6. Stable
    BY <1>0, <1>1, <2>2, <2>3, <2>5, ListAssumption DEF Stable, TypeOK
  <2>7. PointersOK'
    <3>1. \A m \in Cells : (next[m].node # Null => Inserted(next[m].node))'
      <4> SUFFICES ASSUME NEW m \in Cells, next'[m].node # Null
                   PROVE  Inserted(next[m].node)'
        OBVIOUS
      <4>1. PICK k : k = next'[m].node
        OBVIOUS
      <4>2. Inserted(k)
        BY <1>3, <2>3, <4>1 DEF IInv, PointersOK
      <4>3. Inserted(k)'
        BY <2>5, <4>2
      <4> QED BY <4>1, <4>3 DEF Inserted
    <3>2. \A m \in LNode : ~Inserted(m)' => next'[m].node = Null
      <4> TAKE m \in LNode
      <4>1. m \in Cells /\ m # head
        BY ListAssumption DEF Cells
      <4> QED BY <2>2, <2>3, <2>5, <4>1 DEF IInv, PointersOK
    <3>3. PointersAscend'
      <4> SUFFICES ASSUME NEW m \in LNode, next'[m].node # Null
                   PROVE  range[m].end <= range[next'[m].node].start
        BY <1>1 DEF PointersAscend
      <4>1. m \in Cells /\ m # head
        BY ListAssumption DEF Cells
      <4>2. CASE m # f.prev
        BY <2>3, <4>1, <4>2 DEF IInv, PointersOK, PointersAscend
      <4>3. CASE m = f.prev
        <5>1. /\ Inserted(m) /\ f.cur # Null /\ next'[m].node = c /\ c # Null
              /\ c \in LNode
          BY <1>2, <1>3, <2>2, <2>3, <4>1, <4>3, ListAssumption DEF Cells
        <5>2. /\ range[m].end <= range[f.cur].start
              /\ range[f.cur].end <= range[c].start
          BY <1>2, <2>2, <4>3, <5>1 DEF IInv, PointersOK, PointersAscend
        <5>3. range[m] \in Requests /\ range[f.cur] \in Requests /\ range[c] \in Requests
          BY <1>2, <1>3, <5>1 DEF IInv, PointersOK
        <5>4. /\ range[m].end \in Int /\ range[c].start \in Int
              /\ range[f.cur].start \in Int /\ range[f.cur].end \in Int
              /\ range[f.cur].start < range[f.cur].end
          BY <5>3, ListAssumption DEF RangesOver
        <5> QED BY <5>1, <5>2, <5>4
      <4> QED BY <4>2, <4>3
    <3>4. ~next'[head].marked /\ \A m \in present' : ~next'[m].marked
      BY <1>0, <1>1, <2>4 DEF IInv, PointersOK, Cells, TypeOK
    <3>5. \A m \in LNode : Inserted(m)' => m <= calls' /\ range'[m] \in Requests
      BY <1>1, <2>5 DEF IInv, PointersOK
    <3> QED BY <3>1, <3>2, <3>3, <3>4, <3>5 DEF PointersOK
  <2>p. PICK lbl \in Labels : lbl = p
    BY <1>4
  <2>g. PICK h \in Frames : h = g
    BY <1>4
  <2> HIDE DEF p, g
  <2>8. /\ pc' \in [Threads -> Labels] /\ frame' \in [Threads -> Frames]
        /\ pc'[t] = lbl /\ frame'[t] = h
        /\ \A u \in Threads \ {t} : pc'[u] = pc[u] /\ frame'[u] = frame[u]
    BY <1>0, <1>1, <1>4, <2>p, <2>g, GoFacts
  <2>9. TypeOK'
    BY <1>0, <1>1, <2>3, <2>8 DEF TypeOK
  <2>10. \A u \in Threads : phased => pc[u] # "store"
    <3>1. Running("acquire")
      BY <1>0, LabelOp DEF Running
    <3> QED BY <3>1, LabelOp DEF IInv, Phased, Running
  <2>11. \A u \in Threads : FrameOK(pc[u], frame[u])'
    <3> TAKE u \in Threads
    <3>1. CASE u = t
      <4>1. FrameOK(lbl, h)
        BY <1>4, <2>p, <2>g
      <4>2. lbl \in {"insert", "check"}
        BY <2>p DEF p
      <4>3. FrameOK(lbl, h)'
        BY <1>1, <2>5, <4>1, <4>2 DEF FrameOK, Search
      <4> QED BY <2>8, <3>1, <4>3
    <3>2. CASE u # t
      <4>1. pc'[u] = pc[u] /\ frame'[u] = frame[u] /\ FrameOK(pc[u], frame[u])
        BY <2>8, <3>2, ThreadFacts
      <4>2. pc[u] \in {"count", "load", "store"} =>
              frame[u].lock \in present' \ owned'
        BY <1>1, <4>1 DEF FrameOK
      <4>3. Looking(u) => ~Inserted(frame[u].lock)'
        BY <2>5, <4>1 DEF FrameOK, Looking, Inserted
      <4> QED BY <1>1, <2>6, <2>9, <2>10, <4>1, <4>2, <4>3, StableFrame
    <3> QED BY <3>1, <3>2
  <2>12. /\ \A u \in Threads : /\ frame'[u].op = frame[u].op
                               /\ frame'[u].lock = frame[u].lock
                               /\ frame'[u].want = frame[u].want
                               /\ pc'[u] # "idle" => pc[u] # "idle"
                               /\ Looking(u)' => Looking(u)
                               /\ pc'[u] = "overlap" => pc[u] = "overlap"
    BY <1>0, <1>4, <1>5, <1>f, <2>8, <2>p, <2>g DEF Looking, Search
  <2>13. Apart'
    BY <1>1, <2>12 DEF IInv, Apart
  <2>14. ContentionSeen'
    BY <1>1, <2>12 DEF IInv, ContentionSeen
  <2>15. Counted' = Counted
    BY <1>1, <2>12 DEF Counted
  <2>16. Phased'
    <3> SUFFICES ASSUME phased
                 PROVE  /\ ~(Running("acquire") /\ Running("release"))'
                        /\ \E L \in SUBSET LNode : Chain(L)'
      BY <1>1 DEF Phased
    <3>1. ~(Running("acquire") /\ Running("release"))'
      BY <2>12 DEF IInv, Phased, Running
    <3>2. PICK L \in SUBSET LNode : Chain(L)
      BY DEF IInv, Phased
    <3>3. f.prev \in L \cup {head}
      BY <2>2, <3>2, UnmarkedInChain
    <3>4. f.cur \in L
      BY <1>2, <2>2, <3>2, <3>3, ListAssumption DEF Chain, Cells
    <3>5. f.cur \notin present
      BY <1>2 DEF IInv, PointersOK
    <3>6. Chain(L \ {f.cur})'
      BY <1>1, <1>2, <2>2, <2>3, <2>5, <3>2, <3>3, <3>4, <3>5, ChainSnip
    <3>7. PICK M \in SUBSET LNode : M = L \ {f.cur}
      OBVIOUS
    <3> QED BY <3>1, <3>6, <3>7
  <2> QED BY <1>1, <2>7, <2>9, <2>11, <2>13, <2>14, <2>15, <2>16 DEF IInv
<1> QED BY <1>6, <1>7, <1>f DEF Snip

(***************************************************************************)
(* Insert: a new node is linked, or the search reads prev again.           *)
(***************************************************************************)
LEMMA InsertStep ==
  ASSUME IInv, NEW t \in Threads, Insert(t), UNCHANGED phased
  PROVE  IInv'
<1>0. /\ frame[t] \in Frames /\ pc[t] = "insert" /\ TypeOK /\ Looking(t)
      /\ FrameOK("insert", frame[t])
  BY ThreadFacts DEF Insert, Looking, Search
<1>f. PICK f \in Frames : f = frame[t]
  BY <1>0
<1>1. UNCHANGED <<range, elementsCount, calls, owned, phased>>
  BY DEF Insert
<1>2. CASE /\ Go(t, "read", [f EXCEPT !.cur = Null])
           /\ UNCHANGED <<next, present, contended>>
  <2> DEFINE g == [f EXCEPT !.cur = Null]
  <2>1. /\ g \in Frames /\ g.op = f.op /\ g.lock = f.lock /\ g.want = f.want
        /\ g.prev = f.prev
    BY DEF Frames
  <2>2. Go(t, "read", g)
    BY <1>2
  <2> HIDE DEF g
  <2>3. FrameOK("read", g)
    BY <1>0, <1>f, <2>1 DEF FrameOK, Search
  <2> QED BY <1>0, <1>1, <1>2, <1>f, <2>1, <2>2, <2>3, QuietStep DEF Search, Labels
<1>3. CASE /\ next[f.prev] = Ptr(f.cur, FALSE)
           /\ next' = [next EXCEPT ![f.lock] = Ptr(f.cur, FALSE),
                                   ![f.prev] = Ptr(f.lock, FALSE)]
           /\ present' = present \cup {f.lock}
           /\ contended' = [u \in Threads |->
                u # t /\ ( \/ contended[u]
                           \/ /\ frame[u].op = "acquire" /\ pc[u] # "count"
                              /\ HalfOpenOverlap(f.want, frame[u].want) )]
           /\ Go(t, "count", [f EXCEPT !.prev = head, !.cur = Null])
  <2>x. PICK x \in LNode : x = f.lock
    BY <1>0, <1>f DEF FrameOK, Search
  <2>g. PICK g \in Frames : g = [f EXCEPT !.prev = head, !.cur = Null]
    BY DEF Frames, Cells
  <2>1. /\ ~Inserted(x) /\ x <= calls /\ range[x] \in Requests /\ f.want = range[x]
        /\ f.prev \in Cells /\ (f.prev = head \/ Inserted(f.prev))
        /\ f.prev # head => range[f.prev].end <= range[x].start
        /\ f.cur = Null \/ (Inserted(f.cur) /\ range[x].end <= range[f.cur].start)
        /\ f.cur \in LNode \cup {Null} /\ f.op = "acquire"
    BY <1>0, <1>f, <2>x DEF FrameOK, Search, Frames
  <2>2. /\ next[f.prev].node = f.cur /\ ~next[f.prev].marked
        /\ x # head /\ x \in Cells /\ f.prev # x /\ x \notin present
    BY <1>3, <2>1, ListAssumption DEF Ptr, Cells, Inserted
  <2>3. /\ next' \in [Cells -> Pointers]
        /\ next'[f.prev].node = x /\ ~next'[f.prev].marked
        /\ next'[x].node = f.cur /\ ~next'[x].marked
        /\ \A m \in Cells \ {x, f.prev} : next'[m] = next[m]
    BY <1>0, <1>3, <2>1, <2>2, <2>x DEF TypeOK, Ptr, Pointers
  <2>4. \A m \in Cells : next'[m].marked <=> next[m].marked
    BY <2>1, <2>2, <2>3 DEF Inserted
  <2>5. \A m \in LNode : Inserted(m)' <=> Inserted(m) \/ m = x
    BY <1>3, <2>4, <2>x DEF Inserted, Cells
  <2>6. Stable
    <3>1. \A m \in Cells : next[m].marked => next'[m] = next[m]
      BY <2>1, <2>2, <2>3, <2>4
    <3>2. \A m \in LNode : Inserted(m) => Inserted(m)' /\ range'[m] = range[m]
      BY <1>1, <2>5
    <3>3. calls <= calls'
      BY <1>0, <1>1, ListAssumption DEF TypeOK
    <3> QED BY <1>1, <3>1, <3>2, <3>3 DEF Stable
  <2>7. PointersOK'
    <3>1. \A m \in Cells : (next[m].node # Null => Inserted(next[m].node))'
      <4> SUFFICES ASSUME NEW m \in Cells, next'[m].node # Null
                   PROVE  Inserted(next[m].node)'
        OBVIOUS
      <4>1. PICK k : k = next'[m].node
        OBVIOUS
      <4>2. k \in LNode /\ (Inserted(k) \/ k = x)
        BY <2>1, <2>3, <4>1 DEF IInv, PointersOK, Inserted
      <4>3. Inserted(k)'
        BY <2>5, <4>2
      <4> QED BY <4>1, <4>3 DEF Inserted
    <3>2. \A m \in LNode : ~Inserted(m)' => next'[m].node = Null
      <4> SUFFICES ASSUME NEW m \in LNode, ~Inserted(m)'
                   PROVE  next'[m].node = Null
        OBVIOUS
      <4>1. m \in Cells /\ m # head /\ m # x /\ ~Inserted(m)
        BY <2>5, ListAssumption DEF Cells
      <4>2. next'[m] = next[m]
        BY <2>1, <2>3, <4>1
      <4> QED BY <4>1, <4>2 DEF IInv, PointersOK
    <3>3. PointersAscend'
      <4> SUFFICES ASSUME NEW m \in LNode, next'[m].node # Null
                   PROVE  range[m].end <= range[next'[m].node].start
        BY <1>1 DEF PointersAscend
      <4>1. m \in Cells /\ m # head
        BY ListAssumption DEF Cells
      <4>2. CASE m # f.prev /\ m # x
        BY <2>3, <4>1, <4>2 DEF IInv, PointersOK, PointersAscend
      <4>3. CASE m = f.prev
        BY <2>1, <2>3, <4>1, <4>3
      <4>4. CASE m = x
        BY <2>1, <2>3, <4>4
      <4> QED BY <4>2, <4>3, <4>4
    <3>4. ~next'[head].marked /\ \A m \in present' : ~next'[m].marked
      BY <1>0, <1>3, <2>3, <2>4, <2>x DEF IInv, PointersOK, Cells, TypeOK
    <3>5. \A m \in LNode : Inserted(m)' => m <= calls' /\ range'[m] \in Requests
      BY <1>1, <2>1, <2>5 DEF IInv, PointersOK
    <3> QED BY <3>1, <3>2, <3>3, <3>4, <3>5 DEF PointersOK
  <2>8. /\ pc' \in [Threads -> Labels] /\ frame' \in [Threads -> Frames]
        /\ pc'[t] = "count" /\ frame'[t] = g
        /\ \A u \in Threads \ {t} : pc'[u] = pc[u] /\ frame'[u] = frame[u]
    BY <1>0, <1>3, <2>g, GoFacts DEF Labels
  <2>9. g.op = "acquire" /\ g.lock = x /\ g.want = range[x]
    BY <2>1, <2>x, <2>g DEF Frames
  <2>10. /\ contended' \in [Threads -> BOOLEAN]
         /\ \A u \in Threads \ {t} :
              contended'[u] <=>
                 \/ contended[u]
                 \/ /\ frame[u].op = "acquire" /\ pc[u] # "count"
                    /\ HalfOpenOverlap(f.want, frame[u].want)
    <3>1. \A u \in Threads : contended[u] \in BOOLEAN
      BY <1>0 DEF TypeOK
    <3> QED BY <1>3, <3>1 DEF HalfOpenOverlap
  <2>11. TypeOK'
    <3>1. present' \in SUBSET LNode
      BY <1>0, <1>3, <2>x DEF TypeOK
    <3> QED BY <1>0, <1>1, <2>3, <2>8, <2>10, <3>1 DEF TypeOK
  <2>12. \A u \in Threads : phased => pc[u] # "store"
    <3>1. Running("acquire")
      BY <1>0, LabelOp DEF Running
    <3> QED BY <3>1, LabelOp DEF IInv, Phased, Running
  <2>13. \A u \in Threads \ {t} : pc[u] # "idle" => frame[u].lock # x
    BY <1>0, <1>f, <2>x DEF IInv, Apart
  <2>14. x \in present' \ owned'
    BY <1>1, <1>3, <2>2, <2>x DEF IInv, Apart
  <2>15. \A u \in Threads : FrameOK(pc[u], frame[u])'
    <3> TAKE u \in Threads
    <3>1. CASE u = t
      <4>1. FrameOK("count", g)'
        BY <1>1, <2>9, <2>14 DEF FrameOK, Search
      <4> QED BY <2>8, <3>1, <4>1
    <3>2. CASE u # t
      <4>1. pc'[u] = pc[u] /\ frame'[u] = frame[u] /\ FrameOK(pc[u], frame[u])
        BY <2>8, <3>2, ThreadFacts
      <4>2. pc[u] \in {"count", "load", "store"} =>
              frame[u].lock \in present' \ owned'
        BY <1>1, <1>3, <4>1 DEF FrameOK
      <4>3. Looking(u) => ~Inserted(frame[u].lock)'
        <5> HAVE Looking(u)
        <5>1. PICK k \in LNode : k = frame[u].lock
          BY <4>1 DEF FrameOK, Looking
        <5>2. ~Inserted(k) /\ k # x
          BY <2>13, <3>2, <4>1, <5>1 DEF FrameOK, Looking, Search
        <5>3. ~Inserted(k)'
          BY <2>5, <5>2
        <5> QED BY <4>1, <5>1, <5>3 DEF Inserted
      <4> QED BY <1>1, <2>6, <2>11, <2>12, <4>1, <4>2, <4>3, StableFrame
    <3> QED BY <3>1, <3>2
  <2>16. \A u \in Threads : /\ frame'[u].op = frame[u].op
                            /\ frame'[u].lock = frame[u].lock
                            /\ frame'[u].want = frame[u].want
                            /\ pc'[u] # "idle" => pc[u] # "idle"
    BY <1>0, <1>f, <2>1, <2>8, <2>9, <2>x
  <2>17. Apart'
    BY <1>1, <1>3, <2>16 DEF IInv, Apart
  <2>18. ContentionSeen'
    <3> SUFFICES ASSUME NEW u \in Threads, Looking(u)'
                 PROVE  /\ \A n \in present' :
                             HalfOpenOverlap(range[n], frame[u].want) => contended'[u]
                        /\ pc'[u] = "overlap" => contended'[u]
      BY <1>1, <2>16 DEF ContentionSeen
    <3>1. u # t /\ pc'[u] = pc[u] /\ Looking(u)
      BY <2>8 DEF Looking, Search
    <3>2. frame[u].op = "acquire" /\ pc[u] # "count"
      BY <3>1, LabelOp DEF Looking, Search
    <3>3. HalfOpenOverlap(range[x], frame[u].want) => contended'[u]
      BY <2>1, <2>10, <3>1, <3>2
    <3>4. contended[u] => contended'[u]
      BY <2>10, <3>1
    <3>5. /\ \A n \in present :
               HalfOpenOverlap(range[n], frame[u].want) => contended[u]
          /\ pc[u] = "overlap" => contended[u]
      BY <3>1 DEF IInv, ContentionSeen
    <3>6. \A n \in present' : n \in present \/ n = x
      BY <1>3, <2>x
    <3> QED BY <3>1, <3>3, <3>4, <3>5, <3>6
  <2>19. Counted' = Counted
    BY <1>1, <2>16 DEF Counted
  <2>20. Phased'
    <3> SUFFICES ASSUME phased
                 PROVE  /\ ~(Running("acquire") /\ Running("release"))'
                        /\ \E L \in SUBSET LNode : Chain(L)'
      BY <1>1 DEF Phased
    <3>1. ~(Running("acquire") /\ Running("release"))'
      BY <2>16 DEF IInv, Phased, Running
    <3>2. PICK L \in SUBSET LNode : Chain(L)
      BY DEF IInv, Phased
    <3>3. f.prev \in L \cup {head}
      BY <2>1, <2>2, <3>2, UnmarkedInChain
    <3>4. x \notin L
      BY <2>1, <3>2 DEF Chain
    <3>5. present' = present \cup {x}
      BY <1>3, <2>x
    <3>6. Chain(L \cup {x})'
      BY <1>1, <2>1, <2>2, <2>3, <2>5, <3>2, <3>3, <3>4, <3>5, ChainInsert
    <3>7. PICK M \in SUBSET LNode : M = L \cup {x}
      OBVIOUS
    <3> QED BY <3>1, <3>6, <3>7
  <2> QED BY <1>1, <2>7, <2>11, <2>15, <2>17, <2>18, <2>19, <2>20 DEF IInv
<1> QED BY <1>2, <1>3, <1>f DEF Insert

-----------------------------------------------------------------------------
(***************************************************************************)
(* The empty list satisfies the invariant.                                 *)
(***************************************************************************)
LEMMA InitInv == Init => IInv
<1> SUFFICES ASSUME Init
             PROVE  IInv
  OBVIOUS
<1> USE DEF Init
<1>1. TypeOK
  BY RestType, ListAssumption DEF TypeOK, Ptr, Pointers, Labels, RangesOver
<1>2. \A n \in Cells : next[n].node = Null /\ ~next[n].marked
  BY DEF Ptr
<1>3. \A n : ~Inserted(n)
  BY <1>2 DEF Inserted, Cells
<1>4. PointersOK
  BY <1>2, <1>3 DEF PointersOK, PointersAscend, Cells
<1>5. \A t \in Threads : pc[t] = "idle" /\ frame[t] = Rest
  OBVIOUS
<1>6. \A t \in Threads : FrameOK(pc[t], frame[t])
  BY <1>5 DEF FrameOK, Search
<1>7. Apart /\ ContentionSeen
  BY <1>5 DEF Apart, ContentionSeen, Looking, Search
<1>8. Phased
  <2>1. Chain({})
    BY <1>2 DEF Chain, Cells
  <2>2. ~Running("acquire")
    BY <1>5 DEF Running, Rest
  <2> QED BY <2>1, <2>2 DEF Phased
<1>9. elementsCount = Cardinality(Counted)
  <2>1. Counted = {}
    BY <1>5 DEF Counted, Rest
  <2> QED BY <2>1, FS_EmptySet
<1> QED BY <1>1, <1>4, <1>6, <1>7, <1>8, <1>9 DEF IInv

(***************************************************************************)
(* The inductive step, action by action.                                   *)
(***************************************************************************)
LEMMA NextInv == IInv /\ [Next]_vars => IInv'
<1> SUFFICES ASSUME IInv, [Next]_vars
             PROVE  IInv'
  OBVIOUS
<1>1. CASE UNCHANGED vars
  <2>1. \A op : Running(op)' <=> Running(op)
    BY <1>1 DEF vars, Running
  <2>2. /\ PointersOK' /\ \A n : Inserted(n)' <=> Inserted(n)
        /\ \A L \in SUBSET LNode : Chain(L)' <=> Chain(L)
    BY <1>1, SameList DEF vars
  <2>3. Phased' /\ Counted' = Counted /\ TypeOK' /\ Apart' /\ ContentionSeen'
    BY <1>1, <2>1, <2>2
       DEF vars, IInv, Phased, Counted, TypeOK, Apart, ContentionSeen, Looking
  <2>4. \A t \in Threads : FrameOK(pc[t], frame[t])'
    <3> TAKE t \in Threads
    <3>1. FrameOK(pc[t], frame[t])
      BY DEF IInv
    <3>2. FrameOK(pc[t], frame[t])'
      BY <1>1, <3>1, ZenonT(60) DEF vars, FrameOK, Inserted
    <3> QED BY <3>2
  <2> QED BY <1>1, <2>2, <2>3, <2>4 DEF IInv, vars
<1>2. CASE Next
  <2>1. UNCHANGED phased
    BY <1>2 DEF Next
  <2>2. ASSUME NEW t \in Threads, Step(t)
        PROVE  IInv'
    BY <2>1, <2>2, ReadPrevStep, CheckCurStep, ReadNextStep, SnipStep,
       InsertStep, CountUpStep, RefuseStep, LoadNextStep, StoreMarkedStep,
       CountDownStep DEF Step
  <2> QED BY <1>2, <2>1, <2>2, AcquireStep, ReleaseStep DEF Next
<1> QED BY <1>1, <1>2

(***************************************************************************)
(* The invariant holds of every behaviour of the list.                     *)
(***************************************************************************)
THEOREM Invariance == Spec => []IInv
  BY InitInv, NextInv, PTL DEF Spec

(***************************************************************************)
(* TypeOK for any number of threads and calls: elementsCount, which counts *)
(* a node after it is linked and uncounts it after it is marked, never     *)
(* falls below zero.                                                       *)
(***************************************************************************)
THEOREM TypeCorrect == Spec => []TypeOK
<1>1. IInv => TypeOK
  BY DEF IInv
<1> QED BY <1>1, Invariance, PTL

(***************************************************************************)
(* PointersAscend: no chain of pointers runs in a circle, also through     *)
(* deleted nodes and with clients that acquire and release at once.        *)
(***************************************************************************)
THEOREM Ascending == Spec => []PointersAscend
<1>1. IInv => PointersAscend
  BY DEF IInv, PointersOK
<1> QED BY <1>1, Invariance, PTL

(***************************************************************************)
(* RefusalsJustified: InsertNode returns false only for a call that has    *)
(* met an overlapping lock.                                                *)
(***************************************************************************)
THEOREM RefusalsAreJustified == Spec => []RefusalsJustified
<1>1. IInv => RefusalsJustified
  BY DEF IInv, RefusalsJustified, ContentionSeen, Looking
<1> QED BY <1>1, Invariance, PTL

(***************************************************************************)
(* Mutual exclusion of clients that keep acquiring and releasing apart.    *)
(***************************************************************************)
THEOREM PhasedExclusion == Spec => [](phased => MutualExclusion)
<1>1. IInv => (phased => MutualExclusion)
  BY DEF IInv, Phased, Chain, MutualExclusion
<1> QED BY <1>1, Invariance, PTL

-----------------------------------------------------------------------------
(***************************************************************************)
(* The recursive function behind ReachableIn(k).                           *)
(***************************************************************************)
Successors(S) == S \cup {m \in LNode : \E n \in S : Follows(n, m)}

ReachSteps(k, g) ==
  g = [i \in 0 .. k |-> IF i = 0 THEN {head} ELSE Successors(g[i - 1])]

(***************************************************************************)
(* There is such a function for every k: one for k is extended by a step.  *)
(***************************************************************************)
LEMMA ReachExists ==
  ASSUME NEW k \in Nat
  PROVE  \E g : ReachSteps(k, g)
<1> DEFINE S == {j \in Nat : \E g : ReachSteps(j, g)}
<1>1. 0 \in S
  <2>1. ReachSteps(0, [i \in 0 .. 0 |-> {head}])
    BY DEF ReachSteps
  <2> QED BY <2>1
<1>2. ASSUME NEW j \in S PROVE j + 1 \in S
  <2>1. PICK g : ReachSteps(j, g)
    OBVIOUS
  <2> DEFINE h == [i \in 0 .. (j + 1) |->
                     IF i <= j THEN g[i] ELSE Successors(g[j])]
  <2>2. \A i \in 0 .. (j + 1) :
           h[i] = IF i = 0 THEN {head} ELSE Successors(h[i - 1])
    <3> TAKE i \in 0 .. (j + 1)
    <3>1. CASE i = 0
      BY <2>1, <3>1 DEF ReachSteps
    <3>2. CASE i # 0 /\ i <= j
      <4>1. i \in 0 .. j /\ i - 1 \in 0 .. j /\ i - 1 \in 0 .. (j + 1)
        BY <3>2
      <4>2. h[i] = g[i] /\ h[i - 1] = g[i - 1]
        BY <3>2, <4>1
      <4>3. g[i] = IF i = 0 THEN {head} ELSE Successors(g[i - 1])
        BY <2>1, <4>1, Zenon DEF ReachSteps
      <4> HIDE DEF h
      <4> QED BY <3>2, <4>2, <4>3
    <3>3. CASE i = j + 1
      <4>1. h[i] = Successors(g[j]) /\ h[i - 1] = g[j] /\ i # 0
        BY <3>3
      <4> HIDE DEF h
      <4> QED BY <4>1
    <3> QED BY <3>1, <3>2, <3>3
  <2>3. ReachSteps(j + 1, h)
    <3>1. h = [i \in 0 .. (j + 1) |-> h[i]]
      OBVIOUS
    <3> HIDE DEF h
    <3> QED BY <2>2, <3>1 DEF ReachSteps
  <2> HIDE DEF h
  <2> QED BY <2>3
<1>3. S = Nat
  <2>1. S \in SUBSET Nat
    OBVIOUS
  <2> HIDE DEF S
  <2> QED BY <1>1, <1>2, <2>1, SetInduction
<1> QED BY <1>3

(***************************************************************************)
(* So that ReachableIn(k) is the last step of such a function.             *)
(***************************************************************************)
LEMMA ReachFacts ==
  ASSUME NEW k \in Nat
  PROVE  \E g : ReachSteps(k, g) /\ ReachableIn(k) = g[k]
<1> DEFINE r == CHOOSE g : g = [i \in 0 .. k |->
                    IF i = 0 THEN {head}
                    ELSE g[i - 1] \cup {m \in LNode : \E n \in g[i - 1] : Follows(n, m)}]
<1>1. r = CHOOSE g : ReachSteps(k, g)
  BY DEF ReachSteps, Successors
<1>2. ReachableIn(k) = r[k]
  BY DEF ReachableIn
<1> HIDE DEF r
<1>3. ReachSteps(k, r)
  BY <1>1, ReachExists
<1> QED BY <1>2, <1>3

(***************************************************************************)
(* A part K of a chain that holds the successors of the head and of its    *)
(* own nodes is the whole chain: the last node of K before one outside     *)
(* would lead past it.                                                     *)
(***************************************************************************)
LEMMA ClosedIsWhole ==
  ASSUME IInv, NEW L \in SUBSET LNode, Chain(L), NEW K \in SUBSET L,
         \A p \in K \cup {head} : next[p].node = Null \/ next[p].node \in K
  PROVE  K = L
<1> DEFINE st(n) == range[n].start
           en(n) == range[n].end
           to(n) == next[n].node
<1>1. /\ \A n \in L : st(n) \in Int /\ en(n) \in Int /\ st(n) < en(n)
      /\ \A m, n \in L : m = n \/ en(m) <= st(n) \/ en(n) <= st(m)
      /\ head \notin L /\ Null \notin L
  BY ChainFacts
<1>2. \A n \in K \cup {head}, q \in L :
         \/ n # head /\ st(q) <= st(n)
         \/ to(n) \in K /\ st(to(n)) <= st(q)
  BY DEF Chain
<1>3. \A n \in K : to(n) # Null => en(n) <= st(to(n))
  BY DEF IInv, PointersOK, PointersAscend
<1> HIDE DEF st, en, to
<1> SUFFICES ASSUME NEW q \in L, q \notin K
             PROVE  FALSE
  OBVIOUS
<1>4. \A n \in K : n \in L /\ st(n) \in Int /\ en(n) \in Int /\ st(n) < en(n)
  BY <1>1
<1>5. \A n \in K : st(n) <= st(q) => st(n) < st(q)
  <2> TAKE n \in K
  <2>1. en(n) <= st(q) \/ en(q) <= st(n)
    BY <1>1, <1>4
  <2> QED BY <1>1, <1>4, <2>1
<1> DEFINE D == {st(q) - st(n) : n \in {m \in K : st(m) < st(q)}}
<1>6. D \in SUBSET Nat
  BY <1>1, <1>4
<1>7. to(head) \in K /\ st(to(head)) < st(q)
  BY <1>2, <1>5
<1>8. D # {}
  BY <1>7
<1>9. PICK d \in D : \A e \in D : d <= e
  <2> HIDE DEF D
  <2> QED BY <1>6, <1>8, LeastNumber
<1>10. PICK p \in K : st(p) < st(q) /\ d = st(q) - st(p)
  BY <1>9
<1>11. to(p) \in K /\ st(to(p)) < st(q)
  <2>1. ~(st(q) <= st(p))
    BY <1>1, <1>4, <1>10
  <2>2. to(p) \in K /\ st(to(p)) <= st(q)
    BY <1>2, <1>10, <2>1
  <2> QED BY <1>5, <2>2
<1>12. st(q) - st(to(p)) \in D
  BY <1>11
<1>13. d <= st(q) - st(to(p))
  BY <1>9, <1>12
<1>14. en(p) <= st(to(p))
  BY <1>1, <1>3, <1>10, <1>11
<1> QED BY <1>1, <1>4, <1>10, <1>11, <1>13, <1>14

(***************************************************************************)
(* Every step of ReachableIn finds another node of the chain, until it has *)
(* found them all; and a chain has at most MaxCalls nodes.                 *)
(***************************************************************************)
LEMMA ChainReachable ==
  ASSUME IInv, NEW L \in SUBSET LNode, Chain(L)
  PROVE  L \subseteq ReachableIn(MaxCalls)
<1>1. PICK g : ReachSteps(MaxCalls, g) /\ ReachableIn(MaxCalls) = g[MaxCalls]
  BY ReachFacts, ListAssumption
<1>2. g[0] = {head} /\ \A i \in Nat : i + 1 <= MaxCalls =>
                         g[i + 1] = Successors(g[i])
  <2>1. 0 \in 0 .. MaxCalls
    BY ListAssumption
  <2>2. g[0] = {head}
    BY <1>1, <2>1, Zenon DEF ReachSteps
  <2>3. ASSUME NEW i \in Nat, i + 1 <= MaxCalls
        PROVE  g[i + 1] = Successors(g[i])
    <3>1. i + 1 \in 0 .. MaxCalls /\ i + 1 # 0 /\ (i + 1) - 1 = i
      BY <2>3, ListAssumption
    <3>2. g[i + 1] = IF i + 1 = 0 THEN {head} ELSE Successors(g[(i + 1) - 1])
      BY <1>1, <3>1, Zenon DEF ReachSteps
    <3> QED BY <3>1, <3>2
  <2> QED BY <2>2, <2>3
<1>3. IsFiniteSet(L) /\ Cardinality(L) \in Nat /\ Cardinality(L) <= MaxCalls
  <2>1. IsFiniteSet(LNode) /\ Cardinality(LNode) = MaxCalls
    BY ListAssumption, FS_Interval DEF LNode
  <2>2. IsFiniteSet(L) /\ Cardinality(L) <= Cardinality(LNode)
    BY <2>1, FS_Subset
  <2> QED BY <2>1, <2>2, FS_CardinalityType
<1>4. \A T \in SUBSET L : /\ IsFiniteSet(T) /\ Cardinality(T) \in Nat
                          /\ Cardinality(T) <= Cardinality(L)
                          /\ Cardinality(L) = Cardinality(T) => L = T
  <2> TAKE T \in SUBSET L
  <2>1. /\ IsFiniteSet(T) /\ Cardinality(T) <= Cardinality(L)
        /\ Cardinality(L) = Cardinality(T) => L = T
    BY <1>3, FS_Subset
  <2> QED BY <2>1, FS_CardinalityType
<1> DEFINE found(i) == /\ head \in g[i]
                       /\ L \subseteq g[i] \/ Cardinality(L \cap g[i]) >= i
           S == {i \in Nat : i <= MaxCalls => found(i)}
<1>5. 0 \in S
  <2>1. L \cap g[0] \in SUBSET L
    OBVIOUS
  <2>2. Cardinality(L \cap g[0]) >= 0
    BY <1>4, <2>1
  <2> QED BY <1>2, <2>2
<1>6. ASSUME NEW i \in S
      PROVE  i + 1 \in S
  <2> SUFFICES ASSUME i + 1 <= MaxCalls
               PROVE  found(i + 1)
    OBVIOUS
  <2>1. i \in Nat /\ found(i) /\ g[i + 1] = Successors(g[i])
    BY <1>2, ListAssumption
  <2> HIDE DEF S
  <2>2. g[i] \subseteq g[i + 1] /\ head \in g[i + 1]
    BY <2>1 DEF Successors
  <2>3. CASE L \subseteq g[i]
    BY <2>2, <2>3
  <2>4. CASE ~(L \subseteq g[i]) /\ Cardinality(L \cap g[i]) >= i
    <3>1. PICK K : K = L \cap g[i]
      OBVIOUS
    <3>2. PICK M : M = L \cap g[i + 1]
      OBVIOUS
    <3>3. K \in SUBSET M /\ M \in SUBSET L /\ K \in SUBSET L /\ K # L
      BY <2>2, <2>4, <3>1, <3>2
    <3>4. M # K
      <4> SUFFICES ASSUME M = K
                   PROVE  FALSE
        OBVIOUS
      <4>1. \A p \in K \cup {head} : next[p].node = Null \/ next[p].node \in K
        <5> TAKE p \in K \cup {head}
        <5>1. p \in g[i] /\ p \in L \cup {head}
          BY <2>1, <3>1
        <5>2. next[p].node # Null => next[p].node \in L /\ next[p].node \in LNode
          BY <5>1 DEF Chain
        <5>3. next[p].node # Null => next[p].node \in g[i + 1]
          BY <2>1, <5>1, <5>2 DEF Successors, Follows
        <5> QED BY <3>2, <5>2, <5>3
      <4> QED BY <3>3, <4>1, ClosedIsWhole
    <3>5. Cardinality(K) < Cardinality(M)
      <4>1. IsFiniteSet(M) /\ Cardinality(M) \in Nat /\ Cardinality(K) \in Nat
        BY <1>4, <3>3
      <4>2. Cardinality(K) <= Cardinality(M) /\ (Cardinality(M) = Cardinality(K) => M = K)
        BY <3>3, <4>1, FS_Subset
      <4> QED BY <3>4, <4>1, <4>2
    <3>6. Cardinality(K) \in Nat /\ Cardinality(M) \in Nat /\ Cardinality(K) >= i
      BY <1>4, <2>4, <3>1, <3>3
    <3>7. Cardinality(M) >= i + 1
      BY <2>1, <3>5, <3>6
    <3> QED BY <2>2, <3>2, <3>7
  <2> QED BY <2>1, <2>3, <2>4
<1>7. S = Nat
  <2>1. S \in SUBSET Nat
    OBVIOUS
  <2> HIDE DEF S
  <2> QED BY <1>5, <1>6, <2>1, SetInduction
<1>8. found(MaxCalls)
  <2>1. MaxCalls \in S /\ MaxCalls <= MaxCalls
    BY <1>7, ListAssumption
  <2> QED BY <2>1
<1> HIDE DEF S
<1>9. CASE Cardinality(L \cap g[MaxCalls]) >= MaxCalls
  <2>1. PICK T : T = L \cap g[MaxCalls]
    OBVIOUS
  <2>2. /\ Cardinality(T) \in Nat /\ Cardinality(T) <= Cardinality(L)
        /\ Cardinality(L) = Cardinality(T) => L = T
    BY <1>4, <2>1
  <2>3. Cardinality(T) >= MaxCalls
    BY <1>9, <2>1
  <2>4. L = T
    BY <1>3, <2>2, <2>3, ListAssumption
  <2> QED BY <1>1, <2>1, <2>4
<1> QED BY <1>1, <1>8, <1>9

(***************************************************************************)
(* LocksReachable for any number of nodes: what is locked can be found     *)
(* from the head, while the clients keep acquiring and releasing apart.    *)
(***************************************************************************)
THEOREM Reachable == Spec => []LocksReachable
<1>1. IInv => LocksReachable
  <2> SUFFICES ASSUME IInv, phased
               PROVE  present \subseteq ReachableIn(MaxCalls)
    BY DEF LocksReachable
  <2>1. PICK L \in SUBSET LNode : Chain(L)
    BY DEF IInv, Phased
  <2>2. present \subseteq L
    BY <2>1 DEF Chain
  <2> QED BY <2>1, <2>2, ChainReachable
<1> QED BY <1>1, Invariance, PTL

-----------------------------------------------------------------------------
(***************************************************************************)
(* MarkedPointersFrozen: every store to a next pointer is one to a pointer *)
(* that carries no mark.                                                   *)
(***************************************************************************)
THEOREM MarkedFrozen == Spec => MarkedPointersFrozen
<1>1. IInv /\ [Next]_vars => \A n \in Cells : next[n].marked => next'[n] = next[n]
  <2> SUFFICES ASSUME IInv, [Next]_vars, NEW n \in Cells, next[n].marked
               PROVE  next'[n] = next[n]
    OBVIOUS
  <2>0. TypeOK
    BY DEF IInv
  <2>1. ASSUME NEW t \in Threads, StoreMarked(t)
        PROVE  next'[n] = next[n]
    <3>1. frame[t].lock \in present
      BY <2>1, ThreadFacts DEF StoreMarked, FrameOK
    <3>2. n # frame[t].lock
      BY <3>1 DEF IInv, PointersOK
    <3> QED BY <2>0, <2>1, <3>2 DEF StoreMarked, TypeOK
  <2>2. ASSUME NEW t \in Threads, Snip(t)
        PROVE  next'[n] = next[n]
    BY <2>0, <2>2 DEF Snip, TypeOK, Ptr
  <2>3. ASSUME NEW t \in Threads, Insert(t)
        PROVE  next'[n] = next[n]
    <3>1. frame[t].lock \in LNode /\ ~Inserted(frame[t].lock)
      BY <2>3, ThreadFacts DEF Insert, FrameOK, Search
    <3>2. n # frame[t].lock
      BY <3>1 DEF Inserted
    <3> QED BY <2>0, <2>3, <3>2 DEF Insert, TypeOK, Ptr
  <2>4. ASSUME NEW t \in Threads,
               \/ ReadPrev(t) \/ CheckCur(t) \/ ReadNext(t) \/ CountUp(t)
               \/ Refuse(t) \/ LoadNext(t) \/ CountDown(t)
               \/ \E r \in Requests : Acquire(t, r)
               \/ \E m \in LNode : Release(t, m)
        PROVE  next' = next
    BY <2>4 DEF ReadPrev, CheckCur, ReadNext, CountUp, Refuse, LoadNext,
                CountDown, Acquire, Release, listVars
  <2> QED BY <2>1, <2>2, <2>3, <2>4 DEF Next, Step, vars
<1> QED BY <1>1, Invariance, PTL DEF Spec, MarkedPointersFrozen

-----------------------------------------------------------------------------
(***************************************************************************)
(* The abstract range lock.  What CallOf makes of each label:              *)
(***************************************************************************)
CallShape ==
  \A t \in Threads :
    LET r == frame[t].want IN
    /\ pc[t] = "idle" => CallOf(t) = [op |-> "idle"]
    /\ Looking(t) => CallOf(t) = [op |-> "tryLock", range |-> r,
                                  contended |-> contended[t]]
    /\ pc[t] = "count" => CallOf(t) = [op |-> "granted", range |-> r]
    /\ pc[t] \in {"load", "store"} =>
         CallOf(t) = [op |-> "releaseLock", range |-> r]
    /\ pc[t] = "uncount" => CallOf(t) = [op |-> "released", range |-> r]

(***************************************************************************)
(* The shapes follow from what each label says of the call.                *)
(***************************************************************************)
LEMMA CallShapes == IInv => CallShape
<1> SUFFICES ASSUME IInv, NEW t \in Threads
             PROVE  LET r == frame[t].want IN
    /\ pc[t] = "idle" => CallOf(t) = [op |-> "idle"]
    /\ Looking(t) => CallOf(t) = [op |-> "tryLock", range |-> r,
                                  contended |-> contended[t]]
    /\ pc[t] = "count" => CallOf(t) = [op |-> "granted", range |-> r]
    /\ pc[t] \in {"load", "store"} =>
         CallOf(t) = [op |-> "releaseLock", range |-> r]
    /\ pc[t] = "uncount" => CallOf(t) = [op |-> "released", range |-> r]
  BY DEF CallShape
<1> QED BY LabelOp DEF CallOf, Looking, Search

(***************************************************************************)
(* The same after a step.                                                  *)
(***************************************************************************)
LEMMA CallShapesNext == IInv' => CallShape'
  BY CallShapes, PTL

(***************************************************************************)
(* The mapped variables.                                                   *)
(***************************************************************************)
Held == {range[n] : n \in present}
Owned == {range[n] : n \in owned}
Calls == [t \in Threads |-> CallOf(t)]

(***************************************************************************)
(* The call of t changes, and no other.                                    *)
(***************************************************************************)
LEMMA CallsUpdate ==
  ASSUME NEW t \in Threads, NEW v, CallOf(t)' = v,
         \A u \in Threads \ {t} : CallOf(u)' = CallOf(u)
  PROVE  Calls' = [Calls EXCEPT ![t] = v] /\ Calls[t] = CallOf(t)
  BY DEF Calls

(***************************************************************************)
(* Distinct locked nodes have distinct ranges, with phased clients.        *)
(***************************************************************************)
LEMMA DistinctRanges ==
  ASSUME IInv, phased, NEW m \in present, NEW n \in present, range[m] = range[n]
  PROVE  m = n
<1>1. PICK L \in SUBSET LNode : Chain(L)
  BY DEF IInv, Phased
<1>2. m \in L /\ n \in L
  BY <1>1 DEF Chain
<1>3. /\ range[m].start \in Int /\ range[m].end \in Int
      /\ range[m].start < range[m].end
      /\ m = n \/ range[m].end <= range[n].start \/ range[n].end <= range[m].start
  BY <1>1, <1>2, ChainFacts
<1> QED BY <1>3

(***************************************************************************)
(* MutexRangeAcquire begins a tryLock.                                     *)
(***************************************************************************)
LEMMA AcquireRefines ==
  ASSUME IInv, IInv', NEW t \in Threads, NEW r \in Requests, Acquire(t, r)
  PROVE  Abstract!TryLock(t, r)
<1>1. CallShape /\ CallShape' /\ TypeOK
  BY CallShapes, CallShapesNext DEF IInv
<1>2. /\ pc[t] = "idle" /\ pc'[t] = "read" /\ frame'[t].want = r
      /\ \A u \in Threads \ {t} : pc'[u] = pc[u] /\ frame'[u] = frame[u]
      /\ \A u \in Threads \ {t} : contended'[u] = contended[u]
      /\ contended'[t] = \E n \in present : HalfOpenOverlap(range[n], r)
      /\ UNCHANGED <<present, owned>>
  BY <1>1 DEF Acquire, Go, TypeOK, Rest
<1>3. \A n \in present : range'[n] = range[n]
  <2> TAKE n \in present
  <2>1. n <= calls /\ n \in Nat /\ n \in LNode
    BY <1>1 DEF IInv, PointersOK, Inserted, TypeOK, LNode
  <2>2. calls + 1 # n
    BY <1>1, <2>1, ListAssumption DEF TypeOK
  <2> QED BY <1>1, <2>1, <2>2 DEF Acquire, TypeOK
<1>4. Held' = Held /\ Owned' = Owned
  BY <1>2, <1>3 DEF Held, Owned, IInv, Apart
<1>5. CallOf(t) = [op |-> "idle"]
  BY <1>1, <1>2 DEF CallShape
<1>6. CallOf(t)' = [op |-> "tryLock", range |-> r,
                    contended |-> \E h \in Held : HalfOpenOverlap(h, r)]
  <2>1. CallOf(t)' = [op |-> "tryLock", range |-> r, contended |-> contended'[t]]
    BY <1>1, <1>2 DEF CallShape, Looking, Search
  <2>2. contended'[t] = \E h \in Held : HalfOpenOverlap(h, r)
    BY <1>2 DEF Held
  <2> QED BY <2>1, <2>2
<1>7. \A u \in Threads \ {t} : CallOf(u)' = CallOf(u)
  BY <1>2 DEF CallOf
<1> QED BY <1>4, <1>5, <1>6, <1>7 DEF Abstract!TryLock, Abstract!Idle, Held, Owned

(***************************************************************************)
(* If no call, lock or owner changes, neither does the abstract lock.      *)
(***************************************************************************)
LEMMA SameCalls ==
  ASSUME Held' = Held, Owned' = Owned,
         \A u \in Threads : CallOf(u)' = CallOf(u)
  PROVE  UNCHANGED Abstract!lockVars
  BY DEF Abstract!lockVars, Held, Owned

(***************************************************************************)
(* ReadPrev, CheckCur, ReadNext, Snip and LoadNext change nothing that a   *)
(* client sees.                                                            *)
(***************************************************************************)
LEMMA QuietRefines ==
  ASSUME IInv, IInv', NEW t \in Threads, UNCHANGED phased,
         \/ ReadPrev(t) \/ CheckCur(t) \/ ReadNext(t) \/ Snip(t) \/ LoadNext(t)
  PROVE  UNCHANGED Abstract!lockVars
<1>1. CallShape /\ CallShape' /\ TypeOK /\ frame[t] \in Frames
  BY CallShapes, CallShapesNext, ThreadFacts DEF IInv
<1>2. /\ UNCHANGED <<range, present, owned, contended>>
      /\ \A u \in Threads \ {t} : pc'[u] = pc[u] /\ frame'[u] = frame[u]
  BY <1>1 DEF ReadPrev, CheckCur, ReadNext, Snip, LoadNext, Visit, Go, listVars, TypeOK
<1>3. /\ frame'[t].want = frame[t].want
      /\ \/ Looking(t) /\ Looking(t)'
         \/ pc[t] \in {"load", "store"} /\ pc'[t] \in {"load", "store"}
  <2>1. CASE ReadPrev(t)
    <3>1. frame'[t].want = frame[t].want
      <4>1. \/ frame'[t] = [frame[t] EXCEPT !.prev = head, !.cur = Null]
            \/ \E c : frame'[t] = [frame[t] EXCEPT !.cur = c, !.succ = Null]
        BY <1>1, <2>1 DEF ReadPrev, Visit, Go, TypeOK
      <4> QED BY <1>1, <4>1 DEF Frames
    <3>2. pc[t] = "read" /\ pc'[t] \in {"read", "insert", "check"}
      BY <1>1, <2>1 DEF ReadPrev, Visit, Go, TypeOK
    <3> QED BY <3>1, <3>2 DEF Looking, Search
  <2>2. CASE CheckCur(t)
    <3>1. frame'[t].want = frame[t].want
      <4>1. \/ frame'[t] = frame[t]
            \/ frame'[t] = [frame[t] EXCEPT !.prev = frame[t].cur, !.cur = Null]
        BY <1>1, <2>2 DEF CheckCur, Go, TypeOK
      <4> QED BY <1>1, <4>1 DEF Frames
    <3>2. pc[t] = "check" /\ pc'[t] \in {"next", "insert", "read", "overlap"}
      BY <1>1, <2>2 DEF CheckCur, Go, TypeOK
    <3> QED BY <3>1, <3>2 DEF Looking, Search
  <2>3. CASE ReadNext(t)
    BY <1>1, <2>3 DEF ReadNext, Go, TypeOK, Frames, Looking, Search
  <2>4. CASE Snip(t)
    <3>1. frame'[t].want = frame[t].want
      <4>1. \E c : frame'[t] = [frame[t] EXCEPT !.cur = c, !.succ = Null]
        BY <1>1, <2>4 DEF Snip, Visit, Go, TypeOK
      <4> QED BY <1>1, <4>1 DEF Frames
    <3>2. pc[t] = "snip" /\ pc'[t] \in {"insert", "check"}
      BY <1>1, <2>4 DEF Snip, Visit, Go, TypeOK
    <3> QED BY <3>1, <3>2 DEF Looking, Search
  <2>5. CASE LoadNext(t)
    BY <1>1, <2>5 DEF LoadNext, Go, TypeOK, Frames
  <2> QED BY <2>1, <2>2, <2>3, <2>4, <2>5
<1>4. CallOf(t)' = CallOf(t)
  BY <1>1, <1>2, <1>3 DEF CallShape
<1>5. \A u \in Threads \ {t} : CallOf(u)' = CallOf(u)
  BY <1>2 DEF CallOf
<1>6. Held' = Held /\ Owned' = Owned
  BY <1>2 DEF Held, Owned
<1> QED BY <1>4, <1>5, <1>6, SameCalls

(***************************************************************************)
(* The compare-and-swap of Insert grants the range.                        *)
(***************************************************************************)
LEMMA InsertRefines ==
  ASSUME IInv, IInv', phased, NEW t \in Threads, UNCHANGED phased, Insert(t)
  PROVE  Abstract!Grant(t) \/ UNCHANGED Abstract!lockVars
<1>1. CallShape /\ CallShape' /\ TypeOK /\ frame[t] \in Frames
  BY CallShapes, CallShapesNext, ThreadFacts DEF IInv
<1>f. PICK f \in Frames : f = frame[t]
  BY <1>1
<1>2. /\ pc[t] = "insert" /\ Looking(t) /\ UNCHANGED <<range, owned>>
  BY DEF Insert, Looking, Search
<1>3. CASE /\ Go(t, "read", [f EXCEPT !.cur = Null])
           /\ UNCHANGED <<next, present, contended>>
  <2>1. /\ frame'[t].want = f.want /\ Looking(t)'
        /\ \A u \in Threads \ {t} : pc'[u] = pc[u] /\ frame'[u] = frame[u]
    BY <1>1, <1>3 DEF Go, TypeOK, Frames, Looking, Search
  <2>2. CallOf(t)' = CallOf(t)
    BY <1>1, <1>2, <1>3, <1>f, <2>1 DEF CallShape
  <2>3. \A u \in Threads \ {t} : CallOf(u)' = CallOf(u)
    BY <1>3, <2>1 DEF CallOf
  <2>4. Held' = Held /\ Owned' = Owned
    BY <1>2, <1>3 DEF Held, Owned
  <2> QED BY <2>2, <2>3, <2>4, SameCalls
<1>4. CASE /\ present' = present \cup {f.lock}
           /\ contended' = [u \in Threads |->
                u # t /\ ( \/ contended[u]
                           \/ /\ frame[u].op = "acquire" /\ pc[u] # "count"
                              /\ HalfOpenOverlap(f.want, frame[u].want) )]
           /\ Go(t, "count", [f EXCEPT !.prev = head, !.cur = Null])
  <2>1. /\ frame'[t].want = f.want /\ pc'[t] = "count"
        /\ \A u \in Threads \ {t} : pc'[u] = pc[u] /\ frame'[u] = frame[u]
    BY <1>1, <1>4 DEF Go, TypeOK, Frames
  <2>2. f.want = range[f.lock] /\ f.lock \notin present
    BY <1>2, <1>f, ThreadFacts DEF FrameOK, Search, Inserted
  <2>3. Held' = Held \cup {f.want} /\ Owned' = Owned
    BY <1>2, <1>4, <2>2 DEF Held, Owned
  <2>4. \A h \in Held : ~HalfOpenOverlap(h, f.want)
    <3>1. PICK L \in SUBSET LNode : Chain(L)'
      BY DEF IInv, Phased
    <3>2. \A n \in present : n \in L /\ f.lock \in L /\ n # f.lock
      BY <1>4, <2>2, <3>1 DEF Chain
    <3>3. \A n \in present : ~HalfOpenOverlap(range[n], range[f.lock])
      BY <1>2, <3>1, <3>2 DEF Chain
    <3> QED BY <2>2, <3>3 DEF Held
  <2>5. /\ CallOf(t) = [op |-> "tryLock", range |-> f.want, contended |-> contended[t]]
        /\ CallOf(t)' = [op |-> "granted", range |-> f.want]
    BY <1>1, <1>2, <1>f, <2>1 DEF CallShape
  <2>6. \A u \in Threads \ {t} :
           CallOf(u)' = IF CallOf(u).op = "tryLock"
                        THEN [CallOf(u) EXCEPT !.contended =
                                @ \/ HalfOpenOverlap(f.want, CallOf(u).range)]
                        ELSE CallOf(u)
    <3> TAKE u \in Threads \ {t}
    <3>1. pc'[u] = pc[u] /\ frame'[u] = frame[u] /\ pc[u] \in Labels
      BY <1>1, <2>1 DEF TypeOK
    <3>2. CASE Looking(u)
      <4>1. CallOf(u) = [op |-> "tryLock", range |-> frame[u].want,
                         contended |-> contended[u]]
        BY <1>1, <3>2 DEF CallShape
      <4>2. CallOf(u)' = [op |-> "tryLock", range |-> frame[u].want,
                          contended |-> contended'[u]]
        BY <1>1, <3>1, <3>2 DEF CallShape, Looking
      <4>3. frame[u].op = "acquire" /\ pc[u] # "count"
        BY <3>2, LabelOp DEF Looking, Search
      <4>4. contended[u] \in BOOLEAN /\ u # t
        BY <1>1 DEF TypeOK
      <4>5. contended'[u] = (contended[u] \/ HalfOpenOverlap(f.want, frame[u].want))
        BY <1>4, <4>3, <4>4 DEF HalfOpenOverlap
      <4> QED BY <4>1, <4>2, <4>5
    <3>3. CASE ~Looking(u)
      <4>1. /\ CallOf(u)' = CallOf(u)
            /\ CallOf(u).op # "tryLock"
        BY <1>1, <3>1, <3>3 DEF CallShape, Looking, Search, Labels
      <4> QED BY <4>1
    <3> QED BY <3>2, <3>3
  <2>7. /\ Calls[t].op = "tryLock" /\ Calls[t].range = f.want
        /\ \A u \in Threads : Calls[u] = CallOf(u)
    BY <2>5 DEF Calls
  <2>8. Calls' = [u \in Threads |->
                    IF u = t THEN [op |-> "granted", range |-> Calls[t].range]
                    ELSE IF Calls[u].op = "tryLock"
                         THEN [Calls[u] EXCEPT !.contended =
                                 @ \/ HalfOpenOverlap(Calls[t].range, Calls[u].range)]
                         ELSE Calls[u]]
    <3>1. Calls' = [u \in Threads |-> CallOf(u)']
      BY DEF Calls
    <3> QED BY <2>5, <2>6, <2>7, <3>1
  <2> QED BY <2>3, <2>4, <2>7, <2>8 DEF Abstract!Grant, Held, Owned, Calls
<1> QED BY <1>3, <1>4, <1>f DEF Insert

(***************************************************************************)
(* CountUp, Refuse and CountDown are the returns of the calls.             *)
(***************************************************************************)
LEMMA ReturnRefines ==
  ASSUME IInv, IInv', NEW t \in Threads, UNCHANGED phased
  PROVE  /\ CountUp(t) => Abstract!Acquired(t)
         /\ Refuse(t) => Abstract!Refuse(t)
         /\ CountDown(t) => Abstract!Released(t)
<1>1. /\ CallShape /\ CallShape' /\ TypeOK /\ frame[t] \in Frames
      /\ FrameOK(pc[t], frame[t])
  BY CallShapes, CallShapesNext, ThreadFacts DEF IInv
<1>2. ASSUME Go(t, "idle", Rest), UNCHANGED range,
             \/ contended' = [contended EXCEPT ![t] = FALSE]
             \/ UNCHANGED contended
      PROVE  /\ CallOf(t)' = [op |-> "idle"]
             /\ \A u \in Threads \ {t} : CallOf(u)' = CallOf(u)
  <2>1. /\ pc'[t] = "idle"
        /\ \A u \in Threads \ {t} : pc'[u] = pc[u] /\ frame'[u] = frame[u]
    BY <1>1, <1>2 DEF Go, TypeOK
  <2>2. \A u \in Threads \ {t} : contended'[u] = contended[u]
    BY <1>1, <1>2 DEF TypeOK
  <2>3. CallOf(t)' = [op |-> "idle"]
    BY <1>1, <2>1 DEF CallShape
  <2> QED BY <2>1, <2>2, <2>3 DEF CallOf
<1>3. ASSUME CountUp(t) PROVE Abstract!Acquired(t)
  <2>1. /\ CallOf(t) = [op |-> "granted", range |-> frame[t].want]
        /\ frame[t].want = range[frame[t].lock]
    BY <1>1, <1>3 DEF CountUp, CallShape, FrameOK
  <2>2. /\ CallOf(t)' = [op |-> "idle"]
        /\ \A u \in Threads \ {t} : CallOf(u)' = CallOf(u)
    BY <1>2, <1>3 DEF CountUp, listVars
  <2>3. Held' = Held /\ Owned' = Owned \cup {frame[t].want}
    BY <1>3, <2>1 DEF CountUp, listVars, Held, Owned
  <2>4. Calls' = [Calls EXCEPT ![t] = Abstract!Idle] /\ Calls[t] = CallOf(t)
    BY <2>2, CallsUpdate DEF Abstract!Idle
  <2>5. Calls[t].op = "granted" /\ Calls[t].range = frame[t].want
    BY <2>1, <2>4
  <2> QED BY <2>3, <2>4, <2>5 DEF Abstract!Acquired, Held, Owned, Calls
<1>4. ASSUME Refuse(t) PROVE Abstract!Refuse(t)
  <2>1. /\ CallOf(t) = [op |-> "tryLock", range |-> frame[t].want,
                        contended |-> contended[t]]
        /\ contended[t]
    BY <1>1, <1>4 DEF Refuse, CallShape, Looking, IInv, ContentionSeen
  <2>2. /\ CallOf(t)' = [op |-> "idle"]
        /\ \A u \in Threads \ {t} : CallOf(u)' = CallOf(u)
    BY <1>2, <1>4 DEF Refuse, listVars
  <2>3. Held' = Held /\ Owned' = Owned
    BY <1>4 DEF Refuse, listVars, Held, Owned
  <2>4. Calls' = [Calls EXCEPT ![t] = Abstract!Idle] /\ Calls[t] = CallOf(t)
    BY <2>2, CallsUpdate DEF Abstract!Idle
  <2>5. Calls[t].op = "tryLock" /\ Calls[t].contended
    BY <2>1, <2>4
  <2> QED BY <2>3, <2>4, <2>5 DEF Abstract!Refuse, Held, Owned, Calls
<1>5. ASSUME CountDown(t) PROVE Abstract!Released(t)
  <2>1. CallOf(t) = [op |-> "released", range |-> frame[t].want]
    BY <1>1, <1>5 DEF CountDown, CallShape
  <2>2. /\ CallOf(t)' = [op |-> "idle"]
        /\ \A u \in Threads \ {t} : CallOf(u)' = CallOf(u)
    BY <1>2, <1>5 DEF CountDown, listVars
  <2>3. Held' = Held /\ Owned' = Owned
    BY <1>5 DEF CountDown, listVars, Held, Owned
  <2>4. Calls' = [Calls EXCEPT ![t] = Abstract!Idle] /\ Calls[t] = CallOf(t)
    BY <2>2, CallsUpdate DEF Abstract!Idle
  <2>5. Calls[t].op = "released"
    BY <2>1, <2>4
  <2> QED BY <2>3, <2>4, <2>5 DEF Abstract!Released, Held, Owned, Calls
<1> QED BY <1>3, <1>4, <1>5

(***************************************************************************)
(* MutexRangeRelease begins with a range that is owned.                    *)
(***************************************************************************)
LEMMA ReleaseRefines ==
  ASSUME IInv, IInv', phased, NEW t \in Threads, UNCHANGED phased,
         NEW n \in LNode, Release(t, n)
  PROVE  \E r \in Requests : Abstract!ReleaseLock(t, r)
<1>1. CallShape /\ CallShape' /\ TypeOK
  BY CallShapes, CallShapesNext DEF IInv
<1>2. /\ pc[t] = "idle" /\ pc'[t] = "load" /\ frame'[t].want = range[n]
      /\ \A u \in Threads \ {t} : pc'[u] = pc[u] /\ frame'[u] = frame[u]
      /\ UNCHANGED <<present, range, contended>>
      /\ n \in owned /\ owned' = owned \ {n}
  BY <1>1 DEF Release, Go, TypeOK, Rest, listVars
<1>3. n \in present /\ owned \subseteq present /\ Inserted(n)
  BY <1>2 DEF IInv, Apart, Inserted
<1>4. Owned' = Owned \ {range[n]}
  BY <1>2, <1>3, DistinctRanges DEF Owned
<1>5. Held' = Held /\ range[n] \in Owned /\ range[n] \in Requests
  BY <1>2, <1>3 DEF Held, Owned, IInv, PointersOK
<1>6. /\ CallOf(t) = [op |-> "idle"]
      /\ CallOf(t)' = [op |-> "releaseLock", range |-> range[n]]
  BY <1>1, <1>2 DEF CallShape
<1>7. \A u \in Threads \ {t} : CallOf(u)' = CallOf(u)
  BY <1>2 DEF CallOf
<1>8. PICK r \in Requests : r = range[n]
  BY <1>5
<1>9. Abstract!ReleaseLock(t, r)
  BY <1>4, <1>5, <1>6, <1>7, <1>8
     DEF Abstract!ReleaseLock, Abstract!Idle, Held, Owned
<1> QED BY <1>9

(***************************************************************************)
(* The store of the marked pointer frees the range.                        *)
(***************************************************************************)
LEMMA StoreMarkedRefines ==
  ASSUME IInv, IInv', phased, NEW t \in Threads, UNCHANGED phased,
         StoreMarked(t)
  PROVE  Abstract!Free(t)
<1>1. /\ CallShape /\ CallShape' /\ TypeOK /\ frame[t] \in Frames
      /\ FrameOK(pc[t], frame[t])
  BY CallShapes, CallShapesNext, ThreadFacts DEF IInv
<1>f. PICK f \in Frames : f = frame[t]
  BY <1>1
<1>2. /\ pc[t] = "store" /\ pc'[t] = "uncount" /\ frame'[t].want = f.want
      /\ \A u \in Threads \ {t} : pc'[u] = pc[u] /\ frame'[u] = frame[u]
      /\ UNCHANGED <<owned, range, contended>>
      /\ present' = present \ {f.lock}
  BY <1>1, <1>f DEF StoreMarked, Go, TypeOK, Frames
<1>3. f.lock \in present /\ f.want = range[f.lock]
  BY <1>1, <1>2, <1>f DEF FrameOK
<1>4. Held' = Held \ {f.want}
  BY <1>2, <1>3, DistinctRanges DEF Held
<1>5. Owned' = Owned
  BY <1>2 DEF Owned
<1>6. /\ CallOf(t) = [op |-> "releaseLock", range |-> f.want]
      /\ CallOf(t)' = [op |-> "released", range |-> f.want]
  BY <1>1, <1>2, <1>f DEF CallShape
<1>7. \A u \in Threads \ {t} : CallOf(u)' = CallOf(u)
  BY <1>2 DEF CallOf
<1>8. /\ Calls' = [Calls EXCEPT ![t] = [op |-> "released", range |-> f.want]]
      /\ Calls[t] = CallOf(t)
  BY <1>6, <1>7, CallsUpdate
<1>9. Calls[t].op = "releaseLock" /\ Calls[t].range = f.want
  BY <1>6, <1>8
<1> QED BY <1>4, <1>5, <1>8, <1>9 DEF Abstract!Free, Held, Owned, Calls

(***************************************************************************)
(* ImplementsRangeLock: with phased clients, every step of the list is a   *)
(* step of the abstract range lock or is not seen by its clients.          *)
(***************************************************************************)
THEOREM Refinement == Spec => ImplementsRangeLock
<1>1. Init => Abstract!Init
  <2> SUFFICES ASSUME Init
               PROVE  Abstract!Init
    OBVIOUS
  <2>1. \A t \in Threads : CallOf(t) = [op |-> "idle"]
    BY DEF Init, CallOf, Rest
  <2>2. present = {} /\ owned = {}
    BY DEF Init
  <2> QED BY <2>1, <2>2 DEF Abstract!Init, Abstract!Idle
<1>2. IInv /\ IInv' /\ [Next]_vars =>
         (~phased \/ Abstract!Next) \/ UNCHANGED Abstract!lockVars
  <2> SUFFICES ASSUME IInv, IInv', [Next]_vars, phased
               PROVE  Abstract!Next \/ UNCHANGED Abstract!lockVars
    OBVIOUS
  <2>1. CASE UNCHANGED vars
    <3>1. Held' = Held /\ Owned' = Owned
      BY <2>1 DEF vars, Held, Owned
    <3>2. \A u \in Threads : CallOf(u)' = CallOf(u)
      BY <2>1 DEF vars, CallOf
    <3> QED BY <3>1, <3>2, SameCalls
  <2>2. CASE Next
    <3>1. UNCHANGED phased
      BY <2>2 DEF Next
    <3>2. PICK t \in Threads : \/ \E r \in Requests : Acquire(t, r)
                               \/ \E n \in LNode : Release(t, n)
                               \/ Step(t)
      BY <2>2 DEF Next
    <3>3. CASE \E r \in Requests : Acquire(t, r)
      <4>1. PICK r \in Requests : Abstract!TryLock(t, r)
        BY <3>3, AcquireRefines
      <4> QED BY <4>1 DEF Abstract!Next
    <3>4. CASE \E n \in LNode : Release(t, n)
      <4>1. PICK r \in Requests : Abstract!ReleaseLock(t, r)
        BY <3>1, <3>4, ReleaseRefines
      <4> QED BY <4>1 DEF Abstract!Next
    <3>5. CASE Insert(t)
      BY <3>1, <3>5, InsertRefines DEF Abstract!Next
    <3>6. CASE CountUp(t) \/ Refuse(t) \/ CountDown(t)
      BY <3>1, <3>6, ReturnRefines DEF Abstract!Next
    <3>7. CASE StoreMarked(t)
      BY <3>1, <3>7, StoreMarkedRefines DEF Abstract!Next
    <3>8. CASE \/ ReadPrev(t) \/ CheckCur(t) \/ ReadNext(t) \/ Snip(t)
               \/ LoadNext(t)
      BY <3>1, <3>8, QuietRefines
    <3> QED BY <3>2, <3>3, <3>4, <3>5, <3>6, <3>7, <3>8 DEF Step
  <2> QED BY <2>1, <2>2
<1> QED BY <1>1, <1>2, Invariance, PTL DEF Spec, ImplementsRangeLock

=============================================================================

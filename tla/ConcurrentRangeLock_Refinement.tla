------------------ MODULE ConcurrentRangeLock_Refinement ------------------
(***************************************************************************)
(* The skip list of src/src/v0 implements the range lock: proofs, for      *)
(* every number of threads, levels, calls and requests, of the marks, the  *)
(* refusals, the owners' rights, the refinement and the counter.  They     *)
(* rest on the invariant of ConcurrentRangeLock_Proofs.                    *)
(***************************************************************************)
EXTENDS ConcurrentRangeLock_Proofs, NatSets, FiniteSetTheorems

-----------------------------------------------------------------------------
(***************************************************************************)
(* The steps, as relations between the locals of a thread before and after *)
(* a step.  Thread t goes to label q with the locals g, and no other       *)
(* thread moves.                                                           *)
(***************************************************************************)
Only(t, q, g) ==
  /\ q \in Labels /\ g \in Frames
  /\ pc'[t] = q /\ frame'[t] = g
  /\ \A u \in Threads \ {t} : pc'[u] = pc[u] /\ frame'[u] = frame[u]

Quiet == UNCHANGED <<next, range, topLevel, linked>>

SameCall(f, g) ==
  g.find = f.find /\ g.want = f.want /\ g.at = f.at /\ g.top = f.top

SameSearch(f, g) ==
  /\ SameCall(f, g) /\ g.node = f.node /\ g.lvl = f.lvl
  /\ g.preds = f.preds /\ g.succs = f.succs

(***************************************************************************)
(* A search starts at the head.                                            *)
(***************************************************************************)
Starts(f, kind, g) ==
  /\ g.find = kind /\ g.want = f.want /\ g.at = f.at /\ g.top = f.top
  /\ g.node = f.node /\ g.lvl = MaxLevel /\ g.pred = head

(***************************************************************************)
(* A search at label p with the locals f stands between e.pred and e.curr. *)
(***************************************************************************)
Reaches(p, f, e) ==
  /\ e \in Frames /\ SameSearch(f, e) /\ HasLevel(e.curr, e.lvl)
  /\ HasLevel(e.pred, e.lvl) /\ e.pred # tail
  /\ \/ p = "curr" /\ e.pred = f.pred /\ e.curr = next[f.pred][f.lvl].ref
     \/ /\ p = "succ" /\ ~next[f.curr][f.lvl].mark /\ Pass(f)
        /\ e.pred = f.curr /\ e.curr = next[f.curr][f.lvl].ref
     \/ /\ p = "succ" /\ ~next[f.curr][f.lvl].mark /\ ~Pass(f)
        /\ e.pred = f.pred /\ e.curr = f.curr

(***************************************************************************)
(* It leaves the level there.                                              *)
(***************************************************************************)
Settled(e, q, g) ==
  /\ SameCall(e, g)
  /\ ~Enter(e) \/ ~Pass(e)
  /\ e.find # "delete" =>
       \A l \in Levels :
         /\ g.preds[l] = IF l = e.lvl THEN e.pred ELSE e.preds[l]
         /\ g.succs[l] = IF l = e.lvl THEN e.curr ELSE e.succs[l]
  /\ \/ /\ q = "curr" /\ e.lvl > 0 /\ g.lvl = e.lvl - 1
        /\ g.pred = e.pred /\ g.node = e.node
     \/ /\ q \in {"link", "found"} /\ e.lvl = 0
        /\ e.find = "insert" /\ e.at = 0 /\ g.node = e.node
        /\ q = "link" <=> RangeFree(e)
     \/ /\ q = "up" /\ e.lvl = 0 /\ e.find = "insert" /\ e.at > 0
        /\ g.node = e.node
     \/ /\ q \in {"mark", "bottom"} /\ e.lvl = 0
        /\ e.find = "exact" /\ RangeFound(e)
        /\ g.node = e.curr /\ g.lvl = topLevel[e.curr]
        /\ q = "bottom" => g.lvl = 0
     \/ q = "wrong" /\ e.lvl = 0 /\ e.find = "exact" /\ ~RangeFound(e)
     \/ q = "uncount" /\ e.lvl = 0 /\ e.find = "delete" /\ g.node = e.node

(***************************************************************************)
(* What the steps of a search do: they stop or go on at the node reached,  *)
(* see that it is marked, or read pred's successor again.                  *)
(***************************************************************************)
Goes(e, q, g) == q = "succ" /\ g = e /\ Enter(e)

SeesMark(p, f, q, g) ==
  /\ p = "succ" /\ q = "snip" /\ SameSearch(f, g)
  /\ g.pred = f.pred /\ g.curr = f.curr
  /\ next[f.curr][f.lvl] = Pack(g.succ, TRUE)

ReadsAgain(p, f, q, g) ==
  /\ p = "again" /\ q = "succ" /\ SameSearch(f, g)
  /\ g.pred = f.pred /\ g.curr = next[f.pred][f.lvl].ref

Stops(p, f, e) ==
  \/ ~Enter(e)
  \/ /\ p = "succ" /\ ~next[f.curr][f.lvl].mark /\ ~Pass(f)
     /\ e.pred = f.pred /\ e.curr = f.curr

Scans(p, f, q, g) ==
  \/ \E e : /\ Reaches(p, f, e)
            /\ Goes(e, q, g) \/ (Settled(e, q, g) /\ Stops(p, f, e))
  \/ SeesMark(p, f, q, g)
  \/ ReadsAgain(p, f, q, g)

(***************************************************************************)
(* Settle, as such a relation.                                             *)
(***************************************************************************)
LEMMA SettleFacts ==
  ASSUME TypeOK, NEW t \in Threads, NEW e \in Frames, Settle(t, e),
         e.curr \in Node, ~Enter(e) \/ ~Pass(e)
  PROVE  \E q, g : Only(t, q, g) /\ Settled(e, q, g)
<1> DEFINE g == IF e.find = "delete" THEN e
                ELSE [e EXCEPT !.preds[e.lvl] = e.pred,
                               !.succs[e.lvl] = e.curr]
           h == [g EXCEPT !.pred = head, !.curr = head, !.succ = head]
<1>1. /\ g \in Frames /\ SameCall(e, g) /\ g.node = e.node /\ g.lvl = e.lvl
      /\ g.pred = e.pred
      /\ e.find # "delete" =>
           \A l \in Levels : /\ g.preds[l] = IF l = e.lvl THEN e.pred
                                                          ELSE e.preds[l]
                             /\ g.succs[l] = IF l = e.lvl THEN e.curr
                                                          ELSE e.succs[l]
  BY DEF Frames, SameCall
<1> HIDE DEF g
<1>2. /\ h \in Frames /\ SameCall(e, h) /\ h.node = e.node
      /\ h.lvl = e.lvl /\ h.preds = g.preds /\ h.succs = g.succs
  BY <1>1 DEF Frames, Node, SameCall
<1>3. ASSUME NEW q \in Labels, NEW k \in Frames, Go(t, q, k)
      PROVE  Only(t, q, k)
  BY <1>3, GoFacts DEF Only
<1>a. CASE /\ e.lvl > 0
           /\ Go(t, "curr", [g EXCEPT !.lvl = e.lvl - 1,
                                      !.curr = head, !.succ = head])
  <2> DEFINE k == [g EXCEPT !.lvl = e.lvl - 1, !.curr = head, !.succ = head]
  <2>1. e.lvl - 1 \in Levels
    BY <1>a, LevelAssumption DEF Frames, Levels
  <2>2. /\ k \in Frames /\ SameCall(e, k) /\ k.node = e.node
        /\ k.lvl = e.lvl - 1 /\ k.pred = e.pred
        /\ k.preds = g.preds /\ k.succs = g.succs
    BY <1>1, <2>1 DEF Frames, Node, SameCall
  <2>3. Go(t, "curr", k) /\ "curr" \in Labels
    BY <1>a DEF Labels
  <2> HIDE DEF k
  <2>4. Settled(e, "curr", k)
    BY <1>1, <1>a, <2>2 DEF Settled
  <2> QED BY <1>3, <2>2, <2>3, <2>4
<1> HIDE DEF h
<1>b. CASE /\ e.lvl = 0 /\ e.find = "insert" /\ e.at = 0
           /\ Go(t, IF RangeFree(e) THEN "link" ELSE "found", h)
  <2>1. "link" \in Labels /\ "found" \in Labels
    BY DEF Labels
  <2>2. RangeFree(e) => Settled(e, "link", h)
    BY <1>1, <1>2, <1>b DEF Settled
  <2>3. ~RangeFree(e) => Settled(e, "found", h)
    BY <1>1, <1>2, <1>b DEF Settled
  <2> QED BY <1>2, <1>3, <1>b, <2>1, <2>2, <2>3
<1>c. CASE e.lvl = 0 /\ e.find = "insert" /\ e.at > 0 /\ Go(t, "up", h)
  <2>1. "up" \in Labels /\ Settled(e, "up", h)
    BY <1>1, <1>2, <1>c DEF Settled, Labels
  <2> QED BY <1>2, <1>3, <1>c, <2>1
<1>d. CASE /\ e.lvl = 0 /\ e.find = "exact" /\ RangeFound(e)
           /\ Go(t, IF topLevel[e.curr] > 0 THEN "mark" ELSE "bottom",
                    [h EXCEPT !.node = e.curr, !.lvl = topLevel[e.curr]])
  <2> DEFINE k == [h EXCEPT !.node = e.curr, !.lvl = topLevel[e.curr]]
  <2>1. topLevel[e.curr] \in Levels /\ "mark" \in Labels
        /\ "bottom" \in Labels
    BY DEF TypeOK, Labels
  <2>2. /\ k \in Frames /\ SameCall(e, k) /\ k.node = e.curr
        /\ k.lvl = topLevel[e.curr]
        /\ k.preds = g.preds /\ k.succs = g.succs
    BY <1>2, <2>1 DEF Frames, SameCall
  <2> HIDE DEF k
  <2>3. topLevel[e.curr] > 0 => Settled(e, "mark", k)
    BY <1>1, <1>d, <2>2 DEF Settled
  <2>4. ~(topLevel[e.curr] > 0) => topLevel[e.curr] = 0
    BY <2>1, LevelAssumption DEF Levels
  <2>5. ~(topLevel[e.curr] > 0) => Settled(e, "bottom", k)
    BY <1>1, <1>d, <2>2, <2>4 DEF Settled
  <2>6. Go(t, IF topLevel[e.curr] > 0 THEN "mark" ELSE "bottom", k)
    BY <1>d DEF k
  <2> QED BY <1>3, <2>1, <2>2, <2>3, <2>5, <2>6
<1>e. CASE e.lvl = 0 /\ e.find = "exact" /\ ~RangeFound(e)
           /\ Go(t, "wrong", h)
  <2>1. "wrong" \in Labels /\ Settled(e, "wrong", h)
    BY <1>1, <1>2, <1>e DEF Settled, Labels
  <2> QED BY <1>2, <1>3, <1>e, <2>1
<1>f. CASE e.lvl = 0 /\ e.find = "delete" /\ Go(t, "uncount", h)
  <2>1. "uncount" \in Labels /\ Settled(e, "uncount", h)
    BY <1>1, <1>2, <1>f DEF Settled, Labels
  <2> QED BY <1>2, <1>3, <1>f, <2>1
<1> QED BY <1>a, <1>b, <1>c, <1>d, <1>e, <1>f DEF Settle, g, h

(***************************************************************************)
(* Arrive, as such a relation.                                             *)
(***************************************************************************)
LEMMA ArriveFacts ==
  ASSUME TypeOK, NEW t \in Threads, NEW e \in Frames, Arrive(t, e)
  PROVE  \E q, g : /\ Only(t, q, g)
                   /\ Goes(e, q, g) \/ (Settled(e, q, g) /\ ~Enter(e))
<1>1. e.curr \in Node /\ e.curr # Null /\ "succ" \in Labels
  BY NodeAssumption DEF Frames, Labels
<1>2. CASE Enter(e) /\ Go(t, "succ", e)
  <2>1. Only(t, "succ", e) /\ Goes(e, "succ", e)
    BY <1>1, <1>2, GoFacts DEF Only, Goes
  <2> QED BY <2>1
<1>3. CASE ~Enter(e) /\ Settle(t, e)
  BY <1>1, <1>3, SettleFacts
<1> QED BY <1>1, <1>2, <1>3 DEF Arrive

(***************************************************************************)
(* The steps of a search (range_lock.hpp:79-204).                          *)
(***************************************************************************)
LEMMA ScanFacts ==
  ASSUME IInv, NEW t \in Threads, ReadCurr(t) \/ ReadSucc(t) \/ Reread(t)
  PROVE  \E q, g : Only(t, q, g) /\ Scans(pc[t], frame[t], q, g)
<1> DEFINE f == frame[t]
<1>0. TypeOK /\ f \in Frames /\ FrameOK(pc[t], f)
  BY ThreadFacts
<1>1. pc[t] \in Searching =>
        HasLevel(f.pred, f.lvl) /\ f.pred # tail /\ f.lvl \in Levels
  BY <1>0 DEF FrameOK, Searches, Frames
<1>2. CASE ReadCurr(t)
  <2> DEFINE e == [f EXCEPT !.curr = next[f.pred][f.lvl].ref]
  <2>1. pc[t] = "curr" /\ Arrive(t, e)
    BY <1>2 DEF ReadCurr
  <2> HIDE DEF f
  <2>2. HasLevel(next[f.pred][f.lvl].ref, f.lvl)
        /\ next[f.pred][f.lvl].ref \in Node
    BY <1>1, <2>1, NextLevel DEF Searching
  <2>3. /\ e \in Frames /\ SameSearch(f, e)
        /\ e.pred = f.pred /\ e.curr = next[f.pred][f.lvl].ref
    BY <1>0, <2>2 DEF Frames, SameSearch, SameCall
  <2> HIDE DEF e
  <2>4. Reaches("curr", f, e)
    BY <1>1, <2>1, <2>2, <2>3 DEF Reaches, Searching, SameSearch
  <2>5. PICK q, g : /\ Only(t, q, g)
                    /\ Goes(e, q, g) \/ (Settled(e, q, g) /\ ~Enter(e))
    BY <1>0, <2>1, <2>3, ArriveFacts
  <2> QED BY <2>1, <2>4, <2>5 DEF Scans, Stops, f
<1>3. CASE Reread(t)
  <2> DEFINE g == [f EXCEPT !.curr = next[f.pred][f.lvl].ref]
  <2>1. pc[t] = "again" /\ Go(t, "succ", g) /\ "succ" \in Labels
    BY <1>3 DEF Reread, Labels
  <2> HIDE DEF f
  <2>2. next[f.pred][f.lvl].ref \in Node
    BY <1>1, <2>1, NextLevel DEF Searching
  <2>3. /\ g \in Frames /\ SameSearch(f, g)
        /\ g.pred = f.pred /\ g.curr = next[f.pred][f.lvl].ref
    BY <1>0, <2>2 DEF Frames, SameSearch, SameCall
  <2> HIDE DEF g
  <2>4. Only(t, "succ", g) /\ ReadsAgain("again", f, "succ", g)
    BY <1>0, <2>1, <2>3, GoFacts DEF Only, ReadsAgain
  <2> QED BY <2>1, <2>4 DEF Scans, f
<1>4. CASE ReadSucc(t)
  <2> DEFINE w == next[f.curr][f.lvl]
  <2>1. /\ pc[t] = "succ"
        /\ \/ w.mark /\ Go(t, "snip", [f EXCEPT !.succ = w.ref])
           \/ ~w.mark /\ Pass(f)
                /\ Arrive(t, [f EXCEPT !.pred = f.curr, !.curr = w.ref])
           \/ ~w.mark /\ ~Pass(f) /\ Settle(t, f)
    BY <1>4 DEF ReadSucc
  <2>2. /\ HasLevel(f.curr, f.lvl) /\ f.curr \in Node /\ f.lvl \in Levels
        /\ f.want \in Requests
    BY <1>0, <2>1 DEF FrameOK, Frames
  <2> HIDE DEF f
  <2>3. w \in WordsOver(Node \cup {Null})
    BY <1>0, <2>2 DEF TypeOK
  <2>4. CASE w.mark /\ Go(t, "snip", [f EXCEPT !.succ = w.ref])
    <3> DEFINE g == [f EXCEPT !.succ = w.ref]
    <3>1. f.curr # tail
      BY <2>2, <2>4 DEF IInv, ListInv, Ends, Pack
    <3>2. w.ref \in Node
      BY <2>2, <3>1, NextLevel
    <3>3. /\ g \in Frames /\ SameSearch(f, g) /\ g.succ = w.ref
          /\ g.pred = f.pred /\ g.curr = f.curr
      BY <1>0, <3>2 DEF Frames, SameSearch, SameCall
    <3>4. "snip" \in Labels /\ w = Pack(g.succ, TRUE)
      BY <2>3, <2>4, <3>3 DEF Labels, Pack, WordsOver
    <3>5. Go(t, "snip", g)
      BY <2>4
    <3> HIDE DEF g
    <3>6. Only(t, "snip", g) /\ SeesMark("succ", f, "snip", g)
      BY <1>0, <3>3, <3>4, <3>5, GoFacts DEF Only, SeesMark
    <3> QED BY <2>1, <3>6 DEF Scans, f
  <2>5. CASE ~w.mark /\ Pass(f)
               /\ Arrive(t, [f EXCEPT !.pred = f.curr, !.curr = w.ref])
    <3> DEFINE e == [f EXCEPT !.pred = f.curr, !.curr = w.ref]
    <3>1. f.curr # tail
      BY <2>2, <2>5, RequestAssumption
         DEF Pass, Start, End, IInv, BelowMax, ListInv, Ends, RangesOver
    <3>2. HasLevel(w.ref, f.lvl) /\ w.ref \in Node
      BY <2>2, <3>1, NextLevel
    <3>3. /\ e \in Frames /\ SameSearch(f, e)
          /\ e.pred = f.curr /\ e.curr = w.ref
      BY <1>0, <2>2, <3>2 DEF Frames, SameSearch, SameCall
    <3>4. Arrive(t, e)
      BY <2>5
    <3> HIDE DEF e
    <3>5. Reaches("succ", f, e)
      BY <2>2, <2>5, <3>1, <3>2, <3>3 DEF Reaches, SameSearch
    <3>6. PICK q, g : /\ Only(t, q, g)
                      /\ Goes(e, q, g) \/ (Settled(e, q, g) /\ ~Enter(e))
      BY <1>0, <3>3, <3>4, ArriveFacts
    <3> QED BY <2>1, <3>5, <3>6 DEF Scans, Stops, f
  <2>6. CASE ~w.mark /\ ~Pass(f) /\ Settle(t, f)
    <3>1. Reaches("succ", f, f)
      BY <1>0, <1>1, <2>1, <2>2, <2>6
         DEF Reaches, SameSearch, SameCall, Searching
    <3>2. PICK q, g : Only(t, q, g) /\ Settled(f, q, g)
      BY <1>0, <2>2, <2>6, SettleFacts
    <3> QED BY <2>1, <2>6, <3>1, <3>2 DEF Scans, Stops, f
  <2> QED BY <2>1, <2>4, <2>5, <2>6
<1> QED BY <1>2, <1>3, <1>4

-----------------------------------------------------------------------------
(***************************************************************************)
(* The word of node n at level l becomes w, and no other word changes.     *)
(***************************************************************************)
Writes(n, l, w) ==
  \A m \in Node, k \in Levels :
    next'[m][k] = IF m = n /\ k = l THEN w ELSE next[m][k]

(***************************************************************************)
(* The snip of curr at the thread's level, or a new search.                *)
(***************************************************************************)
Snips(f, q, g) ==
  /\ q = "again" /\ SameSearch(f, g) /\ g.pred = f.pred
  /\ next[f.pred][f.lvl] = Pack(f.curr, FALSE)
  /\ next[f.curr][f.lvl] = Pack(f.succ, TRUE)
  /\ Writes(f.pred, f.lvl, Pack(f.succ, FALSE))
  /\ linked' = IF f.lvl = 0 THEN linked \ {f.curr} ELSE linked

Retries(f, kind, q, g) == q = "curr" /\ Starts(f, kind, g) /\ Quiet

(***************************************************************************)
(* A search that starts again keeps its call.                              *)
(***************************************************************************)
LEMMA RetryFacts ==
  ASSUME TypeOK, NEW t \in Threads, NEW f \in Frames,
         NEW kind \in {"insert", "exact", "delete"},
         Go(t, "curr", StartFind(f, kind))
  PROVE  /\ Only(t, "curr", StartFind(f, kind))
         /\ Starts(f, kind, StartFind(f, kind))
<1> DEFINE g == StartFind(f, kind)
<1>1. /\ g \in Frames /\ g.find = kind /\ g.lvl = MaxLevel
      /\ g.pred = head /\ g.want = f.want /\ g.top = f.top
      /\ g.at = f.at /\ g.node = f.node
  BY StartFindFacts
<1>2. Go(t, "curr", g) /\ "curr" \in Labels
  BY DEF Labels
<1> HIDE DEF g
<1>3. Only(t, "curr", g) /\ Starts(f, kind, g)
  BY <1>1, <1>2, GoFacts DEF Only, Starts
<1> QED BY <1>3 DEF g

(***************************************************************************)
(* The compareAndSet of a search (range_lock.hpp:92, 134, 174).            *)
(***************************************************************************)
LEMMA SnipFacts ==
  ASSUME IInv, NEW t \in Threads, Snip(t)
  PROVE  /\ pc[t] = "snip"
         /\ UNCHANGED <<range, topLevel, elementsCount, calls, owned,
                        contended>>
         /\ \E q, g : /\ Only(t, q, g)
                      /\ \/ Snips(frame[t], q, g)
                         \/ Retries(frame[t], frame[t].find, q, g)
<1> DEFINE f == frame[t]
<1>0. TypeOK /\ f \in Frames /\ FrameOK("snip", f) /\ pc[t] = "snip"
      /\ UNCHANGED <<range, topLevel, elementsCount, calls, owned, contended>>
  BY ThreadFacts DEF Snip
<1>1. /\ f.pred \in Node /\ f.lvl \in Levels
      /\ f.find \in {"insert", "exact", "delete"}
      /\ next[f.curr][f.lvl] = Pack(f.succ, TRUE)
  BY <1>0 DEF FrameOK, Frames, Searching, Searches
<1>2. CASE /\ CanSet(next[f.pred][f.lvl], f.curr, FALSE)
           /\ next' = [next EXCEPT ![f.pred][f.lvl] = Pack(f.succ, FALSE)]
           /\ linked' = IF f.lvl = 0 THEN linked \ {f.curr} ELSE linked
           /\ Go(t, "again", [f EXCEPT !.curr = head, !.succ = head])
  <2> DEFINE g == [f EXCEPT !.curr = head, !.succ = head]
  <2> HIDE DEF f
  <2>1. g \in Frames /\ SameSearch(f, g) /\ g.pred = f.pred
    BY <1>0 DEF Frames, SameSearch, SameCall, Node
  <2>2. Writes(f.pred, f.lvl, Pack(f.succ, FALSE))
    BY <1>0, <1>1, <1>2 DEF Writes, TypeOK
  <2>3. Go(t, "again", g) /\ "again" \in Labels
    BY <1>2 DEF Labels
  <2> HIDE DEF g
  <2>4. Only(t, "again", g) /\ Snips(f, "again", g)
    BY <1>0, <1>1, <1>2, <2>1, <2>2, <2>3, GoFacts DEF Only, Snips, CanSet
  <2> QED BY <1>0, <2>4 DEF f
<1>3. CASE /\ Go(t, "curr", StartFind(f, f.find))
           /\ UNCHANGED <<next, linked>>
  <2>1. Quiet
    BY <1>0, <1>3 DEF Quiet
  <2>2. /\ Only(t, "curr", StartFind(f, f.find))
        /\ Starts(f, f.find, StartFind(f, f.find))
    BY <1>0, <1>1, <1>3, RetryFacts
  <2> QED BY <1>0, <2>1, <2>2 DEF Retries
<1> QED BY <1>0, <1>2, <1>3 DEF Snip

(***************************************************************************)
(* A node is linked into an upper level.                                   *)
(***************************************************************************)
LinksUpper(f, q, g) ==
  /\ f.at \in Levels /\ 0 < f.at /\ f.at <= f.top
  /\ next[f.preds[f.at]][f.at] = Pack(f.succs[f.at], FALSE)
  /\ Writes(f.preds[f.at], f.at, Pack(f.node, FALSE))
  /\ linked' = linked
  /\ \/ q = "up" /\ f.at < f.top
     \/ q = "count" /\ f.at = f.top
  /\ g.find = f.find /\ g.want = f.want /\ g.top = f.top
  /\ g.at = f.at + 1 /\ g.node = f.node
  /\ g.preds = f.preds /\ g.succs = f.succs

(***************************************************************************)
(* The compareAndSet of an upper level (range_lock.hpp:246-258).           *)
(***************************************************************************)
LEMMA LinkUpperFacts ==
  ASSUME IInv, NEW t \in Threads, LinkUpper(t)
  PROVE  /\ pc[t] = "up"
         /\ UNCHANGED <<range, topLevel, elementsCount, calls, owned,
                        contended>>
         /\ \E q, g : /\ Only(t, q, g)
                      /\ \/ LinksUpper(frame[t], q, g)
                         \/ Retries(frame[t], "insert", q, g)
<1> DEFINE f == frame[t]
           n == f.preds[f.at]
<1>0. TypeOK /\ f \in Frames /\ FrameOK("up", f) /\ pc[t] = "up"
      /\ linked' = linked
      /\ UNCHANGED <<range, topLevel, elementsCount, calls, owned, contended>>
  BY ThreadFacts DEF LinkUpper
<1>1. f.at \in Levels /\ 0 < f.at /\ f.at <= f.top /\ n \in Node
  BY <1>0, LevelAssumption DEF FrameOK, Frames, Levels
<1>2. CASE /\ CanSet(next[n][f.at], f.succs[f.at], FALSE)
           /\ next' = [next EXCEPT ![n][f.at] = Pack(f.node, FALSE)]
           /\ Go(t, IF f.at < f.top THEN "up" ELSE "count",
                    [f EXCEPT !.at = @ + 1])
  <2> DEFINE g == [f EXCEPT !.at = @ + 1]
             q == IF f.at < f.top THEN "up" ELSE "count"
  <2> HIDE DEF f
  <2>1. /\ g \in Frames /\ g.find = f.find /\ g.want = f.want
        /\ g.top = f.top /\ g.at = f.at + 1 /\ g.node = f.node
        /\ g.preds = f.preds /\ g.succs = f.succs
    <3>1. f.at + 1 \in 0 .. (MaxLevel + 1)
      BY <1>1, LevelAssumption DEF Levels
    <3> QED BY <1>0, <3>1 DEF Frames
  <2>2. Writes(n, f.at, Pack(f.node, FALSE))
    BY <1>0, <1>1, <1>2 DEF Writes, TypeOK
  <2>3. /\ q \in Labels
        /\ (q = "up" /\ f.at < f.top) \/ (q = "count" /\ f.at = f.top)
    BY <1>0, <1>1 DEF Labels, Levels, Frames
  <2>4. Go(t, q, g)
    BY <1>2
  <2> HIDE DEF g, q
  <2>5. Only(t, q, g) /\ LinksUpper(f, q, g)
    BY <1>0, <1>1, <1>2, <2>1, <2>2, <2>3, <2>4, GoFacts
       DEF Only, LinksUpper, CanSet
  <2> QED BY <1>0, <2>5 DEF f
<1>3. CASE Go(t, "curr", StartFind(f, "insert")) /\ UNCHANGED next
  <2>1. Quiet
    BY <1>0, <1>3 DEF Quiet
  <2>2. /\ Only(t, "curr", StartFind(f, "insert"))
        /\ Starts(f, "insert", StartFind(f, "insert"))
    BY <1>0, <1>3, RetryFacts
  <2> QED BY <1>0, <2>1, <2>2 DEF Retries
<1> QED BY <1>0, <1>2, <1>3 DEF LinkUpper

(***************************************************************************)
(* A new node is linked into level 0.                                      *)
(***************************************************************************)
LinksBottom(f, q, g) ==
  /\ f.node \in NewNodes /\ ~Published(f.node)
  /\ HasLevel(f.preds[0], 0) /\ f.preds[0] \notin {f.node, tail}
  /\ next[f.preds[0]][0] = Pack(f.succs[0], FALSE)
  /\ \A m \in Node, k \in Levels :
       next'[m][k] =
         IF m = f.node THEN Pack(IF k <= f.top THEN f.succs[k] ELSE Null, FALSE)
         ELSE IF m = f.preds[0] /\ k = 0 THEN Pack(f.node, FALSE)
         ELSE next[m][k]
  /\ \A m \in Node : range'[m] = IF m = f.node THEN f.want ELSE range[m]
  /\ \A m \in Node : topLevel'[m] = IF m = f.node THEN f.top ELSE topLevel[m]
  /\ linked' = linked \cup {f.node}
  /\ \/ q = "up" /\ f.top > 0
     \/ q = "count" /\ f.top = 0
  /\ g.find = f.find /\ g.want = f.want /\ g.top = f.top
  /\ g.at = 1 /\ g.node = f.node
  /\ g.preds = f.preds /\ g.succs = f.succs

(***************************************************************************)
(* Every call that is looking for a place hears of the new node.           *)
(***************************************************************************)
Announces(t, f) ==
  \A u \in Threads :
    contended'[u] <=>
      u # t /\ ( \/ contended[u]
                 \/ /\ frame[u].find = "insert" /\ frame[u].at = 0
                    /\ ClosedOverlap(f.want, frame[u].want) )

(***************************************************************************)
(* The compareAndSet of level 0 (range_lock.hpp:236-243).                  *)
(***************************************************************************)
LEMMA LinkBottomFacts ==
  ASSUME IInv, NEW t \in Threads, LinkBottom(t)
  PROVE  /\ pc[t] = "link"
         /\ UNCHANGED <<elementsCount, calls, owned>>
         /\ \E q, g :
              /\ Only(t, q, g)
              /\ \/ LinksBottom(frame[t], q, g) /\ Announces(t, frame[t])
                 \/ /\ Retries(frame[t], "insert", q, g)
                    /\ contended' = contended
<1> DEFINE f == frame[t]
           n == f.preds[0]
<1>0. TypeOK /\ f \in Frames /\ FrameOK("link", f) /\ pc[t] = "link"
      /\ UNCHANGED <<elementsCount, calls, owned>>
  BY ThreadFacts DEF LinkBottom
<1>1. 0 \in Levels /\ HasLevel(n, 0) /\ n \in Node /\ f.node \in NewNodes
      /\ ~Published(f.node) /\ f.node \in Node /\ f.find = "insert"
      /\ HasLevel(f.succs[0], 0) /\ f.succs[0] # Null
  BY <1>0, LevelAssumption, NodeAssumption
     DEF FrameOK, Frames, Levels, Inserts, Noted, HasLevel, Node
<1>2. CASE /\ CanSet(next[n][0], f.succs[0], FALSE)
           /\ next' = [next EXCEPT ![f.node] = NewWords(f),
                                   ![n][0] = Pack(f.node, FALSE)]
           /\ range' = [range EXCEPT ![f.node] = f.want]
           /\ topLevel' = [topLevel EXCEPT ![f.node] = f.top]
           /\ linked' = linked \cup {f.node}
           /\ Go(t, IF f.top > 0 THEN "up" ELSE "count", [f EXCEPT !.at = 1])
  <2> DEFINE g == [f EXCEPT !.at = 1]
             q == IF f.top > 0 THEN "up" ELSE "count"
  <2> HIDE DEF f
  <2>1. /\ g \in Frames /\ g.find = f.find /\ g.want = f.want
        /\ g.top = f.top /\ g.at = 1 /\ g.node = f.node
        /\ g.preds = f.preds /\ g.succs = f.succs
    BY <1>0, LevelAssumption DEF Frames
  <2>2. next[n][0] = Pack(f.succs[0], FALSE)
    BY <1>2 DEF CanSet
  <2>3. n # tail /\ n # f.node
    BY <1>1, <2>2 DEF IInv, ListInv, Ends, Pack, HasLevel
  <2>4. \A m \in Node, k \in Levels :
          next'[m][k] =
            IF m = f.node
            THEN Pack(IF k <= f.top THEN f.succs[k] ELSE Null, FALSE)
            ELSE IF m = n /\ k = 0 THEN Pack(f.node, FALSE) ELSE next[m][k]
    BY <1>0, <1>1, <1>2, <2>3 DEF TypeOK, NewWords
  <2>5. /\ \A m \in Node : range'[m] = IF m = f.node THEN f.want ELSE range[m]
        /\ \A m \in Node : topLevel'[m] = IF m = f.node THEN f.top
                                                        ELSE topLevel[m]
    BY <1>0, <1>1, <1>2 DEF TypeOK
  <2>6. /\ q \in Labels
        /\ (q = "up" /\ f.top > 0) \/ (q = "count" /\ f.top = 0)
    BY <1>0, LevelAssumption DEF Labels, Levels, Frames
  <2>7. Go(t, q, g)
    BY <1>2
  <2> HIDE DEF g, q
  <2>8. Only(t, q, g)
    BY <1>0, <2>1, <2>6, <2>7, GoFacts DEF Only
  <2>9. LinksBottom(f, q, g)
    BY <1>1, <1>2, <2>1, <2>2, <2>3, <2>4, <2>5, <2>6 DEF LinksBottom
  <2>10. contended' = [u \in Threads |->
             u # t /\ ( \/ contended[u]
                        \/ /\ frame[u].find = "insert" /\ frame[u].at = 0
                           /\ ClosedOverlap(f.want, frame[u].want) )]
    BY <1>0, <1>1, <1>2, <2>3 DEF LinkBottom, f, listVars, TypeOK, CanSet
  <2>11. Announces(t, f)
    BY <2>10, Zenon DEF Announces
  <2> QED BY <1>0, <2>8, <2>9, <2>11 DEF f
<1>3. CASE /\ Go(t, "curr", StartFind(f, "insert"))
           /\ UNCHANGED <<listVars, contended>>
  <2>1. Quiet
    BY <1>3 DEF Quiet, listVars
  <2>2. /\ Only(t, "curr", StartFind(f, "insert"))
        /\ Starts(f, "insert", StartFind(f, "insert"))
    BY <1>0, <1>3, RetryFacts
  <2> QED BY <1>0, <1>3, <2>1, <2>2 DEF Retries
<1> QED BY <1>0, <1>2, <1>3 DEF LinkBottom

(***************************************************************************)
(* The steps of releaseLock between its two searches.                      *)
(***************************************************************************)
Marks(n, l) ==
  /\ ~next[n][l].mark
  /\ Writes(n, l, Pack(next[n][l].ref, TRUE)) /\ linked' = linked

MarksNode(p, f, q, g) ==
  \/ /\ SameCall(f, g) /\ g.node = f.node
     /\ \/ /\ p = "mark" /\ next[f.node][f.lvl].mark /\ g.lvl = f.lvl - 1
           /\ (q = "mark" /\ f.lvl > 1) \/ (q = "bottom" /\ f.lvl = 1)
           /\ Quiet
        \/ p = "mark" /\ q = "attempt" /\ g.lvl = f.lvl /\ Quiet
        \/ /\ p = "attempt" /\ q = "mark" /\ g.lvl = f.lvl
           /\ Quiet \/ Marks(f.node, f.lvl)
        \/ p = "bottom" /\ q = "delete" /\ Quiet
        \/ p = "delete" /\ q = "recheck" /\ Quiet
        \/ p = "recheck" /\ q = "delete" /\ Quiet
        \/ p = "recheck" /\ q = "wrong" /\ next[f.node][0].mark /\ Quiet
  \/ p = "delete" /\ q = "curr" /\ Starts(f, "delete", g) /\ Marks(f.node, 0)

(***************************************************************************)
(* Marking (range_lock.hpp:283-317).                                       *)
(***************************************************************************)
LEMMA MarkFacts ==
  ASSUME IInv, NEW t \in Threads,
         \/ MarkUpper(t) \/ TryMark(t) \/ ReadBottom(t) \/ MarkBottom(t)
         \/ Recheck(t)
  PROVE  /\ UNCHANGED <<range, topLevel, elementsCount, calls, owned,
                        contended>>
         /\ \E q, g : Only(t, q, g) /\ MarksNode(pc[t], frame[t], q, g)
<1> DEFINE f == frame[t]
           p == pc[t]
<1>0. TypeOK /\ f \in Frames /\ FrameOK(p, f)
      /\ p \in {"mark", "attempt", "bottom", "delete", "recheck"}
      /\ UNCHANGED <<range, topLevel, elementsCount, calls, owned, contended>>
  BY ThreadFacts DEF MarkUpper, TryMark, ReadBottom, MarkBottom, Recheck,
                     listVars
<1>1. /\ f.node \in Node /\ f.node # tail /\ f.lvl \in Levels
      /\ HasLevel(f.node, f.lvl) /\ 0 \in Levels /\ HasLevel(f.node, 0)
      /\ p \in {"mark", "attempt"} => f.lvl > 0
  BY <1>0, LevelAssumption DEF FrameOK, Frames, HasLevel, Levels, TypeOK
<1>2. next[f.node][f.lvl].ref \in Node /\ next[f.node][0].ref \in Node
  BY <1>1, NextLevel
<1>3. ASSUME NEW q \in Labels, NEW k \in Frames, Go(t, q, k)
      PROVE  Only(t, q, k)
  BY <1>0, <1>3, GoFacts DEF Only
<1>4. ASSUME NEW x \in Node
      PROVE  LET k == [f EXCEPT !.succ = x] IN
             /\ k \in Frames /\ SameCall(f, k) /\ k.node = f.node
             /\ k.lvl = f.lvl
  BY <1>0 DEF Frames, SameCall
<1>5. \A q \in {"mark", "attempt", "bottom", "delete", "recheck", "wrong"} :
        q \in Labels
  BY DEF Labels
<1>6. head \in Node
  BY DEF Node
<1>a. CASE MarkUpper(t)
  <2>0. Quiet /\ p = "mark"
    BY <1>a DEF MarkUpper, listVars, Quiet
  <2>1. CASE next[f.node][f.lvl].mark
    <3> DEFINE k == [f EXCEPT !.lvl = @ - 1, !.succ = head]
               q == IF f.lvl > 1 THEN "mark" ELSE "bottom"
    <3>1. Go(t, q, k)
      BY <1>a, <2>1 DEF MarkUpper
    <3> HIDE DEF f
    <3>2. f.lvl - 1 \in Levels /\ (f.lvl > 1 \/ f.lvl = 1)
      BY <1>1, <2>0, LevelAssumption DEF Levels
    <3>3. /\ k \in Frames /\ SameCall(f, k) /\ k.node = f.node
          /\ k.lvl = f.lvl - 1
      BY <1>0, <3>2 DEF Frames, SameCall, Node
    <3>4. q \in Labels /\ ((q = "mark" /\ f.lvl > 1)
                             \/ (q = "bottom" /\ f.lvl = 1))
      BY <1>1, <3>2, <1>5 DEF Levels
    <3> HIDE DEF k, q
    <3>5. Only(t, q, k) /\ MarksNode(p, f, q, k)
      BY <1>3, <2>0, <2>1, <3>1, <3>3, <3>4 DEF MarksNode
    <3> QED BY <1>0, <3>5 DEF f
  <2>2. CASE ~next[f.node][f.lvl].mark
    <3> DEFINE k == [f EXCEPT !.succ = next[f.node][f.lvl].ref]
    <3>1. Go(t, "attempt", k)
      BY <1>a, <2>2 DEF MarkUpper
    <3>2. /\ k \in Frames /\ SameCall(f, k) /\ k.node = f.node
          /\ k.lvl = f.lvl
      BY <1>2, <1>4
    <3> HIDE DEF k, f
    <3>3. Only(t, "attempt", k) /\ MarksNode(p, f, "attempt", k)
      BY <1>3, <1>5, <2>0, <3>1, <3>2 DEF MarksNode
    <3> QED BY <1>0, <3>3 DEF f
  <2> QED BY <2>1, <2>2
<1>b. CASE TryMark(t)
  <2> DEFINE k == [f EXCEPT !.succ = head]
             w == next[f.node][f.lvl]
  <2>1. /\ next' = [next EXCEPT ![f.node][f.lvl] = AttemptMark(w, f.succ)]
        /\ Go(t, "mark", k) /\ p = "attempt" /\ linked' = linked
    BY <1>0, <1>1, <1>b DEF TryMark, TypeOK
  <2>2. /\ k \in Frames /\ SameCall(f, k) /\ k.node = f.node
        /\ k.lvl = f.lvl
    BY <1>4, <1>6
  <2> HIDE DEF k, f
  <2>3. Quiet \/ Marks(f.node, f.lvl)
    <3>1. CASE CanSet(w, f.succ, FALSE)
      <4>1. /\ AttemptMark(w, f.succ) = Pack(w.ref, TRUE) /\ ~w.mark
        BY <3>1 DEF AttemptMark, CanSet, Pack
      <4> QED BY <1>0, <1>1, <2>1, <4>1 DEF Marks, Writes, TypeOK
    <3>2. CASE ~CanSet(w, f.succ, FALSE)
      <4>1. AttemptMark(w, f.succ) = w
        BY <3>2 DEF AttemptMark
      <4>2. next' = next
        BY <1>0, <1>1, <2>1, <4>1 DEF TypeOK
      <4> QED BY <1>0, <2>1, <4>2 DEF Quiet
    <3> QED BY <3>1, <3>2
  <2>4. Only(t, "mark", k) /\ MarksNode(p, f, "mark", k)
    BY <1>3, <1>5, <2>1, <2>2, <2>3 DEF MarksNode
  <2> QED BY <1>0, <2>4 DEF f
<1>c. CASE ReadBottom(t)
  <2> DEFINE k == [f EXCEPT !.succ = next[f.node][0].ref]
  <2>1. Go(t, "delete", k) /\ p = "bottom" /\ Quiet
    BY <1>c DEF ReadBottom, listVars, Quiet
  <2>2. /\ k \in Frames /\ SameCall(f, k) /\ k.node = f.node
    BY <1>2, <1>4
  <2> HIDE DEF k, f
  <2>3. Only(t, "delete", k) /\ MarksNode(p, f, "delete", k)
    BY <1>3, <1>5, <2>1, <2>2 DEF MarksNode
  <2> QED BY <1>0, <2>3 DEF f
<1>d. CASE MarkBottom(t)
  <2>0. p = "delete" /\ linked' = linked
    BY <1>d DEF MarkBottom
  <2>1. CASE /\ CanSet(next[f.node][0], f.succ, FALSE)
             /\ next' = [next EXCEPT ![f.node][0] = Pack(f.succ, TRUE)]
             /\ Go(t, "curr", StartFind(f, "delete"))
    <3> DEFINE k == StartFind(f, "delete")
    <3>1. Only(t, "curr", k) /\ Starts(f, "delete", k)
      BY <1>0, <2>1, RetryFacts
    <3> HIDE DEF k, f
    <3>2. next[f.node][0].ref = f.succ /\ ~next[f.node][0].mark
      BY <2>1 DEF CanSet, Pack
    <3>3. Marks(f.node, 0)
      BY <1>0, <1>1, <2>0, <2>1, <3>2 DEF Marks, Writes, TypeOK
    <3>4. MarksNode(p, f, "curr", k)
      BY <2>0, <3>1, <3>3 DEF MarksNode
    <3> QED BY <1>0, <3>1, <3>4 DEF f
  <2>2. CASE Go(t, "recheck", f) /\ UNCHANGED next
    <3>1. Quiet
      BY <1>0, <2>0, <2>2 DEF Quiet
    <3> HIDE DEF f
    <3>2. Only(t, "recheck", f) /\ MarksNode(p, f, "recheck", f)
      BY <1>0, <1>3, <1>5, <2>0, <2>2, <3>1 DEF MarksNode, SameCall
    <3> QED BY <1>0, <3>2 DEF f
  <2> QED BY <1>d, <2>1, <2>2 DEF MarkBottom
<1>e. CASE Recheck(t)
  <2>0. p = "recheck" /\ Quiet
    BY <1>e DEF Recheck, listVars, Quiet
  <2>1. CASE next[f.node][0].mark
    <3> DEFINE k == [f EXCEPT !.succ = head]
    <3>1. Go(t, "wrong", k)
      BY <1>e, <2>1 DEF Recheck
    <3>2. /\ k \in Frames /\ SameCall(f, k) /\ k.node = f.node
      BY <1>4, <1>6
    <3> HIDE DEF k, f
    <3>3. Only(t, "wrong", k) /\ MarksNode(p, f, "wrong", k)
      BY <1>3, <1>5, <2>0, <2>1, <3>1, <3>2 DEF MarksNode
    <3> QED BY <1>0, <3>3 DEF f
  <2>2. CASE ~next[f.node][0].mark
    <3> DEFINE k == [f EXCEPT !.succ = next[f.node][0].ref]
    <3>1. Go(t, "delete", k)
      BY <1>e, <2>2 DEF Recheck
    <3>2. /\ k \in Frames /\ SameCall(f, k) /\ k.node = f.node
      BY <1>2, <1>4
    <3> HIDE DEF k, f
    <3>3. Only(t, "delete", k) /\ MarksNode(p, f, "delete", k)
      BY <1>3, <1>5, <2>0, <3>1, <3>2 DEF MarksNode
    <3> QED BY <1>0, <3>3 DEF f
  <2> QED BY <2>1, <2>2
<1> QED BY <1>a, <1>b, <1>c, <1>d, <1>e

(***************************************************************************)
(* A call begins, or returns.                                              *)
(***************************************************************************)
BeginsTryLock(t, p, q, g) ==
  /\ p = "idle" /\ q = "curr" /\ Quiet
  /\ g.find = "insert" /\ g.want \in Requests /\ g.at = 0
  /\ g.node = calls + 1 /\ g.node \in NewNodes
  /\ g.lvl = MaxLevel /\ g.pred = head
  /\ calls' = calls + 1 /\ owned' = owned
  /\ contended' = [contended EXCEPT ![t] =
                     \E n \in Locked : ClosedOverlap(range[n], g.want)]

BeginsRelease(p, q, g) ==
  /\ p = "idle" /\ q = "curr" /\ Quiet
  /\ g.find = "exact" /\ g.want \in Requests
  /\ g.lvl = MaxLevel /\ g.pred = head
  /\ calls' = calls /\ contended' = contended
  /\ \/ \E n \in owned : range[n] = g.want /\ owned' = owned \ {n}
     \/ Misuse /\ owned' = owned

Returns(t, p, f, q, g) ==
  /\ q = "idle" /\ g = Rest /\ Quiet /\ calls' = calls
  /\ \/ /\ p = "found" /\ owned' = owned
        /\ contended' = [contended EXCEPT ![t] = FALSE]
     \/ p = "count" /\ owned' = owned \cup {f.node} /\ contended' = contended
     \/ p \in {"uncount", "wrong"} /\ UNCHANGED <<owned, contended>>

(***************************************************************************)
(* Everything thread t may do at label p with the locals f.                *)
(***************************************************************************)
Moves(t, p, f, q, g) ==
  \/ /\ Scans(p, f, q, g) /\ Quiet
     /\ UNCHANGED <<calls, owned, contended>>
  \/ /\ p = "snip" /\ Snips(f, q, g)
     /\ UNCHANGED <<range, topLevel, calls, owned, contended>>
  \/ /\ p = "snip" /\ Retries(f, f.find, q, g)
     /\ UNCHANGED <<calls, owned, contended>>
  \/ /\ p = "link" /\ LinksBottom(f, q, g) /\ Announces(t, f)
     /\ UNCHANGED <<calls, owned>>
  \/ /\ p = "up" /\ LinksUpper(f, q, g)
     /\ UNCHANGED <<range, topLevel, calls, owned, contended>>
  \/ /\ p \in {"link", "up"} /\ Retries(f, "insert", q, g)
     /\ UNCHANGED <<calls, owned, contended>>
  \/ /\ MarksNode(p, f, q, g)
     /\ UNCHANGED <<range, topLevel, calls, owned, contended>>
  \/ BeginsTryLock(t, p, q, g)
  \/ BeginsRelease(p, q, g)
  \/ Returns(t, p, f, q, g)

(***************************************************************************)
(* Every step is one of these.                                             *)
(***************************************************************************)
LEMMA StepMoves ==
  ASSUME IInv, Next
  PROVE  \E t \in Threads :
           \E p, q \in Labels, f, g \in Frames :
             /\ p = pc[t] /\ f = frame[t] /\ FrameOK(p, f)
             /\ Only(t, q, g) /\ Moves(t, p, f, q, g)
<1>0. ASSUME NEW t \in Threads,
             \E q, g : Only(t, q, g) /\ Moves(t, pc[t], frame[t], q, g)
      PROVE  \E p, q \in Labels, f, g \in Frames :
               /\ p = pc[t] /\ f = frame[t] /\ FrameOK(p, f)
               /\ Only(t, q, g) /\ Moves(t, p, f, q, g)
  <2>1. PICK q, g : Only(t, q, g) /\ Moves(t, pc[t], frame[t], q, g)
    BY <1>0
  <2>2. q \in Labels /\ g \in Frames
    BY <2>1 DEF Only
  <2> QED BY <2>1, <2>2, ThreadFacts
<1>1. ASSUME NEW t \in Threads, NEW r \in Requests, NEW height \in Levels,
             TryLock(t, r, height)
      PROVE  \E q, g : Only(t, q, g) /\ Moves(t, pc[t], frame[t], q, g)
  <2> DEFINE e == [Rest EXCEPT !.want = r, !.top = height,
                               !.node = calls + 1]
             g == StartFind(e, "insert")
  <2>1. TypeOK /\ pc[t] = "idle" /\ calls < MaxCalls /\ calls' = calls + 1
        /\ Go(t, "curr", g) /\ Quiet /\ owned' = owned
        /\ contended' = [contended EXCEPT ![t] =
                           \E n \in Locked : ClosedOverlap(range[n], r)]
    BY <1>1, ThreadFacts DEF TryLock, listVars, Quiet
  <2>2. calls + 1 \in NewNodes /\ r \in RangesOver(Int)
    BY <2>1, SizeAssumption, RequestAssumption DEF NewNodes, TypeOK
  <2>3. /\ e \in Frames /\ e.want = r /\ e.node = calls + 1 /\ e.at = 0
    <3>1. Rest.at = 0
      BY DEF Rest
    <3> QED BY <2>2, <3>1, RestType DEF Frames, Node
  <2> HIDE DEF e
  <2>4. Only(t, "curr", g) /\ Starts(e, "insert", g)
    BY <2>1, <2>3, RetryFacts
  <2> HIDE DEF g
  <2>5. BeginsTryLock(t, pc[t], "curr", g)
    BY <2>1, <2>2, <2>3, <2>4 DEF BeginsTryLock, Starts
  <2> QED BY <2>4, <2>5 DEF Moves
<1>2. ASSUME NEW t \in Threads, NEW r \in Requests, ReleaseLock(t, r)
      PROVE  \E q, g : Only(t, q, g) /\ Moves(t, pc[t], frame[t], q, g)
  <2> DEFINE e == [Rest EXCEPT !.want = r]
             g == StartFind(e, "exact")
  <2>1. TypeOK /\ pc[t] = "idle" /\ Go(t, "curr", g) /\ Quiet
        /\ calls' = calls /\ contended' = contended
        /\ \/ \E n \in owned : range[n] = r /\ owned' = owned \ {n}
           \/ Misuse /\ owned' = owned
    BY <1>2, ThreadFacts DEF ReleaseLock, listVars, Quiet
  <2>2. e \in Frames /\ e.want = r
    BY RestType, RequestAssumption DEF Frames
  <2> HIDE DEF e
  <2>3. Only(t, "curr", g) /\ Starts(e, "exact", g)
    BY <2>1, <2>2, RetryFacts
  <2> HIDE DEF g
  <2>4. BeginsRelease(pc[t], "curr", g)
    BY <2>1, <2>2, <2>3 DEF BeginsRelease, Starts
  <2> QED BY <2>3, <2>4 DEF Moves
<1>3. ASSUME NEW t \in Threads,
             Refuse(t) \/ CountUp(t) \/ CountDown(t) \/ ReportWrong(t)
      PROVE  \E q, g : Only(t, q, g) /\ Moves(t, pc[t], frame[t], q, g)
  <2>1. Go(t, "idle", Rest) /\ Quiet /\ calls' = calls
    BY <1>3 DEF Refuse, CountUp, CountDown, ReportWrong, listVars, Quiet
  <2>2. Only(t, "idle", Rest)
    BY <2>1, RestType, GoFacts, ThreadFacts DEF Only, Labels
  <2>3. Returns(t, pc[t], frame[t], "idle", Rest)
    BY <1>3, <2>1 DEF Returns, Refuse, CountUp, CountDown, ReportWrong
  <2> QED BY <2>2, <2>3 DEF Moves
<1>4. ASSUME NEW t \in Threads, ReadCurr(t) \/ ReadSucc(t) \/ Reread(t)
      PROVE  \E q, g : Only(t, q, g) /\ Moves(t, pc[t], frame[t], q, g)
  <2>1. Quiet /\ UNCHANGED <<calls, owned, contended>>
    BY <1>4 DEF ReadCurr, ReadSucc, Reread, listVars, Quiet
  <2> QED BY <1>4, <2>1, ScanFacts DEF Moves
<1>5. ASSUME NEW t \in Threads, Snip(t)
      PROVE  \E q, g : Only(t, q, g) /\ Moves(t, pc[t], frame[t], q, g)
  BY <1>5, SnipFacts DEF Moves
<1>6. ASSUME NEW t \in Threads, LinkBottom(t)
      PROVE  \E q, g : Only(t, q, g) /\ Moves(t, pc[t], frame[t], q, g)
  BY <1>6, LinkBottomFacts DEF Moves
<1>7. ASSUME NEW t \in Threads, LinkUpper(t)
      PROVE  \E q, g : Only(t, q, g) /\ Moves(t, pc[t], frame[t], q, g)
  BY <1>7, LinkUpperFacts DEF Moves
<1>8. ASSUME NEW t \in Threads,
             \/ MarkUpper(t) \/ TryMark(t) \/ ReadBottom(t) \/ MarkBottom(t)
             \/ Recheck(t)
      PROVE  \E q, g : Only(t, q, g) /\ Moves(t, pc[t], frame[t], q, g)
  BY <1>8, MarkFacts DEF Moves
<1>9. PICK t \in Threads :
        \/ \E r \in Requests, height \in Levels : TryLock(t, r, height)
        \/ \E r \in Requests : ReleaseLock(t, r)
        \/ Step(t)
  BY DEF Next
<1>10. \E q, g : Only(t, q, g) /\ Moves(t, pc[t], frame[t], q, g)
  BY <1>1, <1>2, <1>3, <1>4, <1>5, <1>6, <1>7, <1>8, <1>9 DEF Step
<1> QED BY <1>0, <1>10

-----------------------------------------------------------------------------
(***************************************************************************)
(* A word that changes its reference is unmarked before and after, and a   *)
(* word is only marked as it is.                                           *)
(***************************************************************************)
KeepsRefs ==
  \A n \in Node, l \in Levels :
    Published(n) => \/ next'[n][l].ref = next[n][l].ref
                    \/ ~next'[n][l].mark

(***************************************************************************)
(* No step undoes what was published or marked.                            *)
(***************************************************************************)
LEMMA MovesStable ==
  ASSUME IInv, NEW t \in Threads, NEW p \in Labels, NEW f \in Frames,
         FrameOK(p, f), NEW q, NEW g, Moves(t, p, f, q, g)
  PROVE  Stable /\ KeepsRefs
<1>0. /\ TypeOK /\ calls \in Nat /\ 0 \in Levels /\ Null \notin Node
      /\ f.lvl \in Levels /\ f.succ \in Node /\ f.node \in Node
      /\ f.pred \in Node
  <2>1. TypeOK /\ 0 \in Levels /\ Null \notin Node
    BY LevelAssumption, NodeAssumption DEF IInv, Levels
  <2>2. calls \in Nat
    BY <2>1, SizeAssumption DEF TypeOK
  <2>3. /\ f.lvl \in Levels /\ f.succ \in Node /\ f.node \in Node
        /\ f.pred \in Node
    BY DEF Frames
  <2> QED BY <2>1, <2>2, <2>3
<1>1. CASE Quiet /\ (calls' = calls \/ calls' = calls + 1)
  <2>1. next' = next /\ range' = range /\ topLevel' = topLevel
    BY <1>1 DEF Quiet
  <2> QED BY <1>0, <1>1, <2>1 DEF Stable, KeepsRefs, Published
<1>2. ASSUME NEW n \in Node, NEW l \in Levels, NEW w,
             Writes(n, l, w), w.ref # Null, ~next[n][l].mark,
             w.ref = next[n][l].ref \/ ~w.mark,
             UNCHANGED <<range, topLevel, calls>>
      PROVE  Stable /\ KeepsRefs
  BY <1>0, <1>2 DEF Stable, KeepsRefs, Published, Writes
<1>3. CASE /\ p = "snip" /\ Snips(f, q, g)
           /\ UNCHANGED <<range, topLevel, calls, owned, contended>>
  BY <1>0, <1>2, <1>3 DEF Snips, Pack
<1>4. CASE p = "link" /\ LinksBottom(f, q, g) /\ UNCHANGED <<calls, owned>>
  <2>1. \A m \in Node, k \in Levels : next[m][k].mark => m # f.node
    BY <1>4 DEF LinksBottom, IInv, ListInv, Ends
  <2>2. /\ f.preds[0] \in Node /\ ~next[f.preds[0]][0].mark
        /\ \A m \in Node : Published(m) => m # f.node
    BY <1>0, <1>4 DEF LinksBottom, Pack, Frames
  <2>3. /\ next'[f.preds[0]][0] = Pack(f.node, FALSE)
        /\ \A m \in Node, k \in Levels :
             m # f.node => \/ next'[m][k] = next[m][k]
                           \/ m = f.preds[0] /\ k = 0
    BY <1>0, <1>4, <2>2 DEF LinksBottom
  <2>4. \A m \in Node : m # f.node => /\ range'[m] = range[m]
                                      /\ topLevel'[m] = topLevel[m]
    BY <1>4 DEF LinksBottom
  <2>5. /\ next'[f.preds[0]][0].ref = f.node
        /\ ~next'[f.preds[0]][0].mark
    BY <2>3 DEF Pack
  <2>6. \A m \in Node : Published(m) => Published(m)'
    BY <1>0, <2>2, <2>3, <2>5 DEF Published
  <2>7. KeepsRefs
    BY <2>2, <2>3, <2>5 DEF KeepsRefs
  <2>8. \A m \in Node, k \in Levels :
          next[m][k].mark => next'[m][k] = next[m][k]
    BY <2>1, <2>2, <2>3
  <2> QED BY <1>0, <1>4, <2>2, <2>4, <2>6, <2>7, <2>8 DEF Stable
<1>5. CASE /\ p = "up" /\ LinksUpper(f, q, g)
           /\ UNCHANGED <<range, topLevel, calls, owned, contended>>
  <2>1. f.preds[f.at] \in Node /\ f.at \in Levels
    BY <1>5 DEF LinksUpper, Frames
  <2> QED BY <1>0, <1>2, <1>5, <2>1 DEF LinksUpper, Pack
<1>6. CASE /\ MarksNode(p, f, q, g)
           /\ UNCHANGED <<range, topLevel, calls, owned, contended>>
  <2>1. CASE Quiet
    BY <1>1, <1>6, <2>1
  <2>2. ASSUME NEW l \in Levels, HasLevel(f.node, l), f.node # tail,
               Marks(f.node, l)
        PROVE  Stable /\ KeepsRefs
    <3>1. next[f.node][l].ref # Null
      BY <1>0, <2>2, NextLevel
    <3> QED BY <1>0, <1>2, <1>6, <2>2, <3>1 DEF Marks, Pack
  <2>3. p \in {"attempt", "delete"} =>
          /\ HasLevel(f.node, f.lvl) /\ HasLevel(f.node, 0) /\ f.node # tail
    BY <1>0 DEF FrameOK, HasLevel, Levels, TypeOK
  <2> QED BY <1>0, <1>6, <2>1, <2>2, <2>3 DEF MarksNode
<1> QED BY <1>1, <1>3, <1>4, <1>5, <1>6
        DEF Moves, Retries, BeginsTryLock, BeginsRelease, Returns

-----------------------------------------------------------------------------
(***************************************************************************)
(* A node has references exactly at its levels, and it is marked from its  *)
(* highest level down: once level 0 is marked, every level is.             *)
(***************************************************************************)
MarkedFromTop ==
  /\ \A n \in Node, l \in Levels :
       next[n][l].ref # Null => Published(n) /\ l <= topLevel[n]
  /\ \A n \in Node, l \in Levels :
       next[n][0].mark /\ l <= topLevel[n] => next[n][l].mark

(***************************************************************************)
(* What a thread that marks a node has marked so far.                      *)
(***************************************************************************)
Deletes == {"mark", "attempt", "bottom", "delete", "recheck"}

MarksDown(p, f) ==
  /\ p \in {"mark", "attempt"} =>
       \A l \in Levels : f.lvl < l /\ l <= topLevel[f.node]
                         => next[f.node][l].mark
  /\ p \in {"bottom", "delete", "recheck"} =>
       \A l \in Levels : 0 < l /\ l <= topLevel[f.node]
                         => next[f.node][l].mark

MarkInv == MarkedFromTop /\ \A t \in Threads : MarksDown(pc[t], frame[t])

(***************************************************************************)
(* What has been marked stays marked.                                      *)
(***************************************************************************)
LEMMA StableMarks ==
  ASSUME IInv, Stable, NEW q, NEW g \in Frames, MarksDown(q, g),
         q \in Deletes => Published(g.node)
  PROVE  MarksDown(q, g)'
<1>1. \A l \in Levels : next[g.node][l].mark => next'[g.node][l].mark
  BY DEF Stable, Frames
<1>2. q \in Deletes => topLevel'[g.node] = topLevel[g.node]
  BY DEF Stable, Frames
<1> QED BY <1>1, <1>2 DEF MarksDown, Deletes

(***************************************************************************)
(* A thread that marks a node goes down level by level.                    *)
(***************************************************************************)
LEMMA MovesMarkDown ==
  ASSUME IInv, NEW t \in Threads, NEW p \in Labels, NEW f \in Frames,
         FrameOK(p, f), MarksDown(p, f), NEW q \in Labels, NEW g \in Frames,
         Moves(t, p, f, q, g)
  PROVE  MarksDown(q, g) /\ (q \in Deletes => Published(g.node))
<1>0. p \in Deletes => HasLevel(f.node, f.lvl) /\ f.lvl \in Levels
  BY DEF FrameOK, Deletes, Frames
<1>1. CASE q \notin Deletes
  BY <1>1 DEF Deletes, MarksDown
<1>2. ASSUME NEW e, Reaches(p, f, e), Settled(e, q, g), q \in Deletes
      PROVE  MarksDown(q, g) /\ Published(g.node)
  <2>1. /\ q \in {"mark", "bottom"} /\ g.node = e.curr
        /\ g.lvl = topLevel[e.curr] /\ (q = "bottom" => g.lvl = 0)
    BY <1>2 DEF Settled, Deletes
  <2>2. HasLevel(e.curr, e.lvl)
    BY <1>2 DEF Reaches
  <2>3. topLevel[e.curr] \in Levels
    BY <2>2 DEF HasLevel, IInv, TypeOK
  <2> QED BY <2>1, <2>2, <2>3, LevelAssumption DEF MarksDown, HasLevel, Levels
<1>3. CASE Scans(p, f, q, g)
  BY <1>1, <1>2, <1>3 DEF Scans, Goes, SeesMark, ReadsAgain, Deletes
<1>4. CASE MarksNode(p, f, q, g) /\ q \in Deletes
  <2>1. g.node = f.node /\ Published(g.node) /\ p \in Deletes
    BY <1>0, <1>4 DEF MarksNode, HasLevel, Deletes
  <2>2. topLevel[f.node] \in Levels
    BY DEF IInv, TypeOK, Frames
  <2>3. MarksDown(q, g)
    BY <1>0, <1>4, <2>1, <2>2, LevelAssumption
       DEF MarksNode, MarksDown, Deletes, Levels
  <2> QED BY <2>1, <2>3
<1> QED BY <1>1, <1>3, <1>4
        DEF Moves, Snips, Retries, LinksBottom, LinksUpper, BeginsTryLock,
            BeginsRelease, Returns, Deletes

(***************************************************************************)
(* A step keeps the order in which nodes are marked.                       *)
(***************************************************************************)
LEMMA MovesFromTop ==
  ASSUME IInv, IInv', MarkedFromTop, NEW t \in Threads, NEW p \in Labels,
         NEW f \in Frames, FrameOK(p, f), MarksDown(p, f), NEW q, NEW g,
         Moves(t, p, f, q, g), Stable
  PROVE  MarkedFromTop'
<1>0. 0 \in Levels /\ f.lvl \in Levels
  BY LevelAssumption DEF Levels, Frames
<1>1. CASE Quiet
  <2>1. next' = next /\ topLevel' = topLevel
    BY <1>1 DEF Quiet
  <2> QED BY <2>1 DEF MarkedFromTop, Published
<1>2. ASSUME NEW n \in Node, NEW l \in Levels, NEW w, Writes(n, l, w),
             HasLevel(n, l), ~next[n][l].mark, topLevel' = topLevel,
             w.mark /\ l = 0 => \A k \in Levels : 0 < k /\ k <= topLevel[n]
                                                  => next[n][k].mark
      PROVE  MarkedFromTop'
  <2>1. \A m \in Node : Published(m) => Published(m)'
    BY DEF Stable
  <2>2. \A m \in Node, k \in Levels :
          next'[m][k] = IF m = n /\ k = l THEN w ELSE next[m][k]
    BY <1>2 DEF Writes
  <2>3. \A m \in Node, k \in Levels :
          next'[m][k].ref # Null => Published(m)' /\ k <= topLevel'[m]
    BY <1>2, <2>1, <2>2 DEF MarkedFromTop, HasLevel
  <2>4. ASSUME NEW m \in Node, NEW k \in Levels,
               next'[m][0].mark, k <= topLevel[m]
        PROVE  next'[m][k].mark
    <3>1. CASE m # n
      BY <1>0, <2>2, <2>4, <3>1 DEF MarkedFromTop
    <3>2. CASE m = n /\ l = 0
      BY <1>0, <1>2, <2>2, <2>4, <3>2 DEF Levels
    <3>3. CASE m = n /\ l # 0
      BY <1>0, <1>2, <2>2, <2>4, <3>3 DEF MarkedFromTop, HasLevel
    <3> QED BY <3>1, <3>2, <3>3
  <2> QED BY <1>2, <2>3, <2>4 DEF MarkedFromTop
<1>3. CASE p = "snip" /\ Snips(f, q, g) /\ topLevel' = topLevel
  <2>1. HasLevel(f.pred, f.lvl) /\ f.pred \in Node
    BY <1>3 DEF FrameOK, Searching, Searches, Frames
  <2> QED BY <1>0, <1>2, <1>3, <2>1 DEF Snips, Pack
<1>4. CASE p = "up" /\ LinksUpper(f, q, g) /\ topLevel' = topLevel
  <2>1. f.at \in Levels /\ HasLevel(f.preds[f.at], f.at)
        /\ f.preds[f.at] \in Node
    BY <1>4 DEF FrameOK, LinksUpper, Noted, HasLevel
  <2> QED BY <1>0, <1>2, <1>4, <2>1 DEF LinksUpper, Pack
<1>5. CASE MarksNode(p, f, q, g) /\ topLevel' = topLevel
  <2>1. p \in {"attempt", "delete"} =>
          /\ HasLevel(f.node, f.lvl) /\ HasLevel(f.node, 0)
          /\ f.node \in Node /\ (p = "attempt" => f.lvl > 0)
    BY <1>0 DEF FrameOK, HasLevel, Levels, IInv, TypeOK
  <2>2. CASE p = "attempt" /\ Marks(f.node, f.lvl)
    BY <1>0, <1>2, <1>5, <2>1, <2>2 DEF Marks, Pack, Levels
  <2>3. CASE p = "delete" /\ Marks(f.node, 0)
    BY <1>0, <1>2, <1>5, <2>1, <2>3 DEF Marks, Pack, MarksDown
  <2> QED BY <1>1, <1>5, <2>2, <2>3 DEF MarksNode
<1>6. CASE p = "link" /\ LinksBottom(f, q, g)
  <2>1. f.node \in Node /\ f.preds[0] \in Node /\ HasLevel(f.preds[0], 0)
    BY <1>0, <1>6 DEF LinksBottom, HasLevel, Frames
  <2>2. /\ f.succs[0] # Null /\ 0 <= f.top /\ f.top \in Levels
    <3>1. f.succs[0] \in Node /\ f.top \in Levels
      BY <1>0 DEF Frames
    <3> QED BY <3>1, NodeAssumption DEF Levels
  <2>3. /\ \A k \in Levels : ~next'[f.node][k].mark
        /\ \A k \in Levels : ~(k <= f.top) => next'[f.node][k].ref = Null
        /\ next'[f.node][0].ref = f.succs[0] /\ topLevel'[f.node] = f.top
        /\ ~next'[f.preds[0]][0].mark
        /\ next'[f.preds[0]][0].ref = f.node
    <3>1. \A k \in Levels :
            next'[f.node][k] = Pack(IF k <= f.top THEN f.succs[k] ELSE Null,
                                    FALSE)
      BY <1>6, <2>1 DEF LinksBottom
    <3>2. next'[f.preds[0]][0] = Pack(f.node, FALSE)
          /\ topLevel'[f.node] = f.top
      BY <1>0, <1>6, <2>1 DEF LinksBottom
    <3>3. ASSUME NEW k \in Levels
          PROVE  /\ ~next'[f.node][k].mark
                 /\ k <= f.top => next'[f.node][k].ref = f.succs[k]
                 /\ ~(k <= f.top) => next'[f.node][k].ref = Null
      <4>1. next'[f.node][k] =
              Pack(IF k <= f.top THEN f.succs[k] ELSE Null, FALSE)
        BY <3>1
      <4> QED BY <4>1 DEF Pack
    <3>4. ~next'[f.preds[0]][0].mark /\ next'[f.preds[0]][0].ref = f.node
      BY <3>2 DEF Pack
    <3> QED BY <1>0, <2>2, <3>2, <3>3, <3>4
  <2>4. \A m \in Node : m # f.node =>
          /\ topLevel'[m] = topLevel[m]
          /\ \A k \in Levels : next'[m][k] = next[m][k]
                               \/ (m = f.preds[0] /\ k = 0)
    BY <1>6 DEF LinksBottom
  <2>5. Published(f.node)' /\ \A m \in Node : Published(m) => Published(m)'
    BY <2>2, <2>3 DEF Published, Stable
  <2>6. \A m \in Node, k \in Levels :
          next'[m][k].ref # Null => Published(m)' /\ k <= topLevel'[m]
    BY <2>1, <2>3, <2>4, <2>5 DEF MarkedFromTop, HasLevel
  <2>7. \A m \in Node, k \in Levels :
          next'[m][0].mark /\ k <= topLevel'[m] => next'[m][k].mark
    BY <1>0, <2>3, <2>4 DEF MarkedFromTop
  <2> QED BY <2>6, <2>7 DEF MarkedFromTop
<1> QED BY <1>1, <1>3, <1>4, <1>5, <1>6
        DEF Moves, Retries, BeginsTryLock, BeginsRelease, Returns

(***************************************************************************)
(* Every step keeps MarkInv.                                               *)
(***************************************************************************)
LEMMA MarkNext == IInv /\ IInv' /\ MarkInv /\ [Next]_vars => MarkInv'
<1> SUFFICES ASSUME IInv, IInv', MarkInv, [Next]_vars PROVE MarkInv'
  OBVIOUS
<1>1. CASE UNCHANGED vars
  BY <1>1 DEF vars, MarkInv, MarkedFromTop, MarksDown, Published
<1>2. CASE Next
  <2>1. PICK t \in Threads, p, q \in Labels, f, g \in Frames :
          /\ p = pc[t] /\ f = frame[t] /\ FrameOK(p, f)
          /\ Only(t, q, g) /\ Moves(t, p, f, q, g)
    BY <1>2, StepMoves
  <2>2. Stable /\ q \in Labels /\ g \in Frames
    BY <2>1, MovesStable DEF Only
  <2>3. MarksDown(p, f) /\ MarkedFromTop
    BY <2>1 DEF MarkInv
  <2>4. MarkedFromTop'
    BY <2>1, <2>2, <2>3, MovesFromTop
  <2>5. MarksDown(q, g)'
    <3>1. MarksDown(q, g) /\ (q \in Deletes => Published(g.node))
      BY <2>1, <2>2, <2>3, MovesMarkDown
    <3> QED BY <2>2, <3>1, StableMarks
  <2>6. ASSUME NEW u \in Threads PROVE MarksDown(pc[u], frame[u])'
    <3>1. CASE u = t
      BY <2>1, <2>5, <3>1 DEF Only
    <3>2. CASE u # t
      <4>1. PICK x \in Labels, h \in Frames : x = pc[u] /\ h = frame[u]
        BY ThreadFacts
      <4>2. MarksDown(x, h) /\ FrameOK(x, h)
        BY <4>1, ThreadFacts DEF MarkInv
      <4>3. x \in Deletes => Published(h.node)
        BY <4>2 DEF FrameOK, Deletes, HasLevel
      <4>4. MarksDown(x, h)'
        BY <2>2, <4>2, <4>3, StableMarks
      <4>5. pc'[u] = x /\ frame'[u] = h
        BY <2>1, <3>2, <4>1 DEF Only
      <4> QED BY <4>4, <4>5
    <3> QED BY <3>1, <3>2
  <2> QED BY <2>4, <2>6 DEF MarkInv
<1> QED BY <1>1, <1>2

(***************************************************************************)
(* Nothing is marked at first.                                             *)
(***************************************************************************)
LEMMA MarkInit == Init => MarkInv
<1> SUFFICES ASSUME Init PROVE MarkInv
  OBVIOUS
<1>1. head \in Node /\ tail \in Node /\ 0 \in Levels /\ MaxLevel \in Nat
  BY LevelAssumption DEF Node, Levels
<1>2. \A n \in Node, l \in Levels :
        next[n][l] = Pack(IF n = head THEN tail ELSE Null, FALSE)
  BY DEF Init
<1>3. \A n \in Node, l \in Levels :
        ~next[n][l].mark /\ (next[n][l].ref # Null => n = head)
  <2> TAKE n \in Node, l \in Levels
  <2>1. next[n][l] = Pack(IF n = head THEN tail ELSE Null, FALSE)
    BY <1>2
  <2> QED BY <2>1 DEF Pack
<1>4. next[head][0].ref # Null /\ topLevel[head] = MaxLevel
  BY <1>1, <1>2, NodeAssumption DEF Pack, Init
<1>5. \A l \in Levels : l <= MaxLevel
  BY <1>1 DEF Levels
<1>6. MarkedFromTop
  BY <1>1, <1>3, <1>4, <1>5 DEF MarkedFromTop, Published
<1>7. \A t \in Threads : MarksDown(pc[t], frame[t])
  BY DEF Init, MarksDown
<1> QED BY <1>6, <1>7 DEF MarkInv

(***************************************************************************)
(* In src/src/v0 nodes are marked from their highest level down, in every  *)
(* reachable state.                                                        *)
(***************************************************************************)
THEOREM MarksInvariant ==
  ASSUME BelowMax PROVE Spec => []MarkInv
  BY MarkInit, MarkNext, Invariance, PTL DEF Spec

(***************************************************************************)
(* A node that is unmarked at one of its levels is locked.                 *)
(***************************************************************************)
LEMMA UnmarkedLinked ==
  ASSUME IInv, MarkInv, NEW n \in Node, NEW l \in Levels,
         next[n][l].ref # Null, ~next[n][l].mark
  PROVE  n \in linked /\ ~next[n][0].mark
  BY DEF IInv, ListInv, Membership, MarkInv, MarkedFromTop

(***************************************************************************)
(* A search of src/src/v0 that sees a node unmarked at any level has found *)
(* a range that is locked.                                                 *)
(***************************************************************************)
THEOREM UnmarkedAreLinked ==
  ASSUME BelowMax PROVE Spec => []UnmarkedIsLinked
<1>1. IInv /\ MarkInv => UnmarkedIsLinked
  BY UnmarkedLinked DEF UnmarkedIsLinked
<1> QED BY <1>1, Invariance, MarksInvariant, PTL

-----------------------------------------------------------------------------
(***************************************************************************)
(* Refusals.  A call of tryLock that wants w and has (c) or has not met    *)
(* contention is not in conflict with node n unless it has met contention. *)
(***************************************************************************)
Placing(f) == f.find = "insert" /\ f.at = 0

Met(c, w, n) == ClosedOverlap(range[n], w) => c

(***************************************************************************)
(* What a call that looks for a place knows: it has met every node of the  *)
(* list, and the node it stands on and its successor, linked or not.       *)
(***************************************************************************)
Seeks(p, f, c) ==
  /\ p = "found" => c /\ Placing(f)
  /\ Placing(f) =>
       /\ \A n \in linked : Met(c, f.want, n)
       /\ p \in Searching =>
            /\ Start(f.pred) <= f.want.start
            /\ Met(c, f.want, f.pred)
            /\ Met(c, f.want, next[f.pred][0].ref)

ContentionInv == \A t \in Threads : Seeks(pc[t], frame[t], contended[t])

(***************************************************************************)
(* The ranges are inside the limits of the key type, which the sentinels   *)
(* occupy.                                                                 *)
(***************************************************************************)
InsideLimits == \A r \in Requests : Min < r.start /\ r.end < Max

(***************************************************************************)
(* Then none begins at the highest key, where a search may pass the tail.  *)
(***************************************************************************)
LEMMA LimitsBelowMax ==
  ASSUME InsideLimits PROVE BelowMax
  BY RequestAssumption DEF InsideLimits, BelowMax, RangesOver

(***************************************************************************)
(* What a call has met stays met.  When the successor of the node it       *)
(* stands on changes, that node is in the list, and so is the successor.   *)
(***************************************************************************)
LEMMA StableSeeks ==
  ASSUME IInv, IInv', Stable, KeepsRefs, NEW x, NEW h \in Frames,
         NEW c \in BOOLEAN, NEW d \in BOOLEAN, Seeks(x, h, c), c => d,
         x \in Searching => HasLevel(h.pred, 0) /\ h.pred # tail,
         Placing(h) => \A n \in linked' \ linked : Met(d, h.want, n)'
  PROVE  Seeks(x, h, d)'
<1>1. x = "found" => d /\ Placing(h)'
  BY DEF Seeks, Placing
<1>2. ASSUME Placing(h), NEW n \in linked' PROVE Met(d, h.want, n)'
  <2>1. CASE n \in linked
    <3>1. n \in Node /\ Published(n)
      BY <2>1, LinkedFacts
    <3> QED BY <1>2, <2>1, <3>1 DEF Seeks, Met, Stable
  <2> QED BY <1>2, <2>1
<1>3. ASSUME Placing(h), x \in Searching
      PROVE  /\ (Start(h.pred) <= h.want.start)'
             /\ Met(d, h.want, h.pred)'
             /\ Met(d, h.want, next[h.pred][0].ref)'
  <2>1. /\ h.pred \in Node /\ Published(h.pred) /\ range'[h.pred] = range[h.pred]
        /\ 0 \in Levels /\ Published(h.pred)' /\ h.pred # tail
    BY <1>3, LevelAssumption DEF HasLevel, Stable, Levels
  <2>2. (Start(h.pred) <= h.want.start)' /\ Met(d, h.want, h.pred)'
    BY <1>3, <2>1 DEF Seeks, Met, Start
  <2>3. PICK m : m = next[h.pred][0].ref
    OBVIOUS
  <2>4. m \in Node /\ Published(m)
    BY <1>3, <2>1, <2>3, NextLevel DEF HasLevel
  <2>5. CASE next'[h.pred][0].ref = m
    BY <1>3, <2>2, <2>3, <2>4, <2>5 DEF Seeks, Met, Stable
  <2>6. CASE ~next'[h.pred][0].mark
    <3>1. (h.pred \in linked)'
      BY <2>1, <2>6 DEF IInv, ListInv, Membership
    <3>2. (next[h.pred][0].ref \in linked)'
      BY <2>1, <3>1 DEF IInv, ListInv, OrderedChain
    <3>3. PICK k : k = next'[h.pred][0].ref
      OBVIOUS
    <3>4. Met(d, h.want, k)'
      BY <1>2, <1>3, <3>2, <3>3
    <3> QED BY <2>2, <3>3, <3>4
  <2> QED BY <2>1, <2>2, <2>3, <2>5, <2>6 DEF KeepsRefs
<1> QED BY <1>1, <1>2, <1>3 DEF Seeks

(***************************************************************************)
(* The head conflicts with no request, and its successor is in the list.   *)
(***************************************************************************)
LEMMA HeadFacts ==
  ASSUME IInv, NEW r \in Requests
  PROVE  /\ head \in linked /\ head # tail /\ HasLevel(head, 0)
         /\ Start(head) <= r.start /\ Start(head) = Min /\ End(head) = Min
         /\ next[head][0].ref \in linked
         /\ InsideLimits => \A n \in {head, tail} : ~ClosedOverlap(range[n], r)
<1>1. /\ range[head] = [start |-> Min, end |-> Min]
      /\ range[tail] = [start |-> Max, end |-> Max]
      /\ topLevel[head] = MaxLevel
      /\ head \in linked /\ head # tail /\ head \in Node
  BY NodeAssumption DEF IInv, ListInv, Ends, OrderedChain, Node
<1>2. next[head][0].ref \in linked
  BY <1>1 DEF IInv, ListInv, OrderedChain
<1>3. HasLevel(head, 0)
  BY <1>1, LevelAssumption DEF HasLevel, IInv, ListInv, Membership, Levels
<1>4. /\ r.start \in Int /\ r.end \in Int /\ Min \in Int /\ Max \in Int
      /\ Min <= r.start
      /\ InsideLimits => Min < r.start /\ r.end < Max
  BY RequestAssumption DEF RangesOver, InsideLimits
<1>5. range[head].start = Min /\ range[head].end = Min
      /\ range[tail].start = Max /\ range[tail].end = Max
  BY <1>1
<1>6. InsideLimits => \A n \in {head, tail} : ~ClosedOverlap(range[n], r)
  BY <1>4, <1>5 DEF ClosedOverlap
<1> QED BY <1>1, <1>2, <1>3, <1>4, <1>5, <1>6 DEF Start, End

(***************************************************************************)
(* An unmarked word of a search leads from a node of the list to one.      *)
(***************************************************************************)
LEMMA UnmarkedStep ==
  ASSUME IInv, MarkInv, NEW n, NEW l \in Levels, HasLevel(n, l),
         ~next[n][l].mark
  PROVE  /\ n \in linked /\ ~next[n][0].mark
         /\ n # tail => next[n][0].ref \in linked
<1>1. CASE n = tail
  <2>1. tail \in linked /\ tail \in Node /\ 0 \in Levels
    BY LevelAssumption DEF IInv, ListInv, OrderedChain, Node, Levels
  <2>2. next[tail][0] = Pack(Null, FALSE)
    BY <2>1 DEF IInv, ListInv, Ends
  <2> QED BY <1>1, <2>1, <2>2 DEF Pack
<1>2. CASE n # tail
  <2>1. next[n][l].ref \in Node /\ n \in Node
    BY <1>2, NextLevel DEF HasLevel
  <2>2. next[n][l].ref # Null
    BY <2>1, NodeAssumption
  <2>3. n \in linked /\ ~next[n][0].mark
    BY <2>1, <2>2, UnmarkedLinked
  <2> QED BY <1>2, <2>3 DEF IInv, ListInv, OrderedChain
<1> QED BY <1>1, <1>2

(***************************************************************************)
(* Where a search stands it has met both nodes.                            *)
(***************************************************************************)
LEMMA ReachesSeek ==
  ASSUME IInv, MarkInv, NEW p \in Labels, NEW f \in Frames, FrameOK(p, f),
         NEW c \in BOOLEAN, Seeks(p, f, c), Placing(f), p \in Searching,
         NEW e, Reaches(p, f, e)
  PROVE  /\ Start(e.pred) <= e.want.start
         /\ Met(c, e.want, e.pred) /\ Met(c, e.want, next[e.pred][0].ref)
         /\ e.lvl = 0 => Met(c, e.want, e.curr)
<1>1. /\ Start(f.pred) <= f.want.start /\ e.want = f.want /\ e.lvl = f.lvl
      /\ Met(c, f.want, f.pred) /\ Met(c, f.want, next[f.pred][0].ref)
      /\ \A n \in linked : Met(c, f.want, n)
      /\ f.lvl \in Levels /\ f.find = "insert"
  BY DEF Seeks, Reaches, SameSearch, SameCall, Frames, Placing
<1>2. CASE /\ p = "curr" /\ e.pred = f.pred
           /\ e.curr = next[f.pred][f.lvl].ref
  BY <1>1, <1>2
<1>3. CASE p = "succ" /\ ~next[f.curr][f.lvl].mark
  <2>1. /\ HasLevel(f.curr, f.lvl) /\ f.want \in Requests
    BY <1>3 DEF FrameOK
  <2>2. f.curr \in linked /\ ~next[f.curr][0].mark
        /\ (f.curr # tail => next[f.curr][0].ref \in linked)
    BY <1>1, <1>3, <2>1, UnmarkedStep
  <2>3. CASE /\ Pass(f) /\ e.pred = f.curr
             /\ e.curr = next[f.curr][f.lvl].ref
    <3>1. Start(f.curr) <= f.want.start
      <4>1. Start(f.curr) \in Int /\ f.want.start \in Int
        BY <2>1, <2>2, LinkedFacts, RequestAssumption DEF RangesOver
      <4> QED BY <1>1, <2>3, <4>1 DEF Pass
    <3>2. f.curr # tail
      BY <2>3 DEF Reaches
    <3> QED BY <1>1, <2>2, <2>3, <3>1, <3>2
  <2>4. CASE e.pred = f.pred /\ e.curr = f.curr
    BY <1>1, <2>2, <2>4
  <2> QED BY <1>3, <2>3, <2>4 DEF Reaches
<1> QED BY <1>2, <1>3 DEF Reaches

(***************************************************************************)
(* findInsert reports an overlap only with a node it has met.              *)
(***************************************************************************)
LEMMA FoundIsMet ==
  ASSUME IInv, NEW e \in Frames, NEW c \in BOOLEAN, e.want \in Requests,
         Start(e.pred) <= e.want.start,
         HasLevel(e.pred, e.lvl), HasLevel(e.curr, e.lvl),
         Met(c, e.want, e.pred), Met(c, e.want, e.curr),
         e.find = "insert", ~Enter(e) \/ ~Pass(e), ~RangeFree(e)
  PROVE  c
<1>1. /\ e.want.start \in Int /\ e.want.end \in Int
      /\ e.want.start <= e.want.end
  BY RequestAssumption DEF RangesOver
<1>2. \A n \in {e.pred, e.curr} :
        Start(n) \in Int /\ End(n) \in Int /\ Start(n) <= End(n)
  BY DEF HasLevel, IInv, TypeOK, ListInv, Ends, RangesOver, Start, End
<1>3. e.want.start <= Start(e.curr)
  BY <1>1, <1>2 DEF Enter, Pass
<1>4. \/ e.want.start <= End(e.pred)
      \/ Start(e.curr) <= e.want.end
  BY <1>1, <1>2 DEF RangeFree
<1>5. \/ ClosedOverlap(range[e.pred], e.want)
      \/ ClosedOverlap(range[e.curr], e.want)
  BY <1>1, <1>2, <1>3, <1>4 DEF ClosedOverlap, Start, End
<1> QED BY <1>5 DEF Met

(***************************************************************************)
(* Whatever a thread does, it knows afterwards what Seeks says.            *)
(***************************************************************************)
LEMMA MovesSeek ==
  ASSUME InsideLimits, IInv, MarkInv, NEW t \in Threads, NEW p \in Labels,
         NEW f \in Frames, FrameOK(p, f), p = pc[t], f = frame[t],
         NEW c \in BOOLEAN, NEW d \in BOOLEAN,
         c = contended[t], d = contended'[t], Seeks(p, f, c),
         NEW q \in Labels, NEW g \in Frames, Moves(t, p, f, q, g)
  PROVE  /\ Seeks(q, g, d)
         /\ q \in Searching => HasLevel(g.pred, 0) /\ g.pred # tail
<1>0. 0 \in Levels /\ \A n, l : HasLevel(n, l) /\ l \in Levels
                                => HasLevel(n, 0)
  BY LevelAssumption DEF HasLevel, Levels, IInv, TypeOK
<1>1. p \in Searching => /\ HasLevel(f.pred, f.lvl) /\ f.pred # tail
                         /\ HasLevel(f.pred, 0) /\ f.want \in Requests
  BY <1>0 DEF FrameOK, Searches, Searching, Frames
<1>2. CASE ~Placing(g) /\ q \notin Searching /\ q # "found"
  BY <1>2 DEF Seeks
<1>3. ASSUME g.want \in Requests, g.pred = head,
             Placing(g) => \A n \in linked : Met(d, g.want, n), q = "curr"
      PROVE  /\ Seeks(q, g, d)
             /\ q \in Searching => HasLevel(g.pred, 0) /\ g.pred # tail
  <2>1. /\ head \in linked /\ head # tail /\ HasLevel(head, 0)
        /\ Start(head) <= g.want.start /\ next[head][0].ref \in linked
    BY <1>3, HeadFacts
  <2> QED BY <1>3, <2>1 DEF Seeks
<1>4. CASE Scans(p, f, q, g) /\ d = c
  <2>0. p \in Searching
    BY <1>4 DEF Scans, Reaches, SeesMark, ReadsAgain, Searching
  <2>1. CASE SeesMark(p, f, q, g) \/ ReadsAgain(p, f, q, g)
    <3>1. SameCall(f, g) /\ g.pred = f.pred /\ q # "found"
      BY <2>1 DEF SeesMark, ReadsAgain, SameSearch
    <3> QED BY <1>1, <1>4, <2>0, <3>1 DEF Seeks, SameCall, Placing
  <2>2. ASSUME NEW e, Reaches(p, f, e), Goes(e, q, g) \/ Settled(e, q, g)
        PROVE  /\ Seeks(q, g, d)
               /\ q \in Searching => HasLevel(g.pred, 0) /\ g.pred # tail
    <3>1. /\ e \in Frames /\ SameCall(f, e) /\ HasLevel(e.pred, 0)
          /\ e.pred # tail /\ HasLevel(e.pred, e.lvl)
          /\ HasLevel(e.curr, e.lvl)
      BY <1>0, <2>2 DEF Reaches, SameSearch, Frames
    <3>2. SameCall(e, g) /\ (q \in Searching => g.pred = e.pred)
      BY <2>2 DEF Goes, Settled, SameCall, Searching
    <3>3. CASE ~Placing(f)
      <4>1. ~Placing(g) /\ q # "found"
        BY <2>2, <3>1, <3>2, <3>3 DEF Placing, SameCall, Goes, Settled
      <4> QED BY <3>1, <3>2, <4>1 DEF Seeks
    <3>4. CASE Placing(f)
      <4>1. /\ Start(e.pred) <= e.want.start
            /\ Met(c, e.want, e.pred) /\ Met(c, e.want, next[e.pred][0].ref)
            /\ e.lvl = 0 => Met(c, e.want, e.curr)
        BY <2>0, <2>2, <3>4, ReachesSeek
      <4>2. q = "found" => c /\ Placing(g)
        <5> HAVE q = "found"
        <5>1. e.lvl = 0 /\ ~RangeFree(e) /\ (~Enter(e) \/ ~Pass(e))
          BY <2>2 DEF Goes, Settled
        <5>2. e.find = "insert" /\ e.want \in Requests
          BY <1>1, <2>0, <3>1, <3>4 DEF SameCall, Placing
        <5>3. Placing(g)
          BY <3>1, <3>2, <3>4 DEF SameCall, Placing
        <5> QED BY <3>1, <4>1, <5>1, <5>2, <5>3, FoundIsMet
      <4>3. \A n \in linked : Met(c, e.want, n)
        BY <3>1, <3>4 DEF Seeks, SameCall
      <4>4. g.want = e.want
        BY <3>2 DEF SameCall
      <4> QED BY <1>4, <3>1, <3>2, <4>1, <4>2, <4>3, <4>4 DEF Seeks
    <3> QED BY <3>3, <3>4
  <2> QED BY <1>4, <2>1, <2>2 DEF Scans
<1>5. CASE p = "snip" /\ Snips(f, q, g) /\ d = c
  <2>1. SameCall(f, g) /\ g.pred = f.pred /\ q = "again"
    BY <1>5 DEF Snips, SameSearch
  <2> QED BY <1>1, <1>5, <2>1 DEF Seeks, SameCall, Placing, Searching
<1>6. CASE /\ p \in {"snip", "link", "up"} /\ d = c
           /\ Retries(f, f.find, q, g) \/ Retries(f, "insert", q, g)
           /\ p # "snip" => f.find = "insert"
           /\ p = "snip" => Retries(f, f.find, q, g)
  <2>1. /\ q = "curr" /\ g.want = f.want /\ g.at = f.at /\ g.pred = head
        /\ g.find = f.find
    BY <1>6 DEF Retries, Starts
  <2>2. f.want \in Requests
    BY <1>6 DEF FrameOK
  <2>3. Placing(g) => \A n \in linked : Met(d, g.want, n)
    BY <1>6, <2>1 DEF Seeks, Placing
  <2> QED BY <1>3, <2>1, <2>2, <2>3
<1>7. CASE LinksBottom(f, q, g) \/ (p = "up" /\ LinksUpper(f, q, g))
  <2>1. g.at # 0 /\ q \in {"up", "count"}
    <3>1. CASE LinksBottom(f, q, g)
      BY <3>1 DEF LinksBottom
    <3>2. CASE LinksUpper(f, q, g)
      <4>1. f.at \in Levels /\ 0 < f.at /\ g.at = f.at + 1
            /\ q \in {"up", "count"}
        BY <3>2 DEF LinksUpper
      <4> QED BY <4>1, LevelAssumption DEF Levels
    <3> QED BY <1>7, <3>1, <3>2
  <2> QED BY <1>2, <2>1 DEF Placing, Searching
<1>8. CASE MarksNode(p, f, q, g) /\ d = c
  <2>1. CASE q = "curr"
    <3>1. /\ g.find = "delete" /\ g.pred = head /\ p = "delete"
          /\ g.want = f.want
      BY <1>8, <2>1 DEF MarksNode, Starts
    <3>2. f.want \in Requests
      BY <3>1 DEF FrameOK
    <3> QED BY <1>3, <2>1, <3>1, <3>2 DEF Placing
  <2>2. CASE q # "curr"
    <3>1. /\ SameCall(f, g) /\ q \notin Searching /\ q # "found"
          /\ p \in Deletes
      BY <1>8, <2>2 DEF MarksNode, Searching, Deletes
    <3>2. CASE Placing(g)
      BY <1>8, <3>1, <3>2 DEF Seeks, SameCall, Placing
    <3> QED BY <1>2, <3>1, <3>2
  <2> QED BY <2>1, <2>2
<1>9. CASE BeginsTryLock(t, p, q, g)
  <2>1. /\ q = "curr" /\ g.want \in Requests /\ g.pred = head
        /\ d = \E n \in Locked : ClosedOverlap(range[n], g.want)
    BY <1>9 DEF BeginsTryLock, IInv, TypeOK
  <2>2. ASSUME NEW n \in linked PROVE Met(d, g.want, n)
    <3>1. n \in {head, tail} => ~ClosedOverlap(range[n], g.want)
      BY <2>1, HeadFacts
    <3> QED BY <2>1, <3>1 DEF Met, Locked
  <2> QED BY <1>3, <2>1, <2>2
<1>10. CASE BeginsRelease(p, q, g)
  BY <1>3, <1>10 DEF BeginsRelease, Placing
<1>11. CASE Returns(t, p, f, q, g)
  <2>1. q = "idle" /\ g.find = "none"
    BY <1>11 DEF Returns, Rest
  <2> QED BY <1>2, <2>1 DEF Placing, Searching
<1>12. p \in {"link", "up"} => f.find = "insert"
  BY DEF FrameOK
<1> QED BY <1>4, <1>5, <1>6, <1>7, <1>8, <1>9, <1>10, <1>11, <1>12 DEF Moves

(***************************************************************************)
(* Every step keeps what the calls of tryLock have met.                    *)
(***************************************************************************)
LEMMA ContentionNext ==
  ASSUME InsideLimits
  PROVE  IInv /\ IInv' /\ MarkInv /\ ContentionInv /\ [Next]_vars
           => ContentionInv'
<1> SUFFICES ASSUME IInv, IInv', MarkInv, ContentionInv, [Next]_vars
             PROVE  ContentionInv'
  OBVIOUS
<1>1. CASE UNCHANGED vars
  BY <1>1 DEF vars, ContentionInv, Seeks, Met, Start, Placing
<1>2. CASE Next
  <2>1. PICK t \in Threads, p, q \in Labels, f, g \in Frames :
          /\ p = pc[t] /\ f = frame[t] /\ FrameOK(p, f)
          /\ Only(t, q, g) /\ Moves(t, p, f, q, g)
    BY <1>2, StepMoves
  <2>2. Stable /\ KeepsRefs
    BY <2>1, MovesStable
  <2>3. /\ contended \in [Threads -> BOOLEAN]
        /\ contended' \in [Threads -> BOOLEAN]
    BY DEF IInv, TypeOK
  <2>4. ASSUME NEW u \in Threads, u # t, NEW h \in Frames, h = frame[u],
               NEW d \in BOOLEAN, d = contended'[u], Placing(h)
        PROVE  /\ contended[u] => d
               /\ \A n \in linked' \ linked : Met(d, h.want, n)'
    <3>1. CASE LinksBottom(f, q, g) /\ Announces(t, f)
      <4>1. /\ linked' = linked \cup {f.node} /\ f.node \in Node
            /\ range'[f.node] = f.want
        BY <3>1 DEF LinksBottom, Frames
      <4>2. contended[u] => d
        BY <2>4, <3>1 DEF Announces
      <4>3. ClosedOverlap(f.want, h.want) => d
        BY <2>4, <3>1 DEF Announces, Placing
      <4> QED BY <4>1, <4>2, <4>3 DEF Met
    <3>2. CASE contended'[u] = contended[u] /\ linked' \subseteq linked
      BY <2>4, <3>2
    <3>3. \/ LinksBottom(f, q, g) /\ Announces(t, f)
          \/ contended'[u] = contended[u] /\ linked' \subseteq linked
      BY <2>1, <2>3, <2>4
         DEF Moves, Quiet, Snips, Retries, LinksUpper, MarksNode, Marks,
             BeginsTryLock, BeginsRelease, Returns
    <3> QED BY <3>1, <3>2, <3>3
  <2>5. ASSUME NEW u \in Threads
        PROVE  Seeks(pc[u], frame[u], contended[u])'
    <3>1. PICK c \in BOOLEAN, d \in BOOLEAN :
            c = contended[u] /\ d = contended'[u]
      BY <2>3
    <3>2. PICK x \in Labels, h \in Frames : x = pc[u] /\ h = frame[u]
      BY ThreadFacts
    <3>3. Seeks(x, h, c) /\ FrameOK(x, h)
      BY <3>1, <3>2, ThreadFacts DEF ContentionInv
    <3>4. CASE u = t
      <4>1. /\ Seeks(q, g, d)
            /\ q \in Searching => HasLevel(g.pred, 0) /\ g.pred # tail
        BY <2>1, <3>1, <3>2, <3>3, <3>4, MovesSeek
      <4>2. Placing(g) => \A n \in linked' \ linked : Met(d, g.want, n)'
        <5>0. LinksBottom(f, q, g) => ~Placing(g)
          BY DEF LinksBottom, Placing
        <5>1. Placing(g) => linked' \subseteq linked
          BY <2>1, <5>0
             DEF Moves, Quiet, Snips, Retries, LinksUpper, MarksNode, Marks,
                 BeginsTryLock, BeginsRelease, Returns
        <5> QED BY <5>1
      <4>3. Seeks(q, g, d)'
        BY <2>2, <4>1, <4>2, StableSeeks
      <4>4. pc'[u] = q /\ frame'[u] = g
        BY <2>1, <3>4 DEF Only
      <4> QED BY <3>1, <4>3, <4>4
    <3>5. CASE u # t
      <4>1. /\ Placing(h) => (c => d)
            /\ Placing(h) => \A n \in linked' \ linked : Met(d, h.want, n)'
        BY <2>4, <3>1, <3>2, <3>5
      <4>2. x \in Searching => HasLevel(h.pred, 0) /\ h.pred # tail
        BY <3>3, LevelAssumption
           DEF FrameOK, Searches, HasLevel, Levels, Frames, IInv, TypeOK
      <4>3. pc'[u] = x /\ frame'[u] = h
        BY <2>1, <3>2, <3>5 DEF Only
      <4>4. CASE c => d
        <5>1. Seeks(x, h, d)'
          BY <2>2, <3>3, <4>1, <4>2, <4>4, StableSeeks
        <5> QED BY <3>1, <4>3, <5>1
      <4>5. CASE ~Placing(h)
        <5>1. x # "found"
          BY <3>3, <4>5 DEF Seeks
        <5> QED BY <3>1, <4>3, <4>5, <5>1 DEF Seeks, Placing
      <4> QED BY <4>1, <4>4, <4>5
    <3> QED BY <3>4, <3>5
  <2> QED BY <2>5 DEF ContentionInv
<1> QED BY <1>1, <1>2

(***************************************************************************)
(* At first there are no calls.                                            *)
(***************************************************************************)
LEMMA ContentionInit == Init => ContentionInv
<1> SUFFICES ASSUME Init, NEW t \in Threads
             PROVE  Seeks(pc[t], frame[t], contended[t])
  BY DEF ContentionInv
<1>1. pc[t] = "idle" /\ frame[t].find = "none"
  BY DEF Init, Rest
<1> QED BY <1>1 DEF Seeks, Placing

(***************************************************************************)
(* In src/src/v0 every call of tryLock has met the nodes it may refuse     *)
(* for, in every reachable state, if all ranges are inside the limits.     *)
(***************************************************************************)
THEOREM ContentionInvariant ==
  ASSUME InsideLimits PROVE Spec => []ContentionInv
<1>0. BelowMax
  BY LimitsBelowMax
<1>1. IInv /\ IInv' /\ MarkInv /\ ContentionInv /\ [Next]_vars
        => ContentionInv'
  BY ContentionNext
<1> QED BY <1>0, <1>1, ContentionInit, Invariance, MarksInvariant, PTL
        DEF Spec

(***************************************************************************)
(* tryLock of src/src/v0 returns false only if an overlapping range was    *)
(* locked at some moment of the call, if all ranges are inside the limits  *)
(* of the key type: findInsert may compare with a node that is no longer   *)
(* in the list, but only with one that was there since the call began.     *)
(***************************************************************************)
THEOREM RefusalsAreJustified ==
  ASSUME InsideLimits PROVE Spec => []RefusalsJustified
<1>1. ContentionInv => RefusalsJustified
  BY DEF ContentionInv, Seeks, RefusalsJustified
<1> QED BY <1>1, ContentionInvariant, PTL

-----------------------------------------------------------------------------
(***************************************************************************)
(* Levels.  A call of tryLock whose node is in the list of level 0 goes on *)
(* to link it into the upper levels, with references that may be out of    *)
(* date.                                                                   *)
(***************************************************************************)
Granted(f) == f.find = "insert" /\ f.at > 0

(***************************************************************************)
(* The nodes a thread holds a reference to, as a node of level l.          *)
(***************************************************************************)
Refers(p, f, n, l) ==
  \/ p \in Searching /\ f.pred = n /\ l = f.lvl
  \/ p \in {"succ", "snip"} /\ f.curr = n /\ l = f.lvl
  \/ p = "snip" /\ f.succ = n /\ l = f.lvl
  \/ /\ p \in Searching /\ f.find # "delete" /\ l > f.lvl
     /\ n \in {f.preds[l], f.succs[l]}
  \/ p \in {"link", "up"} /\ n \in {f.preds[l], f.succs[l]}

(***************************************************************************)
(* Nobody knows of node n at level l or above.                             *)
(***************************************************************************)
Hidden(n, l) ==
  \A k \in Levels : k >= l => \A m \in Node : next[m][k].ref # n

Unseen(p, f, n, l) == \A k \in Levels : k >= l => ~Refers(p, f, n, k)

(***************************************************************************)
(* What findInsert has noted lies around the wanted range.                 *)
(***************************************************************************)
Around(f, l) ==
  Start(f.preds[l]) <= f.want.start /\ f.want.start <= Start(f.succs[l])

Between(p, f) ==
  f.find = "insert" =>
    /\ p \in Searching => Start(f.pred) <= f.want.start
    /\ p \in Searching => \A l \in Levels : l > f.lvl => Around(f, l)
    /\ p \in {"link", "up"} => \A l \in Levels : Around(f, l)

LevelInv ==
  /\ LevelsAscend
  /\ \A t \in Threads : Between(pc[t], frame[t])
  /\ \A t \in Threads : Granted(frame[t]) =>
       /\ Start(frame[t].node) = frame[t].want.start
       /\ Hidden(frame[t].node, frame[t].at)
       /\ \A u \in Threads :
            Unseen(pc[u], frame[u], frame[t].node, frame[t].at)
  /\ \A t, u \in Threads :
       t # u /\ Granted(frame[t]) /\ Granted(frame[u])
         => frame[t].node # frame[u].node

(***************************************************************************)
(* The bounds of a published node are integers and do not change.          *)
(***************************************************************************)
LEMMA PublishedFacts ==
  ASSUME IInv, NEW n \in Node, Published(n)
  PROVE  /\ Start(n) \in Int /\ End(n) \in Int
         /\ Min <= Start(n) /\ Start(n) <= End(n)
         /\ Stable => Start(n)' = Start(n) /\ End(n)' = End(n)
  BY DEF IInv, TypeOK, ListInv, Ends, RangesOver, Start, End, Stable

(***************************************************************************)
(* What a search has noted stays around the wanted range.                  *)
(***************************************************************************)
LEMMA StableBetween ==
  ASSUME IInv, Stable, NEW x, NEW h \in Frames, Between(x, h),
         x \in Searching => Searches(h),
         x \in {"link", "up"} => \A l \in Levels : Noted(h, l)
  PROVE  Between(x, h)'
<1>1. ASSUME NEW l \in Levels, Noted(h, l), Around(h, l) PROVE Around(h, l)'
  BY <1>1, PublishedFacts DEF Noted, HasLevel, Around
<1>2. ASSUME h.find = "insert", x \in Searching
      PROVE  /\ (Start(h.pred) <= h.want.start)'
             /\ \A l \in Levels : l > h.lvl => Around(h, l)'
  <2>1. Start(h.pred)' = Start(h.pred)
    BY <1>2, PublishedFacts DEF Searches, HasLevel
  <2> QED BY <1>1, <1>2, <2>1 DEF Searches, Between
<1>3. ASSUME h.find = "insert", x \in {"link", "up"}
      PROVE  \A l \in Levels : Around(h, l)'
  BY <1>1, <1>3 DEF Between
<1> QED BY <1>2, <1>3 DEF Between

(***************************************************************************)
(* A search knows after each step what Between says.                       *)
(***************************************************************************)
LEMMA MovesBetween ==
  ASSUME IInv, NEW t \in Threads, NEW p \in Labels, NEW f \in Frames,
         FrameOK(p, f), Between(p, f), NEW q \in Labels, NEW g \in Frames,
         Moves(t, p, f, q, g)
  PROVE  Between(q, g)
<1>1. CASE g.find # "insert" \/ q \notin Searching \cup {"link", "up"}
  BY <1>1 DEF Between
<1>2. ASSUME NEW r \in Requests, g.want = r, g.pred = head, q = "curr",
             g.lvl = MaxLevel
      PROVE  Between(q, g)
  <2>1. Start(head) <= r.start
    BY HeadFacts
  <2>2. \A l \in Levels : ~(l > MaxLevel)
    BY LevelAssumption DEF Levels
  <2> QED BY <1>2, <2>1, <2>2 DEF Between
<1>3. CASE Scans(p, f, q, g) /\ g.find = "insert"
  <2>1. CASE SeesMark(p, f, q, g) \/ ReadsAgain(p, f, q, g)
    <3>1. SameSearch(f, g) /\ g.pred = f.pred /\ q \in {"snip", "succ"}
          /\ p \in Searching
      BY <2>1 DEF SeesMark, ReadsAgain, Searching
    <3> QED BY <1>3, <3>1 DEF Between, SameSearch, SameCall, Around
  <2>2. ASSUME NEW e, Reaches(p, f, e), Goes(e, q, g) \/ Settled(e, q, g)
        PROVE  Between(q, g)
    <3>1. /\ e \in Frames /\ SameSearch(f, e) /\ HasLevel(e.curr, e.lvl)
          /\ HasLevel(e.pred, e.lvl) /\ p \in Searching
      BY <2>2 DEF Reaches, Searching
    <3>2. /\ e.find = "insert" /\ f.find = "insert" /\ e.want = f.want
          /\ e.lvl = f.lvl /\ f.lvl \in Levels
          /\ e.preds = f.preds /\ e.succs = f.succs
          /\ g.want = e.want /\ g.find = e.find
      BY <1>3, <2>2, <3>1 DEF Goes, Settled, SameSearch, SameCall, Frames
    <3>3. f.want \in Requests /\ f.want.start \in Int
      BY <3>1, RequestAssumption DEF FrameOK, RangesOver, Searching
    <3>4. Start(e.pred) <= e.want.start
      <4>1. CASE e.pred = f.pred
        BY <3>1, <3>2, <4>1 DEF Between
      <4>2. CASE e.pred = f.curr /\ Pass(f)
        BY <3>1, <3>2, <3>3, <4>2, PublishedFacts DEF Pass, HasLevel
      <4> QED BY <2>2, <4>1, <4>2 DEF Reaches
    <3>5. \A l \in Levels : l > f.lvl => Around(e, l)
      BY <3>1, <3>2 DEF Between, Around
    <3>6. CASE Goes(e, q, g)
      BY <3>2, <3>4, <3>5, <3>6 DEF Goes, Between
    <3>7. CASE Settled(e, q, g)
      <4>1. e.want.start <= Start(e.curr)
        BY <3>1, <3>2, <3>3, <3>7, PublishedFacts
           DEF Settled, Enter, Pass, HasLevel
      <4>2. \A l \in Levels : l >= f.lvl => Around(g, l)
        <5> SUFFICES ASSUME NEW l \in Levels, l >= f.lvl
                     PROVE  Around(g, l)
          OBVIOUS
        <5>1. /\ g.preds[l] = IF l = e.lvl THEN e.pred ELSE e.preds[l]
              /\ g.succs[l] = IF l = e.lvl THEN e.curr ELSE e.succs[l]
          BY <3>2, <3>7 DEF Settled
        <5>2. CASE l = e.lvl
          BY <3>2, <3>4, <4>1, <5>1, <5>2 DEF Around
        <5>3. CASE l # e.lvl
          <6>1. l > f.lvl
            BY <3>2, <5>3, LevelAssumption DEF Levels
          <6> QED BY <3>2, <3>5, <5>1, <5>3, <6>1 DEF Around
        <5> QED BY <5>2, <5>3
      <4>3. CASE q = "curr"
        <5>1. g.lvl = e.lvl - 1 /\ g.pred = e.pred
          BY <3>7, <4>3 DEF Settled
        <5>2. \A l \in Levels : l > g.lvl => l >= f.lvl
          BY <3>2, <5>1, LevelAssumption DEF Levels
        <5> QED BY <3>2, <3>4, <4>2, <4>3, <5>1, <5>2 DEF Between
      <4>4. CASE q \in {"link", "up"}
        <5>1. f.lvl = 0
          BY <3>2, <3>7, <4>4 DEF Settled
        <5>2. \A l \in Levels : l >= f.lvl
          BY <5>1, LevelAssumption DEF Levels
        <5> QED BY <4>2, <4>4, <5>2 DEF Between, Searching
      <4>5. q \in {"curr", "link", "up"} \/ q \notin Searching \cup {"link", "up"}
        BY <3>7 DEF Settled, Searching
      <4> QED BY <1>1, <4>3, <4>4, <4>5
    <3> QED BY <2>2, <3>6, <3>7
  <2> QED BY <1>3, <2>1, <2>2 DEF Scans
<1>4. CASE p = "snip" /\ Snips(f, q, g)
  BY <1>4 DEF Snips, SameSearch, SameCall, Between, Around, Searching
<1>5. CASE p \in {"snip", "link", "up"} /\ \E kind : Retries(f, kind, q, g)
  <2>1. f.want \in Requests
    BY <1>5 DEF FrameOK
  <2> QED BY <1>2, <1>5, <2>1 DEF Retries, Starts
<1>6. CASE \/ p = "link" /\ LinksBottom(f, q, g)
           \/ p = "up" /\ LinksUpper(f, q, g)
  <2>1. /\ g.find = f.find /\ g.want = f.want /\ q \in {"up", "count"}
        /\ g.preds = f.preds /\ g.succs = f.succs
    BY <1>6 DEF LinksBottom, LinksUpper
  <2> QED BY <1>6, <2>1 DEF Between, Around, Searching
<1>7. CASE MarksNode(p, f, q, g)
  BY <1>1, <1>7 DEF MarksNode, Starts, Searching
<1>8. CASE BeginsTryLock(t, p, q, g) \/ BeginsRelease(p, q, g)
  BY <1>2, <1>8 DEF BeginsTryLock, BeginsRelease
<1>9. CASE Returns(t, p, f, q, g)
  BY <1>1, <1>9 DEF Returns, Searching
<1> QED BY <1>1, <1>3, <1>4, <1>5, <1>6, <1>7, <1>8, <1>9 DEF Moves

(***************************************************************************)
(* A thread learns of nodes from words only, and keeps them at their level *)
(* or goes down with them.                                                 *)
(***************************************************************************)
LEMMA MovesUnseen ==
  ASSUME IInv, NEW t \in Threads, NEW p \in Labels, NEW f \in Frames,
         FrameOK(p, f), NEW q \in Labels, NEW g \in Frames,
         Moves(t, p, f, q, g),
         NEW n \in NewNodes, NEW a \in Nat, Hidden(n, a), Unseen(p, f, n, a)
  PROVE  Unseen(q, g, n, a)
<1> SUFFICES ASSUME NEW l \in Levels, l >= a, Refers(q, g, n, l) PROVE FALSE
  BY DEF Unseen
<1>0. /\ \A k \in Levels : k >= l => ~Refers(p, f, n, k)
      /\ \A k \in Levels : k >= l => \A m \in Node : next[m][k].ref # n
      /\ n # head /\ f.lvl \in Levels /\ f.pred \in Node /\ f.curr \in Node
  BY NodeAssumption, LevelAssumption DEF Unseen, Hidden, Frames, Levels
<1>1. q \in Searching \cup {"link", "up"}
  BY DEF Refers, Searching
<1>2. CASE g.pred = head /\ q = "curr" /\ g.lvl = MaxLevel
  <2>1. ~(l > MaxLevel)
    BY LevelAssumption DEF Levels
  <2> QED BY <1>0, <1>2, <2>1 DEF Refers
<1>3. CASE Scans(p, f, q, g)
  <2>0. p \in Searching
    BY <1>3 DEF Scans, Reaches, SeesMark, ReadsAgain, Searching
  <2>1. CASE SeesMark(p, f, q, g)
    <3>1. /\ SameSearch(f, g) /\ g.pred = f.pred /\ g.curr = f.curr
          /\ p = "succ" /\ q = "snip" /\ next[f.curr][f.lvl].ref = g.succ
      BY <2>1 DEF SeesMark, Pack
    <3> QED BY <1>0, <3>1, LevelAssumption
            DEF Refers, SameSearch, SameCall, Searching, Levels
  <2>2. CASE ReadsAgain(p, f, q, g)
    <3>1. /\ SameSearch(f, g) /\ g.pred = f.pred
          /\ g.curr = next[f.pred][f.lvl].ref /\ p = "again" /\ q = "succ"
      BY <2>2 DEF ReadsAgain
    <3> QED BY <1>0, <3>1, LevelAssumption
            DEF Refers, SameSearch, SameCall, Searching, Levels
  <2>3. ASSUME NEW e, Reaches(p, f, e), Goes(e, q, g) \/ Settled(e, q, g)
        PROVE  FALSE
    <3>1. SameSearch(f, e) /\ e.lvl = f.lvl
      BY <2>3 DEF Reaches, SameSearch
    <3>2. f.lvl >= l => e.pred # n /\ e.curr # n
      <4> HAVE f.lvl >= l
      <4>1. p \in Searching /\ f.pred # n
        BY <1>0, <2>0 DEF Refers
      <4>2. p = "succ" => f.curr # n
        BY <1>0 DEF Refers
      <4>3. next[f.pred][f.lvl].ref # n /\ next[f.curr][f.lvl].ref # n
        BY <1>0
      <4> QED BY <2>3, <4>1, <4>2, <4>3 DEF Reaches
    <3>3. l > f.lvl /\ f.find # "delete" =>
            n # f.preds[l] /\ n # f.succs[l]
      BY <1>0, <2>0, LevelAssumption DEF Refers, Levels
    <3>4. CASE Goes(e, q, g)
      BY <1>0, <3>1, <3>2, <3>3, <3>4, LevelAssumption
         DEF Goes, Refers, SameSearch, SameCall, Levels
    <3>5. CASE Settled(e, q, g) /\ q = "curr"
      <4>1. /\ g.lvl = e.lvl - 1 /\ g.pred = e.pred /\ g.find = f.find
            /\ g.find # "delete" =>
                 /\ g.preds[l] = IF l = e.lvl THEN e.pred ELSE e.preds[l]
                 /\ g.succs[l] = IF l = e.lvl THEN e.curr ELSE e.succs[l]
        BY <3>1, <3>5 DEF Settled, SameSearch, SameCall
      <4>2. CASE l = g.lvl
        BY <1>0, <3>1, <3>2, <3>5, <4>1, <4>2, LevelAssumption
           DEF Refers, Levels
      <4>3. CASE l = e.lvl
        BY <1>0, <3>1, <3>2, <3>5, <4>1, <4>3, LevelAssumption
           DEF Refers, Levels
      <4>4. CASE l > e.lvl
        BY <1>0, <3>1, <3>3, <3>5, <4>1, <4>4, LevelAssumption
           DEF Refers, Levels, SameSearch
      <4>5. l < g.lvl => ~Refers(q, g, n, l)
        BY <1>0, <3>1, <3>5, <4>1, LevelAssumption DEF Refers, Levels
      <4> QED BY <1>0, <3>1, <4>1, <4>2, <4>3, <4>4, <4>5, LevelAssumption
              DEF Levels
    <3>6. CASE Settled(e, q, g) /\ q \in {"link", "up"}
      <4>1. /\ e.lvl = 0 /\ f.find = "insert"
            /\ g.preds[l] = IF l = e.lvl THEN e.pred ELSE e.preds[l]
            /\ g.succs[l] = IF l = e.lvl THEN e.curr ELSE e.succs[l]
        BY <3>1, <3>6 DEF Settled, SameSearch, SameCall
      <4>2. g.preds[l] = n \/ g.succs[l] = n
        BY <3>6 DEF Refers, Searching
      <4>3. CASE l = 0
        BY <3>1, <3>2, <4>1, <4>2, <4>3
      <4>4. CASE l # 0
        <5>1. l > f.lvl
          BY <3>1, <4>1, <4>4, LevelAssumption DEF Levels
        <5> QED BY <3>1, <3>3, <4>1, <4>2, <4>4, <5>1 DEF SameSearch
      <4> QED BY <4>3, <4>4
    <3>7. Settled(e, q, g) =>
            q \in {"curr", "link", "up"} \/ q \notin Searching \cup {"link", "up"}
      BY DEF Settled, Searching
    <3> QED BY <1>1, <2>3, <3>4, <3>5, <3>6, <3>7
  <2> QED BY <1>3, <2>1, <2>2, <2>3 DEF Scans
<1>4. CASE p = "snip" /\ Snips(f, q, g)
  BY <1>0, <1>4, LevelAssumption
     DEF Snips, Refers, SameSearch, SameCall, Searching, Levels
<1>5. CASE \E kind : Retries(f, kind, q, g)
  BY <1>2, <1>5 DEF Retries, Starts
<1>6. CASE \/ p = "link" /\ LinksBottom(f, q, g)
           \/ p = "up" /\ LinksUpper(f, q, g)
  <2>1. /\ g.preds = f.preds /\ g.succs = f.succs /\ q \in {"up", "count"}
        /\ p \in {"link", "up"}
    BY <1>6 DEF LinksBottom, LinksUpper
  <2>2. n # f.preds[l] /\ n # f.succs[l]
    BY <1>0, <2>1, LevelAssumption DEF Refers, Levels
  <2> QED BY <2>1, <2>2 DEF Refers, Searching
<1>7. CASE MarksNode(p, f, q, g)
  <2>1. q = "curr" /\ Starts(f, "delete", g)
    BY <1>1, <1>7 DEF MarksNode, Searching
  <2> QED BY <1>2, <2>1 DEF Starts
<1>8. CASE BeginsTryLock(t, p, q, g) \/ BeginsRelease(p, q, g)
  BY <1>2, <1>8 DEF BeginsTryLock, BeginsRelease
<1>9. CASE Returns(t, p, f, q, g)
  BY <1>1, <1>9 DEF Returns, Searching
<1> QED BY <1>3, <1>4, <1>5, <1>6, <1>7, <1>8, <1>9 DEF Moves

(***************************************************************************)
(* Marking changes no reference.                                           *)
(***************************************************************************)
LEMMA MarksRefs ==
  ASSUME NEW n, NEW l, Marks(n, l)
  PROVE  \A m \in Node, k \in Levels : next'[m][k].ref = next[m][k].ref
<1> SUFFICES ASSUME NEW m \in Node, NEW k \in Levels
             PROVE  next'[m][k].ref = next[m][k].ref
  OBVIOUS
<1>1. \/ next'[m][k] = next[m][k]
      \/ m = n /\ k = l /\ next'[m][k] = Pack(next[n][l].ref, TRUE)
  BY DEF Marks, Writes
<1> QED BY <1>1 DEF Pack

(***************************************************************************)
(* Words learn of nodes from threads and from words of the same level.     *)
(***************************************************************************)
LEMMA MovesHidden ==
  ASSUME IInv, NEW t \in Threads, NEW p \in Labels, NEW f \in Frames,
         FrameOK(p, f), NEW q \in Labels, NEW g \in Frames,
         Moves(t, p, f, q, g),
         NEW n \in NewNodes, NEW a \in Nat, Hidden(n, a), Unseen(p, f, n, a),
         p = "link" /\ LinksBottom(f, q, g) => f.node # n,
         p = "up" /\ LinksUpper(f, q, g) => f.node # n \/ f.at < a
  PROVE  Hidden(n, a)'
<1> SUFFICES ASSUME NEW l \in Levels, l >= a, NEW m \in Node
             PROVE  next'[m][l].ref # n
  BY DEF Hidden
<1>0. /\ next[m][l].ref # n /\ ~Refers(p, f, n, l)
      /\ f.lvl \in Levels /\ f.curr \in Node /\ n # Null
  BY NodeAssumption, LevelAssumption
     DEF Unseen, Hidden, Frames, Levels, Node
<1>1. CASE next'[m][l].ref = next[m][l].ref
  BY <1>0, <1>1
<1>2. CASE p = "snip" /\ Snips(f, q, g)
  <2>1. next[f.curr][f.lvl].ref = f.succ
    BY <1>2 DEF Snips, Pack
  <2>2. l = f.lvl => f.succ # n
    BY <1>0, <2>1 DEF Hidden
  <2> QED BY <1>0, <1>2, <2>2 DEF Snips, Writes, Pack
<1>3. CASE p = "link" /\ LinksBottom(f, q, g)
  <2>1. f.succs[l] # n
    BY <1>0, <1>3 DEF Refers
  <2>2. next'[m][l] =
          IF m = f.node THEN Pack(IF l <= f.top THEN f.succs[l] ELSE Null, FALSE)
          ELSE IF m = f.preds[0] /\ l = 0 THEN Pack(f.node, FALSE)
          ELSE next[m][l]
    BY <1>3 DEF LinksBottom
  <2>3. \/ next'[m][l] = Pack(f.succs[l], FALSE)
        \/ next'[m][l] = Pack(Null, FALSE)
        \/ next'[m][l] = Pack(f.node, FALSE)
        \/ next'[m][l] = next[m][l]
    BY <2>2
  <2>4. next'[m][l].ref \in {f.succs[l], Null, f.node, next[m][l].ref}
    BY <2>3 DEF Pack
  <2> QED BY <1>0, <1>3, <2>1, <2>4
<1>4. CASE p = "up" /\ LinksUpper(f, q, g)
  <2>1. f.node = n => l # f.at
    <3>1. f.node = n => f.at < a
      BY <1>4
    <3>2. f.at \in Nat /\ l \in Nat
      BY LevelAssumption DEF Frames, Levels
    <3> QED BY <3>1, <3>2
  <2> QED BY <1>0, <1>4, <2>1 DEF LinksUpper, Writes, Pack
<1>5. CASE MarksNode(p, f, q, g)
  <2>1. \/ Quiet
        \/ \E k \in Levels : Marks(f.node, k)
    BY <1>0, <1>5, LevelAssumption DEF MarksNode, Levels
  <2> QED BY <1>1, <2>1, MarksRefs DEF Quiet
<1>6. CASE Quiet
  BY <1>1, <1>6 DEF Quiet
<1> QED BY <1>2, <1>3, <1>4, <1>5, <1>6
        DEF Moves, Retries, BeginsTryLock, BeginsRelease, Returns

(***************************************************************************)
(* Before a node is published nobody knows of it at all.                   *)
(***************************************************************************)
LEMMA UnpublishedHidden ==
  ASSUME IInv, MarkInv, NEW n \in NewNodes, ~Published(n)
  PROVE  /\ Hidden(n, 0)
         /\ \A u \in Threads : Unseen(pc[u], frame[u], n, 0)
<1>1. \A m, l : HasLevel(m, l) => m # n
  BY DEF HasLevel
<1>2. Hidden(n, 0)
  <2> SUFFICES ASSUME NEW l \in Levels, NEW m \in Node, next[m][l].ref = n
               PROVE  FALSE
    BY DEF Hidden
  <2>1. n # Null
    BY NodeAssumption DEF Node
  <2>2. HasLevel(m, l)
    BY <2>1 DEF MarkInv, MarkedFromTop, HasLevel
  <2>3. m # tail
    BY <2>1 DEF IInv, ListInv, Ends, Pack
  <2> QED BY <1>1, <2>2, <2>3, NextLevel
<1>3. ASSUME NEW u \in Threads PROVE Unseen(pc[u], frame[u], n, 0)
  <2>1. PICK x \in Labels, h \in Frames : x = pc[u] /\ h = frame[u]
    BY ThreadFacts
  <2>2. FrameOK(x, h)
    BY <2>1, ThreadFacts
  <2>3. x = "snip" => h.succ # n
    <3> HAVE x = "snip"
    <3>1. HasLevel(h.curr, h.lvl) /\ next[h.curr][h.lvl] = Pack(h.succ, TRUE)
          /\ h.lvl \in Levels /\ h.curr \in Node
      BY <2>2 DEF FrameOK, Frames
    <3> QED BY <1>2, <3>1, LevelAssumption DEF Hidden, Levels, Pack
  <2>4. Unseen(x, h, n, 0)
    BY <1>1, <2>2, <2>3
       DEF Unseen, Refers, FrameOK, Searches, Noted, Searching
  <2> QED BY <2>1, <2>4
<1> QED BY <1>2, <1>3

(***************************************************************************)
(* What a node that has a reference at a level is.                         *)
(***************************************************************************)
LEMMA ReferenceFacts ==
  ASSUME IInv, MarkInv, NEW n \in Node, NEW l \in Levels,
         next[n][l].ref # Null
  PROVE  /\ HasLevel(n, l) /\ n # tail
         /\ HasLevel(next[n][l].ref, l) /\ next[n][l].ref \in Node
         /\ Start(n) \in Int /\ Start(next[n][l].ref) \in Int
<1>1. HasLevel(n, l) /\ n # tail
  BY DEF MarkInv, MarkedFromTop, HasLevel, IInv, ListInv, Ends, Pack
<1>2. HasLevel(next[n][l].ref, l) /\ next[n][l].ref \in Node
  BY <1>1, NextLevel
<1> QED BY <1>1, <1>2, PublishedFacts DEF HasLevel

(***************************************************************************)
(* What LevelsAscend says of a node n and its successor s at level l.      *)
(***************************************************************************)
Ascends(n, s, l) ==
  \/ Start(n) < Start(s)
  \/ Start(n) = Start(s) /\ l > 0 /\ next[s][0].mark

(***************************************************************************)
(* Two published nodes that ascend go on to ascend.                        *)
(***************************************************************************)
LEMMA StableAscends ==
  ASSUME IInv, Stable, NEW n \in Node, NEW s \in Node, Published(n),
         Published(s), NEW l, Ascends(n, s, l)
  PROVE  Ascends(n, s, l)'
<1>1. Start(n)' = Start(n) /\ Start(s)' = Start(s) /\ 0 \in Levels
  BY PublishedFacts, LevelAssumption DEF Levels
<1>2. next[s][0].mark => next'[s][0].mark
  BY <1>1 DEF Stable
<1> QED BY <1>1, <1>2 DEF Ascends

(***************************************************************************)
(* No step lets a level lead back.  A snip joins two steps up; LinkBottom  *)
(* finds every node between its neighbours deleted; LinkUpper joins nodes  *)
(* that begin at the same key only if its own has been deleted meanwhile.  *)
(***************************************************************************)
LEMMA MovesAscend ==
  ASSUME IInv, IInv', MarkInv, MarkInv', LevelInv, NEW t \in Threads,
         NEW p \in Labels, NEW f \in Frames, FrameOK(p, f),
         p = pc[t], f = frame[t], NEW q \in Labels, NEW g \in Frames,
         Moves(t, p, f, q, g), Stable
  PROVE  LevelsAscend'
<1> SUFFICES ASSUME NEW n \in Node, NEW l \in Levels, next'[n][l].ref # Null
             PROVE  Ascends(n, next[n][l].ref, l)'
  BY DEF LevelsAscend, Ascends
<1>0. /\ 0 \in Levels /\ f.lvl \in Levels /\ f.want.start \in Int
      /\ f.want.end \in Int
  BY LevelAssumption DEF Levels, Frames, RangesOver
<1>1. PICK s : s = next'[n][l].ref
  OBVIOUS
<1>2. SUFFICES Ascends(n, s, l)'
  BY <1>1
<1>3. CASE next[n][l].ref = s
  <2>1. HasLevel(n, l) /\ HasLevel(s, l) /\ Ascends(n, s, l)
    BY <1>1, <1>3, ReferenceFacts DEF LevelInv, LevelsAscend, Ascends
  <2> QED BY <2>1, StableAscends DEF HasLevel
<1>4. CASE p = "snip" /\ Snips(f, q, g) /\ n = f.pred /\ l = f.lvl
  <2>1. /\ next[n][l].ref = f.curr /\ next[f.curr][l].ref = s
        /\ f.curr \in Node /\ f.curr # Null /\ f.succ = s /\ s # Null
    <3>1. next'[n][l] = Pack(f.succ, FALSE)
      BY <1>4 DEF Snips, Writes
    <3> QED BY <1>1, <1>4, <3>1, NodeAssumption DEF Snips, Pack, Frames
  <2>2. /\ HasLevel(n, l) /\ HasLevel(f.curr, l) /\ HasLevel(s, l)
        /\ Start(n) \in Int /\ Start(f.curr) \in Int /\ Start(s) \in Int
    BY <2>1, ReferenceFacts
  <2>3. Ascends(n, f.curr, l) /\ Ascends(f.curr, s, l)
    BY <2>1 DEF LevelInv, LevelsAscend, Ascends
  <2>4. Ascends(n, s, l)
    BY <2>2, <2>3 DEF Ascends
  <2> QED BY <2>2, <2>4, StableAscends DEF HasLevel
<1>5. CASE p = "up" /\ LinksUpper(f, q, g) /\ n = f.preds[l] /\ l = f.at
  <2>1. /\ s = f.node /\ l > 0 /\ f.find = "insert" /\ Granted(f)
        /\ next[n][l] = Pack(f.succs[l], FALSE)
    <3>1. next'[n][l] = Pack(f.node, FALSE)
      BY <1>5 DEF LinksUpper, Writes
    <3>2. f.find = "insert" /\ f.at > 0
      BY <1>5 DEF FrameOK
    <3>3. next[n][l] = Pack(f.succs[l], FALSE)
      BY <1>5 DEF LinksUpper
    <3> QED BY <1>1, <1>5, <3>1, <3>2, <3>3 DEF Pack, Granted
  <2>2. /\ HasLevel(n, l) /\ HasLevel(s, f.top) /\ s \in NewNodes
    BY <1>5, <2>1 DEF FrameOK, Noted, Inserts, Granted
  <2>3. Start(n) <= f.want.start /\ Start(s) = f.want.start
    BY <1>5, <2>1 DEF LevelInv, Between, Around
  <2>4. n # s
    <3>1. Unseen(p, f, s, f.at)
      BY <2>1 DEF LevelInv
    <3>2. ~Refers(p, f, s, l)
      BY <1>5, <3>1, LevelAssumption DEF Unseen, Levels
    <3> QED BY <1>5, <3>2 DEF Refers
  <2>5. n \in linked
    BY <2>1, <2>2, UnmarkedStep DEF Pack
  <2>6. s \in linked => Start(n) # Start(s)
    BY <2>4, <2>5, StartsDiffer
  <2>7. s \notin linked => next[s][0].mark
    BY <2>2 DEF IInv, ListInv, Membership, HasLevel
  <2>8. Start(n) \in Int /\ Start(s) \in Int
    BY <2>2, PublishedFacts DEF HasLevel
  <2>9. Ascends(n, s, l)
    BY <1>0, <2>1, <2>3, <2>6, <2>7, <2>8 DEF Ascends
  <2> QED BY <2>2, <2>9, StableAscends DEF HasLevel
<1>6. CASE p = "link" /\ LinksBottom(f, q, g) /\ next[n][l].ref # s
  <2>1. /\ f.find = "insert" /\ \A k \in Levels : Noted(f, k)
        /\ End(f.preds[0]) < f.want.start /\ f.want.end < Start(f.succs[0])
        /\ f.want \in Requests /\ f.node \in Node
    BY <1>6 DEF FrameOK, Frames
  <2>2. range'[f.node] = f.want /\ Start(f.node)' = f.want.start
    BY <1>6, <2>1 DEF LinksBottom, Start
  <2>3. CASE n = f.node
    <3>1. s = f.succs[l] /\ HasLevel(s, l) /\ s \in Node /\ s # f.node
      <4>1. next'[n][l] = Pack(IF l <= f.top THEN f.succs[l] ELSE Null, FALSE)
        BY <1>6, <2>1, <2>3 DEF LinksBottom
      <4>2. s = f.succs[l]
        BY <1>1, <4>1 DEF Pack
      <4> QED BY <1>6, <2>1, <4>2 DEF Noted, HasLevel, LinksBottom
    <3>2. f.want.start <= Start(s) /\ Start(s) \in Int
      BY <1>6, <2>1, <3>1, PublishedFacts
         DEF LevelInv, Between, Around, HasLevel
    <3>3. Start(s)' = Start(s)
      BY <3>1, PublishedFacts DEF HasLevel
    <3>4. CASE f.want.start < Start(s)
      BY <2>2, <2>3, <3>3, <3>4 DEF Ascends
    <3>5. CASE f.want.start = Start(s)
      <4>1. l # 0
        BY <1>0, <2>1, <3>1, <3>5, RequestAssumption
      <4>2. /\ f.preds[0] \in linked /\ f.preds[0] # tail
            /\ next[f.preds[0]][0].ref = f.succs[0]
        BY <1>0, <1>6, UnmarkedStep DEF LinksBottom, Pack
      <4>3. s \notin linked
        <5> SUFFICES ASSUME s \in linked PROVE FALSE
          OBVIOUS
        <5>1. \/ Start(s) <= Start(f.preds[0])
              \/ Start(f.succs[0]) <= Start(s)
          BY <4>2 DEF IInv, ListInv, OrderedChain
        <5>2. /\ Start(f.preds[0]) \in Int /\ End(f.preds[0]) \in Int
              /\ Start(f.preds[0]) <= End(f.preds[0])
          BY <4>2, LinkedFacts
        <5>3. Start(f.succs[0]) \in Int
          BY <1>0, <2>1, PublishedFacts DEF Noted, HasLevel
        <5>4. f.want.start <= f.want.end
          BY <2>1, RequestAssumption
        <5> QED BY <1>0, <2>1, <3>2, <3>5, <5>1, <5>2, <5>3, <5>4
      <4>4. next[s][0].mark
        BY <3>1, <4>3 DEF IInv, ListInv, Membership, HasLevel
      <4>5. next'[s][0].mark
        BY <1>0, <3>1, <4>4 DEF Stable
      <4> QED BY <2>2, <2>3, <3>3, <3>5, <4>1, <4>5, LevelAssumption
              DEF Ascends, Levels
    <3> QED BY <1>0, <3>2, <3>4, <3>5
  <2>4. CASE n # f.node
    <3>1. n = f.preds[0] /\ l = 0 /\ s = f.node
      <4>1. \/ next'[n][l] = next[n][l]
            \/ n = f.preds[0] /\ l = 0 /\ next'[n][l] = Pack(f.node, FALSE)
        BY <1>6, <2>4 DEF LinksBottom
      <4> QED BY <1>1, <1>6, <4>1 DEF Pack
    <3>2. HasLevel(n, 0)
      BY <1>0, <2>1, <3>1 DEF Noted
    <3>3. /\ Start(n) \in Int /\ End(n) \in Int /\ Start(n) <= End(n)
          /\ Start(n)' = Start(n)
      BY <3>2, PublishedFacts DEF HasLevel
    <3> QED BY <1>0, <2>1, <2>2, <3>1, <3>3 DEF Ascends
  <2> QED BY <2>3, <2>4
<1>7. CASE MarksNode(p, f, q, g)
  <2>1. Quiet \/ \E k \in Levels : Marks(f.node, k)
    BY <1>0, <1>7 DEF MarksNode
  <2>2. next'[n][l].ref = next[n][l].ref
    BY <2>1, MarksRefs DEF Quiet
  <2> QED BY <1>1, <1>3, <2>2
<1>8. CASE Quiet
  BY <1>1, <1>3, <1>8 DEF Quiet
<1>9. Snips(f, q, g) => \/ next'[n][l] = next[n][l]
                        \/ n = f.pred /\ l = f.lvl
  BY DEF Snips, Writes
<1>10. LinksUpper(f, q, g) => \/ next'[n][l] = next[n][l]
                              \/ n = f.preds[f.at] /\ l = f.at
  BY DEF LinksUpper, Writes
<1> QED BY <1>1, <1>3, <1>4, <1>5, <1>6, <1>7, <1>8, <1>9, <1>10
        DEF Moves, Retries, BeginsTryLock, BeginsRelease, Returns

(***************************************************************************)
(* Where a granted call comes from.                                        *)
(***************************************************************************)
LEMMA MovesGranted ==
  ASSUME IInv, NEW t \in Threads, NEW p \in Labels, NEW f \in Frames,
         FrameOK(p, f), NEW q \in Labels, NEW g \in Frames,
         Moves(t, p, f, q, g), Granted(g)
  PROVE  /\ g.node = f.node /\ g.want = f.want /\ f.find = "insert"
         /\ \/ Granted(f) /\ g.at = f.at /\ ~LinksUpper(f, q, g)
            \/ Granted(f) /\ g.at = f.at + 1 /\ p = "up" /\ LinksUpper(f, q, g)
            \/ p = "link" /\ g.at = 1 /\ LinksBottom(f, q, g)
<1>0. f.at \in Nat /\ f.at + 1 # f.at
  BY LevelAssumption DEF Frames
<1>1. CASE Scans(p, f, q, g)
  <2>1. SameCall(f, g) /\ (g.find = "insert" => g.node = f.node)
    BY <1>1 DEF Scans, SeesMark, ReadsAgain, Reaches, Goes, Settled,
                SameSearch, SameCall
  <2> QED BY <1>0, <2>1 DEF Granted, SameCall, LinksUpper
<1>2. CASE \/ p = "snip" /\ Snips(f, q, g)
           \/ p = "snip" /\ Retries(f, f.find, q, g)
           \/ p \in {"link", "up"} /\ Retries(f, "insert", q, g)
           \/ MarksNode(p, f, q, g)
  <2>1. p \in {"link", "up"} => f.find = "insert"
    BY DEF FrameOK
  <2>2. g.find = f.find /\ g.want = f.want /\ g.at = f.at /\ g.node = f.node
    BY <1>2, <2>1 DEF Snips, Retries, Starts, MarksNode, SameSearch,
                      SameCall, Granted
  <2> QED BY <1>0, <2>2 DEF Granted, LinksUpper
<1>3. CASE p = "link" /\ LinksBottom(f, q, g)
  BY <1>3 DEF LinksBottom, Granted
<1>4. CASE p = "up" /\ LinksUpper(f, q, g)
  BY <1>4 DEF LinksUpper, Granted
<1>5. CASE BeginsTryLock(t, p, q, g) \/ BeginsRelease(p, q, g)
           \/ Returns(t, p, f, q, g)
  BY <1>5 DEF BeginsTryLock, BeginsRelease, Returns, Rest, Granted
<1> QED BY <1>1, <1>2, <1>3, <1>4, <1>5 DEF Moves

(***************************************************************************)
(* Every step keeps the levels in order.                                   *)
(***************************************************************************)
LEMMA LevelNext ==
  IInv /\ IInv' /\ MarkInv /\ MarkInv' /\ LevelInv /\ [Next]_vars
    => LevelInv'
<1> SUFFICES ASSUME IInv, IInv', MarkInv, MarkInv', LevelInv, [Next]_vars
             PROVE  LevelInv'
  OBVIOUS
<1>1. CASE UNCHANGED vars
  BY <1>1 DEF vars, LevelInv, LevelsAscend, Between, Around, Granted, Hidden,
              Unseen, Refers, Start
<1>2. CASE Next
  <2>1. PICK t \in Threads, p, q \in Labels, f, g \in Frames :
          /\ p = pc[t] /\ f = frame[t] /\ FrameOK(p, f)
          /\ Only(t, q, g) /\ Moves(t, p, f, q, g)
    BY <1>2, StepMoves
  <2>2. Stable /\ pc'[t] = q /\ frame'[t] = g
    BY <2>1, MovesStable DEF Only
  <2>3. LevelsAscend'
    BY <2>1, <2>2, MovesAscend
  <2>4. ASSUME NEW u \in Threads PROVE Between(pc[u], frame[u])'
    <3>1. CASE u = t
      <4>1. Between(q, g)
        BY <2>1, MovesBetween DEF LevelInv
      <4>2. CASE range' = range
        BY <2>2, <3>1, <4>1, <4>2 DEF Between, Around, Start
      <4>3. CASE p = "link" /\ LinksBottom(f, q, g)
        <5>1. /\ q \notin Searching /\ g.preds = f.preds /\ g.succs = f.succs
          BY <4>3 DEF LinksBottom, Searching
        <5>2. \A l \in Levels : Noted(g, l)
          BY <2>1, <4>3, <5>1 DEF FrameOK, Noted
        <5>3. Between(q, g)'
          BY <2>2, <4>1, <5>1, <5>2, StableBetween
        <5> QED BY <2>2, <3>1, <5>3
      <4> QED BY <2>1, <4>2, <4>3
              DEF Moves, Quiet, Retries, BeginsTryLock, BeginsRelease, Returns
    <3>2. CASE u # t
      <4>1. PICK x \in Labels, h \in Frames : x = pc[u] /\ h = frame[u]
        BY ThreadFacts
      <4>2. Between(x, h) /\ FrameOK(x, h)
        BY <4>1, ThreadFacts DEF LevelInv
      <4>3. Between(x, h)'
        BY <2>2, <4>2, StableBetween DEF FrameOK
      <4>4. pc'[u] = x /\ frame'[u] = h
        BY <2>1, <3>2, <4>1 DEF Only
      <4> QED BY <4>3, <4>4
    <3> QED BY <3>1, <3>2
  <2>5. ASSUME NEW n \in NewNodes, NEW a \in Nat, Hidden(n, a),
               \A v \in Threads : Unseen(pc[v], frame[v], n, a)
        PROVE  \A v \in Threads : Unseen(pc'[v], frame'[v], n, a)
    <3> TAKE v \in Threads
    <3>1. CASE v = t
      BY <2>1, <2>2, <2>5, <3>1, MovesUnseen
    <3>2. CASE v # t
      BY <2>1, <2>5, <3>2 DEF Only
    <3> QED BY <3>1, <3>2
  <2>6. ASSUME NEW u \in Threads, NEW h \in Frames, h = frame[u], Granted(h)
        PROVE  /\ h.node \in NewNodes /\ h.at \in Nat /\ Published(h.node)
               /\ Start(h.node) = h.want.start
               /\ Start(h.node)' = h.want.start
               /\ Hidden(h.node, h.at)
               /\ \A v \in Threads : Unseen(pc[v], frame[v], h.node, h.at)
    <3>1. h.node \in NewNodes /\ HasLevel(h.node, h.top)
      BY <2>6, ThreadFacts DEF FrameOK, Inserts, Granted
    <3>2. h.at \in Nat
      BY LevelAssumption DEF Frames
    <3>3. /\ Start(h.node) = h.want.start /\ Hidden(h.node, h.at)
          /\ \A v \in Threads : Unseen(pc[v], frame[v], h.node, h.at)
      BY <2>6 DEF LevelInv
    <3>4. Start(h.node)' = Start(h.node) /\ Published(h.node)
      BY <2>2, <3>1, PublishedFacts DEF HasLevel
    <3> QED BY <3>1, <3>2, <3>3, <3>4
  <2>7. ASSUME NEW u \in Threads, u # t, NEW h \in Frames, h = frame[u],
               Granted(h)
        PROVE  Granted(g) => g.node # h.node
    <3> HAVE Granted(g)
    <3>1. CASE LinksBottom(f, q, g)
      <4>1. g.node = f.node /\ ~Published(f.node)
        BY <3>1 DEF LinksBottom
      <4> QED BY <2>6, <2>7, <4>1
    <3>2. CASE Granted(f) /\ g.node = f.node
      BY <2>1, <2>7, <3>2 DEF LevelInv
    <3> QED BY <2>1, <3>1, <3>2, MovesGranted
  <2>8. ASSUME NEW u \in Threads, NEW h \in Frames, h = frame'[u], Granted(h)
        PROVE  /\ Start(h.node)' = h.want.start
               /\ Hidden(h.node, h.at)'
               /\ \A v \in Threads : Unseen(pc'[v], frame'[v], h.node, h.at)
    <3>1. CASE u # t
      <4>1. h = frame[u]
        BY <2>1, <2>8, <3>1 DEF Only
      <4>2. ASSUME \/ p = "link" /\ LinksBottom(f, q, g)
                   \/ p = "up" /\ LinksUpper(f, q, g)
            PROVE  Granted(g)
        <5>1. f.find = "insert" /\ f.at \in Nat
          BY <2>1, <4>2, LevelAssumption DEF FrameOK, Frames
        <5>2. g.find = f.find /\ (g.at = 1 \/ g.at = f.at + 1)
          BY <4>2 DEF LinksBottom, LinksUpper
        <5> QED BY <5>1, <5>2 DEF Granted
      <4>3. /\ p = "link" /\ LinksBottom(f, q, g) => f.node # h.node
            /\ p = "up" /\ LinksUpper(f, q, g) => f.node # h.node
        BY <2>7, <2>8, <3>1, <4>1, <4>2 DEF LinksBottom, LinksUpper
      <4>4. Hidden(h.node, h.at)'
        BY <2>1, <2>6, <2>8, <4>1, <4>3, MovesHidden
      <4> QED BY <2>5, <2>6, <2>8, <4>1, <4>4
    <3>2. CASE u = t
      <4>0. h = g /\ g.node = f.node /\ g.want = f.want
        BY <2>1, <2>2, <2>8, <3>2, MovesGranted
      <4>1. CASE Granted(f) /\ g.at = f.at /\ ~LinksUpper(f, q, g)
        <5>1. ~LinksBottom(f, q, g)
          BY <2>1, <2>6, <4>1 DEF LinksBottom
        <5>2. Hidden(f.node, f.at)'
          BY <2>1, <2>6, <4>1, <5>1, MovesHidden
        <5> QED BY <2>1, <2>5, <2>6, <4>0, <4>1, <5>2
      <4>2. CASE Granted(f) /\ g.at = f.at + 1 /\ LinksUpper(f, q, g)
        <5>1. /\ f.node \in NewNodes /\ f.at \in Nat /\ f.at + 1 \in Nat
              /\ Hidden(f.node, f.at)
              /\ \A v \in Threads : Unseen(pc[v], frame[v], f.node, f.at)
          BY <2>1, <2>6, <4>2
        <5>2. \A k \in Levels : k >= f.at + 1 => k >= f.at
          BY <5>1, LevelAssumption DEF Levels
        <5>3. /\ Hidden(f.node, f.at + 1)
              /\ \A v \in Threads : Unseen(pc[v], frame[v], f.node, f.at + 1)
          BY <5>1, <5>2 DEF Hidden, Unseen
        <5>4. ~LinksBottom(f, q, g)
          BY <2>1, <2>6, <4>2 DEF LinksBottom
        <5>5. Unseen(p, f, f.node, f.at + 1) /\ f.at < f.at + 1
          BY <2>1, <5>1, <5>3
        <5>6. Hidden(f.node, f.at + 1)'
          BY <2>1, <5>1, <5>3, <5>4, <5>5, MovesHidden
        <5> QED BY <2>1, <2>5, <2>6, <4>0, <4>2, <5>1, <5>3, <5>6
      <4>3. CASE p = "link" /\ g.at = 1 /\ LinksBottom(f, q, g)
        <5>1. f.node \in NewNodes /\ ~Published(f.node) /\ f.node \in Node
          BY <4>3 DEF LinksBottom, Node
        <5>2. /\ Hidden(f.node, 0)
              /\ \A v \in Threads : Unseen(pc[v], frame[v], f.node, 0)
          BY <5>1, UnpublishedHidden
        <5>3. Start(f.node)' = f.want.start
          BY <4>3, <5>1 DEF LinksBottom, Start
        <5>4. \A v \in Threads : Unseen(pc'[v], frame'[v], f.node, 0)
          BY <2>5, <5>1, <5>2
        <5>5. \A k \in Levels : k >= 1 => k >= 0 /\ k # 0
          BY LevelAssumption DEF Levels
        <5>6. \A v \in Threads : Unseen(pc'[v], frame'[v], f.node, 1)
          BY <5>4, <5>5 DEF Unseen
        <5>7. Hidden(f.node, 1)'
          <6> SUFFICES ASSUME NEW k \in Levels, k >= 1, NEW m \in Node
                       PROVE  next'[m][k].ref # f.node
            BY DEF Hidden
          <6>1. next[m][k].ref # f.node /\ k # 0
            BY <5>2, <5>5 DEF Hidden
          <6>2. Noted(f, k) /\ f.succs[k] # f.node /\ Null # f.node
            BY <2>1, <4>3, <5>1, NodeAssumption DEF FrameOK, Noted, HasLevel
          <6>3. \/ next'[m][k] = next[m][k]
                \/ next'[m][k] = Pack(f.succs[k], FALSE)
                \/ next'[m][k] = Pack(Null, FALSE)
            BY <4>3, <6>1 DEF LinksBottom
          <6>4. next'[m][k].ref \in {next[m][k].ref, f.succs[k], Null}
            BY <6>3 DEF Pack
          <6> QED BY <6>1, <6>2, <6>4
        <5> QED BY <4>0, <4>3, <5>3, <5>6, <5>7
      <4> QED BY <2>1, <2>8, <4>0, <4>1, <4>2, <4>3, MovesGranted
    <3> QED BY <3>1, <3>2
  <2>9. \A u \in Threads : Granted(frame'[u]) =>
          /\ Start(frame[u].node)' = frame'[u].want.start
          /\ Hidden(frame[u].node, frame[u].at)'
          /\ \A v \in Threads :
               Unseen(pc'[v], frame'[v], frame'[u].node, frame'[u].at)
    <3> SUFFICES ASSUME NEW u \in Threads, Granted(frame'[u])
                 PROVE  /\ Start(frame[u].node)' = frame'[u].want.start
                        /\ Hidden(frame[u].node, frame[u].at)'
                        /\ \A v \in Threads :
                             Unseen(pc'[v], frame'[v], frame'[u].node,
                                    frame'[u].at)
      OBVIOUS
    <3>1. PICK h \in Frames : h = frame'[u]
      BY DEF IInv, TypeOK
    <3> QED BY <2>8, <3>1
  <2>10. \A u, v \in Threads :
           u # v /\ Granted(frame'[u]) /\ Granted(frame'[v])
             => frame'[u].node # frame'[v].node
    <3> SUFFICES ASSUME NEW u \in Threads, NEW v \in Threads, u # v,
                        Granted(frame'[u]), Granted(frame'[v])
                 PROVE  frame'[u].node # frame'[v].node
      OBVIOUS
    <3>1. \A w \in Threads : w # t => frame'[w] = frame[w]
                                      /\ frame[w] \in Frames
      BY <2>1, ThreadFacts DEF Only
    <3>2. CASE u # t /\ v # t
      BY <3>1, <3>2 DEF LevelInv
    <3>3. CASE u = t
      BY <2>2, <2>7, <3>1, <3>3
    <3>4. CASE v = t
      BY <2>2, <2>7, <3>1, <3>4
    <3> QED BY <3>2, <3>3, <3>4
  <2> QED BY <2>3, <2>4, <2>9, <2>10 DEF LevelInv, Granted, Unseen, Refers
<1> QED BY <1>1, <1>2

(***************************************************************************)
(* At first every level leads from head to tail.                           *)
(***************************************************************************)
LEMMA LevelInit == Init => LevelInv
<1> SUFFICES ASSUME Init PROVE LevelInv
  OBVIOUS
<1>1. \A t \in Threads : frame[t].find = "none"
  BY DEF Init, Rest
<1>2. LevelsAscend
  <2> SUFFICES ASSUME NEW n \in Node, NEW l \in Levels,
                      next[n][l].ref # Null
               PROVE  Start(n) < Start(next[n][l].ref)
    BY DEF LevelsAscend
  <2>1. next[n][l] = Pack(IF n = head THEN tail ELSE Null, FALSE)
    BY DEF Init
  <2>2. n = head /\ next[n][l].ref = tail
    BY <2>1 DEF Pack
  <2>3. range[head] = [start |-> Min, end |-> Min]
        /\ range[tail] = [start |-> Max, end |-> Max]
    BY NodeAssumption DEF Init, Node
  <2> QED BY <2>2, <2>3, RequestAssumption DEF Start
<1> QED BY <1>1, <1>2 DEF LevelInv, Between, Granted

(***************************************************************************)
(* In every reachable state of src/src/v0 a node that is being linked is   *)
(* unknown at the levels it is not in yet.                                 *)
(***************************************************************************)
THEOREM LevelsInvariant ==
  ASSUME BelowMax PROVE Spec => []LevelInv
  BY LevelInit, LevelNext, Invariance, MarksInvariant, PTL DEF Spec

(***************************************************************************)
(* No level of the skip list of src/src/v0 ever leads back, so no search   *)
(* can be caught in a cycle, although the upper levels are linked with     *)
(* references that may be out of date.                                     *)
(***************************************************************************)
THEOREM LevelsDoAscend ==
  ASSUME BelowMax PROVE Spec => []LevelsAscend
<1>1. LevelInv => LevelsAscend
  BY DEF LevelInv
<1> QED BY <1>1, LevelsInvariant, PTL

-----------------------------------------------------------------------------
(***************************************************************************)
(* Owners.  Clients release only what they own, and every range holds more *)
(* than one key: findExact passes a range of one key without seeing it.    *)
(***************************************************************************)
ProperUse == ~Misuse /\ \A r \in Requests : r.start < r.end

(***************************************************************************)
(* Such a range does not begin at the highest key either.                  *)
(***************************************************************************)
LEMMA ProperBelowMax ==
  ASSUME ProperUse PROVE BelowMax
  BY RequestAssumption DEF ProperUse, BelowMax, RangesOver

Unmarked(n) == n \in Locked /\ ~next[n][0].mark

(***************************************************************************)
(* findExact and findDelete stand below the node they look for, as long as *)
(* it is in the list: they cannot miss it.                                 *)
(***************************************************************************)
Looks(f) == f.find = "exact" \/ (f.find = "delete" /\ f.node \in linked)

Near(p, f) ==
  p \in Searching =>
    /\ f.find \in {"exact", "delete"} => End(f.pred) <= f.want.start
    /\ Looks(f) =>
         /\ Start(next[f.pred][0].ref) <= f.want.start
         /\ p \in {"succ", "snip"} /\ f.lvl = 0 =>
              Start(f.curr) <= f.want.start

Sought(f, n) ==
  n \in linked /\ Start(n) = f.want.start /\ Start(n) < End(n)

(***************************************************************************)
(* A node of the list that ends at or before the start of another leads to *)
(* one that starts at or before it.                                        *)
(***************************************************************************)
LeadsBelow ==
  \A n, m \in linked :
    m # tail /\ Start(n) < End(n) /\ End(m) <= Start(n)
      => Start(next[m][0].ref) <= Start(n)

(***************************************************************************)
(* Neighbours in the list have nothing between them.                       *)
(***************************************************************************)
LEMMA ChainBelow == IInv => LeadsBelow
<1> SUFFICES ASSUME IInv, NEW n \in linked, NEW m \in linked, m # tail,
                    Start(n) < End(n), End(m) <= Start(n)
             PROVE  Start(next[m][0].ref) <= Start(n)
  BY DEF LeadsBelow
<1>1. /\ Start(n) \in Int /\ End(n) \in Int
      /\ Start(m) \in Int /\ End(m) \in Int /\ Start(m) <= End(m)
  BY LinkedFacts
<1>2. m # n
  BY <1>1
<1>3. Start(n) # Start(m)
  BY <1>2, StartsDiffer
<1>4. Start(n) <= Start(m) \/ Start(next[m][0].ref) <= Start(n)
  BY DEF IInv, ListInv, OrderedChain
<1> QED BY <1>1, <1>3, <1>4

(***************************************************************************)
(* A search keeps standing below the node it looks for.                    *)
(***************************************************************************)
LEMMA StableNear ==
  ASSUME IInv, IInv', Stable, KeepsRefs, NEW x, NEW h \in Frames,
         Near(x, h), h.find = "delete" /\ h.node \in linked' => h.node \in linked,
         x \in Searching => HasLevel(h.pred, 0) /\ h.pred # tail,
         x \in {"succ", "snip"} => HasLevel(h.curr, h.lvl),
         Looks(h)' => \E n \in Node : Sought(h, n)'
  PROVE  Near(x, h)'
<1> SUFFICES ASSUME x \in Searching
             PROVE  /\ h.find \in {"exact", "delete"} =>
                         (End(h.pred) <= h.want.start)'
                    /\ Looks(h)' =>
                         /\ (Start(next[h.pred][0].ref) <= h.want.start)'
                         /\ x \in {"succ", "snip"} /\ h.lvl = 0 =>
                              (Start(h.curr) <= h.want.start)'
  BY DEF Near
<1>1. /\ h.pred \in Node /\ Published(h.pred) /\ Published(h.pred)'
      /\ End(h.pred)' = End(h.pred) /\ h.pred # tail /\ 0 \in Levels
  BY PublishedFacts, LevelAssumption DEF HasLevel, Stable, Levels
<1>2. h.find \in {"exact", "delete"} => (End(h.pred) <= h.want.start)'
  BY <1>1 DEF Near
<1>3. ASSUME Looks(h)'
      PROVE  /\ (Start(next[h.pred][0].ref) <= h.want.start)'
             /\ x \in {"succ", "snip"} /\ h.lvl = 0 =>
                  (Start(h.curr) <= h.want.start)'
  <2>1. Looks(h) /\ h.find \in {"exact", "delete"}
    BY <1>3 DEF Looks
  <2>2. x \in {"succ", "snip"} /\ h.lvl = 0 => (Start(h.curr) <= h.want.start)'
    BY <2>1, PublishedFacts DEF Near, HasLevel
  <2>3. PICK m : m = next[h.pred][0].ref
    OBVIOUS
  <2>4. m \in Node /\ Published(m) /\ Start(m)' = Start(m)
    BY <1>1, <2>3, NextLevel, PublishedFacts DEF HasLevel
  <2>5. CASE next'[h.pred][0].ref = m
    <3>1. (Start(next[h.pred][0].ref) <= h.want.start)'
      BY <2>1, <2>3, <2>4, <2>5 DEF Near, Start
    <3> QED BY <2>2, <3>1
  <2>6. CASE ~next'[h.pred][0].mark
    <3>1. h.pred \in linked'
      BY <1>1, <2>6 DEF IInv, ListInv, Membership
    <3>2. PICK n \in Node : Sought(h, n)'
      BY <1>3
    <3>3. (Start(next[h.pred][0].ref) <= Start(n))'
      <4>1. /\ (n \in linked)' /\ (Start(n) < End(n))'
            /\ (End(h.pred) <= Start(n))'
        BY <1>2, <2>1, <3>2 DEF Sought
      <4>2. LeadsBelow'
        BY ChainBelow, PTL
      <4> QED BY <1>1, <3>1, <4>1, <4>2 DEF LeadsBelow
    <3> QED BY <2>2, <3>2, <3>3 DEF Sought
  <2> QED BY <1>1, <2>3, <2>5, <2>6 DEF KeepsRefs
<1> QED BY <1>2, <1>3

(***************************************************************************)
(* Which search runs at which label.                                       *)
(***************************************************************************)
Fits(p, f) ==
  /\ p = "idle" <=> f.find = "none"
  /\ p \in {"link", "found"} => Placing(f)
  /\ p \in {"up", "count"} => Granted(f)
  /\ p \in Deletes \cup {"wrong"} => f.find = "exact"
  /\ p = "uncount" => f.find = "delete"

(***************************************************************************)
(* What a call has to itself: tryLock the node it has linked, releaseLock  *)
(* the node it is to delete, and from the mark on the node it deletes.     *)
(***************************************************************************)
Unclaimed(n) ==
  n \notin owned
  /\ \A u \in Threads : Granted(frame[u]) => frame[u].node # n

Target(p, f, n) ==
  /\ Unmarked(n) /\ range[n] = f.want /\ Unclaimed(n)
  /\ p \in Deletes => f.node = n

Claims(p, f) ==
  /\ Granted(f) =>
       Unmarked(f.node) /\ f.node \notin owned /\ range[f.node] = f.want
  /\ f.find = "exact" => \E n \in Node : Target(p, f, n)
  /\ f.find = "delete" =>
       /\ f.node \in NewNodes /\ next[f.node][0].mark
       /\ range[f.node] = f.want
       /\ p = "uncount" => f.node \notin linked

OwnerInv ==
  /\ \A n \in Locked : range[n] \in Requests
  /\ \A n \in owned : Unmarked(n)
  /\ \A n \in Locked : next[n][0].mark =>
       \E t \in Threads : frame[t].find = "delete" /\ frame[t].node = n
  /\ \A t \in Threads :
       /\ pc[t] # "wrong"
       /\ Fits(pc[t], frame[t]) /\ Claims(pc[t], frame[t])
       /\ Near(pc[t], frame[t])
  /\ \A t, u \in Threads : t # u =>
       /\ frame[t].find = "exact" /\ frame[u].find = "exact"
            => frame[t].want # frame[u].want
       /\ frame[t].find = "delete" /\ frame[u].find = "delete"
            => frame[t].node # frame[u].node

(***************************************************************************)
(* A call keeps to the labels of its search.                               *)
(***************************************************************************)
LEMMA MovesFits ==
  ASSUME IInv, NEW t \in Threads, NEW p \in Labels, NEW f \in Frames,
         FrameOK(p, f), Fits(p, f), NEW q \in Labels, NEW g \in Frames,
         Moves(t, p, f, q, g)
  PROVE  Fits(q, g)
<1>0. f.at \in Nat /\ g.at \in Nat
  BY LevelAssumption DEF Frames
<1>1. CASE Scans(p, f, q, g)
  <2>1. p \in Searching
    BY <1>1 DEF Scans, SeesMark, ReadsAgain, Reaches, Searching
  <2>2. f.find # "none"
    BY <2>1 DEF Fits, Searching
  <2>3. CASE SeesMark(p, f, q, g) \/ ReadsAgain(p, f, q, g)
    BY <2>2, <2>3 DEF SeesMark, ReadsAgain, SameSearch, SameCall, Fits, Deletes
  <2>4. ASSUME NEW e, Reaches(p, f, e), Goes(e, q, g) PROVE Fits(q, g)
    BY <2>2, <2>4 DEF Reaches, Goes, SameSearch, SameCall, Fits, Deletes
  <2>5. ASSUME NEW e, Reaches(p, f, e), Settled(e, q, g) PROVE Fits(q, g)
    <3>1. SameCall(f, e) /\ SameCall(e, g) /\ g.find # "none"
      BY <2>2, <2>5 DEF Reaches, Settled, SameSearch, SameCall
    <3>2. \/ q = "curr"
          \/ q \in {"link", "found"} /\ e.find = "insert" /\ e.at = 0
          \/ q = "up" /\ e.find = "insert" /\ e.at > 0
          \/ q \in {"mark", "bottom", "wrong"} /\ e.find = "exact"
          \/ q = "uncount" /\ e.find = "delete"
      BY <2>5 DEF Settled
    <3> QED BY <3>1, <3>2 DEF SameCall, Fits, Placing, Granted, Deletes
  <2> QED BY <1>1, <2>3, <2>4, <2>5 DEF Scans
<1>2. CASE \/ p = "snip" /\ Snips(f, q, g)
           \/ p = "snip" /\ Retries(f, f.find, q, g)
           \/ p \in {"link", "up"} /\ Retries(f, "insert", q, g)
  <2>1. q \in {"again", "curr"} /\ g.find # "none"
    BY <1>2 DEF Snips, Retries, Starts, SameSearch, SameCall, Fits
  <2> QED BY <2>1 DEF Fits, Deletes
<1>3. CASE p = "link" /\ LinksBottom(f, q, g)
  <2>1. q \in {"up", "count"} /\ g.find = "insert" /\ g.at > 0
    BY <1>3 DEF LinksBottom, Fits, Placing
  <2> QED BY <2>1 DEF Fits, Granted, Deletes
<1>4. CASE p = "up" /\ LinksUpper(f, q, g)
  <2>1. q \in {"up", "count"} /\ g.find = "insert" /\ g.at > 0
    BY <1>0, <1>4 DEF LinksUpper, Fits, Granted
  <2> QED BY <2>1 DEF Fits, Granted, Deletes
<1>5. CASE MarksNode(p, f, q, g)
  <2>1. \/ q \in Deletes \cup {"wrong"} /\ g.find = f.find /\ p \in Deletes
        \/ q = "curr" /\ g.find = "delete"
    BY <1>5 DEF MarksNode, SameCall, Starts, Deletes
  <2> QED BY <2>1 DEF Fits, Deletes
<1>6. CASE BeginsTryLock(t, p, q, g) \/ BeginsRelease(p, q, g)
           \/ Returns(t, p, f, q, g)
  BY <1>6 DEF BeginsTryLock, BeginsRelease, Returns, Rest, Fits, Deletes
<1> QED BY <1>1, <1>2, <1>3, <1>4, <1>5, <1>6 DEF Moves

(***************************************************************************)
(* A locked node is marked only by the thread that deletes it.             *)
(***************************************************************************)
LEMMA MovesUnmark ==
  ASSUME IInv, NEW t \in Threads, NEW p \in Labels, NEW f \in Frames,
         FrameOK(p, f), NEW q \in Labels, NEW g \in Frames,
         Moves(t, p, f, q, g)
  PROVE  /\ \A n \in Node : Unmarked(n) =>
              \/ Unmarked(n)'
              \/ /\ p = "delete" /\ q = "curr" /\ f.node = n
                 /\ Starts(f, "delete", g) /\ Marks(n, 0)
         /\ \A n \in Node : (n \in Locked /\ next[n][0].mark)' =>
              \/ n \in Locked /\ next[n][0].mark
              \/ /\ p = "delete" /\ q = "curr" /\ f.node = n
                 /\ Starts(f, "delete", g) /\ Marks(n, 0)
<1>0. /\ 0 \in Levels /\ f.node \in Node /\ f.pred \in Node /\ f.lvl \in Levels
      /\ f.preds[0] \in Node
  BY LevelAssumption DEF Levels, Frames
<1>1. CASE Quiet
  BY <1>1 DEF Quiet, Unmarked, Locked
<1>2. CASE p = "snip" /\ Snips(f, q, g)
  <2>1. \A n \in Node : next'[n][0].mark => next[n][0].mark
    BY <1>0, <1>2 DEF Snips, Writes, Pack
  <2>2. \A n \in Node : next[n][0].mark => next'[n][0].mark
    BY <1>0, <1>2 DEF Snips, Writes, Pack
  <2>3. f.lvl = 0 => next[f.curr][0].mark
    BY <1>2 DEF Snips, Pack
  <2>4. \A n \in Node : /\ n \in linked' => n \in linked
                        /\ n \in linked /\ ~next[n][0].mark => n \in linked'
    BY <1>2, <2>3 DEF Snips
  <2> QED BY <2>1, <2>4 DEF Unmarked, Locked
<1>3. CASE p = "link" /\ LinksBottom(f, q, g)
  <2>1. ASSUME NEW n \in Node
        PROVE  \/ next'[n][0] = next[n][0] /\ n # f.node
               \/ next'[n][0] = Pack(f.node, FALSE)
               \/ next'[n][0] = Pack(f.succs[0], FALSE)
               \/ next'[n][0] = Pack(Null, FALSE)
    BY <1>0, <1>3 DEF LinksBottom
  <2>2. \A n \in Node : \/ next'[n][0] = next[n][0] /\ n # f.node
                        \/ ~next'[n][0].mark
    BY <2>1 DEF Pack
  <2>3. linked' = linked \cup {f.node}
    BY <1>3 DEF LinksBottom
  <2> QED BY <2>2, <2>3 DEF Unmarked, Locked
<1>4. CASE p = "up" /\ LinksUpper(f, q, g)
  <2>0. f.at # 0
    BY <1>4 DEF LinksUpper
  <2>1. \A n \in Node : next'[n][0] = next[n][0]
    BY <1>0, <1>4, <2>0 DEF LinksUpper, Writes
  <2> QED BY <1>4, <2>1 DEF LinksUpper, Unmarked, Locked
<1>5. CASE MarksNode(p, f, q, g)
  <2>1. CASE p = "attempt" /\ Marks(f.node, f.lvl)
    <3>1. f.lvl # 0
      BY <2>1 DEF FrameOK
    <3>2. \A n \in Node : next'[n][0] = next[n][0]
      BY <1>0, <2>1, <3>1 DEF Marks, Writes
    <3> QED BY <2>1, <3>2 DEF Marks, Unmarked, Locked
  <2>2. CASE p = "delete" /\ q = "curr" /\ Starts(f, "delete", g)
             /\ Marks(f.node, 0)
    <3>1. \A n \in Node : n # f.node => next'[n][0] = next[n][0]
      BY <1>0, <2>2 DEF Marks, Writes
    <3>2. linked' = linked
      BY <2>2 DEF Marks
    <3> QED BY <2>2, <3>1, <3>2 DEF Unmarked, Locked
  <2> QED BY <1>1, <1>5, <2>1, <2>2 DEF MarksNode
<1> QED BY <1>1, <1>2, <1>3, <1>4, <1>5
        DEF Moves, Retries, BeginsTryLock, BeginsRelease, Returns

(***************************************************************************)
(* A search that looks for a node stands below it at every node it         *)
(* reaches, as long as the node is in the list.                            *)
(***************************************************************************)
LEMMA ReachesNear ==
  ASSUME IInv, MarkInv, NEW p \in Labels, NEW f \in Frames, FrameOK(p, f),
         p \in Searching, f.find \in {"exact", "delete"}, Near(p, f),
         Looks(f) => \E n \in Node : Sought(f, n),
         NEW e, Reaches(p, f, e)
  PROVE  /\ End(e.pred) <= f.want.start
         /\ Looks(f) => Start(next[e.pred][0].ref) <= f.want.start
         /\ Looks(f) /\ e.lvl = 0 => Start(e.curr) <= f.want.start
<1>1. /\ End(f.pred) <= f.want.start /\ e.lvl = f.lvl /\ f.lvl \in Levels
      /\ Looks(f) => Start(next[f.pred][0].ref) <= f.want.start
      /\ Looks(f) /\ p \in {"succ", "snip"} /\ f.lvl = 0 =>
           Start(f.curr) <= f.want.start
  BY DEF Near, Reaches, SameSearch, Frames
<1>2. CASE /\ p = "curr" /\ e.pred = f.pred
           /\ e.curr = next[f.pred][f.lvl].ref
  BY <1>1, <1>2
<1>3. CASE p = "succ" /\ e.pred = f.pred /\ e.curr = f.curr
  BY <1>1, <1>3
<1>4. CASE /\ p = "succ" /\ ~next[f.curr][f.lvl].mark /\ Pass(f)
           /\ e.pred = f.curr /\ e.curr = next[f.curr][f.lvl].ref
  <2>1. HasLevel(f.curr, f.lvl) /\ f.curr # tail
    BY <1>4 DEF FrameOK, Reaches
  <2>2. f.curr \in linked
    BY <1>1, <1>4, <2>1, UnmarkedStep
  <2>3. End(f.curr) \in Int /\ f.want \in Requests /\ f.want.start \in Int
    BY <1>4, <2>2, LinkedFacts, RequestAssumption DEF FrameOK, RangesOver
  <2>4. End(f.curr) <= f.want.start
    BY <1>4, <2>3 DEF Pass
  <2>5. Looks(f) => Start(next[f.curr][0].ref) <= f.want.start
    BY <2>1, <2>2, <2>4, ChainBelow DEF Sought, LeadsBelow
  <2> QED BY <1>1, <1>4, <2>4, <2>5
<1> QED BY <1>2, <1>3, <1>4 DEF Reaches

(***************************************************************************)
(* findExact and findDelete find the node they look for.                   *)
(***************************************************************************)
LEMMA FindsSought ==
  ASSUME IInv, MarkInv, NEW p \in Labels, NEW f \in Frames, FrameOK(p, f),
         p \in Searching, f.find \in {"exact", "delete"}, Near(p, f),
         Looks(f), NEW n \in Node, Sought(f, n),
         NEW e, Reaches(p, f, e), e.lvl = 0, Stops(p, f, e)
  PROVE  e.curr = n /\ ~next[n][0].mark
<1>1. Start(e.curr) <= f.want.start
  BY ReachesNear
<1>2. /\ e.find = f.find /\ e.want = f.want /\ e.lvl = f.lvl
      /\ f.lvl \in Levels /\ HasLevel(e.curr, 0)
  BY DEF Reaches, SameSearch, SameCall, Frames
<1>3. /\ Start(n) \in Int /\ End(n) \in Int /\ f.want.start = Start(n)
      /\ Start(n) < End(n) /\ n \in linked
  BY LinkedFacts DEF Sought
<1>4. Start(e.curr) \in Int /\ End(e.curr) \in Int
  BY <1>2, PublishedFacts DEF HasLevel
<1>5. Enter(e)
  BY <1>1, <1>2, <1>3, <1>4 DEF Enter
<1>6. p = "succ" /\ ~next[f.curr][0].mark /\ ~Pass(f) /\ e.curr = f.curr
  BY <1>2, <1>5 DEF Stops
<1>7. f.curr \in linked
  BY <1>2, <1>6, UnmarkedStep
<1>8. f.want.start < End(f.curr)
  BY <1>3, <1>4, <1>6 DEF Pass
<1>9. f.curr = n
  BY <1>1, <1>3, <1>4, <1>6, <1>7, <1>8 DEF IInv, ListInv, Disjoint
<1> QED BY <1>6, <1>9

(***************************************************************************)
(* A thread stands below the node it looks for after each of its steps.    *)
(***************************************************************************)
LEMMA MovesNear ==
  ASSUME IInv, MarkInv, NEW t \in Threads, NEW p \in Labels,
         NEW f \in Frames, FrameOK(p, f), Fits(p, f), Near(p, f),
         p \in Searching /\ Looks(f) => \E n \in Node : Sought(f, n),
         NEW q \in Labels, NEW g \in Frames, Moves(t, p, f, q, g),
         q \in Searching /\ Looks(g) => \E n \in Node : Sought(g, n)
  PROVE  /\ Near(q, g)
         /\ q \in Searching => HasLevel(g.pred, 0) /\ g.pred # tail
         /\ q \in {"succ", "snip"} => HasLevel(g.curr, g.lvl)
<1>0. 0 \in Levels /\ \A n, l : HasLevel(n, l) /\ l \in Levels
                                => HasLevel(n, 0)
  BY LevelAssumption DEF HasLevel, Levels, IInv, TypeOK
<1>1. CASE q \notin Searching
  BY <1>1 DEF Near, Searching
<1>2. ASSUME q = "curr", g.pred = head, g.want \in Requests
      PROVE  /\ Near(q, g)
             /\ q \in Searching => HasLevel(g.pred, 0) /\ g.pred # tail
             /\ q \in {"succ", "snip"} => HasLevel(g.curr, g.lvl)
  <2>1. /\ head \in linked /\ head # tail /\ HasLevel(head, 0)
        /\ End(head) <= g.want.start
    BY <1>2, HeadFacts
  <2>2. Looks(g) => Start(next[head][0].ref) <= g.want.start
    BY <1>2, <2>1, ChainBelow DEF Sought, LeadsBelow, Searching
  <2> QED BY <1>2, <2>1, <2>2 DEF Near
<1>3. p \in Searching => /\ HasLevel(f.pred, f.lvl) /\ f.pred # tail
                         /\ HasLevel(f.pred, 0) /\ f.want \in Requests
                         /\ f.lvl \in Levels
  BY <1>0 DEF FrameOK, Searches, Searching, Frames
<1>4. CASE Scans(p, f, q, g)
  <2>0. p \in Searching
    BY <1>4 DEF Scans, Reaches, SeesMark, ReadsAgain, Searching
  <2>1. CASE SeesMark(p, f, q, g)
    <3>1. /\ p = "succ" /\ q = "snip" /\ SameSearch(f, g)
          /\ g.pred = f.pred /\ g.curr = f.curr /\ HasLevel(f.curr, f.lvl)
      BY <2>1 DEF SeesMark, FrameOK
    <3> QED BY <1>3, <2>0, <3>1 DEF Near, Looks, SameSearch, SameCall
  <2>2. CASE ReadsAgain(p, f, q, g)
    <3>1. /\ p = "again" /\ q = "succ" /\ SameSearch(f, g)
          /\ g.pred = f.pred /\ g.curr = next[f.pred][f.lvl].ref
          /\ HasLevel(g.curr, f.lvl)
      BY <1>3, <2>0, <2>2, NextLevel DEF ReadsAgain
    <3> QED BY <1>3, <2>0, <3>1 DEF Near, Looks, SameSearch, SameCall
  <2>3. ASSUME NEW e, Reaches(p, f, e), q \in Searching,
               Goes(e, q, g) \/ Settled(e, q, g)
        PROVE  /\ Near(q, g)
               /\ q \in Searching => HasLevel(g.pred, 0) /\ g.pred # tail
               /\ q \in {"succ", "snip"} => HasLevel(g.curr, g.lvl)
    <3>1. /\ SameCall(f, g) /\ g.node = f.node /\ g.pred = e.pred
          /\ (q = "succ" /\ g.curr = e.curr /\ g.lvl = e.lvl) \/ q = "curr"
      BY <2>3 DEF Reaches, Goes, Settled, SameSearch, SameCall, Searching
    <3>2. /\ HasLevel(e.pred, 0) /\ e.pred # tail /\ e.lvl = f.lvl
          /\ HasLevel(e.curr, e.lvl)
      BY <1>0, <1>3, <2>0, <2>3 DEF Reaches, SameSearch
    <3>3. f.find \in {"exact", "delete"} =>
            /\ End(e.pred) <= f.want.start
            /\ Looks(f) => Start(next[e.pred][0].ref) <= f.want.start
            /\ Looks(f) /\ e.lvl = 0 => Start(e.curr) <= f.want.start
      BY <2>0, <2>3, ReachesNear
    <3> QED BY <3>1, <3>2, <3>3 DEF Near, Looks, SameCall
  <2> QED BY <1>1, <1>4, <2>1, <2>2, <2>3 DEF Scans
<1>5. CASE p = "snip" /\ Snips(f, q, g)
  <2>1. q = "again" /\ SameSearch(f, g) /\ g.pred = f.pred
    BY <1>5 DEF Snips
  <2> QED BY <1>3, <1>5, <2>1 DEF Near, Looks, SameSearch, SameCall, Searching
<1>6. CASE \/ p = "snip" /\ Retries(f, f.find, q, g)
           \/ p \in {"link", "up"} /\ Retries(f, "insert", q, g)
           \/ p = "delete" /\ q = "curr" /\ Starts(f, "delete", g)
  <2>1. q = "curr" /\ g.pred = head /\ g.want = f.want /\ p # "idle"
    BY <1>6 DEF Retries, Starts
  <2> QED BY <1>2, <2>1 DEF FrameOK
<1>7. CASE BeginsTryLock(t, p, q, g) \/ BeginsRelease(p, q, g)
  BY <1>2, <1>7 DEF BeginsTryLock, BeginsRelease
<1>8. CASE \/ p = "link" /\ LinksBottom(f, q, g)
           \/ p = "up" /\ LinksUpper(f, q, g)
           \/ Returns(t, p, f, q, g)
  BY <1>1, <1>8 DEF LinksBottom, LinksUpper, Returns, Searching
<1>9. CASE MarksNode(p, f, q, g)
  BY <1>1, <1>6, <1>9 DEF MarksNode, Searching
<1> QED BY <1>4, <1>5, <1>6, <1>7, <1>8, <1>9 DEF Moves

(***************************************************************************)
(* A search of level 0 has stopped.                                        *)
(***************************************************************************)
Ends0(p, f, q, g) ==
  /\ p \in Searching /\ Quiet
  /\ \E e : /\ Reaches(p, f, e) /\ Settled(e, q, g) /\ Stops(p, f, e)
            /\ e.lvl = 0

(***************************************************************************)
(* Where a call of releaseLock that has not marked its node comes from.    *)
(***************************************************************************)
LEMMA MovesExact ==
  ASSUME IInv, NEW t \in Threads, NEW p \in Labels, NEW f \in Frames,
         FrameOK(p, f), Fits(p, f), NEW q \in Labels, NEW g \in Frames,
         Moves(t, p, f, q, g), g.find = "exact"
  PROVE  \/ BeginsRelease(p, q, g)
         \/ /\ f.find = "exact" /\ g.want = f.want
            /\ UNCHANGED <<range, owned>>
            /\ q = "wrong" =>
                 \/ p = "recheck" /\ next[f.node][0].mark
                 \/ Ends0(p, f, q, g)
            /\ q \in Deletes => \/ p \in Deletes /\ g.node = f.node
                                \/ Ends0(p, f, q, g)
<1>1. CASE Scans(p, f, q, g) /\ Quiet /\ UNCHANGED owned
  <2>0. p \in Searching
    BY <1>1 DEF Scans, Reaches, SeesMark, ReadsAgain, Searching
  <2>1. SameCall(f, g) /\ range' = range
    BY <1>1 DEF Scans, SeesMark, ReadsAgain, Reaches, Goes, Settled,
                SameSearch, SameCall, Quiet
  <2>2. q \in Deletes \cup {"wrong"} => Ends0(p, f, q, g)
    BY <1>1, <2>0 DEF Scans, SeesMark, ReadsAgain, Goes, Settled, Ends0, Deletes
  <2> QED BY <1>1, <2>1, <2>2 DEF SameCall
<1>2. CASE /\ \/ p = "snip" /\ Snips(f, q, g)
              \/ p = "snip" /\ Retries(f, f.find, q, g)
           /\ UNCHANGED <<range, owned>>
  BY <1>2 DEF Snips, Retries, Starts, SameSearch, SameCall, Deletes
<1>3. CASE \/ p = "link" /\ LinksBottom(f, q, g)
           \/ p = "up" /\ LinksUpper(f, q, g)
           \/ p \in {"link", "up"} /\ Retries(f, "insert", q, g)
           \/ BeginsTryLock(t, p, q, g)
           \/ Returns(t, p, f, q, g)
  <2>1. p \in {"link", "up"} => f.find = "insert"
    BY DEF Fits, Placing, Granted
  <2>2. Returns(t, p, f, q, g) => g.find = "none"
    BY DEF Returns, Rest
  <2>3. g.find \in {"insert", "none"}
    BY <1>3, <2>1, <2>2 DEF LinksBottom, LinksUpper, Retries, Starts,
                            BeginsTryLock
  <2> QED BY <2>3
<1>4. CASE MarksNode(p, f, q, g) /\ UNCHANGED <<range, owned>>
  <2>1. p \in Deletes /\ SameCall(f, g) /\ g.node = f.node
    BY <1>4 DEF MarksNode, Deletes, Starts
  <2>2. q = "wrong" => p = "recheck" /\ next[f.node][0].mark
    BY <1>4 DEF MarksNode, Starts
  <2> QED BY <1>4, <2>1, <2>2 DEF SameCall
<1> QED BY <1>1, <1>2, <1>3, <1>4 DEF Moves, Retries, Quiet

(***************************************************************************)
(* Where a call of releaseLock that has marked its node comes from, and    *)
(* that it keeps the node until it returns.                                *)
(***************************************************************************)
LEMMA MovesDelete ==
  ASSUME IInv, NEW t \in Threads, NEW p \in Labels, NEW f \in Frames,
         FrameOK(p, f), Fits(p, f), NEW q \in Labels, NEW g \in Frames,
         Moves(t, p, f, q, g)
  PROVE  /\ g.find = "delete" =>
              /\ g.node = f.node /\ g.want = f.want /\ owned' = owned
              /\ range' = range
              /\ \/ f.find = "delete"
                 \/ /\ p = "delete" /\ q = "curr" /\ Starts(f, "delete", g)
                    /\ Marks(f.node, 0)
              /\ q = "uncount" => Ends0(p, f, q, g)
         /\ f.find = "delete" =>
              \/ g.find = "delete" /\ g.node = f.node
              \/ p = "uncount" /\ Returns(t, p, f, q, g)
<1>1. CASE Scans(p, f, q, g) /\ Quiet /\ UNCHANGED owned
  <2>0. p \in Searching
    BY <1>1 DEF Scans, Reaches, SeesMark, ReadsAgain, Searching
  <2>1. SameCall(f, g) /\ range' = range
    BY <1>1 DEF Scans, SeesMark, ReadsAgain, Reaches, Goes, Settled,
                SameSearch, SameCall, Quiet
  <2>2. f.find = "delete" => g.node = f.node
    BY <1>1 DEF Scans, SeesMark, ReadsAgain, Reaches, Goes, Settled,
                SameSearch, SameCall
  <2>3. q = "uncount" => Ends0(p, f, q, g)
    BY <1>1, <2>0 DEF Scans, SeesMark, ReadsAgain, Goes, Settled, Ends0
  <2> QED BY <1>1, <2>1, <2>2, <2>3 DEF SameCall
<1>2. CASE /\ \/ p = "snip" /\ Snips(f, q, g)
              \/ p = "snip" /\ Retries(f, f.find, q, g)
           /\ UNCHANGED <<range, owned>>
  BY <1>2 DEF Snips, Retries, Starts, SameSearch, SameCall
<1>3. CASE \/ p = "link" /\ LinksBottom(f, q, g)
           \/ p = "up" /\ LinksUpper(f, q, g)
           \/ p \in {"link", "up"} /\ Retries(f, "insert", q, g)
           \/ BeginsTryLock(t, p, q, g)
           \/ BeginsRelease(p, q, g)
  BY <1>3 DEF LinksBottom, LinksUpper, Retries, Starts, BeginsTryLock,
              BeginsRelease, Fits, Placing, Granted
<1>4. CASE Returns(t, p, f, q, g)
  BY <1>4 DEF Returns, Rest, Fits, Placing, Granted
<1>5. CASE MarksNode(p, f, q, g) /\ UNCHANGED <<range, owned>>
  <2>1. p \in Deletes /\ f.find = "exact" /\ q # "uncount"
    BY <1>5 DEF MarksNode, Deletes, Fits
  <2> QED BY <1>5, <2>1 DEF MarksNode, Starts, SameCall
<1> QED BY <1>1, <1>2, <1>3, <1>4, <1>5 DEF Moves, Retries, Quiet

(***************************************************************************)
(* Only releaseLock and the return of tryLock change who owns what.        *)
(***************************************************************************)
LEMMA MovesOwned ==
  ASSUME NEW t \in Threads, NEW p \in Labels, NEW f \in Frames,
         NEW q \in Labels, NEW g \in Frames, Moves(t, p, f, q, g)
  PROVE  \/ owned' = owned
         \/ BeginsRelease(p, q, g)
         \/ /\ p = "count" /\ owned' = owned \cup {f.node}
            /\ Returns(t, p, f, q, g)
  BY DEF Moves, BeginsTryLock, Returns

(***************************************************************************)
(* Locked nodes are nodes of calls, and a node that enters the list was    *)
(* not published before.                                                   *)
(***************************************************************************)
LEMMA MovesLinked ==
  ASSUME IInv, NEW t \in Threads, NEW p \in Labels, NEW f \in Frames,
         FrameOK(p, f), NEW q \in Labels, NEW g \in Frames,
         Moves(t, p, f, q, g)
  PROVE  /\ \A n \in Locked : n \in NewNodes /\ n \in Node /\ Published(n)
         /\ \A n \in linked' :
              \/ n \in linked
              \/ ~Published(n) /\ p = "link" /\ n = f.node /\ LinksBottom(f, q, g)
<1>1. \A n \in Locked : n \in NewNodes /\ n \in Node /\ Published(n)
  BY LinkedFacts DEF Locked, Node
<1>2. CASE Quiet \/ linked' = linked
  BY <1>1, <1>2 DEF Quiet
<1>3. CASE p = "snip" /\ Snips(f, q, g)
  BY <1>1, <1>3 DEF Snips
<1>4. CASE p = "link" /\ LinksBottom(f, q, g)
  BY <1>1, <1>4 DEF LinksBottom
<1>5. CASE MarksNode(p, f, q, g)
  BY <1>2, <1>5 DEF MarksNode, Marks
<1> QED BY <1>2, <1>3, <1>4, <1>5
        DEF Moves, LinksUpper, Retries, BeginsTryLock, BeginsRelease, Returns

(***************************************************************************)
(* A thread that is looking for a node has one to find.                    *)
(***************************************************************************)
LEMMA ClaimsSought ==
  ASSUME ProperUse, IInv, NEW x, NEW h \in Frames, h.want \in Requests
  PROVE  /\ Claims(x, h) /\ Looks(h) => \E n \in Node : Sought(h, n)
         /\ \A n \in Node : Target(x, h, n) => Sought(h, n)
         /\ \A n \in Node : n \in linked /\ range[n] = h.want => Sought(h, n)
<1>1. \A n \in Node : n \in linked /\ range[n] = h.want => Sought(h, n)
  BY DEF ProperUse, Sought, Start, End
<1>2. \A n \in Node : Target(x, h, n) => Sought(h, n)
  BY <1>1 DEF Target, Unmarked, Locked
<1>3. ASSUME Claims(x, h), Looks(h) PROVE \E n \in Node : Sought(h, n)
  <2>1. CASE h.find = "exact"
    BY <1>2, <1>3, <2>1 DEF Claims
  <2>2. CASE h.find = "delete" /\ h.node \in linked
    BY <1>1, <1>3, <2>2 DEF Claims, Node
  <2> QED BY <1>3, <2>1, <2>2 DEF Looks
<1> QED BY <1>1, <1>2, <1>3

(***************************************************************************)
(* The same after a step.                                                  *)
(***************************************************************************)
LEMMA ClaimsSoughtNext ==
  ASSUME ProperUse, NEW x, NEW h \in Frames, h.want \in Requests,
         Claims(x, h)', Looks(h)'
  PROVE  \E n \in Node : Sought(h, n)'
<1>1. \A n \in Node : n \in linked' /\ range'[n] = h.want => Sought(h, n)'
  BY DEF ProperUse, Sought, Start, End
<1>2. CASE h.find = "exact"
  <2>1. PICK n \in Node : Target(x, h, n)'
    BY <1>2 DEF Claims
  <2> QED BY <1>1, <2>1 DEF Target, Unmarked, Locked
<1>3. CASE h.find = "delete" /\ (h.node \in linked)'
  BY <1>1, <1>3 DEF Claims, Node
<1> QED BY <1>2, <1>3 DEF Looks

(***************************************************************************)
(* What findExact of a call of releaseLock finds is its target, and so it  *)
(* does not report wrong usage.  findDelete ends when its node is gone.    *)
(***************************************************************************)
LEMMA SearchEnds ==
  ASSUME ProperUse, IInv, MarkInv, NEW p \in Labels, NEW f \in Frames,
         FrameOK(p, f), Fits(p, f), Claims(p, f), Near(p, f),
         NEW q \in Labels, NEW g \in Frames, Ends0(p, f, q, g)
  PROVE  /\ f.find = "exact" => q \in {"mark", "bottom"}
         /\ \A n \in Node : f.find = "exact" /\ Target(p, f, n) => g.node = n
         /\ f.find = "delete" => f.node \notin linked
<1>1. PICK e : /\ Reaches(p, f, e) /\ Settled(e, q, g) /\ Stops(p, f, e)
               /\ e.lvl = 0 /\ p \in Searching
  BY DEF Ends0
<1>2. /\ f.want \in Requests /\ e.find = f.find /\ e.want = f.want
  BY <1>1 DEF FrameOK, Searching, Reaches, SameSearch, SameCall
<1>3. ASSUME f.find = "exact", NEW n \in Node, Target(p, f, n)
      PROVE  q \in {"mark", "bottom"} /\ g.node = n
  <2>1. Sought(f, n) /\ Looks(f)
    BY <1>2, <1>3, ClaimsSought DEF Looks
  <2>2. e.curr = n
    BY <1>1, <1>3, <2>1, FindsSought
  <2>3. RangeFound(e)
    BY <1>2, <1>3, <2>2 DEF RangeFound, Target
  <2> QED BY <1>1, <1>2, <1>3, <2>2, <2>3 DEF Settled
<1>4. ASSUME f.find = "delete", f.node \in linked PROVE FALSE
  <2>1. /\ f.node \in Node /\ next[f.node][0].mark /\ range[f.node] = f.want
    BY <1>4 DEF Claims, Node
  <2>2. Sought(f, f.node) /\ Looks(f)
    BY <1>2, <1>4, <2>1, ClaimsSought DEF Looks
  <2> QED BY <1>1, <1>4, <2>1, <2>2, FindsSought
<1> QED BY <1>3, <1>4 DEF Claims

(***************************************************************************)
(* Every step leaves every thread what it claims.                          *)
(***************************************************************************)
LEMMA OwnerStep ==
  ASSUME ProperUse, IInv, IInv', MarkInv, LevelInv, OwnerInv,
         NEW t \in Threads, NEW p \in Labels, NEW f \in Frames,
         p = pc[t], f = frame[t], FrameOK(p, f),
         NEW q \in Labels, NEW g \in Frames, Only(t, q, g),
         Moves(t, p, f, q, g)
  PROVE  OwnerInv'
<1>1. /\ Stable /\ KeepsRefs /\ pc'[t] = q /\ frame'[t] = g
      /\ Fits(p, f) /\ Claims(p, f) /\ Near(p, f) /\ p # "wrong"
  BY MovesStable DEF Only, OwnerInv
<1>2. /\ \A n \in Locked : n \in NewNodes /\ n \in Node /\ Published(n)
      /\ \A n \in linked' :
           \/ n \in linked
           \/ ~Published(n) /\ p = "link" /\ n = f.node /\ LinksBottom(f, q, g)
  BY MovesLinked
<1>3. p = "delete" => f.find = "exact" /\ Target(p, f, f.node)
  BY <1>1 DEF Fits, Claims, Target, Deletes
<1>4. ASSUME NEW n \in Node, Unmarked(n),
             p = "delete" /\ Starts(f, "delete", g) => f.node # n
      PROVE  Unmarked(n)' /\ range'[n] = range[n] /\ Published(n)
  <2>1. Unmarked(n)'
    BY <1>4, MovesUnmark
  <2>2. Published(n)
    BY <1>2, <1>4 DEF Unmarked
  <2> QED BY <1>1, <2>1, <2>2 DEF Stable
<1>5. ASSUME NEW u \in Threads, NEW h \in Frames, h = frame'[u], Granted(h)
      PROVE  \/ /\ Granted(frame[u]) /\ frame[u].node = h.node
                /\ frame[u].want = h.want
             \/ u = t /\ p = "link" /\ LinksBottom(f, q, g)
  <2>1. CASE u = t
    BY <1>1, <1>5, <2>1, MovesGranted
  <2>2. CASE u # t
    BY <1>5, <2>2 DEF Only
  <2> QED BY <2>1, <2>2
<1>6. ASSUME NEW n \in Node, Published(n), Unclaimed(n),
             owned' = owned \/ (p = "count" /\ owned' = owned \cup {f.node})
      PROVE  Unclaimed(n)'
  <2>1. n \notin owned'
    <3>1. p = "count" => Granted(f)
      BY <1>1 DEF Fits
    <3> QED BY <1>6, <3>1 DEF Unclaimed
  <2>2. ASSUME NEW u \in Threads, Granted(frame'[u]) PROVE frame'[u].node # n
    <3>1. PICK h \in Frames : h = frame'[u]
      BY DEF IInv, TypeOK
    <3>2. CASE Granted(frame[u]) /\ frame[u].node = h.node
      BY <1>6, <3>1, <3>2 DEF Unclaimed
    <3>3. CASE u = t /\ LinksBottom(f, q, g)
      BY <1>1, <1>6, <3>3 DEF LinksBottom
    <3> QED BY <1>5, <2>2, <3>1, <3>2, <3>3
  <2> QED BY <2>1, <2>2 DEF Unclaimed
<1>7. BeginsRelease(p, q, g) =>
        \E n \in owned : /\ range[n] = g.want /\ owned' = owned \ {n}
                         /\ n \in Node
  BY DEF BeginsRelease, ProperUse, IInv, TypeOK, Node
<1>8. ASSUME NEW n \in owned' PROVE Unmarked(n)'
  <2>1. n \in Node
    BY DEF IInv, TypeOK, Node
  <2>2. CASE n \in owned
    <3>1. Unmarked(n) /\ (p = "delete" => f.node # n)
      BY <1>3, <2>2 DEF OwnerInv, Target, Unclaimed
    <3> QED BY <1>4, <2>1, <3>1
  <2>3. CASE p = "count" /\ n = f.node
    <3>1. Unmarked(n)
      BY <1>1, <2>3 DEF Fits, Claims
    <3> QED BY <1>4, <2>1, <2>3, <3>1
  <2> QED BY <2>2, <2>3, <1>7, MovesOwned
<1>a. ASSUME NEW n \in Locked' PROVE range'[n] \in Requests
  <2>1. n \in linked' /\ n \in Node /\ n \notin {head, tail}
    BY DEF IInv, TypeOK, Locked
  <2>2. CASE n \in linked
    <3>1. range[n] \in Requests /\ Published(n)
      BY <1>2, <2>1, <2>2 DEF OwnerInv, Locked
    <3> QED BY <1>1, <2>1, <3>1 DEF Stable
  <2>3. CASE p = "link" /\ n = f.node /\ LinksBottom(f, q, g)
    <3>1. range'[n] = f.want /\ f.want \in Requests
      BY <2>1, <2>3 DEF LinksBottom, FrameOK
    <3> QED BY <3>1
  <2> QED BY <1>2, <2>1, <2>2, <2>3
<1>9. ASSUME NEW n \in Locked', next'[n][0].mark
      PROVE  \E u \in Threads : frame'[u].find = "delete" /\ frame'[u].node = n
  <2>0. n \in Node
    BY DEF IInv, TypeOK, Locked
  <2>1. CASE n \in Locked /\ next[n][0].mark
    <3>1. PICK u \in Threads : frame[u].find = "delete" /\ frame[u].node = n
      BY <2>1 DEF OwnerInv
    <3>2. CASE u # t
      BY <3>1, <3>2 DEF Only
    <3>3. CASE u = t
      <4>1. f.find = "delete" /\ f.node = n
        BY <3>1, <3>3
      <4>2. p # "uncount"
        BY <1>1, <2>1, <4>1 DEF Claims, Locked
      <4> QED BY <1>1, <4>1, <4>2, MovesDelete
    <3> QED BY <3>2, <3>3
  <2>2. CASE f.node = n /\ Starts(f, "delete", g)
    BY <1>1, <2>2 DEF Starts
  <2> QED BY <1>9, <2>0, <2>1, <2>2, MovesUnmark
<1>10. ASSUME NEW u \in Threads, u # t
       PROVE  /\ pc'[u] # "wrong" /\ Fits(pc'[u], frame'[u])
              /\ Claims(pc[u], frame[u])' /\ Near(pc[u], frame[u])'
  <2>1. PICK x \in Labels, h \in Frames : x = pc[u] /\ h = frame[u]
    BY ThreadFacts
  <2>2. /\ FrameOK(x, h) /\ Fits(x, h) /\ Claims(x, h) /\ Near(x, h)
        /\ x # "wrong" /\ pc'[u] = x /\ frame'[u] = h
    BY <1>10, <2>1, ThreadFacts DEF OwnerInv, Only
  <2>3. ASSUME Granted(h)
        PROVE  (Unmarked(h.node) /\ h.node \notin owned
                /\ range[h.node] = h.want)'
    <3>1. /\ Unmarked(h.node) /\ h.node \notin owned
          /\ range[h.node] = h.want /\ h.node \in Node
      BY <2>2, <2>3 DEF Claims, Frames
    <3>2. p = "delete" => f.node # h.node
      BY <1>3, <2>1, <2>3 DEF Target, Unclaimed
    <3>3. p = "count" => f.node # h.node
      BY <1>1, <1>10, <2>1, <2>3 DEF Fits, LevelInv
    <3>4. h.node \notin owned'
      BY <1>7, <3>1, <3>3, MovesOwned
    <3> QED BY <1>4, <3>1, <3>2, <3>4
  <2>4. ASSUME h.find = "exact" PROVE \E n \in Node : Target(x, h, n)'
    <3>1. PICK n \in Node : Target(x, h, n)
      BY <2>2, <2>4 DEF Claims
    <3>2. p = "delete" => f.node # n
      BY <1>3, <1>10, <2>1, <2>4, <3>1 DEF OwnerInv, Target
    <3>3. Unmarked(n)' /\ range'[n] = range[n] /\ Published(n)
      BY <1>4, <3>1, <3>2 DEF Target
    <3>4. CASE BeginsRelease(p, q, g)
      <4>1. owned' \subseteq owned
        BY <1>7, <3>4
      <4>2. \A v \in Threads : Granted(frame'[v]) => Granted(frame[v])
                                  /\ frame'[v].node = frame[v].node
        <5>1. ~Granted(g)
          BY <3>4 DEF BeginsRelease, Granted
        <5> QED BY <1>1, <5>1 DEF Only
      <4>3. Unclaimed(n)'
        BY <3>1, <4>1, <4>2 DEF Target, Unclaimed
      <4> QED BY <3>1, <3>3, <4>3 DEF Target
    <3>5. CASE owned' = owned \/ (p = "count" /\ owned' = owned \cup {f.node})
      <4>1. Unclaimed(n)'
        BY <1>6, <3>1, <3>3, <3>5 DEF Target
      <4> QED BY <3>1, <3>3, <4>1 DEF Target
    <3> QED BY <3>4, <3>5, MovesOwned
  <2>5. ASSUME h.find = "delete"
        PROVE  /\ h.node \in NewNodes /\ next'[h.node][0].mark
               /\ range'[h.node] = h.want
               /\ x = "uncount" => h.node \notin linked'
               /\ h.node \in linked' => h.node \in linked
    <3>1. /\ h.node \in NewNodes /\ h.node \in Node /\ next[h.node][0].mark
          /\ range[h.node] = h.want /\ 0 \in Levels
          /\ x = "uncount" => h.node \notin linked
      BY <2>2, <2>5, LevelAssumption DEF Claims, Node, Levels
    <3>2. Published(h.node)
      BY <3>1 DEF IInv, ListInv, Ends
    <3>3. next'[h.node][0] = next[h.node][0] /\ range'[h.node] = range[h.node]
      BY <1>1, <3>1, <3>2 DEF Stable
    <3> QED BY <1>2, <3>1, <3>2, <3>3
  <2>6. Claims(x, h)'
    BY <2>3, <2>4, <2>5 DEF Claims
  <2>7. Near(x, h)'
    <3>1. x \in Searching => HasLevel(h.pred, 0) /\ h.pred # tail
      BY <2>2, LevelAssumption DEF FrameOK, Searches, HasLevel, Levels, IInv,
                                   TypeOK, Frames
    <3>2. x \in {"succ", "snip"} => HasLevel(h.curr, h.lvl)
      BY <2>2 DEF FrameOK
    <3>3. x \in Searching => h.want \in Requests
      BY <2>2 DEF FrameOK, Searching
    <3>4. CASE x \in Searching
      <4>1. Looks(h)' => \E n \in Node : Sought(h, n)'
        BY <2>6, <3>3, <3>4, ClaimsSoughtNext
      <4> QED BY <1>1, <2>2, <2>5, <3>1, <3>2, <4>1, StableNear
    <3>5. CASE x \notin Searching
      BY <3>5 DEF Near
    <3> QED BY <3>4, <3>5
  <2>8. Claims(pc[u], frame[u])' /\ Near(pc[u], frame[u])'
    BY <2>2, <2>6, <2>7
  <2> QED BY <2>2, <2>8
<1>11. Fits(q, g)
  BY <1>1, MovesFits
<1>12. q # "wrong"
  <2> SUFFICES ASSUME q = "wrong" PROVE FALSE
    OBVIOUS
  <2>1. g.find = "exact" /\ ~BeginsRelease(p, q, g)
    BY <1>11 DEF Fits, BeginsRelease
  <2>2. CASE f.find = "exact" /\ p = "recheck" /\ next[f.node][0].mark
    BY <1>1, <2>2 DEF Claims, Target, Unmarked, Deletes
  <2>3. CASE f.find = "exact" /\ Ends0(p, f, q, g)
    BY <1>1, <2>3, SearchEnds
  <2> QED BY <1>1, <2>1, <2>2, <2>3, MovesExact
<1>13. ASSUME Granted(g)
       PROVE  (Unmarked(g.node) /\ g.node \notin owned
               /\ range[g.node] = g.want)'
  <2>1. CASE Granted(f) /\ f.node = g.node /\ f.want = g.want
    <3>1. /\ Unmarked(g.node) /\ g.node \notin owned
          /\ range[g.node] = g.want /\ g.node \in Node
      BY <1>1, <2>1 DEF Claims, Frames
    <3>2. p # "delete" /\ ~BeginsRelease(p, q, g) /\ ~Returns(t, p, f, q, g)
      BY <1>1, <1>13, <2>1 DEF Fits, Deletes, Granted, BeginsRelease, Returns,
                               Rest
    <3>3. g.node \notin owned'
      BY <3>1, <3>2, MovesOwned
    <3> QED BY <1>4, <3>1, <3>2, <3>3
  <2>2. CASE p = "link" /\ LinksBottom(f, q, g)
    <3>1. /\ g.node = f.node /\ g.want = f.want /\ f.node \in NewNodes
          /\ f.node \in Node /\ ~Published(f.node) /\ 0 \in Levels
      BY <2>2, LevelAssumption DEF LinksBottom, Node, Levels
    <3>2. \/ next'[f.node][0] = Pack(f.succs[0], FALSE)
          \/ next'[f.node][0] = Pack(Null, FALSE)
      BY <2>2, <3>1 DEF LinksBottom
    <3>3. ~next'[f.node][0].mark
      BY <3>2 DEF Pack
    <3>4. f.node \in Locked' /\ range'[f.node] = f.want
      BY <2>2, <3>1, NodeAssumption DEF LinksBottom, Locked
    <3>5. f.node \notin owned /\ owned' = owned
      <4>1. f.node \notin owned
        BY <1>2, <3>1 DEF OwnerInv, Unmarked
      <4>2. ~BeginsRelease(p, q, g) /\ p # "count"
        BY <2>2 DEF BeginsRelease
      <4> QED BY <4>1, <4>2, MovesOwned
    <3> QED BY <3>1, <3>3, <3>4, <3>5 DEF Unmarked
  <2> QED BY <1>1, <1>5, <1>13, <2>1, <2>2
<1>14. ASSUME g.find = "exact"
       PROVE  \E n \in Node :
                /\ Target(q, g, n)' /\ Unmarked(n) /\ range[n] = g.want
                /\ (n \in owned \/ f.find = "exact")
                /\ f.find = "exact" => f.want = g.want
  <2>1. CASE BeginsRelease(p, q, g)
    <3>1. PICK n \in owned : /\ range[n] = g.want /\ owned' = owned \ {n}
                             /\ n \in Node
      BY <1>7, <2>1
    <3>2. Unmarked(n) /\ p # "delete" /\ q \notin Deletes
          /\ f.find # "exact" /\ ~Granted(g)
      BY <1>1, <1>14, <2>1 DEF OwnerInv, BeginsRelease, Fits, Deletes, Granted
    <3>3. Unmarked(n)' /\ range'[n] = range[n]
      BY <1>4, <3>1, <3>2
    <3>4. ASSUME NEW v \in Threads, Granted(frame'[v]) PROVE frame'[v].node # n
      <4>1. v # t /\ frame'[v] = frame[v]
        BY <1>1, <3>2, <3>4 DEF Only
      <4> QED BY <3>4, <4>1 DEF OwnerInv, Claims
    <3>5. Unclaimed(n)'
      BY <3>1, <3>4 DEF Unclaimed
    <3>6. Target(q, g, n)'
      BY <3>1, <3>2, <3>3, <3>5 DEF Target
    <3> QED BY <3>1, <3>2, <3>6
  <2>2. CASE /\ f.find = "exact" /\ g.want = f.want
             /\ UNCHANGED <<range, owned>>
             /\ q \in Deletes => \/ p \in Deletes /\ g.node = f.node
                                 \/ Ends0(p, f, q, g)
    <3>1. PICK n \in Node : Target(p, f, n)
      BY <1>1, <2>2 DEF Claims
    <3>2. Unmarked(n)' /\ range'[n] = range[n] /\ Published(n)
      BY <1>4, <1>14, <3>1 DEF Target, Starts
    <3>3. Unclaimed(n)'
      BY <1>6, <2>2, <3>1, <3>2 DEF Target
    <3>4. q \in Deletes => g.node = n
      BY <1>1, <2>2, <3>1, SearchEnds DEF Target
    <3>5. Target(q, g, n)'
      BY <2>2, <3>1, <3>2, <3>3, <3>4 DEF Target
    <3> QED BY <2>2, <3>1, <3>5 DEF Target
  <2> QED BY <1>1, <1>14, <2>1, <2>2, MovesExact
<1>15. ASSUME g.find = "delete"
       PROVE  /\ g.node \in NewNodes /\ g.node \in Node
              /\ next'[g.node][0].mark /\ range[g.node] = g.want
              /\ range'[g.node] = g.want /\ Published(g.node)
              /\ q = "uncount" => g.node \notin linked'
              /\ g.node = f.node
              /\ f.find = "delete" \/ Marks(f.node, 0)
  <2>1. /\ g.node = f.node /\ g.want = f.want /\ range' = range
        /\ \/ f.find = "delete"
           \/ /\ p = "delete" /\ q = "curr" /\ Starts(f, "delete", g)
              /\ Marks(f.node, 0)
        /\ q = "uncount" => Ends0(p, f, q, g)
    BY <1>1, <1>15, MovesDelete
  <2>2. CASE f.find = "delete"
    <3>1. /\ f.node \in NewNodes /\ f.node \in Node /\ next[f.node][0].mark
          /\ range[f.node] = f.want /\ 0 \in Levels
      BY <1>1, <2>2, LevelAssumption DEF Claims, Node, Levels
    <3>2. Published(f.node)
      BY <3>1 DEF IInv, ListInv, Ends
    <3>3. next'[f.node][0] = next[f.node][0]
      BY <1>1, <3>1 DEF Stable
    <3>4. q = "uncount" => f.node \notin linked /\ linked' = linked
      BY <1>1, <2>1, <2>2, SearchEnds DEF Ends0, Quiet
    <3> QED BY <2>1, <2>2, <3>1, <3>2, <3>3, <3>4
  <2>3. CASE p = "delete" /\ q = "curr" /\ Marks(f.node, 0)
    <3>1. /\ Unmarked(f.node) /\ range[f.node] = f.want
          /\ f.node \in NewNodes /\ f.node \in Node /\ Published(f.node)
      BY <1>2, <1>3, <2>3 DEF Target, Unmarked
    <3>a. 0 \in Levels
      BY LevelAssumption DEF Levels
    <3>2. next'[f.node][0] = Pack(next[f.node][0].ref, TRUE)
      BY <2>3, <3>1, <3>a DEF Marks, Writes
    <3>3. next'[f.node][0].mark
      BY <3>2 DEF Pack
    <3> QED BY <2>1, <2>3, <3>1, <3>3
  <2> QED BY <2>1, <2>2, <2>3
<1>16. Claims(q, g)'
  BY <1>13, <1>14, <1>15 DEF Claims
<1>17. Near(q, g)'
  <2>1. CASE q \notin Searching
    BY <2>1 DEF Near
  <2>2. CASE q \in Searching
    <3>1. g.want \in Requests
      <4>1. FrameOK(q, g)'
        BY <1>1 DEF IInv
      <4> QED BY <2>2, <4>1 DEF FrameOK, Searching
    <3>2. p \in Searching /\ Looks(f) => \E n \in Node : Sought(f, n)
      <4>1. p \in Searching => f.want \in Requests
        BY DEF FrameOK, Searching
      <4> QED BY <1>1, <4>1, ClaimsSought
    <3>3. Looks(g) => \E n \in Node : Sought(g, n)
      <4>1. CASE g.find = "exact"
        BY <1>14, <3>1, <4>1, ClaimsSought DEF Unmarked, Locked
      <4>2. CASE g.find = "delete" /\ g.node \in linked
        BY <1>15, <3>1, <4>2, ClaimsSought
      <4> QED BY <4>1, <4>2 DEF Looks
    <3>4. /\ Near(q, g) /\ HasLevel(g.pred, 0) /\ g.pred # tail
          /\ q \in {"succ", "snip"} => HasLevel(g.curr, g.lvl)
      BY <1>1, <2>2, <3>2, <3>3, MovesNear
    <3>5. Looks(g)' => \E n \in Node : Sought(g, n)'
      BY <1>16, <3>1, ClaimsSoughtNext
    <3>6. g.find = "delete" /\ g.node \in linked' => g.node \in linked
      BY <1>2, <1>15
    <3> QED BY <1>1, <3>4, <3>5, <3>6, StableNear
  <2> QED BY <2>1, <2>2
<1>18. ASSUME NEW u \in Threads
       PROVE  /\ pc'[u] # "wrong" /\ Fits(pc'[u], frame'[u])
              /\ Claims(pc[u], frame[u])' /\ Near(pc[u], frame[u])'
  <2>1. CASE u = t
    <3>1. Claims(pc[u], frame[u])' /\ Near(pc[u], frame[u])'
      BY <1>1, <1>16, <1>17, <2>1
    <3> QED BY <1>1, <1>11, <1>12, <2>1, <3>1
  <2> QED BY <1>10, <2>1
<1>19. ASSUME NEW u \in Threads, u # t
       PROVE  /\ g.find = "exact" /\ frame[u].find = "exact"
                   => g.want # frame[u].want
              /\ g.find = "delete" /\ frame[u].find = "delete"
                   => g.node # frame[u].node
  <2>1. ASSUME g.find = "exact", frame[u].find = "exact"
        PROVE  g.want # frame[u].want
    <3>1. PICK n \in Node :
            /\ Unmarked(n) /\ range[n] = g.want
            /\ (n \in owned \/ f.find = "exact")
            /\ f.find = "exact" => f.want = g.want
      BY <1>14, <2>1
    <3>2. PICK m \in Node : /\ Unmarked(m) /\ range[m] = frame[u].want
                            /\ m \notin owned
      BY <2>1 DEF OwnerInv, Claims, Target, Unclaimed
    <3>3. CASE f.find = "exact"
      BY <1>19, <2>1, <3>1, <3>3 DEF OwnerInv
    <3>4. CASE n \in owned
      <4>1. n # m /\ n \in linked /\ m \in linked
        BY <3>1, <3>2, <3>4 DEF Unmarked, Locked
      <4>2. Start(n) # Start(m)
        BY <4>1, StartsDiffer
      <4> QED BY <3>1, <3>2, <4>2 DEF Start
    <3> QED BY <3>1, <3>3, <3>4
  <2>2. ASSUME g.find = "delete", frame[u].find = "delete"
        PROVE  g.node # frame[u].node
    <3>1. next[frame[u].node][0].mark
      BY <2>2 DEF OwnerInv, Claims
    <3>2. CASE f.find = "delete"
      <4>1. frame[t].find = "delete" /\ g.node = frame[t].node
        BY <1>15, <2>2, <3>2
      <4>2. frame[t].node # frame[u].node
        BY <1>19, <2>2, <4>1 DEF OwnerInv
      <4> QED BY <4>1, <4>2
    <3>3. CASE Marks(f.node, 0)
      <4>1. ~next[f.node][0].mark
        BY <3>3 DEF Marks
      <4> QED BY <1>15, <2>2, <3>1, <4>1
    <3> QED BY <1>15, <2>2, <3>2, <3>3
  <2> QED BY <2>1, <2>2
<1>20. ASSUME NEW u \in Threads, NEW v \in Threads, u # v
       PROVE  /\ frame'[u].find = "exact" /\ frame'[v].find = "exact"
                   => frame'[u].want # frame'[v].want
              /\ frame'[u].find = "delete" /\ frame'[v].find = "delete"
                   => frame'[u].node # frame'[v].node
  <2>1. CASE u = t
    BY <1>1, <1>19, <1>20, <2>1 DEF Only
  <2>2. CASE v = t
    BY <1>1, <1>19, <1>20, <2>2 DEF Only
  <2>3. CASE u # t /\ v # t
    BY <1>20, <2>3 DEF Only, OwnerInv
  <2> QED BY <2>1, <2>2, <2>3
<1> QED BY <1>8, <1>a, <1>9, <1>18, <1>20 DEF OwnerInv

(***************************************************************************)
(* Every step keeps the owners' rights.                                    *)
(***************************************************************************)
LEMMA OwnerNext ==
  ProperUse /\ IInv /\ IInv' /\ MarkInv /\ LevelInv /\ OwnerInv /\ [Next]_vars
    => OwnerInv'
<1> SUFFICES ASSUME ProperUse, IInv, IInv', MarkInv, LevelInv, OwnerInv,
                    [Next]_vars
             PROVE  OwnerInv'
  OBVIOUS
<1>1. CASE Next
  BY <1>1, StepMoves, OwnerStep
<1>2. CASE UNCHANGED vars
  BY <1>2 DEF vars, OwnerInv, Unmarked, Locked, Fits, Claims, Target,
              Unclaimed, Near, Looks, Start, End, Placing, Granted
<1> QED BY <1>1, <1>2

(***************************************************************************)
(* At first nobody owns anything.                                          *)
(***************************************************************************)
LEMMA OwnerInit == Init => OwnerInv
<1> SUFFICES ASSUME Init PROVE OwnerInv
  OBVIOUS
<1>1. \A t \in Threads : pc[t] = "idle" /\ frame[t].find = "none"
  BY DEF Init, Rest
<1>2. owned = {} /\ Locked = {}
  BY DEF Init, Locked
<1> QED BY <1>1, <1>2 DEF OwnerInv, Fits, Claims, Near, Searching, Granted,
                          Deletes

(***************************************************************************)
(* In every reachable state of src/src/v0, with clients that use it        *)
(* properly, every node that is owned, being linked or being released      *)
(* belongs to one owner or one call.                                       *)
(***************************************************************************)
THEOREM OwnersInvariant ==
  ASSUME ProperUse
  PROVE  Spec => []OwnerInv
<1>1. ProperUse /\ BelowMax
  BY ProperBelowMax
<1>2. Init => OwnerInv
  BY OwnerInit
<1>3. IInv /\ IInv' /\ MarkInv /\ LevelInv /\ OwnerInv /\ [Next]_vars
        => OwnerInv'
  BY <1>1, OwnerNext
<1> QED BY <1>1, <1>2, <1>3, Invariance, MarksInvariant, LevelsInvariant,
           PTL
        DEF Spec

(***************************************************************************)
(* releaseLock of src/src/v0 never reports wrong usage to a client that    *)
(* releases what it owns.                                                  *)
(***************************************************************************)
THEOREM OwnersCanRelease ==
  ASSUME ProperUse
  PROVE  Spec => []OwnerReleases
<1>1. OwnerInv => OwnerReleases
  BY DEF OwnerInv, OwnerReleases
<1> QED BY <1>1, OwnersInvariant, PTL

(***************************************************************************)
(* Every node of the list but the head has a predecessor in it: the node   *)
(* that starts last among those that start before.                         *)
(***************************************************************************)
LEMMA Predecessor ==
  ASSUME IInv, OwnerInv, NEW n \in Locked
  PROVE  \E m \in linked : next[m][0].ref = n
<1> DEFINE Below == {m \in linked : Start(m) < Start(n)}
           Gaps == {Start(n) - Start(m) : m \in Below}
<1>1. n \in linked /\ n # head /\ n # tail /\ range[n] \in Requests
  BY DEF Locked, OwnerInv
<1>2. Start(n) \in Int /\ Min <= Start(n) /\ Start(n) < Max /\ Max \in Int
  <2>1. Start(n) \in Int /\ Min <= Start(n)
    BY <1>1, LinkedFacts
  <2> QED BY <1>1, <2>1, RequestAssumption DEF Start, IInv, BelowMax
<1>3. head \in Below
  <2>1. head \in linked /\ Start(head) = Min
    BY <1>1, HeadFacts
  <2>2. Start(head) # Start(n)
    BY <1>1, <2>1, StartsDiffer
  <2> QED BY <1>2, <2>1, <2>2, RequestAssumption
<1>4. \A m \in Below : Start(m) \in Int
  BY LinkedFacts
<1>5. Gaps \in SUBSET Nat /\ Gaps # {}
  <2>1. \A m \in Below : Start(n) - Start(m) \in Nat
    BY <1>2, <1>4
  <2> QED BY <1>3, <2>1
<1>6. PICK d \in Gaps : \A e \in Gaps : d <= e
  BY <1>5, LeastNumber
<1>7. PICK m \in Below : d = Start(n) - Start(m)
  BY <1>6
<1>8. \A k \in Below : Start(k) <= Start(m)
  BY <1>2, <1>4, <1>6, <1>7
<1>9. m # tail
  <2>1. range[tail].start = Max
    BY DEF IInv, ListInv, Ends
  <2> QED BY <1>2, <1>7, <2>1 DEF Start
<1>10. /\ next[m][0].ref \in linked /\ End(m) < Start(next[m][0].ref)
       /\ Start(n) <= Start(m) \/ Start(next[m][0].ref) <= Start(n)
  BY <1>1, <1>7, <1>9 DEF IInv, ListInv, OrderedChain
<1>11. PICK s \in linked : s = next[m][0].ref
  BY <1>10
<1>12. /\ Start(s) \in Int /\ Start(m) \in Int /\ End(m) \in Int
       /\ Start(m) <= End(m)
  BY <1>7, LinkedFacts
<1>13. Start(s) <= Start(n) /\ Start(m) < Start(s)
  BY <1>2, <1>7, <1>10, <1>11, <1>12
<1>14. s \notin Below
  BY <1>8, <1>12, <1>13
<1>15. Start(s) = Start(n)
  BY <1>2, <1>12, <1>13, <1>14
<1>16. s = n
  BY <1>1, <1>15, StartsDiffer
<1> QED BY <1>7, <1>11, <1>16

(***************************************************************************)
(* What tryLock of src/src/v0 has granted stays in the list, unmarked,     *)
(* until its owner releases it.                                            *)
(***************************************************************************)
THEOREM OwnersKeep ==
  ASSUME ProperUse
  PROVE  Spec => []OwnersProtected
<1>1. IInv /\ OwnerInv => OwnersProtected
  BY Predecessor DEF OwnersProtected, OwnerInv, Unmarked
<1>2. BelowMax
  BY ProperBelowMax
<1> QED BY <1>1, <1>2, Invariance, OwnersInvariant, PTL

-----------------------------------------------------------------------------
(***************************************************************************)
(* Refinement.  The call of a thread, as the abstract range lock sees it.  *)
(***************************************************************************)
CallShape ==
  \A t \in Threads : LET f == frame[t] IN
    /\ f.find = "none" => CallOf(t) = [op |-> "idle"]
    /\ Placing(f) => CallOf(t) = [op |-> "tryLock", range |-> f.want,
                                  contended |-> contended[t]]
    /\ Granted(f) => CallOf(t) = [op |-> "granted", range |-> f.want]
    /\ Looks(f) => CallOf(t) = [op |-> "releaseLock", range |-> f.want]
    /\ f.find = "delete" /\ f.node \notin linked =>
         CallOf(t) = [op |-> "released", range |-> f.want]

(***************************************************************************)
(* A call is in one of these five stages.                                  *)
(***************************************************************************)
LEMMA CallShapes == IInv => CallShape
<1> SUFFICES ASSUME IInv, NEW t \in Threads
             PROVE  LET f == frame[t] IN
    /\ f.find = "none" => CallOf(t) = [op |-> "idle"]
    /\ Placing(f) => CallOf(t) = [op |-> "tryLock", range |-> f.want,
                                  contended |-> contended[t]]
    /\ Granted(f) => CallOf(t) = [op |-> "granted", range |-> f.want]
    /\ Looks(f) => CallOf(t) = [op |-> "releaseLock", range |-> f.want]
    /\ f.find = "delete" /\ f.node \notin linked =>
         CallOf(t) = [op |-> "released", range |-> f.want]
  BY DEF CallShape
<1>1. frame[t].at \in Nat
  BY ThreadFacts, LevelAssumption DEF Frames
<1> QED BY <1>1 DEF CallOf, Placing, Granted, Looks

(***************************************************************************)
(* The same after a step.                                                  *)
(***************************************************************************)
LEMMA CallShapesNext == IInv' => CallShape'
  BY CallShapes, PTL

(***************************************************************************)
(* The mapped variables.                                                   *)
(***************************************************************************)
Held == {range[n] : n \in Locked}
Owned == {range[n] : n \in owned}
Calls == [t \in Threads |-> CallOf(t)]

(***************************************************************************)
(* The call of t changes, and no other.                                    *)
(***************************************************************************)
LEMMA CallsUpdate ==
  ASSUME NEW t \in Threads, NEW v, CallOf(t)' = v,
         \A u \in Threads \ {t} : CallOf(u)' = CallOf(u)
  PROVE  Calls' = [Calls EXCEPT ![t] = v] /\ Calls[t] = CallOf(t)
  BY DEF Calls

(***************************************************************************)
(* If no call, lock or owner changes, neither does the abstract lock.      *)
(***************************************************************************)
LEMMA SameCalls ==
  ASSUME Held' = Held, Owned' = Owned,
         \A u \in Threads : CallOf(u)' = CallOf(u)
  PROVE  UNCHANGED Abstract!lockVars
  BY DEF Abstract!lockVars, Held, Owned

(***************************************************************************)
(* A step of t that keeps the list, and of t what its client sees.         *)
(***************************************************************************)
LEMMA StutterCalls ==
  ASSUME NEW t \in Threads, NEW q, NEW g, Only(t, q, g),
         UNCHANGED <<range, linked, owned, contended>>,
         CallOf(t)' = CallOf(t)
  PROVE  UNCHANGED Abstract!lockVars
<1>1. Held' = Held /\ Owned' = Owned
  BY DEF Held, Owned, Locked
<1>2. \A u \in Threads \ {t} : CallOf(u)' = CallOf(u)
  BY DEF Only, CallOf
<1> QED BY <1>1, <1>2, SameCalls

(***************************************************************************)
(* Distinct locked nodes have distinct ranges.                             *)
(***************************************************************************)
LEMMA DistinctRanges ==
  ASSUME IInv, NEW m \in Locked, NEW n \in Locked, range[m] = range[n]
  PROVE  m = n
  BY StartsDiffer DEF Locked, Start

(***************************************************************************)
(* The beginnings of the two calls.                                        *)
(***************************************************************************)
LEMMA BeginRefines ==
  ASSUME ProperUse, IInv, IInv', OwnerInv, NEW t \in Threads,
         NEW p \in Labels, NEW f \in Frames, p = pc[t], f = frame[t],
         NEW q \in Labels, NEW g \in Frames, Only(t, q, g)
  PROVE  /\ BeginsTryLock(t, p, q, g) => Abstract!TryLock(t, g.want)
         /\ BeginsRelease(p, q, g) => Abstract!ReleaseLock(t, g.want)
<1>1. CallShape /\ CallShape' /\ frame'[t] = g /\ TypeOK
  BY CallShapes, CallShapesNext DEF Only, IInv
<1>2. p = "idle" => CallOf(t) = [op |-> "idle"]
  BY <1>1 DEF OwnerInv, Fits, CallShape
<1>3. ASSUME BeginsTryLock(t, p, q, g) PROVE Abstract!TryLock(t, g.want)
  <2>1. Held' = Held /\ Owned' = Owned
    BY <1>3 DEF BeginsTryLock, Quiet, Held, Owned, Locked
  <2>2. contended'[t] = \E h \in Held : ClosedOverlap(h, g.want)
    BY <1>1, <1>3 DEF BeginsTryLock, Held, TypeOK
  <2>3. CallOf(t)' = [op |-> "tryLock", range |-> g.want,
                      contended |-> contended'[t]]
    BY <1>1, <1>3 DEF BeginsTryLock, CallShape, Placing
  <2>4. \A u \in Threads \ {t} : CallOf(u)' = CallOf(u)
    <3>1. \A u \in Threads \ {t} : contended'[u] = contended[u]
      BY <1>1, <1>3 DEF BeginsTryLock, TypeOK
    <3> QED BY <1>3, <3>1 DEF Only, CallOf, BeginsTryLock, Quiet
  <2>5. CallOf(t) = [op |-> "idle"]
    BY <1>2, <1>3 DEF BeginsTryLock
  <2> QED BY <2>1, <2>2, <2>3, <2>4, <2>5
          DEF Abstract!TryLock, Abstract!Idle, Held, Owned
<1>4. ASSUME BeginsRelease(p, q, g) PROVE Abstract!ReleaseLock(t, g.want)
  <2>1. PICK n \in owned : range[n] = g.want /\ owned' = owned \ {n}
    BY <1>4 DEF BeginsRelease, ProperUse
  <2>2. owned \subseteq Locked
    BY DEF OwnerInv, Unmarked
  <2>3. range' = range
    BY <1>4 DEF BeginsRelease, Quiet
  <2>4. Owned' = Owned \ {g.want} /\ g.want \in Owned
    BY <2>1, <2>2, <2>3, DistinctRanges DEF Owned
  <2>5. Held' = Held
    BY <1>4 DEF BeginsRelease, Quiet, Held, Locked
  <2>6. CallOf(t)' = [op |-> "releaseLock", range |-> g.want]
    BY <1>1, <1>4 DEF BeginsRelease, CallShape, Looks
  <2>7. \A u \in Threads \ {t} : CallOf(u)' = CallOf(u)
    BY <1>4 DEF Only, CallOf, BeginsRelease, Quiet
  <2>8. CallOf(t) = [op |-> "idle"]
    BY <1>2, <1>4 DEF BeginsRelease
  <2> QED BY <2>4, <2>5, <2>6, <2>7, <2>8
          DEF Abstract!ReleaseLock, Abstract!Idle, Held, Owned
<1> QED BY <1>3, <1>4

(***************************************************************************)
(* The returns of the two calls.                                           *)
(***************************************************************************)
LEMMA ReturnRefines ==
  ASSUME IInv, IInv', OwnerInv, ContentionInv, NEW t \in Threads,
         NEW p \in Labels, NEW f \in Frames, p = pc[t], f = frame[t],
         NEW q \in Labels, NEW g \in Frames, Only(t, q, g),
         Returns(t, p, f, q, g)
  PROVE  Abstract!Refuse(t) \/ Abstract!Acquired(t) \/ Abstract!Released(t)
<1>1. /\ CallShape /\ CallShape' /\ frame'[t] = g /\ TypeOK
      /\ Fits(p, f) /\ Claims(p, f) /\ p # "wrong"
  BY CallShapes, CallShapesNext DEF Only, IInv, OwnerInv
<1>2. CallOf(t)' = Abstract!Idle
  BY <1>1 DEF CallShape, Returns, Rest, Abstract!Idle
<1>3. \A u \in Threads \ {t} : CallOf(u)' = CallOf(u)
  <2>1. \A u \in Threads \ {t} : contended'[u] = contended[u]
    BY <1>1 DEF Returns, TypeOK
  <2> QED BY <2>1 DEF Only, CallOf, Returns, Quiet
<1>4. Calls' = [Calls EXCEPT ![t] = Abstract!Idle] /\ Calls[t] = CallOf(t)
  BY <1>2, <1>3, CallsUpdate
<1>5. Held' = Held
  BY DEF Returns, Quiet, Held, Locked
<1>6. CASE p = "found"
  <2>1. Placing(f) /\ contended[t] /\ owned' = owned
    BY <1>1, <1>6 DEF Fits, ContentionInv, Seeks, Returns
  <2>2. Calls[t].op = "tryLock" /\ Calls[t].contended
    BY <1>1, <1>4, <2>1 DEF CallShape
  <2>3. Owned' = Owned
    BY <2>1 DEF Owned, Returns, Quiet
  <2> QED BY <1>4, <1>5, <2>2, <2>3 DEF Abstract!Refuse, Held, Owned, Calls
<1>7. CASE p = "count"
  <2>1. Granted(f) /\ range[f.node] = f.want /\ owned' = owned \cup {f.node}
    BY <1>1, <1>7 DEF Fits, Claims, Returns
  <2>2. Calls[t].op = "granted" /\ Calls[t].range = f.want
    BY <1>1, <1>4, <2>1 DEF CallShape
  <2>3. Owned' = Owned \cup {f.want}
    BY <2>1 DEF Owned, Returns, Quiet
  <2> QED BY <1>4, <1>5, <2>2, <2>3 DEF Abstract!Acquired, Held, Owned, Calls
<1>8. CASE p = "uncount"
  <2>1. f.find = "delete" /\ f.node \notin linked /\ owned' = owned
    BY <1>1, <1>8 DEF Fits, Claims, Returns
  <2>2. Calls[t].op = "released"
    BY <1>1, <1>4, <2>1 DEF CallShape
  <2>3. Owned' = Owned
    BY <2>1 DEF Owned, Returns, Quiet
  <2> QED BY <1>4, <1>5, <2>2, <2>3 DEF Abstract!Released, Held, Owned, Calls
<1> QED BY <1>1, <1>6, <1>7, <1>8 DEF Returns

(***************************************************************************)
(* The compareAndSet of level 0 grants the range.                          *)
(***************************************************************************)
LEMMA LinkRefines ==
  ASSUME IInv, IInv', OwnerInv, NEW t \in Threads,
         NEW p \in Labels, NEW f \in Frames, p = pc[t], f = frame[t],
         FrameOK(p, f), NEW q \in Labels, NEW g \in Frames, Only(t, q, g),
         p = "link", LinksBottom(f, q, g), Announces(t, f), owned' = owned
  PROVE  Abstract!Grant(t)
<1>1. /\ CallShape /\ CallShape' /\ frame'[t] = g /\ TypeOK
      /\ Placing(f) /\ f.want \in Requests
  <2>1. CallShape /\ CallShape' /\ frame'[t] = g /\ TypeOK
    BY CallShapes, CallShapesNext DEF Only, IInv
  <2>2. Placing(f) /\ f.want \in Requests
    BY DEF OwnerInv, Fits, FrameOK
  <2> QED BY <2>1, <2>2
<1>2. /\ g.want = f.want /\ Granted(g) /\ f.node \in NewNodes
      /\ f.node \in Node /\ ~Published(f.node)
      /\ linked' = linked \cup {f.node} /\ range'[f.node] = f.want
      /\ \A m \in Node : m # f.node => range'[m] = range[m]
  BY <1>1 DEF LinksBottom, Placing, Granted, Node
<1>3. Locked' = Locked \cup {f.node} /\ f.node \notin Locked
  <2>1. f.node \notin {head, tail}
    BY <1>2, NodeAssumption
  <2>2. f.node \notin linked
    BY <1>2, LinkedFacts
  <2> QED BY <1>2, <2>1, <2>2 DEF Locked
<1>4. \A n \in Locked : n \in Node /\ n \in linked /\ range'[n] = range[n]
  BY <1>2, <1>3, LinkedFacts DEF Locked
<1>5. Held' = Held \cup {f.want}
  BY <1>2, <1>3, <1>4 DEF Held
<1>6. Owned' = Owned
  <2>1. owned \subseteq Locked
    BY DEF OwnerInv, Unmarked
  <2> QED BY <1>4, <2>1 DEF Owned
<1>7. \A h \in Held : ~ClosedOverlap(h, f.want)
  <2> SUFFICES ASSUME NEW n \in Locked PROVE ~ClosedOverlap(range[n], f.want)
    BY DEF Held
  <2>1. (End(n) < Start(f.node))' \/ (End(f.node) < Start(n))'
    BY <1>2, <1>3, <1>4 DEF IInv, ListInv, Disjoint
  <2>2. range[n].end < f.want.start \/ f.want.end < range[n].start
    BY <1>2, <1>4, <2>1 DEF Start, End
  <2>3. /\ range[n].start \in Int /\ range[n].end \in Int
        /\ f.want.start \in Int /\ f.want.end \in Int
    BY <1>1, <1>4, RequestAssumption DEF TypeOK, RangesOver
  <2> QED BY <2>2, <2>3 DEF ClosedOverlap
<1>8. /\ CallOf(t) = [op |-> "tryLock", range |-> f.want,
                      contended |-> contended[t]]
      /\ CallOf(t)' = [op |-> "granted", range |-> f.want]
  BY <1>1, <1>2 DEF CallShape
<1>9. \A u \in Threads \ {t} :
        CallOf(u)' = IF CallOf(u).op = "tryLock"
                     THEN [CallOf(u) EXCEPT !.contended =
                             @ \/ ClosedOverlap(f.want, CallOf(u).range)]
                     ELSE CallOf(u)
  <2> TAKE u \in Threads \ {t}
  <2>1. PICK x \in Labels, h \in Frames : x = pc[u] /\ h = frame[u]
    BY ThreadFacts
  <2>2. frame'[u] = h /\ Fits(x, h) /\ Claims(x, h) /\ h.at \in Nat
    BY <2>1, LevelAssumption DEF Only, OwnerInv, Frames
  <2>3. CASE Placing(h)
    <3>1. /\ CallOf(u) = [op |-> "tryLock", range |-> h.want,
                          contended |-> contended[u]]
          /\ CallOf(u)' = [op |-> "tryLock", range |-> h.want,
                           contended |-> contended'[u]]
      BY <1>1, <2>1, <2>2, <2>3 DEF CallShape
    <3>2. contended[u] \in BOOLEAN /\ contended'[u] \in BOOLEAN
      BY DEF IInv, TypeOK
    <3>3. contended'[u] = (contended[u] \/ ClosedOverlap(f.want, h.want))
      BY <2>1, <2>3, <3>2 DEF Announces, Placing, ClosedOverlap
    <3> QED BY <3>1, <3>3
  <2>4. CASE h.find = "delete" /\ h.node \in linked
    <3>1. Looks(h) /\ Looks(h)'
      BY <1>2, <2>4 DEF Looks
    <3>2. /\ CallOf(u) = [op |-> "releaseLock", range |-> h.want]
          /\ CallOf(u)' = [op |-> "releaseLock", range |-> h.want]
      BY <1>1, <2>1, <2>2, <3>1 DEF CallShape
    <3> QED BY <3>2
  <2>5. CASE h.find = "delete" /\ h.node \notin linked
    <3>1. next[h.node][0].mark /\ h.node \in Node /\ 0 \in Levels
      BY <2>2, <2>5, LevelAssumption DEF Claims, Frames, Levels
    <3>2. Published(h.node)
      BY <3>1 DEF IInv, ListInv, Ends
    <3>3. h.node \notin linked'
      BY <1>2, <2>5, <3>2
    <3>4. /\ CallOf(u) = [op |-> "released", range |-> h.want]
          /\ CallOf(u)' = [op |-> "released", range |-> h.want]
      BY <1>1, <2>1, <2>2, <2>5, <3>3 DEF CallShape
    <3> QED BY <3>4
  <2>6. CASE h.find = "exact"
    <3>1. Looks(h) /\ Looks(h)'
      BY <2>6 DEF Looks
    <3>2. /\ CallOf(u) = [op |-> "releaseLock", range |-> h.want]
          /\ CallOf(u)' = [op |-> "releaseLock", range |-> h.want]
      BY <1>1, <2>1, <2>2, <3>1 DEF CallShape
    <3> QED BY <3>2
  <2>7. CASE Granted(h)
    <3>1. /\ CallOf(u) = [op |-> "granted", range |-> h.want]
          /\ CallOf(u)' = [op |-> "granted", range |-> h.want]
      BY <1>1, <2>1, <2>2, <2>7 DEF CallShape
    <3> QED BY <3>1
  <2>8. CASE h.find = "none"
    <3>1. CallOf(u) = [op |-> "idle"] /\ CallOf(u)' = [op |-> "idle"]
      BY <1>1, <2>1, <2>2, <2>8 DEF CallShape
    <3> QED BY <3>1
  <2> QED BY <2>2, <2>3, <2>4, <2>5, <2>6, <2>7, <2>8
          DEF Frames, Placing, Granted
<1>10. /\ Calls[t].op = "tryLock" /\ Calls[t].range = f.want
       /\ \A u \in Threads : Calls[u] = CallOf(u)
  BY <1>8 DEF Calls
<1>11. Calls' = [u \in Threads |->
                   IF u = t THEN [op |-> "granted", range |-> Calls[t].range]
                   ELSE IF Calls[u].op = "tryLock"
                        THEN [Calls[u] EXCEPT !.contended =
                                @ \/ ClosedOverlap(Calls[t].range,
                                                   Calls[u].range)]
                        ELSE Calls[u]]
  <2>1. Calls' = [u \in Threads |-> CallOf(u)']
    BY DEF Calls
  <2> QED BY <1>8, <1>9, <1>10, <2>1
<1> QED BY <1>5, <1>6, <1>7, <1>10, <1>11
        DEF Abstract!Grant, Held, Owned, Calls

(***************************************************************************)
(* The snip of level 0 frees the range of the node that is cut out, for    *)
(* the thread that deletes it, whoever does the snip.                      *)
(***************************************************************************)
LEMMA SnipRefines ==
  ASSUME IInv, IInv', OwnerInv, NEW t \in Threads,
         NEW p \in Labels, NEW f \in Frames, p = pc[t], f = frame[t],
         FrameOK(p, f), NEW q \in Labels, NEW g \in Frames, Only(t, q, g),
         p = "snip", Snips(f, q, g), f.lvl = 0,
         UNCHANGED <<range, owned, contended>>
  PROVE  \E u \in Threads : Abstract!Free(u)
<1>1. CallShape /\ CallShape' /\ frame'[t] = g /\ TypeOK
  BY CallShapes, CallShapesNext DEF Only, IInv
<1>2. /\ HasLevel(f.pred, 0) /\ f.pred # tail /\ f.curr \in Node
      /\ next[f.pred][0].ref = f.curr /\ ~next[f.pred][0].mark
      /\ next[f.curr][0].mark /\ linked' = linked \ {f.curr}
      /\ SameSearch(f, g) /\ 0 \in Levels
  BY LevelAssumption DEF FrameOK, Searching, Searches, Snips, Pack, Frames,
                         Levels
<1>3. f.pred \in linked
  BY <1>2 DEF HasLevel, IInv, ListInv, Membership
<1>4. f.curr \in linked /\ End(f.pred) < Start(f.curr)
  BY <1>2, <1>3 DEF IInv, ListInv, OrderedChain
<1>5. f.curr \in Locked
  <2>1. f.curr # tail
    <3>1. next[tail][0] = Pack(Null, FALSE)
      BY <1>2 DEF IInv, ListInv, Ends
    <3>2. ~next[tail][0].mark
      BY <3>1 DEF Pack
    <3> QED BY <1>2, <3>2
  <2>2. Start(head) = Min
    BY DEF IInv, ListInv, Ends, Start
  <2>3. /\ Min <= Start(f.pred) /\ Start(f.pred) <= End(f.pred)
        /\ Start(f.pred) \in Int /\ End(f.pred) \in Int
        /\ Start(f.curr) \in Int /\ Min \in Int
    BY <1>3, <1>4, LinkedFacts, RequestAssumption
  <2>4. f.curr # head
    BY <1>4, <2>2, <2>3
  <2> QED BY <1>4, <2>1, <2>4 DEF Locked
<1>6. PICK u \in Threads : frame[u].find = "delete" /\ frame[u].node = f.curr
  BY <1>2, <1>5 DEF OwnerInv
<1>7. \A v \in Threads : /\ frame'[v].find = frame[v].find
                         /\ frame'[v].node = frame[v].node
                         /\ frame'[v].want = frame[v].want
                         /\ frame'[v].at = frame[v].at
  BY <1>1, <1>2 DEF SameSearch, SameCall, Only
<1>8. PICK w : w = frame[u].want
  OBVIOUS
<1>9. w = range[f.curr]
  BY <1>6, <1>8 DEF OwnerInv, Claims
<1>10. Held' = Held \ {w}
  <2>1. Locked' = Locked \ {f.curr}
    BY <1>2 DEF Locked
  <2> QED BY <1>5, <1>9, <2>1, DistinctRanges DEF Held
<1>11. Owned' = Owned
  BY DEF Owned
<1>12. /\ CallOf(u) = [op |-> "releaseLock", range |-> w]
       /\ CallOf(u)' = [op |-> "released", range |-> w]
  <2>1. Looks(frame[u])
    BY <1>4, <1>6 DEF Looks
  <2> QED BY <1>1, <1>2, <1>6, <1>7, <1>8, <2>1 DEF CallShape
<1>13. \A v \in Threads \ {u} : CallOf(v)' = CallOf(v)
  <2> TAKE v \in Threads \ {u}
  <2>1. frame[v].find = "delete" => frame[v].node # f.curr
    BY <1>6 DEF OwnerInv
  <2>2. frame[v].find = "delete" =>
          (frame[v].node \in linked' <=> frame[v].node \in linked)
    BY <1>2, <2>1
  <2>3. contended'[v] = contended[v]
    OBVIOUS
  <2> QED BY <1>7, <2>2, <2>3 DEF CallOf
<1>14. /\ Calls' = [Calls EXCEPT ![u] = [op |-> "released", range |-> w]]
       /\ Calls[u] = CallOf(u)
  BY <1>12, <1>13, CallsUpdate
<1>15. Calls[u].op = "releaseLock" /\ Calls[u].range = w
  BY <1>12, <1>14
<1>16. Abstract!Free(u)
  BY <1>10, <1>11, <1>14, <1>15 DEF Abstract!Free, Held, Owned, Calls
<1> QED BY <1>16

(***************************************************************************)
(* Searching, linking into upper levels and marking change nothing that a  *)
(* client sees.                                                            *)
(***************************************************************************)
LEMMA QuietRefines ==
  ASSUME IInv, IInv', OwnerInv, NEW t \in Threads,
         NEW p \in Labels, NEW f \in Frames, p = pc[t], f = frame[t],
         FrameOK(p, f), NEW q \in Labels, NEW g \in Frames, Only(t, q, g),
         UNCHANGED <<range, linked, owned, contended>>,
         \/ Scans(p, f, q, g)
         \/ p = "snip" /\ (Snips(f, q, g) \/ Retries(f, f.find, q, g))
         \/ p = "up" /\ LinksUpper(f, q, g)
         \/ p \in {"link", "up"} /\ Retries(f, "insert", q, g)
         \/ MarksNode(p, f, q, g)
  PROVE  UNCHANGED Abstract!lockVars
<1>1. CallShape /\ CallShape' /\ frame'[t] = g /\ Fits(p, f) /\ Claims(p, f)
  BY CallShapes, CallShapesNext DEF Only, OwnerInv
<1>2. CASE SameCall(f, g) /\ (f.find = "delete" => g.node = f.node)
  <2>1. CallOf(t)' = CallOf(t)
    BY <1>1, <1>2 DEF SameCall, CallOf
  <2> QED BY <2>1, StutterCalls
<1>3. CASE p = "up" /\ LinksUpper(f, q, g)
  <2>1. Granted(f) /\ Granted(g) /\ g.want = f.want
    <3>1. Granted(f)
      BY <1>1, <1>3 DEF Fits
    <3>2. f.at \in Nat
      BY LevelAssumption DEF Frames
    <3> QED BY <1>3, <3>1, <3>2 DEF LinksUpper, Granted
  <2>2. CallOf(t)' = CallOf(t)
    BY <1>1, <2>1 DEF CallShape
  <2> QED BY <2>2, StutterCalls
<1>4. CASE Scans(p, f, q, g)
  <2>1. SameCall(f, g) /\ (f.find = "delete" => g.node = f.node)
    <3>1. CASE SeesMark(p, f, q, g) \/ ReadsAgain(p, f, q, g)
      BY <3>1 DEF SeesMark, ReadsAgain, SameSearch, SameCall
    <3>2. ASSUME NEW e, Reaches(p, f, e), Goes(e, q, g) \/ Settled(e, q, g)
          PROVE  SameCall(f, g) /\ (f.find = "delete" => g.node = f.node)
      <4>1. SameCall(f, e) /\ e.node = f.node
        BY <3>2 DEF Reaches, SameSearch, SameCall
      <4>2. SameCall(e, g) /\ (e.find = "delete" => g.node = e.node)
        BY <3>2 DEF Goes, Settled, SameSearch, SameCall
      <4> QED BY <4>1, <4>2 DEF SameCall
    <3> QED BY <1>4, <3>1, <3>2 DEF Scans
  <2> QED BY <1>2, <2>1
<1>5. CASE \/ p = "snip" /\ (Snips(f, q, g) \/ Retries(f, f.find, q, g))
           \/ p \in {"link", "up"} /\ Retries(f, "insert", q, g)
  <2>1. p \in {"link", "up"} => f.find = "insert"
    BY <1>1 DEF Fits, Placing, Granted
  <2>2. SameCall(f, g) /\ g.node = f.node
    BY <1>5, <2>1 DEF Snips, Retries, Starts, SameSearch, SameCall
  <2> QED BY <1>2, <2>2
<1>6. CASE MarksNode(p, f, q, g)
  <2>1. CASE p = "delete" /\ Starts(f, "delete", g)
    <3>1. f.find = "exact" /\ f.node \in linked
      BY <1>1, <2>1 DEF Fits, Claims, Target, Unmarked, Locked, Deletes
    <3>2. g.find = "delete" /\ g.node = f.node /\ g.want = f.want
      BY <2>1 DEF Starts
    <3>3. Looks(f) /\ Looks(g)'
      BY <3>1, <3>2 DEF Looks
    <3>4. CallOf(t)' = CallOf(t)
      BY <1>1, <3>2, <3>3 DEF CallShape
    <3> QED BY <3>4, StutterCalls
  <2> QED BY <1>2, <1>6, <2>1 DEF MarksNode
<1> QED BY <1>3, <1>4, <1>5, <1>6

(***************************************************************************)
(* Every step is a step of the abstract range lock or is not seen.         *)
(***************************************************************************)
LEMMA StepRefines ==
  ASSUME ProperUse, IInv, IInv', OwnerInv, ContentionInv, Next
  PROVE  Abstract!Next \/ UNCHANGED Abstract!lockVars
<1>1. PICK t \in Threads, p, q \in Labels, f, g \in Frames :
        /\ p = pc[t] /\ f = frame[t] /\ FrameOK(p, f)
        /\ Only(t, q, g) /\ Moves(t, p, f, q, g)
  BY StepMoves
<1>2. CASE BeginsTryLock(t, p, q, g) \/ BeginsRelease(p, q, g)
  <2>1. PICK r \in Requests : r = g.want
    BY <1>2 DEF BeginsTryLock, BeginsRelease
  <2>2. Abstract!TryLock(t, r) \/ Abstract!ReleaseLock(t, r)
    BY <1>1, <1>2, <2>1, BeginRefines
  <2> QED BY <2>2 DEF Abstract!Next
<1>3. CASE Returns(t, p, f, q, g)
  <2>1. Abstract!Refuse(t) \/ Abstract!Acquired(t) \/ Abstract!Released(t)
    BY <1>1, <1>3, ReturnRefines
  <2> QED BY <2>1 DEF Abstract!Next
<1>4. CASE /\ p = "link" /\ LinksBottom(f, q, g) /\ Announces(t, f)
           /\ UNCHANGED <<calls, owned>>
  <2>1. Abstract!Grant(t)
    BY <1>1, <1>4, LinkRefines
  <2> QED BY <2>1 DEF Abstract!Next
<1>5. CASE /\ p = "snip" /\ Snips(f, q, g)
           /\ UNCHANGED <<range, topLevel, calls, owned, contended>>
  <2>1. CASE f.lvl = 0
    <3>1. PICK u \in Threads : Abstract!Free(u)
      BY <1>1, <1>5, <2>1, SnipRefines
    <3> QED BY <3>1 DEF Abstract!Next
  <2>2. CASE f.lvl # 0
    <3>1. linked' = linked
      BY <1>5, <2>2 DEF Snips
    <3> QED BY <1>1, <1>5, <3>1, QuietRefines
  <2> QED BY <2>1, <2>2
<1>6. CASE /\ \/ Scans(p, f, q, g)
              \/ p = "snip" /\ Retries(f, f.find, q, g)
              \/ p \in {"link", "up"} /\ Retries(f, "insert", q, g)
           /\ Quiet /\ UNCHANGED <<owned, contended>>
  BY <1>1, <1>6, QuietRefines DEF Quiet
<1>7. CASE /\ \/ p = "up" /\ LinksUpper(f, q, g)
              \/ MarksNode(p, f, q, g)
           /\ UNCHANGED <<range, owned, contended>>
  <2>1. linked' = linked
    BY <1>7 DEF LinksUpper, MarksNode, Marks, Quiet
  <2> QED BY <1>1, <1>7, <2>1, QuietRefines
<1> QED BY <1>1, <1>2, <1>3, <1>4, <1>5, <1>6, <1>7 DEF Moves, Retries

(***************************************************************************)
(* ImplementsRangeLock: with clients that release what they own, ranges of *)
(* more than one key and keys inside the limits of their type, the skip    *)
(* list of src/src/v0 implements the range lock.                           *)
(***************************************************************************)
THEOREM Refinement ==
  ASSUME ProperUse, InsideLimits
  PROVE  Spec => ImplementsRangeLock
<1>1. Init => Abstract!Init
  <2> SUFFICES ASSUME Init PROVE Abstract!Init
    OBVIOUS
  <2>1. \A t \in Threads : CallOf(t) = [op |-> "idle"]
    BY DEF Init, CallOf, Rest
  <2>2. Locked = {} /\ owned = {}
    BY DEF Init, Locked
  <2> QED BY <2>1, <2>2 DEF Abstract!Init, Abstract!Idle
<1>2. IInv /\ IInv' /\ OwnerInv /\ ContentionInv /\ [Next]_vars
        => Abstract!Next \/ UNCHANGED Abstract!lockVars
  <2> SUFFICES ASSUME IInv, IInv', OwnerInv, ContentionInv, [Next]_vars
               PROVE  Abstract!Next \/ UNCHANGED Abstract!lockVars
    OBVIOUS
  <2>1. CASE UNCHANGED vars
    <3>1. Held' = Held /\ Owned' = Owned
      BY <2>1 DEF vars, Held, Owned, Locked
    <3>2. \A u \in Threads : CallOf(u)' = CallOf(u)
      BY <2>1 DEF vars, CallOf
    <3> QED BY <3>1, <3>2, SameCalls
  <2>2. CASE Next
    BY <2>2, StepRefines
  <2> QED BY <2>1, <2>2
<1>3. Spec => []OwnerInv
  BY OwnersInvariant
<1>4. Spec => []ContentionInv
  BY ContentionInvariant
<1>5. BelowMax
  BY LimitsBelowMax
<1> QED BY <1>1, <1>2, <1>3, <1>4, <1>5, Invariance, PTL
        DEF Spec, ImplementsRangeLock, Abstract!Spec

-----------------------------------------------------------------------------
(***************************************************************************)
(* The counter.  No search reaches the head again, and no release marks    *)
(* it, also under wrong use: a request may name the head's own range.      *)
(***************************************************************************)
PastHead(p, f) ==
  /\ p \in {"succ", "snip"} => f.curr # head
  /\ p \in Deletes => f.node # head

(***************************************************************************)
(* The counter, as size_t, is the number of live nodes, less those that    *)
(* are not counted yet, plus those whose deletion is not counted yet.      *)
(***************************************************************************)
Multiples == {k * SizeModulus : k \in Int}

Balance ==
  /\ IsFiniteSet(Uncounted) /\ IsFiniteSet(Deleting)
  /\ elementsCount + Cardinality(Uncounted)
       - Cardinality(Live) - Cardinality(Deleting) \in Multiples

CountInv ==
  /\ ~next[head][0].mark
  /\ \A t \in Threads : Fits(pc[t], frame[t]) /\ PastHead(pc[t], frame[t])
  /\ Balance

(***************************************************************************)
(* No word leads to the head.                                              *)
(***************************************************************************)
LEMMA NoWordToHead ==
  ASSUME IInv, LevelsAscend, ~next[head][0].mark,
         NEW n, NEW l \in Levels, HasLevel(n, l), n # tail
  PROVE  next[n][l].ref # head
<1> SUFFICES ASSUME next[n][l].ref = head PROVE FALSE
  OBVIOUS
<1>1. head # Null /\ n \in Node /\ Published(n) /\ head \in Node
  BY NodeAssumption DEF HasLevel, Node
<1>2. Start(n) < Start(head)
  BY <1>1 DEF LevelsAscend
<1>3. Start(head) = Min
  BY DEF IInv, ListInv, Ends, Start
<1>4. Start(n) \in Int /\ Min <= Start(n)
  BY <1>1, PublishedFacts
<1> QED BY <1>2, <1>3, <1>4, RequestAssumption

(***************************************************************************)
(* A search stays behind the head, and a release deletes what it found.    *)
(***************************************************************************)
LEMMA MovesPastHead ==
  ASSUME IInv, LevelsAscend, ~next[head][0].mark,
         NEW t \in Threads, NEW p \in Labels, NEW f \in Frames,
         FrameOK(p, f), PastHead(p, f), NEW q \in Labels, NEW g \in Frames,
         Moves(t, p, f, q, g)
  PROVE  PastHead(q, g)
<1>0. f.lvl \in Levels
  BY DEF Frames
<1>1. CASE q \notin {"succ", "snip"} \cup Deletes
  BY <1>1 DEF PastHead
<1>2. ASSUME p \in Searching
      PROVE  next[f.pred][f.lvl].ref # head
  BY <1>0, <1>2, NoWordToHead DEF FrameOK, Searches
<1>3. ASSUME NEW e, Reaches(p, f, e)
      PROVE  e.curr # head
  <2>1. CASE p = "curr" /\ e.curr = next[f.pred][f.lvl].ref
    BY <1>2, <2>1 DEF Searching
  <2>2. CASE p = "succ" /\ e.pred = f.curr /\ e.curr = next[f.curr][f.lvl].ref
    <3>1. HasLevel(f.curr, f.lvl) /\ f.curr # tail
      BY <1>3, <2>2 DEF FrameOK, Reaches
    <3> QED BY <1>0, <2>2, <3>1, NoWordToHead
  <2>3. CASE p = "succ" /\ e.curr = f.curr
    BY <2>3 DEF PastHead
  <2> QED BY <1>3, <2>1, <2>2, <2>3 DEF Reaches
<1>4. CASE Scans(p, f, q, g)
  <2>1. CASE SeesMark(p, f, q, g)
    BY <2>1 DEF SeesMark, PastHead, Deletes
  <2>2. CASE ReadsAgain(p, f, q, g)
    BY <1>2, <2>2 DEF ReadsAgain, PastHead, Deletes, Searching
  <2>3. ASSUME NEW e, Reaches(p, f, e), Goes(e, q, g) PROVE PastHead(q, g)
    BY <1>3, <2>3 DEF Goes, PastHead, Deletes
  <2>4. ASSUME NEW e, Reaches(p, f, e), Settled(e, q, g)
        PROVE  PastHead(q, g)
    <3>1. e.curr # head
      BY <1>3, <2>4
    <3>2. \/ q \notin {"succ", "snip"} \cup Deletes
          \/ q \in {"mark", "bottom"} /\ g.node = e.curr
      BY <2>4 DEF Settled, Deletes
    <3> QED BY <1>1, <3>1, <3>2 DEF PastHead
  <2> QED BY <1>4, <2>1, <2>2, <2>3, <2>4 DEF Scans
<1>5. CASE MarksNode(p, f, q, g)
  <2>1. q \in {"curr", "wrong"} \/ (p \in Deletes /\ q \in Deletes
                                    /\ g.node = f.node)
    BY <1>5 DEF MarksNode, Deletes
  <2> QED BY <2>1 DEF PastHead, Deletes
<1> QED BY <1>1, <1>4, <1>5
        DEF Moves, Snips, Retries, LinksBottom, LinksUpper, BeginsTryLock,
            BeginsRelease, Returns, Deletes

(***************************************************************************)
(* The live nodes after a step: a node more when one is linked, a node     *)
(* less when level 0 of one is marked, and the same otherwise.             *)
(***************************************************************************)
Lives(p, f, g) ==
  \/ /\ Live' = Live
     /\ Granted(g) <=> Granted(f)
     /\ g.find = "delete" <=> f.find = "delete"
     /\ p \notin {"count", "uncount"}
  \/ /\ f.node \notin Live /\ Live' = Live \cup {f.node}
     /\ ~Granted(f) /\ Granted(g) /\ f.find # "delete"
     /\ p \notin {"count", "uncount"}
  \/ /\ f.node \in Live /\ Live' = Live \ {f.node}
     /\ f.find = "exact" /\ g.find = "delete"
     /\ p \notin {"count", "uncount"}
  \/ Live' = Live /\ p = "count" /\ Granted(f) /\ g.find = "none"
  \/ Live' = Live /\ p = "uncount" /\ f.find = "delete" /\ g.find = "none"

(***************************************************************************)
(* Live nodes stay so while level 0 keeps its marks and loses only marked  *)
(* nodes.                                                                  *)
(***************************************************************************)
LEMMA SameLive ==
  ASSUME TypeOK, \A n \in Node : next'[n][0].mark <=> next[n][0].mark,
         NEW x, linked' = linked \/ (linked' = linked \ {x} /\ next[x][0].mark)
  PROVE  Live' = Live
<1>1. linked \subseteq Node
  BY DEF TypeOK
<1> QED BY <1>1 DEF Live, Locked

LEMMA MovesLive ==
  ASSUME IInv, NEW t \in Threads, NEW p \in Labels, NEW f \in Frames,
         FrameOK(p, f), Fits(p, f), PastHead(p, f),
         NEW q \in Labels, NEW g \in Frames, Moves(t, p, f, q, g)
  PROVE  /\ Lives(p, f, g)
         /\ next'[head][0].mark => next[head][0].mark
<1>0. /\ 0 \in Levels /\ TypeOK /\ head \in Node /\ linked \subseteq Node
      /\ f.lvl \in Levels /\ f.curr \in Node /\ f.node \in Node
      /\ f.at \in Nat /\ g.at \in Nat
  <2>1. 0 \in Levels /\ head \in Node
    BY LevelAssumption DEF Node, Levels
  <2>2. TypeOK /\ linked \subseteq Node
    BY DEF IInv, TypeOK
  <2>3. f.lvl \in Levels /\ f.curr \in Node /\ f.node \in Node
    BY DEF Frames
  <2>4. f.at \in Nat /\ g.at \in Nat
    BY LevelAssumption DEF Frames
  <2> QED BY <2>1, <2>2, <2>3, <2>4
<1>1. ASSUME Quiet PROVE Live' = Live /\ next' = next
  BY <1>1 DEF Quiet, Live, Locked
<1>2. ASSUME SameCall(f, g)
      PROVE  (Granted(g) <=> Granted(f)) /\ g.find = f.find
  BY <1>2 DEF SameCall, Granted
<1>3. CASE Scans(p, f, q, g) /\ Quiet
  <2>1. p \in Searching
    BY <1>3 DEF Scans, SeesMark, ReadsAgain, Reaches, Searching
  <2>2. SameCall(f, g)
    BY <1>3 DEF Scans, SeesMark, ReadsAgain, Reaches, Goes, Settled,
                SameSearch, SameCall
  <2> QED BY <1>1, <1>2, <1>3, <2>1, <2>2 DEF Lives, Searching
<1>4. CASE p = "snip" /\ Snips(f, q, g)
  <2>1. SameCall(f, g) /\ f.pred \in Node
    BY <1>4 DEF Snips, SameSearch, Frames
  <2>2. \A n \in Node : next'[n][0].mark <=> next[n][0].mark
    BY <1>0, <1>4, <2>1 DEF Snips, Writes, Pack
  <2>3. \/ linked' = linked
        \/ linked' = linked \ {f.curr} /\ next[f.curr][0].mark
    BY <1>4 DEF Snips, Pack
  <2>4. Live' = Live
    BY <1>0, <2>2, <2>3, SameLive
  <2> QED BY <1>0, <1>2, <1>4, <2>1, <2>2, <2>4 DEF Lives
<1>5. CASE \/ p = "snip" /\ Retries(f, f.find, q, g)
           \/ p \in {"link", "up"} /\ Retries(f, "insert", q, g)
  <2>1. Quiet /\ g.find = f.find /\ g.at = f.at
    BY <1>5 DEF Retries, Starts, Fits, Placing, Granted
  <2> QED BY <1>1, <1>5, <2>1 DEF Lives, Granted
<1>6. CASE p = "link" /\ LinksBottom(f, q, g)
  <2>1. /\ f.node \in NewNodes /\ ~Published(f.node)
        /\ f.preds[0] \in Node /\ f.preds[0] # f.node
        /\ ~next[f.preds[0]][0].mark
    BY <1>0, <1>6 DEF LinksBottom, HasLevel, Pack
  <2>2. f.node \notin linked /\ f.node # head /\ f.node # tail
    BY <1>0, <2>1, NodeAssumption DEF IInv, ListInv, Membership
  <2>3. \A n \in Node \ {f.node} : next'[n][0].mark <=> next[n][0].mark
    <3>1. \A n \in Node \ {f.node} :
            \/ next'[n][0] = next[n][0]
            \/ n = f.preds[0] /\ next'[n][0] = Pack(f.node, FALSE)
      BY <1>0, <1>6 DEF LinksBottom
    <3> QED BY <2>1, <3>1 DEF Pack
  <2>4. ~next'[f.node][0].mark
    <3>1. next'[f.node][0]
            = Pack(IF 0 <= f.top THEN f.succs[0] ELSE Null, FALSE)
      BY <1>0, <1>6 DEF LinksBottom
    <3> QED BY <3>1 DEF Pack
  <2>5. linked' = linked \cup {f.node}
    BY <1>6 DEF LinksBottom
  <2>6. f.node \notin Live /\ Live' = Live \cup {f.node}
    BY <1>0, <2>2, <2>3, <2>4, <2>5 DEF Live, Locked
  <2>7. Placing(f) /\ Granted(g)
    BY <1>6 DEF LinksBottom, Fits, Placing, Granted
  <2>8. ~Granted(f) /\ f.find # "delete"
    BY <2>7 DEF Placing, Granted
  <2> QED BY <1>0, <1>6, <2>2, <2>3, <2>6, <2>7, <2>8 DEF Lives
<1>7. CASE p = "up" /\ LinksUpper(f, q, g)
  <2>1. \A n \in Node : next'[n][0] = next[n][0]
    <3>1. f.at # 0
      BY <1>7 DEF LinksUpper
    <3> QED BY <1>0, <1>7, <3>1 DEF LinksUpper, Writes
  <2>2. Live' = Live
    BY <1>0, <1>7, <2>1, SameLive DEF LinksUpper
  <2>3. Granted(f) /\ Granted(g) /\ g.find = f.find
    BY <1>0, <1>7 DEF LinksUpper, Fits, Granted
  <2> QED BY <1>0, <1>7, <2>1, <2>2, <2>3 DEF Lives
<1>8. CASE MarksNode(p, f, q, g)
  <2>1. CASE p \in Deletes /\ SameCall(f, g) /\ Quiet
    BY <1>1, <1>2, <2>1 DEF Lives, Deletes
  <2>2. CASE p = "attempt" /\ SameCall(f, g) /\ Marks(f.node, f.lvl)
    <3>1. \A n \in Node : next'[n][0] = next[n][0]
      <4>1. f.lvl # 0
        BY <2>2 DEF FrameOK
      <4> QED BY <1>0, <2>2, <4>1 DEF Marks, Writes
    <3>2. Live' = Live
      BY <1>0, <2>2, <3>1, SameLive DEF Marks
    <3> QED BY <1>0, <1>2, <2>2, <3>1, <3>2 DEF Lives
  <2>3. CASE p = "delete" /\ Starts(f, "delete", g) /\ Marks(f.node, 0)
    <3>1. /\ Published(f.node) /\ f.node # tail /\ f.node # head
          /\ ~next[f.node][0].mark
      BY <2>3 DEF FrameOK, HasLevel, PastHead, Deletes, Marks
    <3>2. f.node \in Live
      BY <1>0, <3>1 DEF Live, Locked, IInv, ListInv, Membership
    <3>3. next'[f.node][0].mark /\ linked' = linked
      BY <1>0, <2>3 DEF Marks, Writes, Pack
    <3>4. \A n \in Node \ {f.node} : next'[n][0].mark <=> next[n][0].mark
      BY <1>0, <2>3 DEF Marks, Writes
    <3>5. Live' = Live \ {f.node}
      BY <1>0, <3>3, <3>4 DEF Live, Locked
    <3>6. f.find = "exact" /\ g.find = "delete"
      BY <2>3 DEF Fits, Deletes, Starts
    <3> QED BY <1>0, <2>3, <3>1, <3>2, <3>4, <3>5, <3>6 DEF Lives
  <2> QED BY <1>8, <2>1, <2>2, <2>3 DEF MarksNode, Deletes
<1>9. CASE BeginsTryLock(t, p, q, g) \/ BeginsRelease(p, q, g)
  <2>1. p = "idle" /\ Quiet /\ f.find = "none" /\ g.find # "delete"
        /\ ~Granted(g)
    BY <1>9 DEF BeginsTryLock, BeginsRelease, Fits, Granted
  <2>2. ~Granted(f)
    BY <2>1 DEF Granted
  <2> QED BY <1>1, <2>1, <2>2 DEF Lives
<1>10. CASE Returns(t, p, f, q, g)
  <2>1. /\ Quiet /\ p \in {"found", "wrong", "count", "uncount"}
        /\ g.find = "none"
    BY <1>10 DEF Returns, Rest
  <2>2. ~Granted(g)
    BY <2>1 DEF Granted
  <2>3. /\ p = "found" => ~Granted(f) /\ f.find # "delete"
        /\ p = "wrong" => ~Granted(f) /\ f.find # "delete"
        /\ p = "count" => Granted(f)
        /\ p = "uncount" => f.find = "delete"
    BY DEF Fits, Placing, Granted
  <2> QED BY <1>1, <2>1, <2>2, <2>3 DEF Lives
<1> QED BY <1>3, <1>4, <1>5, <1>6, <1>7, <1>8, <1>9, <1>10 DEF Moves

(***************************************************************************)
(* A multiple of M other than 0 is at least as far from 0 as M.            *)
(***************************************************************************)
LEMMA SmallMultiple ==
  ASSUME NEW M \in Nat, NEW j \in Int, j # 0
  PROVE  j * M >= M \/ j * M <= -M
<1>1. CASE j >= 1
  <2>1. (j - 1) * M >= 0
    BY <1>1
  <2>2. (j - 1) * M = j * M - M
    OBVIOUS
  <2> QED BY <2>1, <2>2
<1>2. CASE j <= -1
  <2>1. (-j - 1) * M >= 0
    BY <1>2
  <2>2. (-j - 1) * M = -(j * M) - M
    OBVIOUS
  <2> QED BY <2>1, <2>2
<1> QED BY <1>1, <1>2

(***************************************************************************)
(* Division with remainder.                                                *)
(***************************************************************************)
LEMMA Remainder ==
  ASSUME NEW M \in Nat \ {0}, NEW a \in Int
  PROVE  /\ a % M \in 0 .. (M - 1)
         /\ \E i \in Int : a = i * M + (a % M)
<1> DEFINE i == a \div M
           m == a % M
<1>1. a = M * i + m /\ i \in Int /\ m \in 0 .. (M - 1)
  OBVIOUS
<1> HIDE DEF i, m
<1>2. a = i * M + m
  BY <1>1
<1>3. m = a % M
  BY DEF m
<1> QED BY <1>1, <1>2, <1>3

(***************************************************************************)
(* Numbers that differ by a multiple of M have the same remainder.         *)
(***************************************************************************)
LEMMA SameRemainder ==
  ASSUME NEW M \in Nat \ {0}, NEW a \in Int, NEW b \in Int, NEW k \in Int,
         a = b + k * M
  PROVE  a % M = b % M
<1>1. PICK i \in Int : a = i * M + (a % M)
  BY Remainder
<1>2. PICK j \in Int : b = j * M + (b % M)
  BY Remainder
<1>3. PICK x \in 0 .. (M - 1), y \in 0 .. (M - 1) : x = a % M /\ y = b % M
  BY Remainder
<1>4. i * M + x = j * M + y + k * M
  BY <1>1, <1>2, <1>3
<1>5. PICK d \in Int : d = i - j - k
  OBVIOUS
<1>6. d * M = i * M - j * M - k * M
  BY <1>5
<1>7. d * M = y - x
  BY <1>4, <1>6
<1>8. d # 0 => d * M >= M \/ d * M <= -M
  BY SmallMultiple
<1>9. d = 0
  BY <1>7, <1>8
<1> QED BY <1>3, <1>7, <1>9

(***************************************************************************)
(* The counter goes up at count and down at uncount, modulo SizeModulus.   *)
(***************************************************************************)
Counts(p) ==
  \/ p \notin {"count", "uncount"} /\ elementsCount' = elementsCount
  \/ /\ p = "count"
     /\ \/ elementsCount' = elementsCount + 1
        \/ elementsCount' = elementsCount + 1 - SizeModulus
  \/ /\ p = "uncount"
     /\ \/ elementsCount' = elementsCount - 1
        \/ elementsCount' = elementsCount - 1 + SizeModulus

(***************************************************************************)
(* Only the two counting steps touch the counter.                          *)
(***************************************************************************)
LEMMA StepCounts ==
  ASSUME IInv, NEW t \in Threads, NEW q, NEW g, Only(t, q, g), Next,
         Moves(t, pc[t], frame[t], q, g)
  PROVE  Counts(pc[t])
<1>0. elementsCount \in Int /\ SizeModulus \in Int
  BY SizeAssumption DEF IInv, TypeOK
<1>1. pc \in [Threads -> Labels]
  BY DEF IInv, TypeOK
<1>2. ASSUME NEW u \in Threads, CountUp(u) \/ CountDown(u)
      PROVE  Counts(pc[t])
  <2>1. pc[u] # "idle" /\ pc'[u] = "idle"
    BY <1>1, <1>2 DEF CountUp, CountDown, Go
  <2>2. u = t
    BY <2>1 DEF Only
  <2> QED BY <1>0, <1>2, <2>2 DEF CountUp, CountDown, Counts
<1>3. ASSUME NEW u \in Threads, UNCHANGED elementsCount,
             pc[u] \notin {"count", "uncount"},
             \A v \in Threads \ {u} : pc'[v] = pc[v]
      PROVE  Counts(pc[t])
  <2>1. CASE u = t
    BY <1>3, <2>1 DEF Counts
  <2>2. CASE u # t
    <3>1. pc'[t] = pc[t] /\ pc'[t] = q
      BY <1>3, <2>2 DEF Only
    <3>2. pc[t] \in {"count", "uncount"} => q = "idle"
      BY DEF Moves, Scans, SeesMark, ReadsAgain, Reaches, MarksNode,
             BeginsTryLock, BeginsRelease, Returns
    <3> QED BY <1>3, <3>1, <3>2 DEF Counts
  <2> QED BY <2>1, <2>2
<1>4. ASSUME NEW u \in Threads, NEW label, NEW h, Go(u, label, h)
      PROVE  \A v \in Threads \ {u} : pc'[v] = pc[v]
  BY <1>1, <1>4 DEF Go
<1>5. ASSUME NEW u \in Threads,
             \/ \E r \in Requests, height \in Levels : TryLock(u, r, height)
             \/ \E r \in Requests : ReleaseLock(u, r)
      PROVE  Counts(pc[t])
  <2>1. UNCHANGED elementsCount /\ pc[u] = "idle"
    BY <1>5 DEF TryLock, ReleaseLock
  <2>2. \E label, h : Go(u, label, h)
    BY <1>5 DEF TryLock, ReleaseLock
  <2> QED BY <1>3, <1>4, <2>1, <2>2
<1>6. ASSUME NEW u \in Threads, Refuse(u) \/ ReportWrong(u) \/ Reread(u)
      PROVE  Counts(pc[t])
  <2>1. UNCHANGED elementsCount /\ pc[u] \in {"found", "wrong", "again"}
    BY <1>6 DEF Refuse, ReportWrong, Reread
  <2>2. \E label, h : Go(u, label, h)
    BY <1>6 DEF Refuse, ReportWrong, Reread
  <2> QED BY <1>3, <1>4, <2>1, <2>2
<1>7. ASSUME NEW u \in Threads, ReadCurr(u) \/ ReadSucc(u)
      PROVE  Counts(pc[t])
  <2>1. UNCHANGED elementsCount /\ pc[u] \in {"curr", "succ"}
    BY <1>7 DEF ReadCurr, ReadSucc
  <2>2. \E label, h : Go(u, label, h)
    <3>1. ASSUME NEW h, Settle(u, h) PROVE \E label, j : Go(u, label, j)
      BY <3>1 DEF Settle
    <3>2. ASSUME NEW h, Arrive(u, h) PROVE \E label, j : Go(u, label, j)
      BY <3>1, <3>2 DEF Arrive
    <3> QED BY <1>7, <3>1, <3>2 DEF ReadCurr, ReadSucc
  <2> QED BY <1>3, <1>4, <2>1, <2>2
<1>8. ASSUME NEW u \in Threads,
             Snip(u) \/ LinkBottom(u) \/ LinkUpper(u)
      PROVE  Counts(pc[t])
  <2>1. UNCHANGED elementsCount /\ pc[u] \in {"snip", "link", "up"}
    BY <1>8 DEF Snip, LinkBottom, LinkUpper
  <2>2. \E label, h : Go(u, label, h)
    BY <1>8 DEF Snip, LinkBottom, LinkUpper
  <2> QED BY <1>3, <1>4, <2>1, <2>2
<1>9. ASSUME NEW u \in Threads,
             \/ MarkUpper(u) \/ TryMark(u) \/ ReadBottom(u) \/ MarkBottom(u)
             \/ Recheck(u)
      PROVE  Counts(pc[t])
  <2>1. UNCHANGED elementsCount /\ pc[u] \in Deletes
    BY <1>9 DEF MarkUpper, TryMark, ReadBottom, MarkBottom, Recheck, Deletes
  <2>2. \E label, h : Go(u, label, h)
    BY <1>9 DEF MarkUpper, TryMark, ReadBottom, MarkBottom, Recheck
  <2> QED BY <1>3, <1>4, <2>1, <2>2 DEF Deletes
<1> QED BY <1>2, <1>5, <1>6, <1>7, <1>8, <1>9 DEF Next, Step

(***************************************************************************)
(* The live nodes are finitely many.                                       *)
(***************************************************************************)
LEMMA LiveFinite == IInv => IsFiniteSet(Live) /\ Cardinality(Live) \in Nat
<1> SUFFICES ASSUME IInv PROVE IsFiniteSet(Live) /\ Cardinality(Live) \in Nat
  OBVIOUS
<1>1. IsFiniteSet(NewNodes)
  BY FS_Interval, SizeAssumption DEF NewNodes
<1>2. Live \in SUBSET NewNodes
  BY DEF Live, Locked, IInv, TypeOK, Node
<1>3. IsFiniteSet(Live)
  BY <1>1, <1>2, FS_Subset
<1> QED BY <1>3, FS_CardinalityType

(***************************************************************************)
(* How a set of threads changes when only thread t moves.                  *)
(***************************************************************************)
LEMMA OneMoves ==
  ASSUME NEW S, NEW T, NEW t, IsFiniteSet(S),
         \A u : u # t => (u \in T <=> u \in S)
  PROVE  /\ IsFiniteSet(T)
         /\ Cardinality(S) \in Nat /\ Cardinality(T) \in Nat
         /\ (t \in S <=> t \in T) => Cardinality(T) = Cardinality(S)
         /\ t \notin S /\ t \in T => Cardinality(T) = Cardinality(S) + 1
         /\ t \in S /\ t \notin T => Cardinality(T) = Cardinality(S) - 1
<1>1. CASE t \in T
  <2>1. T = S \cup {t}
    BY <1>1
  <2>2. IsFiniteSet(T)
        /\ Cardinality(T) = IF t \in S THEN Cardinality(S)
                                       ELSE Cardinality(S) + 1
    BY <2>1, FS_AddElement
  <2> QED BY <1>1, <2>2, FS_CardinalityType
<1>2. CASE t \notin T
  <2>1. T = S \ {t}
    BY <1>2
  <2>2. IsFiniteSet(T)
        /\ Cardinality(T) = IF t \in S THEN Cardinality(S) - 1
                                       ELSE Cardinality(S)
    BY <2>1, FS_RemoveElement
  <2> QED BY <1>2, <2>2, FS_CardinalityType
<1> QED BY <1>1, <1>2

(***************************************************************************)
(* The multiples of the modulus go on in both directions.                  *)
(***************************************************************************)
LEMMA NextMultiple ==
  ASSUME NEW c \in Multiples
  PROVE  /\ c \in Int /\ SizeModulus \in Int
         /\ c + SizeModulus \in Multiples /\ c - SizeModulus \in Multiples
<1>1. PICK k \in Int : c = k * SizeModulus
  BY DEF Multiples
<1>2. SizeModulus \in Int
  BY SizeAssumption
<1>3. PICK i, j \in Int : i = k + 1 /\ j = k - 1
  OBVIOUS
<1>4. c \in Int /\ i * SizeModulus = c + SizeModulus
      /\ j * SizeModulus = c - SizeModulus
  BY <1>1, <1>2, <1>3
<1>5. i * SizeModulus \in Multiples /\ j * SizeModulus \in Multiples
  BY DEF Multiples
<1> QED BY <1>2, <1>4, <1>5

(***************************************************************************)
(* A step keeps the balance of the counter.                                *)
(***************************************************************************)
LEMMA BalanceStep ==
  ASSUME IInv, IInv', Balance, NEW t \in Threads, NEW q, NEW g \in Frames,
         Only(t, q, g), Lives(pc[t], frame[t], g), Counts(pc[t])
  PROVE  Balance'
<1> DEFINE f == frame[t]
           U == Cardinality(Uncounted)
           D == Cardinality(Deleting)
           L == Cardinality(Live)
<1>1. /\ IsFiniteSet(Uncounted') /\ U \in Nat /\ U' \in Nat
      /\ (Granted(f) <=> Granted(g)) => U' = U
      /\ ~Granted(f) /\ Granted(g) => U' = U + 1
      /\ Granted(f) /\ ~Granted(g) => U' = U - 1
  <2>1. \A u : u # t => (u \in Uncounted' <=> u \in Uncounted)
    BY DEF Only, Uncounted
  <2>2. (t \in Uncounted <=> Granted(f)) /\ (t \in Uncounted' <=> Granted(g))
    BY DEF Only, Uncounted, Granted
  <2>3. IsFiniteSet(Uncounted)
    BY DEF Balance
  <2> QED BY <2>1, <2>2, <2>3, OneMoves
<1>2. /\ IsFiniteSet(Deleting') /\ D \in Nat /\ D' \in Nat
      /\ (f.find = "delete" <=> g.find = "delete") => D' = D
      /\ f.find # "delete" /\ g.find = "delete" => D' = D + 1
      /\ f.find = "delete" /\ g.find # "delete" => D' = D - 1
  <2>1. \A u : u # t => (u \in Deleting' <=> u \in Deleting)
    BY DEF Only, Deleting
  <2>2. /\ t \in Deleting <=> f.find = "delete"
        /\ t \in Deleting' <=> g.find = "delete"
    BY DEF Only, Deleting
  <2>3. IsFiniteSet(Deleting)
    BY DEF Balance
  <2> QED BY <2>1, <2>2, <2>3, OneMoves
<1>3. /\ L \in Nat /\ L' \in Nat
      /\ f.node \notin Live /\ Live' = Live \cup {f.node} => L' = L + 1
      /\ f.node \in Live /\ Live' = Live \ {f.node} => L' = L - 1
      /\ Live' = Live => L' = L
  <2>1. IsFiniteSet(Live) /\ L \in Nat
    BY LiveFinite
  <2>2. L' \in Nat
    <3>1. IInv' => (IsFiniteSet(Live) /\ Cardinality(Live) \in Nat)'
      BY LiveFinite, PTL
    <3> QED BY <3>1
  <2> QED BY <2>1, <2>2, FS_AddElement, FS_RemoveElement
<1>4. elementsCount \in Int /\ elementsCount' \in Int /\ SizeModulus \in Int
  BY SizeAssumption DEF IInv, TypeOK
<1>5. PICK e, e1, u, u1, d, d1, l, l1 \in Int :
        /\ e = elementsCount /\ u = U /\ d = D /\ l = L
        /\ e1 = elementsCount' /\ u1 = U' /\ d1 = D' /\ l1 = L'
  BY <1>1, <1>2, <1>3, <1>4
<1>6. PICK c \in Multiples : c = e + u - l - d
  BY <1>5 DEF Balance
<1>7. Granted(f) => f.find = "insert"
  BY DEF Granted
<1>8. Granted(g) => g.find = "insert"
  BY DEF Granted
<1> HIDE DEF U, D, L, f
<1>9. CASE pc[t] \notin {"count", "uncount"}
  <2>1. e1 = e
    BY <1>5, <1>9 DEF Counts
  <2>2. \/ u1 = u /\ d1 = d /\ l1 = l
        \/ u1 = u + 1 /\ d1 = d /\ l1 = l + 1
        \/ u1 = u /\ d1 = d + 1 /\ l1 = l - 1
    <3>1. \/ Live' = Live /\ (Granted(g) <=> Granted(f))
             /\ (g.find = "delete" <=> f.find = "delete")
          \/ /\ f.node \notin Live /\ Live' = Live \cup {f.node}
             /\ ~Granted(f) /\ Granted(g) /\ f.find # "delete"
          \/ /\ f.node \in Live /\ Live' = Live \ {f.node}
             /\ f.find = "exact" /\ g.find = "delete"
      BY <1>9 DEF Lives, f
    <3> QED BY <1>1, <1>2, <1>3, <1>5, <1>7, <1>8, <3>1
  <2>3. e1 + u1 - l1 - d1 = c
    BY <1>6, <2>1, <2>2
  <2> QED BY <1>1, <1>2, <1>5, <2>3 DEF Balance, U, D, L
<1>10. CASE pc[t] \in {"count", "uncount"}
  <2>1. L' = L /\ g.find = "none"
    BY <1>3, <1>10 DEF Lives
  <2>2. CASE pc[t] = "count"
    <3>1. Granted(f)
      BY <2>2 DEF Lives, f
    <3>2. u1 = u - 1 /\ d1 = d /\ l1 = l
      BY <1>1, <1>2, <1>5, <1>7, <1>8, <2>1, <3>1
    <3>3. e1 = e + 1 \/ e1 = e + 1 - SizeModulus
      BY <1>5, <2>2 DEF Counts
    <3>4. e1 + u1 - l1 - d1 \in {c, c - SizeModulus}
      BY <1>4, <1>6, <3>2, <3>3
    <3>5. e1 + u1 - l1 - d1 \in Multiples
      BY <3>4, NextMultiple
    <3> QED BY <1>1, <1>2, <1>5, <3>5 DEF Balance, U, D, L
  <2>3. CASE pc[t] = "uncount"
    <3>1. f.find = "delete"
      BY <2>3 DEF Lives, f
    <3>2. u1 = u /\ d1 = d - 1 /\ l1 = l
      BY <1>1, <1>2, <1>5, <1>7, <1>8, <2>1, <3>1
    <3>3. e1 = e - 1 \/ e1 = e - 1 + SizeModulus
      BY <1>5, <2>3 DEF Counts
    <3>4. e1 + u1 - l1 - d1 \in {c, c + SizeModulus}
      BY <1>4, <1>6, <3>2, <3>3
    <3>5. e1 + u1 - l1 - d1 \in Multiples
      BY <3>4, NextMultiple
    <3> QED BY <1>1, <1>2, <1>5, <3>5 DEF Balance, U, D, L
  <2> QED BY <1>10, <2>2, <2>3
<1> QED BY <1>9, <1>10

(***************************************************************************)
(* Every step keeps CountInv.                                              *)
(***************************************************************************)
LEMMA CountNext ==
  IInv /\ IInv' /\ LevelInv /\ CountInv /\ [Next]_vars => CountInv'
<1> SUFFICES ASSUME IInv, IInv', LevelInv, CountInv, [Next]_vars
             PROVE  CountInv'
  OBVIOUS
<1>1. CASE UNCHANGED vars
  BY <1>1 DEF vars, CountInv, Fits, Placing, Granted, PastHead, Balance,
              Uncounted, Deleting, Live, Locked
<1>2. CASE Next
  <2>1. PICK t \in Threads, p, q \in Labels, f, g \in Frames :
          /\ p = pc[t] /\ f = frame[t] /\ FrameOK(p, f)
          /\ Only(t, q, g) /\ Moves(t, p, f, q, g)
    BY <1>2, StepMoves
  <2>2. /\ LevelsAscend /\ ~next[head][0].mark /\ Balance
        /\ Fits(p, f) /\ PastHead(p, f)
    BY <2>1 DEF LevelInv, CountInv
  <2>3. Fits(q, g) /\ PastHead(q, g)
    BY <2>1, <2>2, MovesFits, MovesPastHead
  <2>4. Lives(p, f, g) /\ ~next'[head][0].mark
    BY <2>1, <2>2, MovesLive
  <2>5. Counts(pc[t])
    BY <1>2, <2>1, StepCounts
  <2>6. Balance'
    BY <2>1, <2>2, <2>4, <2>5, BalanceStep
  <2>7. ASSUME NEW u \in Threads
        PROVE  Fits(pc'[u], frame'[u]) /\ PastHead(pc'[u], frame'[u])
    BY <2>1, <2>3 DEF Only, CountInv
  <2> QED BY <2>4, <2>6, <2>7 DEF CountInv, Fits, Placing, Granted, PastHead
<1> QED BY <1>1, <1>2

(***************************************************************************)
(* At first nothing is live and nothing is counted.                        *)
(***************************************************************************)
LEMMA CountInit == Init => CountInv
<1> SUFFICES ASSUME Init PROVE CountInv
  OBVIOUS
<1>1. 0 \in Levels /\ head \in Node
  BY LevelAssumption DEF Levels, Node
<1>2. next[head][0] = Pack(tail, FALSE)
  BY <1>1 DEF Init
<1>3. ASSUME NEW t \in Threads
      PROVE  Fits(pc[t], frame[t]) /\ PastHead(pc[t], frame[t])
  BY DEF Init, Rest, Fits, PastHead, Deletes
<1>4. Uncounted = {} /\ Deleting = {} /\ Live = {}
  BY DEF Init, Rest, Uncounted, Deleting, Live, Locked
<1>5. 0 \in Multiples
  <2>1. 0 = 0 * SizeModulus
    BY SizeAssumption
  <2> QED BY <2>1 DEF Multiples
<1>6. elementsCount + 0 - 0 - 0 = 0
  BY DEF Init
<1>7. Balance
  BY <1>4, <1>5, <1>6, FS_EmptySet DEF Balance
<1> QED BY <1>2, <1>3, <1>7 DEF CountInv, Pack

(***************************************************************************)
(* size() of src/src/v0 counts the locked ranges modulo the width of       *)
(* size_t, up to the calls that are just counting, with any clients:       *)
(* however many releases meet at a range, one of them takes it off the     *)
(* count.                                                                  *)
(***************************************************************************)
THEOREM SizeIsCount ==
  ASSUME BelowMax PROVE Spec => []SizeCounts
<1>1. Spec => []CountInv
  BY CountInit, CountNext, Invariance, LevelsInvariant, PTL DEF Spec
<1>2. IInv /\ CountInv => SizeCounts
  <2> SUFFICES ASSUME IInv, CountInv PROVE SizeCounts
    OBVIOUS
  <2> DEFINE a == elementsCount + Cardinality(Uncounted)
             b == Cardinality(Live) + Cardinality(Deleting)
  <2>1. /\ Cardinality(Uncounted) \in Nat /\ Cardinality(Deleting) \in Nat
        /\ Cardinality(Live) \in Nat /\ elementsCount \in Nat
    <3>1. elementsCount \in Nat
      BY SizeAssumption DEF IInv, TypeOK
    <3>2. IsFiniteSet(Uncounted) /\ IsFiniteSet(Deleting)
      BY DEF CountInv, Balance
    <3> QED BY <3>1, <3>2, LiveFinite, FS_CardinalityType
  <2>2. a \in Int /\ b \in Int
    BY <2>1
  <2>3. PICK k \in Int : a - b = k * SizeModulus
    <3>1. a - b = elementsCount + Cardinality(Uncounted)
                    - Cardinality(Live) - Cardinality(Deleting)
      BY <2>1
    <3>2. a - b \in Multiples
      BY <3>1 DEF CountInv, Balance
    <3> QED BY <3>2 DEF Multiples
  <2> HIDE DEF a, b
  <2>4. a = b + k * SizeModulus
    BY <2>2, <2>3, SizeAssumption
  <2>5. a % SizeModulus = b % SizeModulus
    BY <2>2, <2>4, SameRemainder, SizeAssumption
  <2> QED BY <2>5 DEF SizeCounts, a, b
<1> QED BY <1>1, <1>2, Invariance, PTL
=============================================================================

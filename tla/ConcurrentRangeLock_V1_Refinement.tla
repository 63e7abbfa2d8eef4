----------------- MODULE ConcurrentRangeLock_V1_Refinement -----------------
(***************************************************************************)
(* What the lock-based skip list of src/src/v1 means to its clients: who   *)
(* owns a range keeps it and can give it back, and the list implements the *)
(* abstract range lock.                                                    *)
(***************************************************************************)
EXTENDS ConcurrentRangeLock_V1_Proofs

(***************************************************************************)
(* The clients release only what they own, and every range holds more than *)
(* one key.                                                                *)
(***************************************************************************)
ProperUse == ~Misuse /\ ProperRanges

(***************************************************************************)
(* No range ends at the highest key, which belongs to the tail: findInsert *)
(* takes the tail for an overlapping range then, and tryLock refuses with  *)
(* nothing locked.                                                         *)
(***************************************************************************)
InsideLimits == \A r \in Requests : r.end < Max

(***************************************************************************)
(* A node that is in the list for good, until somebody releases its range: *)
(* its tryLock has returned.                                               *)
(***************************************************************************)
Settled(n) ==
  /\ n \in NewNodes /\ n \in linked /\ ~marked[n] /\ fullyLinked[n]
  /\ \A l \in Levels : l <= topLevel[n] => HasLevel(n, l)
  /\ \A u \in Threads : frame[u].find = "insert" => frame[u].node # n

(***************************************************************************)
(* A release that has not marked its victim yet looks for a settled node,  *)
(* which is nobody's any more, cannot miss it, and has found it.           *)
(***************************************************************************)
Releasing(f) == f.find = "exact" /\ ~f.isMarked

Claims(p, f, m) ==
  /\ Settled(m) /\ m \notin owned /\ range[m] = f.want
  /\ p \in {"find", "check", "victim", "mark"}
  /\ p = "find" => Seeks(f, m)
  /\ p # "find" => f.node = m /\ f.found = topLevel[m]

OwnInv ==
  /\ \A n \in owned : Settled(n)
  /\ \A t \in Threads : Releasing(frame[t]) =>
       \E m \in NewNodes : Claims(pc[t], frame[t], m)
  /\ \A t, u \in Threads : t # u /\ Releasing(frame[t]) /\ Releasing(frame[u])
       => frame[t].want # frame[u].want
  /\ \A t \in Threads : Placed(pc[t], frame[t]) => ~marked[frame[t].node]
  /\ \A t \in Threads :
       frame[t].find = "insert" /\ pc[t] \in {"count", "unlock"}
         => fullyLinked[frame[t].node]

(***************************************************************************)
(* A call of tryLock that finds an overlapping node in the list has met    *)
(* contention, and one that is refused has found one.                      *)
(***************************************************************************)
ContentionInv ==
  \A t \in Threads : frame[t].find = "insert" /\ frame[t].node \notin linked =>
    /\ \A n \in Locked : ClosedOverlap(range[n], frame[t].want)
         => contended[t]
    /\ pc[t] = "refuse" => contended[t]

-----------------------------------------------------------------------------
(***************************************************************************)
(* A step of thread t: what it does to the list, and to the others.        *)
(***************************************************************************)
Act(t) ==
  \/ \E r \in Requests, height \in Heights : TryLock(t, r, height)
  \/ \E r \in Requests : ReleaseLock(t, r)
  \/ Step(t)

Calm ==
  /\ next' = next /\ range' = range /\ topLevel' = topLevel
  /\ linked' = linked /\ \A l \in Levels : Level(l)' = Level(l)

OnlyMoves(t) ==
  \A u \in Threads \ {t} : pc'[u] = pc[u] /\ frame'[u] = frame[u]

(***************************************************************************)
(* Which step may write which variable: only Mark writes the marks, only   *)
(* SetFullyLinked the flags, only Link and Unlink the list, only Return    *)
(* and releaseLock what clients own, and only TryLock, Link and            *)
(* ReturnFalse whether a request was contended.                            *)
(***************************************************************************)
Writes(t) ==
  /\ ~Mark(t) => marked' = marked
  /\ ~SetFullyLinked(t) => fullyLinked' = fullyLinked
  /\ ~Link(t) /\ ~Unlink(t) =>
       /\ next' = next /\ range' = range /\ topLevel' = topLevel
       /\ linked' = linked /\ pc[t] # "unlink"
  /\ ~Return(t) /\ ~(\E r \in Requests : ReleaseLock(t, r)) => owned' = owned
  /\ ~Link(t) /\ ~ReturnFalse(t)
     /\ ~(\E r \in Requests, height \in Heights : TryLock(t, r, height)) =>
       contended' = contended

(***************************************************************************)
(* Every step writes only the variables that Writes allows it to.          *)
(***************************************************************************)
LEMMA ActWrites ==
  ASSUME NEW t \in Threads, Act(t)
  PROVE  Writes(t)
<1>1. CASE \E r \in Requests, height \in Heights : TryLock(t, r, height)
  BY <1>1 DEF Writes, TryLock, nodeVars
<1>2. CASE \E r \in Requests : ReleaseLock(t, r)
  BY <1>2 DEF Writes, ReleaseLock, nodeVars
<1>3. CASE ReadNext(t)
  BY <1>3 DEF Writes, ReadNext, nodeVars
<1>4. CASE Seen(t)
  BY <1>4 DEF Writes, Seen, nodeVars
<1>5. CASE ReturnFalse(t)
  BY <1>5 DEF Writes, ReturnFalse, nodeVars
<1>6. CASE LockPred(t)
  BY <1>6 DEF Writes, LockPred, nodeVars
<1>7. CASE Validate(t)
  BY <1>7 DEF Writes, Validate, nodeVars
<1>8. CASE Link(t)
  BY <1>8 DEF Writes, Link
<1>9. CASE SetFullyLinked(t)
  BY <1>9 DEF Writes, SetFullyLinked
<1>10. CASE CountUp(t)
  BY <1>10 DEF Writes, CountUp, nodeVars
<1>11. CASE Return(t)
  BY <1>11 DEF Writes, Return, nodeVars
<1>12. CASE CheckVictim(t)
  BY <1>12 DEF Writes, CheckVictim, nodeVars
<1>13. CASE LockVictim(t)
  BY <1>13 DEF Writes, LockVictim, nodeVars
<1>14. CASE Mark(t)
  BY <1>14 DEF Writes, Mark
<1>15. CASE Unlink(t)
  BY <1>15 DEF Writes, Unlink
<1>16. CASE CountDown(t)
  BY <1>16 DEF Writes, CountDown, nodeVars
<1> QED
  BY <1>1, <1>2, <1>3, <1>4, <1>5, <1>6, <1>7, <1>8, <1>9, <1>10, <1>11,
     <1>12, <1>13, <1>14, <1>15, <1>16 DEF Act, Step

(***************************************************************************)
(* A thread takes a step only inside a call.                               *)
(***************************************************************************)
LEMMA StepBusy ==
  ASSUME NEW t \in Threads, Step(t)
  PROVE  pc[t] # "idle"
<1>1. CASE ReadNext(t) \/ Seen(t) \/ ReturnFalse(t) \/ LockPred(t)
  BY <1>1 DEF ReadNext, Seen, ReturnFalse, LockPred
<1>2. CASE Validate(t) \/ Link(t) \/ SetFullyLinked(t) \/ CountUp(t)
  BY <1>2 DEF Validate, Link, SetFullyLinked, CountUp
<1>3. CASE Return(t) \/ CheckVictim(t) \/ LockVictim(t)
  BY <1>3 DEF Return, CheckVictim, LockVictim
<1>4. CASE Mark(t) \/ Unlink(t) \/ CountDown(t)
  BY <1>4 DEF Mark, Unlink, CountDown
<1> QED BY <1>1, <1>2, <1>3, <1>4 DEF Step

(***************************************************************************)
(* A step of a thread moves no other thread.                               *)
(***************************************************************************)
LEMMA ActMoves ==
  ASSUME IInv, NEW t \in Threads, Act(t)
  PROVE  OnlyMoves(t)
<1>1. pc \in [Threads -> Labels] /\ frame \in [Threads -> Frames]
  BY DEF IInv, Types
<1>2. \E q : \E g : Go(t, q, g)
  <2>1. CASE \/ \E r \in Requests, height \in Heights : TryLock(t, r, height)
             \/ \E r \in Requests : ReleaseLock(t, r)
    BY <2>1 DEF TryLock, ReleaseLock
  <2>2. CASE ReadNext(t)
    BY <2>2 DEF ReadNext, Finish
  <2>3. CASE Link(t) \/ Unlink(t) \/ Validate(t) \/ Mark(t)
    <3>1. CASE Link(t)
      BY <3>1 DEF Link
    <3>2. CASE Unlink(t)
      BY <3>2 DEF Unlink
    <3>3. CASE Validate(t) \/ Mark(t)
      BY <3>3 DEF Validate, Mark
    <3> QED BY <2>3, <3>1, <3>2, <3>3
  <2>4. CASE \/ Seen(t) \/ ReturnFalse(t) \/ LockPred(t) \/ SetFullyLinked(t)
             \/ CountUp(t) \/ Return(t) \/ CheckVictim(t) \/ LockVictim(t)
             \/ CountDown(t)
    BY <2>4 DEF Seen, ReturnFalse, LockPred, SetFullyLinked, CountUp, Return,
                CheckVictim, LockVictim, CountDown
  <2> QED BY <2>1, <2>2, <2>3, <2>4 DEF Act, Step
<1> QED BY <1>1, <1>2 DEF Go, OnlyMoves

(***************************************************************************)
(* All steps but Link and Unlink leave the list as it is.                  *)
(***************************************************************************)
LEMMA ActCalm ==
  ASSUME IInv, IInv', NEW t \in Threads, Act(t), ~Link(t), ~Unlink(t)
  PROVE  Calm
<1>1. /\ next' = next /\ range' = range /\ topLevel' = topLevel
      /\ linked' = linked
  BY ActWrites DEF Writes
<1>2. OnlyMoves(t)
  BY ActMoves
<1>3. pc[t] # "unlink"
  BY ActWrites DEF Writes
<1>4. PICK q \in Labels, g \in Frames : q = pc'[t] /\ g = frame'[t]
  BY DEF IInv, Types
<1>5. Go(t, q, g)
  <2>1. /\ pc' \in [Threads -> Labels] /\ frame' \in [Threads -> Frames]
        /\ pc \in [Threads -> Labels] /\ frame \in [Threads -> Frames]
    BY DEF IInv, Types
  <2> QED BY <1>2, <1>4, <2>1 DEF Go, OnlyMoves
<1>6. q = "unlink" => g.node \in NewNodes /\ g.at = topLevel[g.node]
  <2> SUFFICES ASSUME q = "unlink"
               PROVE  g.node \in NewNodes /\ g.at = topLevel[g.node]
    OBVIOUS
  <2>1. Validate(t)
    <3>1. pc'[t] = "unlink" /\ pc \in [Threads -> Labels]
      BY <1>4 DEF IInv, Types
    <3>2. ~ReadNext(t)
      BY <3>1, ReadNextLabels
    <3>3. ASSUME \E p \in Labels \ {"unlink"} : \E h : Go(t, p, h) PROVE FALSE
      BY <3>1, <3>3 DEF Go
    <3>4. ~Seen(t) /\ ~ReturnFalse(t) /\ ~LockPred(t)
      BY <3>3 DEF Seen, ReturnFalse, LockPred, Labels
    <3>5. ~SetFullyLinked(t) /\ ~CountUp(t) /\ ~Return(t) /\ ~CountDown(t)
      BY <3>3 DEF SetFullyLinked, CountUp, Return, CountDown, Labels
    <3>6. ~CheckVictim(t) /\ ~LockVictim(t) /\ ~Mark(t)
      BY <3>3 DEF CheckVictim, LockVictim, Mark, Labels
    <3>7. /\ ~\E r \in Requests, height \in Heights : TryLock(t, r, height)
          /\ ~\E r \in Requests : ReleaseLock(t, r)
      BY <3>3 DEF TryLock, ReleaseLock, Labels
    <3> QED BY <3>2, <3>4, <3>5, <3>6, <3>7 DEF Act, Step
  <2>2. frame' = [frame EXCEPT ![t] = frame[t]] /\ frame[t].at = frame[t].top
    <3>1. pc'[t] = "unlink" /\ pc \in [Threads -> Labels]
      BY <1>4 DEF IInv, Types
    <3> QED BY <2>1, <3>1 DEF Validate, Go
  <2>3. g = frame[t]
    BY <1>4, <2>2 DEF IInv, Types
  <2>4. FrameOK(t, "validate", g) /\ g.find # "insert"
    <3>1. FrameOK(t, "validate", g)
      BY <2>1, <2>3 DEF Validate, IInv
    <3>2. FrameOK(t, q, g)'
      BY <1>4 DEF IInv
    <3> QED BY <3>1, <3>2 DEF FrameOK, ExactLabels
  <2>5. g.isMarked
    BY <2>4 DEF FrameOK, Frames
  <2> QED BY <2>2, <2>3, <2>4, <2>5 DEF FrameOK, Removes
<1>7. \A l \in Levels : Level(l)' = Level(l)
  BY <1>1, <1>3, <1>5, <1>6, SameLevels
<1> QED BY <1>1, <1>7 DEF Calm

(***************************************************************************)
(* A settled node is in the list of all its levels.                        *)
(***************************************************************************)
LEMMA SettledInLevels ==
  ASSUME IInv, NEW m, Settled(m)
  PROVE  /\ m \in NewNodes /\ m \in Node_V1 /\ Published(m)
         /\ \A l \in Levels : l <= topLevel[m] => m \in Level(l)
<1>1. m \in NewNodes /\ m \in Node_V1
  BY DEF Settled, Node_V1
<1>2. \A l \in Levels : l <= topLevel[m] => m \in Level(l)
  BY UnmarkedInLevel DEF Settled
<1>3. Published(m)
  BY <1>1 DEF Settled, IInv, ListInv, Nodes
<1> QED BY <1>1, <1>2, <1>3

(***************************************************************************)
(* A search for a settled node goes on undisturbed by the steps of others. *)
(***************************************************************************)
LEMMA SettledSought ==
  ASSUME IInv, IInv', NEW t \in Threads, Act(t), NEW m, Settled(m),
         NEW f \in Frames, Seeks(f, m)
  PROVE  Seeks(f, m)'
<1>1. /\ m \in NewNodes /\ m \in Node_V1 /\ Published(m)
      /\ \A l \in Levels : l <= topLevel[m] => m \in Level(l)
  BY SettledInLevels
<1>2. CASE Link(t)
  <2>1. PICK n, p, c, a : Links(n, p, c, a) /\ n = frame[t].node
    BY <1>2, LinkStep
  <2>2. n # m
    <3>1. frame[t].find = "insert"
      BY <1>2 DEF Link, IInv, FrameOK, InsertLabels
    <3> QED BY <2>1, <3>1 DEF Settled
  <2>3. Disjoint'
    BY DEF IInv, ListInv
  <2> QED BY <1>1, <2>1, <2>2, <2>3, LinksSeeks
<1>3. CASE Unlink(t)
  <2>1. PICK n, p, c, a : Unlinks(n, p, c, a)
    BY <1>3, UnlinkStep
  <2>2. n # m
    BY <2>1 DEF Settled, Unlinks
  <2> QED BY <1>1, <2>1, <2>2, UnlinksSeeks
<1>4. CASE ~Link(t) /\ ~Unlink(t)
  <2>1. Calm
    BY <1>4, ActCalm
  <2>2. Stays(m)
    BY <1>1, <2>1 DEF Stays, Calm
  <2> QED BY <2>1, <2>2, QuietSeeks DEF Calm
<1> QED BY <1>2, <1>3, <1>4

-----------------------------------------------------------------------------
(***************************************************************************)
(* A step of a search: where it goes, and that one which cannot miss a     *)
(* node still cannot, or has found it.                                     *)
(***************************************************************************)
LEMMA SearchStep ==
  ASSUME IInv, NEW t \in Threads, ReadNext(t), NEW f \in Frames, f = frame[t]
  PROVE  \E g \in Frames :
           /\ g = frame'[t] /\ g.find = f.find /\ g.want = f.want
           /\ g.isMarked = f.isMarked
           /\ f.find = "insert" =>
                g.node = f.node /\ pc'[t] \in {"find", "seen", "lock"}
           /\ \A m \in NewNodes :
                /\ Seeks(f, m) /\ Published(m) /\ range[m] = f.want
                /\ f.find = "exact" /\ ~f.isMarked
                => \/ pc'[t] = "find" /\ Seeks(g, m)
                   \/ pc'[t] = "check" /\ g.node = m /\ g.found = topLevel[m]
<1>1. PICK c : Reads(f, c)
  BY DEF Reads
<1>2. PICK e : Notes(f, c, e)
  BY DEF Notes
<1>3. FrameOK(t, "find", f) /\ f.find \in {"insert", "exact"}
  BY DEF IInv, ReadNext, FrameOK, Frames
<1>4. Searches(f) /\ f.want \in Requests /\ f.lvl \in Levels
  BY <1>3 DEF FrameOK, Frames
<1>5. \/ Passes(f, c) /\ Go(t, "find", [f EXCEPT !.pred = c])
      \/ /\ ~Passes(f, c) /\ f.lvl > 0
         /\ Go(t, "find", [e EXCEPT !.lvl = e.lvl - 1])
      \/ ~Passes(f, c) /\ f.lvl = 0 /\ Finish(t, e)
  <2>1. next[f.pred][f.lvl] # Null
    BY ReadsNode DEF ReadNext
  <2> QED BY <1>1, <1>2, <2>1 DEF ReadNext, Reads, Notes, Note
<1>6. CASE Passes(f, c) /\ Go(t, "find", [f EXCEPT !.pred = c])
  <2>1. c \in Node_V1
    <3>1. HasLevel(f.pred, f.lvl) /\ f.pred # tail
      BY <1>4 DEF Searches
    <3> QED BY <1>1, <1>4, <3>1, LevelFacts DEF IInv, Reads
  <2>2. PICK g : g = [f EXCEPT !.pred = c]
    OBVIOUS
  <2>3. /\ g \in Frames /\ g.find = f.find /\ g.want = f.want
        /\ g.isMarked = f.isMarked /\ g.node = f.node /\ g.lvl = f.lvl
        /\ g.pred = c /\ g.found = f.found /\ g.succs = f.succs
    BY <2>1, <2>2 DEF Frames
  <2>4. pc'[t] = "find" /\ g = frame'[t]
    BY <1>6, <2>2 DEF Go, IInv, Types
  <2>5. ASSUME NEW m \in NewNodes, Seeks(f, m), Published(m),
               range[m] = f.want
        PROVE  Seeks(g, m)
    <3>1. \E G \in [Levels -> SUBSET Node_V1] : Leads(G, m) /\ c \in G[f.lvl]
      BY <1>1, <1>6, <2>5, SeeksMeets
    <3> QED BY <2>3, <2>5, <3>1 DEF Seeks
  <2> QED BY <2>3, <2>4, <2>5
<1>7. CASE ~Passes(f, c)
  <2>1. /\ e \in Frames /\ e.find = f.find /\ e.want = f.want
        /\ e.node = f.node /\ e.isMarked = f.isMarked /\ e.lvl = f.lvl
        /\ e.pred = f.pred
    BY <1>1, <1>2, <1>4, <1>7, NoteFacts
  <2>2. ASSUME NEW m \in NewNodes, Seeks(f, m), Published(m),
               range[m] = f.want, f.find = "exact"
        PROVE  /\ topLevel[m] < f.lvl => e.found = NotFound
               /\ f.lvl <= topLevel[m] =>
                    e.found = topLevel[m] /\ e.succs[e.found] = m
    BY <1>1, <1>2, <1>4, <1>7, <2>2, NoteSeeks
  <2>3. CASE f.lvl > 0 /\ Go(t, "find", [e EXCEPT !.lvl = e.lvl - 1])
    <3>1. PICK k : k = f.lvl - 1
      OBVIOUS
    <3>2. k \in Levels /\ k < f.lvl /\ k <= f.lvl /\ f.lvl = k + 1 /\ k \in Int
      BY <1>4, <2>3, <3>1, V1Assumption DEF Levels
    <3>3. PICK g : g = [e EXCEPT !.lvl = k]
      OBVIOUS
    <3>4. /\ g \in Frames /\ g.find = e.find /\ g.want = e.want
          /\ g.isMarked = e.isMarked /\ g.node = e.node /\ g.lvl = k
          /\ g.pred = e.pred /\ g.found = e.found /\ g.succs = e.succs
      BY <2>1, <3>2, <3>3 DEF Frames
    <3>5. pc'[t] = "find" /\ g = frame'[t]
      BY <2>1, <2>3, <3>1, <3>3 DEF Go, IInv, Types
    <3>6. ASSUME NEW m \in NewNodes, Seeks(f, m), Published(m),
                 range[m] = f.want, f.find = "exact"
          PROVE  Seeks(g, m)
      <4>1. \E G \in [Levels -> SUBSET Node_V1] :
              Leads(G, m) /\ f.pred \in G[k]
        BY <1>1, <3>2, <3>6, SeeksMeets
      <4>2. topLevel[m] \in Levels
        BY DEF IInv, Types, Node_V1
      <4>3. /\ topLevel[m] <= k => topLevel[m] < f.lvl
            /\ topLevel[m] > k => f.lvl <= topLevel[m]
        BY <3>2, <4>2, V1Assumption DEF Levels
      <4> QED BY <2>1, <2>2, <3>4, <3>6, <4>1, <4>3 DEF Seeks
    <3> QED BY <2>1, <3>4, <3>5, <3>6
  <2>4. CASE f.lvl = 0 /\ Finish(t, e)
    <3>1. PICK n : n = IF e.find = "exact" /\ e.found # NotFound
                       THEN e.succs[e.found] ELSE e.node
      OBVIOUS
    <3>2. n \in Node_V1 /\ head \in Node_V1
      <4>1. e.found \in Levels \cup {NotFound} /\ e.node \in Node_V1
        BY <2>1 DEF Frames
      <4>2. e.succs \in [Levels -> Node_V1]
        BY <2>1 DEF Frames
      <4> QED BY <3>1, <4>1, <4>2 DEF Node_V1
    <3>3. PICK g : g = [e EXCEPT !.pred = head, !.node = n]
      OBVIOUS
    <3>4. /\ g \in Frames /\ g.find = e.find /\ g.want = e.want
          /\ g.isMarked = e.isMarked /\ g.node = n /\ g.found = e.found
      BY <2>1, <3>2, <3>3 DEF Frames
    <3>5. Go(t, AfterFind(e), g)
      BY <2>4, <3>1, <3>3 DEF Finish
    <3>6. pc'[t] = AfterFind(e) /\ g = frame'[t]
      BY <3>5 DEF Go, IInv, Types
    <3>7. f.find = "insert" => n = f.node /\ AfterFind(e) \in {"seen", "lock"}
      BY <2>1, <3>1 DEF AfterFind
    <3>8. ASSUME NEW m \in NewNodes, Seeks(f, m), Published(m),
                 range[m] = f.want, f.find = "exact", ~f.isMarked
          PROVE  AfterFind(e) = "check" /\ n = m /\ e.found = topLevel[m]
      <4>1. topLevel[m] \in Levels
        BY DEF IInv, Types, Node_V1
      <4>2. f.lvl <= topLevel[m] /\ topLevel[m] # NotFound
        BY <2>4, <4>1, V1Assumption DEF Levels, NotFound
      <4>3. e.found = topLevel[m] /\ e.succs[e.found] = m
        BY <2>2, <3>8, <4>2
      <4> QED BY <2>1, <3>1, <3>8, <4>2, <4>3 DEF AfterFind
    <3> QED BY <2>1, <3>4, <3>6, <3>7, <3>8
  <2> QED BY <1>5, <1>7, <2>3, <2>4
<1> QED BY <1>5, <1>6, <1>7

(***************************************************************************)
(* What a step leaves of the nodes that have been linked.                  *)
(***************************************************************************)
LEMMA ActKeeps ==
  ASSUME IInv, IInv', NEW t \in Threads, Act(t)
  PROVE  /\ \A n \in Node_V1, l \in Levels : HasLevel(n, l) => HasLevel(n, l)'
         /\ \A n \in Node_V1 : Published(n) =>
              range'[n] = range[n] /\ topLevel'[n] = topLevel[n]
         /\ \A n \in linked : ~marked[n] => n \in linked'
<1>1. CASE Link(t)
  <2>1. Stable
    BY <1>1, LinkStep
  <2>2. linked \subseteq linked'
    BY <1>1 DEF Link
  <2> QED BY <2>1, <2>2 DEF Stable
<1>2. CASE Unlink(t)
  <2>1. Stable
    BY <1>2, UnlinkStep
  <2>2. PICK n, p, c, a : Unlinks(n, p, c, a)
    BY <1>2, UnlinkStep
  <2>3. marked[n] /\ linked \ {n} \subseteq linked'
    BY <2>2 DEF Unlinks
  <2> QED BY <2>1, <2>3 DEF Stable
<1>3. CASE ~Link(t) /\ ~Unlink(t)
  <2>1. Calm
    BY <1>3, ActCalm
  <2> QED BY <2>1 DEF Calm, HasLevel
<1> QED BY <1>1, <1>2, <1>3

(***************************************************************************)
(* A call of tryLock keeps its node, and a new one gets a new node.        *)
(***************************************************************************)
LEMMA ActNode ==
  ASSUME IInv, IInv', NEW t \in Threads, Act(t),
         NEW f \in Frames, f = frame[t], NEW g \in Frames, g = frame'[t],
         g.find = "insert"
  PROVE  \/ f.find = "insert" /\ g.node = f.node /\ g.want = f.want
         \/ pc[t] = "idle" /\ g.node = calls + 1
<1>1. pc \in [Threads -> Labels] /\ frame \in [Threads -> Frames]
  BY DEF IInv, Types
<1>2. ASSUME NEW h, NEW q, Go(t, q, h) PROVE g = h
  BY <1>1, <1>2 DEF Go
<1>3. CASE \E r \in Requests, height \in Heights : TryLock(t, r, height)
  <2>1. PICK r \in Requests, height \in Heights : TryLock(t, r, height)
    BY <1>3
  <2>2. calls + 1 \in NewNodes
    BY <2>1, V1Assumption DEF TryLock, IInv, Types, NewNodes
  <2>3. r \in RangesOver(Int) /\ height \in Levels /\ calls + 1 \in Node_V1
    BY <2>2, V1Assumption DEF Heights, Levels, Node_V1
  <2>4. PICK h : h = [Rest EXCEPT !.want = r, !.top = height,
                                  !.node = calls + 1]
    OBVIOUS
  <2>5. h \in Frames /\ h.node = calls + 1
    BY <2>3, <2>4, RestType DEF Frames
  <2>6. g = StartFind(h, "insert") /\ pc[t] = "idle"
    BY <1>2, <2>1, <2>4 DEF TryLock
  <2>7. g.node = h.node
    BY <2>5, <2>6, StartFindFacts
  <2> QED BY <2>5, <2>6, <2>7
<1>4. CASE \E r \in Requests : ReleaseLock(t, r)
  <2>1. PICK r \in Requests : ReleaseLock(t, r)
    BY <1>4
  <2>2. PICK h : h = [Rest EXCEPT !.want = r]
    OBVIOUS
  <2>3. h \in Frames
    BY <2>2, RestType, V1Assumption DEF Frames
  <2>4. g = StartFind(h, "exact")
    BY <1>2, <2>1, <2>2 DEF ReleaseLock
  <2>5. g.find = "exact"
    BY <2>3, <2>4, StartFindFacts
  <2> QED BY <2>5
<1>5. CASE ReadNext(t)
  BY <1>5, SearchStep
<1>6. CASE ReturnFalse(t) \/ Return(t)
  <2>1. g = Rest
    BY <1>2, <1>6 DEF ReturnFalse, Return
  <2> QED BY <2>1 DEF Rest
<1>7. CASE Seen(t)
  <2>1. g = f \/ g = StartFind(f, "insert")
    BY <1>2, <1>7 DEF Seen
  <2>2. f.find = "insert"
    BY <1>7 DEF Seen, IInv, FrameOK, InsertLabels
  <2> QED BY <2>1, <2>2, StartFindFacts
<1>8. CASE Validate(t)
  <2>1. FrameOK(t, "validate", f) /\ f.find \in {"insert", "exact"}
    BY <1>8 DEF Validate, IInv, FrameOK, Frames
  <2>2. \/ g = f
        \/ \E i : g = [f EXCEPT !.at = i]
        \/ g = StartFind(f, f.find)
    BY <1>2, <1>8 DEF Validate
  <2>3. ASSUME NEW i, g = [f EXCEPT !.at = i]
        PROVE  g.find = f.find /\ g.node = f.node /\ g.want = f.want
    BY <2>3 DEF Frames
  <2>4. g = StartFind(f, f.find) =>
          g.find = f.find /\ g.node = f.node /\ g.want = f.want
    BY <2>1, StartFindFacts
  <2> QED BY <2>2, <2>3, <2>4
<1>9. CASE Link(t) \/ Unlink(t)
  <2>1. g = f \/ \E i : g = [f EXCEPT !.at = i]
    <3>1. CASE Link(t)
      BY <1>2, <3>1 DEF Link
    <3>2. CASE Unlink(t)
      BY <1>2, <3>2 DEF Unlink
    <3> QED BY <1>9, <3>1, <3>2
  <2>2. ASSUME NEW i, g = [f EXCEPT !.at = i]
        PROVE  g.find = f.find /\ g.node = f.node /\ g.want = f.want
    BY <2>2 DEF Frames
  <2> QED BY <2>1, <2>2
<1>10. CASE Mark(t)
  <2>1. g = f \/ \E i : g = [f EXCEPT !.isMarked = TRUE, !.at = 0, !.top = i]
    BY <1>2, <1>10 DEF Mark
  <2>2. ASSUME NEW i, g = [f EXCEPT !.isMarked = TRUE, !.at = 0, !.top = i]
        PROVE  g.find = f.find /\ g.node = f.node /\ g.want = f.want
    BY <2>2 DEF Frames
  <2> QED BY <2>1, <2>2
<1>11. CASE \/ LockPred(t) \/ SetFullyLinked(t) \/ CountUp(t)
            \/ CheckVictim(t) \/ LockVictim(t) \/ CountDown(t)
  <2>1. g = f
    BY <1>2, <1>11 DEF LockPred, SetFullyLinked, CountUp, CheckVictim,
                       LockVictim, CountDown
  <2> QED BY <2>1
<1> QED BY <1>3, <1>4, <1>5, <1>6, <1>7, <1>8, <1>9, <1>10, <1>11
        DEF Act, Step

(***************************************************************************)
(* A settled node stays so while no release marks it.                      *)
(***************************************************************************)
LEMMA SettledStays ==
  ASSUME IInv, IInv', NEW t \in Threads, Act(t), NEW n, Settled(n),
         Mark(t) => frame[t].node # n
  PROVE  /\ Settled(n)' /\ range'[n] = range[n] /\ topLevel'[n] = topLevel[n]
<1>1. /\ n \in NewNodes /\ n \in Node_V1 /\ Published(n) /\ n \in linked
      /\ ~marked[n] /\ fullyLinked[n]
      /\ \A l \in Levels : l <= topLevel[n] => HasLevel(n, l)
      /\ \A u \in Threads : frame[u].find = "insert" => frame[u].node # n
  BY SettledInLevels DEF Settled
<1>2. /\ range'[n] = range[n] /\ topLevel'[n] = topLevel[n] /\ n \in linked'
      /\ \A l \in Levels : HasLevel(n, l) => HasLevel(n, l)'
  BY <1>1, ActKeeps
<1>3. ~marked'[n]
  <2>1. CASE Mark(t)
    <3>1. frame[t].node # n /\ marked' = [marked EXCEPT ![frame[t].node] = TRUE]
      BY <2>1 DEF Mark
    <3> QED BY <1>1, <3>1 DEF IInv, Types
  <2>2. CASE ~Mark(t)
    <3>1. marked' = marked
      BY <2>2, ActWrites DEF Writes
    <3> QED BY <1>1, <3>1
  <2> QED BY <2>1, <2>2
<1>4. fullyLinked'[n]
  <2>1. CASE SetFullyLinked(t)
    <3>1. fullyLinked' = [fullyLinked EXCEPT ![frame[t].node] = TRUE]
      BY <2>1 DEF SetFullyLinked
    <3> QED BY <1>1, <3>1 DEF IInv, Types
  <2>2. CASE ~SetFullyLinked(t)
    <3>1. fullyLinked' = fullyLinked
      BY <2>2, ActWrites DEF Writes
    <3> QED BY <1>1, <3>1
  <2> QED BY <2>1, <2>2
<1>5. ASSUME NEW u \in Threads, frame'[u].find = "insert"
      PROVE  frame'[u].node # n
  <2>1. CASE u # t
    <3>1. frame'[u] = frame[u]
      BY <2>1, ActMoves DEF OnlyMoves
    <3> QED BY <1>1, <1>5, <3>1
  <2>2. CASE u = t
    <3>1. PICK f \in Frames, g \in Frames : f = frame[t] /\ g = frame'[t]
      BY DEF IInv, Types
    <3>2. \/ f.find = "insert" /\ g.node = f.node
          \/ g.node = calls + 1
      BY <1>5, <2>2, <3>1, ActNode
    <3>3. n <= calls /\ n \in Int /\ calls \in Int
      BY <1>1 DEF IInv, ListInv, Nodes, Types, NewNodes
    <3> QED BY <1>1, <2>2, <3>1, <3>2, <3>3
  <2> QED BY <2>1, <2>2
<1> QED BY <1>1, <1>2, <1>3, <1>4, <1>5 DEF Settled

-----------------------------------------------------------------------------
(***************************************************************************)
(* A range is locked by one node only.                                     *)
(***************************************************************************)
LEMMA OneNode ==
  ASSUME IInv, NEW m \in NewNodes, NEW n \in NewNodes,
         m \in linked, n \in linked, range[m] = range[n]
  PROVE  m = n
<1>1. Published(m) /\ Published(n)
  BY DEF IInv, ListInv, Nodes
<1>2. /\ Start(m) \in Int /\ End(m) \in Int /\ Start(m) < End(m)
  BY <1>1, PublishedFacts, V1Assumption DEF IInv
<1>3. Start(m) = Start(n) /\ End(m) = End(n)
  BY DEF Start, End
<1>4. ~Before(m, n) /\ ~Before(n, m)
  BY <1>2, <1>3 DEF Before
<1> QED BY <1>4 DEF IInv, ListInv, Disjoint

(***************************************************************************)
(* Nobody marks the node of a tryLock that has not returned.               *)
(***************************************************************************)
LEMMA InsertUnmarked ==
  ASSUME IInv, OwnInv, NEW t \in Threads, frame[t].find = "insert"
  PROVE  ~marked[frame[t].node]
<1>1. PICK f \in Frames : f = frame[t]
  BY DEF IInv, Types
<1>2. CASE Placed(pc[t], f)
  BY <1>1, <1>2 DEF OwnInv
<1>3. CASE Placing(pc[t], f)
  <2>1. f.node \in NewNodes /\ \A l \in Levels : next[f.node][l] = Null
    BY <1>1, <1>3 DEF IInv, FrameOK, Inserts
  <2>2. 0 \in Levels /\ topLevel[f.node] \in Levels /\ 0 <= topLevel[f.node]
    BY <2>1, V1Assumption DEF IInv, Types, Levels, Node_V1
  <2>3. ~HasLevel(f.node, 0)
    BY <2>1, <2>2, V1Assumption DEF HasLevel
  <2> QED BY <1>1, <2>1, <2>2, <2>3 DEF IInv, ListInv, Nodes
<1> QED BY <1>1, <1>2, <1>3, InsertPhases

(***************************************************************************)
(* A release marks the node that it claims, and is the first to.           *)
(***************************************************************************)
LEMMA MarkClaimed ==
  ASSUME IInv, OwnInv, NEW t \in Threads, Mark(t)
  PROVE  /\ Releasing(frame[t]) /\ Claims("mark", frame[t], frame[t].node)
         /\ ~marked[frame[t].node]
<1>1. PICK f \in Frames : f = frame[t]
  BY DEF IInv, Types
<1>2. pc[t] = "mark" /\ FrameOK(t, "mark", f)
  BY <1>1 DEF Mark, IInv
<1>3. Releasing(f)
  BY <1>2 DEF FrameOK, ExactLabels, Removes, Releasing
<1>4. PICK m \in NewNodes : Claims("mark", f, m)
  BY <1>1, <1>2, <1>3 DEF OwnInv
<1>5. m = f.node /\ ~marked[m]
  BY <1>4 DEF Claims, Settled
<1> QED BY <1>1, <1>3, <1>4, <1>5

(***************************************************************************)
(* Owned nodes, and nodes that other releases claim, are not marked.       *)
(***************************************************************************)
LEMMA MarkSpares ==
  ASSUME IInv, OwnInv, NEW t \in Threads, Mark(t)
  PROVE  /\ \A n \in owned : frame[t].node # n
         /\ \A u \in Threads \ {t}, m \in NewNodes :
              Releasing(frame[u]) /\ Claims(pc[u], frame[u], m)
                => frame[t].node # m
<1>1. /\ Releasing(frame[t]) /\ Claims("mark", frame[t], frame[t].node)
  BY MarkClaimed
<1>2. frame[t].node \notin owned /\ range[frame[t].node] = frame[t].want
  BY <1>1 DEF Claims
<1>3. ASSUME NEW u \in Threads \ {t}, NEW m \in NewNodes,
             Releasing(frame[u]), Claims(pc[u], frame[u], m)
      PROVE  frame[t].node # m
  <2>1. frame[t].want # frame[u].want
    BY <1>1, <1>3 DEF OwnInv
  <2>2. range[m] = frame[u].want
    BY <1>3 DEF Claims
  <2> QED BY <1>2, <2>1, <2>2
<1> QED BY <1>2, <1>3

(***************************************************************************)
(* Where a release is that has not marked its victim.                      *)
(***************************************************************************)
LEMMA ActReleasing ==
  ASSUME IInv, IInv', NEW t \in Threads, Act(t),
         NEW f \in Frames, f = frame[t], NEW g \in Frames, g = frame'[t],
         Releasing(g)
  PROVE  \/ \E r \in Requests : ReleaseLock(t, r)
         \/ ReadNext(t)
         \/ (CheckVictim(t) \/ LockVictim(t)) /\ g = f
         \/ Mark(t) /\ marked[f.node]
<1>1. pc \in [Threads -> Labels] /\ frame \in [Threads -> Frames]
  BY DEF IInv, Types
<1>2. ASSUME NEW h, NEW q, Go(t, q, h) PROVE g = h /\ pc'[t] = q
  BY <1>1, <1>2 DEF Go
<1>3. FrameOK(t, pc[t], g)'
  BY DEF IInv
<1>4. /\ g.find = "exact" /\ ~g.isMarked
      /\ pc'[t] \notin {"idle", "lock", "validate", "unlink", "uncount",
                        "unlock", "refuse", "link", "full", "count"}
  BY <1>3 DEF FrameOK, Releasing, InsertLabels
<1>5. ~\E r \in Requests, height \in Heights : TryLock(t, r, height)
  <2> SUFFICES ASSUME NEW r \in Requests, NEW height \in Heights,
                      TryLock(t, r, height)
               PROVE  FALSE
    OBVIOUS
  <2>1. calls + 1 \in NewNodes
    BY V1Assumption DEF TryLock, IInv, Types, NewNodes
  <2>2. r \in RangesOver(Int) /\ height \in Levels /\ calls + 1 \in Node_V1
    BY <2>1, V1Assumption DEF Heights, Levels, Node_V1
  <2>3. PICK h : h = [Rest EXCEPT !.want = r, !.top = height,
                                  !.node = calls + 1]
    OBVIOUS
  <2>4. h \in Frames
    BY <2>2, <2>3, RestType DEF Frames
  <2>5. g = StartFind(h, "insert")
    BY <1>2, <2>3 DEF TryLock
  <2> QED BY <1>4, <2>4, <2>5, StartFindFacts
<1>6. ~Seen(t)
  <2> SUFFICES ASSUME Seen(t) PROVE FALSE
    OBVIOUS
  <2>1. g = StartFind(f, "insert")
    BY <1>2, <1>4 DEF Seen
  <2> QED BY <1>4, <2>1, StartFindFacts
<1>7. ~Validate(t)
  <2> SUFFICES ASSUME Validate(t) PROVE FALSE
    OBVIOUS
  <2>1. g = StartFind(f, f.find)
    BY <1>2, <1>4 DEF Validate
  <2>2. FrameOK(t, "validate", f) /\ f.find \in {"insert", "exact"}
    BY DEF Validate, IInv, FrameOK, Frames
  <2>3. f.isMarked /\ g.isMarked = f.isMarked
    BY <1>4, <2>1, <2>2, StartFindFacts DEF FrameOK
  <2> QED BY <1>4, <2>3
<1>8. ~ReturnFalse(t) /\ ~LockPred(t) /\ ~Link(t) /\ ~SetFullyLinked(t)
  BY <1>2, <1>4 DEF ReturnFalse, LockPred, Link, SetFullyLinked
<1>9. ~CountUp(t) /\ ~Return(t) /\ ~Unlink(t) /\ ~CountDown(t)
  BY <1>2, <1>4 DEF CountUp, Return, Unlink, CountDown
<1>10. CheckVictim(t) \/ LockVictim(t) => g = f
  BY <1>2 DEF CheckVictim, LockVictim
<1>11. Mark(t) => marked[f.node]
  BY <1>2, <1>4 DEF Mark
<1> QED BY <1>5, <1>6, <1>7, <1>8, <1>9, <1>10, <1>11 DEF Act, Step

(***************************************************************************)
(* How a step changes what is owned: a tryLock that returns adds its node, *)
(* and a release gives one up.                                             *)
(***************************************************************************)
LEMMA ActOwned ==
  ASSUME IInv, NEW t \in Threads, Act(t)
  PROVE  /\ \A n \in owned' : n \in owned \/ (/\ Return(t) /\ n = frame[t].node
                                              /\ frame[t].find = "insert")
         /\ ~(\E r \in Requests : ReleaseLock(t, r)) /\ ~Return(t) =>
              owned' = owned
<1>1. CASE Return(t)
  BY <1>1 DEF Return
<1>2. CASE \E r \in Requests : ReleaseLock(t, r)
  BY <1>2 DEF ReleaseLock
<1>3. CASE ~Return(t) /\ ~\E r \in Requests : ReleaseLock(t, r)
  BY <1>3, ActWrites DEF Writes
<1> QED BY <1>1, <1>2, <1>3

(***************************************************************************)
(* What is owned is settled: also the node of a tryLock that returns.      *)
(***************************************************************************)
LEMMA OwnedSettled ==
  ASSUME IInv, IInv', OwnInv, NEW t \in Threads, Act(t), NEW n \in owned'
  PROVE  Settled(n)'
<1>1. CASE n \in owned
  <2>1. Settled(n)
    BY <1>1 DEF OwnInv
  <2>2. Mark(t) => frame[t].node # n
    BY <1>1, MarkSpares
  <2> QED BY <2>1, <2>2, SettledStays
<1>2. CASE n \notin owned
  <2>1. Return(t) /\ n = frame[t].node /\ frame[t].find = "insert"
    BY <1>2, ActOwned
  <2>2. PICK f \in Frames : f = frame[t]
    BY DEF IInv, Types
  <2>3. FrameOK(t, "unlock", f) /\ Placed("unlock", f) /\ n = f.node
    BY <2>1, <2>2 DEF Return, IInv, Placed
  <2>4. /\ n \in NewNodes /\ n \in linked /\ topLevel[n] = f.top
        /\ \A l \in Levels : l <= f.top => next[n][l] # Null
    BY <2>1, <2>2, <2>3 DEF FrameOK, Inserts, Joined
  <2>5. ~marked[n] /\ fullyLinked[n]
    BY <2>1, <2>2, <2>3 DEF OwnInv, Return
  <2>6. /\ next' = next /\ linked' = linked /\ topLevel' = topLevel
        /\ marked' = marked /\ fullyLinked' = fullyLinked
        /\ Go(t, "idle", Rest)
    BY <2>1 DEF Return, nodeVars
  <2>7. ASSUME NEW u \in Threads, frame'[u].find = "insert"
        PROVE  frame'[u].node # n
    <3>1. CASE u = t
      <4>1. frame'[t] = Rest
        BY <2>6 DEF Go, IInv, Types
      <4> QED BY <2>7, <3>1, <4>1 DEF Rest
    <3>2. CASE u # t
      <4>1. frame'[u] = frame[u]
        BY <2>6, <3>2 DEF Go, IInv, Types
      <4> QED BY <2>1, <2>7, <3>2, <4>1 DEF IInv, Distinct
    <3> QED BY <3>1, <3>2
  <2>8. \A l \in Levels : l <= topLevel'[n] => HasLevel(n, l)'
    BY <2>4, <2>6 DEF HasLevel, Node_V1
  <2> QED BY <2>4, <2>5, <2>6, <2>7, <2>8 DEF Settled
<1> QED BY <1>1, <1>2

(***************************************************************************)
(* A release whose thread does not take the step keeps its claim.          *)
(***************************************************************************)
LEMMA OthersClaim ==
  ASSUME IInv, IInv', OwnInv, NEW t \in Threads, Act(t),
         NEW u \in Threads \ {t}, Releasing(frame'[u])
  PROVE  \E m \in NewNodes : Claims(pc[u], frame[u], m)'
<1>1. PICK p \in Labels, f \in Frames :
        p = pc[u] /\ f = frame[u] /\ p = pc'[u] /\ f = frame'[u]
  <2>1. pc'[u] = pc[u] /\ frame'[u] = frame[u]
    BY ActMoves DEF OnlyMoves
  <2> QED BY <2>1 DEF IInv, Types
<1>2. PICK m \in NewNodes : Claims(p, f, m)
  BY <1>1 DEF OwnInv
<1>3. Settled(m)
  BY <1>2 DEF Claims
<1>4. Mark(t) => frame[t].node # m
  BY <1>1, <1>2, MarkSpares
<1>5. Settled(m)' /\ range'[m] = range[m] /\ topLevel'[m] = topLevel[m]
  BY <1>3, <1>4, SettledStays
<1>6. m \notin owned'
  <2>1. m \notin owned
    BY <1>2 DEF Claims
  <2>2. frame[t].find = "insert" => frame[t].node # m
    BY <1>3 DEF Settled
  <2> QED BY <2>1, <2>2, ActOwned
<1>7. p = "find" => Seeks(f, m)'
  BY <1>2, <1>3, SettledSought DEF Claims
<1>8. Claims(p, f, m)'
  BY <1>2, <1>5, <1>6, <1>7 DEF Claims
<1> QED BY <1>1, <1>8

(***************************************************************************)
(* A release that begins claims the node of its range, and is the only     *)
(* one.                                                                    *)
(***************************************************************************)
LEMMA BeginsClaim ==
  ASSUME IInv, IInv', OwnInv, ProperUse, NEW t \in Threads,
         NEW r \in Requests, ReleaseLock(t, r)
  PROVE  /\ \E m \in NewNodes : Claims(pc[t], frame[t], m)'
         /\ frame'[t].want = r
         /\ \A u \in Threads \ {t} : Releasing(frame[u]) => frame[u].want # r
<1>1. PICK m \in owned : range[m] = r
  BY DEF ReleaseLock, ProperUse
<1>2. Settled(m) /\ m \in NewNodes
  BY <1>1 DEF OwnInv, IInv, Types
<1>3. PICK h : h = [Rest EXCEPT !.want = r]
  OBVIOUS
<1>4. h \in Frames /\ h.want = r
  BY <1>3, RestType, V1Assumption DEF Frames
<1>5. PICK g : g = StartFind(h, "exact")
  OBVIOUS
<1>6. /\ g \in Frames /\ g.lvl = MaxLevel /\ g.pred = head
      /\ g.found = NotFound /\ g.want = r
  BY <1>4, <1>5, StartFindFacts
<1>7. pc'[t] = "find" /\ frame'[t] = g
  BY <1>3, <1>5 DEF ReleaseLock, Go, IInv, Types
<1>8. Seeks(g, m)
  BY <1>2, <1>6, SeeksBegins, SettledInLevels
<1>9. Act(t) /\ ~Mark(t)
  BY DEF Act, ReleaseLock, Mark
<1>10. Seeks(g, m)' /\ Settled(m)' /\ range'[m] = r
  BY <1>1, <1>2, <1>6, <1>8, <1>9, SettledSought, SettledStays
<1>11. m \notin owned'
  BY <1>1 DEF ReleaseLock
<1>12. Claims("find", g, m)'
  BY <1>6, <1>10, <1>11 DEF Claims
<1>13. ASSUME NEW u \in Threads \ {t}, Releasing(frame[u]), frame[u].want = r
       PROVE  FALSE
  <2>1. PICK k \in NewNodes : Claims(pc[u], frame[u], k)
    BY <1>13 DEF OwnInv
  <2>2. Settled(k) /\ k \notin owned /\ range[k] = r
    BY <1>13, <2>1 DEF Claims
  <2>3. k \in linked /\ m \in linked
    BY <1>2, <2>2 DEF Settled
  <2>4. k = m
    BY <1>1, <1>2, <2>2, <2>3, OneNode
  <2> QED BY <1>1, <2>2, <2>4
<1> QED BY <1>2, <1>6, <1>7, <1>12, <1>13

(***************************************************************************)
(* A release that goes on keeps its claim.                                 *)
(***************************************************************************)
LEMMA OwnClaim ==
  ASSUME IInv, IInv', OwnInv, NEW t \in Threads, Act(t),
         ~\E r \in Requests : ReleaseLock(t, r), Releasing(frame'[t])
  PROVE  /\ \E m \in NewNodes : Claims(pc[t], frame[t], m)'
         /\ Releasing(frame[t]) /\ frame'[t].want = frame[t].want
<1>1. PICK f \in Frames, g \in Frames : f = frame[t] /\ g = frame'[t]
  BY DEF IInv, Types
<1>2. \/ ReadNext(t)
      \/ (CheckVictim(t) \/ LockVictim(t)) /\ g = f
  <2>1. Mark(t) => ~marked[f.node]
    BY <1>1, MarkClaimed
  <2> QED BY <1>1, <2>1, ActReleasing
<1>3. /\ g.find = f.find /\ g.isMarked = f.isMarked /\ g.want = f.want
  BY <1>1, <1>2, SearchStep
<1>4. Releasing(f)
  BY <1>1, <1>3 DEF Releasing
<1>5. PICK m \in NewNodes : Claims(pc[t], f, m)
  BY <1>1, <1>4 DEF OwnInv
<1>6. Settled(m) /\ m \notin owned /\ range[m] = f.want
  BY <1>5 DEF Claims
<1>7. ~Mark(t) /\ ~Return(t)
  BY <1>2 DEF ReadNext, CheckVictim, LockVictim, Mark, Return
<1>8. /\ Settled(m)' /\ range'[m] = range[m] /\ topLevel'[m] = topLevel[m]
      /\ m \notin owned'
  BY <1>6, <1>7, SettledStays, ActOwned
<1>9. PICK q \in Labels : q = pc'[t]
  BY DEF IInv, Types
<1>10. CASE ReadNext(t)
  <2>1. Seeks(f, m) /\ Published(m)
    BY <1>5, <1>6, <1>10, SettledInLevels DEF Claims, ReadNext
  <2>2. \/ q = "find" /\ Seeks(g, m)
        \/ q = "check" /\ g.node = m /\ g.found = topLevel[m]
    BY <1>1, <1>4, <1>6, <1>9, <1>10, <2>1, SearchStep DEF Releasing
  <2>3. q = "find" => Seeks(g, m)'
    BY <1>6, <2>2, SettledSought
  <2>4. Claims(q, g, m)'
    BY <1>3, <1>6, <1>8, <2>2, <2>3 DEF Claims
  <2> QED BY <1>1, <1>3, <1>4, <1>9, <2>4
<1>11. CASE (CheckVictim(t) \/ LockVictim(t)) /\ g = f
  <2>1. pc[t] \in {"check", "victim"}
    BY <1>11 DEF CheckVictim, LockVictim
  <2>2. f.node = m /\ f.found = topLevel[m] /\ ~marked[m]
    BY <1>5, <2>1 DEF Claims, Settled
  <2>3. q \in {"victim", "mark"}
    <3>1. CASE CheckVictim(t)
      <4>1. Go(t, "victim", f)
        BY <1>1, <2>2, <3>1 DEF CheckVictim
      <4> QED BY <1>9, <4>1 DEF Go, IInv, Types
    <3>2. CASE LockVictim(t)
      BY <1>9, <3>2 DEF LockVictim, Go, IInv, Types
    <3> QED BY <1>11, <3>1, <3>2
  <2>4. Claims(q, g, m)'
    BY <1>3, <1>6, <1>8, <1>11, <2>2, <2>3 DEF Claims
  <2> QED BY <1>1, <1>3, <1>4, <1>9, <2>4
<1> QED BY <1>2, <1>10, <1>11

(***************************************************************************)
(* No step breaks a claim, and what a client owns stays settled.           *)
(***************************************************************************)
LEMMA ActOwn ==
  ASSUME IInv, IInv', OwnInv, ProperUse, NEW t \in Threads, Act(t)
  PROVE  OwnInv'
<1>1. OnlyMoves(t)
  BY ActMoves
<1>2. \A n \in owned' : Settled(n)'
  BY OwnedSettled
<1>3. ASSUME NEW u \in Threads, Releasing(frame'[u])
      PROVE  \E m \in NewNodes : Claims(pc[u], frame[u], m)'
  <2>1. CASE u # t
    BY <1>3, <2>1, OthersClaim
  <2>2. CASE u = t /\ \E r \in Requests : ReleaseLock(t, r)
    BY <2>2, BeginsClaim
  <2>3. CASE u = t /\ ~\E r \in Requests : ReleaseLock(t, r)
    BY <1>3, <2>3, OwnClaim
  <2> QED BY <2>1, <2>2, <2>3
<1>4. ASSUME Releasing(frame'[t]), NEW u \in Threads \ {t},
             Releasing(frame'[u])
      PROVE  frame'[t].want # frame'[u].want
  <2>1. frame'[u] = frame[u]
    BY <1>1 DEF OnlyMoves
  <2>2. CASE \E r \in Requests : ReleaseLock(t, r)
    <3>1. PICK r \in Requests : ReleaseLock(t, r)
      BY <2>2
    <3> QED BY <1>4, <2>1, <3>1, BeginsClaim
  <2>3. CASE ~\E r \in Requests : ReleaseLock(t, r)
    <3>1. Releasing(frame[t]) /\ frame'[t].want = frame[t].want
      BY <1>4, <2>3, OwnClaim
    <3> QED BY <1>4, <2>1, <3>1 DEF OwnInv
  <2> QED BY <2>2, <2>3
<1>5. ASSUME NEW u \in Threads, NEW v \in Threads, u # v,
             Releasing(frame'[u]), Releasing(frame'[v])
      PROVE  frame'[u].want # frame'[v].want
  <2>1. CASE u # t /\ v # t
    <3>1. frame'[u] = frame[u] /\ frame'[v] = frame[v]
      BY <1>1, <2>1 DEF OnlyMoves
    <3> QED BY <1>5, <3>1 DEF OwnInv
  <2>2. CASE u = t
    BY <1>4, <1>5, <2>2
  <2>3. CASE v = t
    BY <1>4, <1>5, <2>3
  <2> QED BY <2>1, <2>2, <2>3
<1>6. ASSUME NEW u \in Threads, NEW n \in Node_V1,
             frame[u].find = "insert", n = frame[u].node
      PROVE  ~marked'[n]
  <2>1. ~marked[n]
    BY <1>6, InsertUnmarked
  <2>2. CASE Mark(t)
    <3>1. Settled(frame[t].node)
      BY <2>2, MarkClaimed DEF Claims
    <3>2. frame[t].node # n
      BY <1>6, <3>1 DEF Settled
    <3> QED BY <2>1, <2>2, <3>2 DEF Mark, IInv, Types
  <2>3. CASE ~Mark(t)
    <3>1. marked' = marked
      BY <2>3, ActWrites DEF Writes
    <3> QED BY <2>1, <3>1
  <2> QED BY <2>2, <2>3
<1>7. ASSUME NEW u \in Threads, Placed(pc'[u], frame'[u])
      PROVE  ~marked'[frame'[u].node]
  <2>1. CASE u # t
    <3>1. frame'[u] = frame[u] /\ frame[u].node \in Node_V1
      BY <1>1, <2>1 DEF OnlyMoves, IInv, Types, Frames
    <3> QED BY <1>6, <1>7, <3>1 DEF Placed
  <2>2. CASE u = t
    <3>1. PICK f \in Frames, g \in Frames : f = frame[t] /\ g = frame'[t]
      BY DEF IInv, Types
    <3>2. g.find = "insert"
      BY <1>7, <2>2, <3>1 DEF Placed
    <3>3. CASE f.find = "insert" /\ g.node = f.node
      <4>1. f.node \in Node_V1
        BY DEF Frames
      <4> QED BY <1>6, <2>2, <3>1, <3>3, <4>1
    <3>4. CASE pc[t] = "idle"
      <4>1. pc'[t] = "find"
        BY <3>4 DEF Act, Step, TryLock, ReleaseLock, ReadNext, Seen,
                    ReturnFalse, LockPred, Validate, Link, SetFullyLinked,
                    CountUp, Return, CheckVictim, LockVictim, Mark, Unlink,
                    CountDown, Go, IInv, Types
      <4> QED BY <1>7, <2>2, <4>1 DEF Placed
    <3> QED BY <3>1, <3>2, <3>3, <3>4, ActNode
  <2> QED BY <2>1, <2>2
<1>8. ASSUME NEW u \in Threads, frame'[u].find = "insert",
             pc'[u] \in {"count", "unlock"}
      PROVE  fullyLinked'[frame'[u].node]
  <2>1. CASE SetFullyLinked(t)
    <3>1. fullyLinked' = [fullyLinked EXCEPT ![frame[t].node] = TRUE]
      BY <2>1 DEF SetFullyLinked
    <3>2. frame' = frame
      <4>1. frame' = [frame EXCEPT ![t] = frame[t]]
        BY <2>1 DEF SetFullyLinked, Go
      <4> QED BY <4>1 DEF IInv, Types
    <3>3. CASE u = t
      <4>1. frame[t].node \in Node_V1
        BY DEF IInv, Types, Frames
      <4> QED BY <3>1, <3>2, <3>3, <4>1 DEF IInv, Types
    <3>4. CASE u # t
      <4>1. fullyLinked[frame[u].node]
        BY <1>1, <1>8, <3>2, <3>4 DEF OnlyMoves, OwnInv
      <4>2. frame[u].node \in Node_V1 /\ frame[t].node \in Node_V1
        BY DEF IInv, Types, Frames
      <4> QED BY <3>1, <3>2, <4>1, <4>2 DEF IInv, Types
    <3> QED BY <3>3, <3>4
  <2>2. CASE ~SetFullyLinked(t)
    <3>1. fullyLinked' = fullyLinked
      BY <2>2, ActWrites DEF Writes
    <3>2. CASE u # t
      BY <1>1, <1>8, <3>1, <3>2 DEF OnlyMoves, OwnInv
    <3>3. CASE u = t
      <4>1. pc'[t] \in {"count", "unlock"} /\ frame'[t].find = "insert"
        BY <1>8, <3>3
      <4>2. ~ReadNext(t)
        BY <4>1, ReadNextLabels
      <4>3. ASSUME NEW q, NEW g, Go(t, q, g) PROVE q = pc'[t] /\ g = frame'[t]
        BY <4>3 DEF Go, IInv, Types
      <4>4. ~CountDown(t)
        <5> SUFFICES ASSUME CountDown(t) PROVE FALSE
          OBVIOUS
        <5>1. frame'[t] = frame[t] /\ frame[t].find = "exact"
          BY <4>3 DEF CountDown, IInv, FrameOK, ExactLabels
        <5> QED BY <4>1, <5>1
      <4>5. CountUp(t)
        <5>1. ~Seen(t) /\ ~ReturnFalse(t) /\ ~LockPred(t)
          BY <4>1, <4>3 DEF Seen, ReturnFalse, LockPred
        <5>2. ~Validate(t) /\ ~Link(t) /\ ~Return(t) /\ ~CheckVictim(t)
          BY <4>1, <4>3 DEF Validate, Link, Return, CheckVictim
        <5>3. ~LockVictim(t) /\ ~Mark(t) /\ ~Unlink(t)
          BY <4>1, <4>3 DEF LockVictim, Mark, Unlink
        <5>4. ASSUME NEW r \in Requests, NEW height \in Heights,
                     TryLock(t, r, height)
              PROVE  FALSE
          BY <4>1, <4>3, <5>4 DEF TryLock
        <5>5. ASSUME NEW r \in Requests, ReleaseLock(t, r) PROVE FALSE
          BY <4>1, <4>3, <5>5 DEF ReleaseLock
        <5> QED BY <2>2, <4>2, <4>4, <5>1, <5>2, <5>3, <5>4, <5>5
                DEF Act, Step
      <4>6. frame'[t] = frame[t] /\ pc[t] = "count"
        BY <4>3, <4>5 DEF CountUp
      <4> QED BY <3>1, <3>3, <4>1, <4>6 DEF OwnInv
    <3> QED BY <3>2, <3>3
  <2> QED BY <2>1, <2>2
<1> QED BY <1>2, <1>3, <1>5, <1>7, <1>8 DEF OwnInv

(***************************************************************************)
(* The claims are kept by every step of the specification.                 *)
(***************************************************************************)
LEMMA OwnNext ==
  ASSUME ProperUse
  PROVE  IInv /\ IInv' /\ OwnInv /\ [Next]_vars => OwnInv'
<1> SUFFICES ASSUME IInv, IInv', OwnInv, [Next]_vars PROVE OwnInv'
  OBVIOUS
<1>1. CASE UNCHANGED vars
  <2>1. /\ next' = next /\ marked' = marked /\ fullyLinked' = fullyLinked
        /\ range' = range /\ topLevel' = topLevel /\ pc' = pc
        /\ frame' = frame /\ owned' = owned /\ linked' = linked
    BY <1>1 DEF vars
  <2>2. /\ \A n, l : HasLevel(n, l)' <=> HasLevel(n, l)
        /\ \A m, n : Before(m, n)' <=> Before(m, n)
    BY <2>1 DEF HasLevel, Before, Start, End
  <2>3. \A l : Level(l)' = Level(l)
    BY <2>1, <2>2 DEF Level, TakenOff
  <2>4. \A n : Settled(n)' <=> Settled(n)
    BY <2>1, <2>2 DEF Settled
  <2>5. \A G, n : Leads(G, n)' <=> Leads(G, n)
    BY <2>1, <2>2, <2>3 DEF Leads
  <2>6. ASSUME NEW u \in Threads, Releasing(frame'[u])
        PROVE  \E m \in NewNodes : Claims(pc[u], frame[u], m)'
    <3>1. PICK p \in Labels, f \in Frames : p = pc[u] /\ f = frame[u]
      BY DEF IInv, Types
    <3>2. PICK m \in NewNodes : Claims(p, f, m)
      BY <2>1, <2>6, <3>1 DEF OwnInv
    <3>3. Seeks(f, m) => Seeks(f, m)'
      BY <2>1, <2>5 DEF Seeks
    <3>4. Claims(p, f, m)'
      BY <2>1, <2>4, <3>2, <3>3 DEF Claims
    <3> QED BY <2>1, <3>1, <3>4
  <2> QED BY <2>1, <2>4, <2>6 DEF OwnInv
<1>2. CASE Next
  <2>1. PICK t \in Threads : Act(t)
    BY <1>2 DEF Next, Act
  <2> QED BY <2>1, ActOwn
<1> QED BY <1>1, <1>2

(***************************************************************************)
(* At the beginning there are none.                                        *)
(***************************************************************************)
LEMMA OwnInit == Init => OwnInv
<1> SUFFICES ASSUME Init PROVE OwnInv
  OBVIOUS
<1>1. owned = {} /\ \A t \in Threads : frame[t] = Rest
  BY DEF Init
<1>2. Rest.find = "none"
  BY DEF Rest
<1> QED BY <1>1, <1>2 DEF OwnInv, Releasing, Placed

(***************************************************************************)
(* If clients release what they own, the claims hold in every reachable    *)
(* state.                                                                  *)
(***************************************************************************)
THEOREM OwnInvariant ==
  ASSUME ProperUse
  PROVE  Spec => []OwnInv
<1>0. ProperRanges
  BY DEF ProperUse
<1>1. IInv /\ IInv' /\ OwnInv /\ [Next]_vars => OwnInv'
  BY OwnNext
<1> QED BY <1>0, <1>1, OwnInit, Invariance, PTL DEF Spec

(***************************************************************************)
(* If clients release what they own, a range that tryLock has granted      *)
(* stays in the list, on every level of its node, fully linked and         *)
(* unmarked, until its release begins.                                     *)
(***************************************************************************)
THEOREM OwnersKeep ==
  ASSUME ProperUse
  PROVE  Spec => []OwnersProtected
<1>1. IInv /\ OwnInv => OwnersProtected
  <2> SUFFICES ASSUME IInv, OwnInv, NEW n \in owned
               PROVE  /\ fullyLinked[n] /\ ~marked[n]
                      /\ \A l \in 0 .. topLevel[n] :
                           \E p \in linked : next[p][l] = n
    BY DEF OwnersProtected
  <2>1. Settled(n)
    BY DEF OwnInv
  <2>2. fullyLinked[n] /\ ~marked[n] /\ n \in NewNodes
    BY <2>1 DEF Settled
  <2>3. ASSUME NEW l \in 0 .. topLevel[n]
        PROVE  \E p \in linked : next[p][l] = n
    <3>1. topLevel[n] \in Levels
      BY <2>2 DEF IInv, Types, Node_V1
    <3>2. l \in Levels /\ l <= topLevel[n]
      BY <2>3, <3>1, V1Assumption DEF Levels
    <3>3. n \in Level(l) \ {head}
      BY <2>1, <2>2, <3>2, SettledInLevels, V1Assumption
    <3>4. \E p \in Level(l) : next[p][l] = n
      BY <3>2, <3>3 DEF IInv, ListInv, Chain
    <3> QED BY <3>4 DEF Level
  <2> QED BY <2>2, <2>3
<1>2. ProperRanges
  BY DEF ProperUse
<1> QED BY <1>1, <1>2, Invariance, OwnInvariant, PTL

(***************************************************************************)
(* A release that claims its node is never on its way out empty-handed.    *)
(***************************************************************************)
LEMMA ReleasesOwn == IInv /\ OwnInv => OwnerReleases
<1> SUFFICES ASSUME IInv, OwnInv, NEW t \in Threads,
                    pc[t] \in {"wrong", "exit"}
             PROVE  FALSE
  BY DEF OwnerReleases
<1>1. PICK p \in Labels, f \in Frames : p = pc[t] /\ f = frame[t]
  BY DEF IInv, Types
<1>2. FrameOK(t, p, f) /\ p \in {"wrong", "exit"}
  BY <1>1 DEF IInv
<1>3. Releasing(f)
  BY <1>2 DEF FrameOK, ExactLabels, Removes, Releasing
<1>4. \E m \in NewNodes : Claims(p, f, m)
  BY <1>1, <1>3 DEF OwnInv
<1> QED BY <1>2, <1>4 DEF Claims

(***************************************************************************)
(* A client that releases what it owns finds its node: releaseLock neither *)
(* reports wrong usage nor ends the process, whatever the other threads    *)
(* link and unlink while it searches.                                      *)
(***************************************************************************)
THEOREM OwnersRelease ==
  ASSUME ProperUse
  PROVE  Spec => []OwnerReleases
<1>1. ProperRanges
  BY DEF ProperUse
<1> QED BY <1>1, ReleasesOwn, Invariance, OwnInvariant, PTL

-----------------------------------------------------------------------------
(***************************************************************************)
(* How a step changes what is locked: Link at level 0 adds the node of the *)
(* call, Unlink at level 0 takes away a node that no tryLock is working    *)
(* on.                                                                     *)
(***************************************************************************)
LEMMA ActLinked ==
  ASSUME IInv, IInv', NEW t \in Threads, Act(t)
  PROVE  /\ \A n \in linked' : n \in linked \/ (Link(t) /\ n = frame[t].node)
         /\ \A u \in Threads : frame[u].find = "insert" =>
              (frame[u].node \in linked => frame[u].node \in linked')
<1>1. CASE Link(t)
  BY <1>1 DEF Link
<1>2. CASE Unlink(t)
  <2>1. \A u \in Threads : frame[u].find = "insert" =>
          frame[u].node # frame[t].node
    BY <1>2, UnlinkStep
  <2>2. linked' = linked \/ linked' = linked \ {frame[t].node}
    BY <1>2 DEF Unlink
  <2> QED BY <2>1, <2>2
<1>3. CASE ~Link(t) /\ ~Unlink(t)
  BY <1>3, ActCalm DEF Calm
<1> QED BY <1>1, <1>2, <1>3

(***************************************************************************)
(* Locked nodes, and their ranges.                                         *)
(***************************************************************************)
LEMMA LockedFacts ==
  ASSUME IInv, NEW n \in Locked
  PROVE  /\ n \in NewNodes /\ n \in Node_V1 /\ n \in linked /\ Published(n)
         /\ range[n] \in Requests
         /\ Start(n) \in Int /\ End(n) \in Int /\ Start(n) < End(n)
<1>1. n \in NewNodes /\ n \in Node_V1 /\ n \in linked
  BY DEF Locked, Node_V1, IInv, Types
<1>2. Published(n)
  BY <1>1 DEF IInv, ListInv, Nodes
<1> QED BY <1>1, <1>2, PublishedFacts, V1Assumption DEF IInv

(***************************************************************************)
(* A call of tryLock whose thread does not take the step.                  *)
(***************************************************************************)
LEMMA OthersContended ==
  ASSUME IInv, IInv', ContentionInv, NEW t \in Threads, Act(t),
         NEW u \in Threads \ {t}, NEW f \in Frames, f = frame[u],
         f.find = "insert", f.node \notin linked'
  PROVE  /\ \A n \in Locked' : ClosedOverlap(range'[n], f.want)
              => contended'[u]
         /\ pc'[u] = "refuse" => contended'[u]
<1>1. pc'[u] = pc[u] /\ f.node \notin linked
  BY ActMoves, ActLinked DEF OnlyMoves
<1>2. /\ \A n \in Locked : ClosedOverlap(range[n], f.want) => contended[u]
      /\ pc[u] = "refuse" => contended[u]
  BY <1>1 DEF ContentionInv
<1>3. contended[u] => contended'[u]
  <2>1. CASE Link(t)
    BY <2>1 DEF Link
  <2>2. CASE ~Link(t)
    <3>1. CASE ReturnFalse(t)
      BY <3>1 DEF ReturnFalse, IInv, Types
    <3>2. CASE \E r \in Requests, height \in Heights : TryLock(t, r, height)
      BY <3>2 DEF TryLock, IInv, Types
    <3>3. CASE /\ ~ReturnFalse(t)
               /\ ~\E r \in Requests, height \in Heights : TryLock(t, r, height)
      <4>1. contended' = contended
        BY <2>2, <3>3, ActWrites DEF Writes
      <4> QED BY <4>1
    <3> QED BY <3>1, <3>2, <3>3
  <2> QED BY <2>1, <2>2
<1>4. ASSUME NEW n \in Locked', ClosedOverlap(range'[n], f.want)
      PROVE  contended'[u]
  <2>1. CASE n \in linked
    <3>1. n \in Locked
      BY <1>4, <2>1 DEF Locked
    <3>2. range'[n] = range[n]
      BY <3>1, LockedFacts, ActKeeps
    <3> QED BY <1>2, <1>3, <1>4, <3>1, <3>2
  <2>2. CASE n \notin linked
    <3>1. Link(t) /\ n = frame[t].node
      BY <1>4, <2>2, ActLinked DEF Locked
    <3>2. Links(frame[t].node, frame[t].preds[frame[t].at],
                frame[t].succs[frame[t].at], frame[t].at)
      BY <3>1, LinkStep
    <3>3. frame[t].at = 0
      BY <2>2, <3>1, <3>2, LinksFacts
    <3>4. n \in Node_V1
      BY <1>4 DEF Locked, IInv, Types
    <3>5. range'[n] = frame[t].want
      BY <3>1, <3>4 DEF Link, IInv, Types
    <3>6. ~(frame[t].at > 0)
      BY <3>3
    <3>7. contended' = [v \in Threads |->
             v # t /\ ( \/ contended[v]
                        \/ /\ frame[v].find = "insert"
                           /\ frame[v].node \notin linked
                           /\ ClosedOverlap(frame[t].want, frame[v].want) )]
      BY <3>1, <3>6 DEF Link
    <3> QED BY <1>1, <1>4, <3>5, <3>7
  <2> QED BY <2>1, <2>2
<1> QED BY <1>1, <1>2, <1>3, <1>4

(***************************************************************************)
(* An unmarked node that findInsert has found is an overlapping range that *)
(* is locked.                                                              *)
(***************************************************************************)
LEMMA SeenIsLocked ==
  ASSUME InsideLimits, IInv, NEW t \in Threads, NEW f \in Frames, f = frame[t],
         pc[t] = "seen", ~marked[f.succs[f.found]]
  PROVE  \E n \in Locked : ClosedOverlap(range[n], f.want)
<1>1. /\ FrameOK(t, "seen", f) /\ f.want \in Requests /\ f.find = "insert"
      /\ f.found \in Levels
  BY DEF IInv, FrameOK, InsertLabels
<1>2. PICK n : n = f.succs[f.found]
  OBVIOUS
<1>3. /\ HasLevel(n, f.found) /\ n # head /\ f.want.start < End(n)
      /\ Start(n) <= f.want.end
  BY <1>1, <1>2 DEF FrameOK, Noted, FoundOK
<1>4. Published(n) /\ n \in Node_V1 /\ Start(n) \in Int /\ End(n) \in Int
  BY <1>1, <1>3, LevelFacts, PublishedFacts DEF IInv
<1>5. f.want.start \in Int /\ f.want.end \in Int /\ f.want.end < Max
  BY <1>1, V1Assumption DEF RangesOver, InsideLimits
<1>6. n # tail
  <2>1. n = tail => Start(n) = Max
    BY <1>4, PublishedFacts DEF IInv
  <2> QED BY <1>3, <1>5, <2>1, V1Assumption
<1>7. n \in NewNodes /\ n \in linked
  BY <1>2, <1>3, <1>4, <1>6 DEF Node_V1, IInv, ListInv, Nodes
<1>8. n \in Locked
  BY <1>3, <1>6, <1>7 DEF Locked
<1>9. ClosedOverlap(range[n], f.want)
  BY <1>3, <1>4, <1>5 DEF ClosedOverlap, Start, End
<1> QED BY <1>8, <1>9

(***************************************************************************)
(* A call of tryLock that takes a step.                                    *)
(***************************************************************************)
LEMMA OwnContended ==
  ASSUME InsideLimits, IInv, IInv', ContentionInv, NEW t \in Threads, Act(t),
         NEW g \in Frames, g = frame'[t],
         g.find = "insert", g.node \notin linked'
  PROVE  /\ \A n \in Locked' : ClosedOverlap(range'[n], g.want)
              => contended'[t]
         /\ pc'[t] = "refuse" => contended'[t]
<1>1. PICK f \in Frames : f = frame[t]
  BY DEF IInv, Types
<1>2. ASSUME NEW h, NEW q, Go(t, q, h) PROVE g = h /\ pc'[t] = q
  BY <1>2 DEF Go, IInv, Types
<1>3. CASE \E r \in Requests, height \in Heights : TryLock(t, r, height)
  <2>1. PICK r \in Requests, height \in Heights : TryLock(t, r, height)
    BY <1>3
  <2>2. calls + 1 \in NewNodes
    BY <2>1, V1Assumption DEF TryLock, IInv, Types, NewNodes
  <2>3. r \in RangesOver(Int) /\ height \in Levels /\ calls + 1 \in Node_V1
    BY <2>2, V1Assumption DEF Heights, Levels, Node_V1
  <2>4. PICK h : h = [Rest EXCEPT !.want = r, !.top = height,
                                  !.node = calls + 1]
    OBVIOUS
  <2>5. h \in Frames /\ h.want = r
    BY <2>3, <2>4, RestType DEF Frames
  <2>6. g = StartFind(h, "insert") /\ pc'[t] = "find"
    BY <1>2, <2>1, <2>4 DEF TryLock
  <2>7. g.want = r
    BY <2>5, <2>6, StartFindFacts
  <2>8. /\ contended'[t] = \E n \in Locked : ClosedOverlap(range[n], r)
        /\ range' = range /\ Locked' = Locked
    BY <2>1 DEF TryLock, nodeVars, IInv, Types, Locked
  <2> QED BY <2>6, <2>7, <2>8
<1>4. CASE ~\E r \in Requests, height \in Heights : TryLock(t, r, height)
  <2>1. pc[t] # "idle"
    <3> SUFFICES ASSUME pc[t] = "idle" PROVE FALSE
      OBVIOUS
    <3>1. PICK r \in Requests : ReleaseLock(t, r)
      BY <1>4 DEF Act, Step, ReadNext, Seen, ReturnFalse, LockPred, Validate,
                  Link, SetFullyLinked, CountUp, Return, CheckVictim,
                  LockVictim, Mark, Unlink, CountDown
    <3>2. PICK h : h = [Rest EXCEPT !.want = r]
      OBVIOUS
    <3>3. h \in Frames
      BY <3>2, RestType, V1Assumption DEF Frames
    <3>4. g = StartFind(h, "exact")
      BY <1>2, <3>1, <3>2 DEF ReleaseLock
    <3> QED BY <3>3, <3>4, StartFindFacts
  <2>2. f.find = "insert" /\ g.node = f.node /\ g.want = f.want
    BY <1>1, <2>1, ActNode
  <2>3. f.node \notin linked
    BY <1>1, <2>2, ActLinked
  <2>4. /\ \A n \in Locked : ClosedOverlap(range[n], f.want) => contended[t]
        /\ pc[t] = "refuse" => contended[t]
    BY <1>1, <2>2, <2>3 DEF ContentionInv
  <2>5. ~Link(t) /\ ~ReturnFalse(t) /\ ~Unlink(t)
    <3>1. ~Link(t)
      BY <1>1, <2>2 DEF Link
    <3>2. ~ReturnFalse(t)
      BY <1>2 DEF ReturnFalse, Rest
    <3>3. ~Unlink(t)
      BY <1>1, <2>2 DEF Unlink, IInv, FrameOK, ExactLabels
    <3> QED BY <3>1, <3>2, <3>3
  <2>6. range' = range /\ Locked' = Locked
    BY <2>5, ActCalm DEF Calm, Locked
  <2>7. contended' = contended
    BY <1>4, <2>5, ActWrites DEF Writes
  <2>8. ASSUME pc'[t] = "refuse" PROVE contended[t]
    <3>1. ~ReadNext(t)
      BY <2>8, ReadNextLabels
    <3>2. ~LockPred(t) /\ ~Validate(t) /\ ~SetFullyLinked(t) /\ ~CountUp(t)
      BY <1>2, <2>8 DEF LockPred, Validate, SetFullyLinked, CountUp
    <3>3. ~Return(t) /\ ~CheckVictim(t) /\ ~LockVictim(t)
      BY <1>2, <2>8 DEF Return, CheckVictim, LockVictim
    <3>4. ~Mark(t) /\ ~CountDown(t)
      BY <1>2, <2>8 DEF Mark, CountDown
    <3>5. Seen(t)
      <4>1. ~\E r \in Requests : ReleaseLock(t, r)
        BY <2>1 DEF ReleaseLock
      <4> QED BY <1>4, <2>5, <3>1, <3>2, <3>3, <3>4, <4>1 DEF Act, Step
    <3>6. pc[t] = "seen" /\ ~marked[f.succs[f.found]]
      BY <1>1, <1>2, <2>8, <3>5 DEF Seen
    <3> QED BY <1>1, <2>4, <3>6, SeenIsLocked
  <2> QED BY <2>2, <2>4, <2>6, <2>7, <2>8
<1> QED BY <1>3, <1>4

(***************************************************************************)
(* Contention is noticed by every step of the specification.               *)
(***************************************************************************)
LEMMA ContentionNext ==
  ASSUME InsideLimits
  PROVE  IInv /\ IInv' /\ ContentionInv /\ [Next]_vars => ContentionInv'
<1> SUFFICES ASSUME IInv, IInv', ContentionInv, [Next]_vars
             PROVE  ContentionInv'
  OBVIOUS
<1>1. CASE UNCHANGED vars
  BY <1>1 DEF vars, ContentionInv, Locked
<1>2. CASE Next
  <2>1. PICK t \in Threads : Act(t)
    BY <1>2 DEF Next, Act
  <2>2. ASSUME NEW u \in Threads, frame'[u].find = "insert",
               frame'[u].node \notin linked'
        PROVE  /\ \A n \in Locked' : ClosedOverlap(range'[n], frame'[u].want)
                    => contended'[u]
               /\ pc'[u] = "refuse" => contended'[u]
    <3>1. PICK g \in Frames : g = frame'[u]
      BY DEF IInv, Types
    <3>2. CASE u = t
      BY <2>1, <2>2, <3>1, <3>2, OwnContended
    <3>3. CASE u # t
      <4>1. g = frame[u]
        BY <2>1, <3>1, <3>3, ActMoves DEF OnlyMoves
      <4> QED BY <2>1, <2>2, <3>1, <3>3, <4>1, OthersContended
    <3> QED BY <3>2, <3>3
  <2> QED BY <2>2 DEF ContentionInv
<1> QED BY <1>1, <1>2

(***************************************************************************)
(* A tryLock of src/src/v1 is refused only if an overlapping range was     *)
(* locked at some moment of the call, if no range ends at the highest key  *)
(* and every range holds more than one.                                    *)
(***************************************************************************)
THEOREM ContentionInvariant ==
  ASSUME ProperRanges, InsideLimits
  PROVE  Spec => []ContentionInv
<1>1. Init => ContentionInv
  BY DEF Init, ContentionInv, Rest
<1> QED BY <1>1, ContentionNext, Invariance, PTL DEF Spec

-----------------------------------------------------------------------------
(***************************************************************************)
(* No requested range begins at the key where another one ends.  Passes    *)
(* lets such ranges into the list together (finding 3), so mutual          *)
(* exclusion in the reading [start, end] needs this.                       *)
(***************************************************************************)
NoMeet == \A q, r \in Requests : q.end # r.start

(***************************************************************************)
(* In the list, ranges that do not meet do not overlap.                    *)
(***************************************************************************)
LEMMA Excludes ==
  ASSUME NoMeet
  PROVE  IInv => MutualExclusion
<1> SUFFICES ASSUME IInv, NEW m \in Locked, NEW n \in Locked, m # n
             PROVE  ~ClosedOverlap(range[m], range[n])
  BY DEF MutualExclusion
<1>1. /\ m \in linked /\ n \in linked
      /\ range[m] \in Requests /\ range[n] \in Requests
      /\ Start(m) \in Int /\ End(m) \in Int
      /\ Start(n) \in Int /\ End(n) \in Int
  BY LockedFacts
<1>2. End(m) <= Start(n) \/ End(n) <= Start(m)
  BY <1>1 DEF IInv, ListInv, Disjoint, Before
<1>3. End(m) # Start(n) /\ End(n) # Start(m)
  BY <1>1 DEF NoMeet, Start, End
<1> QED BY <1>1, <1>2, <1>3 DEF ClosedOverlap, Start, End

(***************************************************************************)
(* Two ranges that overlap are never in the list together, also under      *)
(* wrong use, if no two requested ranges meet in one key and each holds    *)
(* more than one.                                                          *)
(***************************************************************************)
THEOREM Exclusion ==
  ASSUME ProperRanges, NoMeet
  PROVE  Spec => []MutualExclusion
<1>1. IInv => MutualExclusion
  BY Excludes
<1> QED BY <1>1, Invariance, PTL

-----------------------------------------------------------------------------
(***************************************************************************)
(* The mapped variables.                                                   *)
(***************************************************************************)
Held == {range[n] : n \in Locked}
Owned == {range[n] : n \in owned}
Calls == [t \in Threads |-> CallOf(t)]

(***************************************************************************)
(* The call of t changes, and no other.                                    *)
(***************************************************************************)
LEMMA CallsUpdate ==
  ASSUME NEW t \in Threads, NEW v, CallOf(t)' = v,
         \A u \in Threads \ {t} : CallOf(u)' = CallOf(u)
  PROVE  Calls' = [Calls EXCEPT ![t] = v] /\ Calls[t] = CallOf(t)
  BY DEF Calls

(***************************************************************************)
(* A thread that does not take the step sees its call as before, if the    *)
(* step leaves its contention and its node alone.                          *)
(***************************************************************************)
LEMMA OthersCall ==
  ASSUME NEW t \in Threads, OnlyMoves(t), NEW u \in Threads \ {t},
         contended'[u] = contended[u],
         frame[u].find = "insert" =>
           (frame[u].node \in linked' <=> frame[u].node \in linked)
  PROVE  CallOf(u)' = CallOf(u)
<1>1. pc'[u] = pc[u] /\ frame'[u] = frame[u]
  BY DEF OnlyMoves
<1> QED BY <1>1 DEF CallOf

(***************************************************************************)
(* A step that changes no range, no lock and no owner, and of the call of  *)
(* its own thread nothing the client sees.                                 *)
(***************************************************************************)
LEMMA Stutters ==
  ASSUME NEW t \in Threads, OnlyMoves(t),
         Held' = Held, Owned' = Owned, linked' = linked,
         contended' = contended, CallOf(t)' = CallOf(t)
  PROVE  UNCHANGED Abstract!lockVars
<1>1. \A u \in Threads : CallOf(u)' = CallOf(u)
  BY OthersCall
<1> QED BY <1>1 DEF Abstract!lockVars, Held, Owned

(***************************************************************************)
(* The beginning of a tryLock.                                             *)
(***************************************************************************)
LEMMA TryLockRefines ==
  ASSUME IInv, IInv', NEW t \in Threads, NEW r \in Requests,
         NEW height \in Heights, TryLock(t, r, height)
  PROVE  Abstract!TryLock(t, r)
<1>1. calls + 1 \in NewNodes
  BY V1Assumption DEF TryLock, IInv, Types, NewNodes
<1>2. r \in RangesOver(Int) /\ height \in Levels /\ calls + 1 \in Node_V1
  BY <1>1, V1Assumption DEF Heights, Levels, Node_V1
<1>3. PICK h : h = [Rest EXCEPT !.want = r, !.top = height,
                                !.node = calls + 1]
  OBVIOUS
<1>4. h \in Frames /\ h.want = r /\ h.node = calls + 1
  BY <1>2, <1>3, RestType DEF Frames
<1>5. PICK g : g = StartFind(h, "insert")
  OBVIOUS
<1>6. g.find = "insert" /\ g.want = r /\ g.node = calls + 1
  BY <1>4, <1>5, StartFindFacts
<1>7. frame'[t] = g /\ OnlyMoves(t)
  BY <1>3, <1>5 DEF TryLock, Go, OnlyMoves, IInv, Types
<1>8. range' = range /\ linked' = linked /\ owned' = owned
  BY DEF TryLock, nodeVars
<1>9. contended'[t] = \E h2 \in Held : ClosedOverlap(h2, r)
  BY DEF TryLock, IInv, Types, Held
<1>10. \A u \in Threads \ {t} : contended'[u] = contended[u]
  BY DEF TryLock, IInv, Types
<1>11. g.node \notin linked'
  <2>1. calls + 1 \notin linked
    <3> SUFFICES ASSUME calls + 1 \in linked PROVE FALSE
      OBVIOUS
    <3>1. calls + 1 <= calls /\ calls \in Int
      BY <1>1 DEF IInv, ListInv, Nodes, Types
    <3> QED BY <3>1
  <2> QED BY <1>6, <1>8, <2>1
<1>12. CallOf(t)' = [op |-> "tryLock", range |-> r, contended |-> contended'[t]]
  BY <1>6, <1>7, <1>11 DEF CallOf
<1>13. CallOf(t) = [op |-> "idle"]
  <2>1. frame[t].find = "none"
    BY DEF TryLock, IInv, FrameOK
  <2> QED BY <2>1 DEF CallOf
<1>14. \A u \in Threads \ {t} : CallOf(u)' = CallOf(u)
  BY <1>7, <1>8, <1>10, OthersCall
<1>15. Held' = Held /\ Owned' = Owned
  BY <1>8 DEF Held, Owned, Locked
<1> QED BY <1>9, <1>12, <1>13, <1>14, <1>15
        DEF Abstract!TryLock, Abstract!Idle, Held, Owned

(***************************************************************************)
(* The beginning of a releaseLock.                                         *)
(***************************************************************************)
LEMMA ReleaseLockRefines ==
  ASSUME ProperUse, IInv, IInv', NEW t \in Threads, NEW r \in Requests,
         ReleaseLock(t, r)
  PROVE  Abstract!ReleaseLock(t, r)
<1>1. PICK h : h = [Rest EXCEPT !.want = r]
  OBVIOUS
<1>2. h \in Frames /\ h.want = r
  BY <1>1, RestType, V1Assumption DEF Frames
<1>3. PICK g : g = StartFind(h, "exact")
  OBVIOUS
<1>4. g.find = "exact" /\ g.want = r
  BY <1>2, <1>3, StartFindFacts
<1>5. frame'[t] = g /\ pc'[t] = "find" /\ OnlyMoves(t)
  BY <1>1, <1>3 DEF ReleaseLock, Go, OnlyMoves, IInv, Types
<1>6. range' = range /\ linked' = linked /\ contended' = contended
  BY DEF ReleaseLock, nodeVars
<1>7. r \in Owned /\ Owned' = Owned \ {r}
  BY <1>6 DEF ReleaseLock, ProperUse, Owned
<1>8. Held' = Held
  BY <1>6 DEF Held, Locked
<1>9. CallOf(t)' = [op |-> "releaseLock", range |-> r]
  BY <1>4, <1>5 DEF CallOf
<1>10. CallOf(t) = [op |-> "idle"]
  <2>1. frame[t].find = "none"
    BY DEF ReleaseLock, IInv, FrameOK
  <2> QED BY <2>1 DEF CallOf
<1>11. \A u \in Threads \ {t} : CallOf(u)' = CallOf(u)
  BY <1>5, <1>6, OthersCall
<1> QED BY <1>7, <1>8, <1>9, <1>10, <1>11
        DEF Abstract!ReleaseLock, Abstract!Idle, Held, Owned

(***************************************************************************)
(* A tryLock that returns false.                                           *)
(***************************************************************************)
LEMMA RefuseRefines ==
  ASSUME IInv, OwnInv, ContentionInv, NEW t \in Threads, ReturnFalse(t),
         pc[t] = "refuse"
  PROVE  Abstract!Refuse(t)
<1>1. PICK f \in Frames : f = frame[t]
  BY DEF IInv, Types
<1>2. f.find = "insert" /\ f.node \notin linked
  <2>1. f.find = "insert"
    BY <1>1 DEF IInv, FrameOK, InsertLabels
  <2>2. Placing(pc[t], f)
    BY <2>1 DEF Placing
  <2> QED BY <1>1, <2>1, <2>2, InsertPhases
<1>3. contended[t]
  BY <1>1, <1>2 DEF ContentionInv
<1>4. CallOf(t) = [op |-> "tryLock", range |-> f.want,
                   contended |-> contended[t]]
  BY <1>1, <1>2 DEF CallOf
<1>5. frame'[t] = Rest /\ OnlyMoves(t)
  BY DEF ReturnFalse, Go, OnlyMoves, IInv, Types
<1>6. range' = range /\ linked' = linked /\ owned' = owned
  BY DEF ReturnFalse, nodeVars
<1>7. CallOf(t)' = Abstract!Idle
  BY <1>5 DEF CallOf, Rest, Abstract!Idle
<1>8. \A u \in Threads \ {t} : contended'[u] = contended[u]
  BY DEF ReturnFalse, IInv, Types
<1>9. \A u \in Threads \ {t} : CallOf(u)' = CallOf(u)
  BY <1>5, <1>6, <1>8, OthersCall
<1>10. Calls' = [Calls EXCEPT ![t] = Abstract!Idle] /\ Calls[t] = CallOf(t)
  BY <1>7, <1>9, CallsUpdate
<1>11. Held' = Held /\ Owned' = Owned
  BY <1>6 DEF Held, Owned, Locked
<1>12. Calls[t].op = "tryLock" /\ Calls[t].contended
  BY <1>3, <1>4, <1>10
<1> QED BY <1>10, <1>11, <1>12 DEF Abstract!Refuse, Held, Owned, Calls

(***************************************************************************)
(* A call that returns true.                                               *)
(***************************************************************************)
LEMMA ReturnRefines ==
  ASSUME IInv, NEW t \in Threads, Return(t)
  PROVE  Abstract!Acquired(t) \/ Abstract!Released(t)
<1>1. PICK f \in Frames : f = frame[t]
  BY DEF IInv, Types
<1>2. pc[t] = "unlock" /\ FrameOK(t, "unlock", f)
  BY <1>1 DEF Return, IInv
<1>3. f.find \in {"insert", "exact"}
  BY <1>2 DEF FrameOK, Frames
<1>4. frame'[t] = Rest /\ OnlyMoves(t)
  BY DEF Return, Go, OnlyMoves, IInv, Types
<1>5. range' = range /\ linked' = linked /\ contended' = contended
  BY DEF Return, nodeVars
<1>6. CallOf(t)' = Abstract!Idle
  BY <1>4 DEF CallOf, Rest, Abstract!Idle
<1>7. \A u \in Threads \ {t} : CallOf(u)' = CallOf(u)
  BY <1>4, <1>5, OthersCall
<1>8. Calls' = [Calls EXCEPT ![t] = Abstract!Idle] /\ Calls[t] = CallOf(t)
  BY <1>6, <1>7, CallsUpdate
<1>9. Held' = Held
  BY <1>5 DEF Held, Locked
<1>10. CASE f.find = "insert"
  <2>1. f.node \in linked /\ range[f.node] = f.want
    BY <1>2, <1>10 DEF FrameOK, Inserts, Placed
  <2>2. Owned' = Owned \cup {f.want}
    <3>1. owned' = owned \cup {f.node}
      BY <1>1, <1>10 DEF Return
    <3> QED BY <1>5, <2>1, <3>1 DEF Owned
  <2>3. CallOf(t) = [op |-> "granted", range |-> f.want]
    BY <1>1, <1>10, <2>1 DEF CallOf
  <2>4. Calls[t].op = "granted" /\ Calls[t].range = f.want
    BY <1>8, <2>3
  <2> QED BY <1>8, <1>9, <2>2, <2>4 DEF Abstract!Acquired, Held, Owned, Calls
<1>11. CASE f.find = "exact"
  <2>1. Owned' = Owned
    <3>1. owned' = owned
      BY <1>1, <1>11 DEF Return
    <3> QED BY <1>5, <3>1 DEF Owned
  <2>2. CallOf(t) = [op |-> "released", range |-> f.want]
    BY <1>1, <1>2, <1>11 DEF CallOf
  <2>3. Calls[t].op = "released"
    BY <1>8, <2>2
  <2> QED BY <1>8, <1>9, <2>1, <2>3 DEF Abstract!Released, Held, Owned, Calls
<1> QED BY <1>3, <1>10, <1>11

(***************************************************************************)
(* Link at level 0 grants the range.                                       *)
(***************************************************************************)
LEMMA LinkRefines ==
  ASSUME NoMeet, IInv, IInv', OwnInv, NEW t \in Threads, Link(t),
         frame[t].at = 0
  PROVE  Abstract!Grant(t)
<1>1. PICK f \in Frames : f = frame[t]
  BY DEF IInv, Types
<1>2. /\ pc[t] = "link" /\ f.find = "insert" /\ f.at = 0 /\ ~(f.at > 0)
      /\ f.node \in NewNodes /\ f.node \in Node_V1
  BY <1>1 DEF Link, IInv, FrameOK, InsertLabels, Inserts, Node_V1
<1>3. Placing(pc[t], f) /\ f.node \notin linked
  BY <1>1, <1>2, InsertPhases DEF Placing
<1>4. /\ linked' = linked \cup {f.node} /\ range'[f.node] = f.want
      /\ \A m \in Node_V1 : m # f.node => range'[m] = range[m]
      /\ owned' = owned
  <2>1. /\ linked' = linked \cup {f.node} /\ owned' = owned
        /\ range' = [range EXCEPT ![f.node] = f.want]
    BY <1>1, <1>2 DEF Link
  <2>2. \A m \in Node_V1 : range'[m] = IF m = f.node THEN f.want ELSE range[m]
    BY <1>2, <2>1 DEF IInv, Types
  <2> QED BY <1>2, <2>1, <2>2
<1>5. \A u \in Threads \ {t} : contended'[u] =
        \/ contended[u]
        \/ /\ frame[u].find = "insert" /\ frame[u].node \notin linked
           /\ ClosedOverlap(f.want, frame[u].want)
  <2>1. contended' = [u \in Threads |->
             u # t /\ ( \/ contended[u]
                        \/ /\ frame[u].find = "insert"
                           /\ frame[u].node \notin linked
                           /\ ClosedOverlap(f.want, frame[u].want) )]
    BY <1>1, <1>2 DEF Link
  <2> QED BY <2>1
<1>6. Locked' = Locked \cup {f.node} /\ f.node \notin Locked
  BY <1>2, <1>3, <1>4, V1Assumption DEF Locked
<1>7. \A n \in Locked : n \in Node_V1 /\ n # f.node /\ range'[n] = range[n]
  BY <1>4, <1>6, LockedFacts
<1>8. Held' = Held \cup {f.want}
  BY <1>4, <1>6, <1>7 DEF Held
<1>9. Owned' = Owned
  <2>1. owned \subseteq Locked
    BY V1Assumption DEF OwnInv, Settled, Locked
  <2> QED BY <1>4, <1>7, <2>1 DEF Owned
<1>10. \A h \in Held : ~ClosedOverlap(h, f.want)
  <2> SUFFICES ASSUME NEW n \in Locked PROVE ~ClosedOverlap(range[n], f.want)
    BY DEF Held
  <2>1. /\ range[n] \in Requests /\ f.want \in Requests
        /\ range[n].start \in Int /\ range[n].end \in Int
        /\ f.want.start \in Int /\ f.want.end \in Int
    BY <1>1, <1>2, LockedFacts, V1Assumption
       DEF IInv, FrameOK, RangesOver, Start, End
  <2>2. n \in linked' /\ f.node \in linked' /\ n # f.node
    BY <1>4, <1>7, LockedFacts
  <2>3. (End(n) <= Start(f.node))' \/ (End(f.node) <= Start(n))'
    BY <2>2 DEF IInv, ListInv, Disjoint, Before
  <2>4. range[n].end <= f.want.start \/ f.want.end <= range[n].start
    BY <1>4, <1>7, <2>3 DEF Start, End
  <2>5. range[n].end # f.want.start /\ f.want.end # range[n].start
    BY <2>1 DEF NoMeet
  <2> QED BY <2>1, <2>4, <2>5 DEF ClosedOverlap
<1>11. \E g \in Frames : /\ frame'[t] = g /\ g.find = "insert"
                         /\ g.want = f.want /\ g.node = f.node
  <2>1. PICK g \in Frames : g = frame'[t]
    BY DEF IInv, Types
  <2>2. g = f \/ g = [f EXCEPT !.at = f.at + 1]
    BY <1>1, <2>1 DEF Link, Go, IInv, Types
  <2>3. [f EXCEPT !.at = f.at + 1].find = f.find
    BY DEF Frames
  <2>4. /\ [f EXCEPT !.at = f.at + 1].want = f.want
        /\ [f EXCEPT !.at = f.at + 1].node = f.node
    BY DEF Frames
  <2> QED BY <1>2, <2>1, <2>2, <2>3, <2>4
<1>12. OnlyMoves(t)
  BY ActMoves DEF Act, Step
<1>13. /\ CallOf(t) = [op |-> "tryLock", range |-> f.want,
                       contended |-> contended[t]]
       /\ CallOf(t)' = [op |-> "granted", range |-> f.want]
  BY <1>1, <1>2, <1>3, <1>4, <1>11 DEF CallOf
<1>14. \A u \in Threads \ {t} :
         CallOf(u)' = IF CallOf(u).op = "tryLock"
                      THEN [CallOf(u) EXCEPT !.contended =
                              @ \/ ClosedOverlap(f.want, CallOf(u).range)]
                      ELSE CallOf(u)
  <2> TAKE u \in Threads \ {t}
  <2>1. PICK h \in Frames : h = frame[u] /\ h = frame'[u] /\ pc'[u] = pc[u]
    BY <1>12 DEF OnlyMoves, IInv, Types
  <2>2. h.find = "insert" => (h.node \in linked' <=> h.node \in linked)
    BY <1>1, <1>2, <1>4, <2>1 DEF IInv, Distinct
  <2>3. CASE h.find = "insert" /\ h.node \notin linked
    <3>1. /\ CallOf(u) = [op |-> "tryLock", range |-> h.want,
                          contended |-> contended[u]]
          /\ CallOf(u)' = [op |-> "tryLock", range |-> h.want,
                           contended |-> contended'[u]]
      BY <2>1, <2>2, <2>3 DEF CallOf
    <3>2. contended[u] \in BOOLEAN /\ contended'[u] \in BOOLEAN
      BY DEF IInv, Types
    <3>3. contended'[u] = (contended[u] \/ ClosedOverlap(f.want, h.want))
      BY <1>5, <2>1, <2>3, <3>2
    <3> QED BY <3>1, <3>3
  <2>4. CASE ~(h.find = "insert" /\ h.node \notin linked)
    <3>1. h.find \in {"none", "insert", "exact"}
      BY DEF Frames
    <3>2. CallOf(u)' = CallOf(u)
      BY <2>1, <2>2, <2>4 DEF CallOf
    <3>3. CallOf(u).op # "tryLock"
      BY <2>1, <2>4, <3>1 DEF CallOf
    <3> QED BY <3>2, <3>3
  <2> QED BY <2>3, <2>4
<1>15. /\ Calls[t].op = "tryLock" /\ Calls[t].range = f.want
       /\ \A u \in Threads : Calls[u] = CallOf(u)
  BY <1>13 DEF Calls
<1>16. Calls' = [u \in Threads |->
                   IF u = t THEN [op |-> "granted", range |-> Calls[t].range]
                   ELSE IF Calls[u].op = "tryLock"
                        THEN [Calls[u] EXCEPT !.contended =
                                @ \/ ClosedOverlap(Calls[t].range,
                                                   Calls[u].range)]
                        ELSE Calls[u]]
  <2>1. Calls' = [u \in Threads |-> CallOf(u)']
    BY DEF Calls
  <2> QED BY <1>13, <1>14, <1>15, <2>1
<1> QED BY <1>8, <1>9, <1>10, <1>15, <1>16
        DEF Abstract!Grant, Held, Owned, Calls

(***************************************************************************)
(* Unlink at level 0 frees it.                                             *)
(***************************************************************************)
LEMMA UnlinkRefines ==
  ASSUME IInv, IInv', NEW t \in Threads, Unlink(t), frame[t].at = 0
  PROVE  Abstract!Free(t)
<1>1. PICK f \in Frames : f = frame[t]
  BY DEF IInv, Types
<1>2. /\ pc[t] = "unlink" /\ f.find = "exact" /\ f.at = 0 /\ ~(f.at > 0)
      /\ f.node \in NewNodes /\ f.node \in linked /\ range[f.node] = f.want
  <2>1. pc[t] = "unlink" /\ FrameOK(t, "unlink", f)
    BY <1>1 DEF Unlink, IInv
  <2>2. f.isMarked /\ f.find = "exact"
    BY <2>1 DEF FrameOK, ExactLabels
  <2> QED BY <1>1, <2>1, <2>2 DEF FrameOK, Removes
<1>3. /\ linked' = linked \ {f.node} /\ range' = range /\ owned' = owned
      /\ contended' = contended /\ Go(t, "uncount", f)
  BY <1>1, <1>2 DEF Unlink
<1>4. f.node \in Locked /\ Locked' = Locked \ {f.node}
  BY <1>2, <1>3, V1Assumption DEF Locked
<1>5. Held' = Held \ {f.want}
  <2>1. \A n \in Locked : range[n] = f.want => n = f.node
    BY <1>2, <1>4, LockedFacts, OneNode
  <2> QED BY <1>2, <1>3, <1>4, <2>1 DEF Held
<1>6. Owned' = Owned
  BY <1>3 DEF Owned
<1>7. pc'[t] = "uncount" /\ frame'[t] = f /\ OnlyMoves(t)
  BY <1>3 DEF Go, OnlyMoves, IInv, Types
<1>8. /\ CallOf(t) = [op |-> "releaseLock", range |-> f.want]
      /\ CallOf(t)' = [op |-> "released", range |-> f.want]
  BY <1>1, <1>2, <1>7 DEF CallOf
<1>9. \A u \in Threads \ {t} : CallOf(u)' = CallOf(u)
  <2> TAKE u \in Threads \ {t}
  <2>1. frame[u].find = "insert" => frame[u].node # f.node
    BY <1>1, UnlinkStep
  <2> QED BY <1>3, <1>7, <2>1, OthersCall
<1>10. /\ Calls' = [Calls EXCEPT ![t] = [op |-> "released", range |-> f.want]]
       /\ Calls[t] = CallOf(t)
  BY <1>8, <1>9, CallsUpdate
<1>11. Calls[t].op = "releaseLock" /\ Calls[t].range = f.want
  BY <1>8, <1>10
<1> QED BY <1>5, <1>6, <1>10, <1>11 DEF Abstract!Free, Held, Owned, Calls

(***************************************************************************)
(* The victim of a release is out of the list of level 0.                  *)
(***************************************************************************)
Freed(p) == p \in {"uncount", "unlock"}

(***************************************************************************)
(* The client of t sees nothing of a step within the call.                 *)
(***************************************************************************)
LEMMA SameCall ==
  ASSUME IInv, NEW t \in Threads, NEW f \in Frames, f = frame[t],
         NEW g \in Frames, g = frame'[t], g.find = f.find, g.want = f.want,
         f.find = "insert" => g.node = f.node,
         f.find = "exact" => (Freed(pc'[t]) <=> Freed(pc[t])),
         linked' = linked, contended' = contended
  PROVE  CallOf(t)' = CallOf(t)
<1>1. CASE f.find = "exact"
  BY <1>1 DEF CallOf, Freed
<1>2. CASE f.find = "insert"
  BY <1>2 DEF CallOf
<1>3. CASE f.find = "none"
  BY <1>3 DEF CallOf
<1> QED BY <1>1, <1>2, <1>3 DEF Frames

(***************************************************************************)
(* Searching, locking, validating, marking, counting and the work on upper *)
(* levels change nothing that a client sees.                               *)
(***************************************************************************)
LEMMA QuietRefines ==
  ASSUME IInv, IInv', OwnInv, NEW t \in Threads, Step(t),
         ~ReturnFalse(t), ~Return(t),
         Link(t) \/ Unlink(t) => frame[t].at # 0
  PROVE  UNCHANGED Abstract!lockVars
<1>1. PICK f \in Frames, g \in Frames : f = frame[t] /\ g = frame'[t]
  BY DEF IInv, Types
<1>2. ASSUME NEW h, NEW q, Go(t, q, h) PROVE g = h /\ pc'[t] = q
  BY <1>1, <1>2 DEF Go, IInv, Types
<1>3. OnlyMoves(t) /\ Act(t)
  BY ActMoves DEF Act
<1>4. f.at \in Levels /\ f.at \in Int /\ (f.at # 0 => f.at > 0)
  BY V1Assumption DEF Frames, Levels
<1>0. /\ ~\E r \in Requests : ReleaseLock(t, r)
      /\ ~\E r \in Requests, height \in Heights : TryLock(t, r, height)
  BY StepBusy DEF ReleaseLock, TryLock
<1>5. linked' = linked /\ contended' = contended
  <2>1. CASE Link(t)
    <3>1. f.find = "insert" /\ FrameOK(t, "link", f) /\ f.at > 0
      BY <1>1, <1>4, <2>1 DEF Link, IInv, FrameOK, InsertLabels
    <3>2. f.node \in linked
      BY <3>1 DEF FrameOK, Inserts, Placed
    <3> QED BY <1>1, <2>1, <3>1, <3>2 DEF Link
  <2>2. CASE Unlink(t)
    BY <1>1, <1>4, <2>2 DEF Unlink
  <2>3. CASE ~Link(t) /\ ~Unlink(t)
    BY <1>0, <1>3, <2>3, ActWrites DEF Writes
  <2> QED BY <2>1, <2>2, <2>3
<1>6. owned' = owned
  BY <1>0, <1>3, ActWrites DEF Writes
<1>7. Held' = Held /\ Owned' = Owned
  <2>1. Locked' = Locked /\ \A n \in Locked : range'[n] = range[n]
    BY <1>3, <1>5, LockedFacts, ActKeeps DEF Locked
  <2>2. owned \subseteq Locked
    BY V1Assumption DEF OwnInv, Settled, Locked
  <2> QED BY <1>6, <2>1, <2>2 DEF Held, Owned
<1>8. /\ g.find = f.find /\ g.want = f.want
      /\ f.find = "insert" => g.node = f.node
      /\ f.find = "exact" => (Freed(pc'[t]) <=> Freed(pc[t]))
  <2>1. CASE ReadNext(t)
    <3>1. pc[t] = "find" /\ pc'[t] \notin {"uncount", "unlock"}
      BY <2>1, ReadNextLabels DEF ReadNext
    <3> QED BY <1>1, <2>1, <3>1, SearchStep DEF Freed
  <2>2. CASE Seen(t)
    <3>1. f.find = "insert" /\ (g = f \/ g = StartFind(f, "insert"))
      BY <1>1, <1>2, <2>2 DEF Seen, IInv, FrameOK, InsertLabels
    <3> QED BY <3>1, StartFindFacts
  <2>3. CASE Validate(t)
    <3>1. /\ pc[t] = "validate" /\ f.find \in {"insert", "exact"}
      BY <1>1, <2>3 DEF Validate, IInv, FrameOK, Frames
    <3>2. \/ g = f
          \/ \E i : g = [f EXCEPT !.at = i]
          \/ g = StartFind(f, f.find)
      BY <1>1, <1>2, <2>3 DEF Validate
    <3>3. ASSUME NEW i, g = [f EXCEPT !.at = i]
          PROVE  g.find = f.find /\ g.node = f.node /\ g.want = f.want
      BY <3>3 DEF Frames
    <3>4. g = StartFind(f, f.find) =>
            g.find = f.find /\ g.node = f.node /\ g.want = f.want
      BY <3>1, StartFindFacts
    <3>5. pc'[t] \notin {"uncount", "unlock"}
      BY <1>2, <2>3 DEF Validate
    <3> QED BY <3>1, <3>2, <3>3, <3>4, <3>5 DEF Freed
  <2>4. CASE Link(t) \/ Unlink(t)
    <3>1. /\ g = f \/ \E i : g = [f EXCEPT !.at = i]
          /\ Unlink(t) => pc'[t] = "unlink" /\ pc[t] = "unlink"
      <4>1. CASE Link(t)
        <5>1. ~Unlink(t)
          BY <4>1 DEF Link, Unlink
        <5>2. g = f \/ \E i : g = [f EXCEPT !.at = i]
          BY <1>1, <1>2, <4>1 DEF Link
        <5> QED BY <5>1, <5>2
      <4>2. CASE Unlink(t)
        BY <1>1, <1>2, <1>4, <4>2 DEF Unlink
      <4> QED BY <2>4, <4>1, <4>2
    <3>2. ASSUME NEW i, g = [f EXCEPT !.at = i]
          PROVE  g.find = f.find /\ g.node = f.node /\ g.want = f.want
      BY <3>2 DEF Frames
    <3>3. Link(t) => f.find = "insert"
      BY <1>1 DEF Link, IInv, FrameOK, InsertLabels
    <3> QED BY <2>4, <3>1, <3>2, <3>3
  <2>5. CASE Mark(t)
    <3>1. g = f \/ \E i : g = [f EXCEPT !.isMarked = TRUE, !.at = 0, !.top = i]
      BY <1>1, <1>2, <2>5 DEF Mark
    <3>2. ASSUME NEW i, g = [f EXCEPT !.isMarked = TRUE, !.at = 0, !.top = i]
          PROVE  g.find = f.find /\ g.node = f.node /\ g.want = f.want
      BY <3>2 DEF Frames
    <3>3. pc[t] = "mark" /\ pc'[t] \notin {"uncount", "unlock"}
      BY <1>2, <2>5 DEF Mark
    <3> QED BY <3>1, <3>2, <3>3 DEF Freed
  <2>6. CASE LockPred(t) \/ CheckVictim(t) \/ LockVictim(t) \/ CountDown(t)
    <3>1. /\ g = f
          /\ Freed(pc'[t]) <=> Freed(pc[t])
      BY <1>1, <1>2, <2>6
         DEF LockPred, CheckVictim, LockVictim, CountDown, Freed
    <3> QED BY <3>1
  <2>7. CASE SetFullyLinked(t) \/ CountUp(t)
    <3>1. g = f /\ f.find = "insert"
      BY <1>1, <1>2, <2>7 DEF SetFullyLinked, CountUp, IInv, FrameOK,
                              InsertLabels
    <3> QED BY <3>1
  <2> QED BY <2>1, <2>2, <2>3, <2>4, <2>5, <2>6, <2>7 DEF Step
<1>9. CallOf(t)' = CallOf(t)
  BY <1>1, <1>5, <1>8, SameCall
<1> QED BY <1>3, <1>5, <1>7, <1>9, Stutters

(***************************************************************************)
(* Every step is a step of the abstract range lock or is not seen.         *)
(***************************************************************************)
LEMMA StepRefines ==
  ASSUME ProperUse, NoMeet, IInv, IInv', OwnInv, ContentionInv, Next
  PROVE  Abstract!Next \/ UNCHANGED Abstract!lockVars
<1>1. PICK t \in Threads :
        \/ \E r \in Requests, height \in Heights : TryLock(t, r, height)
        \/ \E r \in Requests : ReleaseLock(t, r)
        \/ Step(t)
  BY DEF Next
<1>2. CASE \E r \in Requests, height \in Heights : TryLock(t, r, height)
  <2>1. PICK r \in Requests, height \in Heights : TryLock(t, r, height)
    BY <1>2
  <2>2. Abstract!TryLock(t, r)
    BY <2>1, TryLockRefines
  <2> QED BY <2>2 DEF Abstract!Next
<1>3. CASE \E r \in Requests : ReleaseLock(t, r)
  <2>1. PICK r \in Requests : ReleaseLock(t, r)
    BY <1>3
  <2>2. Abstract!ReleaseLock(t, r)
    BY <2>1, ReleaseLockRefines
  <2> QED BY <2>2 DEF Abstract!Next
<1>4. CASE ReturnFalse(t)
  <2>1. pc[t] \in {"refuse", "wrong"}
    BY <1>4 DEF ReturnFalse
  <2>2. pc[t] # "wrong"
    BY ReleasesOwn DEF OwnerReleases
  <2>3. Abstract!Refuse(t)
    BY <1>4, <2>1, <2>2, RefuseRefines
  <2> QED BY <2>3 DEF Abstract!Next
<1>5. CASE Return(t)
  <2>1. Abstract!Acquired(t) \/ Abstract!Released(t)
    BY <1>5, ReturnRefines
  <2> QED BY <2>1 DEF Abstract!Next
<1>6. CASE Link(t) /\ frame[t].at = 0
  <2>1. Abstract!Grant(t)
    BY <1>6, LinkRefines
  <2> QED BY <2>1 DEF Abstract!Next
<1>7. CASE Unlink(t) /\ frame[t].at = 0
  <2>1. Abstract!Free(t)
    BY <1>7, UnlinkRefines
  <2> QED BY <2>1 DEF Abstract!Next
<1> QED BY <1>1, <1>2, <1>3, <1>4, <1>5, <1>6, <1>7, QuietRefines

(***************************************************************************)
(* ImplementsRangeLock: with clients that release what they own, ranges of *)
(* more than one key, of which no two meet in a key and none ends at the   *)
(* highest one, the skip list of src/src/v1 implements the range lock.     *)
(***************************************************************************)
THEOREM Refinement ==
  ASSUME ProperUse, NoMeet, InsideLimits
  PROVE  Spec => ImplementsRangeLock
<1>1. Init => Abstract!Init
  <2> SUFFICES ASSUME Init PROVE Abstract!Init
    OBVIOUS
  <2>1. \A t \in Threads : CallOf(t) = [op |-> "idle"]
    BY DEF Init, CallOf, Rest
  <2>2. Locked = {} /\ owned = {}
    BY DEF Init, Locked
  <2> QED BY <2>1, <2>2 DEF Abstract!Init, Abstract!Idle
<1>2. IInv /\ IInv' /\ OwnInv /\ ContentionInv /\ [Next]_vars
        => Abstract!Next \/ UNCHANGED Abstract!lockVars
  <2> SUFFICES ASSUME IInv, IInv', OwnInv, ContentionInv, [Next]_vars
               PROVE  Abstract!Next \/ UNCHANGED Abstract!lockVars
    OBVIOUS
  <2>1. CASE UNCHANGED vars
    <3>1. Held' = Held /\ Owned' = Owned
      BY <2>1 DEF vars, Held, Owned, Locked
    <3>2. \A u \in Threads : CallOf(u)' = CallOf(u)
      BY <2>1 DEF vars, CallOf
    <3> QED BY <3>1, <3>2 DEF Abstract!lockVars, Held, Owned
  <2>2. CASE Next
    BY <2>2, StepRefines
  <2> QED BY <2>1, <2>2
<1>3. Spec => []OwnInv
  BY OwnInvariant
<1>4. Spec => []ContentionInv
  BY ContentionInvariant DEF ProperUse
<1>5. ProperRanges
  BY DEF ProperUse
<1> QED BY <1>1, <1>2, <1>3, <1>4, <1>5, Invariance, PTL
        DEF Spec, ImplementsRangeLock, Abstract!Spec
=============================================================================

-------------------------- MODULE RangeLock_Proofs --------------------------
(***************************************************************************)
(* What follows from the promise alone, and so holds of every lock that    *)
(* implements it: locked ranges exclude each other, a range stays locked   *)
(* as long as somebody counts on it, and no pending request is stuck.      *)
(***************************************************************************)
EXTENDS RangeLock, TLAPS

(***************************************************************************)
(* A range excludes itself, and exclusion works both ways.  The overlap    *)
(* tests of src/src/v0 ... v3 are of this kind on ranges with start < end. *)
(***************************************************************************)
Conflict ==
  /\ \A r \in Requests : Overlap(r, r)
  /\ \A q, r \in Requests : Overlap(q, r) => Overlap(r, q)

Calls ==
  {Idle}
    \cup [op : {"tryLock"}, range : Requests, contended : BOOLEAN]
    \cup [op : {"granted", "releaseLock", "released"}, range : Requests]

TypeOK ==
  /\ held \in SUBSET Requests
  /\ owned \in SUBSET Requests
  /\ call \in [Threads -> Calls]

(***************************************************************************)
(* The locked ranges exclude each other.                                   *)
(***************************************************************************)
Exclusion == \A q, r \in held : q # r => ~Overlap(q, r)

(***************************************************************************)
(* A range is counted on by its owner, by the call that was granted it and *)
(* by the call that is about to free it: by one of them at a time, and     *)
(* only while it is locked.                                                *)
(***************************************************************************)
CountsOn(t) == call[t].op \in {"granted", "releaseLock"}

OneHolder ==
  /\ owned \subseteq held
  /\ \A t \in Threads : CountsOn(t) => call[t].range \in held \ owned
  /\ \A t, u \in Threads :
       t # u /\ CountsOn(t) /\ CountsOn(u) => call[t].range # call[u].range

(***************************************************************************)
(* A pending tryLock may always return: its range can be granted, or it    *)
(* has met contention and can be refused.                                  *)
(***************************************************************************)
Settled ==
  \A t \in Threads :
    call[t].op = "tryLock" =>
      \/ call[t].contended
      \/ \A h \in held : ~Overlap(h, call[t].range)

Inv == TypeOK /\ Exclusion /\ OneHolder /\ Settled

-----------------------------------------------------------------------------
(***************************************************************************)
(* The steps of a single thread t, each of which keeps Inv.  A new request *)
(* has met contention if an overlapping range is locked.                   *)
(***************************************************************************)
LEMMA TryLockKeeps ==
  ASSUME Conflict, Inv, NEW t \in Threads, NEW r \in Requests, TryLock(t, r)
  PROVE  Inv'
PROOF
  <1> DEFINE c == [op |-> "tryLock", range |-> r,
                   contended |-> \E h \in held : Overlap(h, r)]
  <1>1. call' = [call EXCEPT ![t] = c] /\ held' = held /\ owned' = owned
    BY DEF TryLock
  <1>2. c \in [op : {"tryLock"}, range : Requests, contended : BOOLEAN]
    OBVIOUS
  <1>3. c \in Calls
    BY <1>2 DEF Calls
  <1>4. c.op = "tryLock" /\ c.range = r
        /\ (c.contended <=> \E h \in held : Overlap(h, r))
    OBVIOUS
  <1> HIDE DEF c
  <1>5. TypeOK'
    BY <1>1, <1>3 DEF Inv, TypeOK
  <1>6. Exclusion'
    BY <1>1 DEF Inv, Exclusion
  <1>7. OneHolder'
    BY <1>1, <1>4 DEF Inv, TypeOK, OneHolder, CountsOn
  <1>8. Settled'
    BY <1>1, <1>4 DEF Inv, TypeOK, Settled
  <1> QED
    BY <1>5, <1>6, <1>7, <1>8 DEF Inv

(***************************************************************************)
(* A grant finds no locked range that overlaps, and the requests that      *)
(* overlap what it locks have met contention from now on.                  *)
(***************************************************************************)
LEMMA GrantKeeps ==
  ASSUME Conflict, Inv, NEW t \in Threads, Grant(t)
  PROVE  Inv'
PROOF
  <1> DEFINE r == call[t].range
             g == [op |-> "granted", range |-> r]
             c(u) == [call[u] EXCEPT !.contended =
                        @ \/ Overlap(r, call[u].range)]
  <1>1. /\ call[t].op = "tryLock"
        /\ \A h \in held : ~Overlap(h, r)
        /\ held' = held \cup {r}
        /\ owned' = owned
        /\ call' = [u \in Threads |->
                      IF u = t THEN g
                      ELSE IF call[u].op = "tryLock" THEN c(u) ELSE call[u]]
    BY DEF Grant
  <1>2. call[t] \in Calls /\ r \in Requests
    BY <1>1 DEF Inv, TypeOK, Calls, Idle
  <1>3. r \notin held
    BY <1>1, <1>2 DEF Conflict
  <1>4. g \in Calls /\ g.op = "granted" /\ g.range = r
    BY <1>2 DEF Calls
  <1>5. ASSUME NEW u \in Threads, call[u].op = "tryLock"
        PROVE  /\ c(u) \in Calls
               /\ c(u).op = "tryLock"
               /\ c(u).range = call[u].range
               /\ c(u).contended <=> \/ call[u].contended
                                     \/ Overlap(r, call[u].range)
    <2>1. call[u] \in [op : {"tryLock"}, range : Requests, contended : BOOLEAN]
      BY <1>5 DEF Inv, TypeOK, Calls, Idle
    <2>2. c(u) \in [op : {"tryLock"}, range : Requests, contended : BOOLEAN]
      BY <2>1
    <2> QED
      BY <2>1, <2>2 DEF Calls
  <1> HIDE DEF g, c
  <1>6. TypeOK'
    BY <1>1, <1>2, <1>4, <1>5 DEF Inv, TypeOK
  <1>7. Exclusion'
    BY <1>1, <1>2 DEF Inv, TypeOK, Exclusion, Conflict
  <1>8. \A u \in Threads \ {t} :
          CountsOn(u)' <=> CountsOn(u) /\ call'[u].range = call[u].range
    BY <1>1, <1>5 DEF CountsOn
  <1>9. OneHolder'
    BY <1>1, <1>3, <1>4, <1>8 DEF Inv, TypeOK, OneHolder, CountsOn
  <1>10. Settled'
    <2> SUFFICES ASSUME NEW u \in Threads, call'[u].op = "tryLock"
                 PROVE  \/ call'[u].contended
                        \/ \A h \in held' : ~Overlap(h, call'[u].range)
      BY DEF Settled
    <2>1. u # t /\ call[u].op = "tryLock" /\ call'[u] = c(u)
      BY <1>1, <1>4
    <2> QED
      BY <2>1, <1>1, <1>5 DEF Inv, Settled
  <1> QED
    BY <1>6, <1>7, <1>9, <1>10 DEF Inv

(***************************************************************************)
(* The range of a call that returns true passes from the call to its owner.*)
(***************************************************************************)
LEMMA AcquiredKeeps ==
  ASSUME Conflict, Inv, NEW t \in Threads, Acquired(t)
  PROVE  Inv'
PROOF
  <1>1. /\ call[t] \in Calls /\ call[t].op = "granted"
        /\ call[t].range \in Requests
    BY DEF Inv, TypeOK, Calls, Idle, Acquired
  <1>2. Idle \in Calls /\ Idle.op = "idle"
    BY DEF Calls, Idle
  <1>3. /\ call' = [call EXCEPT ![t] = Idle]
        /\ owned' = owned \cup {call[t].range}
        /\ held' = held
    BY DEF Acquired
  <1>4. TypeOK'
    BY <1>1, <1>2, <1>3 DEF Inv, TypeOK
  <1>5. Exclusion'
    BY <1>3 DEF Inv, Exclusion
  <1>6. OneHolder'
    BY <1>1, <1>2, <1>3 DEF Inv, TypeOK, OneHolder, CountsOn
  <1>7. Settled'
    BY <1>2, <1>3 DEF Inv, TypeOK, Settled
  <1> QED
    BY <1>4, <1>5, <1>6, <1>7 DEF Inv

(***************************************************************************)
(* A call that counts on nothing returns.                                  *)
(***************************************************************************)
LEMMA IdleKeeps ==
  ASSUME Conflict, Inv, NEW t \in Threads, Refuse(t) \/ Released(t)
  PROVE  Inv'
PROOF
  <1>1. call[t].op \in {"tryLock", "released"}
    BY DEF Refuse, Released
  <1>2. Idle \in Calls /\ Idle.op = "idle"
    BY DEF Calls, Idle
  <1>3. call' = [call EXCEPT ![t] = Idle] /\ owned' = owned /\ held' = held
    BY DEF Refuse, Released
  <1>4. TypeOK'
    BY <1>2, <1>3 DEF Inv, TypeOK
  <1>5. Exclusion'
    BY <1>3 DEF Inv, Exclusion
  <1>6. OneHolder'
    BY <1>2, <1>3 DEF Inv, TypeOK, OneHolder, CountsOn
  <1>7. Settled'
    BY <1>2, <1>3 DEF Inv, TypeOK, Settled
  <1> QED
    BY <1>4, <1>5, <1>6, <1>7 DEF Inv

(***************************************************************************)
(* The range passes from its owner to the call that releases it.           *)
(***************************************************************************)
LEMMA ReleaseLockKeeps ==
  ASSUME Conflict, Inv, NEW t \in Threads, NEW r \in Requests, ReleaseLock(t, r)
  PROVE  Inv'
PROOF
  <1> DEFINE c == [op |-> "releaseLock", range |-> r]
  <1>1. /\ call[t] = Idle /\ r \in owned /\ held' = held
        /\ call' = [call EXCEPT ![t] = c] /\ owned' = owned \ {r}
    BY DEF ReleaseLock
  <1>2. c \in Calls /\ c.op = "releaseLock" /\ c.range = r
    BY DEF Calls
  <1> HIDE DEF c
  <1>3. TypeOK'
    BY <1>1, <1>2 DEF Inv, TypeOK
  <1>4. Exclusion'
    BY <1>1 DEF Inv, Exclusion
  <1>5. OneHolder'
    BY <1>1, <1>2 DEF Inv, TypeOK, OneHolder, CountsOn
  <1>6. Settled'
    BY <1>1, <1>2 DEF Inv, TypeOK, Settled
  <1> QED
    BY <1>3, <1>4, <1>5, <1>6 DEF Inv

(***************************************************************************)
(* A range that is freed was counted on by the call that frees it only.    *)
(***************************************************************************)
LEMMA FreeKeeps ==
  ASSUME Conflict, Inv, NEW t \in Threads, Free(t)
  PROVE  Inv'
PROOF
  <1> DEFINE r == call[t].range
             c == [op |-> "released", range |-> r]
  <1>1. /\ call[t].op = "releaseLock" /\ owned' = owned
        /\ call' = [call EXCEPT ![t] = c] /\ held' = held \ {r}
    BY DEF Free
  <1>2. r \in Requests
    BY <1>1 DEF Inv, TypeOK, Calls, Idle
  <1>3. c \in Calls /\ c.op = "released"
    BY <1>2 DEF Calls
  <1>4. r \notin owned
        /\ \A u \in Threads \ {t} : CountsOn(u) => call[u].range # r
    BY <1>1 DEF Inv, OneHolder, CountsOn
  <1> HIDE DEF r, c
  <1>5. TypeOK'
    BY <1>1, <1>3 DEF Inv, TypeOK
  <1>6. Exclusion'
    BY <1>1 DEF Inv, Exclusion
  <1>7. OneHolder'
    BY <1>1, <1>3, <1>4 DEF Inv, TypeOK, OneHolder, CountsOn
  <1>8. Settled'
    BY <1>1, <1>3 DEF Inv, TypeOK, Settled
  <1> QED
    BY <1>5, <1>6, <1>7, <1>8 DEF Inv

(***************************************************************************)
(* The promise keeps locked ranges apart, every range locked as long as    *)
(* its one holder counts on it, and every pending request answerable: what *)
(* the clients of all the implementations in src/src build on.             *)
(***************************************************************************)
THEOREM Promise ==
  ASSUME Conflict
  PROVE  Spec => [](TypeOK /\ Exclusion /\ OneHolder /\ Settled)
PROOF
  <1>1. Init => Inv
    <2> SUFFICES ASSUME Init PROVE Inv
      OBVIOUS
    <2>1. Idle \in Calls /\ Idle.op = "idle"
      BY DEF Calls, Idle
    <2>2. \A t \in Threads : call[t].op = "idle"
      BY <2>1 DEF Init
    <2> QED
      BY <2>1, <2>2 DEF Init, Inv, TypeOK, Exclusion, OneHolder, CountsOn,
                        Settled
  <1>2. Inv /\ [Next]_lockVars => Inv'
    <2> SUFFICES ASSUME Inv, [Next]_lockVars PROVE Inv'
      OBVIOUS
    <2>1. CASE UNCHANGED lockVars
      BY <2>1 DEF lockVars, Inv, TypeOK, Exclusion, OneHolder, CountsOn,
                  Settled
    <2>2. CASE Next
      <3>1. PICK t \in Threads :
              \/ \E r \in Requests : TryLock(t, r) \/ ReleaseLock(t, r)
              \/ Grant(t) \/ Acquired(t) \/ Refuse(t)
              \/ Free(t) \/ Released(t)
        BY <2>2 DEF Next
      <3> QED
        BY <3>1, TryLockKeeps, ReleaseLockKeeps, GrantKeeps, AcquiredKeeps,
           IdleKeeps, FreeKeeps
    <2> QED
      BY <2>1, <2>2
  <1> QED
    BY <1>1, <1>2, PTL DEF Spec, Inv
=============================================================================

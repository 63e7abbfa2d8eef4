----------------------------- MODULE RangeLock -----------------------------
(***************************************************************************)
(* What a range lock promises its clients, whatever data structure is      *)
(* behind it.  A call is a sequence of steps: it begins, it takes effect   *)
(* at one instant, it returns.  The data structures of src/src/v0 ... v3   *)
(* are shown to implement this specification.                              *)
(***************************************************************************)
CONSTANTS
  Threads,          \* the threads that call the lock
  Requests,         \* the ranges they may ask for
  Overlap(_, _)     \* whether two ranges exclude each other

VARIABLES
  held,     \* the ranges that are locked
  call,     \* the call each thread is in
  owned     \* the ranges a tryLock returned true for, not yet given back

lockVars == <<held, call, owned>>

Idle == [op |-> "idle"]

Init ==
  /\ held = {}
  /\ owned = {}
  /\ call = [t \in Threads |-> Idle]

-----------------------------------------------------------------------------
(***************************************************************************)
(* A call of tryLock remembers whether it met contention: an overlapping   *)
(* range that was locked when the call began, or became so since.          *)
(***************************************************************************)
TryLock(t, r) ==
  /\ call[t] = Idle
  /\ call' = [call EXCEPT ![t] =
                [op |-> "tryLock", range |-> r,
                 contended |-> \E h \in held : Overlap(h, r)]]
  /\ UNCHANGED <<held, owned>>

(***************************************************************************)
(* A range is granted only while no locked range overlaps it; every other  *)
(* pending request that it overlaps has met contention from then on.       *)
(***************************************************************************)
Grant(t) ==
  /\ call[t].op = "tryLock"
  /\ \A h \in held : ~Overlap(h, call[t].range)
  /\ held' = held \cup {call[t].range}
  /\ call' = [u \in Threads |->
                IF u = t THEN [op |-> "granted", range |-> call[t].range]
                ELSE IF call[u].op = "tryLock"
                     THEN [call[u] EXCEPT !.contended =
                             @ \/ Overlap(call[t].range, call[u].range)]
                     ELSE call[u]]
  /\ UNCHANGED owned

(***************************************************************************)
(* tryLock returns true ...                                                *)
(***************************************************************************)
Acquired(t) ==
  /\ call[t].op = "granted"
  /\ call' = [call EXCEPT ![t] = Idle]
  /\ owned' = owned \cup {call[t].range}
  /\ UNCHANGED held

(***************************************************************************)
(* ... or false, and then only if the call met contention.                 *)
(***************************************************************************)
Refuse(t) ==
  /\ call[t].op = "tryLock"
  /\ call[t].contended
  /\ call' = [call EXCEPT ![t] = Idle]
  /\ UNCHANGED <<held, owned>>

(***************************************************************************)
(* Only a range that is owned is released, by any thread, and once.        *)
(***************************************************************************)
ReleaseLock(t, r) ==
  /\ call[t] = Idle
  /\ r \in owned
  /\ owned' = owned \ {r}
  /\ call' = [call EXCEPT ![t] = [op |-> "releaseLock", range |-> r]]
  /\ UNCHANGED held

Free(t) ==
  /\ call[t].op = "releaseLock"
  /\ held' = held \ {call[t].range}
  /\ call' = [call EXCEPT ![t] = [op |-> "released", range |-> @.range]]
  /\ UNCHANGED owned

Released(t) ==
  /\ call[t].op = "released"
  /\ call' = [call EXCEPT ![t] = Idle]
  /\ UNCHANGED <<held, owned>>

Next ==
  \E t \in Threads :
    \/ \E r \in Requests : TryLock(t, r) \/ ReleaseLock(t, r)
    \/ Grant(t) \/ Acquired(t) \/ Refuse(t)
    \/ Free(t) \/ Released(t)

Spec == Init /\ [][Next]_lockVars
=============================================================================

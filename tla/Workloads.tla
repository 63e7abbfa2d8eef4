----------------------------- MODULE Workloads -----------------------------
(***************************************************************************)
(* The programs of src/app and src/benchmark that use a range lock: a main *)
(* thread forks threads that lock, write and release, and joins them.      *)
(*                                                                         *)
(* Every program runs on the lock it is written for.  The lock takes the   *)
(* steps of the specification RangeLock, with what v0 and v2 do otherwise: *)
(* v0 refuses every range at the lowest key, v2 locks a range without its  *)
(* end, and promises nothing but justified refusals to clients that        *)
(* acquire while others release.  v1 and v3 are used for ranges that       *)
(* neither meet in a key nor lie at a limit, for which they implement it.  *)
(*                                                                         *)
(* What a thread does is unrolled to a sequence of instructions.  Sizes    *)
(* are small, everything else is computed as the programs compute it; what *)
(* a program shuffles or draws at random is chosen in the initial state.   *)
(***************************************************************************)
EXTENDS Naturals, SequencesExt, Intervals

CONSTANTS
  numThreads,
  numOfRanges,                  \* how many ranges a program makes
  num_transactions_per_thread,
  num_records,                  \* of the database, and
  minLength, maxLength          \* the lengths of the ranges it draws

ASSUME WorkloadAssumption ==
  /\ numThreads \in Nat \ {0} /\ numOfRanges \in Nat
  /\ num_transactions_per_thread \in Nat /\ num_records \in Nat
  /\ minLength \in Nat \ {0} /\ maxLength \in minLength .. num_records

Threads == 1 .. numThreads

VARIABLES
  held, call, owned,  \* the lock, see RangeLock
  phased,             \* whether v2 has been spared a release during an
                      \* acquisition
  program,            \* which program runs, and what its threads do
  main,               \* "run", "done" or, after exit(EXIT_FAILURE), "exit"
  round,              \* how often the threads have been joined
  forked,             \* how many threads the main thread has forked
  arrived,            \* who has reached the barrier; 0 is the main thread
  code,               \* the instructions a thread has still to execute
  writing             \* whether a thread is in the middle of a write

lockVars == <<held, call, owned, phased>>
mainVars == <<program, main, round, forked, arrived>>
vars == <<lockVars, mainVars, code, writing>>

R(s, e) == [start |-> s, end |-> e]
L == INSTANCE RangeLock WITH Requests <- {}, Overlap <- ClosedOverlap

(***************************************************************************)
(* v0's head is the range of the lowest key, and whatever starts there is  *)
(* taken to overlap it.                                                    *)
(***************************************************************************)
RefusesAlways(lock, r) == lock = "v0" /\ r.start = 0

-----------------------------------------------------------------------------
(***************************************************************************)
(* The ranges the programs make, before they shuffle them.                 *)
(***************************************************************************)
Every(first, step, length) ==
  {R(first + i * step, first + i * step + length) : i \in 0 .. numOfRanges - 1}

size == 4
sharedMemorySize == numOfRanges * (size + 1)
createNonOverlappingRanges == Every(1, size + 1, size)
createNonOverlappingRanges_gtest2 == Every(1, size + 1, size)
createNonOverlappingRanges_scalability == Every(1, 10, 5)
createRanges_debug == Every(0, 10, 20)
createRanges_benchmark == Every(0, 20, 10)

(***************************************************************************)
(* The files of benchmark/initialize.cpp, in their order: ranges, and a    *)
(* range at a random place in the gap behind each.                         *)
(***************************************************************************)
range_size == 100
initial_ranges ==
  [i \in 1 .. numOfRanges |->
     R((i - 1) * 2 * range_size, (i - 1) * 2 * range_size + range_size)]
instant_ranges(offset) ==
  [i \in 1 .. numOfRanges |->
     LET start == (2 * i - 1) * range_size + offset IN R(start, start + 49)]

(***************************************************************************)
(* The ranges of a database transaction: dist and range_dist.              *)
(***************************************************************************)
Draws ==
  {R(s, s + n) : s \in 0 .. num_records - maxLength, n \in minLength .. maxLength}

-----------------------------------------------------------------------------
(***************************************************************************)
(* How the ranges are dealt to the threads i = 0, 1, ...: in blocks, the   *)
(* last of which takes the remainder, or one after the other.  Mutants:    *)
(* blocks that overlap, and a remainder that is forgotten.                 *)
(***************************************************************************)
BlockOverlapping(ranges, i) ==
  LET rangePerThread == Len(ranges) \div numThreads
      startIdx == i * rangePerThread
      endIdx == IF i = numThreads - 1 THEN Len(ranges)
                                      ELSE startIdx + rangePerThread + 1
  IN  SubSeq(ranges, startIdx + 1, endIdx)

BlockShort(ranges, i) ==
  LET rangePerThread == Len(ranges) \div numThreads
      startIdx == i * rangePerThread
  IN  SubSeq(ranges, startIdx + 1, startIdx + rangePerThread)

Block(ranges, i) ==
  LET rangePerThread == Len(ranges) \div numThreads
      startIdx == i * rangePerThread
      endIdx == IF i = numThreads - 1 THEN Len(ranges)
                                      ELSE startIdx + rangePerThread
  IN  SubSeq(ranges, startIdx + 1, endIdx)

Stride(ranges, i) ==
  LET count == (Len(ranges) + numThreads - 1 - i) \div numThreads
  IN  [k \in 1 .. count |-> ranges[i + (k - 1) * numThreads + 1]]

(***************************************************************************)
(* The instructions: "lock" calls tryLock until it returns true, "try"     *)
(* calls it once and ignores the result, as releases ignore theirs except  *)
(* "release or exit".                                                      *)
(***************************************************************************)
I(op, r) == [op |-> op, range |-> r]
Do(op, ranges) == [j \in 1 .. Len(ranges) |-> I(op, ranges[j])]

(***************************************************************************)
(* The body of a loop over ranges: the instructions ops for each.          *)
(***************************************************************************)
Loop(ops, ranges) ==
  FlattenSeq([j \in 1 .. Len(ranges) |->
                [k \in 1 .. Len(ops) |-> I(ops[k], ranges[j])]])

database_transactionLate(lock, drawn) ==    \* mutant: releases at the end
  Loop(<<"lock", "write">>, drawn) \o Do("release", drawn)

database_transaction(lock, drawn) ==
  Loop(<<"lock", "write",
         IF lock = "v0" THEN "release or exit" ELSE "release">>, drawn)

runScalability_gtest(ranges, i) ==
  Loop(<<"try", "write">>, Block(ranges, i)) \o Do("release", Block(ranges, i))

runScalabilityWithHeight(ranges, i) ==
  Loop(<<"try", "maybe release">>, Block(ranges, i))

runScalability(ranges, i) ==
  <<I("barrier", R(0, 0))>> \o Do("try", Block(ranges, i))

thread_v0_debug(ranges, i) == Loop(<<"lock", "release">>, Stride(ranges, i))

thread_v0_v1(ranges, i) == Do("try", Stride(ranges, i))

range_lock(initial, instant) ==
  Do("lock", initial) \o Loop(<<"lock", "release">>, instant)
    \o Do("release", initial)

(***************************************************************************)
(* A program: its file, its lock, the code of its threads, how often it    *)
(* forks and joins them while it uses the same lock, the size of what it   *)
(* writes to, whether it has a barrier, and how many ranges should be      *)
(* locked at the end (a set where it leaves that to chance).               *)
(***************************************************************************)
Run(file, lock, threadCode, rounds, memory, leaves) ==
  [file |-> file, lock |-> lock, code |-> threadCode,
   rounds |-> rounds, memory |-> memory,
   barrier |-> \E t \in DOMAIN threadCode : \E k \in 1 .. Len(threadCode[t]) :
                 threadCode[t][k].op = "barrier",
   leaves |-> leaves]

Lockable(lock, ranges) ==
  Cardinality({r \in ranges : ~RefusesAlways(lock, r)})

Programs ==
  {Run("database", v, [t \in Threads |-> database_transaction(v, d[t])], 1,
       num_records, {0}) :
     v \in {"v0", "v2"},
     d \in [Threads -> [1 .. num_transactions_per_thread -> Draws]]}
  \cup {Run("gtest", v, [t \in Threads |-> runScalability_gtest(s, t - 1)], 2,
            sharedMemorySize, {0}) :
          v \in {"v0", "v1", "v2", "v3"},
          s \in SetToSeqs(createNonOverlappingRanges)}
  \cup {Run("gtest2", "v0",
            [t \in Threads |-> runScalabilityWithHeight(s, t - 1)], 2, 0,
            0 .. numOfRanges) :
          s \in SetToSeqs(createNonOverlappingRanges_gtest2)}
  \cup {Run("scalability", v, [t \in Threads |-> runScalability(s, t - 1)], 1,
            0, {numOfRanges}) :
          v \in {"v0", "v2"},
          s \in SetToSeqs(createNonOverlappingRanges_scalability)}
  \cup {Run("debug", "v0", [t \in Threads |-> thread_v0_debug(s, t - 1)], 1,
            0, {0}) :
          s \in SetToSeqs(createRanges_debug)}
  \cup {Run("app/benchmark", v, [t \in Threads |-> thread_v0_v1(s, t - 1)], 1,
            0, {Lockable(v, createRanges_benchmark)}) :
          v \in {"v0", "v2"}, s \in SetToSeqs(createRanges_benchmark)}
  \cup {Run("benchmark", v,
            <<range_lock(initial_ranges, instant_ranges(o))>>, 1, 0, {0}) :
          v \in {"v0", "v2"}, o \in {1, 49}}

-----------------------------------------------------------------------------
Init ==
  /\ L!Init
  /\ phased = TRUE
  /\ program \in Programs
  /\ main = "run"
  /\ round = 1
  /\ forked = 0
  /\ arrived = {}
  /\ code = [t \in Threads |-> <<>>]
  /\ writing = [t \in Threads |-> FALSE]

(***************************************************************************)
(* The main thread: it forks the threads one by one, is the last party of  *)
(* the barrier, and joins.                                                 *)
(***************************************************************************)
Fork ==
  /\ main = "run" /\ forked < Len(program.code)
  /\ forked' = forked + 1
  /\ code' = [code EXCEPT ![forked + 1] = program.code[forked + 1]]
  /\ UNCHANGED <<lockVars, program, main, round, arrived, writing>>

ArriveMain ==
  /\ main = "run" /\ program.barrier /\ forked = Len(program.code)
  /\ 0 \notin arrived
  /\ arrived' = arrived \cup {0}
  /\ UNCHANGED <<lockVars, program, main, round, forked, code, writing>>

Joined ==
  /\ main = "run" /\ forked = Len(program.code)
  /\ program.barrier => 0 \in arrived
  /\ \A t \in Threads : code[t] = <<>>

Join ==
  /\ Joined
  /\ \/ round = program.rounds /\ main' = "done" /\ UNCHANGED <<round, forked>>
     \/ /\ round < program.rounds
        /\ round' = round + 1 /\ forked' = 0 /\ UNCHANGED main
  /\ UNCHANGED <<lockVars, program, arrived, code, writing>>

-----------------------------------------------------------------------------
(***************************************************************************)
(* The threads.  An instruction is over when its last step pops it.        *)
(***************************************************************************)
At(t, ops) == main = "run" /\ code[t] # <<>> /\ Head(code[t]).op \in ops
Pop(t) == code' = [code EXCEPT ![t] = Tail(@)]

Barrier(t) ==
  /\ At(t, {"barrier"})
  /\ \/ t \notin arrived /\ arrived' = arrived \cup {t} /\ UNCHANGED code
     \/ arrived = Threads \cup {0} /\ Pop(t) /\ UNCHANGED arrived
  /\ UNCHANGED <<lockVars, program, main, round, forked, writing>>

(***************************************************************************)
(* What the lock is asked for; who asks tells equal ranges apart where v2  *)
(* grants both.                                                            *)
(***************************************************************************)
Wanted(t) ==
  LET r == Head(code[t]).range
  IN  [start |-> r.start,
       end |-> IF program.lock = "v2" THEN r.end - 1 ELSE r.end, by |-> t]

Phased(ops) ==
  phased /\ (program.lock = "v2" => \A u \in Threads : call[u].op \notin ops)

TryLock(t) ==
  /\ At(t, {"try", "lock"})
  /\ L!TryLock(t, Wanted(t))
  /\ phased' = Phased({"releaseLock", "released"})
  /\ UNCHANGED <<mainVars, code, writing>>

(***************************************************************************)
(* A release of v2 during an acquisition may have lost any node: the range *)
(* can be granted whatever is locked.                                      *)
(***************************************************************************)
GrantUnphased(t) ==
  /\ program.lock = "v2" /\ ~phased
  /\ call[t].op = "tryLock"
  /\ held' = held \cup {Wanted(t)}
  /\ call' =
       [u \in Threads |->
          IF u = t THEN [op |-> "granted", range |-> Wanted(t)]
          ELSE IF call[u].op = "tryLock" /\ ClosedOverlap(Wanted(t), Wanted(u))
               THEN [call[u] EXCEPT !.contended = TRUE]
               ELSE call[u]]
  /\ UNCHANGED owned

Grant(t) ==
  /\ At(t, {"try", "lock"})
  /\ ~RefusesAlways(program.lock, Wanted(t))
  /\ L!Grant(t) \/ GrantUnphased(t)
  /\ UNCHANGED <<phased, mainVars, code, writing>>

Acquired(t) ==
  /\ L!Acquired(t)
  /\ Pop(t)
  /\ UNCHANGED <<phased, mainVars, writing>>

(***************************************************************************)
(* tryLock returns false.  Mutant: a loop that does not try again.         *)
(***************************************************************************)
Refusal(t) ==
  /\ At(t, {"try", "lock"})
  /\ \/ L!Refuse(t)
     \/ /\ call[t].op = "tryLock" /\ RefusesAlways(program.lock, Wanted(t))
        /\ call' = [call EXCEPT ![t] = L!Idle]
        /\ UNCHANGED <<held, owned>>
  /\ UNCHANGED <<phased, mainVars, writing>>

RefusedOnce(t) == Refusal(t) /\ Pop(t)

Refused(t) ==
  /\ Refusal(t)
  /\ IF At(t, {"try"}) THEN Pop(t) ELSE UNCHANGED code

Write(t) ==
  /\ At(t, {"write"})
  /\ \/ ~writing[t] /\ UNCHANGED code
     \/ writing[t] /\ Pop(t)
  /\ writing' = [writing EXCEPT ![t] = ~@]
  /\ UNCHANGED <<lockVars, mainVars>>

(***************************************************************************)
(* A release of a range that is not owned returns false.                   *)
(***************************************************************************)
Release(t) ==
  /\ At(t, {"release", "maybe release", "release or exit"})
  /\ call[t] = L!Idle
  /\ IF Wanted(t) \in owned
     THEN /\ L!ReleaseLock(t, Wanted(t))
          /\ phased' = Phased({"tryLock", "granted"})
          /\ UNCHANGED <<code, main>>
     ELSE /\ Pop(t)
          /\ main' = IF At(t, {"release or exit"}) THEN "exit" ELSE main
          /\ UNCHANGED lockVars
  /\ UNCHANGED <<program, round, forked, arrived, writing>>

Released(t) ==
  /\ \/ L!Free(t) /\ UNCHANGED code
     \/ L!Released(t) /\ Pop(t)
  /\ UNCHANGED <<phased, mainVars, writing>>

(***************************************************************************)
(* One time in twenty random_with_probability() skips the release.         *)
(***************************************************************************)
SkipRelease(t) ==
  /\ At(t, {"maybe release"}) /\ call[t] = L!Idle
  /\ Pop(t)
  /\ UNCHANGED <<lockVars, mainVars, writing>>

Main == Fork \/ ArriveMain \/ Join
Step(t) ==
  \/ Barrier(t) \/ TryLock(t) \/ Grant(t) \/ Acquired(t) \/ Refused(t)
  \/ Write(t) \/ Release(t) \/ Released(t) \/ SkipRelease(t)

Next == Main \/ \E t \in Threads : Step(t)

(***************************************************************************)
(* The main thread and its threads are scheduled, and the calls of the     *)
(* lock return: CallsReturn shows it of v0, v2 and v3.  Of v1 it is        *)
(* assumed that nobody starves at a mutex: all else ReturnsUnlessStarved   *)
(* shows.                                                                  *)
(***************************************************************************)
Spec ==
  Init /\ [][Next]_vars /\ WF_vars(Main) /\ \A t \in Threads : WF_vars(Step(t))

-----------------------------------------------------------------------------
(***************************************************************************)
(* Threads that write at the same time write to different keys, and every  *)
(* write is inside the memory: past its end memset would run over, and a   *)
(* new key would make the unordered_map of database.cpp rehash under the   *)
(* others.  The programs of gtest.cpp ignore what tryLock returns, so it   *)
(* is on how they deal their ranges that this depends, with v2 too.  The   *)
(* transactions of database.cpp depend on the lock: with v2 a thread may   *)
(* write what another one writes once a release has met an acquisition.    *)
(***************************************************************************)
Keys(t) == Head(code[t]).range.start .. Head(code[t]).range.end - 1

WritesSafe ==
  \A t \in Threads : writing[t] =>
    /\ Keys(t) \subseteq 0 .. program.memory - 1
    /\ \A u \in Threads \ {t} :
         writing[u] /\ Keys(t) \cap Keys(u) # {} =>
           program.file = "database" /\ program.lock = "v2" /\ ~phased

(***************************************************************************)
(* Whoever calls release calls it for a range that is owned: v3 would      *)
(* remove another range, v1 exit, v2 follow a null pointer.  Where tryLock *)
(* is not repeated until it returns true, that takes ranges dealt without  *)
(* overlap, and in gtest2.cpp a refused range that an earlier iteration    *)
(* has left locked.                                                        *)
(***************************************************************************)
ReleasesOwned ==
  \A t \in Threads :
    /\ At(t, {"release", "maybe release", "release or exit"})
    /\ call[t] = L!Idle
    => Wanted(t) \in owned

(***************************************************************************)
(* When the threads are joined, as many ranges are locked as the program   *)
(* leaves: all of them where scalability.cpp asserts it, all but the one   *)
(* at key 0 in app/benchmark.cpp with v0, none where everything is         *)
(* released before the next iteration.                                     *)
(***************************************************************************)
SizeAtJoin == Joined => Cardinality(held) \in program.leaves

(***************************************************************************)
(* A program ends unless it insists on a range that its lock refuses       *)
(* always, as debug.cpp, benchmark/benchmark.cpp and some transactions do  *)
(* with key 0 and v0: these never end.  No thread waits forever at the     *)
(* barrier, for a range nobody releases, or for one another while they     *)
(* hold ranges.                                                            *)
(***************************************************************************)
Insists ==
  \E t \in DOMAIN program.code : \E k \in 1 .. Len(program.code[t]) :
    /\ program.code[t][k].op = "lock"
    /\ RefusesAlways(program.lock, program.code[t][k].range)

Joins ==
  /\ Insists => [](main = "run")
  /\ ~Insists => <>(main = "done")
=============================================================================

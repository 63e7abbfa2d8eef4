# Range locks: models, checks and proofs

This directory holds TLA+ specifications of the range locks in this repository
(`src/v0` to `src/v4`, in the map as `src/src/v0` ...), the TLC configurations
that check them, and TLAPS proofs about four of them (the lock-free skip list of
`src/v0`, the lock-based one of `src/v1`, the list of `src/v2`, the skip list under
one mutex of `src/v3`) and about the abstract lock they implement. `PROJECT.json` lists the runs, the source lines every definition
models, the mutants that show that each property can fail, the hazards the
properties are aimed at, the findings and the theorems.

## 1. The system

A range lock hands out ranges of keys, `[start, end]`, to threads so that no two
that are held at a time overlap. The repository has five of them behind nearly
the same interface, a few programs that use them, and unit tests.

| component | state | operations | how it is concurrent |
|---|---|---|---|
| **v0** `ConcurrentRangeLock` | skip list, every node a locked range; a word per level with a reference and a mark bit; `elementsCount` | `tryLock`, `releaseLock`, `size`, `displayList`; internal `findInsert`, `findExact`, `findDelete` | no locks; compareAndSet on words; searches help to cut marked nodes out |
| **v0** `AtomicMarkableReference` | one 64-bit word | `compareAndSet`, `attemptMark`, `get`, `getReference`, `store` | one atomic word |
| **v1** `ConcurrentRangeLock_V1` | skip list, per node a mutex, `marked`, `fullyLinked` | `tryLock`, `releaseLock`, `searchLock`, `size`, `displayList` | searches without locks, then lock the predecessors and validate |
| **v2** `ListRL` | linked list, mark bit in `next` | `MutexRangeAcquire`, `MutexRangeRelease`, `size`, `printList` | compare-and-swap to insert and unlink, load and store to delete |
| **v3** `SongRangeLock` | skip list | `tryLock`, `releaseLock`, `size`, `displayList` | one mutex around every call |
| **v4** `concurrent_tree`, `treenode`, `keyrange` | binary search tree of disjoint ranges; a mutex, two children and their estimated depths per node | `prepare`, `acquire`, `insert`, `remove`, `release`; inside, rotations | hand-over-hand locking; what a thread holds is the mutex of one node |
| programs (`app/`, `benchmark/`) | a table or shared memory, ranges dealt to threads | fork, try, retry, write, release, join | threads over one lock |

The components do not call each other, apart from v0's list and its words and
v4's three classes; a program uses one lock at a time, and none of them v4. What makes them hard is the
same everywhere: a search runs while the list changes under it, and what it has
found is acted upon some steps later.

What makes a range lock correct, whichever it is:

* **exclusion**: no two ranges held at a time overlap;
* **protection**: what has been granted stays locked until its owner gives it
  back, whatever other threads search, insert, delete and retry;
* **justified refusal**: `tryLock` returns false only if something that overlaps
  was locked at some moment of the call;
* **release**: the release of an owned range succeeds, frees that range and no
  other, and has freed it when it returns;
* **progress**: every call returns;
* **memory**: no search follows a null or missing pointer;
* `size()` is the number of locked ranges, up to calls that are just counting.

v4 is not a range lock of this kind: it keeps a set of ranges for a lock manager, and
the caller is trusted to insert only what does not overlap and to remove only what is
there. Correct means that no range is lost or found twice whatever is rotated and
removed, that threads whose keys overlap take effect in the order in which they passed
the root, that nobody writes to a node another thread holds, and that everybody gets
through. Of the programs one expects that they write only what they may, release only
what they own, and end.

The hazards that threaten these, each at the line where it bites, are listed
under `hazards` in `PROJECT.json`.

## 2. Modules

| module | models | composed with |
|---|---|---|
| `Intervals` | ranges; closed and half-open overlap | |
| `RangeLock` | the abstract range lock: what any of them promises | |
| `AtomicMarkableReference` | v0's word | |
| `ConcurrentRangeLock` | v0 | the three above |
| `ConcurrentRangeLock_V1` | v1 | `Intervals`, `RangeLock` |
| `ListRL` | v2 | `Intervals`, `RangeLock` |
| `SongRangeLock` | v3 | `Intervals`, `RangeLock` |
| `KeyRange` | v4: `keyrange` | `Intervals` |
| `TreeNode` | v4: what the methods of `treenode` do to nodes | `KeyRange` |
| `ConcurrentTree` | v4: threads, mutexes, `locked_keyrange` | `TreeNode` |
| `Workloads` | the programs of `app/` and `benchmark/` | `RangeLock`, changed as v0 and v2 require |
| `RangeLock_Proofs` | what follows from the promise alone | `RangeLock` |
| `ConcurrentRangeLock_Proofs` | proofs about v0: its list | `ConcurrentRangeLock` |
| `ConcurrentRangeLock_Refinement` | proofs about v0: its clients | `ConcurrentRangeLock_Proofs`, `NatSets` |
| `ConcurrentRangeLock_V1_Proofs` | proofs about v1: its list | `ConcurrentRangeLock_V1` |
| `ConcurrentRangeLock_V1_Refinement` | proofs about v1: its clients | `ConcurrentRangeLock_V1_Proofs` |
| `ListRL_Proofs` | proofs about v2 | `ListRL`, `NatSets` |
| `SongRangeLock_Proofs` | proofs about v3 | `SongRangeLock`, `NatSets` |
| `NatSets` | lemmas: induction over sets of numbers | |
| `MC...` | instances for TLC | the module of the same name |

### The abstract lock (`RangeLock`)

A call begins (`TryLock`, `ReleaseLock`), takes effect at one instant (`Grant`,
`Free`) and returns (`Acquired`, `Refuse`, `Released`). `Grant` needs that nothing
held overlaps; `Refuse` needs that the call *met contention*: an overlapping range
was held when the call began or was granted since. Every data structure is
mapped to it by a `CallOf` operator and an `INSTANCE RangeLock WITH ...`, and
`ImplementsRangeLock` says that each of its behaviours is one of the abstract lock.
The instants are:

| | granted by | freed by |
|---|---|---|
| v0 | compareAndSet of level 0 in `tryLock` (line 217) | the snip of level 0, by whichever thread (lines 91, 133, 173) |
| v1 | store to the predecessor on level 0 (line 218) | store to the predecessor on level 0 (line 279) |
| v2 | compare-and-swap in `InsertNode` (line 75) | store of the marked pointer in `DeleteNode` (line 92) |
| v3 | `InsertRange` | the cut in `releaseLock` |

### How a data structure is modelled

In the modules of v0 to v3 `pc[t]` is where thread `t` is and `frame[t]` its locals. A
step is one access to shared memory, with the thread's own computation up to the
next one; in v3, where one mutex covers everything, a search, an insertion and a
removal are one step each. A thread that is `idle` may call `tryLock` on any
requested range with any level `randomLevel()` can return, or release a range that
is owned; the thread that releases need not be the one that locked. With `Misuse`
it may also release what is not owned, which the interface allows and the code
reports, more or less.

`next` (v3: `forward`), `range`, `topLevel`, `marked` and `elementsCount` are the
fields of the code. `owned` holds the nodes a `tryLock` has returned true for and
that have not been given back. `linked` (v2: `present`) and `contended` are history
variables: the nodes in the list of level 0 as the effective writes change it, and
whether a call has met contention. Invariants such as `OrderedChain` tie `linked`
back to the pointers.

Abstractions:

* **Memory order.** Accesses interleave one after the other. v0 and v2 use
  acquire/release or stronger on the words the algorithm depends on, and relaxed
  order only for initialising stores before publication and for the counter. v1
  reads plain fields without a lock, which C++ calls a data race; the model takes
  the outcome of aligned loads and stores in program order.
* **Nodes.** The k-th call of `tryLock` makes node k. An attempt of v0 that fails
  leaks its node unseen, so the next attempt uses the same name. No lock frees
  nodes, so addresses are never reused and there is no ABA problem to model.
* **Words.** A packed word is a pair of a reference and a mark.
* **`unlockAll`** of v1 gives back its mutexes in one step: releases of mutexes can
  be moved earlier past the steps of other threads without being noticed.
* **Counters.** `size_t` is counted modulo `SizeModulus` in v0 and v3, where
  releases of unowned ranges can wrap it; in v1 and v2 the type invariant shows that
  it stays a natural number.

### The locktree (`ConcurrentTree`)

Every access to a node is made by a thread that holds its mutex, or the mutex of a
node above it without which nobody gets there; so a step is the locking of one mutex
with all the work up to the next one. `TreeNode` has that work as operators on the
function from nodes to records: `set` and `get_locked` of a child pointer with its
depth estimate, the two rotations, the replacement of a removed node. Left and right
are mirror images in the code and a parameter here. `frame[t].path` holds the nodes a
recursion has descended to; a search keeps one, an insertion and a removal all of
them. The replacement is searched with locks (`find_child_at_extreme`), the locks are
given back (`Unwind`), and only then the nodes are changed (`Detach`), as in the code.
Releases of several mutexes at once are one step.

Clients use a `locked_keyrange` in the two ways its comment allows, prepare and
acquire and operate, or prepare and operate, and keep to its contract (`MayOperate`).
`contents` is the history of what is in the tree and `order` the order in which the
threads passed the root. The tree is first filled by one thread with one of `Loads`, so
that rotations happen with the code's `IMBALANCE_THRESHOLD` of 2 while the number of
calls that interleave stays small. `compare` is modelled with its slip: it tests
`m_right_key` against itself, so ranges that begin at the same key are equal.

### The programs (`Workloads`)

A thread's work is unrolled to instructions: `lock` (repeat `tryLock` until it returns
true), `try` (call it once, ignore the result), `write`, `release`, `release or exit`,
`maybe release`, `barrier`. One operator per function of the source makes the
instructions of its thread i from the ranges, dealt in blocks or one by one; the two
to four versions a program has of the same loop, one per lock, are one operator. The
initial state chooses the program, the order a shuffle produces and the ranges
transactions draw. `main` forks, arrives at the barrier, joins, and starts over in the
benchmarks that run several iterations on one lock.

Every program runs on the lock, or the locks, it is written for: `database.cpp`,
`scalability.cpp`, `app/benchmark.cpp` and `benchmark/benchmark.cpp` on v0 and v2,
`debug.cpp` and `gtest2.cpp` on v0, `gtest.cpp` on v0 to v3. The lock takes the steps of
`RangeLock`, with closed ranges, changed where v0 and v2 do something else:

* v0 refuses every range that starts at key 0 (`RefusesAlways`, finding 1). So
  `app/benchmark.cpp` leaves one range less than it has made, and `debug.cpp`,
  `benchmark/benchmark.cpp` and every transaction of `database.cpp` that draws a 0 never end.
* v2 locks a range without its end (`Wanted`), and once a release has met an acquisition
  (`phased` is false) it may grant any range (`GrantUnphased`, finding 4). In `gtest.cpp`
  that changes nothing, because the ranges are dealt without overlap; two
  transactions of `database_transaction_v1` may then write the same keys.

v1 and v3 are used only by `gtest.cpp`, for ranges that neither meet in a key nor lie at
a limit, and released only by who owns them: for such clients they implement
`RangeLock`. `benchmark/benchmark.cpp` is modelled with one of its threads.

Each module contains, next to the operator they spoil, the mutants that
`PROJECT.json` names: a plausible bug for every property of every passing run.

## 3. Runs

Bounds: `MaxCalls` is the number of calls of `tryLock` by all threads together;
releases are bounded by what has been granted (without `Misuse`) or by nothing
(with it). Thread symmetry is used where no liveness is checked.
`CHECK_DEADLOCK` is off everywhere because clients may stop calling once `MaxCalls`
is used up, and programs end; that nobody is stuck is what `CallsReturn`,
`DeadlockFree`, `ReturnsUnlessStarved` and `Joins` say.

| run | instance | checks |
|---|---|---|
| `v0_safety` | 2 threads, 2 levels, 3 calls, ranges [1,2] [2,3] [4,5] | `MutualExclusion`, `OwnersProtected`, `OrderedChain`, `RefusalsJustified`, `OwnerReleases`, `WordsExist`, `LevelsAscend`, `UnmarkedIsLinked`, `ImplementsRangeLock` |
| `v0_misuse` | 2 threads, 2 levels, 2 calls, [1,2] [2,3], `Misuse`, fair | `TypeOK`, `SizeCounts`, `MarkedWordsFrozen`, `CallsReturn` |
| `v0_lowest_key` | request [0,2] with minimum 0 | violates `RefusalsJustified`, finding 1 |
| `v0_single_key` | request [1,1] | violates `OwnerReleases`, finding 2 |
| `v1_safety` | 2 threads, 2 levels, 3 calls, [1,3] [2,4] [5,6], fair | `TypeOK`, `OwnersProtected`, `OrderedChain`, `OwnerReleases`, `DeadlockFree`, `MarkedNodesFrozen`, `ImplementsRangeLock`, `ReturnsUnlessStarved` |
| `v1_meeting` | [1,2] [2,3] | violates `MutualExclusion`, finding 3 |
| `v2_list` | 3 threads, 3 calls, [1,3) [3,5) [2,4), fair; the clients keep acquiring and releasing apart (`phased`) or not | if `phased`: `LocksReachable`, `ImplementsRangeLock`; always: `TypeOK`, `PointersAscend`, `RefusalsJustified`, `MarkedPointersFrozen`, `CallsReturn` |
| `v2_lost_node` | 2 threads, 4 calls | violates `MutualExclusion`, finding 4 |
| `v3_safety` | 2 threads, 2 levels, 3 calls, [0,1] [1,2] [2,2] [4,5], fair | `SkipListShape`, `SizeCounts`, `ImplementsRangeLock`, `CallsReturn` |
| `v3_wrong_node` | 2 threads, 2 levels, 2 calls, `Misuse` | violates `OwnersProtected`, finding 5 |
| `v4_tree` | 2 threads; an empty tree, one of 3 ranges, two of 6 that rotate once and twice; then 3 calls of `prepare`, 3 operations, ranges [4,5] [8,8] [12,13] [5,9], fair | `HoldsContents`, `PrepareOrder`, `HoldersWrite`, `CallsReturn` |
| `workloads` | all seven programs, each on its locks, with 2 threads, 3 ranges in every order, 2 transactions per thread over 4 records, fair | `WritesSafe`, `ReleasesOwned`, `SizeAtJoin`, `Joins` |

The passing runs show that the properties hold on these instances. Read by what a
client cares about: exclusion is `MutualExclusion` and the guard of `Grant` in
`ImplementsRangeLock`; protection is `OwnersProtected` and `LocksReachable`; justified
refusal is `RefusalsJustified` and the guard of `Refuse` in `ImplementsRangeLock`;
release is `OwnerReleases` and the `Released` step of the abstract lock; progress is
`CallsReturn`, `ReturnsUnlessStarved` and `DeadlockFree`; memory is `WordsExist`, the frames in `TypeOK`, and in
v3 and v4, where a null pointer stops the thread in the model, `CallsReturn`. The others (`OrderedChain`, `LevelsAscend`, `UnmarkedIsLinked`,
`SkipListShape`, `PointersAscend`, `Marked...Frozen`) are what the code relies on to
get there. `v4_tree` shows that a thread that holds a keyrange is passed by nobody who
came later, which is as much as the words "exclusive access" of `concurrent_tree.h` can
mean: a thread that came *earlier* and is deeper in the tree may still insert a range
that overlaps the keys of a later one. `workloads` shows that programs that ignore what
`tryLock` returns get away with it because of how they deal their ranges, that
`gtest2.cpp` releases after a refusal only what an earlier iteration has left, and that a
program ends exactly if it does not insist on a range at key 0 with v0.

Why these bounds. The races of a lock-free list are between a search and one or two
changes next to it: two threads with three calls give one node being deleted while
another is inserted behind or before it and a third range is in the list, and
two levels give upper levels that are linked and marked at different times from
level 0. v2, which has no levels, is checked with three threads, so that an
insertion and a deletion overtake the same search. Ranges that meet in one key,
adjacent ranges and a range apart cover every outcome of the comparisons. The trees of
v4 are the smallest in which a search meets a node that its thresholds call too deep,
for a single and for a double rotation; two threads are enough for one to be above,
below or beside the other when it rotates or removes. In `workloads` the number of
threads does not divide the number of ranges. With three
levels v0 outgrows TLC, and so does v1's liveness. With two levels every node of v1 has
both, because `generateRandomLevel` starts at 1; how nodes of different heights meet is
left to the theorems below, which hold for any number of levels, threads and calls.

What v1 and v3 do with a release of a range that nobody owns (report it, exit,
remove another node, dereference null) is in the models and is enabled by `Misuse`;
`v3_wrong_node` shows it for v3. In the passing runs of these two, where clients
release only what they own, `OwnerReleases` (v1) and `CallsReturn` (v3) say that those
branches are not taken.

Fairness. v0, v2, v3 and v4 assume weak fairness of each thread's steps inside a call
(in v4 with the release of what it holds): threads are scheduled, and so are the main
thread and its threads in `workloads`. Clients of the locks are never forced to call. Since `MaxCalls` bounds the
interference, `CallsReturn` shows that no call is trapped by a state of the
list (a cycle, a marked predecessor that is never left, a mutex that is kept), not
that no call is overtaken by endlessly many others, which none of the locks
promises. v1 too is given weak fairness only:
`std::mutex` does not promise that a thread that waits for a mutex which is free again
and again gets it. So v1 has a livelock that no assumption hides: a `tryLock` whose
successor is marked keeps locking the predecessor, failing to validate and unlocking,
and can keep away the release that waits for the same mutex to take the marked node
out. `ReturnsUnlessStarved` says that this is the only way in which a call of v1
fails to return: either every call returns, or some release that has marked its victim
(`Starved`) waits for a predecessor forever. `DeadlockFree` needs no fairness.

### Findings

1. v0 refuses every range that starts at the lowest value of its key type
   (`range_lock.hpp:110`); a client that retries, as `app/database.cpp` does with
   starts from 0, waits forever.
2. v0 grants `[k, k]` and can then not find it to release it (`range_lock.hpp:141`).
   v1 has the same comparison and exits the process.
3. v1 grants `[2, 3]` while `[1, 2]` is locked and refuses them in the other order
   (`range_lock.hpp:126`).
4. v2 loses a node that is inserted between the load and the store of `DeleteNode`
   (`range_lock.cpp:89-92`), and grants its range again. When acquisitions and releases never
   overlap in time it is safe (`v2_list`). The tests of v2 keep them apart, except
   `MixedOperationsConcurrently`; the transactions of `database.cpp` do not.
5. v3 releases whatever node comes next (`range_lock.cpp:85`), so releasing a range that is not
   locked removes somebody else's lock, or the tail.

At the highest key two more things go wrong. No run lists them; they show when
the range `[Max, Max]` is added to the requests of `v0_misuse`, with or without `Misuse`, or
of `v1_safety`: `TypeOK` is violated (a thread gets to the label `crash`).

* v0's `tryLock(max, max)` may dereference null. When it has cut out a marked node, the
  next node is compared with `start >= curr->getStart()` only, which the tail passes
  (`range_lock.hpp:96-102`); a misusing `releaseLock(max, max)` always steps over the tail
  (line 141).
* v1's `tryLock(max, max)` always does: no search stops at the tail
  (`range_lock.hpp:126`).

## 4. Proofs

The theorems hold for any set of threads, any number of levels and calls and any set
of requests that satisfy the `ASSUME`s of the module. Every theorem that needs more
says so as a hypothesis, which the code does not give and which is needed:

| hypothesis | says | needed because of |
|---|---|---|
| `BelowMax` (v0) | no request begins at the highest key | a search for the highest key may pass the tail and dereference null (end of section 3) |
| `InsideLimits` (v0) | requests lie strictly between the limits of the key type | finding 1; a request that ends at the highest key is refused by the tail |
| `ProperRanges` (v1) | every request has `start < end` | a search for the highest key passes the tail; a range of one key is passed by every search and granted again |
| `InsideLimits` (v1) | no request ends at the highest key | such a request is refused by the tail (`range_lock.hpp:131`) |
| `ProperUse` (v0, v1, v3) | clients release only what they own; in v0 and v1 also `start < end` | `Misuse`; findings 2 and 5 |
| `NoMeet` (v1) | no request begins at the key where another ends | finding 3 |
| `phased` (v2) | acquisitions and releases do not overlap in time | finding 4 |
| `InsideLimits` (v3) | no request reaches the highest key | the tail is the range of that key, so such a request is refused |
| `WideCounter` (v3) | `size_t` has more values than there are nodes | the counter wraps |

Every theorem about v0's and v1's reachable states needs `BelowMax` or `ProperRanges`, or
something stronger. The modules themselves only assume
`Min < Max`, which `numeric_limits` gives, and requests with `Min <= start <= end <= Max`.

### The abstract lock

`RangeLock_Proofs.Promise`: if overlap is reflexive and symmetric on the requests, then
locked ranges exclude each other (`Exclusion`); a range that is owned, granted or about
to be freed is locked, and is counted on by one owner or call (`OneHolder`); and
a pending `tryLock` can always be granted or refused (`Settled`). A lock for which
`ImplementsRangeLock` is proved inherits this.

### v0, the list (`ConcurrentRangeLock_Proofs`)

With `BelowMax`, and with or without `Misuse`:
`TypeCorrect` (`[]TypeOK`; no search steps onto a null reference), `Exclusion`
(`[]MutualExclusion`), `ChainOrdered` (`[]OrderedChain`), `MemorySafe`
(`[]WordsExist`), `WordsFrozen` (`MarkedWordsFrozen`).

None of these is inductive. Exclusion needs to know that the gap found by a search
is still the gap when its node is linked. The invariant `IInv` says why: the
compareAndSet finds the predecessor unmarked and pointing to the successor; an
unmarked published node is in the list (`Membership`); neighbours in the list have
nothing between them (`OrderedChain`) and do not overlap (`Disjoint`); and the
ranges compared by the search are fixed because both nodes are published
(`FrameOK` for label `link`, `Stable`). That a snip takes out just the marked node
needs that the successor the thread remembers is the one in the marked word (`FrameOK`
for `snip`), which holds because marked words are frozen. That a word always leads to
a node that has the level (`Successors`) is what lets upper levels be linked with
references that are out of date. `Fresh` keeps two calls from sharing a node.

`InitInv` and `NextInv` give `Invariance`; `NextInv` has one lemma per action. The
steps that only read go through `QuietStep`, the steps that write one word through
`OneWordFacts`; `SnipStep` and `LinkBottomStep` rebuild the chain.

### v0, the clients (`ConcurrentRangeLock_Refinement`)

The steps are first restated as relations between the locals of a thread before and
after (`Moves`; `StepMoves` shows that every step is one). Four invariants follow,
each proved from `IInv` and the ones before it, with `BelowMax` unless another
hypothesis is named:

* `MarkInv`: nodes are marked from the top down, level 0 last. It gives
  `UnmarkedAreLinked` (`[]UnmarkedIsLinked`): whoever finds a node unmarked on any level
  has found a locked range.
* `ContentionInv` (with `InsideLimits`, which implies `BelowMax`): a `tryLock` that searches has met every node
  of the list that overlaps, and the node it stands on and its successor even if they
  have left the list meanwhile. The last part is what makes it inductive, since
  a search refuses because of a node it read some steps ago. It gives
  `RefusalsAreJustified` (`[]RefusalsJustified`).
* `LevelInv`: a node that is being linked is unknown to every word and every thread at
  the levels where it is not linked yet, and what a search has noted lies around its
  range. It gives `LevelsDoAscend` (`[]LevelsAscend`), although upper levels are linked
  with references that may be out of date.
* `OwnerInv` (with `ProperUse`): every locked node belongs to one owner or one call,
  a release that still searches has a target which is unmarked and claimed by nobody
  else, and the search has not passed it. It gives `OwnersKeep`
  (`[]OwnersProtected`) and `OwnersCanRelease` (`[]OwnerReleases`).

`Refinement` (`ImplementsRangeLock`, with `ProperUse` and `InsideLimits`) maps the
compareAndSet of level 0 to `Grant`, the snip of level 0 to `Free` of the thread that
deletes the node (whoever snips), the returns to `Refuse`, `Acquired` and `Released`,
and everything else to stuttering. `ContentionInv` gives the guard of `Refuse`,
`Disjoint` after the step that of `Grant`, `OwnerInv` that a snip has a deleting
thread and that nobody is told of wrong usage.

`SizeIsCount` (`[]SizeCounts`, with `BelowMax`) holds for all clients. `CountInv` says that the counter,
less the live nodes, plus the threads that have not counted up yet, less those that
have not counted down yet, is a multiple of `SizeModulus` (`Balance`), and that these
threads are finitely many. A release that marks level 0 takes one node from `Live` and
becomes one of `Deleting`, so that of several releases of one range one counts
(`MovesLive`). This needs that nobody marks the head, which has the range `[Min, Min]` that
a misusing client may name: no word leads back to the head (`NoWordToHead`, from
`LevelsAscend`), so no search finds it (`PastHead`).

### v1, the list (`ConcurrentRangeLock_V1_Proofs`)

With `ProperRanges`, and with or without `Misuse`: `TypeCorrect` (`[]TypeOK`: no search
follows a pointer that
has not been set, and the unsigned counter stays a natural number), `ChainOrdered`
(`[]OrderedChain`), `MarkedFrozen` (`MarkedNodesFrozen`).

`IInv` has an ordered chain without gaps on *every* level (`Chain(l)`, for the nodes
`Level(l)` that are linked there and not yet taken off), because an unlink on level l
relies on the predecessor on level l. `FrameOK` says what a thread knows at each label:
what it has noted (`Noted`, which stays true because nodes keep their range), and which
predecessors it has locked and seen to be unmarked and pointing to the successor or the
victim (`Secured`, which stays true because only the holder of the mutex of an unmarked
node writes its pointers or marks it). Two things made the invariant stronger than the
properties:

* A release that fails to validate gives back the mutex of the node it has marked and
  searches again. It trusts `findExact` to find the same node on its highest level.
  `Seeks` says why: there is a family `G` of sets of nodes, one per level, that holds
  every list node before the victim, and from which following pointers leads to the
  victim and never past it. Nodes that left the list before the victim came may lead
  past it, so `G` cannot be "all nodes before it"; `PathFromHead` finds a `G` when the
  search starts, `LinksSeeks` and `UnlinksSeeks` keep one through the changes of others.
* The counter: `CountInv` says that `elementsCount` is the number of locked nodes, less
  those not counted yet, plus those unlinked and not yet uncounted, which is why it does
  not fall below zero although the increment comes after the node can be found.

### v1, the clients (`ConcurrentRangeLock_V1_Refinement`)

* `OwnInv` (with `ProperUse`): what is owned is `Settled` (linked on all its levels,
  unmarked, fully linked, no call working on it); a release that has not marked its
  victim `Claims` one settled node that nobody owns, its search cannot miss it (`Seeks`
  again), and no two releases look for the same range. It gives `OwnersKeep`
  (`[]OwnersProtected`) and `OwnersRelease` (`[]OwnerReleases`: neither "wrong usage" nor
  `exit(0)`).
* `ContentionInv` (with `ProperRanges` and `InsideLimits`): a call that is refused has met
  contention. It holds also under `Misuse`.
* `Exclusion` (`[]MutualExclusion`, with `ProperRanges` and `NoMeet`), and
* `Refinement` (`ImplementsRangeLock`, with `ProperUse`, `NoMeet` and `InsideLimits`): `Link` at level 0 is
  `Grant`, `Unlink` at level 0 is `Free`, the returns are `Refuse`, `Acquired` and
  `Released`, the rest stutters.

### v2 (`ListRL_Proofs`)

For all clients: `TypeCorrect` (`[]TypeOK`), `Ascending` (`[]PointersAscend`),
`RefusalsAreJustified` (`[]RefusalsJustified`), `MarkedFrozen`
(`MarkedPointersFrozen`). If `phased`: `PhasedExclusion`, `Reachable`
(`[]LocksReachable`) and `Refinement` (`ImplementsRangeLock`).

The invariant says that pointers lead to inserted nodes with later ranges, what each
search has compared, that a call has met what overlaps and is locked, and that the
counter is the number of counted nodes. For phased clients it adds that some set `L` of
inserted nodes, the locked ones among them, is a chain from the head without gaps or
overlaps (`Chain(L)`). `L` may hold deleted nodes, which stay until a search unlinks
them. That every lock is reachable from the head is an induction along the
chain, over the numbers of steps (`NatSets.SetInduction`).

### v3 (`SongRangeLock_Proofs`)

With `ProperUse`: `LevelsShaped` (`[]SkipListShape`), `OwnersKeep`
(`[]OwnersProtected`), and with `WideCounter` also `SizeIsCount` (`[]SizeCounts`). With
`ProperUse` and `InsideLimits`: `ContentionInvariant` and `Refinement`
(`ImplementsRangeLock`).

One mutex makes the interleaving easy and leaves the sequential algorithm: why do a
search that starts high up and a cut that goes up from below fit together? `IInv` says
that every level is one line from head to tail through the locked nodes that are high
enough, in order (`Shape`: `Apart`, `Forwards`, `Linear`), that one thread is inside the
mutex (`Mutex`), that nodes nobody has linked are pointed to by nothing (`FreshNodes`),
and what the thread inside has found (`Knows`: at `insert` the gap, which stays because
others are outside). The steps of the argument:

* *What a search returns.* `Walk` is recursive. `WalkFacts` shows by induction over how
  many nodes are still in front (`SetInduction` over a rank) that it ends at the last
  node of the level that lies before the wanted range; `DescendPreds` goes down the levels.
* *What is in a level.* `Chain(l)` collects nodes in `MaxCalls + 1` rounds. `ReachPath`
  shows with cardinalities that this is enough to reach all of them: a round that
  adds nothing has them all, and otherwise every round adds one.
* *Insertion* (`InsertShape`) links the node on each of its levels between neighbours of
  that level. *Removal* (`RemoveShape`) relies on `TargetMet`: the predecessor on a level
  points to the node exactly if the node has the level, so the loop of `releaseLock`, which
  stops at the first level where it does not, cuts all levels of the node and no
  other.
* *Whose node it is.* `releaseLock` takes a start key and removes whatever comes next.
  What a release asks for is a locked range that no client owns and no other release
  asks for (`Disowned`, `Differ`), and disjoint ranges have different starts, so what comes next
  is the node that is meant.
* *Refusal.* `Contention`: a call that is refused has met a node that overlaps. With
  `InsideLimits` the neighbour that made `Found` true is neither head nor tail.
* *The counter* is one behind at `count`, one ahead at `uncount`, right elsewhere
  (`Counted`); it does not wrap below `WideCounter`.

### Only model-checked

* Liveness (`CallsReturn`, `ReturnsUnlessStarved`, `Joins`) and `DeadlockFree`: fairness and `ENABLED` are beyond
  the prover.
* v4 (`HoldsContents`, `PrepareOrder`, `HoldersWrite`): what a tree holds and what a
  search of it finds are recursive functions along its paths, which rotations rebuild.
* The programs, which are finite instances.
* The library's induction theorems take an operator as a parameter, which none of the
  provers instantiates. `NatSets` gets induction over sets of numbers from well-founded
  relations instead, which suffices for lists (v2, v3); what a recursive function
  computes over a tree or a sequence is out of reach.

## 5. Not modelled

* `displayList`, `printList`: output. Nothing calls them while other threads run, except
  `database_transaction_v0` before it exits.
* `searchLock` of v1, which changes nothing and only two of v1's unit tests call
  (`test/v1/unittest.cpp:77` and `105`), `OptimisticMutex` (commented out of `Node_V1`),
  destructors, memory that is never freed.
* `app/v0.cpp`, which calls an `acquire` that v4 does not have, and the functions of
  `debug.cpp` that nothing calls.
* `is_empty()` of v4 (no caller, reads without the mutex) and the range stored in a
  `locked_keyrange`, which nothing reads.
* More than one thread of `benchmark/benchmark.cpp`.
* `PerfEvent.hpp` and the unit tests; printing, sleeping and timing in the programs.
* Weak memory and compiler reorderings.

## 6. Plan

1. v4: `HoldersWrite`, from an invariant that ties every label to the mutexes held;
   then `HoldsContents`.
2. `MarkableWord`: words as integers with `pack` and `unpack`, refined by
   `AtomicMarkableReference`; `attemptMark` in its two accesses.

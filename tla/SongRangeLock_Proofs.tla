------------------------ MODULE SongRangeLock_Proofs ------------------------
(***************************************************************************)
(* The skip list under one mutex, proved for every number of threads,      *)
(* calls, levels and ranges: the shape of the levels, the protection of    *)
(* the owners, the counter, and that the list implements RangeLock.        *)
(***************************************************************************)
EXTENDS SongRangeLock, NatSets, FiniteSetTheorems

-----------------------------------------------------------------------------
(***************************************************************************)
(* Walks.  What a recursive function computes is known once a function     *)
(* with its equation is known to exist; the walk has one since each step   *)
(* of it lowers a rank.                                                    *)
(***************************************************************************)
WalkEq(row, before, w, n) ==
  w[n] = IF row[n] \in before THEN w[row[n]] ELSE n

IsWalk(row, before, w) ==
  w = [n \in SkipListNode |-> IF row[n] \in before THEN w[row[n]] ELSE n]

Ranked(row, before, rank) ==
  \A n \in SkipListNode : row[n] \in before =>
    row[n] \in SkipListNode /\ rank[row[n]] < rank[n]

(***************************************************************************)
(* A walk that lowers a rank with every step has a function of its         *)
(* equation: by induction on the rank.                                     *)
(***************************************************************************)
LEMMA WalkExists ==
  ASSUME NEW row, NEW before, NEW bound \in Nat,
         NEW rank \in [SkipListNode -> 0 .. bound], Ranked(row, before, rank)
  PROVE  \E w : IsWalk(row, before, w)
<1> DEFINE Upto(k, w) == \A n \in SkipListNode :
                           rank[n] <= k => WalkEq(row, before, w, n)
           S == {k \in Nat : \E w \in [SkipListNode -> SkipListNode] :
                               Upto(k, w)}
           Next1(w) == [n \in SkipListNode |->
                          IF row[n] \in before THEN w[row[n]] ELSE n]
<1>0. \A n \in SkipListNode : row[n] \in before =>
        row[n] \in SkipListNode /\ rank[row[n]] < rank[n]
  BY DEF Ranked
<1>1. 0 \in S
  <2>1. [n \in SkipListNode |-> n] \in [SkipListNode -> SkipListNode]
    OBVIOUS
  <2>2. Upto(0, [n \in SkipListNode |-> n])
    BY <1>0 DEF WalkEq
  <2> QED BY <2>1, <2>2
<1>2. ASSUME NEW k \in S PROVE k + 1 \in S
  <2>1. PICK w \in [SkipListNode -> SkipListNode] : Upto(k, w)
    OBVIOUS
  <2>2. PICK v \in [SkipListNode -> SkipListNode] : v = Next1(w)
    <3>1. Next1(w) \in [SkipListNode -> SkipListNode]
      BY <1>0
    <3> QED BY <3>1, Zenon
  <2>3. ASSUME NEW n \in SkipListNode, rank[n] <= k + 1
        PROVE  WalkEq(row, before, v, n)
    <3>1. CASE row[n] \notin before
      BY <2>2, <3>1 DEF WalkEq
    <3>2. CASE row[n] \in before
      <4>1. row[n] \in SkipListNode /\ rank[row[n]] <= k
        BY <1>0, <2>3, <3>2
      <4>2. WalkEq(row, before, w, row[n])
        BY <2>1, <4>1
      <4>3. v[row[n]] = w[row[n]] /\ v[n] = w[row[n]]
        BY <2>2, <3>2, <4>1, <4>2 DEF WalkEq
      <4> QED BY <3>2, <4>3 DEF WalkEq
    <3> QED BY <3>1, <3>2
  <2> QED BY <2>3
<1>3. S = Nat
  <2> HIDE DEF S
  <2>1. S \in SUBSET Nat
    BY DEF S
  <2> QED BY <1>1, <1>2, <2>1, SetInduction
<1>4. PICK w \in [SkipListNode -> SkipListNode] : Upto(bound, w)
  BY <1>3
<1>5. \A n \in SkipListNode :
        w[n] = IF row[n] \in before THEN w[row[n]] ELSE n
  BY <1>4 DEF WalkEq
<1>6. IsWalk(row, before, w)
  BY <1>5 DEF IsWalk
<1> QED BY <1>6

(***************************************************************************)
(* The walk stays in every set C that its steps do not leave, and ends at  *)
(* a node whose successor is not before the wanted range.                  *)
(***************************************************************************)
LEMMA WalkFacts ==
  ASSUME NEW row, NEW before, NEW bound \in Nat,
         NEW rank \in [SkipListNode -> 0 .. bound], Ranked(row, before, rank),
         NEW C \in SUBSET SkipListNode,
         \A n \in C : row[n] \in before => row[n] \in C,
         NEW m \in C
  PROVE  /\ Walk(row, before)[m] \in C
         /\ row[Walk(row, before)[m]] \notin before
         /\ Walk(row, before)[m] = m \/ Walk(row, before)[m] \in before
<1> DEFINE w == Walk(row, before)
<1>1. IsWalk(row, before, w)
  <2>1. \E v : IsWalk(row, before, v)
    BY WalkExists
  <2> QED BY <2>1, Zenon DEF Walk, IsWalk
<1> HIDE DEF w
<1>2. \A n \in C : w[n] = IF row[n] \in before THEN w[row[n]] ELSE n
  BY <1>1 DEF IsWalk
<1>0. \A n \in SkipListNode : row[n] \in before =>
        row[n] \in SkipListNode /\ rank[row[n]] < rank[n]
  BY DEF Ranked
<1> DEFINE Ends(n) == /\ w[n] \in C /\ row[w[n]] \notin before
                      /\ w[n] = n \/ w[n] \in before
           S == {k \in Nat : \A n \in C : rank[n] <= k => Ends(n)}
<1>3. 0 \in S
  <2>1. ASSUME NEW n \in C, rank[n] <= 0 PROVE row[n] \notin before
    BY <1>0, <2>1
  <2> QED BY <1>2, <2>1
<1>4. ASSUME NEW k \in S PROVE k + 1 \in S
  <2>1. ASSUME NEW n \in C, rank[n] <= k + 1 PROVE Ends(n)
    <3>1. CASE row[n] \notin before
      BY <1>2, <3>1
    <3>2. CASE row[n] \in before
      <4>1. row[n] \in C /\ rank[row[n]] <= k
        BY <1>0, <2>1, <3>2
      <4>2. Ends(row[n])
        BY <4>1
      <4> QED BY <1>2, <3>2, <4>2
    <3> QED BY <3>1, <3>2
  <2> QED BY <2>1
<1>5. S = Nat
  <2> HIDE DEF S
  <2>1. S \in SUBSET Nat
    BY DEF S
  <2> QED BY <1>3, <1>4, <2>1, SetInduction
<1>6. Ends(m)
  <2>1. rank[m] \in Nat /\ rank[m] <= rank[m]
    OBVIOUS
  <2>2. rank[m] \in S
    BY <1>5, <2>1
  <2> QED BY <2>1, <2>2
<1>7. w = Walk(row, before)
  BY DEF w
<1> QED BY <1>6, <1>7

(***************************************************************************)
(* The predecessors on all levels: each is where the walk of its level     *)
(* ends that began where the one above ended.                              *)
(***************************************************************************)
LEMMA DescendExists ==
  ASSUME NEW W
  PROVE  \E p : p = [l \in Levels |->
                       W[l][IF l = MAX_LEVEL THEN head ELSE p[l + 1]]]
<1> DEFINE Eq(p, l) ==
             p[l] = W[l][IF l = MAX_LEVEL THEN head ELSE p[l + 1]]
           From(k, p) == \A l \in Levels : MAX_LEVEL - l <= k => Eq(p, l)
           IsFcn(p) == p = [l \in Levels |-> p[l]]
           S == {k \in Nat : \E p : IsFcn(p) /\ From(k, p)}
           Next1(p) == [l \in Levels |->
                          W[l][IF l = MAX_LEVEL THEN head ELSE p[l + 1]]]
<1>0. MAX_LEVEL \in Nat /\ Levels = 0 .. MAX_LEVEL
  BY SongAssumption DEF Levels
<1>1. 0 \in S
  <2>1. PICK p : p = [l \in Levels |-> W[l][head]]
    OBVIOUS
  <2>2. IsFcn(p)
    BY <2>1
  <2>3. ASSUME NEW l \in Levels, MAX_LEVEL - l <= 0 PROVE Eq(p, l)
    <3>1. l = MAX_LEVEL
      BY <1>0, <2>3
    <3> QED BY <2>1, <3>1
  <2> QED BY <2>2, <2>3
<1>2. ASSUME NEW k \in S PROVE k + 1 \in S
  <2>1. PICK p : IsFcn(p) /\ From(k, p)
    OBVIOUS
  <2>2. PICK q : q = Next1(p)
    OBVIOUS
  <2>3. IsFcn(q)
    BY <2>2
  <2>4. ASSUME NEW l \in Levels, MAX_LEVEL - l <= k + 1 PROVE Eq(q, l)
    <3>1. q[l] = W[l][IF l = MAX_LEVEL THEN head ELSE p[l + 1]]
      BY <2>2
    <3>2. CASE l = MAX_LEVEL
      BY <3>1, <3>2
    <3>3. CASE l # MAX_LEVEL
      <4>1. l + 1 \in Levels /\ MAX_LEVEL - (l + 1) <= k
        BY <1>0, <2>4, <3>3
      <4>2. Eq(p, l + 1)
        BY <2>1, <4>1
      <4>3. q[l + 1] = p[l + 1]
        BY <2>2, <4>1, <4>2
      <4> QED BY <3>1, <3>3, <4>3
    <3> QED BY <3>2, <3>3
  <2> QED BY <2>3, <2>4
<1>3. S = Nat
  <2> HIDE DEF S
  <2>1. S \in SUBSET Nat
    BY DEF S
  <2> QED BY <1>1, <1>2, <2>1, SetInduction
<1>4. PICK p : IsFcn(p) /\ From(MAX_LEVEL, p)
  BY <1>0, <1>3
<1>5. \A l \in Levels : Eq(p, l)
  <2>1. \A l \in Levels : MAX_LEVEL - l <= MAX_LEVEL
    BY <1>0
  <2> QED BY <1>4, <2>1, Zenon
<1>6. p = Next1(p)
  BY <1>4, <1>5
<1> QED BY <1>6

-----------------------------------------------------------------------------
(***************************************************************************)
(* The nodes a walk meets: one more with every step, until it has met all. *)
(***************************************************************************)
Onward(row, X) == X \cup ({row[n] : n \in X} \ {Null})

IsMet(row, met) ==
  met = [i \in 0 .. MaxCalls + 1 |->
           IF i = 0 THEN {head} ELSE Onward(row, met[i - 1])]

(***************************************************************************)
(* The sets of nodes met after every number of steps exist.                *)
(***************************************************************************)
LEMMA MetExists ==
  ASSUME NEW row
  PROVE  \E met : IsMet(row, met)
<1> DEFINE I == 0 .. MaxCalls + 1
           Eq(f, i) == f[i] = IF i = 0 THEN {head} ELSE Onward(row, f[i - 1])
           IsFcn(f) == f = [i \in I |-> f[i]]
           Upto(k, f) == \A i \in I : i <= k => Eq(f, i)
           S == {k \in Nat : \E f : IsFcn(f) /\ Upto(k, f)}
           Step1(f) == [i \in I |->
                         IF i = 0 THEN {head} ELSE Onward(row, f[i - 1])]
<1>0. MaxCalls \in Nat
  BY SongAssumption
<1>1. 0 \in S
  <2>1. PICK f : f = [i \in I |-> {head}]
    OBVIOUS
  <2>2. IsFcn(f)
    BY <2>1
  <2>3. ASSUME NEW i \in I, i <= 0 PROVE Eq(f, i)
    <3>1. i = 0
      BY <1>0, <2>3
    <3> QED BY <2>1, <3>1
  <2> QED BY <2>2, <2>3
<1>2. ASSUME NEW k \in S PROVE k + 1 \in S
  <2>1. PICK f : IsFcn(f) /\ Upto(k, f)
    OBVIOUS
  <2>2. PICK g : g = Step1(f)
    OBVIOUS
  <2>3. IsFcn(g)
    BY <2>2
  <2>4. ASSUME NEW i \in I, i <= k + 1 PROVE Eq(g, i)
    <3>1. g[i] = IF i = 0 THEN {head} ELSE Onward(row, f[i - 1])
      BY <2>2
    <3>2. CASE i = 0
      BY <3>1, <3>2
    <3>3. CASE i # 0
      <4>1. i - 1 \in I /\ i - 1 <= k
        BY <1>0, <2>4, <3>3
      <4>2. Eq(f, i - 1)
        BY <2>1, <4>1
      <4>3. g[i - 1] = f[i - 1]
        BY <2>2, <4>1, <4>2
      <4> QED BY <3>1, <3>3, <4>3
    <3> QED BY <3>2, <3>3
  <2>5. Upto(k + 1, g)
    BY <2>4
  <2>6. k + 1 \in Nat
    OBVIOUS
  <2> HIDE DEF Upto, IsFcn
  <2> QED BY <2>3, <2>5, <2>6
<1>3. S = Nat
  <2> HIDE DEF S
  <2>1. S \in SUBSET Nat
    BY DEF S
  <2> QED BY <1>1, <1>2, <2>1, SetInduction
<1>4. PICK f : IsFcn(f) /\ Upto(MaxCalls + 1, f)
  <2>1. MaxCalls + 1 \in Nat
    BY <1>0
  <2> HIDE DEF Upto, IsFcn
  <2> QED BY <1>3, <2>1
<1>5. \A i \in I : Eq(f, i)
  <2>1. \A i \in I : i <= MaxCalls + 1
    BY <1>0
  <2> QED BY <1>4, <2>1, Zenon
<1>6. f = Step1(f)
  BY <1>4, <1>5
<1> QED BY <1>6 DEF IsMet

(***************************************************************************)
(* The nodes of C, in the order of pos, are a chain from head to tail.     *)
(***************************************************************************)
Path(row, pos, C) ==
  /\ head \in C /\ tail \in C /\ row[tail] = Null
  /\ \A m, n \in C : pos[m] = pos[n] => m = n
  /\ \A n \in C : pos[head] <= pos[n] /\ pos[n] <= pos[tail]
  /\ \A n \in C \ {tail} :
       /\ row[n] \in C /\ pos[n] < pos[row[n]]
       /\ \A m \in C : pos[m] <= pos[n] \/ pos[row[n]] <= pos[m]

(***************************************************************************)
(* While a chain is not all in X, which holds its head, a successor of X   *)
(* is missing there, and a step of the walk adds one.                      *)
(***************************************************************************)
LEMMA PathGrows ==
  ASSUME NEW row, NEW pos \in [SkipListNode -> Nat],
         NEW C \in SUBSET SkipListNode, Path(row, pos, C),
         NEW X \in SUBSET C, head \in X, X # C
  PROVE  \E m \in X \ {tail} : row[m] \in C \ X
<1>1. PICK n \in C : n \notin X
  OBVIOUS
<1> DEFINE T == {k \in Nat :
                   \E m \in X : pos[m] < pos[n] /\ k = pos[n] - pos[m]}
<1>2. T # {}
  <2>1. head \in SkipListNode /\ head \in C /\ n \in SkipListNode
    OBVIOUS
  <2>2. pos[head] <= pos[n] /\ pos[head] # pos[n]
    BY <1>1, <2>1 DEF Path
  <2>3. pos[n] - pos[head] \in T
    BY <2>1, <2>2
  <2> QED BY <2>3
<1>3. PICK k \in T : \A j \in T : k <= j
  <2>1. T \in SUBSET Nat
    OBVIOUS
  <2> HIDE DEF T
  <2> QED BY <1>2, <2>1, LeastNumber
<1>4. PICK m \in X : pos[m] < pos[n] /\ k = pos[n] - pos[m]
  OBVIOUS
<1>5. m # tail /\ m \in C /\ row[m] \in C /\ pos[m] < pos[row[m]]
      /\ pos[row[m]] <= pos[n]
  <2>1. m # tail
    BY <1>4 DEF Path
  <2> QED BY <1>4, <2>1 DEF Path
<1>6. row[m] \notin X
  <2> SUFFICES ASSUME row[m] \in X PROVE FALSE
    OBVIOUS
  <2>1. pos[row[m]] # pos[n]
    BY <1>1, <1>5 DEF Path
  <2>2. pos[n] - pos[row[m]] \in T
    BY <1>5, <2>1
  <2>3. pos[n] - pos[row[m]] < k
    BY <1>4, <1>5
  <2> QED BY <1>3, <2>2, <2>3
<1> QED BY <1>5, <1>6

(***************************************************************************)
(* A step of the walk stays in the chain and, until all of the chain is    *)
(* met, adds a node to what is met.                                        *)
(***************************************************************************)
LEMMA OnwardGrows ==
  ASSUME NEW row, NEW pos \in [SkipListNode -> Nat],
         NEW C \in SUBSET SkipListNode, Path(row, pos, C),
         NEW X \in SUBSET C, head \in X
  PROVE  /\ Onward(row, X) \in SUBSET C /\ X \subseteq Onward(row, X)
         /\ X # C => \E y \in C :
              y \notin X /\ X \cup {y} \subseteq Onward(row, X)
<1>1. Onward(row, X) \in SUBSET C /\ X \subseteq Onward(row, X)
  BY DEF Path, Onward
<1>2. ASSUME X # C
      PROVE  \E y \in C : y \notin X /\ X \cup {y} \subseteq Onward(row, X)
  <2>1. PICK n \in X \ {tail} : row[n] \in C \ X
    BY <1>2, PathGrows
  <2>2. row[n] # Null
    BY <2>1, SongAssumption
  <2>3. X \cup {row[n]} \subseteq Onward(row, X)
    BY <2>1, <2>2 DEF Onward
  <2> QED BY <2>1, <2>3
<1> QED BY <1>1, <1>2

(***************************************************************************)
(* There are MaxCalls nodes besides head and tail.                         *)
(***************************************************************************)
LEMMA NodeCount ==
  /\ IsFiniteSet(SkipListNode) /\ Cardinality(SkipListNode) = MaxCalls + 2
  /\ IsFiniteSet(NewNodes) /\ Cardinality(NewNodes) = MaxCalls
<1>1. IsFiniteSet(NewNodes) /\ Cardinality(NewNodes) = MaxCalls
  <2>1. MaxCalls \in Nat
    BY SongAssumption
  <2> QED BY <2>1, FS_Interval DEF NewNodes
<1>2. /\ IsFiniteSet(NewNodes \cup {head})
      /\ Cardinality(NewNodes \cup {head}) = MaxCalls + 1
  BY <1>1, FS_AddElement, SongAssumption
<1>3. tail \notin NewNodes \cup {head}
  BY SongAssumption
<1>4. /\ IsFiniteSet((NewNodes \cup {head}) \cup {tail})
      /\ Cardinality((NewNodes \cup {head}) \cup {tail}) = (MaxCalls + 1) + 1
  BY <1>2, <1>3, FS_AddElement
<1>5. SkipListNode = (NewNodes \cup {head}) \cup {tail}
  BY DEF SkipListNode
<1>6. (MaxCalls + 1) + 1 = MaxCalls + 2
  BY SongAssumption
<1> QED BY <1>1, <1>4, <1>5, <1>6

(***************************************************************************)
(* A walk from the head meets exactly the nodes of its chain.              *)
(***************************************************************************)
LEMMA ReachPath ==
  ASSUME NEW row, NEW pos \in [SkipListNode -> Nat],
         NEW C \in SUBSET SkipListNode, Path(row, pos, C)
  PROVE  Reach(row) = C
<1>0. MaxCalls \in Nat /\ Null \notin SkipListNode
  BY SongAssumption
<1> DEFINE N == MaxCalls + 1
<1>1. PICK met : IsMet(row, met) /\ Reach(row) = met[N]
  <2>1. \E met : IsMet(row, met)
    BY MetExists
  <2>2. IsMet(row, CHOOSE met : IsMet(row, met))
    BY <2>1, Zenon
  <2>3. Reach(row) = (CHOOSE met : IsMet(row, met))[N]
    BY DEF Reach, IsMet, Onward
  <2> QED BY <2>2, <2>3, Zenon
<1>2. /\ met[0] = {head}
      /\ \A i \in Nat : i + 1 <= N =>
           met[i + 1] = Onward(row, met[i])
  <2> DEFINE Val(i) == IF i = 0 THEN {head} ELSE Onward(row, met[i - 1])
  <2>1. met = [i \in 0 .. N |-> Val(i)]
    BY <1>1 DEF IsMet
  <2> HIDE DEF Val
  <2>2. \A i \in 0 .. N : met[i] = Val(i)
    BY <2>1
  <2>3. Val(0) = {head} /\ 0 \in 0 .. N
    BY <1>0 DEF Val
  <2>4. ASSUME NEW i \in Nat, i + 1 <= N
        PROVE  met[i + 1] = Onward(row, met[i])
    <3>1. i + 1 \in 0 .. N /\ i + 1 # 0 /\ (i + 1) - 1 = i
      BY <1>0, <2>4
    <3> QED BY <2>2, <3>1 DEF Val
  <2> QED BY <2>2, <2>3, <2>4
<1> DEFINE Good(i) == /\ met[i] \in SUBSET C /\ head \in met[i]
                      /\ met[i] = C \/ Cardinality(met[i]) > i
           S == {i \in Nat : i <= N => Good(i)}
<1>4. 0 \in S
  <2>1. Cardinality({head}) = 1
    BY FS_Singleton
  <2>2. met[0] \in SUBSET C /\ head \in met[0] /\ Cardinality(met[0]) > 0
    BY <1>2, <2>1 DEF Path
  <2> QED BY <2>2
<1>5. ASSUME NEW i \in S PROVE i + 1 \in S
  <2> SUFFICES ASSUME i + 1 <= N PROVE Good(i + 1)
    OBVIOUS
  <2>1. i \in Nat /\ Good(i)
    BY <1>0
  <2>2. met[i + 1] = Onward(row, met[i])
    BY <1>2, <2>1
  <2>3. PICK X, Y : X = met[i] /\ Y = met[i + 1]
    OBVIOUS
  <2>4. /\ Y \in SUBSET C /\ X \subseteq Y
        /\ X # C => \E y \in C : y \notin X /\ X \cup {y} \subseteq Y
    <3>1. X \in SUBSET C /\ head \in X
      BY <2>1, <2>3
    <3>2. Y = Onward(row, X)
      BY <2>2, <2>3
    <3> QED BY <3>1, <3>2, OnwardGrows
  <2>5. head \in Y
    BY <2>1, <2>3, <2>4
  <2>6. CASE X = C
    BY <2>3, <2>4, <2>5, <2>6
  <2>7. CASE X # C
    <3>1. PICK y \in C : y \notin X /\ X \cup {y} \subseteq Y
      BY <2>4, <2>7
    <3>2. Cardinality(X) > i
      BY <2>1, <2>3, <2>7
    <3>3. IsFiniteSet(Y) /\ IsFiniteSet(X) /\ Cardinality(Y) \in Nat
          /\ Cardinality(X) \in Nat
      BY <2>1, <2>3, <2>4, NodeCount, FS_Subset, FS_CardinalityType
    <3>4. Cardinality(X \cup {y}) = Cardinality(X) + 1
      BY <3>1, <3>3, FS_AddElement
    <3>5. Cardinality(X \cup {y}) <= Cardinality(Y)
      BY <3>1, <3>3, FS_Subset
    <3>6. Cardinality(Y) > i + 1
      BY <2>1, <3>2, <3>3, <3>4, <3>5
    <3> QED BY <2>3, <2>4, <2>5, <3>6
  <2> QED BY <2>6, <2>7
<1>6. S = Nat
  <2> HIDE DEF S
  <2>1. S \in SUBSET Nat
    BY DEF S
  <2> QED BY <1>4, <1>5, <2>1, SetInduction
<1>7. Good(N)
  <2>1. N \in Nat /\ N <= N
    BY <1>0
  <2>2. N \in S
    BY <1>6, <2>1
  <2> QED BY <2>1, <2>2
<1>8. CASE Cardinality(met[N]) > N
  <2>1. /\ met[N] \subseteq SkipListNode /\ Cardinality(met[N]) \in Nat
        /\ Cardinality(met[N]) <= MaxCalls + 2
        /\ Cardinality(met[N]) = MaxCalls + 2 => met[N] = SkipListNode
    BY <1>7, NodeCount, FS_Subset, FS_CardinalityType
  <2>2. met[N] = SkipListNode
    BY <1>0, <1>8, <2>1
  <2> QED BY <1>1, <1>7, <2>2
<1> QED BY <1>1, <1>7, <1>8

-----------------------------------------------------------------------------
(***************************************************************************)
(* The list.  Its pointers fw, ranges rg and levels lv are parameters, so  *)
(* that what is proved of a list holds before and after a step.            *)
(*                                                                         *)
(* The place of a node in the order of the list: the head is before every  *)
(* range, also before one that starts at key 0.                            *)
(***************************************************************************)
Lists(fw, rg, lv) ==
  /\ fw \in [SkipListNode -> [Levels -> SkipListNode \cup {Null}]]
  /\ rg \in [SkipListNode -> RangesOver(0 .. MAX_VALUE)]
  /\ lv \in [SkipListNode -> Levels]
  /\ lv[head] = MAX_LEVEL /\ lv[tail] = MAX_LEVEL
  /\ rg[tail] = [start |-> MAX_VALUE, end |-> MAX_VALUE]
  /\ rg[head] = [start |-> 0, end |-> 0]

Pos(rg, n) == IF n = head THEN 0 ELSE rg[n].start + 1

At(lv, L, l) == {n \in L \cup {head, tail} : lv[n] >= l}

(***************************************************************************)
(* The ranges of the nodes of L exclude each other and the tail's.         *)
(***************************************************************************)
Apart(rg, L) ==
  /\ L \subseteq NewNodes
  /\ \A n \in L : rg[n].start <= rg[n].end /\ rg[n].end < MAX_VALUE
  /\ \A m, n \in L : m # n => rg[m].end < rg[n].start \/ rg[n].end < rg[m].start

(***************************************************************************)
(* From every node of C but the tail the pointers row lead to the next     *)
(* node of C.                                                              *)
(***************************************************************************)
Linear(row, rg, C) ==
  \A n \in C \ {tail} :
    /\ row[n] \in C /\ Pos(rg, n) < Pos(rg, row[n])
    /\ \A m \in C : Pos(rg, m) <= Pos(rg, n) \/ Pos(rg, row[n]) <= Pos(rg, m)

RowOf(fw, l) == [n \in SkipListNode |-> fw[n][l]]

(***************************************************************************)
(* The pointers of all nodes, those of removed ones too, lead forwards,    *)
(* and the tail's are null.                                                *)
(***************************************************************************)
Forwards(fw, rg) ==
  /\ \A l \in Levels : fw[tail][l] = Null
  /\ \A n \in SkipListNode, l \in Levels : fw[n][l] # Null =>
       Pos(rg, n) < Pos(rg, fw[n][l])

(***************************************************************************)
(* The list holds the nodes of L, each on the levels it is high enough     *)
(* for.                                                                    *)
(***************************************************************************)
Shape(fw, rg, lv, L) ==
  /\ Apart(rg, L) /\ Forwards(fw, rg)
  /\ \A l \in Levels : Linear(RowOf(fw, l), rg, At(lv, L, l))

(***************************************************************************)
(* The places of the nodes: different nodes are at different places, the   *)
(* head at the first and the tail at the last.                             *)
(***************************************************************************)
LEMMA Places ==
  ASSUME NEW fw, NEW rg, NEW lv, Lists(fw, rg, lv)
  PROVE  /\ \A n \in SkipListNode : /\ Pos(rg, n) \in 0 .. MAX_VALUE + 1
                                    /\ rg[n].start \in Nat /\ rg[n].end \in Nat
         /\ Pos(rg, head) = 0 /\ Pos(rg, tail) = MAX_VALUE + 1
         /\ MAX_VALUE \in Nat
         /\ \A n \in SkipListNode : n # head => Pos(rg, n) = rg[n].start + 1
<1>1. MAX_VALUE \in Nat /\ head # tail
  BY SongAssumption
<1>2. ASSUME NEW n \in SkipListNode
      PROVE  rg[n].start \in 0 .. MAX_VALUE /\ rg[n].end \in 0 .. MAX_VALUE
  <2>1. rg[n] \in RangesOver(0 .. MAX_VALUE)
    BY DEF Lists
  <2> QED BY <2>1 DEF RangesOver
<1>3. rg[tail].start = MAX_VALUE
  BY DEF Lists
<1> QED BY <1>1, <1>2, <1>3 DEF Pos

(***************************************************************************)
(* Nodes of the list are at different places, between head and tail, and   *)
(* neither head nor tail is one of them.                                   *)
(***************************************************************************)
LEMMA Apartness ==
  ASSUME NEW fw, NEW rg, NEW lv, Lists(fw, rg, lv), NEW L, Apart(rg, L)
  PROVE  /\ \A m, n \in L \cup {head, tail} :
              Pos(rg, m) = Pos(rg, n) => m = n
         /\ \A n \in L \cup {head, tail} :
              Pos(rg, head) <= Pos(rg, n) /\ Pos(rg, n) <= Pos(rg, tail)
         /\ L \subseteq NewNodes /\ L \cup {head, tail} \subseteq SkipListNode
         /\ head \notin L /\ tail \notin L
<1>1. /\ \A n \in SkipListNode : /\ Pos(rg, n) \in 0 .. MAX_VALUE + 1
                                 /\ rg[n].start \in Nat /\ rg[n].end \in Nat
      /\ Pos(rg, head) = 0 /\ Pos(rg, tail) = MAX_VALUE + 1
      /\ MAX_VALUE \in Nat
      /\ \A n \in SkipListNode : n # head => Pos(rg, n) = rg[n].start + 1
  BY Places
<1>2. /\ L \subseteq NewNodes /\ L \cup {head, tail} \subseteq SkipListNode
      /\ head \notin L /\ tail \notin L
  BY SongAssumption DEF Apart, SkipListNode
<1>3. \A n \in L : rg[n].start <= rg[n].end /\ rg[n].end < MAX_VALUE
  BY DEF Apart
<1>4. \A n \in L : 0 < Pos(rg, n) /\ Pos(rg, n) < MAX_VALUE + 1
                   /\ Pos(rg, n) = rg[n].start + 1
  BY <1>1, <1>2, <1>3
<1>5. \A m, n \in L : m # n => Pos(rg, m) # Pos(rg, n)
  <2> SUFFICES ASSUME NEW m \in L, NEW n \in L, m # n
               PROVE  Pos(rg, m) # Pos(rg, n)
    OBVIOUS
  <2>1. rg[m].end < rg[n].start \/ rg[n].end < rg[m].start
    BY DEF Apart
  <2>2. /\ rg[m].start \in Nat /\ rg[m].end \in Nat
        /\ rg[n].start \in Nat /\ rg[n].end \in Nat
    BY <1>1, <1>2
  <2> QED BY <1>3, <1>4, <2>1, <2>2
<1> HIDE DEF Pos
<1> QED BY <1>1, <1>2, <1>4, <1>5

(***************************************************************************)
(* The nodes on a level.                                                   *)
(***************************************************************************)
LEMMA AtFacts ==
  ASSUME NEW fw, NEW rg, NEW lv, Lists(fw, rg, lv), NEW L, L \subseteq NewNodes,
         NEW l \in Levels
  PROVE  /\ head \in At(lv, L, l) /\ tail \in At(lv, L, l)
         /\ At(lv, L, l) \subseteq SkipListNode
         /\ At(lv, L, l) \subseteq L \cup {head, tail}
         /\ At(lv, L, 0) = L \cup {head, tail}
         /\ \A k \in Levels : k <= l => At(lv, L, l) \subseteq At(lv, L, k)
<1>1. MAX_LEVEL \in Nat /\ Levels = 0 .. MAX_LEVEL
  BY SongAssumption DEF Levels
<1>2. /\ lv[head] = MAX_LEVEL /\ lv[tail] = MAX_LEVEL
      /\ \A n \in SkipListNode : lv[n] \in 0 .. MAX_LEVEL
      /\ L \cup {head, tail} \subseteq SkipListNode
  BY <1>1 DEF Lists, SkipListNode
<1> QED BY <1>1, <1>2 DEF At

(***************************************************************************)
(* What a walk on level l meets are the nodes of that level.               *)
(***************************************************************************)
LEMMA ShapeReach ==
  ASSUME NEW fw, NEW rg, NEW lv, Lists(fw, rg, lv), NEW L, Shape(fw, rg, lv, L),
         NEW l \in Levels
  PROVE  Reach(RowOf(fw, l)) = At(lv, L, l)
<1> DEFINE C == At(lv, L, l)
           row == RowOf(fw, l)
<1>1. PICK pos : pos = [n \in SkipListNode |-> Pos(rg, n)]
  OBVIOUS
<1>2. /\ pos \in [SkipListNode -> Nat]
      /\ \A n \in SkipListNode : pos[n] = Pos(rg, n)
  BY <1>1, Places
<1>3. Apart(rg, L) /\ L \subseteq NewNodes
  BY DEF Shape, Apart
<1>4. /\ head \in C /\ tail \in C /\ C \subseteq SkipListNode
      /\ C \subseteq L \cup {head, tail}
  BY <1>3, AtFacts
<1>5. row[tail] = Null
  BY DEF Shape, Forwards, RowOf, SkipListNode
<1>6. Linear(row, rg, C)
  BY DEF Shape
<1> HIDE DEF C, row
<1>7. /\ \A m, n \in C : Pos(rg, m) = Pos(rg, n) => m = n
      /\ \A n \in C : Pos(rg, head) <= Pos(rg, n) /\ Pos(rg, n) <= Pos(rg, tail)
  BY <1>3, <1>4, Apartness
<1>8. Path(row, pos, C)
  BY <1>2, <1>4, <1>5, <1>6, <1>7 DEF Path, Linear
<1>9. Reach(row) = C
  BY <1>2, <1>4, <1>8, ReachPath
<1> QED BY <1>9 DEF C, row

(***************************************************************************)
(* A search ends on every level at a node of the level, the head or one    *)
(* before the wanted range, whose successor is not before it.              *)
(***************************************************************************)
Preds(fw, lv, L, before, p) ==
  \A l \in Levels :
    /\ p[l] \in At(lv, L, l) \ {tail} /\ (p[l] = head \/ p[l] \in before)
    /\ fw[p[l]][l] \notin before

(***************************************************************************)
(* On one level: the walk from a node of the level, with the rank that     *)
(* falls as the place rises.                                               *)
(***************************************************************************)
LEMMA WalkOnLevel ==
  ASSUME NEW fw, NEW rg, NEW lv, Lists(fw, rg, lv), NEW L, Shape(fw, rg, lv, L),
         NEW l \in Levels,
         NEW before \in SUBSET SkipListNode, tail \notin before,
         NEW m \in At(lv, L, l) \ {tail}
  PROVE  LET e == Walk(RowOf(fw, l), before)[m]
         IN  /\ e \in At(lv, L, l) \ {tail} /\ fw[e][l] \notin before
             /\ e = m \/ e \in before
<1> DEFINE C == At(lv, L, l) \ {tail}
           row == RowOf(fw, l)
           e == Walk(row, before)[m]
<1>1. PICK rank : rank = [n \in SkipListNode |-> MAX_VALUE + 1 - Pos(rg, n)]
  OBVIOUS
<1>2. /\ rank \in [SkipListNode -> 0 .. MAX_VALUE + 1]
      /\ \A n \in SkipListNode : rank[n] = MAX_VALUE + 1 - Pos(rg, n)
      /\ MAX_VALUE + 1 \in Nat
  BY <1>1, Places
<1>3. \A n \in SkipListNode : row[n] = fw[n][l]
  BY DEF RowOf
<1> HIDE DEF row
<1>4. Ranked(row, before, rank)
  <2> SUFFICES ASSUME NEW n \in SkipListNode, row[n] \in before
               PROVE  row[n] \in SkipListNode /\ rank[row[n]] < rank[n]
    BY DEF Ranked
  <2>1. row[n] \in SkipListNode /\ row[n] # Null
    BY SongAssumption
  <2>2. Pos(rg, n) < Pos(rg, row[n])
    BY <1>3, <2>1 DEF Shape, Forwards
  <2>3. Pos(rg, n) \in Nat /\ Pos(rg, row[n]) \in Nat /\ MAX_VALUE \in Nat
    BY <2>1, Places
  <2>4. PICK a, b : a = Pos(rg, n) /\ b = Pos(rg, row[n])
    OBVIOUS
  <2>5. rank[n] = MAX_VALUE + 1 - a /\ rank[row[n]] = MAX_VALUE + 1 - b
    BY <1>2, <2>1, <2>4, Zenon
  <2>6. a < b /\ a \in Nat /\ b \in Nat
    BY <2>2, <2>3, <2>4
  <2>7. MAX_VALUE + 1 - b < MAX_VALUE + 1 - a
    BY <2>3, <2>6
  <2> QED BY <2>1, <2>5, <2>7
<1>5. C \in SUBSET SkipListNode
  BY AtFacts DEF Shape, Apart
<1>6. \A n \in C : row[n] \in before => row[n] \in C
  <2>1. Linear(row, rg, At(lv, L, l))
    BY DEF Shape, row
  <2> QED BY <2>1 DEF Linear
<1>7. e \in C /\ row[e] \notin before /\ (e = m \/ e \in before)
  <2> HIDE DEF C
  <2>1. m \in C
    BY DEF C
  <2> QED BY <1>2, <1>4, <1>5, <1>6, <2>1, WalkFacts
<1>8. row[e] = fw[e][l]
  BY <1>3, <1>5, <1>7
<1> QED BY <1>7, <1>8 DEF row

(***************************************************************************)
(* From the head down through the levels: by induction on how far a level  *)
(* is below the highest.                                                   *)
(***************************************************************************)
LEMMA DescendPreds ==
  ASSUME Lists(forward, range, level), NEW L,
         Shape(forward, range, level, L),
         NEW before \in SUBSET SkipListNode, tail \notin before
  PROVE  /\ Preds(forward, level, L, before, Descend(before))
         /\ Descend(before) \in [Levels -> SkipListNode]
<1> DEFINE W == [l \in Levels |-> Walk(Row(l), before)]
           From(l, p) == IF l = MAX_LEVEL THEN head ELSE p[l + 1]
           IsDescent(p) ==
             p = [l \in Levels |-> Walk(Row(l), before)[From(l, p)]]
           d == Descend(before)
<1>0. MAX_LEVEL \in Nat /\ Levels = 0 .. MAX_LEVEL /\ L \subseteq NewNodes
  BY SongAssumption DEF Levels, Shape, Apart
<1>1. IsDescent(d)
  <2>1. PICK p : p = [l \in Levels |->
                        W[l][IF l = MAX_LEVEL THEN head ELSE p[l + 1]]]
    <3> HIDE DEF W
    <3> QED BY DescendExists
  <2>2. IsDescent(p)
    BY <2>1
  <2>3. \E q : IsDescent(q)
    BY <2>2
  <2> QED BY <2>3, Zenon DEF Descend
<1> HIDE DEF d
<1>2. \A l \in Levels : d[l] = Walk(RowOf(forward, l), before)[From(l, d)]
  <2>1. \A l \in Levels : Row(l) = RowOf(forward, l)
    BY DEF Row, RowOf
  <2> QED BY <1>1, <2>1
<1> DEFINE Good(l) ==
      /\ d[l] \in At(level, L, l) \ {tail} /\ (d[l] = head \/ d[l] \in before)
      /\ forward[d[l]][l] \notin before
           S == {k \in Nat : \A l \in Levels : MAX_LEVEL - l <= k => Good(l)}
<1>3. ASSUME NEW l \in Levels, NEW m \in At(level, L, l) \ {tail},
             m = From(l, d), m = head \/ m \in before
      PROVE  Good(l)
  <2>1. d[l] = Walk(RowOf(forward, l), before)[m]
    BY <1>2, <1>3
  <2> QED BY <1>3, <2>1, WalkOnLevel
<1>4. 0 \in S
  <2> SUFFICES ASSUME NEW l \in Levels, MAX_LEVEL - l <= 0 PROVE Good(l)
    OBVIOUS
  <2>1. l = MAX_LEVEL
    BY <1>0
  <2>2. head \in At(level, L, l) \ {tail}
    BY <1>0, AtFacts, SongAssumption
  <2> QED BY <1>3, <2>1, <2>2
<1>5. ASSUME NEW k \in S PROVE k + 1 \in S
  <2> SUFFICES ASSUME NEW l \in Levels, MAX_LEVEL - l <= k + 1 PROVE Good(l)
    OBVIOUS
  <2>1. CASE MAX_LEVEL - l <= k
    BY <2>1
  <2>2. CASE ~(MAX_LEVEL - l <= k)
    <3>1. /\ l # MAX_LEVEL /\ l + 1 \in Levels /\ MAX_LEVEL - (l + 1) <= k
          /\ l <= l + 1
      BY <1>0, <2>2
    <3>2. Good(l + 1)
      BY <3>1
    <3>3. At(level, L, l + 1) \subseteq At(level, L, l)
      <4>1. PICK j \in Levels : j = l + 1
        BY <3>1
      <4>2. \A i \in Levels : i <= j =>
              At(level, L, j) \subseteq At(level, L, i)
        BY <1>0, AtFacts
      <4> QED BY <3>1, <4>1, <4>2
    <3>4. d[l + 1] \in At(level, L, l) \ {tail}
      BY <3>2, <3>3
    <3> QED BY <1>3, <3>1, <3>2, <3>4
  <2> QED BY <2>1, <2>2
<1>6. S = Nat
  <2> HIDE DEF S
  <2>1. S \in SUBSET Nat
    BY DEF S
  <2> QED BY <1>4, <1>5, <2>1, SetInduction
<1>7. \A l \in Levels : Good(l)
  <2>1. \A l \in Levels : MAX_LEVEL - l <= MAX_LEVEL
    BY <1>0
  <2>2. MAX_LEVEL \in S
    <3> HIDE DEF S
    <3> QED BY <1>0, <1>6
  <2> HIDE DEF Good
  <2> QED BY <2>1, <2>2
<1>8. Preds(forward, level, L, before, d)
  BY <1>7 DEF Preds
<1>9. d \in [Levels -> SkipListNode]
  <2>1. \A l \in Levels : d[l] \in SkipListNode
    BY <1>0, <1>7, AtFacts
  <2>2. d = [l \in Levels |-> d[l]]
    BY <1>1
  <2> QED BY <2>1, <2>2
<1> QED BY <1>8, <1>9 DEF d

(***************************************************************************)
(* What a search found on level l: the node p[l] and its successor are     *)
(* neighbours there, the one before the wanted range, the other not.       *)
(***************************************************************************)
LEMMA PredNext ==
  ASSUME NEW fw, NEW rg, NEW lv, Lists(fw, rg, lv), NEW L, Shape(fw, rg, lv, L),
         NEW before, NEW p, Preds(fw, lv, L, before, p), NEW l \in Levels
  PROVE  /\ p[l] \in At(lv, L, l) /\ p[l] # tail
         /\ p[l] = head \/ p[l] \in before
         /\ fw[p[l]][l] \in At(lv, L, l) /\ fw[p[l]][l] \notin before
         /\ fw[p[l]][l] # head /\ fw[p[l]][l] # Null
         /\ p[l] \in SkipListNode /\ fw[p[l]][l] \in SkipListNode
         /\ Pos(rg, p[l]) < Pos(rg, fw[p[l]][l])
         /\ \A m \in At(lv, L, l) :
              Pos(rg, m) <= Pos(rg, p[l]) \/ Pos(rg, fw[p[l]][l]) <= Pos(rg, m)
<1>1. /\ p[l] \in At(lv, L, l) /\ p[l] # tail
      /\ p[l] = head \/ p[l] \in before
      /\ fw[p[l]][l] \notin before
  BY DEF Preds
<1>2. At(lv, L, l) \subseteq SkipListNode
  BY AtFacts DEF Shape, Apart
<1>3. RowOf(fw, l)[p[l]] = fw[p[l]][l]
  BY <1>1, <1>2 DEF RowOf
<1>4. Linear(RowOf(fw, l), rg, At(lv, L, l))
  BY DEF Shape
<1>5. /\ fw[p[l]][l] \in At(lv, L, l)
      /\ Pos(rg, p[l]) < Pos(rg, fw[p[l]][l])
      /\ \A m \in At(lv, L, l) :
           Pos(rg, m) <= Pos(rg, p[l]) \/ Pos(rg, fw[p[l]][l]) <= Pos(rg, m)
  BY <1>1, <1>3, <1>4 DEF Linear
<1>6. fw[p[l]][l] # head
  <2>1. Pos(rg, p[l]) \in 0 .. MAX_VALUE + 1 /\ Pos(rg, head) = 0
    BY <1>1, <1>2, Places
  <2> QED BY <1>5, <2>1
<1>7. fw[p[l]][l] # Null
  BY <1>2, <1>5, SongAssumption
<1> QED BY <1>1, <1>2, <1>5, <1>6, <1>7

-----------------------------------------------------------------------------
(***************************************************************************)
(* Insertion.  A search for r whose neighbours on level 0 leave room for   *)
(* it: no range of the list overlaps r.                                    *)
(***************************************************************************)
Before(rg, r) == {n \in SkipListNode : rg[n].end < r.start}

Gap(fw, rg, lv, L, r, p) ==
  Preds(fw, lv, L, Before(rg, r), p) /\ r.end < rg[fw[p[0]][0]].start

(***************************************************************************)
(* The range of every node of the list, and of the tail, lies on one side  *)
(* of a gap for r: those up to the predecessor before it, the others       *)
(* behind it.                                                              *)
(***************************************************************************)
LEMMA GapIsFree ==
  ASSUME NEW fw, NEW rg, NEW lv, Lists(fw, rg, lv), NEW L, Shape(fw, rg, lv, L),
         NEW r \in RangesOver(0 .. MAX_VALUE), NEW p, Gap(fw, rg, lv, L, r, p),
         NEW n \in L \cup {tail}
  PROVE  rg[n].end < r.start \/ r.end < rg[n].start
<1>1. 0 \in Levels /\ Apart(rg, L) /\ L \subseteq NewNodes
  BY SongAssumption DEF Levels, Shape, Apart
<1>2. At(lv, L, 0) = L \cup {head, tail}
  BY <1>1, AtFacts
<1>3. PICK a, b : a = p[0] /\ b = fw[p[0]][0]
  OBVIOUS
<1>4. /\ a \in L \cup {head} /\ (a = head \/ a \in Before(rg, r))
      /\ b \in L \cup {tail} /\ b # head /\ r.end < rg[b].start
      /\ Pos(rg, n) <= Pos(rg, a) \/ Pos(rg, b) <= Pos(rg, n)
  BY <1>1, <1>2, <1>3, PredNext DEF Gap
<1>5. /\ \A m \in SkipListNode : m # head => Pos(rg, m) = rg[m].start + 1
      /\ \A m \in SkipListNode : rg[m].start \in Nat /\ rg[m].end \in Nat
      /\ Pos(rg, head) = 0 /\ r.start \in Nat /\ r.end \in Nat
  BY Places DEF RangesOver
<1>6. n \in SkipListNode /\ a \in SkipListNode /\ b \in SkipListNode
      /\ n # head /\ (n \in L \/ n = tail)
  BY <1>1, <1>4, SongAssumption DEF SkipListNode
<1>7. CASE Pos(rg, b) <= Pos(rg, n)
  BY <1>4, <1>5, <1>6, <1>7
<1>8. CASE Pos(rg, n) <= Pos(rg, a)
  <2>1. Pos(rg, n) # 0
    BY <1>5, <1>6
  <2>2. a # head /\ a \in L /\ rg[n].start <= rg[a].start
    BY <1>4, <1>5, <1>6, <1>8, <2>1
  <2>3. rg[a].end < r.start
    BY <1>4, <2>2 DEF Before
  <2>4. \A m \in L : rg[m].start <= rg[m].end /\ rg[m].end < MAX_VALUE
    BY <1>1 DEF Apart
  <2>5. n \in L
    <3>1. rg[tail].start = MAX_VALUE /\ MAX_VALUE \in Nat
      BY SongAssumption DEF Lists
    <3> QED BY <1>5, <1>6, <2>2, <2>4, <3>1
  <2>6. CASE n = a
    BY <2>3, <2>6
  <2>7. CASE n # a
    <3>1. rg[a].end < rg[n].start \/ rg[n].end < rg[a].start
      BY <1>1, <2>2, <2>5, <2>7 DEF Apart
    <3> QED BY <1>5, <1>6, <2>2, <2>3, <2>4, <3>1
  <2> QED BY <2>6, <2>7
<1> QED BY <1>4, <1>7, <1>8

(***************************************************************************)
(* On one level: a new node k between the neighbours p and row[p].         *)
(***************************************************************************)
LEMMA LinearInsert ==
  ASSUME NEW row, NEW rg, NEW C, Linear(row, rg, C), NEW k, k \notin C,
         k # tail, NEW p \in C \ {tail}, NEW row2, NEW rg2,
         \A n \in C : Pos(rg, n) \in Nat /\ Pos(rg2, n) = Pos(rg, n),
         \A m, n \in C : Pos(rg, m) = Pos(rg, n) => m = n,
         Pos(rg2, k) \in Nat,
         Pos(rg, p) < Pos(rg2, k) /\ Pos(rg2, k) < Pos(rg, row[p]),
         \A n \in C \ {p} : row2[n] = row[n],
         row2[p] = k, row2[k] = row[p]
  PROVE  Linear(row2, rg2, C \cup {k})
<1>1. \A n \in C \ {tail} :
        /\ row[n] \in C /\ Pos(rg, n) < Pos(rg, row[n])
        /\ \A m \in C : \/ Pos(rg, m) <= Pos(rg, n)
                       \/ Pos(rg, row[n]) <= Pos(rg, m)
  BY DEF Linear
<1> SUFFICES ASSUME NEW n \in (C \cup {k}) \ {tail}
             PROVE  /\ row2[n] \in C \cup {k} /\ Pos(rg2, n) < Pos(rg2, row2[n])
                    /\ \A m \in C \cup {k} :
                         \/ Pos(rg2, m) <= Pos(rg2, n)
                         \/ Pos(rg2, row2[n]) <= Pos(rg2, m)
  BY DEF Linear
<1>2. CASE n = k
  BY <1>1, <1>2
<1>3. CASE n = p
  BY <1>1, <1>3
<1>4. CASE n \in C \ {p, tail}
  <2>1. row2[n] = row[n] /\ row[n] \in C
    BY <1>1, <1>4
  <2>2. Pos(rg2, n) < Pos(rg2, row2[n])
    BY <1>1, <1>4, <2>1
  <2>3. \A m \in C : \/ Pos(rg2, m) <= Pos(rg2, n)
                     \/ Pos(rg2, row2[n]) <= Pos(rg2, m)
    BY <1>1, <1>4, <2>1
  <2>4. \/ Pos(rg2, k) <= Pos(rg2, n)
        \/ Pos(rg2, row2[n]) <= Pos(rg2, k)
    <3>1. \/ Pos(rg, p) <= Pos(rg, n) \/ Pos(rg, row[n]) <= Pos(rg, p)
      BY <1>1, <1>4
    <3>2. \/ Pos(rg, n) <= Pos(rg, p) \/ Pos(rg, row[p]) <= Pos(rg, n)
      BY <1>1, <1>4
    <3>3. Pos(rg, n) # Pos(rg, p)
      BY <1>4
    <3>4. /\ Pos(rg, p) \in Nat /\ Pos(rg, n) \in Nat /\ Pos(rg, row[n]) \in Nat
          /\ Pos(rg, row[p]) \in Nat /\ Pos(rg2, n) = Pos(rg, n)
          /\ Pos(rg2, row2[n]) = Pos(rg, row[n])
      BY <1>1, <1>4, <2>1
    <3> QED BY <3>1, <3>2, <3>3, <3>4
  <2> QED BY <2>1, <2>2, <2>3, <2>4
<1> QED BY <1>2, <1>3, <1>4

(***************************************************************************)
(* On one level: the node k behind p is taken out.                         *)
(***************************************************************************)
LEMMA LinearRemove ==
  ASSUME NEW row, NEW rg, NEW C, Linear(row, rg, C),
         NEW p \in C \ {tail}, NEW k \in C \ {tail}, row[p] = k, NEW row2,
         \A n \in C : Pos(rg, n) \in Nat,
         \A m, n \in C : Pos(rg, m) = Pos(rg, n) => m = n,
         \A n \in C \ {p} : row2[n] = row[n],
         row2[p] = row[k]
  PROVE  Linear(row2, rg, C \ {k})
<1>1. \A n \in C \ {tail} :
        /\ row[n] \in C /\ Pos(rg, n) < Pos(rg, row[n])
        /\ \A m \in C : \/ Pos(rg, m) <= Pos(rg, n)
                       \/ Pos(rg, row[n]) <= Pos(rg, m)
  BY DEF Linear
<1> SUFFICES ASSUME NEW n \in (C \ {k}) \ {tail}
             PROVE  /\ row2[n] \in C \ {k} /\ Pos(rg, n) < Pos(rg, row2[n])
                    /\ \A m \in C \ {k} :
                         \/ Pos(rg, m) <= Pos(rg, n)
                         \/ Pos(rg, row2[n]) <= Pos(rg, m)
  BY DEF Linear
<1>2. /\ row[k] \in C /\ row[k] # k
      /\ Pos(rg, p) < Pos(rg, k) /\ Pos(rg, k) < Pos(rg, row[k])
      /\ Pos(rg, p) \in Nat /\ Pos(rg, k) \in Nat /\ Pos(rg, row[k]) \in Nat
  BY <1>1
<1>3. CASE n = p
  <2>1. row2[n] \in C \ {k} /\ Pos(rg, n) < Pos(rg, row2[n])
    BY <1>2, <1>3
  <2>2. ASSUME NEW m \in C \ {k}
        PROVE  Pos(rg, m) <= Pos(rg, n) \/ Pos(rg, row[k]) <= Pos(rg, m)
    <3>1. Pos(rg, m) <= Pos(rg, p) \/ Pos(rg, k) <= Pos(rg, m)
      BY <1>1, <2>2
    <3>2. Pos(rg, m) <= Pos(rg, k) \/ Pos(rg, row[k]) <= Pos(rg, m)
      BY <1>1, <2>2
    <3>3. Pos(rg, m) # Pos(rg, k) /\ Pos(rg, m) \in Nat
      BY <2>2
    <3> QED BY <1>2, <1>3, <3>1, <3>2, <3>3
  <2> QED BY <1>3, <2>1, <2>2
<1>4. CASE n # p
  <2>1. n \in C \ {tail} /\ row2[n] = row[n] /\ row[n] \in C
    BY <1>1, <1>4
  <2>2. row[n] # k
    <3> SUFFICES ASSUME row[n] = k PROVE FALSE
      OBVIOUS
    <3>1. Pos(rg, n) < Pos(rg, k) /\ Pos(rg, n) \in Nat
      BY <1>1, <2>1
    <3>2. Pos(rg, n) <= Pos(rg, p) \/ Pos(rg, k) <= Pos(rg, n)
      BY <1>1, <2>1
    <3>3. Pos(rg, p) <= Pos(rg, n) \/ Pos(rg, k) <= Pos(rg, p)
      BY <1>1, <2>1
    <3>4. Pos(rg, n) = Pos(rg, p)
      BY <1>2, <3>1, <3>2, <3>3
    <3> QED BY <1>4, <2>1, <3>4
  <2> QED BY <1>1, <2>1, <2>2
<1> QED BY <1>3, <1>4

(***************************************************************************)
(* A node that was never linked: its pointers are null and none leads to   *)
(* it.  It is not in the list.                                             *)
(***************************************************************************)
Untouched(fw, k) ==
  /\ \A l \in Levels : fw[k][l] = Null
  /\ \A n \in SkipListNode, l \in Levels : fw[n][l] # k

(***************************************************************************)
(* On level 0 a node of the list has a successor.                          *)
(***************************************************************************)
LEMMA UntouchedOutside ==
  ASSUME NEW fw, NEW rg, NEW lv, Lists(fw, rg, lv), NEW L, Shape(fw, rg, lv, L),
         NEW k, Untouched(fw, k)
  PROVE  k \notin L
<1> SUFFICES ASSUME k \in L PROVE FALSE
  OBVIOUS
<1>1. 0 \in Levels /\ L \subseteq NewNodes
  BY SongAssumption DEF Levels, Shape, Apart
<1>2. At(lv, L, 0) = L \cup {head, tail} /\ At(lv, L, 0) \subseteq SkipListNode
  BY <1>1, AtFacts
<1>3. k \in At(lv, L, 0) \ {tail}
  BY <1>1, <1>2, SongAssumption
<1>4. RowOf(fw, 0)[k] \in At(lv, L, 0)
  BY <1>1, <1>3 DEF Shape, Linear
<1>5. RowOf(fw, 0)[k] = Null
  BY <1>1, <1>2, <1>3 DEF RowOf, Untouched
<1> QED BY <1>2, <1>4, <1>5, SongAssumption

(***************************************************************************)
(* The pointers after node k is linked behind p on the levels up to h.     *)
(***************************************************************************)
LinkedIn(fw, k, h, p) ==
  [n \in SkipListNode |-> [l \in Levels |->
     IF l <= h /\ n = k THEN fw[p[l]][l]
     ELSE IF l <= h /\ n = p[l] THEN k
     ELSE fw[n][l]]]

(***************************************************************************)
(* Linking a node keeps the types of the list.                             *)
(***************************************************************************)
LEMMA InsertLists ==
  ASSUME NEW fw, NEW rg, NEW lv, Lists(fw, rg, lv), NEW k \in NewNodes,
         NEW r \in RangesOver(0 .. MAX_VALUE), NEW h \in Levels,
         NEW p \in [Levels -> SkipListNode]
  PROVE  Lists(LinkedIn(fw, k, h, p), [rg EXCEPT ![k] = r],
               [lv EXCEPT ![k] = h])
<1>1. k \in SkipListNode /\ k # head /\ k # tail
  BY SongAssumption DEF SkipListNode
<1>2. LinkedIn(fw, k, h, p)
        \in [SkipListNode -> [Levels -> SkipListNode \cup {Null}]]
  <2>1. \A n \in SkipListNode, l \in Levels :
          fw[n][l] \in SkipListNode \cup {Null}
    BY DEF Lists
  <2> QED BY <1>1, <2>1 DEF LinkedIn
<1>3. head \in SkipListNode /\ tail \in SkipListNode
  BY DEF SkipListNode
<1> QED BY <1>1, <1>2, <1>3 DEF Lists

(***************************************************************************)
(* The list with r linked in at its gap has the shape of a list again.     *)
(***************************************************************************)
LEMMA InsertShape ==
  ASSUME NEW fw, NEW rg, NEW lv, Lists(fw, rg, lv), NEW L, Shape(fw, rg, lv, L),
         NEW k \in NewNodes, Untouched(fw, k),
         NEW r \in RangesOver(0 .. MAX_VALUE), r.start <= r.end,
         NEW h \in Levels, NEW p \in [Levels -> SkipListNode],
         Gap(fw, rg, lv, L, r, p)
  PROVE  Shape(LinkedIn(fw, k, h, p), [rg EXCEPT ![k] = r],
               [lv EXCEPT ![k] = h], L \cup {k})
<1>0. PICK fw2, rg2, lv2 : /\ fw2 = LinkedIn(fw, k, h, p)
                           /\ rg2 = [rg EXCEPT ![k] = r]
                           /\ lv2 = [lv EXCEPT ![k] = h]
  OBVIOUS
<1>1. /\ k \in SkipListNode /\ k # head /\ k # tail /\ k \notin L
      /\ 0 \in Levels /\ Levels \subseteq Nat /\ head # tail
      /\ head \in SkipListNode /\ tail \in SkipListNode
      /\ L \subseteq NewNodes /\ Apart(rg, L) /\ k # Null
      /\ L \cup {head, tail} \subseteq SkipListNode
  BY UntouchedOutside, SongAssumption
     DEF SkipListNode, Levels, Shape, Apart
<1>2. Lists(fw2, rg2, lv2)
  BY <1>0, InsertLists
<1>3. /\ rg2[k] = r /\ lv2[k] = h
      /\ \A n \in SkipListNode : n # k => rg2[n] = rg[n] /\ lv2[n] = lv[n]
  BY <1>0, <1>1 DEF Lists
<1>4. /\ Pos(rg2, k) = r.start + 1
      /\ \A n \in SkipListNode : n # k => Pos(rg2, n) = Pos(rg, n)
  BY <1>1, <1>3 DEF Pos
<1>5. /\ r.start \in Nat /\ r.end \in Nat /\ MAX_VALUE \in Nat
      /\ \A n \in SkipListNode : /\ Pos(rg, n) \in Nat /\ Pos(rg2, n) \in Nat
                                 /\ rg[n].start \in Nat /\ rg[n].end \in Nat
      /\ \A n \in SkipListNode : n # head => Pos(rg, n) = rg[n].start + 1
      /\ Pos(rg, head) = 0
  <2>1. r.start \in Nat /\ r.end \in Nat /\ MAX_VALUE \in Nat
    BY SongAssumption DEF RangesOver
  <2>2. \A n \in SkipListNode : Pos(rg2, n) \in Nat
    BY <1>2, Places
  <2> QED BY <2>1, <2>2, Places
<1>6. \A n \in L \cup {tail} : rg[n].end < r.start \/ r.end < rg[n].start
  BY GapIsFree
<1>7. Apart(rg2, L \cup {k})
  <2>1. r.end < MAX_VALUE
    <3>1. r.start <= MAX_VALUE
      BY <1>5 DEF RangesOver
    <3>2. rg[tail].start = MAX_VALUE /\ rg[tail].end = MAX_VALUE
      BY DEF Lists
    <3> QED BY <1>5, <1>6, <3>1, <3>2
  <2>2. /\ L \cup {k} \subseteq NewNodes
        /\ \A n \in L \cup {k} : /\ rg2[n].start <= rg2[n].end
                                 /\ rg2[n].end < MAX_VALUE
    BY <1>1, <1>3, <2>1 DEF Apart
  <2>3. ASSUME NEW m \in L \cup {k}, NEW n \in L \cup {k}, m # n
        PROVE  rg2[m].end < rg2[n].start \/ rg2[n].end < rg2[m].start
    <3>1. CASE m \in L /\ n \in L
      BY <1>1, <1>3, <2>3, <3>1 DEF Apart
    <3>2. CASE m = k /\ n \in L
      BY <1>1, <1>3, <1>6, <3>2
    <3>3. CASE m \in L /\ n = k
      BY <1>1, <1>3, <1>6, <3>3
    <3> QED BY <2>3, <3>1, <3>2, <3>3
  <2> QED BY <2>2, <2>3 DEF Apart
<1>8. ASSUME NEW l \in Levels
      PROVE  /\ p[l] \in At(lv, L, l) \ {tail} /\ p[l] \in SkipListNode
             /\ p[l] # k /\ fw[p[l]][l] \in SkipListNode /\ fw[p[l]][l] # k
             /\ Pos(rg, p[l]) < r.start + 1
             /\ r.start + 1 < Pos(rg, fw[p[l]][l])
  <2>1. PICK a, b : a = p[l] /\ b = fw[p[l]][l]
    OBVIOUS
  <2>2. /\ a \in At(lv, L, l) \ {tail} /\ a \in SkipListNode
        /\ a = head \/ a \in Before(rg, r)
        /\ b \in At(lv, L, l) /\ b \notin Before(rg, r) /\ b # head
        /\ b \in SkipListNode
    BY <2>1, PredNext DEF Gap
  <2>3. At(lv, L, l) \subseteq L \cup {head, tail}
    BY <1>1, AtFacts
  <2>4. Pos(rg, a) < r.start + 1
    <3>1. CASE a = head
      BY <1>5, <3>1
    <3>2. CASE a # head
      <4>1. a \in L /\ rg[a].end < r.start
        BY <2>2, <2>3, <3>2 DEF Before
      <4>2. rg[a].start <= rg[a].end
        BY <1>1, <4>1 DEF Apart
      <4>3. /\ Pos(rg, a) = rg[a].start + 1 /\ r.start \in Nat
            /\ rg[a].start \in Nat /\ rg[a].end \in Nat
        BY <1>5, <2>2, <3>2
      <4> QED BY <4>1, <4>2, <4>3
    <3> QED BY <3>1, <3>2
  <2>5. r.start + 1 < Pos(rg, b)
    <3>1. b \in L \cup {tail} /\ ~(rg[b].end < r.start)
      BY <2>2, <2>3 DEF Before
    <3>2. r.end < rg[b].start
      BY <1>6, <3>1
    <3>3. /\ Pos(rg, b) = rg[b].start + 1 /\ rg[b].start \in Nat
          /\ r.start \in Nat /\ r.end \in Nat
      BY <1>5, <2>2
    <3> QED BY <3>2, <3>3
  <2>6. a # k /\ b # k
    BY <1>1, <2>2, <2>3
  <2> QED BY <2>1, <2>2, <2>4, <2>5, <2>6
<1>9. ASSUME NEW l \in Levels, NEW n \in SkipListNode
      PROVE  /\ l <= h /\ n = k => fw2[n][l] = fw[p[l]][l]
             /\ l <= h /\ n = p[l] => fw2[n][l] = k
             /\ (n # k /\ n # p[l]) \/ ~(l <= h) => fw2[n][l] = fw[n][l]
  <2>1. p[l] # k
    BY <1>8
  <2> QED BY <1>0, <2>1 DEF LinkedIn
<1>10. Forwards(fw2, rg2)
  <2>1. ASSUME NEW l \in Levels PROVE fw2[tail][l] = Null
    <3>1. fw[tail][l] = Null
      BY DEF Shape, Forwards
    <3> QED BY <1>1, <1>8, <1>9, <3>1
  <2>2. ASSUME NEW n \in SkipListNode, NEW l \in Levels, fw2[n][l] # Null
        PROVE  Pos(rg2, n) < Pos(rg2, fw2[n][l])
    <3>1. CASE l <= h /\ n = k
      BY <1>4, <1>8, <1>9, <3>1
    <3>2. CASE l <= h /\ n = p[l]
      BY <1>4, <1>8, <1>9, <3>2
    <3>3. CASE (n # k /\ n # p[l]) \/ ~(l <= h)
      <4>1. fw2[n][l] = fw[n][l] /\ fw[n][l] # Null /\ fw[n][l] # k
            /\ fw[n][l] \in SkipListNode
        BY <1>9, <2>2, <3>3 DEF Untouched, Lists
      <4>2. n # k
        BY <4>1 DEF Untouched
      <4>3. Pos(rg, n) < Pos(rg, fw[n][l])
        BY <4>1 DEF Shape, Forwards
      <4> QED BY <1>4, <4>1, <4>2, <4>3
    <3> QED BY <3>1, <3>2, <3>3
  <2> QED BY <2>1, <2>2 DEF Forwards
<1>11. ASSUME NEW l \in Levels
       PROVE  Linear(RowOf(fw2, l), rg2, At(lv2, L \cup {k}, l))
  <2>1. PICK C, row, row2 : /\ C = At(lv, L, l) /\ row = RowOf(fw, l)
                            /\ row2 = RowOf(fw2, l)
    OBVIOUS
  <2>2. /\ C \subseteq SkipListNode /\ C \subseteq L \cup {head, tail}
        /\ k \notin C /\ Linear(row, rg, C)
    BY <1>1, <2>1, AtFacts DEF Shape
  <2>3. /\ \A n \in SkipListNode : row[n] = fw[n][l] /\ row2[n] = fw2[n][l]
    BY <2>1 DEF RowOf
  <2>4. CASE l <= h
    <3>1. At(lv2, L \cup {k}, l) = C \cup {k}
      BY <1>1, <1>3, <2>1, <2>4 DEF At
    <3>2. p[l] \in C \ {tail} /\ p[l] \in SkipListNode
      BY <1>8, <2>1
    <3>3. row2[p[l]] = k /\ row2[k] = row[p[l]]
          /\ \A n \in C \ {p[l]} : row2[n] = row[n]
      BY <1>1, <1>9, <2>2, <2>3, <2>4, <3>2
    <3>4. \A n \in C : Pos(rg, n) \in Nat /\ Pos(rg2, n) = Pos(rg, n)
      BY <1>4, <1>5, <2>2
    <3>5. /\ Pos(rg2, k) \in Nat /\ Pos(rg, p[l]) < Pos(rg2, k)
          /\ Pos(rg2, k) < Pos(rg, row[p[l]])
      BY <1>1, <1>4, <1>5, <1>8, <2>3, <3>2
    <3>6. \A m, n \in C : Pos(rg, m) = Pos(rg, n) => m = n
      BY <1>1, <2>2, Apartness
    <3>7. Linear(row2, rg2, C \cup {k})
      BY <1>1, <2>2, <3>2, <3>3, <3>4, <3>5, <3>6, LinearInsert
    <3> QED BY <2>1, <3>1, <3>7
  <2>5. CASE ~(l <= h)
    <3>1. At(lv2, L \cup {k}, l) = C
      BY <1>1, <1>3, <2>1, <2>5 DEF At, Levels
    <3>2. row2 = row
      BY <1>9, <2>1, <2>5 DEF RowOf
    <3>3. Linear(row2, rg2, C)
      <4>1. \A n \in C : n # k /\ Pos(rg2, n) = Pos(rg, n)
        BY <1>4, <2>2
      <4> QED BY <2>2, <3>2, <4>1 DEF Linear
    <3> QED BY <2>1, <3>1, <3>3
  <2> QED BY <2>4, <2>5
<1>12. Shape(fw2, rg2, lv2, L \cup {k})
  BY <1>7, <1>10, <1>11 DEF Shape
<1> QED BY <1>0, <1>12

-----------------------------------------------------------------------------
(***************************************************************************)
(* Removal.  The search for the start of a node k of the list ends behind  *)
(* k's predecessors: on the levels of k, and on no other.                  *)
(***************************************************************************)
Earlier(rg, r) == {n \in SkipListNode : rg[n].start < r.start}

(***************************************************************************)
(* Behind the predecessor on a level comes the first node that does not    *)
(* start earlier than k, which is k where k is on the level.               *)
(***************************************************************************)
LEMMA TargetMet ==
  ASSUME NEW fw, NEW rg, NEW lv, Lists(fw, rg, lv), NEW L, Shape(fw, rg, lv, L),
         NEW k \in L, NEW p, Preds(fw, lv, L, Earlier(rg, rg[k]), p),
         NEW l \in Levels
  PROVE  fw[p[l]][l] = k <=> l <= lv[k]
<1>1. Apart(rg, L) /\ L \subseteq NewNodes /\ Levels \subseteq Nat
  BY SongAssumption DEF Shape, Apart, Levels
<1>2. k \in SkipListNode /\ k # head /\ k # tail
  BY <1>1, SongAssumption DEF SkipListNode
<1>3. PICK a, b : a = p[l] /\ b = fw[p[l]][l]
  OBVIOUS
<1>4. /\ a \in At(lv, L, l) /\ (a = head \/ a \in Earlier(rg, rg[k]))
      /\ b \in At(lv, L, l) /\ b \notin Earlier(rg, rg[k]) /\ b # head
      /\ a \in SkipListNode /\ b \in SkipListNode
      /\ \A m \in At(lv, L, l) :
           Pos(rg, m) <= Pos(rg, a) \/ Pos(rg, b) <= Pos(rg, m)
  BY <1>3, PredNext
<1>5. /\ \A m \in SkipListNode : m # head => Pos(rg, m) = rg[m].start + 1
      /\ \A m \in SkipListNode : rg[m].start \in Nat /\ Pos(rg, m) \in Nat
      /\ Pos(rg, head) = 0
  BY Places
<1>6. ASSUME b = k PROVE l <= lv[k]
  BY <1>4, <1>6 DEF At
<1>7. ASSUME l <= lv[k] PROVE b = k
  <2>1. k \in At(lv, L, l)
    <3>1. lv[k] \in Levels
      BY <1>2 DEF Lists
    <3> QED BY <1>1, <1>7, <3>1 DEF At
  <2>2. Pos(rg, a) < Pos(rg, k)
    BY <1>2, <1>4, <1>5 DEF Earlier
  <2>3. Pos(rg, b) <= Pos(rg, k)
    BY <1>2, <1>4, <1>5, <2>1, <2>2
  <2>4. Pos(rg, k) <= Pos(rg, b)
    BY <1>2, <1>4, <1>5 DEF Earlier
  <2>5. Pos(rg, b) = Pos(rg, k)
    BY <1>2, <1>4, <1>5, <2>3, <2>4
  <2>6. b \in L \cup {head, tail}
    BY <1>1, <1>4, AtFacts
  <2> QED BY <1>1, <2>5, <2>6, Apartness
<1> QED BY <1>3, <1>6, <1>7

(***************************************************************************)
(* The pointers after the successor k of p is taken out on the levels cut. *)
(***************************************************************************)
CutOut(fw, k, p, cut) ==
  [n \in SkipListNode |-> [l \in Levels |->
     IF n = p[l] /\ l \in cut THEN fw[k][l] ELSE fw[n][l]]]

(***************************************************************************)
(* The list with k cut out on all its levels has the shape of a list.      *)
(***************************************************************************)
LEMMA RemoveShape ==
  ASSUME NEW fw, NEW rg, NEW lv, Lists(fw, rg, lv), NEW L, Shape(fw, rg, lv, L),
         NEW k \in L, NEW p, Preds(fw, lv, L, Earlier(rg, rg[k]), p)
  PROVE  LET fw2 == CutOut(fw, k, p, 0 .. lv[k])
         IN  Lists(fw2, rg, lv) /\ Shape(fw2, rg, lv, L \ {k})
<1>0. PICK fw2 : fw2 = CutOut(fw, k, p, 0 .. lv[k])
  OBVIOUS
<1>1. /\ Apart(rg, L) /\ L \subseteq NewNodes /\ Levels \subseteq Nat
      /\ Levels = 0 .. MAX_LEVEL /\ MAX_LEVEL \in Nat
  BY SongAssumption DEF Shape, Apart, Levels
<1>2. k \in SkipListNode /\ k # head /\ k # tail /\ lv[k] \in Levels
      /\ tail \in SkipListNode
  BY <1>1, SongAssumption DEF SkipListNode, Lists
<1>3. ASSUME NEW l \in Levels
      PROVE  /\ p[l] \in At(lv, L, l) \ {tail} /\ p[l] \in SkipListNode
             /\ l <= lv[k] <=> fw[p[l]][l] = k
  BY PredNext, TargetMet
<1>4. ASSUME NEW l \in Levels, NEW n \in SkipListNode
      PROVE  /\ n = p[l] /\ l <= lv[k] => fw2[n][l] = fw[k][l]
             /\ n # p[l] \/ ~(l <= lv[k]) => fw2[n][l] = fw[n][l]
             /\ fw2[n][l] \in SkipListNode \cup {Null}
  <2>1. l \in 0 .. lv[k] <=> l <= lv[k]
    BY <1>1, <1>2
  <2>2. /\ fw[n][l] \in SkipListNode \cup {Null}
        /\ fw[k][l] \in SkipListNode \cup {Null}
    BY <1>2 DEF Lists
  <2> QED BY <1>0, <2>1, <2>2 DEF CutOut
<1>5. Lists(fw2, rg, lv)
  <2>1. fw2 \in [SkipListNode -> [Levels -> SkipListNode \cup {Null}]]
    <3>1. \A n \in SkipListNode : fw2[n] = [l \in Levels |-> fw2[n][l]]
      BY <1>0 DEF CutOut
    <3>2. fw2 = [n \in SkipListNode |-> fw2[n]]
      BY <1>0 DEF CutOut
    <3>3. \A n \in SkipListNode :
            fw2[n] \in [Levels -> SkipListNode \cup {Null}]
      BY <1>4, <3>1
    <3> QED BY <3>2, <3>3
  <2> QED BY <2>1 DEF Lists
<1>6. Apart(rg, L \ {k})
  BY <1>1 DEF Apart
<1>7. \A n \in SkipListNode : Pos(rg, n) \in Nat
  BY Places
<1>8. Forwards(fw2, rg)
  <2>1. ASSUME NEW l \in Levels PROVE fw2[tail][l] = Null
    <3>1. fw[tail][l] = Null
      BY DEF Shape, Forwards
    <3> QED BY <1>2, <1>3, <1>4, <3>1
  <2>2. ASSUME NEW n \in SkipListNode, NEW l \in Levels, fw2[n][l] # Null
        PROVE  Pos(rg, n) < Pos(rg, fw2[n][l])
    <3>1. CASE n = p[l] /\ l <= lv[k]
      <4>1. fw2[n][l] = fw[k][l] /\ fw[n][l] = k /\ k # Null
        BY <1>2, <1>3, <1>4, <3>1, SongAssumption
      <4>2. Pos(rg, n) < Pos(rg, k)
        BY <4>1 DEF Shape, Forwards
      <4>3. Pos(rg, k) < Pos(rg, fw[k][l]) /\ fw[k][l] \in SkipListNode
        BY <1>2, <2>2, <4>1 DEF Shape, Forwards, Lists
      <4> QED BY <1>2, <1>7, <4>1, <4>2, <4>3
    <3>2. CASE ~(n = p[l] /\ l <= lv[k])
      <4>1. fw2[n][l] = fw[n][l]
        BY <1>4, <3>2
      <4> QED BY <2>2, <4>1 DEF Shape, Forwards
    <3> QED BY <3>1, <3>2
  <2> QED BY <2>1, <2>2 DEF Forwards
<1>9. ASSUME NEW l \in Levels
      PROVE  Linear(RowOf(fw2, l), rg, At(lv, L \ {k}, l))
  <2>1. PICK C, row, row2 : /\ C = At(lv, L, l) /\ row = RowOf(fw, l)
                            /\ row2 = RowOf(fw2, l)
    OBVIOUS
  <2>2. /\ C \subseteq SkipListNode /\ C \subseteq L \cup {head, tail}
        /\ Linear(row, rg, C)
    BY <1>1, <2>1, AtFacts DEF Shape
  <2>3. \A n \in SkipListNode : row[n] = fw[n][l] /\ row2[n] = fw2[n][l]
    BY <2>1 DEF RowOf
  <2>4. At(lv, L \ {k}, l) = C \ {k}
    BY <1>2, <2>1 DEF At
  <2>5. CASE l <= lv[k]
    <3>1. k \in C \ {tail} /\ p[l] \in C \ {tail}
      BY <1>1, <1>2, <1>3, <2>1, <2>5 DEF At
    <3>2. /\ row[p[l]] = k /\ row2[p[l]] = row[k]
          /\ \A n \in C \ {p[l]} : row2[n] = row[n]
      BY <1>2, <1>3, <1>4, <2>2, <2>3, <2>5
    <3>3. \A m, n \in C : Pos(rg, m) = Pos(rg, n) => m = n
      BY <1>1, <2>2, Apartness
    <3>4. \A n \in C : Pos(rg, n) \in Nat
      BY <1>7, <2>2
    <3>5. Linear(row2, rg, C \ {k})
      BY <2>2, <3>1, <3>2, <3>3, <3>4, LinearRemove
    <3> QED BY <2>1, <2>4, <3>5
  <2>6. CASE ~(l <= lv[k])
    <3>1. k \notin C
      BY <1>1, <1>2, <2>1, <2>6 DEF At
    <3>2. row2 = row
      BY <1>4, <2>1, <2>6 DEF RowOf
    <3>3. C \ {k} = C
      BY <3>1
    <3> QED BY <2>1, <2>2, <2>4, <3>2, <3>3
  <2> QED BY <2>5, <2>6
<1>10. Shape(fw2, rg, lv, L \ {k})
  BY <1>6, <1>8, <1>9 DEF Shape
<1> QED BY <1>0, <1>5, <1>10

-----------------------------------------------------------------------------
(***************************************************************************)
(* The invariant.  A thread is at a label with a frame; what has to be     *)
(* true of them is stated for any label and frame, so that a step only has *)
(* to show it of the ones it makes.                                        *)
(***************************************************************************)
Labels ==
  {"idle", "lock", "find", "insert", "count", "remove", "uncount", "unlock"}

Inside == Labels \ {"idle", "lock"}

Frames ==
  [op : {"none", "tryLock", "granted", "releaseLock", "released"},
   want : RangesOver(0 .. MAX_VALUE),
   node : NewNodes \cup {head},
   height : Levels,
   nodes : [Levels -> SkipListNode]]

TypeOK ==
  /\ Lists(forward, range, level)
  /\ elementsCount \in 0 .. SizeModulus - 1
  /\ spinlock_ \in Threads \cup {Null}
  /\ pc \in [Threads -> Labels] /\ frame \in [Threads -> Frames]
  /\ calls \in 0 .. MaxCalls /\ owned \in SUBSET NewNodes
  /\ contended \in [Threads -> BOOLEAN]

(***************************************************************************)
(* The calls that have a node, the pending ones, those that have linked    *)
(* their node, and those that count on a range of the list.                *)
(***************************************************************************)
Has(f) == f.op \in {"tryLock", "granted"}
Asks(label, f) == f.op = "tryLock" /\ label # "count"
Got(label, f) == f.op = "granted" \/ label = "count"
Claims(label, f) == Got(label, f) \/ f.op = "releaseLock"

(***************************************************************************)
(* Which call is at which label.                                           *)
(***************************************************************************)
Control(label, f, made) ==
  /\ label = "idle" => f = Rest
  /\ label # "idle" => f.op # "none" /\ f.want \in Requests
  /\ label = "lock" => f.op \in {"tryLock", "releaseLock"}
  /\ label \in {"find", "insert", "count"} => f.op = "tryLock"
  /\ label = "remove" => f.op = "releaseLock"
  /\ label = "uncount" => f.op = "released"
  /\ label = "unlock" => f.op \in {"tryLock", "granted", "released"}
  /\ Has(f) => f.node \in NewNodes /\ f.node <= made

(***************************************************************************)
(* What a call knows of the list: at insert there is a gap where it found  *)
(* one; its node is linked with its range, or was never; and the range it  *)
(* is to release is there.                                                 *)
(***************************************************************************)
Knows(label, f, fw, rg, lv, L) ==
  /\ label = "insert" => Gap(fw, rg, lv, L, f.want, f.nodes)
  /\ Asks(label, f) => Untouched(fw, f.node)
  /\ Got(label, f) => f.node \in L /\ rg[f.node] = f.want
  /\ f.op = "releaseLock" => \E n \in L : rg[n] = f.want

(***************************************************************************)
(* Two calls have different nodes and count on different ranges.           *)
(***************************************************************************)
Differ(label, f, label2, f2) ==
  /\ Has(f) /\ Has(f2) => f.node # f2.node
  /\ Claims(label, f) /\ Claims(label2, f2) => f.want # f2.want

Disowned(label, f, rg, own) ==
  Claims(label, f) => \A n \in own : rg[n] # f.want

Mutex == \A t \in Threads : pc[t] \in Inside <=> spinlock_ = t

FreshNodes == \A k \in NewNodes : k > calls => Untouched(forward, k)

ThreadsOK ==
  \A t \in Threads :
    /\ Control(pc[t], frame[t], calls)
    /\ Knows(pc[t], frame[t], forward, range, level, Locked)
    /\ Disowned(pc[t], frame[t], range, owned)
    /\ \A u \in Threads : u # t => Differ(pc[t], frame[t], pc[u], frame[u])

IInv ==
  /\ TypeOK /\ Mutex /\ FreshNodes /\ ThreadsOK
  /\ Shape(forward, range, level, Locked)
  /\ owned \subseteq Locked

(***************************************************************************)
(* While a pending call that has not been refused has not met contention,  *)
(* no range of the list overlaps its own; one that is refused has met it.  *)
(***************************************************************************)
Contention ==
  \A t \in Threads : Asks(pc[t], frame[t]) /\ ~contended[t] =>
    /\ pc[t] # "unlock"
    /\ \A n \in Locked : ~ClosedOverlap(range[n], frame[t].want)

(***************************************************************************)
(* The counter is behind the list by the node a thread has linked or cut   *)
(* out and not yet counted.                                                *)
(***************************************************************************)
Counted ==
  /\ (\A t \in Threads : pc[t] \notin {"count", "uncount"}) =>
       elementsCount = Cardinality(Locked)
  /\ \A t \in Threads : pc[t] = "count" =>
       elementsCount + 1 = Cardinality(Locked)
  /\ \A t \in Threads : pc[t] = "uncount" =>
       elementsCount = Cardinality(Locked) + 1

(***************************************************************************)
(* Clients release only what they own; no range they ask for reaches the   *)
(* highest key, which the tail has; the counter is wide enough for the     *)
(* nodes there may be.                                                     *)
(***************************************************************************)
ProperUse == ~Misuse

InsideLimits == \A r \in Requests : r.end < MAX_VALUE

WideCounter == MaxCalls < SizeModulus

-----------------------------------------------------------------------------
(***************************************************************************)
(* The nodes of a list of shape L are those its level 0 leads to.          *)
(***************************************************************************)
LEMMA ShapeLocked ==
  ASSUME NEW fw, NEW rg, NEW lv, Lists(fw, rg, lv), NEW L, Shape(fw, rg, lv, L)
  PROVE  Reach(RowOf(fw, 0)) \ {head, tail} = L
<1>1. 0 \in Levels /\ L \subseteq NewNodes
  BY SongAssumption DEF Levels, Shape, Apart
<1>2. Reach(RowOf(fw, 0)) = At(lv, L, 0)
  BY <1>1, ShapeReach
<1>3. At(lv, L, 0) = L \cup {head, tail}
  BY <1>1, AtFacts
<1>4. head \notin L /\ tail \notin L
  BY <1>1, SongAssumption
<1> QED BY <1>2, <1>3, <1>4

(***************************************************************************)
(* What is locked after a step, from the shape of the list after it.       *)
(***************************************************************************)
LEMMA LockedAfter ==
  ASSUME NEW L, Lists(forward', range', level'),
         Shape(forward', range', level', L)
  PROVE  Locked' = L
<1>1. PICK fw, rg, lv : fw = forward' /\ rg = range' /\ lv = level'
  OBVIOUS
<1>2. Lists(fw, rg, lv) /\ Shape(fw, rg, lv, L)
  BY <1>1
<1>3. Reach(RowOf(fw, 0)) \ {head, tail} = L
  BY <1>2, ShapeLocked
<1>4. Row(0)' = RowOf(fw, 0)
  BY <1>1 DEF Row, RowOf
<1> QED BY <1>3, <1>4 DEF Locked, Chain

(***************************************************************************)
(* A thread that is in no call knows nothing of the list.                  *)
(***************************************************************************)
LEMMA RestOK ==
  /\ Rest \in Frames /\ Rest.op = "none"
  /\ ~Has(Rest) /\ ~Claims("idle", Rest)
  /\ \A made : Control("idle", Rest, made)
  /\ \A fw, rg, lv, L : Knows("idle", Rest, fw, rg, lv, L)
<1>1. Rest \in Frames /\ Rest.op = "none"
  BY SongAssumption DEF Rest, Frames, RangesOver, Levels, SkipListNode
<1>2. ~Has(Rest) /\ ~Claims("idle", Rest) /\ ~Asks("idle", Rest)
      /\ ~Got("idle", Rest)
  BY <1>1 DEF Has, Claims, Got, Asks
<1> QED BY <1>1, <1>2 DEF Control, Knows

(***************************************************************************)
(* At the beginning the list is empty.                                     *)
(***************************************************************************)
LEMMA InitInv ==
  Init => IInv
<1> SUFFICES ASSUME Init PROVE IInv
  OBVIOUS
<1>0. /\ head # tail /\ head \notin NewNodes /\ tail \notin NewNodes
      /\ MAX_LEVEL \in Nat /\ MAX_VALUE \in Nat /\ Levels = 0 .. MAX_LEVEL
      /\ head \in SkipListNode /\ tail \in SkipListNode
      /\ MaxCalls \in Nat /\ SizeModulus \in Nat \ {0}
  BY SongAssumption DEF Levels, SkipListNode
<1>1. Lists(forward, range, level)
  BY <1>0 DEF Init, Lists, RangesOver
<1>2. Shape(forward, range, level, {})
  <2>1. Pos(range, head) = 0 /\ Pos(range, tail) = MAX_VALUE + 1
    BY <1>1, Places
  <2>2. \A n \in SkipListNode, l \in Levels :
          forward[n][l] = IF n = head THEN tail ELSE Null
    BY DEF Init
  <2>3. Apart(range, {})
    BY DEF Apart
  <2>4. Forwards(forward, range)
    BY <1>0, <2>1, <2>2 DEF Forwards
  <2>5. ASSUME NEW l \in Levels
        PROVE  Linear(RowOf(forward, l), range, At(level, {}, l))
    <3>1. At(level, {}, l) \subseteq {head, tail} /\ tail \in At(level, {}, l)
      BY <1>1, AtFacts
    <3>2. RowOf(forward, l)[head] = tail
      BY <1>0, <2>2 DEF RowOf
    <3> QED BY <1>0, <2>1, <3>1, <3>2 DEF Linear
  <2> QED BY <2>3, <2>4, <2>5 DEF Shape
<1>3. Locked = {}
  <2>1. Row(0) = RowOf(forward, 0)
    BY DEF Row, RowOf
  <2> QED BY <1>1, <1>2, <2>1, ShapeLocked DEF Locked, Chain
<1>4. TypeOK
  <2>1. Rest \in Frames
    BY RestOK
  <2> QED BY <1>0, <1>1, <2>1 DEF TypeOK, Init, Labels
<1>5. Mutex
  BY SongAssumption DEF Mutex, Inside, Init
<1>6. FreshNodes
  <2>1. \A k \in NewNodes : k # head /\ k # tail /\ k # Null
                            /\ k \in SkipListNode
    BY SongAssumption DEF SkipListNode
  <2>2. \A n \in SkipListNode, l \in Levels :
          forward[n][l] = IF n = head THEN tail ELSE Null
    BY DEF Init
  <2> QED BY <2>1, <2>2 DEF FreshNodes, Untouched
<1>7. ThreadsOK
  <2>1. \A t \in Threads : pc[t] = "idle" /\ frame[t] = Rest
    BY DEF Init
  <2>2. Differ("idle", Rest, "idle", Rest)
        /\ Disowned("idle", Rest, range, owned)
    BY RestOK DEF Differ, Disowned
  <2> QED BY <2>1, <2>2, RestOK, Zenon DEF ThreadsOK
<1>8. owned \subseteq Locked
  BY DEF Init
<1> QED BY <1>2, <1>3, <1>4, <1>5, <1>6, <1>7, <1>8 DEF IInv

(***************************************************************************)
(* Nothing is locked at the beginning.                                     *)
(***************************************************************************)
LEMMA InitEmpty ==
  ASSUME Init
  PROVE  Locked = {}
<1> SUFFICES ASSUME NEW n \in Locked PROVE FALSE
  OBVIOUS
<1>1. Lists(forward, range, level) /\ Shape(forward, range, level, Locked)
  BY InitInv DEF IInv, TypeOK
<1>2. n \in NewNodes
  BY <1>1 DEF Shape, Apart
<1>3. n > calls
  BY <1>2, SongAssumption DEF Init, NewNodes
<1>4. Untouched(forward, n)
  BY <1>2, <1>3, InitInv DEF IInv, FreshNodes
<1> QED BY <1>1, <1>4, UntouchedOutside

(***************************************************************************)
(* A step of thread t moves no other thread.                               *)
(***************************************************************************)
LEMMA GoFacts ==
  ASSUME TypeOK, NEW t \in Threads, NEW label \in Labels, NEW f \in Frames,
         Go(t, label, f)
  PROVE  /\ pc'[t] = label /\ frame'[t] = f
         /\ \A u \in Threads : u # t => pc'[u] = pc[u] /\ frame'[u] = frame[u]
         /\ pc' \in [Threads -> Labels] /\ frame' \in [Threads -> Frames]
BY DEF TypeOK, Go

(***************************************************************************)
(* Differ does not depend on the order of the two calls.                   *)
(***************************************************************************)
LEMMA DifferSymmetric ==
  ASSUME NEW label, NEW f, NEW label2, NEW f2, Differ(label, f, label2, f2)
  PROVE  Differ(label2, f2, label, f)
BY DEF Differ

(***************************************************************************)
(* More calls keep what is known of the earlier ones.                      *)
(***************************************************************************)
LEMMA ControlLater ==
  ASSUME NEW label, NEW f, NEW i \in 0 .. MaxCalls, NEW j \in 0 .. MaxCalls,
         i <= j, Control(label, f, i)
  PROVE  Control(label, f, j)
<1>1. Has(f) => f.node \in NewNodes /\ f.node <= j
  BY DEF Control, NewNodes
<1> QED BY <1>1 DEF Control

(***************************************************************************)
(* A step of thread t that leaves the list alone keeps the invariant, if   *)
(* the label and the frame it makes are in order.                          *)
(***************************************************************************)
LEMMA QuietStep ==
  ASSUME IInv, NEW t \in Threads, NEW label \in Labels, NEW f \in Frames,
         Go(t, label, f), UNCHANGED listVars,
         elementsCount' \in 0 .. SizeModulus - 1,
         spinlock_' \in Threads \cup {Null},
         label \in Inside <=> spinlock_' = t,
         \A u \in Threads : u # t => (spinlock_' = u <=> spinlock_ = u),
         calls' \in 0 .. MaxCalls, calls <= calls',
         contended' \in [Threads -> BOOLEAN],
         Control(label, f, calls'),
         Knows(label, f, forward, range, level, Locked),
         \A u \in Threads : u # t => Differ(label, f, pc[u], frame[u]),
         owned' \subseteq Locked,
         Disowned(label, f, range, owned'),
         \A u \in Threads : u # t => Disowned(pc[u], frame[u], range, owned')
  PROVE  IInv' /\ Locked' = Locked
<1>1. Locked' = Locked
  BY DEF listVars, Locked, Chain, Row
<1>2. forward' = forward /\ range' = range /\ level' = level
  BY DEF listVars
<1>3. /\ pc'[t] = label /\ frame'[t] = f
      /\ \A u \in Threads : u # t => pc'[u] = pc[u] /\ frame'[u] = frame[u]
      /\ pc' \in [Threads -> Labels] /\ frame' \in [Threads -> Frames]
  BY GoFacts DEF IInv
<1>4. Shape(forward, range, level, Locked)' /\ Locked \subseteq NewNodes
  BY <1>1, <1>2 DEF IInv, Shape, Apart
<1>5. TypeOK'
  <2>1. Lists(forward, range, level)'
    BY <1>2 DEF IInv, TypeOK
  <2> QED BY <1>3, <1>4, <2>1 DEF TypeOK
<1>6. Mutex'
  BY <1>3 DEF IInv, Mutex
<1>7. FreshNodes'
  <2>1. \A k \in NewNodes : k > calls' => k > calls
    BY DEF IInv, TypeOK, NewNodes
  <2> QED BY <1>2, <2>1 DEF IInv, FreshNodes
<1>8. ASSUME NEW u \in Threads
      PROVE  /\ Control(pc'[u], frame'[u], calls')
             /\ Knows(pc'[u], frame'[u], forward, range, level, Locked)
             /\ Disowned(pc'[u], frame'[u], range, owned')
  <2>1. CASE u = t
    BY <1>3, <2>1
  <2>2. CASE u # t
    <3>1. /\ Control(pc[u], frame[u], calls)
          /\ Knows(pc[u], frame[u], forward, range, level, Locked)
      BY DEF IInv, ThreadsOK
    <3>2. Control(pc[u], frame[u], calls')
      BY <3>1, ControlLater DEF IInv, TypeOK
    <3> QED BY <1>3, <2>2, <3>1, <3>2
  <2> QED BY <2>1, <2>2
<1>9. ASSUME NEW u \in Threads, NEW v \in Threads, v # u
      PROVE  Differ(pc'[u], frame'[u], pc'[v], frame'[v])
  <2>1. CASE u = t
    BY <1>3, <1>9, <2>1
  <2>2. CASE v = t
    BY <1>3, <1>9, <2>2, DifferSymmetric
  <2>3. CASE u # t /\ v # t
    BY <1>3, <1>9, <2>3 DEF IInv, ThreadsOK
  <2> QED BY <2>1, <2>2, <2>3
<1>10. ThreadsOK'
  BY <1>1, <1>2, <1>8, <1>9 DEF ThreadsOK
<1> QED BY <1>1, <1>4, <1>5, <1>6, <1>7, <1>10 DEF IInv

-----------------------------------------------------------------------------
(***************************************************************************)
(* The requested ranges.                                                   *)
(***************************************************************************)
LEMMA RequestFacts ==
  ASSUME NEW r \in Requests
  PROVE  /\ r \in RangesOver(0 .. MAX_VALUE)
         /\ r.start \in 0 .. MAX_VALUE /\ r.end \in 0 .. MAX_VALUE
         /\ r.start <= r.end /\ MAX_VALUE \in Nat
BY SongAssumption DEF RangesOver

(***************************************************************************)
(* One lemma for each step of a thread.                                    *)
(***************************************************************************)
LEMMA TryLockInv ==
  ASSUME IInv, NEW t \in Threads, NEW r \in Requests, NEW height \in Levels,
         TryLock(t, r, height)
  PROVE  IInv' /\ Locked' = Locked
<1>1. PICK f : f = [Rest EXCEPT !.op = "tryLock", !.want = r,
                                !.node = calls + 1, !.height = height]
  OBVIOUS
<1>2. calls \in Nat /\ calls + 1 \in NewNodes /\ calls + 1 <= MaxCalls
      /\ MaxCalls \in Nat
  BY SongAssumption DEF IInv, TypeOK, TryLock, NewNodes
<1>3. /\ f.op = "tryLock" /\ f.want = r /\ f.node = calls + 1
      /\ f \in Frames
  BY <1>1, <1>2, RestOK, RequestFacts DEF Rest, Frames
<1>4. calls' = calls + 1 /\ pc[t] = "idle" /\ Go(t, "lock", f)
      /\ UNCHANGED listVars /\ elementsCount' = elementsCount
      /\ spinlock_' = spinlock_ /\ owned' = owned
  BY <1>1 DEF TryLock
<1>5. Has(f) /\ Asks("lock", f) /\ ~Got("lock", f) /\ ~Claims("lock", f)
  BY <1>3 DEF Has, Asks, Got, Claims
<1>6. Control("lock", f, calls')
  BY <1>2, <1>3, <1>4 DEF Control
<1>7. Knows("lock", f, forward, range, level, Locked)
  <2>1. Untouched(forward, calls + 1)
    BY <1>2 DEF IInv, FreshNodes
  <2> QED BY <1>3, <1>5, <2>1 DEF Knows
<1>8. \A u \in Threads : u # t => Differ("lock", f, pc[u], frame[u])
  <2>1. \A u \in Threads : Has(frame[u]) =>
          frame[u].node \in NewNodes /\ frame[u].node <= calls
    BY DEF IInv, ThreadsOK, Control
  <2> QED BY <1>2, <1>3, <1>5, <2>1 DEF Differ, NewNodes
<1>9. spinlock_' # t
  BY <1>4 DEF IInv, Mutex, Inside
<1>10. contended' \in [Threads -> BOOLEAN]
  BY DEF TryLock, IInv, TypeOK
<1>11. /\ Disowned("lock", f, range, owned')
       /\ \A u \in Threads : Disowned(pc[u], frame[u], range, owned')
  BY <1>4, <1>5 DEF Disowned, IInv, ThreadsOK
<1>12. /\ elementsCount' \in 0 .. SizeModulus - 1
       /\ spinlock_' \in Threads \cup {Null}
       /\ calls' \in 0 .. MaxCalls /\ calls <= calls' /\ owned' \subseteq Locked
  BY <1>2, <1>4 DEF IInv, TypeOK
<1>13. "lock" \in Labels /\ "lock" \notin Inside
  BY DEF Labels, Inside
<1> QED BY <1>3, <1>4, <1>6, <1>7, <1>8, <1>9, <1>10, <1>11, <1>12, <1>13,
           QuietStep

(***************************************************************************)
(* releaseLock begins: the range was owned, so it is in the list and no    *)
(* other call counts on it.                                                *)
(***************************************************************************)
LEMMA ReleaseLockInv ==
  ASSUME ProperUse, IInv, NEW t \in Threads, NEW r \in Requests,
         ReleaseLock(t, r)
  PROVE  IInv' /\ Locked' = Locked
<1>1. PICK f : f = [Rest EXCEPT !.op = "releaseLock", !.want = r]
  OBVIOUS
<1>2. f.op = "releaseLock" /\ f.want = r /\ f \in Frames
  BY <1>1, RestOK, RequestFacts DEF Rest, Frames
<1>3. /\ Go(t, "lock", f) /\ UNCHANGED listVars /\ calls' = calls
      /\ elementsCount' = elementsCount /\ spinlock_' = spinlock_
      /\ contended' = contended /\ pc[t] = "idle"
      /\ owned' = {n \in owned : range[n] # r}
  BY <1>1 DEF ReleaseLock
<1>4. PICK m \in owned : range[m] = r
  BY DEF ReleaseLock, ProperUse
<1>5. ~Has(f) /\ ~Asks("lock", f) /\ ~Got("lock", f)
  BY <1>2 DEF Has, Asks, Got
<1>6. Control("lock", f, calls')
  BY <1>2, <1>5 DEF Control
<1>7. Knows("lock", f, forward, range, level, Locked)
  <2>1. m \in Locked
    BY <1>4 DEF IInv
  <2> QED BY <1>2, <1>4, <1>5, <2>1 DEF Knows
<1>8. \A u \in Threads : u # t => Differ("lock", f, pc[u], frame[u])
  <2>1. \A u \in Threads : Claims(pc[u], frame[u]) => frame[u].want # r
    BY <1>4 DEF IInv, ThreadsOK, Disowned
  <2> QED BY <1>2, <1>5, <2>1 DEF Differ
<1>9. spinlock_' # t
  BY <1>3 DEF IInv, Mutex, Inside
<1>10. Disowned("lock", f, range, owned')
  BY <1>2, <1>3 DEF Disowned
<1>11. \A u \in Threads : Disowned(pc[u], frame[u], range, owned')
  BY <1>3 DEF Disowned, IInv, ThreadsOK
<1>12. /\ elementsCount' \in 0 .. SizeModulus - 1
       /\ spinlock_' \in Threads \cup {Null}
       /\ contended' \in [Threads -> BOOLEAN]
       /\ calls' \in 0 .. MaxCalls /\ calls <= calls' /\ owned' \subseteq Locked
  BY <1>3 DEF IInv, TypeOK
<1>13. "lock" \in Labels /\ "lock" \notin Inside
  BY DEF Labels, Inside
<1> QED BY <1>2, <1>3, <1>6, <1>7, <1>8, <1>9, <1>10, <1>11, <1>12, <1>13,
           QuietStep

(***************************************************************************)
(* A step inside a call of t that keeps the frame in order: the list, the  *)
(* owners and the number of calls stay.                                    *)
(***************************************************************************)
LEMMA InnerStep ==
  ASSUME IInv, NEW t \in Threads, NEW label \in Inside, NEW f \in Frames,
         Go(t, label, f), UNCHANGED <<listVars, calls, owned, contended>>,
         elementsCount' \in 0 .. SizeModulus - 1,
         spinlock_' = t, spinlock_ = t \/ spinlock_ = Null,
         Control(label, f, calls),
         Knows(label, f, forward, range, level, Locked),
         Has(f) => Has(frame[t]) /\ f.node = frame[t].node,
         Claims(label, f) =>
           Claims(pc[t], frame[t]) /\ f.want = frame[t].want
  PROVE  IInv' /\ Locked' = Locked
<1>1. \A u \in Threads : u # t => Differ(label, f, pc[u], frame[u])
  BY DEF IInv, ThreadsOK, Differ
<1>2. Disowned(label, f, range, owned)
  BY DEF IInv, ThreadsOK, Disowned
<1>3. \A u \in Threads : Disowned(pc[u], frame[u], range, owned)
  BY DEF IInv, ThreadsOK
<1>4. \A u \in Threads : u # Null
  BY SongAssumption
<1>5. /\ spinlock_' \in Threads \cup {Null} /\ label \in Labels
      /\ label \in Inside <=> spinlock_' = t
      /\ \A u \in Threads : u # t => (spinlock_' = u <=> spinlock_ = u)
  BY <1>4 DEF Inside
<1>6. /\ calls' = calls /\ owned' = owned /\ contended' = contended
      /\ calls \in 0 .. MaxCalls /\ calls <= calls /\ owned \subseteq Locked
      /\ contended \in [Threads -> BOOLEAN] /\ UNCHANGED listVars
  BY DEF IInv, TypeOK
<1> QED BY <1>1, <1>2, <1>3, <1>5, <1>6, QuietStep

(***************************************************************************)
(* The mutex is taken: it was free, so nobody was inside.                  *)
(***************************************************************************)
LEMMA LockInv ==
  ASSUME IInv, NEW t \in Threads, Lock(t)
  PROVE  IInv' /\ Locked' = Locked
<1>1. PICK f : f = frame[t]
  OBVIOUS
<1>2. PICK label : label = IF f.op = "tryLock" THEN "find" ELSE "remove"
  OBVIOUS
<1>3. /\ f \in Frames /\ pc[t] = "lock" /\ label \in Inside
      /\ Control("lock", f, calls)
      /\ Knows("lock", f, forward, range, level, Locked)
  BY <1>1, <1>2 DEF IInv, TypeOK, ThreadsOK, Lock, Inside, Labels
<1>4. /\ Go(t, label, f) /\ UNCHANGED <<listVars, calls, owned, contended>>
      /\ elementsCount' = elementsCount /\ spinlock_' = t /\ spinlock_ = Null
  BY <1>1, <1>2 DEF Lock
<1>5. elementsCount' \in 0 .. SizeModulus - 1
  BY <1>4 DEF IInv, TypeOK
<1>6. Control(label, f, calls)
  BY <1>2, <1>3 DEF Control
<1>7. /\ Asks(label, f) <=> Asks("lock", f)
      /\ Got(label, f) <=> Got("lock", f)
      /\ Claims(label, f) <=> Claims("lock", f)
  BY <1>2 DEF Asks, Got, Claims
<1>8. Knows(label, f, forward, range, level, Locked)
  BY <1>2, <1>3, <1>7 DEF Knows
<1> QED BY <1>1, <1>3, <1>4, <1>5, <1>6, <1>7, <1>8, InnerStep

(***************************************************************************)
(* The new range is counted, and granted.                                  *)
(***************************************************************************)
LEMMA CountUpInv ==
  ASSUME IInv, NEW t \in Threads, CountUp(t)
  PROVE  IInv' /\ Locked' = Locked
<1>1. PICK g, f : g = frame[t] /\ f = [g EXCEPT !.op = "granted"]
  OBVIOUS
<1>2. /\ g \in Frames /\ pc[t] = "count" /\ "unlock" \in Inside
      /\ Control("count", g, calls)
      /\ Knows("count", g, forward, range, level, Locked) /\ spinlock_ = t
  BY <1>1 DEF IInv, TypeOK, ThreadsOK, CountUp, Inside, Labels, Mutex
<1>3. f \in Frames /\ f.op = "granted" /\ f.node = g.node /\ f.want = g.want
      /\ g.op = "tryLock"
  BY <1>1, <1>2 DEF Frames, Control
<1>4. /\ Go(t, "unlock", f) /\ UNCHANGED <<listVars, calls, owned, contended>>
      /\ elementsCount' = (elementsCount + 1) % SizeModulus
      /\ spinlock_' = t
  BY <1>1, <1>2 DEF CountUp
<1>5. elementsCount' \in 0 .. SizeModulus - 1
  BY <1>4, SongAssumption DEF IInv, TypeOK
<1>6. /\ Has(g) /\ Has(f) /\ Claims("count", g) /\ ~Asks("unlock", f)
      /\ Got("count", g)
  BY <1>3 DEF Has, Claims, Got, Asks
<1>7. Control("unlock", f, calls)
  BY <1>2, <1>3, <1>6 DEF Control
<1>8. Knows("unlock", f, forward, range, level, Locked)
  BY <1>2, <1>3, <1>6 DEF Knows
<1> QED BY <1>1, <1>2, <1>3, <1>4, <1>5, <1>6, <1>7, <1>8, InnerStep

(***************************************************************************)
(* The removed range is counted.                                           *)
(***************************************************************************)
LEMMA CountDownInv ==
  ASSUME IInv, NEW t \in Threads, CountDown(t)
  PROVE  IInv' /\ Locked' = Locked
<1>1. PICK f : f = frame[t]
  OBVIOUS
<1>2. /\ f \in Frames /\ pc[t] = "uncount" /\ "unlock" \in Inside
      /\ Control("uncount", f, calls) /\ spinlock_ = t
  BY <1>1 DEF IInv, TypeOK, ThreadsOK, CountDown, Inside, Labels, Mutex
<1>3. /\ Go(t, "unlock", f) /\ UNCHANGED <<listVars, calls, owned, contended>>
      /\ elementsCount' = (elementsCount + SizeModulus - 1) % SizeModulus
      /\ spinlock_' = t
  BY <1>1, <1>2 DEF CountDown
<1>4. elementsCount' \in 0 .. SizeModulus - 1
  BY <1>3, SongAssumption DEF IInv, TypeOK
<1>5. f.op = "released" /\ f.want \in Requests
  BY <1>2 DEF Control
<1>6. ~Has(f) /\ ~Claims("unlock", f) /\ ~Asks("unlock", f) /\ ~Got("unlock", f)
  BY <1>5 DEF Has, Claims, Got, Asks
<1>7. Control("unlock", f, calls)
  BY <1>5, <1>6 DEF Control
<1>8. Knows("unlock", f, forward, range, level, Locked)
  BY <1>5, <1>6 DEF Knows
<1> QED BY <1>2, <1>3, <1>4, <1>6, <1>7, <1>8, InnerStep

(***************************************************************************)
(* The two searches: FindNodes looks for the nodes that end before the     *)
(* wanted range, releaseLock for those that start before it.               *)
(***************************************************************************)
LEMMA SearchFacts ==
  ASSUME IInv, NEW r \in Requests
  PROVE  /\ {n \in SkipListNode : EndsBefore(n, r)} = Before(range, r)
         /\ {n \in SkipListNode : StartsBefore(n, r)} = Earlier(range, r)
         /\ Preds(forward, level, Locked, Before(range, r),
                  Descend(Before(range, r)))
         /\ Preds(forward, level, Locked, Earlier(range, r),
                  Descend(Earlier(range, r)))
         /\ Descend(Before(range, r)) \in [Levels -> SkipListNode]
<1>1. Lists(forward, range, level) /\ Shape(forward, range, level, Locked)
  BY DEF IInv, TypeOK
<1>2. /\ range[tail].start = MAX_VALUE /\ range[tail].end = MAX_VALUE
      /\ r.start <= MAX_VALUE /\ r.start \in Nat /\ MAX_VALUE \in Nat
  BY <1>1, RequestFacts DEF Lists
<1>3. /\ Before(range, r) \in SUBSET SkipListNode
      /\ Earlier(range, r) \in SUBSET SkipListNode
      /\ tail \notin Before(range, r) /\ tail \notin Earlier(range, r)
  BY <1>2 DEF Before, Earlier
<1>4. /\ Preds(forward, level, Locked, Before(range, r),
               Descend(Before(range, r)))
      /\ Descend(Before(range, r)) \in [Levels -> SkipListNode]
  BY <1>1, <1>3, DescendPreds
<1>5. Preds(forward, level, Locked, Earlier(range, r),
            Descend(Earlier(range, r)))
  BY <1>1, <1>3, DescendPreds
<1>6. /\ {n \in SkipListNode : EndsBefore(n, r)} = Before(range, r)
      /\ {n \in SkipListNode : StartsBefore(n, r)} = Earlier(range, r)
  BY DEF EndsBefore, StartsBefore, Before, Earlier, Start, End
<1> QED BY <1>4, <1>5, <1>6

(***************************************************************************)
(* FindNodes meets no null pointer.  What it finds is either a gap for the *)
(* range or a node behind the gap that starts too early.                   *)
(***************************************************************************)
LEMMA FindNodesFacts ==
  ASSUME IInv, NEW t \in Threads, FindNodes(t)
  PROVE  \E nodes \in [Levels -> SkipListNode], label \in {"insert", "unlock"} :
           /\ Preds(forward, level, Locked, Before(range, frame[t].want), nodes)
           /\ Go(t, label, [frame[t] EXCEPT !.nodes = nodes])
           /\ label = "insert" =>
                frame[t].want.end < range[forward[nodes[0]][0]].start
           /\ label = "unlock" =>
                ~(frame[t].want.end < range[forward[nodes[0]][0]].start)
<1>1. /\ pc[t] = "find" /\ frame[t] \in Frames
      /\ Control("find", frame[t], calls)
  BY DEF FindNodes, IInv, TypeOK, ThreadsOK
<1>2. PICK r \in Requests : r = frame[t].want
  BY <1>1 DEF Control
<1>3. PICK p \in [Levels -> SkipListNode] :
        /\ p = Descend({n \in SkipListNode : EndsBefore(n, frame[t].want)})
        /\ Preds(forward, level, Locked, Before(range, r), p)
  BY <1>2, SearchFacts
<1>4. Lists(forward, range, level) /\ Shape(forward, range, level, Locked)
      /\ 0 \in Levels
  BY SongAssumption DEF IInv, TypeOK, Levels
<1>5. \A l \in Levels : forward[p[l]][l] # Null
  BY <1>3, <1>4, PredNext
<1>6. Go(t, IF Found(r, p[0], forward[p[0]][0]) THEN "unlock" ELSE "insert",
         [frame[t] EXCEPT !.nodes = p])
  BY <1>2, <1>3, <1>5 DEF FindNodes
<1>7. Found(r, p[0], forward[p[0]][0])
        <=> ~(r.end < range[forward[p[0]][0]].start)
  <2>1. PICK a : a = p[0]
    OBVIOUS
  <2>2. a = head \/ a \in Before(range, r)
    BY <1>3, <1>4, <2>1, PredNext
  <2>3. range[head].end = 0 /\ r.start \in Nat
    BY <1>4, RequestFacts DEF Lists
  <2>4. range[a].end < r.start => r.start > range[a].end
    <3>1. a \in SkipListNode
      BY <1>3, <1>4, <2>1
    <3>2. range[a].end \in Nat
      BY <1>4, <3>1, Places
    <3> QED BY <2>3, <3>2
  <2> QED BY <2>1, <2>2, <2>3, <2>4 DEF Found, Start, End, Before
<1>8. CASE Found(r, p[0], forward[p[0]][0])
  BY <1>2, <1>3, <1>6, <1>7, <1>8
<1>9. CASE ~Found(r, p[0], forward[p[0]][0])
  BY <1>2, <1>3, <1>6, <1>7, <1>9
<1> QED BY <1>8, <1>9

(***************************************************************************)
(* The search ends at a gap, or the call is refused.                       *)
(***************************************************************************)
LEMMA FindNodesInv ==
  ASSUME IInv, NEW t \in Threads, FindNodes(t)
  PROVE  IInv' /\ Locked' = Locked
<1>1. PICK p \in [Levels -> SkipListNode], label \in {"insert", "unlock"} :
        /\ Preds(forward, level, Locked, Before(range, frame[t].want), p)
        /\ Go(t, label, [frame[t] EXCEPT !.nodes = p])
        /\ label = "insert" =>
             frame[t].want.end < range[forward[p[0]][0]].start
  BY FindNodesFacts
<1>2. PICK g, f : g = frame[t] /\ f = [g EXCEPT !.nodes = p]
  OBVIOUS
<1>3. /\ g \in Frames /\ pc[t] = "find" /\ label \in Inside
      /\ Control("find", g, calls)
      /\ Knows("find", g, forward, range, level, Locked) /\ spinlock_ = t
  BY <1>2 DEF IInv, TypeOK, ThreadsOK, FindNodes, Inside, Labels, Mutex
<1>4. /\ f \in Frames /\ f.op = "tryLock" /\ f.node = g.node
      /\ f.want = g.want /\ f.nodes = p /\ g.op = "tryLock"
  BY <1>2, <1>3 DEF Frames, Control
<1>5. /\ UNCHANGED <<listVars, calls, owned, contended>>
      /\ elementsCount' = elementsCount /\ spinlock_' = t
  BY <1>3 DEF FindNodes
<1>6. elementsCount' \in 0 .. SizeModulus - 1
  BY <1>5 DEF IInv, TypeOK
<1>7. /\ Has(g) /\ Has(f) /\ ~Claims(label, f) /\ Asks("find", g)
      /\ ~Got(label, f)
  BY <1>4 DEF Has, Claims, Got, Asks
<1>8. Control(label, f, calls)
  BY <1>3, <1>4, <1>7 DEF Control
<1>9. Knows(label, f, forward, range, level, Locked)
  BY <1>1, <1>2, <1>3, <1>4, <1>7 DEF Knows, Gap
<1>10. Go(t, label, f)
  BY <1>1, <1>2
<1> QED BY <1>2, <1>3, <1>4, <1>5, <1>6, <1>7, <1>8, <1>9, <1>10, InnerStep

(***************************************************************************)
(* The call returns; what it was granted is owned from now on, and no      *)
(* other call counts on it.                                                *)
(***************************************************************************)
LEMMA UnlockInv ==
  ASSUME IInv, NEW t \in Threads, Unlock(t)
  PROVE  IInv' /\ Locked' = Locked
<1>1. PICK f : f = frame[t]
  OBVIOUS
<1>2. /\ pc[t] = "unlock" /\ Control("unlock", f, calls) /\ f \in Frames
      /\ Knows("unlock", f, forward, range, level, Locked) /\ spinlock_ = t
  BY <1>1 DEF IInv, TypeOK, ThreadsOK, Unlock, Inside, Labels, Mutex
<1>3. /\ spinlock_' = Null /\ Go(t, "idle", Rest) /\ UNCHANGED listVars
      /\ elementsCount' = elementsCount /\ calls' = calls
      /\ contended' = [contended EXCEPT ![t] = FALSE]
      /\ owned' = IF f.op = "granted" THEN owned \cup {f.node} ELSE owned
  BY <1>1 DEF Unlock
<1>4. ASSUME f.op = "granted"
      PROVE  /\ f.node \in Locked /\ range[f.node] = f.want
             /\ \A u \in Threads : u # t /\ Claims(pc[u], frame[u]) =>
                  frame[u].want # f.want
  <2>1. Got("unlock", f) /\ Claims("unlock", f)
    BY <1>4 DEF Got, Claims
  <2>2. \A u \in Threads : u # t => Differ("unlock", f, pc[u], frame[u])
    BY <1>1, <1>2 DEF IInv, ThreadsOK
  <2> QED BY <1>2, <2>1, <2>2 DEF Knows, Differ
<1>5. owned \subseteq Locked /\ \A u \in Threads :
        Disowned(pc[u], frame[u], range, owned)
  BY DEF IInv, ThreadsOK
<1>6. owned' \subseteq Locked
  BY <1>3, <1>4, <1>5
<1>7. \A u \in Threads : u # t => Disowned(pc[u], frame[u], range, owned')
  BY <1>3, <1>4, <1>5 DEF Disowned
<1>8. /\ Disowned("idle", Rest, range, owned')
      /\ \A u \in Threads : Differ("idle", Rest, pc[u], frame[u])
  BY RestOK DEF Disowned, Differ
<1>9. Control("idle", Rest, calls') /\ Rest \in Frames
      /\ Knows("idle", Rest, forward, range, level, Locked)
  BY RestOK
<1>10. /\ spinlock_' # t /\ spinlock_' \in Threads \cup {Null}
       /\ \A u \in Threads : u # t => (spinlock_' = u <=> spinlock_ = u)
       /\ "idle" \in Labels /\ "idle" \notin Inside
  BY <1>2, <1>3, SongAssumption DEF Labels, Inside
<1>11. /\ elementsCount' \in 0 .. SizeModulus - 1
       /\ contended' \in [Threads -> BOOLEAN]
       /\ calls' \in 0 .. MaxCalls /\ calls <= calls'
  BY <1>3 DEF IInv, TypeOK
<1> QED BY <1>3, <1>6, <1>7, <1>8, <1>9, <1>10, <1>11, QuietStep

(***************************************************************************)
(* While t holds the mutex every other thread is outside: it has no gap,   *)
(* and its node is not linked.                                             *)
(***************************************************************************)
LEMMA OthersOutside ==
  ASSUME IInv, NEW t \in Threads, spinlock_ = t, NEW u \in Threads, u # t
  PROVE  /\ pc[u] \in {"idle", "lock"} /\ ~Got(pc[u], frame[u])
         /\ Claims(pc[u], frame[u]) => frame[u].op = "releaseLock"
<1>1. pc[u] \in {"idle", "lock"}
  BY DEF IInv, TypeOK, Mutex, Inside
<1>2. Control(pc[u], frame[u], calls)
  BY DEF IInv, ThreadsOK
<1>3. frame[u].op # "granted"
  BY <1>1, <1>2, RestOK DEF Control
<1> QED BY <1>1, <1>3 DEF Got, Claims

(***************************************************************************)
(* A step of t, which holds the mutex, that changes the list: what it has  *)
(* to show of the new list.                                                *)
(***************************************************************************)
LEMMA ListStep ==
  ASSUME IInv, NEW t \in Threads, spinlock_ = t, NEW label \in Inside,
         NEW f \in Frames, Go(t, label, f),
         UNCHANGED <<elementsCount, spinlock_, calls, owned>>,
         contended' \in [Threads -> BOOLEAN],
         NEW L, Lists(forward', range', level'),
         Shape(forward', range', level', L),
         Control(label, f, calls),
         Knows(label, f, forward', range', level', L),
         Has(f) => Has(frame[t]) /\ f.node = frame[t].node,
         owned \subseteq L,
         \A n \in owned : range'[n] = range[n],
         Disowned(label, f, range, owned),
         \A k \in NewNodes : k > calls => Untouched(forward', k),
         \A u \in Threads : u # t =>
           /\ Asks(pc[u], frame[u]) => Untouched(forward', frame[u].node)
           /\ frame[u].op = "releaseLock" =>
                /\ \E n \in L : range'[n] = frame[u].want
                /\ Claims(label, f) => f.want # frame[u].want
  PROVE  IInv' /\ Locked' = L
<1>1. Locked' = L
  BY LockedAfter
<1>2. /\ pc'[t] = label /\ frame'[t] = f
      /\ \A u \in Threads : u # t => pc'[u] = pc[u] /\ frame'[u] = frame[u]
      /\ pc' \in [Threads -> Labels] /\ frame' \in [Threads -> Frames]
  BY GoFacts DEF IInv, Inside
<1>3. TypeOK'
  BY <1>2 DEF IInv, TypeOK
<1>4. Mutex'
  BY <1>2 DEF IInv, Mutex
<1>5. FreshNodes'
  BY DEF FreshNodes
<1>6. ASSUME NEW u \in Threads
      PROVE  /\ Control(pc'[u], frame'[u], calls')
             /\ Knows(pc'[u], frame'[u], forward', range', level', L)
             /\ Disowned(pc'[u], frame'[u], range', owned')
  <2>1. CASE u = t
    <3>1. Disowned(label, f, range', owned)
      BY DEF Disowned
    <3> QED BY <1>2, <2>1, <3>1
  <2>2. CASE u # t
    <3>1. /\ Control(pc[u], frame[u], calls)
          /\ Disowned(pc[u], frame[u], range, owned)
      BY DEF IInv, ThreadsOK
    <3>2. Disowned(pc[u], frame[u], range', owned)
      BY <3>1 DEF Disowned
    <3>3. Knows(pc[u], frame[u], forward', range', level', L)
      BY <2>2, OthersOutside DEF Knows
    <3> QED BY <1>2, <2>2, <3>1, <3>2, <3>3
  <2> QED BY <2>1, <2>2
<1>7. ASSUME NEW u \in Threads, u # t
      PROVE  Differ(label, f, pc[u], frame[u])
  <2>1. Differ(pc[t], frame[t], pc[u], frame[u])
    BY <1>7 DEF IInv, ThreadsOK
  <2> QED BY <1>7, <2>1, OthersOutside DEF Differ
<1>8. ASSUME NEW u \in Threads, NEW v \in Threads, v # u
      PROVE  Differ(pc'[u], frame'[u], pc'[v], frame'[v])
  <2>1. CASE u = t
    BY <1>2, <1>7, <1>8, <2>1
  <2>2. CASE v = t
    BY <1>2, <1>7, <1>8, <2>2, DifferSymmetric
  <2>3. CASE u # t /\ v # t
    BY <1>2, <1>8, <2>3 DEF IInv, ThreadsOK
  <2> QED BY <2>1, <2>2, <2>3
<1>9. ThreadsOK'
  BY <1>1, <1>6, <1>8 DEF ThreadsOK
<1>10. owned' \subseteq L
  OBVIOUS
<1> QED BY <1>1, <1>3, <1>4, <1>5, <1>9, <1>10 DEF IInv

(***************************************************************************)
(* What InsertRange finds and makes: a node that was never linked, a gap   *)
(* for its range, and the list with the node in it.                        *)
(***************************************************************************)
LEMMA InsertRangeFacts ==
  ASSUME IInv, NEW t \in Threads, InsertRange(t)
  PROVE  LET f == frame[t] IN
         /\ pc[t] = "insert" /\ spinlock_ = t /\ f \in Frames
         /\ f.op = "tryLock" /\ f.want \in Requests /\ f.node \in NewNodes
         /\ f.node <= calls /\ f.node \notin Locked
         /\ Untouched(forward, f.node)
         /\ Gap(forward, range, level, Locked, f.want, f.nodes)
         /\ forward' = LinkedIn(forward, f.node, f.height, f.nodes)
         /\ range' = [range EXCEPT ![f.node] = f.want]
         /\ level' = [level EXCEPT ![f.node] = f.height]
         /\ Lists(forward', range', level')
         /\ Shape(forward', range', level', Locked \cup {f.node})
<1>1. PICK f : f = frame[t]
  OBVIOUS
<1>2. /\ pc[t] = "insert" /\ spinlock_ = t /\ f \in Frames
      /\ Control("insert", f, calls)
      /\ Knows("insert", f, forward, range, level, Locked)
  BY <1>1 DEF IInv, TypeOK, ThreadsOK, InsertRange, Inside, Labels, Mutex
<1>3. /\ f.op = "tryLock" /\ f.want \in Requests /\ f.node \in NewNodes
      /\ f.node <= calls
  BY <1>2 DEF Control, Has
<1>4. Untouched(forward, f.node)
      /\ Gap(forward, range, level, Locked, f.want, f.nodes)
  BY <1>2, <1>3 DEF Knows, Asks
<1>5. Lists(forward, range, level) /\ Shape(forward, range, level, Locked)
  BY DEF IInv, TypeOK
<1>6. f.node \notin Locked
  BY <1>4, <1>5, UntouchedOutside
<1>7. /\ forward' = LinkedIn(forward, f.node, f.height, f.nodes)
      /\ range' = [range EXCEPT ![f.node] = f.want]
      /\ level' = [level EXCEPT ![f.node] = f.height]
  BY <1>1 DEF InsertRange, Linked, LinkedIn
<1>8. f.height \in Levels /\ f.nodes \in [Levels -> SkipListNode]
  BY <1>2 DEF Frames
<1>9. f.want \in RangesOver(0 .. MAX_VALUE) /\ f.want.start <= f.want.end
  BY <1>3, RequestFacts
<1>10. Lists(forward', range', level')
  BY <1>3, <1>5, <1>7, <1>8, <1>9, InsertLists
<1>11. Shape(forward', range', level', Locked \cup {f.node})
  BY <1>3, <1>4, <1>5, <1>7, <1>8, <1>9, InsertShape
<1> QED BY <1>1, <1>2, <1>3, <1>4, <1>6, <1>7, <1>10, <1>11

(***************************************************************************)
(* Linking one node leaves every other node that was never linked so.      *)
(***************************************************************************)
LEMMA UntouchedLinked ==
  ASSUME NEW fw, NEW k, NEW h, NEW p \in [Levels -> SkipListNode],
         NEW m \in NewNodes, m # k, \A l \in Levels : p[l] # m,
         Untouched(fw, m)
  PROVE  Untouched(LinkedIn(fw, k, h, p), m)
<1>1. m \in SkipListNode
  BY DEF SkipListNode
<1>2. PICK fw2 : fw2 = LinkedIn(fw, k, h, p)
  OBVIOUS
<1>3. ASSUME NEW n \in SkipListNode, NEW l \in Levels
      PROVE  /\ fw2[n][l] \in {fw[p[l]][l], k, fw[n][l]}
             /\ n = m => fw2[n][l] = fw[n][l]
  BY <1>2 DEF LinkedIn
<1>4. \A n \in SkipListNode, l \in Levels : fw2[n][l] # m
  BY <1>3 DEF Untouched
<1>5. \A l \in Levels : fw2[m][l] = Null
  BY <1>1, <1>3 DEF Untouched
<1> QED BY <1>2, <1>4, <1>5 DEF Untouched

(***************************************************************************)
(* InsertRange adds its node to the list.  The gap is still there, since   *)
(* the list has not changed under the mutex.                               *)
(***************************************************************************)
LEMMA InsertRangeInv ==
  ASSUME IInv, NEW t \in Threads, InsertRange(t)
  PROVE  IInv' /\ Locked' = Locked \cup {frame[t].node}
<1>1. PICK f, k, L : f = frame[t] /\ k = f.node /\ L = Locked \cup {k}
  OBVIOUS
<1>2. /\ pc[t] = "insert" /\ spinlock_ = t /\ f \in Frames
      /\ f.op = "tryLock" /\ f.want \in Requests /\ k \in NewNodes
      /\ k <= calls /\ k \notin Locked
      /\ Gap(forward, range, level, Locked, f.want, f.nodes)
      /\ forward' = LinkedIn(forward, k, f.height, f.nodes)
      /\ range' = [range EXCEPT ![k] = f.want]
      /\ Lists(forward', range', level')
      /\ Shape(forward', range', level', L)
  BY <1>1, InsertRangeFacts
<1>3. Lists(forward, range, level) /\ Shape(forward, range, level, Locked)
      /\ owned \subseteq Locked /\ Locked \subseteq NewNodes
      /\ calls \in Nat /\ k \in Nat
  BY <1>2 DEF IInv, TypeOK, Shape, Apart, NewNodes
<1>4. Go(t, "count", f) /\ UNCHANGED <<elementsCount, spinlock_, calls, owned>>
  BY <1>1 DEF InsertRange
<1>5. contended' \in [Threads -> BOOLEAN]
  BY DEF InsertRange
<1>6. /\ range'[k] = f.want
      /\ \A n \in SkipListNode : n # k => range'[n] = range[n]
  <2>1. k \in SkipListNode
    BY <1>2 DEF SkipListNode
  <2> QED BY <1>2, <1>3, <2>1 DEF Lists
<1>7. \A n \in Locked : range'[n] = range[n]
  BY <1>2, <1>3, <1>6 DEF SkipListNode
<1>8. \A n \in Locked : range[n] # f.want
  <2>1. /\ f.want \in RangesOver(0 .. MAX_VALUE) /\ f.want.start <= f.want.end
        /\ f.want.start \in Nat /\ f.want.end \in Nat
    BY <1>2, RequestFacts
  <2>2. \A n \in Locked :
          range[n].end < f.want.start \/ f.want.end < range[n].start
    BY <1>2, <1>3, <2>1, GapIsFree
  <2> QED BY <2>1, <2>2
<1>9. ASSUME NEW m \in NewNodes, m # k, Untouched(forward, m)
      PROVE  Untouched(forward', m)
  <2>1. f.nodes \in [Levels -> SkipListNode]
    BY <1>2 DEF Frames
  <2>2. m \notin Locked /\ m # head /\ m # tail
    BY <1>3, <1>9, UntouchedOutside, SongAssumption
  <2>3. \A l \in Levels : f.nodes[l] \in Locked \cup {head, tail}
    <3>1. \A l \in Levels : f.nodes[l] \in At(level, Locked, l)
      BY <1>2, <1>3, PredNext DEF Gap
    <3> QED BY <3>1 DEF At
  <2>4. \A l \in Levels : f.nodes[l] # m
    BY <2>2, <2>3
  <2> QED BY <1>2, <1>9, <2>1, <2>4, UntouchedLinked
<1>10. Has(f) /\ Got("count", f) /\ Claims("count", f) /\ ~Asks("count", f)
  BY <1>2 DEF Has, Got, Claims, Asks
<1>11. Control("count", f, calls)
  BY <1>1, <1>2 DEF Control
<1>12. Knows("count", f, forward', range', level', L)
  BY <1>1, <1>2, <1>6, <1>10 DEF Knows
<1>13. Disowned("count", f, range, owned)
  BY <1>3, <1>8 DEF Disowned
<1>14. \A m \in NewNodes : m > calls => Untouched(forward', m)
  <2>1. \A m \in NewNodes : m > calls => m # k /\ Untouched(forward, m)
    BY <1>2, <1>3 DEF IInv, FreshNodes
  <2> QED BY <1>9, <2>1
<1>15. ASSUME NEW u \in Threads, u # t, Asks(pc[u], frame[u])
       PROVE  Untouched(forward', frame[u].node)
  <2>1. /\ Control(pc[u], frame[u], calls)
        /\ Knows(pc[u], frame[u], forward, range, level, Locked)
        /\ Differ(pc[t], frame[t], pc[u], frame[u])
    BY <1>15 DEF IInv, ThreadsOK
  <2>2. Has(frame[u])
    BY <1>15 DEF Has, Asks
  <2>3. frame[u].node \in NewNodes /\ frame[u].node # k
    BY <1>1, <1>10, <2>1, <2>2 DEF Control, Differ
  <2> QED BY <1>9, <1>15, <2>1, <2>3 DEF Knows
<1>16. ASSUME NEW u \in Threads, u # t, frame[u].op = "releaseLock"
       PROVE  (\E n \in L : range'[n] = frame[u].want) /\ f.want # frame[u].want
  <2>1. PICK n \in Locked : range[n] = frame[u].want
    BY <1>16 DEF IInv, ThreadsOK, Knows
  <2> QED BY <1>1, <1>7, <1>8, <2>1
<1>17. "count" \in Inside /\ owned \subseteq L
       /\ \A n \in owned : range'[n] = range[n]
  BY <1>1, <1>3, <1>7 DEF Inside, Labels
<1>18. Has(f) => Has(frame[t]) /\ f.node = frame[t].node
  BY <1>1
<1>19. \A u \in Threads : u # t =>
         /\ Asks(pc[u], frame[u]) => Untouched(forward', frame[u].node)
         /\ frame[u].op = "releaseLock" =>
              /\ \E n \in L : range'[n] = frame[u].want
              /\ Claims("count", f) => f.want # frame[u].want
  BY <1>15, <1>16
<1>20. IInv' /\ Locked' = L
  <2>1. Lists(forward', range', level') /\ Shape(forward', range', level', L)
    BY <1>2
  <2>2. f \in Frames /\ spinlock_ = t
    BY <1>2
  <2> QED BY <1>4, <1>5, <1>11, <1>12, <1>13, <1>14, <1>17, <1>18, <1>19,
             <2>1, <2>2, ListStep
<1> QED BY <1>1, <1>20

-----------------------------------------------------------------------------
(***************************************************************************)
(* What Remove finds and makes: the node of the released range, which no   *)
(* client owns any more, and the list without it.                          *)
(***************************************************************************)
LEMMA RemoveFacts ==
  ASSUME IInv, NEW t \in Threads, Remove(t)
  PROVE  \E k, p :
           /\ k \in Locked
           /\ pc[t] = "remove" /\ spinlock_ = t /\ frame[t] \in Frames
           /\ Control("remove", frame[t], calls)
           /\ range[k] = frame[t].want
           /\ \A n \in Locked : range[n] = frame[t].want => n = k
           /\ \A l \in Levels : p[l] \in Locked \cup {head}
           /\ forward' = CutOut(forward, k, p, 0 .. level[k])
           /\ Go(t, "uncount", [frame[t] EXCEPT !.op = "released"])
           /\ Lists(forward', range', level')
           /\ Shape(forward', range', level', Locked \ {k})
<1>1. PICK f : f = frame[t]
  OBVIOUS
<1>2. /\ pc[t] = "remove" /\ spinlock_ = t /\ f \in Frames
      /\ Control("remove", f, calls)
      /\ Knows("remove", f, forward, range, level, Locked)
  BY <1>1 DEF IInv, TypeOK, ThreadsOK, Remove, Inside, Labels, Mutex
<1>3. f.op = "releaseLock" /\ f.want \in Requests
  BY <1>2 DEF Control
<1>4. PICK k \in Locked : range[k] = f.want
  BY <1>2, <1>3 DEF Knows
<1>5. /\ Lists(forward, range, level) /\ Shape(forward, range, level, Locked)
      /\ Apart(range, Locked) /\ Locked \subseteq NewNodes
      /\ 0 \in Levels /\ MAX_LEVEL \in Nat /\ Levels = 0 .. MAX_LEVEL
  BY SongAssumption DEF IInv, TypeOK, Shape, Apart, Levels
<1>6. k \in SkipListNode /\ level[k] \in Levels
  BY <1>5 DEF SkipListNode, Lists
<1>7. PICK p : /\ p = Descend({n \in SkipListNode : StartsBefore(n, f.want)})
               /\ Preds(forward, level, Locked, Earlier(range, range[k]), p)
  BY <1>3, <1>4, SearchFacts
<1>8. \A l \in Levels : forward[p[l]][l] = k <=> l <= level[k]
  BY <1>5, <1>7, TargetMet
<1>9. forward[p[0]][0] = k /\ k # Null
  BY <1>5, <1>6, <1>8, SongAssumption
<1>10. Cut(p, k) = 0 .. level[k]
  <2>1. Cut(p, k) \subseteq 0 .. level[k]
    <3>1. ASSUME NEW l \in Cut(p, k) PROVE l \in 0 .. level[k]
      <4>1. l \in Levels /\ l \in 0 .. l /\ l \in Nat
        BY <1>5 DEF Cut
      <4>2. forward[p[l]][l] = k
        BY <4>1 DEF Cut
      <4> QED BY <1>5, <1>6, <1>8, <4>1, <4>2
    <3> QED BY <3>1
  <2>2. ASSUME NEW l \in 0 .. level[k] PROVE l \in Cut(p, k)
    <3>1. l \in Levels /\ \A j \in 0 .. l : j \in Levels /\ j <= level[k]
      BY <1>5, <1>6
    <3> QED BY <1>8, <3>1 DEF Cut
  <2> QED BY <2>1, <2>2
<1>11. /\ forward' = [n \in SkipListNode |-> [l \in Levels |->
                        IF n = p[l] /\ l \in Cut(p, k)
                        THEN forward[k][l] ELSE forward[n][l]]]
       /\ Go(t, "uncount", [f EXCEPT !.op = "released"])
  BY <1>1, <1>7, <1>9 DEF Remove
<1>12. forward' = CutOut(forward, k, p, 0 .. level[k])
  BY <1>10, <1>11 DEF CutOut
<1>13. range' = range /\ level' = level
  BY DEF Remove
<1>14. Lists(forward', range', level')
       /\ Shape(forward', range', level', Locked \ {k})
  BY <1>5, <1>7, <1>12, <1>13, RemoveShape
<1>15. \A n \in Locked : range[n] = f.want => n = k
  <2>1. \A n \in Locked : /\ range[n].start <= range[n].end
                          /\ range[n].start \in Nat /\ range[n].end \in Nat
    BY <1>5, Places DEF Apart, SkipListNode
  <2>2. \A n \in Locked : n # k =>
          range[n].end < range[k].start \/ range[k].end < range[n].start
    BY <1>5 DEF Apart
  <2> QED BY <1>4, <2>1, <2>2
<1>16. ASSUME NEW l \in Levels PROVE p[l] \in Locked \cup {head}
  <2>1. p[l] \in At(level, Locked, l) /\ p[l] # tail
    BY <1>5, <1>7, PredNext
  <2> QED BY <2>1 DEF At
<1> QED BY <1>1, <1>2, <1>4, <1>11, <1>12, <1>14, <1>15, <1>16

(***************************************************************************)
(* Remove takes the node of the released range out of the list, which is   *)
(* no owned one, and on which no other call counts.                        *)
(***************************************************************************)
LEMMA RemoveInv ==
  ASSUME IInv, NEW t \in Threads, Remove(t)
  PROVE  IInv' /\ \E k \in Locked : /\ range[k] = frame[t].want
                                    /\ Locked' = Locked \ {k}
<1>1. PICK k, p :
        /\ k \in Locked
        /\ pc[t] = "remove" /\ spinlock_ = t /\ frame[t] \in Frames
        /\ Control("remove", frame[t], calls)
        /\ range[k] = frame[t].want
        /\ \A n \in Locked : range[n] = frame[t].want => n = k
        /\ \A l \in Levels : p[l] \in Locked \cup {head}
        /\ forward' = CutOut(forward, k, p, 0 .. level[k])
        /\ Go(t, "uncount", [frame[t] EXCEPT !.op = "released"])
        /\ Lists(forward', range', level')
        /\ Shape(forward', range', level', Locked \ {k})
  BY RemoveFacts
<1>2. PICK g, f, L : /\ g = frame[t] /\ f = [g EXCEPT !.op = "released"]
                     /\ L = Locked \ {k}
  OBVIOUS
<1>3. /\ g.op = "releaseLock" /\ g.want \in Requests
      /\ f \in Frames /\ f.op = "released" /\ f.want = g.want
  BY <1>1, <1>2 DEF Control, Frames
<1>4. /\ range' = range /\ level' = level /\ contended' = contended
      /\ UNCHANGED <<elementsCount, spinlock_, calls, owned>>
      /\ contended' \in [Threads -> BOOLEAN]
  BY DEF Remove, IInv, TypeOK
<1>5. ~Has(f) /\ ~Claims("uncount", f) /\ ~Asks("uncount", f)
      /\ ~Got("uncount", f) /\ Claims("remove", g)
  BY <1>3 DEF Has, Claims, Asks, Got
<1>6. Control("uncount", f, calls)
  BY <1>3, <1>5 DEF Control
<1>7. Knows("uncount", f, forward', range', level', L)
  BY <1>3, <1>5 DEF Knows
<1>8. owned \subseteq L
  <2>1. \A n \in owned : range[n] # g.want
    BY <1>1, <1>2, <1>5 DEF IInv, ThreadsOK, Disowned
  <2>2. k \notin owned /\ owned \subseteq Locked
    BY <1>1, <1>2, <2>1 DEF IInv
  <2> QED BY <1>2, <2>2
<1>9. Disowned("uncount", f, range, owned)
  BY <1>5 DEF Disowned
<1>10. ASSUME NEW m \in NewNodes, Untouched(forward, m)
       PROVE  Untouched(forward', m)
  <2>1. /\ m \notin Locked /\ m # head /\ m \in SkipListNode
        /\ k \in SkipListNode
    BY <1>1, <1>10, UntouchedOutside, SongAssumption
       DEF IInv, TypeOK, SkipListNode, Shape, Apart
  <2>2. ASSUME NEW n \in SkipListNode, NEW l \in Levels
        PROVE  /\ forward'[n][l] \in {forward[n][l], forward[k][l]}
               /\ n = m => forward'[n][l] = forward[n][l]
    <3>1. p[l] # m
      BY <1>1, <2>1
    <3> QED BY <1>1, <3>1 DEF CutOut
  <2> QED BY <1>10, <2>1, <2>2 DEF Untouched
<1>11. \A m \in NewNodes : m > calls => Untouched(forward', m)
  BY <1>10 DEF IInv, FreshNodes
<1>12. ASSUME NEW u \in Threads, u # t, Asks(pc[u], frame[u])
       PROVE  Untouched(forward', frame[u].node)
  <2>1. /\ Control(pc[u], frame[u], calls)
        /\ Knows(pc[u], frame[u], forward, range, level, Locked)
    BY DEF IInv, ThreadsOK
  <2>2. Has(frame[u])
    BY <1>12 DEF Has, Asks
  <2> QED BY <1>10, <1>12, <2>1, <2>2 DEF Knows, Control
<1>13. ASSUME NEW u \in Threads, u # t, frame[u].op = "releaseLock"
       PROVE  \E n \in L : range'[n] = frame[u].want
  <2>1. PICK n \in Locked : range[n] = frame[u].want
    BY <1>13 DEF IInv, ThreadsOK, Knows
  <2>2. Differ(pc[t], frame[t], pc[u], frame[u])
    BY <1>13 DEF IInv, ThreadsOK
  <2>3. frame[u].want # g.want
    BY <1>1, <1>2, <1>5, <1>13, <2>2 DEF Differ, Claims
  <2> QED BY <1>1, <1>2, <1>4, <2>1, <2>3
<1>14. \A u \in Threads : u # t =>
         /\ Asks(pc[u], frame[u]) => Untouched(forward', frame[u].node)
         /\ frame[u].op = "releaseLock" =>
              /\ \E n \in L : range'[n] = frame[u].want
              /\ Claims("uncount", f) => f.want # frame[u].want
  BY <1>5, <1>12, <1>13
<1>15. "uncount" \in Inside
  BY DEF Inside, Labels
<1>16. /\ Go(t, "uncount", f) /\ Shape(forward', range', level', L)
       /\ \A n \in owned : range'[n] = range[n]
  BY <1>1, <1>2, <1>4
<1>17. IInv' /\ Locked' = L
  BY <1>1, <1>3, <1>4, <1>5, <1>6, <1>7, <1>8, <1>9, <1>11, <1>14, <1>15,
     <1>16, ListStep
<1> QED BY <1>1, <1>2, <1>17

-----------------------------------------------------------------------------
(***************************************************************************)
(* With clients that release only what they own, the invariant holds.      *)
(***************************************************************************)
LEMMA NextInv ==
  ASSUME ProperUse, IInv, [Next]_vars
  PROVE  IInv'
<1>1. CASE UNCHANGED vars
  <2>1. Locked' = Locked
    BY <1>1 DEF vars, Locked, Chain, Row
  <2> QED BY <1>1, <2>1 DEF vars, IInv, TypeOK, Mutex, FreshNodes, ThreadsOK
<1>2. CASE Next
  <2>1. PICK t \in Threads :
          \/ \E r \in Requests, height \in Levels : TryLock(t, r, height)
          \/ \E r \in Requests : ReleaseLock(t, r)
          \/ Step(t)
    BY <1>2 DEF Next
  <2>2. CASE \E r \in Requests, height \in Levels : TryLock(t, r, height)
    BY <2>2, TryLockInv
  <2>3. CASE \E r \in Requests : ReleaseLock(t, r)
    BY <2>3, ReleaseLockInv
  <2>4. CASE Step(t)
    BY <2>4, LockInv, FindNodesInv, InsertRangeInv, CountUpInv, RemoveInv,
       CountDownInv, UnlockInv DEF Step
  <2> QED BY <2>1, <2>2, <2>3, <2>4
<1> QED BY <1>1, <1>2

(***************************************************************************)
(* IInv: whatever the clients do, as long as they release only what they   *)
(* own, the list has its shape and every thread knows what it may rely on. *)
(***************************************************************************)
THEOREM Invariance ==
  ASSUME ProperUse
  PROVE  Spec => []IInv
<1>1. IInv /\ [Next]_vars => IInv'
  BY NextInv
<1> QED BY <1>1, InitInv, PTL DEF Spec

(***************************************************************************)
(* The levels of a list of this shape, as SkipListShape states them.       *)
(***************************************************************************)
LEMMA ShapeOfLevels ==
  ASSUME IInv
  PROVE  SkipListShape
<1> SUFFICES ASSUME NEW l \in Levels
             PROVE  /\ Chain(l) = {n \in Chain(0) : level[n] >= l}
                    /\ tail \in Chain(l)
                    /\ \A n \in Chain(l) \ {head, tail} :
                         End(n) < Start(forward[n][l])
  BY DEF SkipListShape
<1>1. /\ Lists(forward, range, level) /\ Shape(forward, range, level, Locked)
      /\ Apart(range, Locked) /\ Locked \subseteq NewNodes /\ 0 \in Levels
  BY SongAssumption DEF IInv, TypeOK, Shape, Apart, Levels
<1>2. \A k \in Levels : Chain(k) = At(level, Locked, k)
  <2>1. \A k \in Levels : Row(k) = RowOf(forward, k)
    BY DEF Row, RowOf
  <2> QED BY <1>1, <2>1, ShapeReach DEF Chain
<1>3. /\ At(level, Locked, 0) = Locked \cup {head, tail}
      /\ tail \in At(level, Locked, l)
      /\ At(level, Locked, l) \subseteq Locked \cup {head, tail}
      /\ At(level, Locked, l) \subseteq SkipListNode
  BY <1>1, AtFacts
<1>4. Chain(l) = {n \in Chain(0) : level[n] >= l} /\ tail \in Chain(l)
  BY <1>1, <1>2, <1>3 DEF At
<1>5. ASSUME NEW n \in Chain(l) \ {head, tail}
      PROVE  range[n].end < range[forward[n][l]].start
  <2>1. PICK m : m = forward[n][l]
    OBVIOUS
  <2>2. n \in Locked /\ n \in At(level, Locked, l) \ {tail}
        /\ n \in SkipListNode
    BY <1>2, <1>3
  <2>3. m \in At(level, Locked, l) /\ Pos(range, n) < Pos(range, m)
    <3>1. Linear(RowOf(forward, l), range, At(level, Locked, l))
      BY <1>1 DEF Shape
    <3>2. RowOf(forward, l)[n] = m
      BY <2>1, <2>2 DEF RowOf
    <3> QED BY <2>2, <3>1, <3>2 DEF Linear
  <2>4. /\ \A k \in SkipListNode :
             /\ k # head => Pos(range, k) = range[k].start + 1
             /\ range[k].start \in Nat /\ range[k].end \in Nat
        /\ Pos(range, head) = 0 /\ range[tail].start = MAX_VALUE
    <3>1. range[tail].start = MAX_VALUE
      BY <1>1 DEF Lists
    <3> QED BY <1>1, <3>1, Places
  <2>5. m # head /\ m \in SkipListNode /\ m \in Locked \cup {tail}
        /\ range[n].start < range[m].start
    BY <1>3, <1>5, <2>2, <2>3, <2>4
  <2>6. CASE m = tail
    <3>1. range[n].end < MAX_VALUE
      BY <1>1, <2>2 DEF Apart
    <3> QED BY <2>1, <2>4, <2>6, <3>1
  <2>7. CASE m \in Locked
    <3>1. m # n
      BY <2>2, <2>4, <2>5
    <3>2. range[m].start <= range[m].end
          /\ (range[m].end < range[n].start \/ range[n].end < range[m].start)
      BY <1>1, <2>2, <2>7, <3>1 DEF Apart
    <3> QED BY <2>1, <2>2, <2>4, <2>5, <3>2
  <2> QED BY <2>5, <2>6, <2>7
<1> QED BY <1>4, <1>5 DEF Start, End

(***************************************************************************)
(* SkipListShape: with clients that release only what they own, every      *)
(* level is an ordered chain of the locked nodes that are high enough.     *)
(***************************************************************************)
THEOREM LevelsShaped ==
  ASSUME ProperUse
  PROVE  Spec => []SkipListShape
<1>1. IInv => SkipListShape
  BY ShapeOfLevels
<1> QED BY <1>1, Invariance, PTL

(***************************************************************************)
(* OwnersProtected: with clients that release only what they own, nothing  *)
(* that tryLock has granted leaves the list before it is released.         *)
(***************************************************************************)
THEOREM OwnersKeep ==
  ASSUME ProperUse
  PROVE  Spec => []OwnersProtected
<1>1. IInv => OwnersProtected
  BY DEF IInv, OwnersProtected
<1> QED BY <1>1, Invariance, PTL

-----------------------------------------------------------------------------
(***************************************************************************)
(* The counter.                                                            *)
(***************************************************************************)
LEMMA LockedFinite ==
  ASSUME IInv
  PROVE  /\ IsFiniteSet(Locked) /\ Cardinality(Locked) \in Nat
         /\ Cardinality(Locked) <= MaxCalls
<1>1. Locked \subseteq NewNodes
  BY DEF IInv, Shape, Apart
<1> QED BY <1>1, NodeCount, FS_Subset, FS_CardinalityType

Counting == {"count", "uncount"}

(***************************************************************************)
(* A step that neither begins nor ends a count.                            *)
(***************************************************************************)
LEMMA CountSame ==
  ASSUME Counted, elementsCount' = elementsCount, Locked' = Locked,
         \A u \in Threads : pc'[u] = pc[u]
                            \/ (pc'[u] \notin Counting /\ pc[u] \notin Counting)
  PROVE  Counted'
<1>1. \A u \in Threads : /\ pc'[u] = "count" <=> pc[u] = "count"
                         /\ pc'[u] = "uncount" <=> pc[u] = "uncount"
  BY DEF Counting
<1>2. (\A u \in Threads : pc'[u] \notin {"count", "uncount"})
        <=> (\A u \in Threads : pc[u] \notin {"count", "uncount"})
  BY <1>1
<1> QED BY <1>1, <1>2 DEF Counted

(***************************************************************************)
(* A step of the thread that holds the mutex: nobody else is counting.     *)
(***************************************************************************)
LEMMA CountOwn ==
  ASSUME IInv, NEW t \in Threads, spinlock_ = t, NEW label \in Labels,
         NEW f \in Frames, Go(t, label, f),
         label = "count" => elementsCount' + 1 = Cardinality(Locked'),
         label = "uncount" => elementsCount' = Cardinality(Locked') + 1,
         label \notin Counting => elementsCount' = Cardinality(Locked')
  PROVE  Counted'
<1>1. /\ pc'[t] = label
      /\ \A u \in Threads : u # t => pc'[u] = pc[u]
  BY GoFacts DEF IInv
<1>2. \A u \in Threads : u # t => pc'[u] # "count" /\ pc'[u] # "uncount"
  BY <1>1, OthersOutside
<1> QED BY <1>1, <1>2 DEF Counted, Counting

(***************************************************************************)
(* What the counter is while t holds the mutex.                            *)
(***************************************************************************)
LEMMA CountedNow ==
  ASSUME IInv, Counted, NEW t \in Threads, spinlock_ = t
  PROVE  /\ pc[t] \notin Counting => elementsCount = Cardinality(Locked)
         /\ pc[t] = "count" => elementsCount + 1 = Cardinality(Locked)
         /\ pc[t] = "uncount" => elementsCount = Cardinality(Locked) + 1
<1>1. \A u \in Threads : u # t => pc[u] # "count" /\ pc[u] # "uncount"
  BY OthersOutside
<1> QED BY <1>1 DEF Counted, Counting

(***************************************************************************)
(* A node is linked: the counter is one behind.                            *)
(***************************************************************************)
LEMMA CountedInsert ==
  ASSUME IInv, Counted, NEW t \in Threads, InsertRange(t)
  PROVE  Counted'
<1>1. /\ pc[t] = "insert" /\ spinlock_ = t /\ frame[t] \in Frames
      /\ frame[t].node \notin Locked
  BY InsertRangeFacts
<1>2. Go(t, "count", frame[t]) /\ elementsCount' = elementsCount
  BY DEF InsertRange
<1>3. Cardinality(Locked') = Cardinality(Locked) + 1
  <2>1. Locked' = Locked \cup {frame[t].node}
    BY InsertRangeInv
  <2>2. Cardinality(Locked \cup {frame[t].node}) = Cardinality(Locked) + 1
    BY <1>1, LockedFinite, FS_AddElement
  <2> QED BY <2>1, <2>2
<1>4. elementsCount = Cardinality(Locked)
  BY <1>1, CountedNow DEF Counting
<1>5. "count" \in Labels /\ "count" # "uncount" /\ "count" \in Counting
  BY DEF Labels, Counting
<1> QED BY <1>1, <1>2, <1>3, <1>4, <1>5, CountOwn

(***************************************************************************)
(* A node is cut out: the counter is one ahead.                            *)
(***************************************************************************)
LEMMA CountedRemove ==
  ASSUME IInv, Counted, NEW t \in Threads, Remove(t)
  PROVE  Counted'
<1>1. /\ pc[t] = "remove" /\ spinlock_ = t /\ frame[t] \in Frames
      /\ Go(t, "uncount", [frame[t] EXCEPT !.op = "released"])
  BY RemoveFacts
<1>2. elementsCount' = elementsCount
  BY DEF Remove
<1>3. Cardinality(Locked) = Cardinality(Locked') + 1
  <2>1. PICK k \in Locked : Locked' = Locked \ {k}
    BY RemoveInv
  <2>2. /\ Cardinality(Locked \ {k}) = Cardinality(Locked) - 1
        /\ Cardinality(Locked) \in Nat
    BY LockedFinite, FS_RemoveElement
  <2> QED BY <2>1, <2>2
<1>4. elementsCount = Cardinality(Locked)
  BY <1>1, CountedNow DEF Counting
<1>5. "uncount" \in Labels /\ "count" # "uncount" /\ "uncount" \in Counting
  BY DEF Labels, Counting
<1>6. [frame[t] EXCEPT !.op = "released"] \in Frames
  BY <1>1 DEF Frames
<1> QED BY <1>1, <1>2, <1>3, <1>4, <1>5, <1>6, CountOwn

(***************************************************************************)
(* The counter catches up, and does not wrap.                              *)
(***************************************************************************)
LEMMA CountedUp ==
  ASSUME WideCounter, IInv, Counted, NEW t \in Threads, CountUp(t)
  PROVE  Counted'
<1>1. /\ pc[t] = "count" /\ spinlock_ = t /\ frame[t] \in Frames
  BY DEF CountUp, IInv, Mutex, Inside, Labels, TypeOK
<1>2. elementsCount + 1 = Cardinality(Locked)
  BY <1>1, CountedNow
<1>3. Locked' = Locked
  BY CountUpInv
<1>4. elementsCount' = Cardinality(Locked)
  <2>1. /\ Cardinality(Locked) \in Nat /\ Cardinality(Locked) < SizeModulus
        /\ SizeModulus \in Nat
    BY LockedFinite, SongAssumption DEF WideCounter
  <2>2. elementsCount' = Cardinality(Locked) % SizeModulus
    BY <1>2 DEF CountUp
  <2> QED BY <2>1, <2>2
<1>5. /\ Go(t, "unlock", [frame[t] EXCEPT !.op = "granted"])
      /\ [frame[t] EXCEPT !.op = "granted"] \in Frames
      /\ "unlock" \in Labels /\ "unlock" \notin Counting
      /\ "unlock" # "count" /\ "unlock" # "uncount"
  BY <1>1 DEF CountUp, Frames, Labels, Counting
<1> QED BY <1>1, <1>3, <1>4, <1>5, CountOwn

(***************************************************************************)
(* The counter comes down, and was not 0.                                  *)
(***************************************************************************)
LEMMA CountedDown ==
  ASSUME IInv, Counted, NEW t \in Threads, CountDown(t)
  PROVE  Counted'
<1>1. /\ pc[t] = "uncount" /\ spinlock_ = t /\ frame[t] \in Frames
  BY DEF CountDown, IInv, Mutex, Inside, Labels, TypeOK
<1>2. elementsCount = Cardinality(Locked) + 1
  BY <1>1, CountedNow
<1>3. Locked' = Locked
  BY CountDownInv
<1>4. elementsCount' = Cardinality(Locked)
  <2>1. PICK c : c = Cardinality(Locked)
    OBVIOUS
  <2>2. /\ c \in Nat /\ elementsCount = c + 1 /\ elementsCount < SizeModulus
        /\ SizeModulus \in Nat
    BY <1>2, <2>1, LockedFinite, SongAssumption DEF IInv, TypeOK
  <2>3. elementsCount' = (c + SizeModulus) % SizeModulus
    <3>1. elementsCount + SizeModulus - 1 = c + SizeModulus
      BY <2>2
    <3> QED BY <3>1 DEF CountDown
  <2>4. (c + SizeModulus) % SizeModulus = c
    BY <2>2
  <2> QED BY <2>1, <2>3, <2>4
<1>5. /\ Go(t, "unlock", frame[t])
      /\ "unlock" \in Labels /\ "unlock" \notin Counting
      /\ "unlock" # "count" /\ "unlock" # "uncount"
  BY DEF CountDown, Labels, Counting
<1> QED BY <1>1, <1>3, <1>4, <1>5, CountOwn

(***************************************************************************)
(* Every step keeps the counter right.                                     *)
(***************************************************************************)
LEMMA CountedNext ==
  ASSUME ProperUse, WideCounter, IInv, Counted, [Next]_vars
  PROVE  Counted'
<1>1. CASE UNCHANGED vars
  <2>1. Locked' = Locked
    BY <1>1 DEF vars, Locked, Chain, Row
  <2> QED BY <1>1, <2>1 DEF vars, Counted
<1>2. CASE Next
  <2>1. PICK t \in Threads :
          \/ \E r \in Requests, height \in Levels : TryLock(t, r, height)
          \/ \E r \in Requests : ReleaseLock(t, r)
          \/ Step(t)
    BY <1>2 DEF Next
  <2>2. pc \in [Threads -> Labels]
    BY DEF IInv, TypeOK
  <2>3. ASSUME NEW label, NEW f, Go(t, label, f), label \notin Counting,
               pc[t] \notin Counting, elementsCount' = elementsCount,
               Locked' = Locked
        PROVE  Counted'
    <3>1. \A u \in Threads : pc'[u] = IF u = t THEN label ELSE pc[u]
      BY <2>2, <2>3 DEF Go
    <3> QED BY <2>3, <3>1, CountSame
  <2>4. /\ "idle" \notin Counting /\ "lock" \notin Counting
        /\ "find" \notin Counting /\ "remove" \notin Counting
        /\ "insert" \notin Counting /\ "unlock" \notin Counting
    BY DEF Counting
  <2>5. ASSUME NEW r \in Requests, NEW height \in Levels, TryLock(t, r, height)
        PROVE  Counted'
    BY <2>3, <2>4, <2>5, TryLockInv DEF TryLock
  <2>6. ASSUME NEW r \in Requests, ReleaseLock(t, r) PROVE Counted'
    BY <2>3, <2>4, <2>6, ReleaseLockInv DEF ReleaseLock
  <2>7. ASSUME Lock(t) PROVE Counted'
    <3>1. PICK label \in {"find", "remove"} : Go(t, label, frame[t])
      BY <2>7 DEF Lock
    <3> QED BY <2>3, <2>4, <2>7, <3>1, LockInv DEF Lock
  <2>8. ASSUME FindNodes(t) PROVE Counted'
    <3>1. PICK nodes \in [Levels -> SkipListNode],
               label \in {"insert", "unlock"} :
            Go(t, label, [frame[t] EXCEPT !.nodes = nodes])
      BY <2>8, FindNodesFacts
    <3> QED BY <2>3, <2>4, <2>8, <3>1, FindNodesInv DEF FindNodes
  <2>9. ASSUME Unlock(t) PROVE Counted'
    BY <2>3, <2>4, <2>9, UnlockInv DEF Unlock
  <2> QED BY <2>1, <2>5, <2>6, <2>7, <2>8, <2>9, CountedInsert, CountedRemove,
             CountedUp, CountedDown DEF Step
<1> QED BY <1>1, <1>2

(***************************************************************************)
(* SizeCounts: if the counter is wide enough for the nodes there may be,   *)
(* size() is the number of locked ranges whenever nobody holds the mutex.  *)
(***************************************************************************)
THEOREM SizeIsCount ==
  ASSUME ProperUse, WideCounter
  PROVE  Spec => []SizeCounts
<1>1. Init => Counted
  <2> SUFFICES ASSUME Init PROVE Counted
    OBVIOUS
  <2>2. Locked = {}
    BY InitEmpty
  <2>3. Cardinality(Locked) = 0
    BY <2>2, FS_EmptySet
  <2>4. elementsCount = 0 /\ \A t \in Threads : pc[t] = "idle"
    BY DEF Init
  <2> QED BY <2>3, <2>4 DEF Counted
<1>2. IInv /\ Counted /\ [Next]_vars => Counted'
  BY CountedNext
<1>3. IInv /\ Counted => SizeCounts
  <2> SUFFICES ASSUME IInv, Counted, spinlock_ = Null
               PROVE  elementsCount = Cardinality(Locked)
    BY DEF SizeCounts
  <2>1. \A t \in Threads : pc[t] \notin Inside
    BY SongAssumption DEF IInv, Mutex
  <2>2. \A t \in Threads : pc[t] \notin {"count", "uncount"}
    BY <2>1 DEF Inside, Labels
  <2> QED BY <2>2 DEF Counted
<1> QED BY <1>1, <1>2, <1>3, Invariance, PTL DEF Spec

-----------------------------------------------------------------------------
(***************************************************************************)
(* Contention.  A step of t that adds no range to the list.                *)
(***************************************************************************)
LEMMA ContentionSame ==
  ASSUME IInv, Contention, NEW t \in Threads, NEW label \in Labels,
         NEW f \in Frames, Go(t, label, f), range' = range,
         Locked' \subseteq Locked,
         \A u \in Threads : u # t => contended'[u] = contended[u],
         Asks(label, f) /\ ~contended'[t] =>
           /\ label # "unlock"
           /\ \A n \in Locked : ~ClosedOverlap(range[n], f.want)
  PROVE  Contention'
<1>1. /\ pc'[t] = label /\ frame'[t] = f
      /\ \A u \in Threads : u # t => pc'[u] = pc[u] /\ frame'[u] = frame[u]
  BY GoFacts DEF IInv
<1>2. ASSUME NEW u \in Threads, Asks(pc'[u], frame'[u]), ~contended'[u]
      PROVE  /\ pc'[u] # "unlock"
             /\ \A n \in Locked' : ~ClosedOverlap(range'[n], frame'[u].want)
  <2>1. CASE u = t
    BY <1>1, <1>2, <2>1
  <2>2. CASE u # t
    BY <1>1, <1>2, <2>2 DEF Contention
  <2> QED BY <2>1, <2>2
<1> QED BY <1>2 DEF Contention

(***************************************************************************)
(* A step of t that has no pending request after it.                       *)
(***************************************************************************)
LEMMA ContentionQuiet ==
  ASSUME IInv, Contention, NEW t \in Threads, NEW label \in Labels,
         NEW f \in Frames, Go(t, label, f), f.op # "tryLock", range' = range,
         Locked' \subseteq Locked,
         \A u \in Threads : u # t => contended'[u] = contended[u]
  PROVE  Contention'
<1>1. ~Asks(label, f)
  BY DEF Asks
<1> QED BY <1>1, ContentionSame

(***************************************************************************)
(* A new call has met contention if an overlapping node is linked.         *)
(***************************************************************************)
LEMMA ContentionTryLock ==
  ASSUME IInv, Contention, NEW t \in Threads, NEW r \in Requests,
         NEW height \in Levels, TryLock(t, r, height)
  PROVE  Contention'
<1>1. PICK f : f = [Rest EXCEPT !.op = "tryLock", !.want = r,
                                !.node = calls + 1, !.height = height]
  OBVIOUS
<1>2. calls + 1 \in NewNodes
  BY SongAssumption DEF IInv, TypeOK, TryLock, NewNodes
<1>3. f \in Frames /\ f.want = r /\ "lock" \in Labels /\ "lock" # "unlock"
  BY <1>1, <1>2, RestOK, RequestFacts DEF Rest, Frames, Labels
<1>4. Go(t, "lock", f) /\ range' = range /\ Locked' = Locked
  BY <1>1, TryLockInv DEF TryLock, listVars
<1>5. /\ \A u \in Threads : u # t => contended'[u] = contended[u]
      /\ contended'[t] = \E n \in Locked : ClosedOverlap(range[n], r)
  BY DEF TryLock, IInv, TypeOK
<1> QED BY <1>3, <1>4, <1>5, ContentionSame

(***************************************************************************)
(* FindNodes refuses a range only if a node of the list overlaps it: the   *)
(* node behind the gap is not the tail, whose range no request reaches.    *)
(***************************************************************************)
LEMMA ContentionFindNodes ==
  ASSUME InsideLimits, IInv, Contention, NEW t \in Threads, FindNodes(t)
  PROVE  Contention'
<1>1. PICK p \in [Levels -> SkipListNode], label \in {"insert", "unlock"} :
        /\ Preds(forward, level, Locked, Before(range, frame[t].want), p)
        /\ Go(t, label, [frame[t] EXCEPT !.nodes = p])
        /\ label = "unlock" =>
             ~(frame[t].want.end < range[forward[p[0]][0]].start)
  BY FindNodesFacts
<1>2. PICK g, f : g = frame[t] /\ f = [g EXCEPT !.nodes = p]
  OBVIOUS
<1>3. /\ g \in Frames /\ pc[t] = "find" /\ label \in Labels
      /\ Control("find", g, calls)
  BY <1>2 DEF IInv, TypeOK, ThreadsOK, FindNodes, Labels
<1>4. /\ f \in Frames /\ f.want = g.want /\ g.op = "tryLock"
      /\ g.want \in Requests
  BY <1>2, <1>3 DEF Frames, Control
<1>5. range' = range /\ Locked' = Locked /\ contended' = contended
  BY FindNodesInv DEF FindNodes, listVars
<1>6. ~contended[t] => \A n \in Locked : ~ClosedOverlap(range[n], g.want)
  BY <1>2, <1>3, <1>4 DEF Contention, Asks
<1>7. ASSUME label = "unlock" PROVE contended[t]
  <2>1. PICK b : b = forward[p[0]][0]
    OBVIOUS
  <2>2. /\ Lists(forward, range, level) /\ Shape(forward, range, level, Locked)
        /\ 0 \in Levels
    BY SongAssumption DEF IInv, TypeOK, Levels
  <2>3. b \in SkipListNode /\ b # head /\ b \in At(level, Locked, 0)
        /\ b \notin Before(range, g.want)
    BY <1>1, <1>2, <2>1, <2>2, PredNext
  <2>4. /\ g.want.start \in Nat /\ g.want.end \in Nat /\ MAX_VALUE \in Nat
        /\ g.want.end < MAX_VALUE
    BY <1>4, RequestFacts DEF InsideLimits
  <2>5. range[b].start \in Nat /\ range[b].end \in Nat
        /\ range[tail].start = MAX_VALUE
    <3>1. range[tail].start = MAX_VALUE
      BY <2>2 DEF Lists
    <3> QED BY <2>2, <2>3, <3>1, Places
  <2>6. ~(g.want.end < range[b].start)
    BY <1>1, <1>2, <1>7, <2>1
  <2>7. b \in Locked
    BY <2>3, <2>4, <2>5, <2>6 DEF At
  <2>8. ClosedOverlap(range[b], g.want)
    BY <2>3, <2>4, <2>5, <2>6 DEF ClosedOverlap, Before
  <2>9. contended[t] \in BOOLEAN
    BY DEF IInv, TypeOK
  <2> QED BY <1>6, <2>7, <2>8, <2>9
<1>8. Go(t, label, f)
  BY <1>1, <1>2
<1> QED BY <1>3, <1>4, <1>5, <1>6, <1>7, <1>8, ContentionSame

(***************************************************************************)
(* A new node makes every pending call that it overlaps meet contention.   *)
(***************************************************************************)
LEMMA ContentionInsert ==
  ASSUME IInv, Contention, NEW t \in Threads, InsertRange(t)
  PROVE  Contention'
<1>1. PICK f, k : f = frame[t] /\ k = f.node
  OBVIOUS
<1>2. /\ f \in Frames /\ k \in NewNodes /\ k \notin Locked
      /\ range' = [range EXCEPT ![k] = f.want]
  BY <1>1, InsertRangeFacts
<1>3. Go(t, "count", f) /\ Locked' = Locked \cup {k}
  BY <1>1, InsertRangeInv DEF InsertRange
<1>4. /\ pc'[t] = "count"
      /\ \A u \in Threads : u # t => pc'[u] = pc[u] /\ frame'[u] = frame[u]
  <2>1. "count" \in Labels
    BY DEF Labels
  <2> QED BY <1>2, <1>3, <2>1, GoFacts DEF IInv
<1>5. range'[k] = f.want /\ \A n \in Locked : range'[n] = range[n]
  <2>1. k \in SkipListNode /\ Locked \subseteq SkipListNode
        /\ range \in [SkipListNode -> RangesOver(0 .. MAX_VALUE)]
    BY <1>2 DEF IInv, TypeOK, Lists, Shape, Apart, SkipListNode
  <2> QED BY <1>2, <2>1
<1>6. ASSUME NEW u \in Threads, Asks(pc'[u], frame'[u]), ~contended'[u]
      PROVE  /\ pc'[u] # "unlock"
             /\ \A n \in Locked' : ~ClosedOverlap(range'[n], frame'[u].want)
  <2>1. u # t
    BY <1>4, <1>6 DEF Asks
  <2>2. Asks(pc[u], frame[u]) /\ frame[u].op = "tryLock"
    BY <1>4, <1>6, <2>1 DEF Asks
  <2>3. ~contended[u] /\ ~ClosedOverlap(f.want, frame[u].want)
    BY <1>1, <1>6, <2>1, <2>2 DEF InsertRange
  <2>4. /\ pc[u] # "unlock"
        /\ \A n \in Locked : ~ClosedOverlap(range[n], frame[u].want)
    BY <2>2, <2>3 DEF Contention
  <2> QED BY <1>3, <1>4, <1>5, <2>1, <2>3, <2>4
<1> QED BY <1>6 DEF Contention

(***************************************************************************)
(* Every step keeps Contention.                                            *)
(***************************************************************************)
LEMMA ContentionNext ==
  ASSUME ProperUse, InsideLimits, IInv, Contention, [Next]_vars
  PROVE  Contention'
<1>1. CASE UNCHANGED vars
  <2>1. Locked' = Locked
    BY <1>1 DEF vars, Locked, Chain, Row
  <2> QED BY <1>1, <2>1 DEF vars, Contention
<1>2. CASE Next
  <2>1. PICK t \in Threads :
          \/ \E r \in Requests, height \in Levels : TryLock(t, r, height)
          \/ \E r \in Requests : ReleaseLock(t, r)
          \/ Step(t)
    BY <1>2 DEF Next
  <2>2. /\ frame[t] \in Frames /\ Control(pc[t], frame[t], calls)
        /\ contended \in [Threads -> BOOLEAN]
    BY DEF IInv, TypeOK, ThreadsOK
  <2>3. {"idle", "lock", "find", "remove", "unlock", "uncount"} \subseteq Labels
    BY DEF Labels
  <2>4. ASSUME NEW r \in Requests, ReleaseLock(t, r) PROVE Contention'
    <3>1. PICK f : f = [Rest EXCEPT !.op = "releaseLock", !.want = r]
      OBVIOUS
    <3>2. f \in Frames /\ f.op # "tryLock"
      BY <3>1, RestOK, RequestFacts DEF Rest, Frames
    <3>3. Go(t, "lock", f) /\ range' = range /\ contended' = contended
          /\ Locked' = Locked
      BY <2>4, <3>1, ReleaseLockInv DEF ReleaseLock, listVars
    <3> QED BY <2>3, <3>2, <3>3, ContentionQuiet
  <2>5. ASSUME Lock(t) PROVE Contention'
    <3>1. PICK label \in {"find", "remove"} : Go(t, label, frame[t])
      BY <2>5 DEF Lock
    <3>2. /\ range' = range /\ contended' = contended /\ Locked' = Locked
          /\ pc[t] = "lock"
      BY <2>5, LockInv DEF Lock, listVars
    <3>3. Asks(label, frame[t]) /\ ~contended[t] =>
            \A n \in Locked : ~ClosedOverlap(range[n], frame[t].want)
      BY <3>2 DEF Contention, Asks
    <3> QED BY <2>2, <2>3, <3>1, <3>2, <3>3, ContentionSame
  <2>6. ASSUME CountUp(t) PROVE Contention'
    <3>1. PICK f : f = [frame[t] EXCEPT !.op = "granted"]
      OBVIOUS
    <3>2. f \in Frames /\ f.op # "tryLock"
      BY <2>2, <3>1 DEF Frames
    <3>3. Go(t, "unlock", f) /\ range' = range /\ contended' = contended
          /\ Locked' = Locked
      BY <2>6, <3>1, CountUpInv DEF CountUp, listVars
    <3> QED BY <2>3, <3>2, <3>3, ContentionQuiet
  <2>7. ASSUME Remove(t) PROVE Contention'
    <3>1. PICK f : f = [frame[t] EXCEPT !.op = "released"]
      OBVIOUS
    <3>2. f \in Frames /\ f.op # "tryLock"
      BY <2>2, <3>1 DEF Frames
    <3>3. Go(t, "uncount", f)
      BY <2>7, <3>1, RemoveFacts
    <3>4. range' = range /\ contended' = contended /\ Locked' \subseteq Locked
      <4>1. Locked' \subseteq Locked
        BY <2>7, RemoveInv
      <4> QED BY <2>7, <4>1 DEF Remove
    <3> QED BY <2>3, <3>2, <3>3, <3>4, ContentionQuiet
  <2>8. ASSUME CountDown(t) PROVE Contention'
    <3>1. frame[t].op # "tryLock"
      BY <2>2, <2>8 DEF CountDown, Control
    <3>2. Go(t, "unlock", frame[t]) /\ range' = range /\ contended' = contended
          /\ Locked' = Locked
      BY <2>8, CountDownInv DEF CountDown, listVars
    <3> QED BY <2>2, <2>3, <3>1, <3>2, ContentionQuiet
  <2>9. ASSUME Unlock(t) PROVE Contention'
    <3>1. Rest \in Frames /\ Rest.op # "tryLock"
      BY RestOK
    <3>2. Go(t, "idle", Rest) /\ range' = range /\ Locked' = Locked
          /\ \A u \in Threads : u # t => contended'[u] = contended[u]
      BY <2>2, <2>9, UnlockInv DEF Unlock, listVars
    <3> QED BY <2>3, <3>1, <3>2, ContentionQuiet
  <2> QED BY <2>1, <2>4, <2>5, <2>6, <2>7, <2>8, <2>9, ContentionTryLock,
             ContentionFindNodes, ContentionInsert DEF Step
<1> QED BY <1>1, <1>2

(***************************************************************************)
(* Contention: a pending call of tryLock that has not met contention can   *)
(* be granted, and none is refused without having met it.                  *)
(***************************************************************************)
THEOREM ContentionInvariant ==
  ASSUME ProperUse, InsideLimits
  PROVE  Spec => []Contention
<1>1. Init => Contention
  <2> SUFFICES ASSUME Init, NEW t \in Threads PROVE ~Asks(pc[t], frame[t])
    BY DEF Contention
  <2> QED BY RestOK DEF Init, Asks
<1>2. IInv /\ Contention /\ [Next]_vars => Contention'
  BY ContentionNext
<1> QED BY <1>1, <1>2, Invariance, PTL DEF Spec

-----------------------------------------------------------------------------
(***************************************************************************)
(* Refinement.  The call of a thread in the abstract range lock, by where  *)
(* the thread is.                                                          *)
(***************************************************************************)
Held == {range[n] : n \in Locked}
Owned == {range[n] : n \in owned}
Calls == [t \in Threads |-> CallOf(t)]

(***************************************************************************)
(* The call of t changes, and no other.                                    *)
(***************************************************************************)
LEMMA CallsUpdate ==
  ASSUME NEW t \in Threads, NEW v, CallOf(t)' = v,
         \A u \in Threads : u # t => CallOf(u)' = CallOf(u)
  PROVE  Calls' = [Calls EXCEPT ![t] = v] /\ Calls[t] = CallOf(t)
BY DEF Calls

(***************************************************************************)
(* Before a step ...                                                       *)
(***************************************************************************)
LEMMA CallIs ==
  ASSUME NEW t \in Threads
  PROVE  /\ frame[t].op = "none" /\ pc[t] # "count" =>
              CallOf(t) = [op |-> "idle"]
         /\ Asks(pc[t], frame[t]) =>
              CallOf(t) = [op |-> "tryLock", range |-> frame[t].want,
                           contended |-> contended[t]]
         /\ Got(pc[t], frame[t]) /\ frame[t].op # "none" =>
              CallOf(t) = [op |-> "granted", range |-> frame[t].want]
         /\ frame[t].op \in {"releaseLock", "released"} /\ pc[t] # "count" =>
              CallOf(t) = [op |-> frame[t].op, range |-> frame[t].want]
<1>1. CASE frame[t].op = "none"
  BY <1>1 DEF CallOf, Asks, Got
<1>2. CASE frame[t].op # "none" /\ Asks(pc[t], frame[t])
  BY <1>2 DEF CallOf, Asks, Got
<1>3. CASE frame[t].op # "none" /\ Got(pc[t], frame[t])
  BY <1>3 DEF CallOf, Asks, Got
<1>4. CASE frame[t].op # "none" /\ ~Got(pc[t], frame[t])
           /\ ~Asks(pc[t], frame[t])
  BY <1>4 DEF CallOf, Asks, Got
<1> QED BY <1>1, <1>2, <1>3, <1>4

(***************************************************************************)
(* ... and after it.                                                       *)
(***************************************************************************)
LEMMA CallIsNext ==
  ASSUME NEW t \in Threads
  PROVE  /\ frame'[t].op = "none" /\ pc'[t] # "count" =>
              CallOf(t)' = [op |-> "idle"]
         /\ Asks(pc'[t], frame'[t]) =>
              CallOf(t)' = [op |-> "tryLock", range |-> frame'[t].want,
                            contended |-> contended'[t]]
         /\ Got(pc'[t], frame'[t]) /\ frame'[t].op # "none" =>
              CallOf(t)' = [op |-> "granted", range |-> frame'[t].want]
         /\ frame'[t].op \in {"releaseLock", "released"} /\ pc'[t] # "count" =>
              CallOf(t)' = [op |-> frame'[t].op, range |-> frame'[t].want]
<1>1. CASE frame'[t].op = "none"
  BY <1>1 DEF CallOf, Asks, Got
<1>2. CASE frame'[t].op # "none" /\ Asks(pc'[t], frame'[t])
  BY <1>2 DEF CallOf, Asks, Got
<1>3. CASE frame'[t].op # "none" /\ Got(pc'[t], frame'[t])
  BY <1>3 DEF CallOf, Asks, Got
<1>4. CASE frame'[t].op # "none" /\ ~Got(pc'[t], frame'[t])
           /\ ~Asks(pc'[t], frame'[t])
  BY <1>4 DEF CallOf, Asks, Got
<1> QED BY <1>1, <1>2, <1>3, <1>4

(***************************************************************************)
(* A step of t leaves the calls of the others as they are, unless it makes *)
(* them meet contention.                                                   *)
(***************************************************************************)
LEMMA OtherCalls ==
  ASSUME IInv, NEW t \in Threads, NEW label, NEW f, Go(t, label, f),
         \A u \in Threads : u # t => contended'[u] = contended[u]
  PROVE  /\ pc'[t] = label /\ frame'[t] = f
         /\ \A u \in Threads : u # t => CallOf(u)' = CallOf(u)
<1>1. /\ pc'[t] = label /\ frame'[t] = f
      /\ \A u \in Threads : u # t => pc'[u] = pc[u] /\ frame'[u] = frame[u]
  BY DEF Go, IInv, TypeOK
<1> QED BY <1>1 DEF CallOf

(***************************************************************************)
(* The abstract step of each step of the list.                             *)
(***************************************************************************)
Stutters ==
  /\ Held' = Held /\ Owned' = Owned
  /\ \A u \in Threads : CallOf(u)' = CallOf(u)

(***************************************************************************)
(* Such a step changes nothing of the abstract range lock.                 *)
(***************************************************************************)
LEMMA StuttersAbstract ==
  ASSUME Stutters
  PROVE  UNCHANGED Abstract!lockVars
BY DEF Stutters, Held, Owned, Abstract!lockVars

(***************************************************************************)
(* A call of tryLock begins, and finds the contention there is.            *)
(***************************************************************************)
LEMMA TryLockRefines ==
  ASSUME IInv, NEW t \in Threads, NEW r \in Requests, NEW height \in Levels,
         TryLock(t, r, height)
  PROVE  Abstract!TryLock(t, r)
<1>1. PICK f : f = [Rest EXCEPT !.op = "tryLock", !.want = r,
                                !.node = calls + 1, !.height = height]
  OBVIOUS
<1>2. f.op = "tryLock" /\ f.want = r
  BY <1>1 DEF Rest
<1>3. /\ \A u \in Threads : u # t => contended'[u] = contended[u]
      /\ contended'[t] = \E n \in Locked : ClosedOverlap(range[n], r)
  BY DEF TryLock, IInv, TypeOK
<1>4. /\ pc'[t] = "lock" /\ frame'[t] = f
      /\ \A u \in Threads : u # t => CallOf(u)' = CallOf(u)
  <2>1. Go(t, "lock", f)
    BY <1>1 DEF TryLock
  <2> QED BY <1>3, <2>1, OtherCalls
<1>5. CallOf(t) = [op |-> "idle"]
  <2>1. pc[t] = "idle" /\ frame[t] = Rest
    BY DEF TryLock, IInv, ThreadsOK, Control
  <2> QED BY <2>1, RestOK, CallIs
<1>6. CallOf(t)' = [op |-> "tryLock", range |-> r,
                    contended |-> \E h \in Held : ClosedOverlap(h, r)]
  <2>1. contended'[t] = \E h \in Held : ClosedOverlap(h, r)
    BY <1>3 DEF Held
  <2>2. Asks(pc'[t], frame'[t])
    BY <1>2, <1>4 DEF Asks
  <2> QED BY <1>2, <1>4, <2>1, <2>2, CallIsNext
<1>7. Held' = Held /\ Owned' = Owned
  BY TryLockInv DEF TryLock, listVars, Held, Owned
<1>8. /\ Calls' = [Calls EXCEPT ![t] =
                     [op |-> "tryLock", range |-> r,
                      contended |-> \E h \in Held : ClosedOverlap(h, r)]]
      /\ Calls[t] = [op |-> "idle"]
  BY <1>4, <1>5, <1>6, CallsUpdate
<1> QED BY <1>7, <1>8
        DEF Abstract!TryLock, Abstract!Idle, Held, Owned, Calls

(***************************************************************************)
(* A call of releaseLock begins, for a range that is owned.                *)
(***************************************************************************)
LEMMA ReleaseLockRefines ==
  ASSUME ProperUse, IInv, NEW t \in Threads, NEW r \in Requests,
         ReleaseLock(t, r)
  PROVE  Abstract!ReleaseLock(t, r)
<1>1. PICK f : f = [Rest EXCEPT !.op = "releaseLock", !.want = r]
  OBVIOUS
<1>2. f.op = "releaseLock" /\ f.want = r
  BY <1>1 DEF Rest
<1>3. /\ pc'[t] = "lock" /\ frame'[t] = f
      /\ \A u \in Threads : u # t => CallOf(u)' = CallOf(u)
  BY <1>1, OtherCalls DEF ReleaseLock
<1>4. CallOf(t) = [op |-> "idle"]
  <2>1. pc[t] = "idle" /\ frame[t] = Rest
    BY DEF ReleaseLock, IInv, ThreadsOK, Control
  <2> QED BY <2>1, RestOK, CallIs
<1>5. CallOf(t)' = [op |-> "releaseLock", range |-> r]
  BY <1>2, <1>3, CallIsNext
<1>6. Held' = Held /\ r \in Owned /\ Owned' = Owned \ {r}
  BY ReleaseLockInv DEF ReleaseLock, listVars, Held, Owned, ProperUse
<1>7. /\ Calls' = [Calls EXCEPT ![t] = [op |-> "releaseLock", range |-> r]]
      /\ Calls[t] = [op |-> "idle"]
  BY <1>3, <1>4, <1>5, CallsUpdate
<1> QED BY <1>6, <1>7
        DEF Abstract!ReleaseLock, Abstract!Idle, Held, Owned, Calls

(***************************************************************************)
(* Taking the mutex is not seen by the clients.                            *)
(***************************************************************************)
LEMMA LockStutters ==
  ASSUME IInv, NEW t \in Threads, Lock(t)
  PROVE  Stutters
<1>1. PICK label \in {"find", "remove"} : Go(t, label, frame[t])
  BY DEF Lock
<1>2. /\ contended' = contended /\ Held' = Held /\ Owned' = Owned
      /\ pc[t] = "lock"
  BY LockInv DEF Lock, listVars, Held, Owned
<1>3. /\ pc'[t] = label /\ frame'[t] = frame[t]
      /\ \A u \in Threads : u # t => CallOf(u)' = CallOf(u)
  BY <1>1, <1>2, OtherCalls
<1>4. CallOf(t)' = CallOf(t)
  BY <1>2, <1>3 DEF CallOf
<1> QED BY <1>2, <1>3, <1>4 DEF Stutters

(***************************************************************************)
(* Nor is the search.                                                      *)
(***************************************************************************)
LEMMA FindNodesStutters ==
  ASSUME IInv, NEW t \in Threads, FindNodes(t)
  PROVE  Stutters
<1>1. PICK nodes \in [Levels -> SkipListNode], label \in {"insert", "unlock"} :
        Go(t, label, [frame[t] EXCEPT !.nodes = nodes])
  BY FindNodesFacts
<1>2. PICK f : f = [frame[t] EXCEPT !.nodes = nodes]
  OBVIOUS
<1>3. /\ contended' = contended /\ Held' = Held /\ Owned' = Owned
      /\ pc[t] = "find" /\ frame[t] \in Frames
  BY FindNodesInv DEF FindNodes, listVars, Held, Owned, IInv, TypeOK
<1>4. /\ pc'[t] = label /\ frame'[t] = f
      /\ \A u \in Threads : u # t => CallOf(u)' = CallOf(u)
  BY <1>1, <1>2, <1>3, OtherCalls
<1>5. f.op = frame[t].op /\ f.want = frame[t].want
  BY <1>2, <1>3 DEF Frames
<1>6. CallOf(t)' = CallOf(t)
  BY <1>3, <1>4, <1>5 DEF CallOf
<1> QED BY <1>3, <1>4, <1>6 DEF Stutters

(***************************************************************************)
(* Nor is counting: the range was granted when it was linked.              *)
(***************************************************************************)
LEMMA CountUpStutters ==
  ASSUME IInv, NEW t \in Threads, CountUp(t)
  PROVE  Stutters
<1>1. PICK f : f = [frame[t] EXCEPT !.op = "granted"]
  OBVIOUS
<1>2. /\ contended' = contended /\ Held' = Held /\ Owned' = Owned
      /\ pc[t] = "count" /\ frame[t] \in Frames
      /\ Control("count", frame[t], calls) /\ Go(t, "unlock", f)
  BY <1>1, CountUpInv
     DEF CountUp, listVars, Held, Owned, IInv, TypeOK, ThreadsOK
<1>3. /\ pc'[t] = "unlock" /\ frame'[t] = f
      /\ \A u \in Threads : u # t => CallOf(u)' = CallOf(u)
  BY <1>2, OtherCalls
<1>4. f.op = "granted" /\ f.want = frame[t].want /\ frame[t].op = "tryLock"
  BY <1>1, <1>2 DEF Frames, Control
<1>5. CallOf(t) = [op |-> "granted", range |-> frame[t].want]
  BY <1>2, <1>4, CallIs DEF Got
<1>6. CallOf(t)' = [op |-> "granted", range |-> frame[t].want]
  BY <1>3, <1>4, CallIsNext DEF Got
<1> QED BY <1>2, <1>3, <1>5, <1>6 DEF Stutters

(***************************************************************************)
(* The range was freed when it was cut out.                                *)
(***************************************************************************)
LEMMA CountDownStutters ==
  ASSUME IInv, NEW t \in Threads, CountDown(t)
  PROVE  Stutters
<1>1. /\ contended' = contended /\ Held' = Held /\ Owned' = Owned
      /\ pc[t] = "uncount" /\ Go(t, "unlock", frame[t])
  BY CountDownInv DEF CountDown, listVars, Held, Owned
<1>2. /\ pc'[t] = "unlock" /\ frame'[t] = frame[t]
      /\ \A u \in Threads : u # t => CallOf(u)' = CallOf(u)
  BY <1>1, OtherCalls
<1>3. CallOf(t)' = CallOf(t)
  BY <1>1, <1>2 DEF CallOf
<1> QED BY <1>1, <1>2, <1>3 DEF Stutters

(***************************************************************************)
(* Linking the node grants the range: no locked range overlaps it.         *)
(***************************************************************************)
LEMMA InsertRangeGrants ==
  ASSUME IInv, NEW t \in Threads, InsertRange(t)
  PROVE  Abstract!Grant(t)
<1>1. PICK f, k : f = frame[t] /\ k = f.node
  OBVIOUS
<1>2. /\ pc[t] = "insert" /\ spinlock_ = t /\ f \in Frames
      /\ f.op = "tryLock" /\ f.want \in Requests
      /\ k \in NewNodes /\ k \notin Locked
      /\ Gap(forward, range, level, Locked, f.want, f.nodes)
      /\ range' = [range EXCEPT ![k] = f.want]
  BY <1>1, InsertRangeFacts
<1>3. Go(t, "count", f) /\ Locked' = Locked \cup {k} /\ owned' = owned
  BY <1>1, InsertRangeInv DEF InsertRange
<1>4. /\ Lists(forward, range, level) /\ Shape(forward, range, level, Locked)
      /\ owned \subseteq Locked /\ Locked \subseteq NewNodes
  BY DEF IInv, TypeOK, Shape, Apart
<1>5. range'[k] = f.want /\ \A n \in Locked : range'[n] = range[n]
  <2>1. k \in SkipListNode /\ Locked \subseteq SkipListNode
        /\ range \in [SkipListNode -> RangesOver(0 .. MAX_VALUE)]
    BY <1>2, <1>4 DEF Lists, SkipListNode
  <2> QED BY <1>2, <2>1
<1>6. Held' = Held \cup {f.want} /\ Owned' = Owned
  BY <1>3, <1>4, <1>5 DEF Held, Owned
<1>7. \A h \in Held : ~ClosedOverlap(h, f.want)
  <2>1. ASSUME NEW n \in Locked PROVE ~ClosedOverlap(range[n], f.want)
    <3>1. /\ f.want \in RangesOver(0 .. MAX_VALUE)
          /\ f.want.start \in Nat /\ f.want.end \in Nat
      BY <1>2, RequestFacts
    <3>2. range[n].end < f.want.start \/ f.want.end < range[n].start
      BY <1>2, <1>4, <3>1, GapIsFree
    <3>3. range[n].start \in Nat /\ range[n].end \in Nat
      BY <1>4, Places DEF SkipListNode
    <3> QED BY <3>1, <3>2, <3>3 DEF ClosedOverlap
  <2> QED BY <2>1 DEF Held
<1>8. CallOf(t) = [op |-> "tryLock", range |-> f.want,
                   contended |-> contended[t]]
  BY <1>1, <1>2, CallIs DEF Asks
<1>9. /\ pc'[t] = "count" /\ frame'[t] = f
      /\ \A u \in Threads : u # t => pc'[u] = pc[u] /\ frame'[u] = frame[u]
  BY <1>3 DEF Go, IInv, TypeOK
<1>10. CallOf(t)' = [op |-> "granted", range |-> f.want]
  BY <1>2, <1>9, CallIsNext DEF Got
<1>11. ASSUME NEW u \in Threads, u # t
       PROVE  CallOf(u)' = IF CallOf(u).op = "tryLock"
                           THEN [CallOf(u) EXCEPT !.contended =
                                   @ \/ ClosedOverlap(f.want, CallOf(u).range)]
                           ELSE CallOf(u)
  <2>1. /\ pc[u] \in {"idle", "lock"} /\ Control(pc[u], frame[u], calls)
        /\ pc'[u] = pc[u] /\ frame'[u] = frame[u]
    BY <1>2, <1>9, <1>11, OthersOutside DEF IInv, ThreadsOK
  <2>2. frame[u].op \in {"none", "tryLock", "releaseLock"}
    BY <2>1, RestOK DEF Control
  <2>3. CASE frame[u].op = "tryLock"
    <3>1. contended'[u]
            = (contended[u] \/ ClosedOverlap(f.want, frame[u].want))
      BY <1>1, <1>11, <2>3 DEF InsertRange
    <3>2. CallOf(u) = [op |-> "tryLock", range |-> frame[u].want,
                       contended |-> contended[u]]
      BY <2>1, <2>3, CallIs DEF Asks
    <3>3. CallOf(u)' = [op |-> "tryLock", range |-> frame[u].want,
                        contended |-> contended'[u]]
      BY <2>1, <2>3, CallIsNext DEF Asks
    <3> QED BY <3>1, <3>2, <3>3
  <2>4. CASE frame[u].op \in {"none", "releaseLock"}
    <3>1. /\ CallOf(u)' = CallOf(u) /\ CallOf(u).op # "tryLock"
      <4>1. CASE frame[u].op = "none"
        BY <2>1, <4>1, CallIs, CallIsNext
      <4>2. CASE frame[u].op = "releaseLock"
        BY <2>1, <4>2, CallIs, CallIsNext
      <4> QED BY <2>4, <4>1, <4>2
    <3> QED BY <3>1
  <2> QED BY <2>2, <2>3, <2>4
<1>12. /\ Calls[t].op = "tryLock" /\ Calls[t].range = f.want
       /\ \A u \in Threads : Calls[u] = CallOf(u)
  BY <1>8 DEF Calls
<1>13. Calls' = [u \in Threads |->
                   IF u = t THEN [op |-> "granted", range |-> f.want]
                   ELSE IF Calls[u].op = "tryLock"
                        THEN [Calls[u] EXCEPT !.contended =
                                @ \/ ClosedOverlap(f.want, Calls[u].range)]
                        ELSE Calls[u]]
  <2>1. ASSUME NEW u \in Threads
        PROVE  CallOf(u)' =
                 IF u = t THEN [op |-> "granted", range |-> f.want]
                 ELSE IF Calls[u].op = "tryLock"
                      THEN [Calls[u] EXCEPT !.contended =
                              @ \/ ClosedOverlap(f.want, Calls[u].range)]
                      ELSE Calls[u]
    BY <1>10, <1>11, <1>12
  <2>2. Calls' = [u \in Threads |-> CallOf(u)']
    BY DEF Calls
  <2> QED BY <2>1, <2>2
<1> QED BY <1>6, <1>7, <1>12, <1>13 DEF Abstract!Grant, Held, Owned, Calls

(***************************************************************************)
(* Cutting the node out frees the range, and no other.                     *)
(***************************************************************************)
LEMMA RemoveFrees ==
  ASSUME IInv, NEW t \in Threads, Remove(t)
  PROVE  Abstract!Free(t)
<1>1. PICK f : f = [frame[t] EXCEPT !.op = "released"]
  OBVIOUS
<1>2. /\ pc[t] = "remove" /\ frame[t] \in Frames
      /\ Control("remove", frame[t], calls) /\ Go(t, "uncount", f)
      /\ \A m, n \in Locked : range[m] = frame[t].want
                              /\ range[n] = frame[t].want => m = n
  BY <1>1, RemoveFacts
<1>3. PICK k \in Locked : range[k] = frame[t].want /\ Locked' = Locked \ {k}
  BY RemoveInv
<1>4. range' = range /\ contended' = contended /\ owned' = owned
  BY DEF Remove
<1>5. Held' = Held \ {frame[t].want} /\ Owned' = Owned
  BY <1>2, <1>3, <1>4 DEF Held, Owned
<1>6. /\ pc'[t] = "uncount" /\ frame'[t] = f
      /\ \A u \in Threads : u # t => CallOf(u)' = CallOf(u)
  BY <1>2, <1>4, OtherCalls
<1>7. f.op = "released" /\ f.want = frame[t].want
      /\ frame[t].op = "releaseLock"
  BY <1>1, <1>2 DEF Frames, Control
<1>8. CallOf(t) = [op |-> "releaseLock", range |-> frame[t].want]
  BY <1>2, <1>7, CallIs
<1>9. CallOf(t)' = [op |-> "released", range |-> frame[t].want]
  BY <1>6, <1>7, CallIsNext
<1>10. /\ Calls' = [Calls EXCEPT ![t] = [op |-> "released",
                                          range |-> frame[t].want]]
       /\ Calls[t].op = "releaseLock" /\ Calls[t].range = frame[t].want
  BY <1>6, <1>8, <1>9, CallsUpdate
<1> QED BY <1>5, <1>10 DEF Abstract!Free, Held, Owned, Calls

(***************************************************************************)
(* The call returns.                                                       *)
(***************************************************************************)
LEMMA UnlockReturns ==
  ASSUME IInv, Contention, NEW t \in Threads, Unlock(t)
  PROVE  Abstract!Acquired(t) \/ Abstract!Refuse(t) \/ Abstract!Released(t)
<1>1. PICK f : f = frame[t]
  OBVIOUS
<1>2. /\ pc[t] = "unlock" /\ Control("unlock", f, calls)
      /\ Knows("unlock", f, forward, range, level, Locked)
      /\ contended[t] \in BOOLEAN
  BY <1>1 DEF Unlock, IInv, TypeOK, ThreadsOK
<1>3. /\ Go(t, "idle", Rest) /\ range' = range /\ Locked' = Locked
      /\ owned' = IF f.op = "granted" THEN owned \cup {f.node} ELSE owned
      /\ \A u \in Threads : u # t => contended'[u] = contended[u]
  BY <1>1, UnlockInv DEF Unlock, listVars, IInv, TypeOK
<1>4. /\ pc'[t] = "idle" /\ frame'[t] = Rest
      /\ \A u \in Threads : u # t => CallOf(u)' = CallOf(u)
  BY <1>3, OtherCalls
<1>5. CallOf(t)' = [op |-> "idle"]
  BY <1>4, RestOK, CallIsNext
<1>6. /\ Held' = Held /\ Calls[t] = CallOf(t)
      /\ Calls' = [Calls EXCEPT ![t] = [op |-> "idle"]]
  BY <1>3, <1>4, <1>5, CallsUpdate DEF Held
<1>7. CASE f.op = "granted"
  <2>1. f.node \in Locked /\ range[f.node] = f.want
    BY <1>2, <1>7 DEF Knows, Got
  <2>2. Owned' = Owned \cup {f.want}
    BY <1>3, <1>7, <2>1 DEF Owned
  <2>3. CallOf(t) = [op |-> "granted", range |-> f.want]
    BY <1>1, <1>7, CallIs DEF Got
  <2>4. Abstract!Acquired(t)
    <3>1. Calls[t].op = "granted" /\ Calls[t].range = f.want
      BY <1>6, <2>3
    <3> QED BY <1>6, <2>2, <3>1
            DEF Abstract!Acquired, Abstract!Idle, Held, Owned, Calls
  <2> QED BY <2>4
<1>8. CASE f.op = "tryLock"
  <2>1. Owned' = Owned
    BY <1>3, <1>8 DEF Owned
  <2>2. CallOf(t) = [op |-> "tryLock", range |-> f.want,
                     contended |-> contended[t]]
    BY <1>1, <1>2, <1>8, CallIs DEF Asks
  <2>3. contended[t] = TRUE
    BY <1>1, <1>2, <1>8 DEF Contention, Asks
  <2>4. Abstract!Refuse(t)
    <3>1. Calls[t].op = "tryLock" /\ Calls[t].contended
      BY <1>6, <2>2, <2>3
    <3> QED BY <1>6, <2>1, <3>1
            DEF Abstract!Refuse, Abstract!Idle, Held, Owned, Calls
  <2> QED BY <2>4
<1>9. CASE f.op = "released"
  <2>1. Owned' = Owned
    BY <1>3, <1>9 DEF Owned
  <2>2. CallOf(t) = [op |-> "released", range |-> f.want]
    BY <1>1, <1>2, <1>9, CallIs
  <2>3. Abstract!Released(t)
    <3>1. Calls[t].op = "released"
      BY <1>6, <2>2
    <3> QED BY <1>6, <2>1, <3>1
            DEF Abstract!Released, Abstract!Idle, Held, Owned, Calls
  <2> QED BY <2>3
<1> QED BY <1>2, <1>7, <1>8, <1>9 DEF Control

(***************************************************************************)
(* ImplementsRangeLock: with clients that release only what they own and   *)
(* ask for no range at the highest key, the list of src/src/v3 implements  *)
(* the range lock.                                                         *)
(***************************************************************************)
THEOREM Refinement ==
  ASSUME ProperUse, InsideLimits
  PROVE  Spec => ImplementsRangeLock
<1>1. Init => Abstract!Init
  <2> SUFFICES ASSUME Init PROVE Abstract!Init
    OBVIOUS
  <2>1. \A t \in Threads : CallOf(t) = [op |-> "idle"]
    <3>1. \A t \in Threads : pc[t] = "idle" /\ frame[t] = Rest
      BY DEF Init
    <3> QED BY <3>1, RestOK, CallIs
  <2>2. Locked = {} /\ owned = {}
    BY InitEmpty DEF Init
  <2> QED BY <2>1, <2>2 DEF Abstract!Init, Abstract!Idle
<1>2. IInv /\ Contention /\ [Next]_vars
        => Abstract!Next \/ UNCHANGED Abstract!lockVars
  <2> SUFFICES ASSUME IInv, Contention, [Next]_vars
               PROVE  Abstract!Next \/ UNCHANGED Abstract!lockVars
    OBVIOUS
  <2>1. CASE UNCHANGED vars
    <3>1. Locked' = Locked /\ \A u \in Threads : CallOf(u)' = CallOf(u)
      BY <2>1 DEF vars, Locked, Chain, Row, CallOf
    <3>2. Stutters
      BY <2>1, <3>1 DEF vars, Stutters, Held, Owned
    <3> QED BY <3>2, StuttersAbstract
  <2>2. CASE Next
    <3>1. PICK t \in Threads :
            \/ \E r \in Requests, height \in Levels : TryLock(t, r, height)
            \/ \E r \in Requests : ReleaseLock(t, r)
            \/ Step(t)
      BY <2>2 DEF Next
    <3>2. CASE \E r \in Requests, height \in Levels : TryLock(t, r, height)
      BY <3>2, TryLockRefines DEF Abstract!Next
    <3>3. CASE \E r \in Requests : ReleaseLock(t, r)
      BY <3>3, ReleaseLockRefines DEF Abstract!Next
    <3>4. CASE InsertRange(t)
      BY <3>4, InsertRangeGrants DEF Abstract!Next
    <3>5. CASE Remove(t)
      BY <3>5, RemoveFrees DEF Abstract!Next
    <3>6. CASE Unlock(t)
      BY <3>6, UnlockReturns DEF Abstract!Next
    <3>7. CASE Lock(t) \/ FindNodes(t) \/ CountUp(t) \/ CountDown(t)
      <4>1. Stutters
        BY <3>7, LockStutters, FindNodesStutters, CountUpStutters,
           CountDownStutters
      <4> QED BY <4>1, StuttersAbstract
    <3> QED BY <3>1, <3>2, <3>3, <3>4, <3>5, <3>6, <3>7 DEF Step
  <2> QED BY <2>1, <2>2
<1> QED BY <1>1, <1>2, Invariance, ContentionInvariant, PTL
        DEF Spec, ImplementsRangeLock, Abstract!Spec
=============================================================================

--------------------------- MODULE ConcurrentTree ---------------------------
(***************************************************************************)
(* The locktree of src/src/v4: a binary search tree of disjoint ranges     *)
(* with a mutex in every node.  A thread enters at the root and goes down  *)
(* hand over hand; what it holds, a locked_keyrange, is the mutex of the   *)
(* node above the ranges it asked for.                                     *)
(*                                                                         *)
(* Whatever a thread reads or writes is under a mutex it or nobody holds,  *)
(* so a step is the locking of one mutex, with the work up to the next.    *)
(***************************************************************************)
EXTENDS TreeNode, Naturals, FiniteSets

CONSTANTS
  Threads, Loader,  \* the threads, and the one that fills the tree first
  Requests,         \* the ranges the clients acquire, insert and remove
  AllKeys,          \* -inf, +inf
  Loads,            \* what the tree may be filled with: sequences of ranges
  MaxCalls,         \* bound: calls of prepare once the tree is filled
  MaxOps,           \* bound: calls of insert and remove after that
  MaxNodes          \* bound: nodes beside the root

(***************************************************************************)
(* m_root is part of the tree; node k is the k-th that alloc has made.     *)
(***************************************************************************)
Root == 0
Nodes == 0 .. MaxNodes

ASSUME TreeAssumption ==
  /\ Loader \in Threads /\ Null \notin Threads \cup Nodes
  /\ MaxCalls \in Nat /\ MaxOps \in Nat /\ IMBALANCE_THRESHOLD \in Nat
  /\ \A s \in Loads : Len(s) + MaxOps <= MaxNodes
  /\ \A r \in Requests : r.start <= r.end /\ Overlaps(r, AllKeys)

VARIABLES
  node,         \* the nodes without their mutexes, see TreeNode
  is_empty,     \* m_is_empty of the root
  mutex,        \* the thread that holds the mutex of a node, or Null
  pc, frame,    \* where each thread is, and its local variables
  load,         \* what is still to be loaded before the threads start
  calls, ops,   \* how often prepare, and insert or remove, were called
  fresh,        \* the number of nodes allocated
  contents,     \* history: the ranges inserted and not removed
  order         \* history: the threads that hold a locked_keyrange or are
                \* acquiring one, in the order of their prepare

treeVars == <<node, is_empty, fresh, contents>>
countVars == <<load, calls, ops>>
vars == <<treeVars, mutex, pc, frame, countVars, order>>

Rest == [op |-> "none",         \* which recursion is running
         span |-> AllKeys,      \* the keys the locked_keyrange stands for
         want |-> AllKeys,      \* the range that is looked for
         sub |-> Root,          \* m_subtree
         path |-> <<Root>>,     \* the nodes the recursion has descended to
         child |-> Root,        \* the child that is rebalanced or
         side |-> "left",       \* searched for a replacement, and where
         extreme |-> <<>>]      \* the nodes that search has descended to

(***************************************************************************)
(* The range of the root is not set before the first insertion.            *)
(***************************************************************************)
create ==
  /\ node = [n \in Nodes |-> alloc(AllKeys)]
  /\ is_empty = TRUE

Init ==
  /\ create
  /\ mutex = [n \in Nodes |-> Null]
  /\ pc = [t \in Threads |-> "idle"]
  /\ frame = [t \in Threads |-> Rest]
  /\ load \in Loads
  /\ calls = 0 /\ ops = 0 /\ fresh = 0
  /\ contents = {}
  /\ order = <<>>

Go(t, label, f) ==
  /\ pc' = [pc EXCEPT ![t] = label]
  /\ frame' = [frame EXCEPT ![t] = f]

(***************************************************************************)
(* After the step thread t holds the mutexes of the nodes S and no others. *)
(* It has held all of them before but one that was free.                   *)
(***************************************************************************)
Hold(t, S) ==
  mutex' = [n \in Nodes |-> IF n \in S THEN t
                            ELSE IF mutex[n] = t THEN Null ELSE mutex[n]]

Lock(t, n) == mutex[n] = Null /\ mutex' = [mutex EXCEPT ![n] = t]

Last(s) == s[Len(s)]
Here(t) == Last(frame[t].path)

(***************************************************************************)
(* The locked_keyrange after an operation or a search: at node n, over the *)
(* keys span, with the mutex of n and no other.                            *)
(***************************************************************************)
Settle(t, n, span) ==
  /\ Hold(t, {n})
  /\ Go(t, "held", [Rest EXCEPT !.span = span, !.sub = n, !.path = <<n>>])

-----------------------------------------------------------------------------
(***************************************************************************)
(* locked_keyrange::prepare, acquire and release.                          *)
(***************************************************************************)
prepare(t) ==
  /\ pc[t] = "idle"
  /\ \/ load # <<>> /\ t = Loader /\ UNCHANGED calls
     \/ load = <<>> /\ calls < MaxCalls /\ calls' = calls + 1
  /\ Go(t, "root", Rest)
  /\ UNCHANGED <<treeVars, mutex, load, ops, order>>

LockRoot(t) ==
  /\ pc[t] = "root"
  /\ Lock(t, Root)
  /\ order' = Append(order, t)
  /\ Go(t, "prepared", Rest)
  /\ UNCHANGED <<treeVars, countVars>>

(***************************************************************************)
(* Mutant of acquire: does not look at the root's own range.               *)
(***************************************************************************)
acquireBelow(t, span) ==
  /\ pc[t] = "prepared" /\ load = <<>>
  /\ IF is_empty
     THEN Settle(t, Root, span)
     ELSE /\ Go(t, "down", [Rest EXCEPT !.op = "find", !.span = span,
                                        !.want = span])
          /\ UNCHANGED mutex
  /\ UNCHANGED <<treeVars, countVars, order>>

acquire(t, span) ==
  /\ pc[t] = "prepared" /\ load = <<>>
  /\ IF is_empty \/ Overlaps(node[Root].range, span)
     THEN Settle(t, Root, span)
     ELSE /\ Go(t, "down", [Rest EXCEPT !.op = "find", !.span = span,
                                        !.want = span])
          /\ UNCHANGED mutex
  /\ UNCHANGED <<treeVars, countVars, order>>

release(t) ==
  /\ pc[t] \in {"prepared", "held"}
  /\ Hold(t, {})
  /\ order' = SelectSeq(order, LAMBDA u : u # t)
  /\ Go(t, "idle", Rest)
  /\ UNCHANGED <<treeVars, countVars>>

-----------------------------------------------------------------------------
(***************************************************************************)
(* lock_and_rebalance_left and _right, for find_node_with_overlapping_     *)
(* child and insert.  Once the child c of the node reached is locked and   *)
(* balanced, a search stops above it if it overlaps and otherwise moves    *)
(* down to it; an insertion moves down and keeps what it holds.            *)
(* Mutant: a search that stops does not unlock the child.                  *)
(***************************************************************************)
ArriveLocked(t, nodes, c) ==
  LET f == frame[t]
      n == Here(t)
  IN  /\ node' = set(nodes, n, SideOf(node, n, f.want), c)
      /\ \/ /\ f.op = "insert"
            /\ Hold(t, {c} \cup {f.path[i] : i \in 1 .. Len(f.path)})
            /\ Go(t, "down", [f EXCEPT !.path = Append(@, c)])
         \/ /\ f.op = "find" /\ Overlaps(f.want, nodes[c].range)
            /\ Hold(t, {n, c})
            /\ Go(t, "held", [Rest EXCEPT !.span = f.span, !.sub = n,
                                          !.path = <<n>>])
         \/ /\ f.op = "find" /\ ~Overlaps(f.want, nodes[c].range)
            /\ Hold(t, {c})
            /\ Go(t, "down", [f EXCEPT !.path = <<c>>])

Arrive(t, nodes, c) ==
  LET f == frame[t]
      n == Here(t)
  IN  /\ node' = set(nodes, n, SideOf(node, n, f.want), c)
      /\ \/ /\ f.op = "insert"
            /\ Hold(t, {c} \cup {f.path[i] : i \in 1 .. Len(f.path)})
            /\ Go(t, "down", [f EXCEPT !.path = Append(@, c), !.child = Root])
         \/ /\ f.op = "find" /\ Overlaps(f.want, nodes[c].range)
            /\ Settle(t, n, f.span)
         \/ /\ f.op = "find" /\ ~Overlaps(f.want, nodes[c].range)
            /\ Hold(t, {c})
            /\ Go(t, "down", [f EXCEPT !.path = <<c>>, !.child = Root])

LockChild(t) ==
  /\ pc[t] = "down"
  /\ LET n == Here(t)
         side == SideOf(node, n, frame[t].want)
         c == node[n][side].ptr
         nodes == get_locked(node, n, side)
     IN  /\ c # Null /\ mutex[c] = Null
         /\ \/ HeavySides(nodes, c) = {} /\ Arrive(t, nodes, c)
            \/ \E heavy \in HeavySides(nodes, c) :
                 /\ node' = nodes
                 /\ Lock(t, c)
                 /\ Go(t, "rotate", [frame[t] EXCEPT !.child = c,
                                                     !.side = heavy])
  /\ UNCHANGED <<is_empty, fresh, contents, countVars, order>>

LockHeavy(t) ==
  /\ pc[t] = "rotate"
  /\ LET c == frame[t].child
         heavy == frame[t].side
         g == node[c][heavy].ptr
         nodes == get_locked(node, c, heavy)
     IN  /\ mutex[g] = Null
         /\ \/ /\ imbalanced(nodes, g, Other(heavy), 0)
               /\ node' = nodes
               /\ Lock(t, g)
               /\ Go(t, "rotate twice", frame[t])
            \/ /\ ~imbalanced(nodes, g, Other(heavy), 0)
               /\ Arrive(t, RotateOnce(nodes, c, heavy), g)
  /\ UNCHANGED <<is_empty, fresh, contents, countVars, order>>

LockGrandchild(t) ==
  /\ pc[t] = "rotate twice"
  /\ LET c == frame[t].child
         heavy == frame[t].side
         g == node[c][heavy].ptr
         m == node[g][Other(heavy)].ptr
     IN  /\ mutex[m] = Null
         /\ Arrive(t, RotateTwice(get_locked(node, g, Other(heavy)), c, heavy),
                   m)
  /\ UNCHANGED <<is_empty, fresh, contents, countVars, order>>

(***************************************************************************)
(* There is no child: a search ends here, an insertion adds its node.      *)
(***************************************************************************)
DeadEnd(t) ==
  /\ pc[t] = "down"
  /\ LET f == frame[t]
         n == Here(t)
         side == SideOf(node, n, f.want)
         new == fresh + 1
     IN  /\ node[n][side].ptr = Null
         /\ \/ /\ f.op = "find"
               /\ Settle(t, n, f.span)
               /\ UNCHANGED treeVars
            \/ /\ f.op = "insert"
               /\ node' = set([node EXCEPT ![new] = alloc(f.want)],
                              n, side, new)
               /\ fresh' = new
               /\ contents' = contents \cup {f.want}
               /\ Settle(t, f.sub, f.span)
               /\ UNCHANGED is_empty
  /\ UNCHANGED <<countVars, order>>

-----------------------------------------------------------------------------
(***************************************************************************)
(* locked_keyrange::insert and remove.  The caller holds the keyrange and  *)
(* "is responsible for only inserting unique ranges", or existing ones.    *)
(***************************************************************************)
MayOperate(t, r) ==
  /\ pc[t] \in {"prepared", "held"}
  /\ frame[t].span.start <= r.start /\ r.end <= frame[t].span.end
  /\ \A u \in Threads :
       frame[u].op \in {"insert", "remove"} => ~Overlaps(frame[u].want, r)

insert(t, r) ==
  /\ MayOperate(t, r)
  /\ \A c \in contents : ~Overlaps(c, r)
  /\ \/ /\ load # <<>> /\ r = Head(load)
        /\ load' = Tail(load) /\ UNCHANGED ops
     \/ /\ load = <<>> /\ r \in Requests
        /\ ops < MaxOps /\ ops' = ops + 1 /\ UNCHANGED load
  /\ LET f == frame[t]
     IN  IF f.sub = Root /\ is_empty
         THEN /\ node' = [node EXCEPT ![Root].range = r]
              /\ is_empty' = FALSE
              /\ contents' = contents \cup {r}
              /\ Settle(t, Root, f.span)
         ELSE /\ Go(t, "down", [f EXCEPT !.op = "insert", !.want = r])
              /\ UNCHANGED <<node, is_empty, contents, mutex>>
  /\ UNCHANGED <<fresh, calls, order>>

remove(t, r) ==
  /\ MayOperate(t, r)
  /\ r \in contents /\ load = <<>>
  /\ ops < MaxOps /\ ops' = ops + 1
  /\ Go(t, "seek", [frame[t] EXCEPT !.op = "remove", !.want = r])
  /\ UNCHANGED <<treeVars, mutex, load, calls, order>>

(***************************************************************************)
(* Down to the node of the range, all of the path locked.                  *)
(***************************************************************************)
Seek(t) ==
  /\ pc[t] = "seek"
  /\ LET f == frame[t]
         n == Here(t)
         cmp == Compare(f.want, node[n].range)
         side == SideOf(node, n, f.want)
         c == node[n][side].ptr
     IN  /\ cmp # "EQUALS"
         /\ IF cmp = "OVERLAPS" \/ c = Null
            THEN Go(t, "abort", f) /\ UNCHANGED <<node, mutex>>
            ELSE /\ Lock(t, c)
                 /\ node' = get_locked(node, n, side)
                 /\ Go(t, "seek", [f EXCEPT !.path = Append(@, c)])
  /\ UNCHANGED <<is_empty, fresh, contents, countVars, order>>

(***************************************************************************)
(* The node reached is the one to remove.  SetBack is the way up from what *)
(* remove_root_of_subtree returns.                                         *)
(***************************************************************************)
Found(t) ==
  pc[t] = "seek" /\ Compare(frame[t].want, node[Here(t)].range) = "EQUALS"

SetBack(t, nodes, result) ==
  /\ node' = SetPath(nodes, frame[t].path, frame[t].want, result)
  /\ contents' = contents \ {frame[t].want}
  /\ Settle(t, frame[t].sub, frame[t].span)

RemoveLeaf(t) ==
  /\ Found(t)
  /\ \A side \in Sides : node[Here(t)][side].ptr = Null
  /\ SetBack(t, node, Null)
  /\ is_empty' = (is_empty \/ Here(t) = Root)
  /\ UNCHANGED <<fresh, countVars, order>>

(***************************************************************************)
(* remove_root_of_subtree: the child on side, then inwards to the extreme. *)
(* Mutant: find_child_at_extreme does not lock.                            *)
(***************************************************************************)
LockReplacementChild(t) ==
  /\ Found(t)
  /\ LET n == Here(t)
         side == IF node[n].left.ptr # Null THEN "left" ELSE "right"
         c == node[n][side].ptr
     IN  /\ c # Null
         /\ Lock(t, c)
         /\ node' = get_locked(node, n, side)
         /\ Go(t, "extreme", [frame[t] EXCEPT !.child = c, !.side = side,
                                              !.extreme = <<c>>])
  /\ UNCHANGED <<is_empty, fresh, contents, countVars, order>>

find_child_at_extreme_unlocked(t) ==
  /\ pc[t] = "extreme"
  /\ LET f == frame[t]
         e == Last(f.extreme)
         d == node[e][Other(f.side)].ptr
     IN  /\ d # Null
         /\ Go(t, "extreme", [f EXCEPT !.extreme = Append(@, d)])
  /\ UNCHANGED <<treeVars, mutex, countVars, order>>

find_child_at_extreme(t) ==
  /\ pc[t] = "extreme"
  /\ LET f == frame[t]
         e == Last(f.extreme)
         d == node[e][Other(f.side)].ptr
     IN  /\ d # Null
         /\ Lock(t, d)
         /\ node' = get_locked(node, e, Other(f.side))
         /\ Go(t, "extreme", [f EXCEPT !.extreme = Append(@, d)])
  /\ UNCHANGED <<is_empty, fresh, contents, countVars, order>>

(***************************************************************************)
(* The recursion of find_child_at_extreme unlocks all of its nodes but the *)
(* first before the replacement is detached from its parent.               *)
(***************************************************************************)
Unwind(t) ==
  /\ pc[t] = "extreme"
  /\ LET f == frame[t]
     IN  /\ node[Last(f.extreme)][Other(f.side)].ptr = Null
         /\ Hold(t, {f.child} \cup {f.path[i] : i \in 1 .. Len(f.path)})
         /\ Go(t, "detach", f)
  /\ UNCHANGED <<treeVars, countVars, order>>

Detach(t) ==
  /\ pc[t] = "detach"
  /\ LET f == frame[t]
         n == Here(t)
         k == Len(f.extreme)
         parent == IF k = 1 THEN n ELSE f.extreme[k - 1]
     IN  SetBack(t, Replace(node, n, f.side, parent, f.extreme[k]), n)
  /\ UNCHANGED <<is_empty, fresh, countVars, order>>

-----------------------------------------------------------------------------
Step(t) ==
  \/ LockRoot(t) \/ LockChild(t) \/ LockHeavy(t) \/ LockGrandchild(t)
  \/ DeadEnd(t) \/ Seek(t) \/ RemoveLeaf(t) \/ LockReplacementChild(t)
  \/ find_child_at_extreme(t) \/ Unwind(t) \/ Detach(t) \/ release(t)

Next ==
  \E t \in Threads :
    \/ prepare(t)
    \/ \E r \in Requests : acquire(t, r) \/ remove(t, r)
    \/ \E r \in Requests \cup {load[i] : i \in 1 .. Len(load)} : insert(t, r)
    \/ Step(t)

Spec == Init /\ [][Next]_vars

(***************************************************************************)
(* Threads are scheduled, and a client releases in the end what it holds.  *)
(***************************************************************************)
FairSpec == Spec /\ \A t \in Threads : WF_vars(Step(t))

-----------------------------------------------------------------------------
(***************************************************************************)
(* The nodes of the tree, and the node at which a search for r ends.       *)
(***************************************************************************)
Linked ==
  LET met[i \in 0 .. MaxNodes] ==
        IF i = 0 THEN {Root}
        ELSE met[i - 1] \cup {node[n][side].ptr :
                                n \in met[i - 1] \ {Null}, side \in Sides}
  IN  met[Cardinality(contents)] \ {Null}

Search(r) ==
  LET at[i \in 0 .. MaxNodes] ==
        IF i = 0 THEN Root
        ELSE LET n == at[i - 1]
             IN  IF n = Null \/ node[n].range = r THEN n
                 ELSE node[n][SideOf(node, n, r)].ptr
  IN  at[Cardinality(contents)]

(***************************************************************************)
(* No insertion, rotation or removal loses a range, brings one back or     *)
(* breaks the order by which ranges are found: at every moment the tree    *)
(* holds exactly what was inserted and not removed, one node for each, and *)
(* a search finds every one.                                               *)
(***************************************************************************)
HoldsContents ==
  /\ is_empty <=> contents = {}
  /\ ~is_empty => Cardinality(Linked) = Cardinality(contents)
  /\ \A r \in contents : Search(r) # Null /\ node[Search(r)].range = r

(***************************************************************************)
(* "All threads serialize behind prepare()": a range that overlaps the     *)
(* keys of another thread's locked_keyrange is inserted or removed only by *)
(* a thread that came through the root before that other thread.           *)
(***************************************************************************)
Position(t) == CHOOSE i \in 1 .. Len(order) : order[i] = t

Moves(t) == <<pc[t], frame[t]>>' # <<pc[t], frame[t]>>

PrepareOrder ==
  [][\A r \in (contents \cup contents') \ (contents \cap contents') :
     \A t, u \in Threads :
       /\ Moves(t) /\ u # t
       /\ \E i \in 1 .. Len(order) : order[i] = u
       /\ Overlaps(r, frame[u].span)
       => Position(t) < Position(u)]_vars

(***************************************************************************)
(* A node whose mutex is held does not change in a step of another thread; *)
(* this is what lets remove_root_of_subtree write to the parent of the     *)
(* replacement after the mutex of that parent is given back.               *)
(***************************************************************************)
HoldersWrite ==
  [][\A n \in Nodes, t \in Threads :
       mutex[n] \notin {t, Null} /\ Moves(t) => node'[n] = node[n]]_vars

(***************************************************************************)
(* Every thread that prepares releases in the end: hand-over-hand locking  *)
(* and the rotations deadlock nobody, and no remove aborts.                *)
(***************************************************************************)
CallsReturn == \A t \in Threads : (pc[t] # "idle") ~> (pc[t] = "idle")
=============================================================================

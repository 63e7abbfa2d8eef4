------------------------------ MODULE TreeNode ------------------------------
(***************************************************************************)
(* The class treenode of src/src/v4/treenode.cc without its mutexes: what  *)
(* its methods do to the nodes of the tree.  A node is a record            *)
(*                                                                         *)
(*     [range, left, right]                                                *)
(*                                                                         *)
(* whose children are child_ptr records [ptr, depth_est].  The operators   *)
(* take the function from nodes to records that they read, nodes, and      *)
(* those that write return the new one.  left and right are mirror images  *)
(* in the code and a parameter, the side, here.                            *)
(***************************************************************************)
EXTENDS KeyRange, Sequences

CONSTANTS
  Null,
  IMBALANCE_THRESHOLD

Sides == {"left", "right"}
Other(side) == IF side = "left" THEN "right" ELSE "left"

NoChild == [ptr |-> Null, depth_est |-> 0]

alloc(range) == [range |-> range, left |-> NoChild, right |-> NoChild]

get_depth_estimate(nodes, n) ==
  1 + IF nodes[n].left.depth_est > nodes[n].right.depth_est
      THEN nodes[n].left.depth_est ELSE nodes[n].right.depth_est

(***************************************************************************)
(* child_ptr::set, and the part of child_ptr::get_locked that follows the  *)
(* lock: it brings the estimate of a child up to date.                     *)
(***************************************************************************)
child_ptr(nodes, m) ==
  [ptr |-> m,
   depth_est |-> IF m = Null THEN 0 ELSE get_depth_estimate(nodes, m)]

set(nodes, n, side, m) ==
  [nodes EXCEPT ![n][side] = child_ptr(nodes, m)]

get_locked(nodes, n, side) == set(nodes, n, side, nodes[n][side].ptr)

(***************************************************************************)
(* The side on which a search for a range leaves a node: a range that      *)
(* overlaps the node goes right.                                           *)
(***************************************************************************)
SideOf(nodes, n, range) ==
  IF Compare(range, nodes[n].range) = "LESS_THAN" THEN "left" ELSE "right"

-----------------------------------------------------------------------------
imbalanced(nodes, n, side, threshold) ==
  /\ nodes[n][side].ptr # Null
  /\ nodes[n][side].depth_est > threshold + nodes[n][Other(side)].depth_est

(***************************************************************************)
(* The sides on which maybe_rebalance finds node n too deep: one at most.  *)
(***************************************************************************)
HeavySides(nodes, n) ==
  {side \in Sides : imbalanced(nodes, n, side, IMBALANCE_THRESHOLD)}

(***************************************************************************)
(* The two rotations of maybe_rebalance at node n: its child on the heavy  *)
(* side, or that child's child on the other side, becomes the parent of n. *)
(* Mutant: the inner subtree of the child is forgotten.                    *)
(***************************************************************************)
RotateOnceLosing(nodes, n, heavy) ==
  LET child == nodes[n][heavy].ptr
      cut == [nodes EXCEPT ![n][heavy] = NoChild]
  IN  set(cut, child, Other(heavy), n)

RotateOnce(nodes, n, heavy) ==
  LET child == nodes[n][heavy].ptr
      inner == Other(heavy)
      cut == [nodes EXCEPT ![n][heavy] = nodes[child][inner]]
  IN  set(cut, child, inner, n)

RotateTwice(nodes, n, heavy) ==
  LET child == nodes[n][heavy].ptr
      inner == Other(heavy)
      grandchild == nodes[child][inner].ptr
      lower == set([nodes EXCEPT ![child][inner] = nodes[grandchild][heavy]],
                   grandchild, heavy, child)
  IN  set([lower EXCEPT ![n][heavy] = lower[grandchild][inner]],
          grandchild, inner, n)

-----------------------------------------------------------------------------
swap_in_place(nodes, n, m) ==
  [nodes EXCEPT ![n].range = nodes[m].range, ![m].range = nodes[n].range]

(***************************************************************************)
(* remove_root_of_subtree: the node replacement, the last one on the inner *)
(* side below n's child on side, is taken out under its parent, and n      *)
(* takes over its range.                                                   *)
(***************************************************************************)
Replace(nodes, n, side, parent, replacement) ==
  LET from == IF parent = n THEN side ELSE Other(side)
      detached == [nodes EXCEPT ![parent][from] = nodes[replacement][side]]
  IN  swap_in_place(detached, replacement, n)

(***************************************************************************)
(* The way back up of remove: every node of the path, from the one above   *)
(* the removed range to the first, sets its child again; the last of them  *)
(* sets what remove_root_of_subtree has returned.                          *)
(***************************************************************************)
SetPath(nodes, path, range, result) ==
  LET above[i \in 1 .. Len(path)] ==
        IF i = Len(path) THEN nodes
        ELSE set(above[i + 1], path[i], SideOf(nodes, path[i], range),
                 IF i + 1 = Len(path) THEN result ELSE path[i + 1])
  IN  above[1]
=============================================================================

------------------------------- MODULE RBTree -------------------------------
(***************************************************************************)
(* The red-black tree (kernel/adt/rbtree.c, rbtree.h) on the level of its  *)
(* links.  A node is identified with its key, NULL is 0.  One iteration of *)
(* a rebalancing loop is one action; the code of a mirrored pair of cases  *)
(* is written once, with the side as a parameter.                          *)
(***************************************************************************)
EXTENDS Naturals, FiniteSets

CONSTANT N     \* number of nodes

ASSUME NAssumption == N \in Nat

Node == 1 .. N
NULL == 0
Side == {"left", "right"}
Other(side) == IF side = "left" THEN "right" ELSE "left"

VARIABLES tree,       \* [root, child, parent, color], child[side][node]
          members,    \* the nodes that were inserted and not deleted
          pc,         \* idle, or the rebalancing loop that is running
          node,       \* local node of the loop
          parent,     \* local parent of the loop on deletion
          rotations   \* rotations made by the call in progress

vars == <<tree, members, pc, node, parent, rotations>>

is_red(t, x) == x # NULL /\ t.color[x] = "red"

is_black(t, x) == x # NULL => t.color[x] = "black"

Init ==
  /\ tree = [root   |-> NULL,
             child  |-> [s \in Side |-> [x \in Node |-> NULL]],
             parent |-> [x \in Node |-> NULL],
             color  |-> [x \in Node |-> "unset"]]
  /\ members = {}
  /\ pc = "idle"
  /\ node = NULL
  /\ parent = NULL
  /\ rotations = 0

-----------------------------------------------------------------------------
(* __rbtree_move_parent: new takes the place of old under old's parent. *)
move_parent(t, old, new) ==
  LET p == t.parent[old]
      a == IF new = NULL THEN t ELSE [t EXCEPT !.parent[new] = p]
  IN  IF p = NULL THEN [a EXCEPT !.root = new]
      ELSE IF old = t.child["left"][p] THEN [a EXCEPT !.child["left"][p] = new]
      ELSE [a EXCEPT !.child["right"][p] = new]

(* __rbtree_move_children: new gets the children of old. *)
move_children(t, old, new) ==
  [t EXCEPT !.child = [s \in Side |-> [t.child[s] EXCEPT ![new] = t.child[s][old]]],
            !.parent = [x \in Node |-> IF \E s \in Side : t.child[s][old] = x
                                       THEN new ELSE t.parent[x]]]

rotate_orphan(t, pivot, side) ==   \* mutant: the moved subtree keeps its parent
  LET child == t.child[Other(side)][pivot]
      a == [t EXCEPT !.child[Other(side)][pivot] = t.child[side][child],
                     !.child[side][child] = pivot]
  IN  [move_parent(a, pivot, child) EXCEPT !.parent[pivot] = child]

(* __rbtree_rotate around pivot, to the given side. *)
rotate(t, pivot, side) ==
  LET child == t.child[Other(side)][pivot]
      moved == t.child[side][child]
      a == [t EXCEPT !.child[Other(side)][pivot] = moved, !.child[side][child] = pivot]
      b == IF moved = NULL THEN a ELSE [a EXCEPT !.parent[moved] = pivot]
  IN  [move_parent(b, pivot, child) EXCEPT !.parent[pivot] = child]

(* __rbtree_replace: new gets the color and the links of old. *)
replace(t, old, new) ==
  move_parent(move_children([t EXCEPT !.color[new] = t.color[old]], old, new), old, new)

(* rbtree_first (left) and rbtree_last (right): walk to that side. *)
Outermost(t, root, side) ==
  LET walk[x \in Node] == IF t.child[side][x] = NULL THEN x ELSE walk[t.child[side][x]]
  IN  walk[root]

rbtree_first(t, root) == Outermost(t, root, "left")

rbtree_last(t, root) == Outermost(t, root, "right")

(* The parent of the largest subtree in which x is outermost on the side. *)
Climb(t, x, side) ==
  LET climb[y \in Node] ==
        IF t.parent[y] # NULL /\ y = t.child[side][t.parent[y]] THEN climb[t.parent[y]]
        ELSE t.parent[y]
  IN  climb[x]

rbtree_next_parent(t, x) ==   \* mutant: the parent without the climb
  IF t.child["right"][x] # NULL THEN rbtree_first(t, t.child["right"][x]) ELSE t.parent[x]

rbtree_next(t, x) ==
  IF t.child["right"][x] # NULL THEN rbtree_first(t, t.child["right"][x])
  ELSE Climb(t, x, "right")

rbtree_prev(t, x) ==
  IF t.child["left"][x] # NULL THEN rbtree_last(t, t.child["left"][x])
  ELSE Climb(t, x, "left")

(* rbtree_find with a comparison of the keys. *)
rbtree_find(t, root, key) ==
  LET find[x \in Node \cup {NULL}] ==
        IF x = NULL \/ x = key THEN x
        ELSE IF key < x THEN find[t.child["left"][x]] ELSE find[t.child["right"][x]]
  IN  find[root]

-----------------------------------------------------------------------------
(***************************************************************************)
(* rbtree_insert.  The caller passes the link at which a search for the    *)
(* key ends: the left link of the next larger node if that is empty, else  *)
(* the right link of the next smaller one.                                 *)
(***************************************************************************)
Larger(x) == {y \in members : x < y}
Smaller(x) == {y \in members : y < x}
Next_(x) == CHOOSE y \in Larger(x) : \A z \in Larger(x) : y <= z
Prev_(x) == CHOOSE y \in Smaller(x) : \A z \in Smaller(x) : z <= y

LeftOfNext(x) == Larger(x) # {} /\ tree.child["left"][Next_(x)] = NULL

(* __rbtree_insert: a red leaf hung below p. *)
Linked(x, p, s) ==
  LET a == [tree EXCEPT !.color[x] = "red", !.parent[x] = p,
                        !.child = [q \in Side |-> [@[q] EXCEPT ![x] = NULL]]]
  IN  IF p = NULL THEN [a EXCEPT !.root = x] ELSE [a EXCEPT !.child[s][p] = x]

rbtree_insert(x) ==
  LET p == IF members = {} THEN NULL ELSE IF LeftOfNext(x) THEN Next_(x) ELSE Prev_(x)
      s == IF LeftOfNext(x) THEN "left" ELSE "right"
  IN  /\ pc = "idle"
      /\ x \notin members
      /\ tree' = Linked(x, p, s)
      /\ members' = members \cup {x}
      /\ pc' = "insert"
      /\ node' = x
      /\ rotations' = 0
      /\ UNCHANGED parent

(* The loop of __rbtree_rebalance_insert runs while the parent is red. *)
Inserting == pc = "insert" /\ is_red(tree, tree.parent[node])

SideOf(t, x) == IF t.child["left"][t.parent[x]] = x THEN "left" ELSE "right"

Uncle == LET p == tree.parent[node]
         IN  tree.child[Other(SideOf(tree, p))][tree.parent[p]]

insert_recolor_nothing ==   \* mutant: continue without painting
  /\ Inserting
  /\ is_red(tree, Uncle)
  /\ UNCHANGED vars

insert_recolor ==
  LET p == tree.parent[node]
      g == tree.parent[p]
  IN  /\ Inserting
      /\ is_red(tree, Uncle)
      /\ tree' = [tree EXCEPT !.color[Uncle] = "black", !.color[p] = "black", !.color[g] = "red"]
      /\ node' = g
      /\ UNCHANGED <<members, pc, parent, rotations>>

insert_rotate ==
  LET p     == tree.parent[node]
      g     == tree.parent[p]
      pside == SideOf(tree, p)
      inner == SideOf(tree, node) # pside
      a     == IF inner THEN rotate(tree, p, pside) ELSE tree
      n     == IF inner THEN p ELSE node
      top   == a.parent[n]
  IN  /\ Inserting
      /\ ~is_red(tree, Uncle)
      /\ tree' = [rotate(a, g, Other(pside)) EXCEPT !.color[g] = "red", !.color[top] = "black"]
      /\ node' = n
      /\ rotations' = rotations + (IF inner THEN 2 ELSE 1)
      /\ UNCHANGED <<members, pc, parent>>

Return == pc' = "idle" /\ node' = NULL /\ parent' = NULL /\ rotations' = 0

insert_done_unpainted ==   \* mutant: the root keeps its color
  /\ pc = "insert"
  /\ ~Inserting
  /\ Return
  /\ UNCHANGED <<tree, members>>

insert_done ==
  /\ pc = "insert"
  /\ ~Inserting
  /\ tree' = [tree EXCEPT !.color[tree.root] = "black"]
  /\ Return
  /\ UNCHANGED members

-----------------------------------------------------------------------------
(* The fields of a deleted node are dead and are cleared. *)
Clear(t, x) ==
  [t EXCEPT !.color[x] = "unset", !.parent[x] = NULL,
            !.child = [s \in Side |-> [@[s] EXCEPT ![x] = NULL]]]

(***************************************************************************)
(* __rbtree_delete: unlink x, or the leftmost node of its right subtree,   *)
(* which then replaces x.  Taking out a black node needs rebalancing.      *)
(***************************************************************************)
Unlinked(t, p, c, color, x) ==
  /\ tree' = Clear(t, x)
  /\ members' = members \ {x}
  /\ IF color = "black"
     THEN pc' = "delete" /\ node' = c /\ parent' = p /\ rotations' = 0
     ELSE Return

delete_single(x) ==
  LET c == IF tree.child["left"][x] # NULL THEN tree.child["left"][x] ELSE tree.child["right"][x]
  IN  /\ pc = "idle"
      /\ x \in members
      /\ \E s \in Side : tree.child[s][x] = NULL
      /\ Unlinked(move_parent(tree, x, c), tree.parent[x], c, tree.color[x], x)

delete_both_stale(x) ==   \* mutant: the parent may be the node that is gone
  LET subst == rbtree_first(tree, tree.child["right"][x])
      c     == tree.child["right"][subst]
  IN  /\ pc = "idle"
      /\ x \in members
      /\ \A s \in Side : tree.child[s][x] # NULL
      /\ Unlinked(replace(move_parent(tree, subst, c), x, subst),
                  tree.parent[subst], c, tree.color[subst], x)

delete_both(x) ==
  LET subst == rbtree_first(tree, tree.child["right"][x])
      c     == tree.child["right"][subst]
      p     == IF tree.parent[subst] = x THEN subst ELSE tree.parent[subst]
  IN  /\ pc = "idle"
      /\ x \in members
      /\ \A s \in Side : tree.child[s][x] # NULL
      /\ Unlinked(replace(move_parent(tree, subst, c), x, subst), p, c, tree.color[subst], x)

rbtree_delete(x) == delete_single(x) \/ delete_both(x)

(***************************************************************************)
(* The loop of __rbtree_rebalance_delete.  side is where node hangs under  *)
(* parent, A is the tree after a red sibling has been rotated away.        *)
(***************************************************************************)
Deleting == pc = "delete" /\ is_black(tree, node) /\ node # tree.root

NodeSide == IF node = tree.child["left"][parent] THEN "left" ELSE "right"

RedSibling == is_red(tree, tree.child[Other(NodeSide)][parent])

A == LET sibling == tree.child[Other(NodeSide)][parent]
     IN  IF RedSibling
         THEN [rotate(tree, parent, NodeSide) EXCEPT !.color[parent] = "red", !.color[sibling] = "black"]
         ELSE tree

Sibling == A.child[Other(NodeSide)][parent]

RotationsA == rotations + (IF RedSibling THEN 1 ELSE 0)

BothBlack == \A s \in Side : is_black(A, A.child[s][Sibling])

delete_up ==
  /\ Deleting
  /\ BothBlack
  /\ tree' = [A EXCEPT !.color[Sibling] = "red"]
  /\ node' = parent
  /\ parent' = A.parent[parent]
  /\ rotations' = RotationsA
  /\ UNCHANGED <<members, pc>>

(* The code calls the child of the sibling on the far side "inner". *)
delete_rotate ==
  LET side    == NodeSide
      sibling == Sibling
      inner   == A.child[Other(side)][sibling]
      outer   == A.child[side][sibling]
      swap    == is_black(A, inner)
      b       == IF swap
                 THEN [rotate(A, sibling, Other(side))
                         EXCEPT !.color[outer] = "black", !.color[sibling] = "red"]
                 ELSE A
      in      == IF swap THEN sibling ELSE inner
      sib     == IF swap THEN outer ELSE sibling
      c       == rotate(b, parent, side)
  IN  /\ Deleting
      /\ ~BothBlack
      /\ tree' = [c EXCEPT !.color[sib] = b.color[parent], !.color[parent] = "black",
                           !.color[in] = "black"]
      /\ node' = c.root
      /\ rotations' = RotationsA + (IF swap THEN 2 ELSE 1)
      /\ pc' = "paint"
      /\ UNCHANGED <<members, parent>>

delete_done ==
  /\ pc = "paint" \/ (pc = "delete" /\ ~Deleting)
  /\ tree' = IF node = NULL THEN tree ELSE [tree EXCEPT !.color[node] = "black"]
  /\ Return
  /\ UNCHANGED members

Rebalance == insert_recolor \/ insert_rotate \/ insert_done
               \/ delete_up \/ delete_rotate \/ delete_done

Next == (\E x \in Node : rbtree_insert(x) \/ rbtree_delete(x)) \/ Rebalance

Spec == Init /\ [][Next]_vars

FairSpec == Spec /\ WF_vars(Rebalance)

-----------------------------------------------------------------------------
TypeOK ==
  /\ tree \in [root : Node \cup {NULL}, child : [Side -> [Node -> Node \cup {NULL}]],
               parent : [Node -> Node \cup {NULL}], color : [Node -> {"unset", "red", "black"}]]
  /\ members \subseteq Node
  /\ \A x \in members : tree.color[x] # "unset"
  /\ pc \in {"idle", "insert", "delete", "paint"}
  /\ {node, parent} \subseteq Node \cup {NULL}
  /\ rotations \in Nat

(***************************************************************************)
(* The links always form one search tree of exactly the members: child and *)
(* parent links agree, the root has no parent, and every node has the      *)
(* smaller ones of its subtree on the left and the larger on the right.    *)
(* Rotations, substitutions and all intermediate steps keep it so.         *)
(***************************************************************************)
Below ==
  LET below[x \in Node \cup {NULL}] ==
        IF x = NULL THEN {}
        ELSE {x} \cup below[tree.child["left"][x]] \cup below[tree.child["right"][x]]
  IN  below

SearchTree ==
  LET below == Below IN
  /\ TypeOK
  /\ tree.root = NULL <=> members = {}
  /\ below[tree.root] = members
  /\ tree.root # NULL => tree.parent[tree.root] = NULL
  /\ \A x \in members, s \in Side : tree.child[s][x] # NULL => tree.parent[tree.child[s][x]] = x
  /\ \A x \in members : /\ \A y \in below[tree.child["left"][x]] : y < x
                        /\ \A y \in below[tree.child["right"][x]] : x < y

(***************************************************************************)
(* The walks of rbtree.h, on any tree a call leaves behind: from the first *)
(* to the last node, next and prev visit the members in sort order and end *)
(* in NULL, and find finds exactly the members.                            *)
(***************************************************************************)
WalksInOrder ==
  pc = "idle" /\ members # {} =>
    /\ \A x \in members : rbtree_first(tree, tree.root) <= x /\ x <= rbtree_last(tree, tree.root)
    /\ \A x \in members : rbtree_next(tree, x) = IF Larger(x) = {} THEN NULL ELSE Next_(x)
    /\ \A x \in members : rbtree_prev(tree, x) = IF Smaller(x) = {} THEN NULL ELSE Prev_(x)
    /\ \A k \in Node : rbtree_find(tree, tree.root, k) = IF k \in members THEN k ELSE NULL

(***************************************************************************)
(* "at most two for insertion" and "at most three for deletion"            *)
(* (rbtree.c:240, 380): the rotations of one call are bounded.             *)
(***************************************************************************)
FewRotations ==
  /\ pc = "insert" => rotations <= 2
  /\ pc \in {"delete", "paint"} => rotations <= 3

(***************************************************************************)
(* The properties that rbtree.c:225-234 lists hold whenever no call is in  *)
(* progress: the root is black, the children of a red node are black, and  *)
(* all paths have the same number of black nodes; and few rotations are    *)
(* enough.                                                                 *)
(***************************************************************************)
BlackCounts ==
  LET counts[x \in Node \cup {NULL}] ==
        IF x = NULL THEN {0}
        ELSE {c + (IF tree.color[x] = "black" THEN 1 ELSE 0) :
                c \in counts[tree.child["left"][x]] \cup counts[tree.child["right"][x]]}
  IN  counts[tree.root]

RedBlack ==
  /\ FewRotations
  /\ pc = "idle" =>
       /\ is_black(tree, tree.root)
       /\ \A x \in members, s \in Side : is_red(tree, x) => is_black(tree, tree.child[s][x])
       /\ Cardinality(BlackCounts) = 1

(***************************************************************************)
(* The assertions of the deletion loop: a sibling has a red child on the   *)
(* near side whenever the far one is black, and it exists at all.          *)
(***************************************************************************)
DeleteAsserts ==
  Deleting =>
    /\ parent # NULL
    /\ Sibling # NULL
    /\ ~BothBlack /\ is_black(A, A.child[Other(NodeSide)][Sibling]) =>
         is_red(A, A.child[NodeSide][Sibling])

(***************************************************************************)
(* Rebalancing ends: the loops climb the tree or stop.                     *)
(***************************************************************************)
RebalancingEnds == pc # "idle" ~> pc = "idle"
=============================================================================

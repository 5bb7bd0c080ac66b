------------------------------ MODULE AvlTree ------------------------------
(***************************************************************************)
(* The AVL tree of avlTreePineWiki.c as pure operators on tree values.     *)
(*                                                                         *)
(* A tree is AVL_EMPTY (the C null pointer) or a node record               *)
(*   [child |-> [d \in {0,1} |-> tree], key |-> Int, height |-> Nat]       *)
(* with child[0] the left and child[1] the right subtree, as in struct     *)
(* avlNode.  Each C function that mutates through an AvlTree * slot is an  *)
(* operator that returns the new content of the slot; a function that also *)
(* returns a value (avlDeleteMin) returns a record holding both.  The code *)
(* is single-threaded and every call runs to completion, so the client     *)
(* modules apply these operators atomically, one per API call.             *)
(***************************************************************************)
EXTENDS Integers, FiniteSets

CONSTANTS
  AVL_EMPTY,     \* the empty tree (null pointer), a model value
  DeleteGuard    \* "as_written" (line 249 as in the source) or "fixed"

ASSUME DeleteGuard \in {"as_written", "fixed"}

Dirs == {0, 1}

\* C's !d on a direction.
Not(d) == 1 - d

\* C's comparison key > t->key used as a child index.
Dir(b) == IF b THEN 1 ELSE 0

Max(x, y) == IF x > y THEN x ELSE y

\* Replace child[d] of node t.
SetChild(t, d, c) == [t EXCEPT !.child[d] = c]

\* Fault injection: a new node whose height is initialised to 0.
Leaf_zeroHeight(key) == [child |-> [d \in Dirs |-> AVL_EMPTY], key |-> key, height |-> 0]

\* A fresh leaf, as built by the malloc branch of avlInsert.
Leaf(key) == [child |-> [d \in Dirs |-> AVL_EMPTY], key |-> key, height |-> 1]

avlGetHeight(t) == IF t # AVL_EMPTY THEN t.height ELSE 0

RECURSIVE avlSearch(_, _)
avlSearch(t, key) ==
  IF t = AVL_EMPTY THEN FALSE
  ELSE IF t.key = key THEN TRUE
  ELSE avlSearch(t.child[Dir(key > t.key)], key)

avlFixHeight(t) ==
  [t EXCEPT !.height = 1 + Max(avlGetHeight(t.child[0]), avlGetHeight(t.child[1]))]

\* Fault injection: the two avlFixHeight calls of avlRotate swapped, so the
\* new root's height is computed from the old root's stale height.
avlRotate_staleHeight(root, d) ==
  LET newRoot   == root.child[d]
      oldMiddle == newRoot.child[Not(d)]
      promoted  == avlFixHeight(SetChild(newRoot, Not(d), root))
  IN  [promoted EXCEPT !.child[Not(d)] = avlFixHeight(SetChild(root, d, oldMiddle))]

(***************************************************************************)
(* avlRotate(root, d): child[d] becomes the root.  The demoted old root's  *)
(* height is fixed first, then the new root's, which reads it.             *)
(***************************************************************************)
avlRotate(root, d) ==
  LET newRoot   == root.child[d]
      oldMiddle == newRoot.child[Not(d)]
      demoted   == avlFixHeight(SetChild(root, d, oldMiddle))
  IN  avlFixHeight(SetChild(newRoot, Not(d), demoted))

(***************************************************************************)
(* avlRebalance: if child[d] is more than one taller than child[!d], one   *)
(* single or double rotation (rotate fixes the heights) and return; else   *)
(* fix this node's height.  At most one d can be too tall, so the order of *)
(* the for-loop over d does not matter.  Ties between the grandchildren    *)
(* take the double rotation (strict > at line 154).                        *)
(***************************************************************************)
TooTall(t, d) == avlGetHeight(t.child[d]) > avlGetHeight(t.child[Not(d)]) + 1

SameSideHeavier(inner, d) ==
  avlGetHeight(inner.child[d]) > avlGetHeight(inner.child[Not(d)])

avlRebalance(t) ==
  IF t = AVL_EMPTY THEN t
  ELSE IF \E d \in Dirs : TooTall(t, d)
  THEN LET d == CHOOSE d \in Dirs : TooTall(t, d)
       IN  IF SameSideHeavier(t.child[d], d)
           THEN avlRotate(t, d)
           ELSE avlRotate(SetChild(t, d, avlRotate(t.child[d], Not(d))), d)
  ELSE avlFixHeight(t)

RECURSIVE avlInsert(_, _)
avlInsert(t, key) ==
  IF t = AVL_EMPTY THEN Leaf(key)
  ELSE IF key = t.key THEN t
  ELSE LET d == Dir(key > t.key)
       IN  avlRebalance(SetChild(t, d, avlInsert(t.child[d], key)))

(***************************************************************************)
(* avlDeleteMin(t) for a non-empty t: [tree |-> new slot content,          *)
(* min |-> the key removed].  The leftmost node is spliced out by its      *)
(* right child; every level, the spliced one included, is rebalanced.     *)
(***************************************************************************)
RECURSIVE avlDeleteMin(_)
\* Fault injection: the minimum spliced out by child[0] instead of child[1].
avlDeleteMin_spliceLeft(t) ==
  IF t.child[0] = AVL_EMPTY
  THEN [tree |-> avlRebalance(t.child[0]), min |-> t.key]
  ELSE LET r == avlDeleteMin(t.child[0])
       IN  [tree |-> avlRebalance(SetChild(t, 0, r.tree)), min |-> r.min]

avlDeleteMin(t) ==
  IF t.child[0] = AVL_EMPTY
  THEN [tree |-> avlRebalance(t.child[1]), min |-> t.key]
  ELSE LET r == avlDeleteMin(t.child[0])
       IN  [tree |-> avlRebalance(SetChild(t, 0, r.tree)), min |-> r.min]

(***************************************************************************)
(* The guard of avlDelete.  As written, line 249 returns when the tree is  *)
(* NOT empty; "fixed" is the one-character correction spec.md 4.7 asks for.*)
(***************************************************************************)
DeleteReturnsEarly(t) ==
  IF DeleteGuard = "as_written" THEN t # AVL_EMPTY ELSE t = AVL_EMPTY

\* avlDelete goes on to read (*t)->key with *t null.
DeleteDerefsNull(t) == ~DeleteReturnsEarly(t) /\ t = AVL_EMPTY

(***************************************************************************)
(* avlDelete for a tree on which it neither returns nor dereferences null: *)
(* a node with a right child takes the minimum of that subtree as its key; *)
(* one without is spliced out by its left child; otherwise recurse.  The   *)
(* slot is rebalanced afterwards in every case (line 267).                 *)
(***************************************************************************)
RECURSIVE avlDelete(_, _)
\* Fault injection: the successor's key copied up but the right subtree it
\* was deleted from not stored back.
avlDelete_keepSuccessor(t, key) ==
  IF DeleteReturnsEarly(t) THEN t
  ELSE IF t.key = key
  THEN IF t.child[1] # AVL_EMPTY
       THEN LET r == avlDeleteMin(t.child[1])
            IN  avlRebalance([t EXCEPT !.key = r.min])
       ELSE avlRebalance(t.child[0])
  ELSE LET d == Dir(key > t.key)
       IN  avlRebalance(SetChild(t, d, avlDelete(t.child[d], key)))

avlDelete(t, key) ==
  IF DeleteReturnsEarly(t) THEN t
  ELSE IF t.key = key
  THEN IF t.child[1] # AVL_EMPTY
       THEN LET r == avlDeleteMin(t.child[1])
            IN  avlRebalance([SetChild(t, 1, r.tree) EXCEPT !.key = r.min])
       ELSE avlRebalance(t.child[0])
  ELSE LET d == Dir(key > t.key)
       IN  avlRebalance(SetChild(t, d, avlDelete(t.child[d], key)))

-----------------------------------------------------------------------------
(***************************************************************************)
(* Predicates on trees, used by the invariants of the client modules.      *)
(***************************************************************************)
RECURSIVE KeysOf(_)
KeysOf(t) ==
  IF t = AVL_EMPTY THEN {}
  ELSE KeysOf(t.child[0]) \cup {t.key} \cup KeysOf(t.child[1])

RECURSIVE Nodes(_)
\* The set of all (non-empty) subtrees of t, t included.
Nodes(t) ==
  IF t = AVL_EMPTY THEN {}
  ELSE {t} \cup Nodes(t.child[0]) \cup Nodes(t.child[1])

RECURSIVE NodeCount(_)
NodeCount(t) ==
  IF t = AVL_EMPTY THEN 0 ELSE 1 + NodeCount(t.child[0]) + NodeCount(t.child[1])

RECURSIVE IsTree(_)
IsTree(t) ==
  \/ t = AVL_EMPTY
  \/ /\ DOMAIN t = {"child", "key", "height"}
     /\ t.key \in Int /\ t.height \in Nat \ {0}
     /\ DOMAIN t.child = Dirs
     /\ \A d \in Dirs : IsTree(t.child[d])

\* The check of avlSanityCheck (line 95) at every node.
HeightOk(n) == n.height = 1 + Max(avlGetHeight(n.child[0]), avlGetHeight(n.child[1]))

\* Left keys below the node's key, right keys above it.
OrderOk(n) ==
  /\ \A k \in KeysOf(n.child[0]) : k < n.key
  /\ \A k \in KeysOf(n.child[1]) : k > n.key

\* The fewest nodes an AVL tree of height h has: 0, 1, 2, 4, 7, 12, ...
RECURSIVE MinAvlNodes(_)
MinAvlNodes(h) == IF h < 2 THEN h ELSE 1 + MinAvlNodes(h - 1) + MinAvlNodes(h - 2)

\* The greatest height an AVL tree of n nodes can have.
AvlMaxHeight(n) == CHOOSE h \in 0..n : MinAvlNodes(h) <= n /\ MinAvlNodes(h + 1) > n

\* |height(left) - height(right)| <= 1.
BalanceOk(n) == ~TooTall(n, 0) /\ ~TooTall(n, 1)

=============================================================================

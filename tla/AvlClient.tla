----------------------------- MODULE AvlClient -----------------------------
(***************************************************************************)
(* An arbitrary single-threaded caller of the AVL tree API: any sequence   *)
(* of avlInsert, avlDelete, avlDeleteMin and avlSearch calls on one tree   *)
(* handle (AvlTree t = AVL_EMPTY), each call run to completion.            *)
(***************************************************************************)
EXTENDS AvlTree

CONSTANTS
  Keys,   \* the keys callers pass
  NoKey   \* minValue before any avlDeleteMin returned

VARIABLES
  call,      \* the API call just made, [op |-> name, key |-> argument]
  tree,      \* the caller's AvlTree handle *t
  found,     \* the value the last avlSearch returned
  minValue,  \* the value the last avlDeleteMin returned
  crashed    \* the process died on a null dereference

vars == <<call, tree, found, minValue, crashed>>

Call(op, k) == [op |-> op, key |-> k]

Init ==
  /\ call = Call("none", NoKey)
  /\ tree = AVL_EMPTY
  /\ found = FALSE
  /\ minValue = NoKey
  /\ crashed = FALSE

Insert(k) ==
  /\ ~crashed
  /\ call' = Call("insert", k)
  /\ tree' = avlInsert(tree, k)
  /\ UNCHANGED <<found, minValue, crashed>>

\* avlDelete; on an empty tree the as-written guard falls through to (*t)->key.
Delete(k) ==
  /\ ~crashed
  /\ call' = Call("delete", k)
  /\ IF DeleteDerefsNull(tree)
     THEN crashed' = TRUE /\ UNCHANGED tree
     ELSE tree' = avlDelete(tree, k) /\ UNCHANGED crashed
  /\ UNCHANGED <<found, minValue>>

\* avlDeleteMin's precondition (header comment, line 36): a non-empty tree.
DeleteMin ==
  /\ ~crashed
  /\ call' = Call("deleteMin", NoKey)
  /\ tree # AVL_EMPTY
  /\ LET r == avlDeleteMin(tree)
     IN  tree' = r.tree /\ minValue' = r.min
  /\ UNCHANGED <<found, crashed>>

Search(k) ==
  /\ ~crashed
  /\ call' = Call("search", k)
  /\ found' = avlSearch(tree, k)
  /\ UNCHANGED <<tree, minValue, crashed>>

Next == \E k \in Keys : Insert(k) \/ Delete(k) \/ DeleteMin \/ Search(k)

Spec == Init /\ [][Next]_vars

-----------------------------------------------------------------------------
\* The handle holds a well-formed tree of caller keys.
TypeOK ==
  /\ IsTree(tree) /\ KeysOf(tree) \subseteq Keys
  /\ call.op \in {"none", "insert", "delete", "deleteMin", "search"}
  /\ found \in BOOLEAN /\ minValue \in Keys \cup {NoKey} /\ crashed \in BOOLEAN

(***************************************************************************)
(* avlSanityCheck passes after every call: every cached height equals one  *)
(* plus the larger child height.  Only avlRotate and avlRebalance write    *)
(* heights, and rebalance skips avlFixHeight after a rotation, so this     *)
(* depends on the order of the two avlFixHeight calls in avlRotate.        *)
(***************************************************************************)
HeightsCorrect == \A n \in Nodes(tree) : HeightOk(n)

(***************************************************************************)
(* BST order after every call: rotations move subtrees between nodes and   *)
(* avlDelete overwrites a node's key with a successor from its right       *)
(* subtree, and neither may put a key on the wrong side of an ancestor.    *)
(***************************************************************************)
BSTOrder == \A n \in Nodes(tree) : OrderOk(n)

(***************************************************************************)
(* AVL balance (spec.md 3, invariant 3): after every call no node has one  *)
(* child more than one taller than the other.  avlRebalance fixes a single *)
(* level with one single or double rotation chosen by a strict comparison  *)
(* of the grandchildren's heights.                                         *)
(***************************************************************************)
Balanced == \A n \in Nodes(tree) : BalanceOk(n)

(***************************************************************************)
(* Height stays logarithmic: the tree is never taller than the tallest AVL *)
(* tree with as many nodes.  The recursion depth of every call, and so its *)
(* stack use (spec.md 5), is bounded by this height.                       *)
(***************************************************************************)
HeightBound == avlGetHeight(tree) <= AvlMaxHeight(NodeCount(tree))

(***************************************************************************)
(* The tree implements the ordered set of AvlSet: its key set is the set,  *)
(* avlSearch answers membership, avlDeleteMin returns the least key, and   *)
(* avlDelete removes exactly the key it is given.                          *)
(***************************************************************************)
Abstract == INSTANCE AvlSet WITH set <- KeysOf(tree)

AbstractSpec == Abstract!Spec

=============================================================================

------------------------------ MODULE AvlMain -------------------------------
(***************************************************************************)
(* The driver main() of avlTreePineWiki.c: insert (i*MULTIPLIER) % N for  *)
(* i in 0..N-1, assert that N-1 is found and N is not, run the sanity     *)
(* check, call avlDeleteMin N-1 times, sanity-check again, print the keys *)
(* and free the tree.  An assert that fails aborts the process.           *)
(***************************************************************************)
EXTENDS AvlTree

CONSTANTS
  N,            \* the #define N (1024 in the source)
  MULTIPLIER    \* the #define MULTIPLIER (97 in the source)

ASSUME N \in Nat \ {0} /\ MULTIPLIER \in Nat

VARIABLES
  tree,   \* the local AvlTree t
  i,      \* the loop counter
  pc      \* where main is

vars == <<tree, i, pc>>

\* The process states main can end in, besides running.
Stopped == {"usage", "aborted", "crashed", "done"}

RECURSIVE SanityOk(_)
\* avlSanityCheck returns instead of failing an assert.
SanityOk(t) ==
  t = AVL_EMPTY \/ (SanityOk(t.child[0]) /\ SanityOk(t.child[1]) /\ HeightOk(t))

Init == tree = AVL_EMPTY /\ i = 0 /\ pc = "start"

\* if(argc != 1) { usage; return 1; }: argc is whatever the caller passed.
Start ==
  /\ pc = "start"
  /\ \E argc \in {1, 2} : pc' = IF argc # 1 THEN "usage" ELSE "insert"
  /\ UNCHANGED <<tree, i>>

\* The bounds of the two for-loops.
InsertCount == N

\* Fault injection: the delete loop runs to i < N.
DeleteMinCount_all == N

DeleteMinCount == N - 1

InsertKey(j) == (j * MULTIPLIER) % N

InsertLoop ==
  /\ pc = "insert"
  /\ IF i < InsertCount
     THEN tree' = avlInsert(tree, InsertKey(i)) /\ i' = i + 1 /\ UNCHANGED pc
     ELSE pc' = "check" /\ i' = 0 /\ UNCHANGED tree

\* The two asserts on avlSearch and the first avlSanityCheck.
Check ==
  /\ pc = "check"
  /\ pc' = IF avlSearch(tree, N - 1) /\ ~avlSearch(tree, N) /\ SanityOk(tree)
           THEN "deletemin" ELSE "aborted"
  /\ UNCHANGED <<tree, i>>

\* avlDeleteMin on an empty tree dereferences the null *t at line 228.
DeleteMinLoop ==
  /\ pc = "deletemin"
  /\ IF i < DeleteMinCount
     THEN IF tree = AVL_EMPTY
          THEN pc' = "crashed" /\ UNCHANGED <<tree, i>>
          ELSE tree' = avlDeleteMin(tree).tree /\ i' = i + 1 /\ UNCHANGED pc
     ELSE /\ pc' = IF SanityOk(tree) THEN "destroy" ELSE "aborted"
          /\ UNCHANGED <<tree, i>>

\* avlPrintKeys(t); avlDestroy(t); return 0.  Printing changes nothing; at
\* the level of values the destroyed tree is gone (t itself, passed by
\* value, is left dangling).
Destroy ==
  /\ pc = "destroy"
  /\ tree' = AVL_EMPTY /\ pc' = "done"
  /\ UNCHANGED i

Next == Start \/ InsertLoop \/ Check \/ DeleteMinLoop \/ Destroy

Spec == Init /\ [][Next]_vars

-----------------------------------------------------------------------------
TypeOK == IsTree(tree) /\ i \in 0..N /\ pc \in {"start", "insert", "check", "deletemin", "destroy"} \cup Stopped

(***************************************************************************)
(* AVL balance (spec.md 3, invariant 3) holds at every point main reaches, *)
(* between the calls of its insert loop and of its avlDeleteMin loop.     *)
(***************************************************************************)
Balanced == \A n \in Nodes(tree) : BalanceOk(n)

(***************************************************************************)
(* main's own checks never fail: the asserts on avlSearch and both         *)
(* avlSanityCheck calls pass, and no avlDeleteMin meets an empty tree.     *)
(***************************************************************************)
DriverAssertsHold == pc \notin {"aborted", "crashed"}

(***************************************************************************)
(* After the N-1 avlDeleteMin calls and the second sanity check, exactly   *)
(* one key is left for avlPrintKeys, the largest inserted, N-1: each call  *)
(* removed the least key then present.                                     *)
(***************************************************************************)
OneKeyLeft == pc = "destroy" => KeysOf(tree) = {N - 1}

(***************************************************************************)
(* Through the whole run the tree is no taller than the tallest AVL tree   *)
(* with as many nodes, so avlInsert and avlDeleteMin recurse O(log n) deep *)
(* even though avlRebalance can leave a node out of balance.               *)
(***************************************************************************)
HeightBound == avlGetHeight(tree) <= AvlMaxHeight(NodeCount(tree))

=============================================================================

---------------------------- MODULE AvlHeapMain ----------------------------
(***************************************************************************)
(* The driver main() of avlTreePineWiki.c on the pointer-level tree of     *)
(* AvlHeap: the same calls as AvlMain, each on the handle t through &t,    *)
(* with malloc taking a node from the heap Addr and free returning it, and *)
(* the final avlDestroy(t) freeing the nodes that are left.                *)
(*                                                                         *)
(* malloc returns the least free address.  Addresses are interchangeable   *)
(* for every property below (none names an address), so this one choice   *)
(* stands for all of them.                                                 *)
(***************************************************************************)
EXTENDS AvlHeap

CONSTANTS
  N,            \* the #define N (1024 in the source)
  MULTIPLIER    \* the #define MULTIPLIER (97 in the source)

VARIABLES
  mem,    \* contents of every address
  alloc,  \* the addresses malloc handed out and free has not taken back
  t,      \* the local AvlTree t
  i,      \* the loop counter
  pc      \* where main is

vars == <<mem, alloc, t, i, pc>>

S == [mem |-> mem, alloc |-> alloc, root |-> t]
Apply(s) == mem' = s.mem /\ alloc' = s.alloc /\ t' = s.root

\* avlSanityCheck (lines 85-97) holds: every reachable node's cached height.
RECURSIVE SanityOk(_)
SanityOk(p) ==
  \/ p = AVL_EMPTY
  \/ /\ SanityOk(mem[p].child[0]) /\ SanityOk(mem[p].child[1])
     /\ mem[p].height = 1 + Val!Max(avlGetHeight(S, mem[p].child[0]), avlGetHeight(S, mem[p].child[1]))

Init ==
  /\ mem = [a \in Addr |-> Garbage] /\ alloc = {}
  /\ t = AVL_EMPTY /\ i = 0 /\ pc = "start"

\* if(argc != 1) { usage; return 1; }
Start ==
  /\ pc = "start"
  /\ \E argc \in {1, 2} : pc' = IF argc # 1 THEN "usage" ELSE "insert"
  /\ UNCHANGED <<mem, alloc, t, i>>

\* Fault injection: the delete loop runs to i < N.
DeleteMinCount_all == N

DeleteMinCount == N - 1

(***************************************************************************)
(* for (i = 0; i < N; i++) avlInsert(&t, (i*MULTIPLIER) % N).  The descent *)
(* calls malloc exactly when the key is absent; a null result fails the    *)
(* assert of line 182.                                                     *)
(***************************************************************************)
InsertLoop ==
  /\ pc = "insert"
  /\ IF i < N
     THEN LET k == (i * MULTIPLIER) % N
          IN  IF avlSearch(S, t, k)
              THEN Apply(avlInsert(S, RootSlot, k, AVL_EMPTY)) /\ i' = i + 1 /\ UNCHANGED pc
              ELSE IF alloc = Addr
              THEN pc' = "aborted" /\ UNCHANGED <<mem, alloc, t, i>>
              ELSE /\ Apply(avlInsert(S, RootSlot, k, CHOOSE a \in Addr \ alloc : \A b \in Addr \ alloc : a <= b))
                   /\ i' = i + 1 /\ UNCHANGED pc
     ELSE pc' = "check" /\ i' = 0 /\ UNCHANGED <<mem, alloc, t>>

\* The two asserts on avlSearch and the first avlSanityCheck.
Check ==
  /\ pc = "check"
  /\ pc' = IF avlSearch(S, t, N - 1) /\ ~avlSearch(S, t, N) /\ SanityOk(t)
           THEN "deletemin" ELSE "aborted"
  /\ UNCHANGED <<mem, alloc, t, i>>

\* for (i = 0; i < N-1; i++) avlDeleteMin(&t); avlSanityCheck(t).  An
\* empty tree is a null dereference at line 228.
DeleteMinLoop ==
  /\ pc = "deletemin"
  /\ IF i < DeleteMinCount
     THEN IF t = AVL_EMPTY
          THEN pc' = "crashed" /\ UNCHANGED <<mem, alloc, t, i>>
          ELSE Apply(avlDeleteMin(S, RootSlot).st) /\ i' = i + 1 /\ UNCHANGED pc
     ELSE /\ pc' = IF SanityOk(t) THEN "destroy" ELSE "aborted"
          /\ UNCHANGED <<mem, alloc, t, i>>

\* avlPrintKeys(t) (no state); avlDestroy(t): t is passed by value and left
\* dangling.
Destroy ==
  /\ pc = "destroy"
  /\ LET s == avlDestroy(S, t) IN mem' = s.mem /\ alloc' = s.alloc
  /\ pc' = "done"
  /\ UNCHANGED <<t, i>>

Next == Start \/ InsertLoop \/ Check \/ DeleteMinLoop \/ Destroy

Spec == Init /\ [][Next]_vars

-----------------------------------------------------------------------------
\* The nodes reachable from t, and the tree value stored under p.
RECURSIVE Closure(_)
Closure(X) ==
  LET Y == X \cup ({mem[a].child[d] : a \in X, d \in Dirs} \ {AVL_EMPTY})
  IN  IF Y = X THEN X ELSE Closure(Y)

Reach == IF t = AVL_EMPTY THEN {} ELSE Closure({t})

RECURSIVE Value(_)
Value(p) ==
  IF p = AVL_EMPTY THEN AVL_EMPTY
  ELSE [child |-> [d \in Dirs |-> Value(mem[p].child[d])],
        key |-> mem[p].key, height |-> mem[p].height]

\* main's state as the value-level AvlMain sees it: the tree read back from
\* the heap through t, gone once avlDestroy has run.
Main == INSTANCE AvlMain WITH tree <- IF pc = "done" THEN AVL_EMPTY ELSE Value(t)

(***************************************************************************)
(* main's asserts, both avlSanityCheck calls and its avlDeleteMin calls    *)
(* never fail, exactly one key, 1023, is left for avlPrintKeys, and the    *)
(* tree is never taller than an AVL tree of as many nodes: the properties  *)
(* of AvlMain, on the tree the heap stores.                                *)
(***************************************************************************)
DriverAssertsHold == Main!DriverAssertsHold
OneKeyLeft == Main!OneKeyLeft
HeightBound == Main!HeightBound

(***************************************************************************)
(* Over the whole run nothing leaks: every allocated node is reachable     *)
(* from t (the 1023 nodes avlDeleteMin unlinks are freed) and when main    *)
(* returns avlDestroy has freed every node.                                *)
(***************************************************************************)
FreesEverything == alloc \subseteq (IF pc = "done" THEN {} ELSE Reach)

=============================================================================

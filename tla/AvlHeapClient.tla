--------------------------- MODULE AvlHeapClient ---------------------------
(***************************************************************************)
(* A caller of the pointer-level tree: the AvlClient calls on one handle   *)
(* t, each run to completion, plus the avlDestroy(t) with which main ends  *)
(* (line 306).  The heap has the addresses Addr and nothing else: when an  *)
(* insertion needs a node and none is free, malloc returns null and        *)
(* the assert of line 182 aborts the process.                             *)
(***************************************************************************)
EXTENDS AvlHeap

VARIABLES
  call,      \* the API call just made, [op |-> name, key |-> argument]
  mem,       \* contents of every address
  alloc,     \* the addresses malloc handed out and free has not taken back
  t,         \* the caller's handle, AvlTree t
  found,     \* the value the last avlSearch returned
  minValue,  \* the value the last avlDeleteMin returned
  status     \* "running", "crashed" (null dereference), "aborted" (line
             \* 182), or "destroyed" (after avlDestroy)

vars == <<call, mem, alloc, t, found, minValue, status>>

Call(op, k) == [op |-> op, key |-> k]

\* The heap as the operators of AvlHeap see it, and the write-back of one.
S == [mem |-> mem, alloc |-> alloc, root |-> t]
Apply(s) == mem' = s.mem /\ alloc' = s.alloc /\ t' = s.root

Init ==
  /\ call = Call("none", NoKey)
  /\ mem = [a \in Addr |-> Garbage]
  /\ alloc = {}
  /\ t = AVL_EMPTY
  /\ found = FALSE
  /\ minValue = NoKey
  /\ status = "running"

(***************************************************************************)
(* avlInsert(&t, k).  The descent reaches an empty slot, and calls malloc, *)
(* exactly when k is absent; malloc may return any free address.          *)
(***************************************************************************)
Insert(k) ==
  /\ status = "running"
  /\ call' = Call("insert", k)
  /\ IF avlSearch(S, t, k)
     THEN Apply(avlInsert(S, RootSlot, k, AVL_EMPTY)) /\ UNCHANGED status
     ELSE \/ \E a \in Addr \ alloc : Apply(avlInsert(S, RootSlot, k, a)) /\ UNCHANGED status
          \/ alloc = Addr /\ status' = "aborted" /\ UNCHANGED <<mem, alloc, t>>
  /\ UNCHANGED <<found, minValue>>

\* avlDelete(&t, k); on an empty tree the as-written guard reads the key of the null *t.
Delete(k) ==
  /\ status = "running"
  /\ call' = Call("delete", k)
  /\ IF Val!DeleteDerefsNull(t)
     THEN status' = "crashed" /\ UNCHANGED <<mem, alloc, t>>
     ELSE Apply(avlDelete(S, RootSlot, k)) /\ UNCHANGED status
  /\ UNCHANGED <<found, minValue>>

\* avlDeleteMin(&t), under its precondition of a non-empty tree.
DeleteMin ==
  /\ status = "running"
  /\ call' = Call("deleteMin", NoKey)
  /\ t # AVL_EMPTY
  /\ LET r == avlDeleteMin(S, RootSlot)
     IN  Apply(r.st) /\ minValue' = r.min
  /\ UNCHANGED <<found, status>>

Search(k) ==
  /\ status = "running"
  /\ call' = Call("search", k)
  /\ found' = avlSearch(S, t, k)
  /\ UNCHANGED <<mem, alloc, t, minValue, status>>

\* avlDestroy(t), passed the handle by value: t is left dangling.
Destroy ==
  /\ status = "running"
  /\ call' = Call("destroy", NoKey)
  /\ LET s == avlDestroy(S, t) IN mem' = s.mem /\ alloc' = s.alloc
  /\ status' = "destroyed"
  /\ UNCHANGED <<t, found, minValue>>

CallNext == \E k \in Keys : Insert(k) \/ Delete(k) \/ DeleteMin \/ Search(k)

Next == CallNext \/ Destroy

\* Every run of calls that ends, if it ends, with main's avlDestroy.
Spec == Init /\ [][Next]_vars

\* The calls alone, for the comparison with the value-level client.
CallSpec == Init /\ [][CallNext]_vars

-----------------------------------------------------------------------------
\* The addresses reachable from the pointers in X.
RECURSIVE Closure(_)
Closure(X) ==
  LET Y == X \cup ({mem[a].child[d] : a \in X, d \in Dirs} \ {AVL_EMPTY})
  IN  IF Y = X THEN X ELSE Closure(Y)

\* The nodes the code can reach from the handle.
Reach == IF t = AVL_EMPTY THEN {} ELSE Closure({t})

\* The (node, direction) fields that point to address a.
Parents(a) == {pd \in Reach \X Dirs : mem[pd[1]].child[pd[2]] = a}

\* The tree value the heap stores under p.
RECURSIVE Value(_)
Value(p) ==
  IF p = AVL_EMPTY THEN AVL_EMPTY
  ELSE [child |-> [d \in Dirs |-> Value(mem[p].child[d])],
        key |-> mem[p].key, height |-> mem[p].height]

(***************************************************************************)
(* The pointers form a tree: the handle's node is nobody's child and every *)
(* other reachable node is the child of exactly one reachable node.  The   *)
(* three pointer writes of avlRotate, applied twice in a double rotation   *)
(* on a child slot, must neither share a subtree nor close a cycle.        *)
(***************************************************************************)
TreeShaped == \A a \in Reach : Cardinality(Parents(a)) = IF a = t THEN 0 ELSE 1

(***************************************************************************)
(* No dangling pointer: until avlDestroy, every node reachable from the    *)
(* handle is allocated, so no free in avlDeleteMin or avlDelete releases a *)
(* node the tree still links to.                                           *)
(***************************************************************************)
NoDangling == status # "destroyed" => Reach \subseteq alloc

(***************************************************************************)
(* No leak: every allocated node is reachable from the handle, so each     *)
(* node a deletion unlinks is freed; after avlDestroy nothing is left      *)
(* allocated.  Holds also after an abort at line 182, which allocates      *)
(* nothing.                                                                *)
(***************************************************************************)
NoLeak == alloc \subseteq (IF status = "destroyed" THEN {} ELSE Reach)

(***************************************************************************)
(* The pointer code computes what the value-level tree of AvlClient        *)
(* computes: reading the heap back as a tree value after every call gives  *)
(* the tree AvlTree's operators produce, with the same search and          *)
(* deleteMin results and the same crashes.                                 *)
(***************************************************************************)
Client == INSTANCE AvlClient WITH tree <- Value(t), crashed <- (status = "crashed")

RefinesClient == Client!Spec

=============================================================================

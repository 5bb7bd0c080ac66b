------------------------------ MODULE AvlHeap ------------------------------
(***************************************************************************)
(* The AVL tree of avlTreePineWiki.c at the level of pointers: nodes are   *)
(* struct avlNode records at addresses of a small heap, malloc hands out a *)
(* free address, free returns it, and each function takes, like the C,    *)
(* an AvlTree * slot: the caller's handle t or a child field of a node,    *)
(* and writes the slot in place.  avlRotate is the three pointer writes    *)
(* of lines 130-132.                                                       *)
(*                                                                         *)
(* A heap state is a record [mem, alloc, root]: mem maps every address to  *)
(* a node, alloc is the set of addresses malloc has handed out and free    *)
(* not yet taken back, root is the handle t.  A freed node's contents are  *)
(* reset to Garbage: correct code never reads them, and NoDangling checks  *)
(* that no pointer the code can follow leads to one.                       *)
(***************************************************************************)
EXTENDS Integers, FiniteSets

CONSTANTS
  AVL_EMPTY,     \* the null pointer, a model value
  DeleteGuard,   \* line 249 "as_written" or "fixed", as in AvlTree
  Keys,          \* the keys callers pass
  NoKey,         \* minValue before any avlDeleteMin returned
  Addr           \* the heap's addresses, model values

Val == INSTANCE AvlTree

Dirs == Val!Dirs

\* Memory malloc returns before lines 184-189 initialise it.
Garbage == [child |-> [d \in Dirs |-> AVL_EMPTY], key |-> NoKey, height |-> 0]

\* The AvlTree * slots: the handle t, or field child[dir] of node `node`.
RootSlot == [node |-> AVL_EMPTY, dir |-> 0]
ChildSlot(p, d) == [node |-> p, dir |-> d]

\* *t and *t = p.
Deref(s, sl) == IF sl.node = AVL_EMPTY THEN s.root ELSE s.mem[sl.node].child[sl.dir]
Store(s, sl, p) ==
  IF sl.node = AVL_EMPTY THEN [s EXCEPT !.root = p]
  ELSE [s EXCEPT !.mem[sl.node].child[sl.dir] = p]

\* p->child[d] = c.
SetChild(s, p, d, c) == [s EXCEPT !.mem[p].child[d] = c]

\* free(p).
Free(s, p) == [s EXCEPT !.alloc = @ \ {p}, !.mem[p] = Garbage]

avlGetHeight(s, p) == IF p # AVL_EMPTY THEN s.mem[p].height ELSE 0

RECURSIVE avlSearch(_, _, _)
\* Fault injection: descend right on key < p->key.
avlSearch_wrongDir(s, p, key) ==
  IF p = AVL_EMPTY THEN FALSE
  ELSE IF s.mem[p].key = key THEN TRUE
  ELSE avlSearch(s, s.mem[p].child[Val!Dir(key < s.mem[p].key)], key)

avlSearch(s, p, key) ==
  IF p = AVL_EMPTY THEN FALSE
  ELSE IF s.mem[p].key = key THEN TRUE
  ELSE avlSearch(s, s.mem[p].child[Val!Dir(key > s.mem[p].key)], key)

avlFixHeight(s, p) ==
  [s EXCEPT !.mem[p].height =
     1 + Val!Max(avlGetHeight(s, s.mem[p].child[0]), avlGetHeight(s, s.mem[p].child[1]))]

\* Fault injection: line 130 left out; oldRoot keeps newRoot as child[d].
avlRotate_noMiddle(s, root, d) ==
  LET oldRoot == Deref(s, root)
      newRoot == s.mem[oldRoot].child[d]
      s1      == Store(SetChild(s, newRoot, Val!Not(d), oldRoot), root, newRoot)
  IN  avlFixHeight(avlFixHeight(s1, oldRoot), newRoot)

\* Fault injection: the new root's height fixed before the old root's.
avlRotate_staleHeight(s, root, d) ==
  LET oldRoot   == Deref(s, root)
      newRoot   == s.mem[oldRoot].child[d]
      oldMiddle == s.mem[newRoot].child[Val!Not(d)]
      s1 == Store(SetChild(SetChild(s, oldRoot, d, oldMiddle), newRoot, Val!Not(d), oldRoot),
                  root, newRoot)
  IN  avlFixHeight(avlFixHeight(s1, newRoot), oldRoot)

(***************************************************************************)
(* avlRotate (lines 120-137): oldRoot->child[d] = oldMiddle,               *)
(* newRoot->child[!d] = oldRoot, *root = newRoot, then the heights of the  *)
(* old root, now child[!d] of *root, and of *root itself.                 *)
(***************************************************************************)
avlRotate(s, root, d) ==
  LET oldRoot   == Deref(s, root)
      newRoot   == s.mem[oldRoot].child[d]
      oldMiddle == s.mem[newRoot].child[Val!Not(d)]
      s1 == Store(SetChild(SetChild(s, oldRoot, d, oldMiddle), newRoot, Val!Not(d), oldRoot),
                  root, newRoot)
  IN  avlFixHeight(avlFixHeight(s1, s1.mem[Deref(s1, root)].child[Val!Not(d)]), Deref(s1, root))

TooTall(s, p, d) ==
  avlGetHeight(s, s.mem[p].child[d]) > avlGetHeight(s, s.mem[p].child[Val!Not(d)]) + 1

\* Fault injection: the rotations dropped, only the height is fixed.
avlRebalance_noRotate(s, t) ==
  IF Deref(s, t) = AVL_EMPTY THEN s ELSE avlFixHeight(s, Deref(s, t))

\* avlRebalance (lines 142-170) on slot t; at most one d is too tall.
avlRebalance(s, t) ==
  LET p == Deref(s, t)
  IN  IF p = AVL_EMPTY THEN s
      ELSE IF \E d \in Dirs : TooTall(s, p, d)
      THEN LET d == CHOOSE d \in Dirs : TooTall(s, p, d)
               c == s.mem[p].child[d]
           IN  IF avlGetHeight(s, s.mem[c].child[d]) > avlGetHeight(s, s.mem[c].child[Val!Not(d)])
               THEN avlRotate(s, t, d)
               ELSE avlRotate(avlRotate(s, ChildSlot(p, d), Val!Not(d)), t, d)
      ELSE avlFixHeight(s, p)

(***************************************************************************)
(* avlInsert (lines 175-204) on slot t; a is the address the one malloc of *)
(* the call returns (the caller checks that one is free).                  *)
(***************************************************************************)
RECURSIVE avlInsert(_, _, _, _)
avlInsert(s, t, key, a) ==
  LET p == Deref(s, t)
  IN  IF p = AVL_EMPTY
      THEN Store([s EXCEPT !.alloc = @ \cup {a},
                           !.mem[a] = [child |-> [d \in Dirs |-> AVL_EMPTY],
                                       key |-> key, height |-> 1]], t, a)
      ELSE IF key = s.mem[p].key THEN s
      ELSE avlRebalance(avlInsert(s, ChildSlot(p, Val!Dir(key > s.mem[p].key)), key, a), t)

RECURSIVE avlDeleteMin(_, _)
\* Fault injection: the unlinked node not freed.
avlDeleteMin_noFree(s, t) ==
  LET p == Deref(s, t)
  IN  IF s.mem[p].child[0] = AVL_EMPTY
      THEN [st |-> avlRebalance(Store(s, t, s.mem[p].child[1]), t), min |-> s.mem[p].key]
      ELSE LET r == avlDeleteMin(s, ChildSlot(p, 0))
           IN  [st |-> avlRebalance(r.st, t), min |-> r.min]

\* avlDeleteMin (lines 220-241) on slot t with *t non-empty: [st, min].
avlDeleteMin(s, t) ==
  LET p == Deref(s, t)
  IN  IF s.mem[p].child[0] = AVL_EMPTY
      THEN [st |-> avlRebalance(Free(Store(s, t, s.mem[p].child[1]), p), t), min |-> s.mem[p].key]
      ELSE LET r == avlDeleteMin(s, ChildSlot(p, 0))
           IN  [st |-> avlRebalance(r.st, t), min |-> r.min]

RECURSIVE avlDelete(_, _, _)
\* Fault injection: free(oldroot) after the if-else of lines 253-261, so the
\* node that took its successor's key is freed as well.
avlDelete_freeAlways(s, t, key) ==
  LET p == Deref(s, t)
  IN  IF Val!DeleteReturnsEarly(p) THEN s
      ELSE IF s.mem[p].key = key
      THEN IF s.mem[p].child[1] # AVL_EMPTY
           THEN LET r == avlDeleteMin(s, ChildSlot(p, 1))
                IN  avlRebalance(Free([r.st EXCEPT !.mem[p].key = r.min], p), t)
           ELSE avlRebalance(Free(Store(s, t, s.mem[p].child[0]), p), t)
      ELSE avlRebalance(avlDelete(s, ChildSlot(p, Val!Dir(key > s.mem[p].key)), key), t)

\* avlDelete (lines 244-268) on slot t, when it does not dereference null.
avlDelete(s, t, key) ==
  LET p == Deref(s, t)
  IN  IF Val!DeleteReturnsEarly(p) THEN s
      ELSE IF s.mem[p].key = key
      THEN IF s.mem[p].child[1] # AVL_EMPTY
           THEN LET r == avlDeleteMin(s, ChildSlot(p, 1))
                IN  avlRebalance([r.st EXCEPT !.mem[p].key = r.min], t)
           ELSE avlRebalance(Free(Store(s, t, s.mem[p].child[0]), p), t)
      ELSE avlRebalance(avlDelete(s, ChildSlot(p, Val!Dir(key > s.mem[p].key)), key), t)

RECURSIVE avlDestroy(_, _)
\* Fault injection: the right subtree not destroyed.
avlDestroy_leftOnly(s, p) ==
  IF p # AVL_EMPTY THEN Free(avlDestroy(s, s.mem[p].child[0]), p) ELSE s

\* avlDestroy (lines 48-56): both subtrees, then the node.
avlDestroy(s, p) ==
  IF p # AVL_EMPTY
  THEN LET s1 == avlDestroy(s, s.mem[p].child[0])
       IN  Free(avlDestroy(s1, s1.mem[p].child[1]), p)
  ELSE s

=============================================================================

------------------------------ MODULE AvlSet -------------------------------
(***************************************************************************)
(* What the AVL tree promises its callers (spec.md 6 and 8): an ordered    *)
(* set of integer keys.  insert adds a key (a duplicate is a no-op),       *)
(* delete removes one (an absent key is a no-op), deleteMin removes and    *)
(* returns the least key of a non-empty set, search reports membership.    *)
(***************************************************************************)
EXTENDS Integers

CONSTANTS Keys, NoKey

VARIABLES
  call,       \* the API call just made: [op, key]
  set,        \* the keys stored
  found,      \* the answer of the last search
  minValue    \* the key returned by the last deleteMin

vars == <<call, set, found, minValue>>

Call(op, k) == [op |-> op, key |-> k]

SetMin(S) == CHOOSE m \in S : \A x \in S : m <= x

Init == call = Call("none", NoKey) /\ set = {} /\ found = FALSE /\ minValue = NoKey

Insert(k) == call' = Call("insert", k) /\ set' = set \cup {k} /\ UNCHANGED <<found, minValue>>

Delete(k) == call' = Call("delete", k) /\ set' = set \ {k} /\ UNCHANGED <<found, minValue>>

DeleteMin ==
  /\ call' = Call("deleteMin", NoKey)
  /\ set # {}
  /\ minValue' = SetMin(set)
  /\ set' = set \ {SetMin(set)}
  /\ UNCHANGED found

Search(k) == call' = Call("search", k) /\ found' = (k \in set) /\ UNCHANGED <<set, minValue>>

Next == \E k \in Keys : Insert(k) \/ Delete(k) \/ DeleteMin \/ Search(k)

Spec == Init /\ [][Next]_vars

=============================================================================

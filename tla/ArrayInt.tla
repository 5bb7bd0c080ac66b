------------------------------ MODULE ArrayInt ------------------------------
(***************************************************************************)
(* array_int (array-sub-int.c): r accumulates a[i] - a[i-1] for i from 1   *)
(* below sz, one step per iteration.  int has W bits; a signed overflow    *)
(* is undefined behaviour, and the builds this fixture targets produce     *)
(* two's-complement wraparound, which Wrap models.  Inputs is a set of     *)
(* arrays, each a sequence (a[i] is a[i+1] of the sequence); sz is its     *)
(* length.  The i < sz test compares an int with a size_t, which is        *)
(* unsigned only for a negative i, and i starts at 1.                      *)
(***************************************************************************)
EXTENDS Integers, Sequences

CONSTANTS
  W,        \* width of int in bits
  Inputs    \* the arrays passed besides main's

ASSUME W \in Nat \ {0}

\* The W-bit two's-complement value of an integer.
Wrap(n) == LET m == n % 2^W IN IF m >= 2^(W-1) THEN m - 2^W ELSE m

VARIABLES a, i, r, pc

vars == <<a, i, r, pc>>

\* a[k] of the C array.
At(k) == a[k + 1]

\* main: int a[6] = {2, 3, 5, 7, 9, 11}; return array_int(a, 6).
MainArray == <<2, 3, 5, 7, 9, 11>>

\* array_int called by main, or on any array of Inputs.
Init == a \in Inputs \cup {MainArray} /\ i = 0 /\ r = 0 /\ pc = "entry"

\* Lines 10-11: r = 0; i = 1.
Start == pc = "entry" /\ r' = 0 /\ i' = 1 /\ pc' = "loop" /\ UNCHANGED a

\* Fault injection: r = a[i] - a[i-1] instead of +=.
Iterate_assign ==
  /\ pc = "loop" /\ i < Len(a)
  /\ r' = Wrap(At(i) - At(i - 1))
  /\ i' = i + 1
  /\ UNCHANGED <<a, pc>>

\* Line 12, then i++.
Iterate ==
  /\ pc = "loop" /\ i < Len(a)
  /\ r' = Wrap(r + Wrap(At(i) - At(i - 1)))
  /\ i' = i + 1
  /\ UNCHANGED <<a, pc>>

\* Line 11's test fails: return r (line 15).
Return == pc = "loop" /\ ~(i < Len(a)) /\ pc' = "done" /\ UNCHANGED <<a, i, r>>

Next == Start \/ Iterate \/ Return

Spec == Init /\ [][Next]_vars

-----------------------------------------------------------------------------
\* What the loop computes: the sum telescopes to a[sz-1] - a[0].
TelescopedSum(s) == IF Len(s) = 0 THEN 0 ELSE Wrap(s[Len(s)] - s[1])

(***************************************************************************)
(* array_int returns a[sz-1] - a[0] in W-bit arithmetic (0 for sz = 0),    *)
(* also when single differences a[i] - a[i-1], or the partial sums, wrap   *)
(* around: every wrap of an intermediate is undone by a later one.         *)
(***************************************************************************)
Telescopes == pc = "done" => r = TelescopedSum(a)

=============================================================================

-------------------------------- MODULE Ex ---------------------------------
(***************************************************************************)
(* foo of ex.c with the struct s laid out as the i386 ABI lays it out:     *)
(* 4-byte int words, char signed, little-endian.  Word 100+k is A[k];      *)
(* A[3] is word 103, whose low byte is n (then three bytes of padding);    *)
(* A[4] is `padding`; A[5] is word 105, whose low byte is state.  A[6] on  *)
(* lies past t, in foo's frame, whose layout the compiler chooses: a       *)
(* layout is the sequence of words from A[6] up to the return address,     *)
(* some of the local i and an alignment word "pad", in any order, then     *)
(* the saved %ebp and the return address.  Past it lies main's frame,      *)
(* which nothing of foo reads again.                                       *)
(*                                                                         *)
(* The uninitialized B: of B[0..5] only the low bytes of B[3] and B[5]     *)
(* are ever read (through n and state); A[0..2], `padding` and the upper  *)
(* bytes are written but never read: left out.  B[6] on are whole words,   *)
(* copied into the frame.                                                  *)
(*                                                                         *)
(* The store to t.A[3] is undefined behaviour; what a build reads back in  *)
(* the loop test is one of two outcomes: "reload" (t.n read from memory    *)
(* each time, as at -O0) or "hoisted" (t.n kept as the 3 just stored).     *)
(***************************************************************************)
EXTENDS Integers, Sequences, SequencesExt

CONSTANTS
  NBytes,      \* low bytes the uninitialized B[3] may hold, within 0..255
  StateBytes,  \* low bytes the uninitialized B[5] may hold, within 0..255
  Layouts,     \* the frame layouts a build may produce
  FrameWords,  \* words the uninitialized B[6..] may hold
  AddrReach,   \* address of main's call of REACHABLE()
  RetMain,     \* foo's return address, in main
  SavedEbp     \* main's %ebp, saved in foo's frame

VARIABLES B, layout, n, state, i, frame, build, pc, ret

vars == <<B, layout, n, state, i, frame, build, pc, ret>>

\* A byte read as a (signed) char.
SChar(b) == IF b >= 128 THEN b - 256 ELSE b

\* The index k of the word A[k] that is the return address.
RetIdx(l) == 5 + Len(l)

\* t.n = 3; t.state = 7; i = 0.
Init ==
  /\ layout \in Layouts
  /\ B \in {[k \in {3, 5} \cup 6..RetIdx(layout) |-> CASE k = 3 -> b3 [] k = 5 -> b5 [] OTHER -> w[k]] :
              b3 \in NBytes, b5 \in StateBytes, w \in [6..RetIdx(layout) -> FrameWords]}
  /\ build \in {"reload", "hoisted"}
  /\ n = 3 /\ state = 7 /\ i = 0
  /\ frame = [ebp |-> SavedEbp, ret |-> RetMain]
  /\ pc = "test" /\ ret = 0

\* Fault injection: the loop bound i < t.n, as the array's length suggests.
Test_strict ==
  /\ pc = "test"
  /\ pc' = IF i < (IF build = "reload" THEN n ELSE 3) THEN "body" ELSE "check"
  /\ UNCHANGED <<B, layout, n, state, i, frame, build, ret>>

\* for (...; i <= t.n; ...)
Test ==
  /\ pc = "test"
  /\ pc' = IF i <= (IF build = "reload" THEN n ELSE 3) THEN "body" ELSE "check"
  /\ UNCHANGED <<B, layout, n, state, i, frame, build, ret>>

\* The frame word A[k] is, for k > 5: a name of the layout, or "main".
Word(k) == IF k - 5 <= Len(layout) THEN layout[k - 5] ELSE "main"

\* Fault injection: i++ lost after a store.
Body_noIncrement ==
  /\ pc = "body"
  /\ n'     = IF i = 3 THEN SChar(B[3]) ELSE n
  /\ state' = IF i = 5 THEN SChar(B[5]) ELSE state
  /\ frame' = IF i > 5 /\ Word(i) \in {"ebp", "ret"} THEN [frame EXCEPT ![Word(i)] = B[i]] ELSE frame
  /\ i' = IF i > 5 /\ Word(i) = "i" THEN B[i] ELSE i
  /\ pc' = "test"
  /\ UNCHANGED <<B, layout, build, ret>>

\* t.A[i] = t.B[i]; i++.  In t only n and state are kept; past t the store
\* hits the saved %ebp, the return address, i itself (which then goes on
\* from B[i] + 1), the alignment word or main's frame.
Body ==
  /\ pc = "body"
  /\ n'     = IF i = 3 THEN SChar(B[3]) ELSE n
  /\ state' = IF i = 5 THEN SChar(B[5]) ELSE state
  /\ frame' = IF i > 5 /\ Word(i) \in {"ebp", "ret"} THEN [frame EXCEPT ![Word(i)] = B[i]] ELSE frame
  /\ i' = (IF i > 5 /\ Word(i) = "i" THEN B[i] ELSE i) + 1
  /\ pc' = "test"
  /\ UNCHANGED <<B, layout, build, ret>>

\* if (t.state == 8) return 1; return 0; then leave; ret through the
\* return address: into main, to main's call of REACHABLE(), or elsewhere.
Check ==
  /\ pc = "check"
  /\ ret' = IF state = 8 THEN 1 ELSE 0
  /\ pc' = CASE frame.ret = RetMain   -> "main"
             [] frame.ret = AddrReach -> "reachable"
             [] OTHER                 -> "wild"
  /\ UNCHANGED <<B, layout, n, state, i, frame, build>>

\* main: if (foo() == 1) REACHABLE(); return 0, whose leave restores the
\* %ebp foo's frame held.
main ==
  /\ pc = "main"
  /\ pc' = CASE ret = 1               -> "reachable"
             [] frame.ebp = SavedEbp  -> "exit"
             [] OTHER                 -> "badframe"
  /\ UNCHANGED <<B, layout, n, state, i, frame, build, ret>>

Next == Test \/ Body \/ Check \/ main

Spec == Init /\ [][Next]_vars

-----------------------------------------------------------------------------
Ended == pc \in {"reachable", "exit", "badframe", "wild"}

(***************************************************************************)
(* The two routes of the summary, made exact by the layout.  main reaches  *)
(* REACHABLE() only (i) through state = 8 with the loop run up to A[5], or *)
(* (ii) through a return address the loop overwrote with B's word holding  *)
(* the call site.  And each route is taken when it is open: (i) when the   *)
(* build reloads t.n, B[5] makes state 8 and B[3]'s low byte sets n to 5   *)
(* (4 stops the loop before state; a larger n runs it into the frame,      *)
(* which may still let foo return 1, as n = 6 does with an alignment word  *)
(* or the saved %ebp above t, so only n = 5 is required to reach it),      *)
(* (ii) when n reaches the return address and i does not lie below it.    *)
(***************************************************************************)
ReachableOnlyThroughState ==
  Ended =>
    /\ pc = "reachable" =>
         /\ build = "reload"
         /\ \/ SChar(B[3]) >= 5 /\ SChar(B[5]) = 8
            \/ SChar(B[3]) >= RetIdx(layout) /\ B[RetIdx(layout)] = AddrReach
    /\ build = "reload" /\ SChar(B[3]) = 5 /\ SChar(B[5]) = 8 => pc = "reachable"
    /\ /\ build = "reload" /\ "i" \notin ToSet(layout)
       /\ SChar(B[3]) >= RetIdx(layout) /\ B[RetIdx(layout)] = AddrReach
       => pc = "reachable"

(***************************************************************************)
(* foo returns, unless the loop overwrites its own counter: with i kept    *)
(* below t or in a register, or with t.n hoisted, every run of the loop    *)
(* ends.  (With i among the words it writes, a small B word sends i back   *)
(* and the loop runs for ever.)                                            *)
(***************************************************************************)
LoopEnds == "i" \notin ToSet(layout) \/ build = "hoisted" => <>Ended

=============================================================================

-------------------------------- MODULE Efm ---------------------------------
(***************************************************************************)
(* efm.c (from StInG): six unsigned counters X1..X6 that start in the      *)
(* state the guard of line 37 admits, then change by a loop whose          *)
(* iterations are chosen by the external MakeChoice().  Inside an          *)
(* iteration the transition of lines 43-48 has priority: foo and bar run   *)
(* only when it is disabled.  After the loop, line 68 returns through      *)
(* UNREACHABLE() if its linear check fails.                                *)
(*                                                                         *)
(* All six counters are read uninitialized (undefined behaviour): any      *)
(* valuation in 0..MaxX1 is a possible start, and line 37 either admits it *)
(* or main returns at once.  MaxX1 bounds X1, the one counter the guard    *)
(* leaves free.  X1+X2+X3 and X4+X5+X6 are conserved by every transition,  *)
(* so after the guard no counter exceeds MaxX1 and none can wrap.          *)
(***************************************************************************)
EXTENDS Naturals

CONSTANT MaxX1   \* largest initial X1 tried

ASSUME MaxX1 \in Nat \ {0}

VARIABLES
  X,     \* X[1..6], the counters X1..X6
  pc     \* "entry", "while" at the loop test, "body" inside an iteration,
         \* "done" after line 68, "returned" when line 37 fails

vars == <<X, pc>>

Idx == 1..6

Init == X \in [Idx -> 0..MaxX1] /\ pc = "entry"

\* Line 37: X1 >= 1, X2 = X3 = 0, X4 = 1, X5 = X6 = 0.
EntryGuard == X[1] >= 1 /\ X[2] = 0 /\ X[3] = 0 /\ X[4] = 1 /\ X[5] = 0 /\ X[6] = 0

\* Line 37 admits the valuation: the loop starts.
Enter == pc = "entry" /\ EntryGuard /\ pc' = "while" /\ UNCHANGED X

\* Line 37 fails: main falls through to its end.
Reject == pc = "entry" /\ ~EntryGuard /\ pc' = "returned" /\ UNCHANGED X

\* Line 68, the condition under which main does NOT reach UNREACHABLE.
\* X5 < 0, X4 < 0, X3 < 0 and X2 < 0 are unsigned and never hold.
ExitCheckPasses ==
  /\ X[4] + X[5] + X[6] = 1
  /\ X[4] + X[5] <= 1
  /\ X[1] + X[5] >= 1
  /\ X[1] + X[2] >= X[4] + X[5]
  /\ X[1] + X[2] + X[3] >= 1

\* The guard of the first inner transition (line 43).
FirstEnabled == X[1] >= 1 /\ X[4] >= 1

\* Fault injection: line 45, X4 = X4 - 1, left out.
First_keepX4 == X' = [X EXCEPT ![1] = @ - 1, ![2] = @ + 1, ![5] = @ + 1]

\* Lines 44-47.
First == X' = [X EXCEPT ![1] = @ - 1, ![4] = @ - 1, ![2] = @ + 1, ![5] = @ + 1]

\* Fault injection: foo without its *comp >= 1 test.
foo_noComp(comp, sub, add) ==
  IF X[sub] >= 1
  THEN X' = [X EXCEPT ![sub] = @ - 1, ![add] = @ + 1]
  ELSE UNCHANGED X

\* foo(comp, sub, add): if sub >= 1 and comp >= 1, move one from sub to add.
foo(comp, sub, add) ==
  IF X[sub] >= 1 /\ X[comp] >= 1
  THEN X' = [X EXCEPT ![sub] = @ - 1, ![add] = @ + 1]
  ELSE UNCHANGED X

\* Fault injection: bar without *dec = *dec - 1.
bar_noDec(dec, inc, added, zeroed) ==
  IF X[dec] >= 1
  THEN X' = [X EXCEPT ![inc] = @ + 1, ![added] = @ + X[zeroed], ![zeroed] = 0]
  ELSE UNCHANGED X

\* bar(dec, inc, added, zeroed): if dec >= 1, move one from dec to inc and
\* move all of zeroed into added.
bar(dec, inc, added, zeroed) ==
  IF X[dec] >= 1
  THEN X' = [X EXCEPT ![dec] = @ - 1, ![inc] = @ + 1,
                      ![added] = @ + X[zeroed], ![zeroed] = 0]
  ELSE UNCHANGED X

\* The while test: MakeChoice() & 1 is 1, an iteration starts.
LoopEnter == pc = "while" /\ pc' = "body" /\ UNCHANGED X

\* The while test reads 0: main leaves the loop and runs line 68.
LoopExit == pc = "while" /\ pc' = "done" /\ UNCHANGED X

\* One iteration (lines 41-65).  The outer MakeChoice() may skip it; when it
\* does not, the first transition runs if enabled, else the else-if chain
\* of further MakeChoice() calls picks one of foo/foo/bar/bar.
Iteration ==
  /\ pc = "body"
  /\ pc' = "while"
  /\ \/ UNCHANGED X
     \/ FirstEnabled /\ First
     \/ /\ ~FirstEnabled
        /\ \/ foo(6, 2, 3)
           \/ foo(4, 3, 2)
           \/ bar(3, 1, 6, 5)
           \/ bar(2, 1, 4, 6)

Next == Enter \/ Reject \/ LoopEnter \/ LoopExit \/ Iteration

Spec == Init /\ [][Next]_vars

-----------------------------------------------------------------------------
TypeOK == X \in [Idx -> 0..MaxX1] /\ pc \in {"entry", "while", "body", "done", "returned"}

(***************************************************************************)
(* main never reaches the UNREACHABLE() of line 70: whenever MakeChoice    *)
(* ends the loop, the linear check of line 68 holds.  It rests on foo and  *)
(* bar moving tokens between the counters without creating or losing      *)
(* any, bar's reset of zeroed included, and on the priority of the first   *)
(* transition.                                                             *)
(***************************************************************************)
NeverUnreachable == pc = "done" => ExitCheckPasses

(***************************************************************************)
(* From the start state line 37 admits, X3 and X6 stay 0 for ever, so the  *)
(* calls foo(&X6, ..) at line 51, foo(&X4, &X3, ..) at line 55 and         *)
(* bar(&X3, ..) at line 59 never change anything: foo(&X6, ..) needs       *)
(* X6 >= 1, X6 grows only in bar(&X3, ..), which needs X3 >= 1, which      *)
(* only foo(&X6, ..) provides.  The check of line 68 is thus exercised by  *)
(* the first transition and bar(&X2, &X1, &X4, &X6) alone.                 *)
(***************************************************************************)
ChainCallsInert == pc \in {"while", "body", "done"} => X[3] = 0 /\ X[6] = 0

=============================================================================

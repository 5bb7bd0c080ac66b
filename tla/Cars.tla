-------------------------------- MODULE Cars --------------------------------
(***************************************************************************)
(* cars.c (from StInG): three cars with positions x1..x3 and speeds        *)
(* v1..v3, all unsigned int, and a clock t.  The speeds are read           *)
(* uninitialized and filtered by the guard of line 44; the loop of line 46 *)
(* runs as long as the external MakeChoice() says; line 60 returns through *)
(* UNREACHABLE() if its linear check fails.                                *)
(*                                                                         *)
(* Every value is an unsigned integer of W bits: each arithmetic result is *)
(* taken % 2^W, and a signed constant compared with an unsigned value is   *)
(* converted to unsigned first (C's usual arithmetic conversions).         *)
(***************************************************************************)
EXTENDS Integers

CONSTANTS
  W,            \* width of unsigned int in bits
  UninitValues  \* the values an uninitialized speed may hold

ASSUME W \in Nat /\ 2^W > 100 /\ UninitValues \subseteq 0..(2^W - 1)

VARIABLES
  x,     \* <<x1, x2, x3>>
  v,     \* <<v1, v2, v3>>
  t,
  pc     \* "entry", "while", "body", "done" (after line 60), "returned"

vars == <<x, v, t, pc>>

\* Reduction to unsigned int.
U(n) == n % 2^W

\* Lines 39-42; v1..v3 are whatever the stack holds.
Init ==
  /\ x = <<U(100), U(75), U(-50)>>
  /\ t = 0
  /\ v \in [1..3 -> UninitValues]
  /\ pc = "entry"

\* Fault injection: the v1 <= 5 conjunct of line 44 dropped.
EntryGuard_noV1Bound ==
  /\ v[3] >= 0
  /\ U(v[1] - v[3]) >= 0
  /\ U(2 * v[2] - v[1] - v[3]) = 0
  /\ U(v[2] + 5) >= 0
  /\ v[2] <= 5

\* Line 44.  v3 >= 0, v1 - v3 >= 0 and v2 + 5 >= 0 compare unsigned values
\* with 0 and always hold.
EntryGuard ==
  /\ v[3] >= 0
  /\ v[1] <= 5
  /\ U(v[1] - v[3]) >= 0
  /\ U(2 * v[2] - v[1] - v[3]) = 0
  /\ U(v[2] + 5) >= 0
  /\ v[2] <= 5

\* Fault injection: the comparison of line 48 made in signed arithmetic.
InSpeedRange_signed(s) == -5 <= s /\ s <= 5

\* Line 48: -5 <= v2 && v2 <= 5, with -5 converted to unsigned int.
InSpeedRange(s) == U(-5) <= s /\ s <= 5

\* doThen (lines 9-17) and doElse (lines 19-27): every car moves by its
\* speed, the clock ticks, and v2 goes down (doThen) or up (doElse).
Move(dv2) ==
  /\ x' = [i \in 1..3 |-> U(x[i] + v[i])]
  /\ v' = [v EXCEPT ![2] = U(@ + dv2)]
  /\ t' = U(t + 1)

doThen == Move(-1)

doElse == Move(1)

Enter == pc = "entry" /\ EntryGuard /\ pc' = "while" /\ UNCHANGED <<x, v, t>>

Reject == pc = "entry" /\ ~EntryGuard /\ pc' = "returned" /\ UNCHANGED <<x, v, t>>

\* Line 46, MakeChoice() & 1 is 1.
LoopEnter == pc = "while" /\ pc' = "body" /\ UNCHANGED <<x, v, t>>

\* Line 46, MakeChoice() & 1 is 0: on to line 60.
LoopExit == pc = "while" /\ pc' = "done" /\ UNCHANGED <<x, v, t>>

\* Lines 48-58.  2*x2 - x1 - x3 >= 0 at line 50 is unsigned, so it always
\* holds and doElse is never called.
Body ==
  /\ pc = "body"
  /\ pc' = "while"
  /\ IF InSpeedRange(v[2])
     THEN IF U(2 * x[2] - x[1] - x[3]) >= 0 THEN doThen ELSE doElse
     ELSE UNCHANGED <<x, v, t>>

Next == Enter \/ Reject \/ LoopEnter \/ LoopExit \/ Body

Spec == Init /\ [][Next]_vars

\* Lines 60-61, the condition under which UNREACHABLE() is called.  The
\* tests v3 < 0, v2 + 6 < 0, v1 - 2*v2 + v3 + 2*t < 0 and v1 - v3 < 0 are
\* unsigned and never hold.
ExitCheckFails ==
  \/ v[1] > 5
  \/ U(2 * v[2] + 2 * t) < U(v[1] + v[3])
  \/ U(5 * t + 75) < x[2]
  \/ v[2] > 6
  \/ v[3] < 0
  \/ U(v[2] + 6) < 0
  \/ U(x[2] + 5 * t) < 75
  \/ U(v[1] - 2 * v[2] + v[3] + 2 * t) < 0
  \/ U(v[1] - v[3]) < 0

-----------------------------------------------------------------------------
(***************************************************************************)
(* The loop body of line 48 never runs: -5 becomes 2^W - 5 as unsigned,    *)
(* and no v2 is both >= 2^W - 5 and <= 5.  Positions, speeds and clock     *)
(* keep the values main gave them before the loop, however often          *)
(* MakeChoice() lets it iterate.                                           *)
(***************************************************************************)
LoopBodyDead ==
  pc \in {"while", "body", "done"} =>
    /\ x = <<U(100), U(75), U(-50)>>
    /\ t = 0

(***************************************************************************)
(* main never reaches the UNREACHABLE() of line 62: the entry guard makes  *)
(* 2*v2 equal to v1 + v3 modulo 2^W, and every other test of line 60 is    *)
(* false for the values the loop leaves.                                   *)
(***************************************************************************)
NeverUnreachable == pc = "done" => ~ExitCheckFails

=============================================================================

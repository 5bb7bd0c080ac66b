-------------------------------- MODULE Duff --------------------------------
(***************************************************************************)
(* switch_duffs_device (switches-static-duffs-device.c): Duff's device.    *)
(* The switch on count % 8 jumps into a do-while loop unrolled eight       *)
(* times; each statement copies *from++ into the device register *to, and *)
(* the loop repeats while --n > 0, with n = (count + 7) / 8.               *)
(*                                                                         *)
(* from is the offset of the pointer from its initial value; to is the     *)
(* offset of the element the register last received (NoCopy before the    *)
(* first).  remaining is the place in the unrolled body: the label case k  *)
(* has k copies left before the while test, case 0 has all 8.  count is a *)
(* K&R int parameter; C's / and % truncate toward zero.                    *)
(*                                                                         *)
(* caller is "any" for a call with a count from Counts and pointers into   *)
(* mapped memory, or "main" for main's call switch_duffs_device(1, 8, 7):  *)
(* with no prototype the ints 1 and 8 arrive as the pointers to and from.  *)
(* Addresses below NullPage are unmapped, and an access there faults.      *)
(***************************************************************************)
EXTENDS Integers

CONSTANTS
  Counts,     \* the argument values tried
  MaxCopies,  \* bound on the elements read; above every call's copies
  NullPage    \* the first mapped address

ASSUME Counts \subseteq Int /\ MaxCopies \in Nat /\ NullPage \in Nat

NoCopy == -1

VARIABLES caller, count, n, from, to, remaining, pc

vars == <<caller, count, n, from, to, remaining, pc>>

\* The initial addresses of from and to: main's 8 and 1, or a mapped buffer.
FromBase(c) == IF c = "main" THEN 8 ELSE NullPage
ToAddr(c)   == IF c = "main" THEN 1 ELSE NullPage

\* C's integer division and remainder, truncating toward zero.
CDiv(a, b) == IF a >= 0 THEN a \div b ELSE -((-a) \div b)

CRem(a, b) == a - b * CDiv(a, b)

Init ==
  /\ \/ caller = "any" /\ count \in Counts
     \/ caller = "main" /\ count = 7
  /\ n = 0 /\ from = 0 /\ to = NoCopy /\ remaining = 0
  /\ pc = "entry"

\* Fault injection: the + 7 of line 5 left out.
Passes_noRoundUp(c) == CDiv(c, 8)

\* count + 7 as a 32-bit int.  Past INT_MAX the sum is undefined behaviour;
\* the unoptimised i386 build's addl wraps it to a negative value.  (An
\* optimiser may instead compute the exact quotient: 2^28 passes, beyond
\* any bound on the copies this model can explore.)
IntMax == 2147483647

Plus7(c) == IF c > IntMax - 7 THEN (c - IntMax - 1) + (7 - IntMax - 1) ELSE c + 7

\* Line 5: the number of passes through the loop.
Passes(c) == CDiv(Plus7(c), 8)

\* The copies the switch label for remainder r leaves in the first pass.
LabelCopies(r) == IF r = 0 THEN 8 ELSE r

\* Lines 5-7: n is set and the switch jumps to case count % 8.  A negative
\* count leaves a negative remainder, which matches no case: the switch,
\* and the function, end without copying.
Switch ==
  /\ pc = "entry"
  /\ n' = Passes(count)
  /\ LET r == CRem(count, 8)
     IN  IF r \in 0..7
         THEN remaining' = LabelCopies(r) /\ pc' = "copy"
         ELSE remaining' = 0 /\ pc' = "done"
  /\ UNCHANGED <<caller, count, from, to>>

\* One of lines 8-15: *to = *from++, a short read at from and written at to;
\* an unmapped address faults.
Copy ==
  /\ pc = "copy"
  /\ from < MaxCopies
  /\ IF FromBase(caller) + 2 * from >= NullPage /\ ToAddr(caller) >= NullPage
     THEN /\ to' = from
          /\ from' = from + 1
          /\ remaining' = remaining - 1
          /\ pc' = IF remaining = 1 THEN "test" ELSE "copy"
     ELSE pc' = "fault" /\ UNCHANGED <<from, to, remaining>>
  /\ UNCHANGED <<caller, count, n>>

\* Fault injection: the while test without the pre-decrement of n.
WhileTest_noDecrement ==
  /\ pc = "test"
  /\ UNCHANGED n
  /\ IF n > 0
     THEN remaining' = 8 /\ pc' = "copy"
     ELSE UNCHANGED remaining /\ pc' = "done"
  /\ UNCHANGED <<caller, count, from, to>>

\* Line 16: while (--n > 0), back to case 0 or out of the loop.
WhileTest ==
  /\ pc = "test"
  /\ n' = n - 1
  /\ IF n - 1 > 0
     THEN remaining' = 8 /\ pc' = "copy"
     ELSE UNCHANGED remaining /\ pc' = "done"
  /\ UNCHANGED <<caller, count, from, to>>

Next == Switch \/ Copy \/ WhileTest

Spec == Init /\ [][Next]_vars /\ WF_vars(Next)

-----------------------------------------------------------------------------
TypeOK ==
  /\ count \in Counts
  /\ n \in Int /\ from \in 0..MaxCopies /\ to \in Nat \cup {NoCopy}
  /\ remaining \in 0..8
  /\ pc \in {"entry", "copy", "test", "done", "fault"}

(***************************************************************************)
(* When the function returns it has read count elements for a positive     *)
(* count; 8 for any other count divisible by 8, 0 and -8 included (case 0 *)
(* enters the loop body before --n is tested); none for the remaining      *)
(* negative counts, whose negative remainder matches no case.  The         *)
(* register holds the last element read: the partial                      *)
(* first pass chosen by the switch and the n - 1 full passes of the        *)
(* do-while add up to that.  A count within 7 of INT_MAX is the exception: *)
(* count + 7 wraps, n is negative, and only the first, partial pass runs.  *)
(***************************************************************************)
CopiesExactly ==
  pc = "done" =>
    /\ from = CASE count > IntMax - 7 -> CRem(count, 8)
                [] count > 0           -> count
                [] CRem(count, 8) = 0  -> 8
                [] OTHER               -> 0
    /\ to = from - 1

(***************************************************************************)
(* The function returns, or faults: the loop of line 16 counts n down to 0 *)
(* for every argument.  The function is sequential and its next step is    *)
(* always enabled until it ends, which justifies weak fairness.            *)
(***************************************************************************)
Terminates == <>(pc \in {"done", "fault"})

=============================================================================

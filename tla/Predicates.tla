---------------------------- MODULE Predicates ----------------------------
(***************************************************************************)
(* main of avr8/predicates-001.c: the 8-bit I/O register PORTB, which may  *)
(* hold any byte, read into the signed i8 n (a byte above 127 becomes      *)
(* negative), then the range test and the return.                          *)
(***************************************************************************)
EXTENDS Integers

VARIABLES n, pc, ret

vars == <<n, pc, ret>>

\* The conversion of a byte to int8_t (two's complement, as avr-gcc does).
I8(b) == IF b > 127 THEN b - 256 ELSE b

Init == n = 0 /\ pc = "read" /\ ret = 0

\* i8 n = PORTB;
Read == pc = "read" /\ \E b \in 0..255 : n' = I8(b) /\ pc' = "test" /\ UNCHANGED ret

\* n > 0 && n < 10
InRange(v) == v > 0 /\ v < 10

\* if (...) return n (at "then", where the source notes n \in [1, 9]); return 0;
Test ==
  /\ pc = "test"
  /\ pc' = IF InRange(n) THEN "then" ELSE "else"
  /\ UNCHANGED <<n, ret>>
Return == \/ pc = "then" /\ ret' = n /\ pc' = "done" /\ UNCHANGED n
          \/ pc = "else" /\ ret' = 0 /\ pc' = "done" /\ UNCHANGED n

Next == Read \/ Test \/ Return

Spec == Init /\ [][Next]_vars

=============================================================================

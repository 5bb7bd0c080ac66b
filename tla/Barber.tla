------------------------------ MODULE Barber -------------------------------
(***************************************************************************)
(* barber.c (from StInG): a barber shop as a loop whose body runs one of  *)
(* twelve guarded transitions, selected by an if-else chain of eleven      *)
(* tests of (uninitialized & 1) and repeated while (uninitialized2 & 1).   *)
(* Each test is one step, since each reads the variable anew.              *)
(*                                                                         *)
(* Reading the uninitialized locals is undefined behaviour.  A -O0 build   *)
(* reads the same garbage bit every time (only branch 1 or the final else  *)
(* runs); an optimising build may treat every read as a fresh undef value  *)
(* (any branch, any number of iterations).  The model lets every read      *)
(* return either bit, which contains both outcomes.                        *)
(*                                                                         *)
(* p[1..4] are the customers' waiting_seat flags p1..p4 and p5 is the      *)
(* barber's state: 0 idle, 1 free, 2 seated a customer, 3 open.  All are  *)
(* unsigned int; every decrement is guarded by >= 1, so none wraps.       *)
(***************************************************************************)
EXTENDS Naturals, FiniteSets

Customers == 1..4

VARIABLES
  barber,   \* free barbers (the free_barbers argument)
  chair,    \* used chairs (the used_chairs argument)
  open,     \* open service slots (serve_customer's open)
  p,        \* p[c] = pc, customer c's waiting_seat
  p5,       \* the barber's state
  pc,       \* "while" (loop test), "chain" (in the if-else chain), "done"
  test,     \* the chain test pc = "chain" is at, 1..11
  ret       \* main's return value once pc = "done"

vars == <<barber, chair, open, p, p5, pc, test, ret>>

Init ==
  /\ barber = 0 /\ chair = 0 /\ open = 0
  /\ p = [c \in Customers |-> 0] /\ p5 = 0
  /\ pc = "while" /\ test = 1 /\ ret = 0

\* The test at line 106: the program returns 1 (UNREACHABLE) if it fails.
ExitCheckPasses ==
  /\ p5 >= open /\ p5 <= 3
  /\ \A c \in Customers : p[c] <= 1

\* Fault injection: the reset of waiting_seat dropped from serve_customer.
serve_customer_keepSeat(c) ==
  IF p[c] = 1 /\ open >= 1
  THEN open' = open - 1 /\ UNCHANGED <<barber, chair, p, p5>>
  ELSE UNCHANGED <<barber, chair, open, p, p5>>

new_customer(c) ==
  IF p[c] = 0 /\ barber >= 1
  THEN /\ barber' = barber - 1 /\ chair' = chair + 1
       /\ p' = [p EXCEPT ![c] = 1]
       /\ UNCHANGED <<open, p5>>
  ELSE UNCHANGED <<barber, chair, open, p, p5>>

serve_customer(c) ==
  IF p[c] = 1 /\ open >= 1
  THEN open' = open - 1 /\ p' = [p EXCEPT ![c] = 0] /\ UNCHANGED <<barber, chair, p5>>
  ELSE UNCHANGED <<barber, chair, open, p, p5>>

\* The barber's four inline branches (lines 76-99).
BarberFree ==
  IF p5 = 0 THEN barber' = barber + 1 /\ p5' = 1 /\ UNCHANGED <<chair, open, p>>
  ELSE UNCHANGED <<barber, chair, open, p, p5>>

\* Fault injection: the chair >= 1 guard dropped from the barber's seating.
BarberSeats_noChairCheck ==
  IF p5 = 1 THEN chair' = chair - 1 /\ p5' = 2 /\ UNCHANGED <<barber, open, p>>
  ELSE UNCHANGED <<barber, chair, open, p, p5>>

BarberSeats ==
  IF p5 = 1 /\ chair >= 1 THEN chair' = chair - 1 /\ p5' = 2 /\ UNCHANGED <<barber, open, p>>
  ELSE UNCHANGED <<barber, chair, open, p, p5>>

BarberOpens ==
  IF p5 = 2 THEN open' = open + 1 /\ p5' = 3 /\ UNCHANGED <<barber, chair, p>>
  ELSE UNCHANGED <<barber, chair, open, p, p5>>

\* Fault injection: the barber goes idle without waiting for open = 0.
BarberResets_noWait ==
  IF p5 = 3 THEN p5' = 0 /\ UNCHANGED <<barber, chair, open, p>>
  ELSE UNCHANGED <<barber, chair, open, p, p5>>

BarberResets ==
  IF p5 = 3 /\ open = 0 THEN p5' = 0 /\ UNCHANGED <<barber, chair, open, p>>
  ELSE UNCHANGED <<barber, chair, open, p, p5>>

\* Branch k of the if-else chain (lines 46-104); 12 is the final else.
Branch(k) ==
  CASE k = 1  -> new_customer(1)  [] k = 2  -> new_customer(2)
    [] k = 3  -> serve_customer(2) [] k = 4  -> new_customer(3)
    [] k = 5  -> serve_customer(3) [] k = 6  -> new_customer(4)
    [] k = 7  -> serve_customer(4) [] k = 8  -> BarberFree
    [] k = 9  -> BarberSeats       [] k = 10 -> BarberOpens
    [] k = 11 -> BarberResets      [] k = 12 -> serve_customer(1)

Tests == 1..11

\* The while test reads 1: the chain starts at its first test.
LoopEnter ==
  /\ pc = "while"
  /\ pc' = "chain" /\ test' = 1
  /\ UNCHANGED <<barber, chair, open, p, p5, ret>>

\* The while test reads 0: main runs the check of line 106 and returns.
LoopExit ==
  /\ pc = "while"
  /\ pc' = "done"
  /\ ret' = IF ExitCheckPasses THEN 0 ELSE 1
  /\ UNCHANGED <<barber, chair, open, p, p5, test>>

\* The current test reads 1: its branch runs, back to the while test.
TakeBranch ==
  /\ pc = "chain"
  /\ Branch(test)
  /\ pc' = "while" /\ test' = 1
  /\ UNCHANGED ret

\* The current test reads 0 and is not the last: on to the next test.
NextTest ==
  /\ pc = "chain" /\ test < 11
  /\ test' = test + 1
  /\ UNCHANGED <<barber, chair, open, p, p5, pc, ret>>

\* The last test reads 0: the final else serves customer 1.
ElseBranch ==
  /\ pc = "chain" /\ test = 11
  /\ Branch(12)
  /\ pc' = "while" /\ test' = 1
  /\ UNCHANGED ret

Next == LoopEnter \/ LoopExit \/ TakeBranch \/ NextTest \/ ElseBranch

Spec == Init /\ [][Next]_vars

-----------------------------------------------------------------------------
TypeOK ==
  /\ {barber, chair, open} \subseteq Nat /\ p \in [Customers -> Nat]
  /\ p5 \in 0..3 /\ pc \in {"while", "chain", "done"} /\ test \in Tests /\ ret \in {0, 1}

(***************************************************************************)
(* The UNREACHABLE() of line 109 is unreachable: whatever branches the     *)
(* undefined reads select and whenever the loop stops, the check of line   *)
(* 106 passes (in particular the barber's state p5 >= open).               *)
(***************************************************************************)
NeverReturnsOne == pc = "done" => ret = 0

(***************************************************************************)
(* Every waiting customer is accounted for: the number of customers with   *)
(* waiting_seat = 1 equals the used chairs, plus the customer the barber   *)
(* has seated but not yet opened for (p5 = 2), plus the open slots.        *)
(* new_customer, serve_customer and the barber's steps must move one       *)
(* customer between these together.                                        *)
(***************************************************************************)
Waiting == Cardinality({c \in Customers : p[c] = 1})

CustomersAccounted == Waiting = chair + open + (IF p5 = 2 THEN 1 ELSE 0)

=============================================================================

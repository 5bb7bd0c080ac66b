--------------------------- MODULE InstrAliasing ---------------------------
(***************************************************************************)
(* The two instruction-aliasing fixtures of src/asm at the level of the    *)
(* i386 instructions of their asm blocks.  The immediate of               *)
(* "L1: mov $0x5bd0ff53, reg" is the byte string 53 ff d0 5b, which read   *)
(* from L1+1 is "push %ebx; call *%eax; pop %ebx"; the block runs L1 once  *)
(* as a mov, then jumps into its middle and runs it as the call of foo.    *)
(*                                                                         *)
(*   "global": mcveto-instraliasing.c, foo(int a) adds a to a global n,    *)
(*             and the jump target is loaded into %ebx;                    *)
(*   "stack":  mcveto-instraliasing-stack.c, foo(int *a) adds 4 to *a,     *)
(*             %ebx holds the address of main's local n (-4(%ebp), GCC     *)
(*             -O0 frame) and the jump target is loaded into %edx.         *)
(*                                                                         *)
(* Code and stack addresses are integers (CONSTANTS), words held as signed *)
(* 32-bit values, so that a pointer passed where an int is expected is     *)
(* added as the number it is.  The only sum, 3 or 4 plus a text address,   *)
(* stays far from the int range's ends, so no wrap is modelled.           *)
(***************************************************************************)
EXTENDS Integers, Sequences

CONSTANTS
  Progs,      \* the fixtures checked, a subset of {"global", "stack"}
  YValues,    \* values the uninitialized y of the global fixture may hold
  AddrFoo,    \* address of foo ("In the object file, the address of foo is 0")
  AddrL1,     \* address of label L1
  AddrN,      \* address of main's n, -4(%ebp), in the stack fixture
  MaxCalls,   \* bound on the calls of foo, so that a looping block stays finite
  RegValues   \* values %eax, %ebx and %edx may hold when the asm block starts

VARIABLES prog, y, n, n0, reg, zf, stk, pc, calls

vars == <<prog, y, n, n0, reg, zf, stk, pc, calls>>

\* Fault injection: both fixtures jump through %ebx, as the global one does.
JumpReg_ebx(p) == "ebx"

\* The register the block jumps through: %ebx in the global fixture, %edx in the other.
JumpReg(p) == IF p = "global" THEN "ebx" ELSE "edx"

\* The next instruction, and a register write.
Go(to) == pc' = to
Set(r, v) == reg' = [reg EXCEPT ![r] = v]

\* main up to the asm: global n = y; n = (y < 0) ? 3 : 4; or local int n = 3.
Init ==
  /\ prog \in Progs
  /\ y \in YValues
  /\ n = IF prog = "global" THEN IF y < 0 THEN 3 ELSE 4 ELSE 3
  /\ n0 = n
  /\ reg \in [{"eax", "ebx", "edx"} -> RegValues]   \* whatever main's code left
  /\ zf = FALSE
  /\ stk = <<>>
  /\ pc = "mov_eax"
  /\ calls = 0

\* The straight-line instructions: mov $2,%eax; mov $4,%ebx or lea -4(%ebp),%ebx;
\* the mov at L1 (its register is never read); cmp $1,%eax; lea foo,%eax; lea L1+1,reg.
Straight ==
  \/ pc = "mov_eax" /\ Set("eax", 2) /\ Go("mov_ebx")
  \/ pc = "mov_ebx" /\ Set("ebx", IF prog = "global" THEN 4 ELSE AddrN) /\ Go("L1")
  \/ pc = "L1" /\ UNCHANGED reg /\ Go("cmp")
  \/ pc = "lea_foo" /\ Set("eax", AddrFoo) /\ Go("lea_L1p1")
  \/ pc = "lea_L1p1" /\ Set(JumpReg(prog), AddrL1 + 1) /\ Go("jmp")
Step == Straight /\ UNCHANGED <<n, zf, stk, calls>>

Cmp == pc = "cmp" /\ zf' = (reg["eax"] = 1) /\ Go("jz") /\ UNCHANGED <<n, reg, stk, calls>>

\* jz L2; jmp *reg lands at L1+1 only, the start of the aliased decoding.
Jz  == pc = "jz" /\ Go(IF zf THEN "L2" ELSE "lea_foo") /\ UNCHANGED <<n, reg, zf, stk, calls>>
Jmp == pc = "jmp" /\ reg[JumpReg(prog)] = AddrL1 + 1 /\ Go("push")
       /\ UNCHANGED <<n, reg, zf, stk, calls>>

\* The bytes from L1+1: push %ebx; call *%eax (pushes the return point); pop %ebx.
Push == pc = "push" /\ stk' = Append(stk, reg["ebx"]) /\ Go("call") /\ UNCHANGED <<n, reg, zf, calls>>
Call == /\ pc = "call" /\ reg["eax"] = AddrFoo /\ calls < MaxCalls
        /\ stk' = Append(stk, "pop") /\ calls' = calls + 1 /\ Go("foo")
        /\ UNCHANGED <<n, reg, zf>>
Pop  == pc = "pop" /\ Set("ebx", stk[Len(stk)]) /\ stk' = SubSeq(stk, 1, Len(stk) - 1)
        /\ Go("cmp") /\ UNCHANGED <<n, zf, calls>>

\* Fault injection: foo's return value not 1, so the cmp after the call fails.
foo_returnsZero ==
  /\ pc = "foo" /\ n' = n + 4 /\ Set("eax", 0)
  /\ Go(stk[Len(stk)]) /\ stk' = SubSeq(stk, 1, Len(stk) - 1)
  /\ UNCHANGED <<zf, calls>>

\* foo(int a) of the global fixture: n += a.
GlobalFoo(a) == n + a

\* foo(int *a) of the stack fixture: *a += 4, which changes n only if a is
\* its address (other memory is not modelled).
StackFoo(a) == IF a = AddrN THEN n + 4 ELSE n

\* foo, cdecl: its argument is the word under the return address; it returns
\* 1 in %eax and pops the return address.
foo ==
  LET a == stk[Len(stk) - 1]
  IN  /\ pc = "foo"
      /\ n' = IF prog = "global" THEN GlobalFoo(a) ELSE StackFoo(a)
      /\ Set("eax", 1)
      /\ Go(stk[Len(stk)]) /\ stk' = SubSeq(stk, 1, Len(stk) - 1)
      /\ UNCHANGED <<zf, calls>>

\* L2: xor %edx,%edx, then main's return (n == 7).
L2 == pc = "L2" /\ Set("edx", 0) /\ Go("done") /\ UNCHANGED <<n, zf, stk, calls>>

Next ==
  /\ \/ Step \/ Cmp \/ Jz \/ Jmp \/ Push \/ Call \/ Pop \/ foo \/ L2
  /\ UNCHANGED <<prog, y, n0>>

\* A single-threaded program: once started it is always the next step's turn.
Spec == Init /\ [][Next]_vars /\ WF_vars(Next)

-----------------------------------------------------------------------------
(***************************************************************************)
(* The aliased "push %ebx; call *%eax" hands foo what the header says the  *)
(* block is for: when main returns, the asm block has added exactly 4 to   *)
(* n, so main returns 1 exactly when n was 3 before it.  Broken if the     *)
(* jump target is loaded into the register that carries foo's argument.    *)
(***************************************************************************)
AsmAddsFour == pc = "done" => n = n0 + 4

(***************************************************************************)
(* The block ends: foo's return value 1 in %eax makes the cmp/jz after the *)
(* aliased call leave the loop, so main reaches its return.                *)
(***************************************************************************)
Terminates == <>(pc = "done")

=============================================================================

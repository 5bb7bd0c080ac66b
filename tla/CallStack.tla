----------------------------- MODULE CallStack -----------------------------
(***************************************************************************)
(* The call fixtures of binspot's test sources, run on an explicit stack   *)
(* of activation records that holds at most MaxDepth frames (the thread's  *)
(* stack; a call that needs one more overflows it):                        *)
(*                                                                         *)
(*   "recursion": recursion.c, main calls rec_simple(20), rec_nonterm and  *)
(*                var_array in turn;                                       *)
(*   "tailcall":  tailCall-simple.c, main returns g(20); f has the         *)
(*                variable-length array int array[i];                      *)
(*   "undef":     undef-function-calls.c, the same g and h, f with a       *)
(*                fixed int array[16].                                     *)
(*                                                                         *)
(* A frame is [fn, at, i, j, x]: the function, where it resumes, its       *)
(* parameter i, its loop counter j (main: the index of its next call), and *)
(* point.x of f.  The arrays f and var_array fill are never read and are  *)
(* left out.  rv is the return-value register, rvDef FALSE when the value  *)
(* comes from an f that fell off its end without a return.                 *)
(*                                                                         *)
(* build is how the calls in tail position, "return fn(...)", are          *)
(* compiled: "O0" pushes a frame for each; "O2" (GCC's sibling-call        *)
(* optimisation) jumps to fn in the caller's frame.  main's calls are      *)
(* ordinary calls in both.                                                 *)
(***************************************************************************)
EXTENDS Integers, Sequences, Bitwise

CONSTANTS
  Progs,     \* the fixtures checked, a subset of {"recursion", "tailcall", "undef"}
  Builds,    \* the builds checked, a subset of {"O0", "O2"}
  MaxDepth   \* frames the stack holds, main's included

ASSUME Builds \subseteq {"O0", "O2"}

VARIABLES prog, build, stack, rv, rvDef, status

vars == <<prog, build, stack, rv, rvDef, status>>

Frame(fn, arg) == [fn |-> fn, at |-> "entry", i |-> arg, j |-> 1, x |-> 0]

\* The calls main makes, each on main's i, its result assigned back to i.
MainCalls(p) == IF p = "recursion" THEN <<"rec_simple", "rec_nonterm", "var_array">>
                ELSE <<"g">>

Top == stack[Len(stack)]
Self(r) == stack' = [stack EXCEPT ![Len(stack)] = r]

\* Fault injection: no limit on the stack.
Call_unbounded(caller, fn, arg) ==
  stack' = Append([stack EXCEPT ![Len(stack)] = caller], Frame(fn, arg))
  /\ UNCHANGED <<rv, rvDef, status>>

\* A call: the caller's frame becomes `caller`, the callee's frame is pushed;
\* with MaxDepth frames in use the push overflows the stack.
Call(caller, fn, arg) ==
  IF Len(stack) < MaxDepth
  THEN stack' = Append([stack EXCEPT ![Len(stack)] = caller], Frame(fn, arg))
       /\ UNCHANGED <<rv, rvDef, status>>
  ELSE status' = "overflow" /\ UNCHANGED <<stack, rv, rvDef>>

\* Fault injection: a call in tail position pushes a frame in every build.
TailCall_push(fn, arg) == Call([Top EXCEPT !.at = "ret"], fn, arg)

\* return fn(arg): at O0 a call whose frame waits at "ret" to pass the
\* value on; at O2 fn's frame replaces the caller's, and fn returns to the
\* caller's caller.
TailCall(fn, arg) ==
  IF build = "O2" THEN Self(Frame(fn, arg)) /\ UNCHANGED <<rv, rvDef, status>>
  ELSE Call([Top EXCEPT !.at = "ret"], fn, arg)

\* return v: the frame is popped and v is left in the return register.
Ret(v, def) == stack' = SubSeq(stack, 1, Len(stack) - 1) /\ rv' = v /\ rvDef' = def
               /\ UNCHANGED status

Init ==
  /\ prog \in Progs
  /\ build \in Builds
  /\ stack = << [Frame("main", 20) EXCEPT !.at = "body"] >>   \* int i = 20
  /\ rv = 0 /\ rvDef = TRUE /\ status = "running"

\* main: i = <next call>(i), the first call on i = 20; then return i.
main ==
  /\ Top.fn = "main"
  /\ LET i == IF Top.j = 1 THEN Top.i ELSE rv
     IN  IF Top.j <= Len(MainCalls(prog))
         THEN Call([Top EXCEPT !.i = i, !.j = @ + 1], MainCalls(prog)[Top.j], i)
         ELSE status' = "done" /\ rv' = i /\ UNCHANGED <<stack, rvDef>>

\* Fault injection: the base case taken at i >= 100.
rec_simple_geq ==
  /\ Top.fn = "rec_simple" /\ Top.at = "entry"
  /\ IF Top.i >= 100 THEN Ret(Top.i, TRUE)
     ELSE TailCall("rec_simple", Top.i + 1)

\* rec_simple: if (i > 100) return i; else return rec_simple(i + 1).
rec_simple ==
  /\ Top.fn = "rec_simple" /\ Top.at = "entry"
  /\ IF Top.i > 100 THEN Ret(Top.i, TRUE)
     ELSE TailCall("rec_simple", Top.i + 1)

\* Fault injection: rec_nonterm given rec_simple's base case.
rec_nonterm_based ==
  /\ Top.fn = "rec_nonterm" /\ Top.at = "entry"
  /\ IF Top.i > 100 THEN Ret(Top.i, TRUE)
     ELSE TailCall("rec_nonterm", Top.i + 1)

\* rec_nonterm: return rec_nonterm(i + 1).  At O2 the tail call becomes a
\* jump to the function's own start; nothing reads i, so GCC drops the
\* increment and the loop is a jump to itself: a step that changes nothing.
\* The var_array(i) main calls after it is never entered, so its body has
\* no action.
rec_nonterm ==
  /\ Top.fn = "rec_nonterm" /\ Top.at = "entry"
  /\ IF build = "O2" THEN UNCHANGED <<stack, rv, rvDef, status>>
     ELSE TailCall("rec_nonterm", Top.i + 1)

\* "return callee(...)" of rec_simple, rec_nonterm, g and h: the callee's
\* value is passed on.
TailReturn == Top.at = "ret" /\ Ret(rv, rvDef)

\* f's loop bound: j < i in tailCall-simple.c, j < 16 in undef-function-calls.c.
FBound(p, i) == IF p = "tailcall" THEN i ELSE 16

\* f: point = {0, 0}; for (j = 0; j < bound; j++) point.x = j;
\* if (i > 2) return point.x; otherwise it falls off its end.
f ==
  /\ Top.fn = "f"
  /\ IF Top.at = "entry"
     THEN Self([Top EXCEPT !.at = "loop", !.j = 0, !.x = 0]) /\ UNCHANGED <<rv, rvDef, status>>
     ELSE IF Top.j < FBound(prog, Top.i)
     THEN Self([Top EXCEPT !.x = Top.j, !.j = @ + 1]) /\ UNCHANGED <<rv, rvDef, status>>
     ELSE Ret(Top.x, Top.i > 2)

\* Fault injection: h called on g's own i.
g_sameArg ==
  /\ Top.fn = "g"
  /\ IF Top.at = "entry" THEN Call([Top EXCEPT !.at = "g1"], "f", Top.i + 1)
     ELSE Top.at = "g1" /\ TailCall("h", Top.i)

\* g: f(i + 1); return h(i + 1).
g ==
  /\ Top.fn = "g"
  /\ IF Top.at = "entry" THEN Call([Top EXCEPT !.at = "g1"], "f", Top.i + 1)
     ELSE Top.at = "g1" /\ TailCall("h", Top.i + 1)

\* h: for (j = 0; j < i; j++) i = (i & 0x004537) - j; return f(i).
h ==
  /\ Top.fn = "h" /\ Top.at \in {"entry", "loop"}
  /\ LET j == IF Top.at = "entry" THEN 0 ELSE Top.j
     IN  IF j < Top.i
         THEN Self([Top EXCEPT !.at = "loop", !.i = (Top.i & 17719) - j, !.j = j + 1])
              /\ UNCHANGED <<rv, rvDef, status>>
         ELSE TailCall("f", Top.i)

Next ==
  /\ status = "running"
  /\ main \/ rec_simple \/ rec_nonterm \/ TailReturn \/ f \/ g \/ h
  /\ UNCHANGED <<prog, build>>

\* One thread: whichever frame is on top always has a next step.
Spec == Init /\ [][Next]_vars /\ WF_vars(Next)

-----------------------------------------------------------------------------
(***************************************************************************)
(* What the optimisation buys: at O2 no chain of calls grows the stack     *)
(* past three frames (main, g or h, and the f that g calls first), since   *)
(* every recursive call and every call of h and f from g and h is in tail  *)
(* position; at O0 the same chains need up to 83.                          *)
(***************************************************************************)
SiblingCallsBounded == build = "O2" => Len(stack) <= 3

(***************************************************************************)
(* rec_simple(20) recurses 81 times and returns 101 to main without        *)
(* overflowing; the overflow recursion.c ends in happens in rec_nonterm,   *)
(* which main calls with that 101.                                         *)
(***************************************************************************)
OverflowInNonterm ==
  status = "overflow" => Top.fn = "rec_nonterm" /\ stack[1].i = 101

(***************************************************************************)
(* h's loop, which rewrites its own bound i through i & 0x4537, hands f an *)
(* i above 2: f never falls off its end without a return (nor, in          *)
(* tailCall-simple.c, allocates a VLA of size i <= 0), so main returns a   *)
(* defined value.                                                          *)
(***************************************************************************)
FArgAboveTwo == \A k \in DOMAIN stack : stack[k].fn = "f" => stack[k].i > 2

(***************************************************************************)
(* The outcome of each main: the other two return g(20) in both builds;    *)
(* recursion.c, whose rec_nonterm has no base case, ends in a stack        *)
(* overflow at O0 and at O2 runs in rec_nonterm for ever, never reaching   *)
(* var_array.                                                              *)
(***************************************************************************)
Outcome ==
  IF prog = "recursion" /\ build = "O2"
  THEN <>[](status = "running" /\ Top.fn = "rec_nonterm")
  ELSE <>(status = IF prog = "recursion" THEN "overflow" ELSE "done")

=============================================================================

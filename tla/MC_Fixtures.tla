---------------------------- MODULE MC_Fixtures ----------------------------
(***************************************************************************)
(* The single-threaded C and assembly fixtures of binspot's test sources,  *)
(* checked in one model.  They share no state, so the model is their sum:  *)
(* each behaviour runs the main of one fixture (`which`), whose variables  *)
(* step as its own module says, while the variables of every other        *)
(* fixture hold the model value Off.  A property of a fixture is checked   *)
(* on the behaviours that run it.                                          *)
(***************************************************************************)
EXTENDS Integers, Sequences, Functions

CONSTANTS
  Off,           \* the value of a fixture's variables in a behaviour that does not run it
  Fixtures,      \* the fixtures run, a subset of the names below
  AliasProgs,    \* InstrAliasing: the asm fixtures run
  AliasYValues   \* InstrAliasing: values of the global fixture's uninitialized y

VARIABLES
  which,
  ia_prog, ia_y, ia_n, ia_n0, ia_reg, ia_zf, ia_stk, ia_pc, ia_calls,
  ex_B, ex_layout, ex_n, ex_state, ex_i, ex_frame, ex_build, ex_pc, ex_ret,
  sw_fx, sw_todo, sw_env, sw_frames, sw_retval, sw_assigns, sw_ran, sw_result, sw_pc,
  pr_n, pr_pc, pr_ret,
  cs_prog, cs_build, cs_stack, cs_rv, cs_rvDef, cs_status,
  du_caller, du_count, du_n, du_from, du_to, du_remaining, du_pc,
  ai_a, ai_i, ai_r, ai_pc,
  cl_layout, cl_n0, cl_frame, cl_top, cl_bars, cl_pc,
  ca_x, ca_v, ca_t, ca_pc

iaV == <<ia_prog, ia_y, ia_n, ia_n0, ia_reg, ia_zf, ia_stk, ia_pc, ia_calls>>
exV == <<ex_B, ex_layout, ex_n, ex_state, ex_i, ex_frame, ex_build, ex_pc, ex_ret>>
swV == <<sw_fx, sw_todo, sw_env, sw_frames, sw_retval, sw_assigns, sw_ran, sw_result, sw_pc>>
prV == <<pr_n, pr_pc, pr_ret>>
csV == <<cs_prog, cs_build, cs_stack, cs_rv, cs_rvDef, cs_status>>
duV == <<du_caller, du_count, du_n, du_from, du_to, du_remaining, du_pc>>
aiV == <<ai_a, ai_i, ai_r, ai_pc>>
clV == <<cl_layout, cl_n0, cl_frame, cl_top, cl_bars, cl_pc>>
caV == <<ca_x, ca_v, ca_t, ca_pc>>
vars == <<which, iaV, exV, swV, prV, csV, duV, aiV, clV, caV>>

\* A linked i386 executable: foo at 0 in the object file, main's code in the
\* usual 0x08048000 text segment, main's frame near the top of the stack.
AliasAddrL1 == 134513728        \* 0x08048440
AliasAddrN  == -1073745668      \* 0xbffff0fc, -4(%ebp), as a signed word
\* The uninitialized int y of the global fixture: both signs and both ends.
AliasYRange == {-2147483647 - 1, -1, 0, 2147483647}

\* ArrayInt: every array of up to four 8-bit ints at both ends of the range
\* and around zero.
ArrayValues == {-128, -1, 0, 1, 127}
ArrayInputs == UNION {[1..k -> ArrayValues] : k \in 0..4}

IA == INSTANCE InstrAliasing WITH
        prog <- ia_prog, y <- ia_y, n <- ia_n, n0 <- ia_n0, reg <- ia_reg, zf <- ia_zf,
        stk <- ia_stk, pc <- ia_pc, calls <- ia_calls,
        Progs <- AliasProgs, YValues <- AliasYValues, AddrFoo <- 0, AddrL1 <- AliasAddrL1,
        AddrN <- AliasAddrN, MaxCalls <- 3, RegValues <- {0, 1, 2, 4, AliasAddrN}
\* ex.c: B[3] ends the loop before state (3, 4), at it (5), inside the
\* frame (6..9), past it (12) or at once (128, 255, negative chars); B[5]
\* sets state to 8 or not, with a byte whose signed value is not 8; the
\* frame words hold the call site of REACHABLE() or 0; every layout that
\* puts i or an alignment word, in any order, between t and the saved %ebp.
ExLayouts == {p \o <<"ebp", "ret">> : p \in {q \in UNION {[1..k -> {"i", "pad"}] : k \in 0..2} : IsInjective(q)}}
EX == INSTANCE Ex WITH
        B <- ex_B, layout <- ex_layout, n <- ex_n, state <- ex_state, i <- ex_i, frame <- ex_frame,
        build <- ex_build, pc <- ex_pc, ret <- ex_ret,
        NBytes <- {3, 4, 5, 6, 7, 8, 9, 12, 128, 255}, StateBytes <- {7, 8, 136},
        Layouts <- ExLayouts, FrameWords <- {0, 134513700}, AddrReach <- 134513700,
        RetMain <- 134513690, SavedEbp <- -1073745640
SW == INSTANCE Switches WITH
        fx <- sw_fx, todo <- sw_todo, env <- sw_env, frames <- sw_frames, retval <- sw_retval,
        assigns <- sw_assigns, ran <- sw_ran, result <- sw_result, pc <- sw_pc, Argc <- 0..7
PR == INSTANCE Predicates WITH n <- pr_n, pc <- pr_pc, ret <- pr_ret
\* 90 frames: rec_simple(20) needs 83, rec_nonterm overflows whatever the bound.
CS == INSTANCE CallStack WITH
        prog <- cs_prog, build <- cs_build, stack <- cs_stack, rv <- cs_rv, rvDef <- cs_rvDef, status <- cs_status,
        Progs <- {"recursion", "tailcall", "undef"}, Builds <- {"O0", "O2"},
        MaxDepth <- 90
\* Duff: every remainder, negative ones included, with up to three passes
\* (7 is main's), and the two largest ints, whose count + 7 wraps; a bound
\* on the copies never reached; the unmapped page at 0.
DU == INSTANCE Duff WITH
        caller <- du_caller, count <- du_count, n <- du_n, from <- du_from, to <- du_to,
        remaining <- du_remaining, pc <- du_pc, Counts <- -9..24 \cup {2147483646, 2147483647}, MaxCopies <- 40,
        NullPage <- 4096
AI == INSTANCE ArrayInt WITH a <- ai_a, i <- ai_i, r <- ai_r, pc <- ai_pc, W <- 8,
        Inputs <- ArrayInputs
\* clobber--CASE-4.c: every layout that puts some of foo's locals, in any
\* order, between arr and the saved %ebp; n below, inside and above the
\* range the guard admits; addresses of a linked i386 program; the mapped
\* stack reaching past the tenth word the guard lets the loop write.
ClobberLocals  == UNION {[1..k -> {"n", "addr_bar", "i"}] : k \in 0..3}
ClobberLayouts == {p \o <<"ebp", "ret">> : p \in {q \in ClobberLocals : IsInjective(q)}}
CL == INSTANCE Clobber WITH layout <- cl_layout, n0 <- cl_n0, frame <- cl_frame, top <- cl_top,
        bars <- cl_bars, pc <- cl_pc,
        Layouts <- ClobberLayouts, NValues <- -1..11, AddrBar <- 134513680,
        RetMain <- 134513760, SavedEbp <- -1073745640, MappedWords <- 12
\* cars.c with an 8-bit unsigned int: 100 and 75 fit, -50 wraps to 206.
\* Every valuation line 44 admits has v1, v2 <= 5 and v3 = 2*v2 - v1
\* modulo 2^W, so v3 in 0..10 or in 2^W-5..2^W-1; a few values past each
\* edge are rejected by the guard.
CA == INSTANCE Cars WITH x <- ca_x, v <- ca_v, t <- ca_t, pc <- ca_pc, W <- 8,
        UninitValues <- (0..12) \cup ((2^8 - 7)..(2^8 - 1))

Init ==
  /\ which \in Fixtures
  /\ IF which = "aliasing" THEN IA!Init
     ELSE ia_prog = Off /\ ia_y = Off /\ ia_n = Off /\ ia_n0 = Off /\ ia_reg = Off
          /\ ia_zf = Off /\ ia_stk = Off /\ ia_pc = Off /\ ia_calls = Off
  /\ IF which = "ex" THEN EX!Init
     ELSE ex_B = Off /\ ex_layout = Off /\ ex_n = Off /\ ex_state = Off /\ ex_i = Off
          /\ ex_frame = Off /\ ex_build = Off /\ ex_pc = Off /\ ex_ret = Off
  /\ IF which = "switches" THEN SW!Init
     ELSE sw_fx = Off /\ sw_todo = Off /\ sw_env = Off /\ sw_frames = Off /\ sw_retval = Off
          /\ sw_assigns = Off /\ sw_ran = Off /\ sw_result = Off /\ sw_pc = Off
  /\ IF which = "predicates" THEN PR!Init ELSE pr_n = Off /\ pr_pc = Off /\ pr_ret = Off
  /\ IF which = "callstack" THEN CS!Init
     ELSE cs_prog = Off /\ cs_build = Off /\ cs_stack = Off /\ cs_rv = Off /\ cs_rvDef = Off /\ cs_status = Off
  /\ IF which = "duff" THEN DU!Init
     ELSE du_caller = Off /\ du_count = Off /\ du_n = Off /\ du_from = Off /\ du_to = Off
          /\ du_remaining = Off /\ du_pc = Off
  /\ IF which = "arrayint" THEN AI!Init
     ELSE ai_a = Off /\ ai_i = Off /\ ai_r = Off /\ ai_pc = Off
  /\ IF which = "clobber" THEN CL!Init
     ELSE cl_layout = Off /\ cl_n0 = Off /\ cl_frame = Off /\ cl_top = Off /\ cl_bars = Off
          /\ cl_pc = Off
  /\ IF which = "cars" THEN CA!Init ELSE ca_x = Off /\ ca_v = Off /\ ca_t = Off /\ ca_pc = Off

Next ==
  \/ which = "aliasing"   /\ IA!Next /\ UNCHANGED <<which, exV, swV, prV, csV, duV, aiV, clV, caV>>
  \/ which = "ex"         /\ EX!Next /\ UNCHANGED <<which, iaV, swV, prV, csV, duV, aiV, clV, caV>>
  \/ which = "switches"   /\ SW!Next /\ UNCHANGED <<which, iaV, exV, prV, csV, duV, aiV, clV, caV>>
  \/ which = "predicates" /\ PR!Next /\ UNCHANGED <<which, iaV, exV, swV, csV, duV, aiV, clV, caV>>
  \/ which = "callstack"  /\ CS!Next /\ UNCHANGED <<which, iaV, exV, swV, prV, duV, aiV, clV, caV>>
  \/ which = "duff"       /\ DU!Next /\ UNCHANGED <<which, iaV, exV, swV, prV, csV, aiV, clV, caV>>
  \/ which = "arrayint"   /\ AI!Next /\ UNCHANGED <<which, iaV, exV, swV, prV, csV, duV, clV, caV>>
  \/ which = "clobber"    /\ CL!Next /\ UNCHANGED <<which, iaV, exV, swV, prV, csV, duV, aiV, caV>>
  \/ which = "cars"       /\ CA!Next /\ UNCHANGED <<which, iaV, exV, swV, prV, csV, duV, aiV, clV>>

\* Each fixture is one thread: while its main has a step left, that step is taken.
Spec == Init /\ [][Next]_vars /\ WF_vars(Next)

-----------------------------------------------------------------------------
(* Each fixture's properties, stated in its module, on its own behaviours. *)

\* InstrAliasing: the aliased "push %ebx; call *%eax" adds exactly 4 to n.
AsmAddsFour == which = "aliasing" => IA!AsmAddsFour
\* InstrAliasing: foo's return value 1 makes the block leave its loop.
AliasingTerminates == which = "aliasing" => IA!Terminates

\* ex.c: foo returns unless i lies among the words its loop overwrites.
ExLoopEnds == which = "ex" => EX!LoopEnds
\* ex.c: main reaches REACHABLE() exactly through the summary's routes (i) and (ii).
ReachableOnlyThroughState == which = "ex" => EX!ReachableOnlyThroughState

\* Switches: every call assigns retval exactly once (no fall-through).
NoFallThrough == which = "switches" => SW!NoFallThrough
\* Switches: the negative cases and the labelled inner cases are unreachable from main.
DeadCases == which = "switches" => SW!DeadCases

\* Call fixtures: with sibling calls no chain of calls grows the stack past three frames.
SiblingCallsBounded == which = "callstack" => CS!SiblingCallsBounded
\* recursion.c: the overflow happens in rec_nonterm, called on 101.
OverflowInNonterm == which = "callstack" => CS!OverflowInNonterm
\* tailCall-simple.c, undef-function-calls.c: f is always called on an i above 2.
FArgAboveTwo == which = "callstack" => CS!FArgAboveTwo
\* recursion.c ends in an overflow at O0 and runs for ever at O2; the other two mains return.
Outcome == which = "callstack" => CS!Outcome

\* Duff's device: a call reads count elements (8 for 0 and -8k, none for other negatives).
CopiesExactly == which = "duff" => DU!CopiesExactly
\* Duff's device: every call returns or faults.
DuffTerminates == which = "duff" => DU!Terminates

\* array-int.c: the wrapped sum of differences telescopes to a[n-1] - a[0].
Telescopes == which = "arrayint" => AI!Telescopes

\* clobber--CASE-4.c, line 4's comment: bar's return always resumes main.
BarReturnsToMain == [][which = "clobber" => CL!BarRet]_vars

\* cars.c: the loop body of line 48 never runs, so nothing moves.
LoopBodyDead == which = "cars" => CA!LoopBodyDead
\* cars.c: main never reaches the UNREACHABLE() of line 62.
CarsNeverUnreachable == which = "cars" => CA!NeverUnreachable

=============================================================================

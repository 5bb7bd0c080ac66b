------------------------------ MODULE Clobber ------------------------------
(***************************************************************************)
(* foo of clobber--CASE-4.c on an i386 stack.  arr[2] lies at the lowest   *)
(* address of foo's frame that the loop writes; arr[k] for k >= 2 is the   *)
(* word k - 1 above arr[1].  Which of the locals n, addr_bar and i lie     *)
(* there, and in which order, is the compiler's choice: a layout is the    *)
(* sequence of words above arr[1] up to the return address, a permutation  *)
(* of some of the locals (the others sit below arr or in registers), then  *)
(* the saved %ebp and the return address.  Past them lies the rest of the  *)
(* stack, mapped for MappedWords words above arr[1].                       *)
(*                                                                         *)
(* frame holds the words: the locals' values, the saved %ebp and the       *)
(* return address, all as signed 32-bit integers.  n is uninitialized      *)
(* (the MakeChoice() is commented out): any value of NValues.  top is the  *)
(* highest word above arr[1] the loop wrote, bars the times bar has been   *)
(* entered.                                                                *)
(***************************************************************************)
EXTENDS Integers, Sequences, SequencesExt

CONSTANTS
  Layouts,      \* the layouts a build may produce
  NValues,      \* values the uninitialized n may hold
  AddrBar,      \* address of bar, positive in the text segment
  RetMain,      \* foo's return address, in main
  SavedEbp,     \* main's %ebp, saved in foo's frame
  MappedWords   \* words above arr[1] that are mapped stack

VARIABLES layout, n0, frame, top, bars, pc

vars == <<layout, n0, frame, top, bars, pc>>

\* The word arr[k] denotes, as a position in the layout: 0 or less inside
\* arr, Len(layout) + j for the j-th word of the stack above the layout.
Slot(k) == k - 1

Init ==
  /\ layout \in Layouts
  /\ n0 \in NValues
  /\ frame = [n |-> n0, addr_bar |-> AddrBar, i |-> 0, ebp |-> SavedEbp, ret |-> RetMain]
  /\ top = 0 /\ bars = 0
  /\ pc = "guard"

\* if (n < 0 || n > 10) return; otherwise i = 0 and the loop.
Guard ==
  /\ pc = "guard"
  /\ IF frame.n < 0 \/ frame.n > 10
     THEN pc' = "return" /\ UNCHANGED frame
     ELSE pc' = "test" /\ frame' = [frame EXCEPT !.i = 0]
  /\ UNCHANGED <<layout, n0, top, bars>>

\* for (...; i < n; ...): both read from their words.
Test ==
  /\ pc = "test"
  /\ pc' = IF frame.i < frame.n THEN "body" ELSE "return"
  /\ UNCHANGED <<layout, n0, frame, top, bars>>

\* arr[i] = (int)addr_bar, into the word of foo's frame it lands on.
Store(f, w) == [f EXCEPT ![w] = f.addr_bar]

\* arr[i] = (int)addr_bar; i++.  Within arr nothing the model keeps
\* changes; above it the store hits the layout's word, or the stack past
\* it (not kept), or faults past the mapped stack.
Body ==
  /\ pc = "body"
  /\ LET s == Slot(frame.i)
     IN  IF s > MappedWords
         THEN pc' = "fault" /\ UNCHANGED <<frame, top>>
         ELSE LET f == IF s \in 1..Len(layout) THEN Store(frame, layout[s]) ELSE frame
              IN  /\ frame' = [f EXCEPT !.i = f.i + 1] /\ pc' = "test"
                  /\ top' = IF s > top THEN s ELSE top
  /\ UNCHANGED <<layout, n0, bars>>

\* return: leave restores %ebp from its word, ret jumps to the return
\* address: main, main with a clobbered frame pointer, or bar.
Return ==
  /\ pc = "return"
  /\ pc' = CASE frame.ret = AddrBar   -> "bar"
             [] frame.ebp # SavedEbp -> "main_badframe"
             [] OTHER                -> "main"
  /\ bars' = IF frame.ret = AddrBar THEN 1 ELSE 0
  /\ UNCHANGED <<layout, n0, frame, top>>

\* The position of the return address in a layout.
RetPos(l) == Len(l)

\* bar, entered by foo's ret rather than by a call: its push/pop of %ebp
\* cancel, and its ret pops the next word up.  A word the loop wrote holds
\* addr_bar and enters bar again; the first word it did not write belongs
\* to main's frame, which holds no address in main (the only one, foo's
\* return address, was overwritten).
Bar ==
  /\ pc = "bar"
  /\ IF RetPos(layout) + bars <= top
     THEN bars' = bars + 1 /\ UNCHANGED pc
     ELSE pc' = "main_frame" /\ UNCHANGED bars
  /\ UNCHANGED <<layout, n0, frame, top>>

\* main: foo(); return 0.
Main ==
  /\ pc = "main"
  /\ pc' = "exit"
  /\ UNCHANGED <<layout, n0, frame, top, bars>>

Next == Guard \/ Test \/ Body \/ Return \/ Bar \/ Main

Spec == Init /\ [][Next]_vars

-----------------------------------------------------------------------------

(***************************************************************************)
(* Line 4's comment, "return; // return to main": whatever way bar was     *)
(* entered, its ret resumes main.  Entered by foo's ret through the        *)
(* overwritten return address, bar's ret instead pops the next word the    *)
(* loop wrote, entering bar again, or main's frame, which is no return     *)
(* address; this step relation states the comment so that TLC can show    *)
(* the layouts and n for which it is false.                                *)
(***************************************************************************)
BarRet == pc = "bar" => pc' = "main"

BarReturnsToMain == [][BarRet]_vars

=============================================================================

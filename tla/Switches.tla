----------------------------- MODULE Switches -----------------------------
(***************************************************************************)
(* The four switch fixtures of src/c (switches-dynamic*.c and              *)
(* switches-static-non-jump-table.c) under C's switch semantics: control   *)
(* jumps to the arm whose case label equals the selector, else to          *)
(* default, else past the switch; it then runs the arms' statements in     *)
(* order until a break, which leaves the innermost enclosing switch.       *)
(*                                                                         *)
(* A switch body is a sequence of arms [labels, default, stmt, brk]: stmt  *)
(* is an assignment to retval or a nested switch on another parameter,     *)
(* brk says whether a break follows it.  main of each fixture is the       *)
(* sequence of calls it makes, with the argument values it passes.         *)
(***************************************************************************)
EXTENDS Integers, Sequences

CONSTANT Argc   \* values argc may have, a finite set of naturals

VARIABLES
  fx,      \* the fixture whose main runs
  todo,    \* main's calls not yet made
  env,     \* the running function's selectors: [sel, par2]
  frames,  \* the active switches, innermost last: [sw, pos, done]
  retval,  \* the running function's retval
  assigns, \* assignments to retval in the running call
  ran,     \* <<switch, arm>> pairs whose statement has run
  result,  \* main's result
  pc       \* "main", "fn" or "done"

vars == <<fx, todo, env, frames, retval, assigns, ran, result, pc>>

Arm(lbls, st, brk) == [labels |-> lbls, default |-> FALSE, stmt |-> st, brk |-> brk]
Default(st, brk)   == [labels |-> {}, default |-> TRUE, stmt |-> st, brk |-> brk]
Assign(v) == [assign |-> v]
Inner(sw, on) == [inner |-> sw, on |-> on]

switch_middle ==
  << Arm({1}, Assign(11), TRUE), Arm({2}, Assign(22), TRUE), Arm({3}, Assign(33), TRUE),
     Arm({4}, Assign(44), TRUE), Arm({5}, Assign(55), TRUE), Default(Assign(666), FALSE) >>

switch_middle_negative ==
  << Arm({-5}, Assign(-55), TRUE), Arm({-4}, Assign(-44), TRUE), Arm({-3}, Assign(-33), TRUE),
     Arm({1}, Assign(11), TRUE), Arm({2}, Assign(22), TRUE), Default(Assign(666), FALSE) >>

\* The inner switch(par2) of switch_middle_nested.
switch_par2 ==
  << Arm({10}, Assign(111), TRUE), Arm({20}, Assign(222), TRUE), Arm({30}, Assign(333), TRUE),
     Arm({40}, Assign(444), TRUE), Arm({50}, Assign(555), TRUE), Default(Assign(6666), FALSE) >>

\* Fault injection: the break after the inner switch left out.
switch_middle_nested_noBreak ==
  << Arm({1}, Inner("par2", "par2"), FALSE), Arm({2}, Assign(22), TRUE), Arm({3}, Assign(33), TRUE),
     Arm({4}, Assign(44), TRUE), Arm({5}, Assign(55), TRUE), Default(Assign(666), FALSE) >>

switch_middle_nested ==
  << Arm({1}, Inner("par2", "par2"), TRUE), Arm({2}, Assign(22), TRUE), Arm({3}, Assign(33), TRUE),
     Arm({4}, Assign(44), TRUE), Arm({5}, Assign(55), TRUE), Default(Assign(666), FALSE) >>

switch_small ==
  << Arm({1}, Assign(11), TRUE), Arm({2}, Assign(22), TRUE), Arm({3}, Assign(33), TRUE),
     Arm({4}, Assign(44), TRUE), Default(Assign(666), FALSE) >>

switch_big ==
  << Arm({1}, Assign(11), TRUE), Arm({200}, Assign(22), TRUE), Arm({3000}, Assign(33), TRUE),
     Arm({40000}, Assign(44), TRUE), Arm({500000}, Assign(55), TRUE), Default(Assign(666), FALSE) >>

Body(sw) == CASE sw = "middle"   -> switch_middle
              [] sw = "negative" -> switch_middle_negative
              [] sw = "nested"   -> switch_middle_nested
              [] sw = "par2"     -> switch_par2
              [] sw = "small"    -> switch_small
              [] sw = "big"      -> switch_big

\* Each main's calls: the function, its selector and the nested one.
Call(fn, sel, par2) == [fn |-> fn, env |-> [sel |-> sel, par2 |-> par2]]
main_dynamic(argc)  == << Call("middle", argc, 0) >>
main_negative(argc) == << Call("negative", argc, 0) >>
main_nested(argc)   == << Call("nested", argc, argc + 5) >>
main_static         == << Call("small", 3, 0), Call("big", 2001, 0) >>

\* Fault injection: a selector no label matches takes the first arm.
Dispatch_noDefault(body, v) ==
  IF \E k \in DOMAIN body : v \in body[k].labels
  THEN CHOOSE k \in DOMAIN body : v \in body[k].labels
  ELSE 1

\* switch (v): the arm labelled v, else default, else past the last arm.
Dispatch(body, v) ==
  IF \E k \in DOMAIN body : v \in body[k].labels
  THEN CHOOSE k \in DOMAIN body : v \in body[k].labels
  ELSE IF \E k \in DOMAIN body : body[k].default
       THEN CHOOSE k \in DOMAIN body : body[k].default
       ELSE Len(body) + 1

Enter(sw, v) == [sw |-> sw, pos |-> Dispatch(Body(sw), v), done |-> FALSE]

Init ==
  /\ \E argc \in Argc :
       \/ fx = "dynamic"  /\ todo = main_dynamic(argc)
       \/ fx = "negative" /\ todo = main_negative(argc)
       \/ fx = "nested"   /\ todo = main_nested(argc)
       \/ fx = "static"   /\ todo = main_static
  /\ env = [sel |-> 0, par2 |-> 0] /\ frames = <<>>
  /\ retval = 0 /\ assigns = 0 /\ ran = {} /\ result = 0 /\ pc = "main"

\* main calls the next function: int retval = 0; switch on its first parameter.
CallFn ==
  /\ pc = "main" /\ todo # <<>>
  /\ env' = Head(todo).env
  /\ frames' = << Enter(Head(todo).fn, Head(todo).env.sel) >>
  /\ todo' = Tail(todo)
  /\ retval' = 0 /\ assigns' = 0 /\ pc' = "fn"
  /\ UNCHANGED <<fx, ran, result>>

Top == frames[Len(frames)]
Arm_ == Body(Top.sw)[Top.pos]

\* The statement of the arm control is at: an assignment, or a nested switch.
Exec ==
  /\ pc = "fn" /\ frames # <<>>
  /\ Top.pos <= Len(Body(Top.sw)) /\ ~Top.done
  /\ ran' = ran \cup {<<Top.sw, Top.pos>>}
  /\ IF "assign" \in DOMAIN Arm_.stmt
     THEN /\ retval' = Arm_.stmt.assign /\ assigns' = assigns + 1
          /\ frames' = [frames EXCEPT ![Len(frames)].done = TRUE]
     ELSE /\ frames' = Append([frames EXCEPT ![Len(frames)].done = TRUE],
                              Enter(Arm_.stmt.inner, env[Arm_.stmt.on]))
          /\ UNCHANGED <<retval, assigns>>
  /\ UNCHANGED <<fx, todo, env, result, pc>>

\* After a statement: break leaves the innermost switch, otherwise control
\* falls through to the next arm; past the last arm the switch ends.
Leave ==
  /\ pc = "fn" /\ frames # <<>>
  /\ Top.pos > Len(Body(Top.sw)) \/ Top.done
  /\ frames' = IF Top.pos > Len(Body(Top.sw)) \/ Arm_.brk
               THEN SubSeq(frames, 1, Len(frames) - 1)
               ELSE [frames EXCEPT ![Len(frames)] = [@ EXCEPT !.pos = @ + 1, !.done = FALSE]]
  /\ UNCHANGED <<fx, todo, env, retval, assigns, ran, result, pc>>

\* return retval; main's result += it.
Return ==
  /\ pc = "fn" /\ frames = <<>>
  /\ result' = result + retval
  /\ pc' = IF todo = <<>> THEN "done" ELSE "main"
  /\ UNCHANGED <<fx, todo, env, frames, retval, assigns, ran>>

Next == CallFn \/ Exec \/ Leave \/ Return

Spec == Init /\ [][Next]_vars

-----------------------------------------------------------------------------
(***************************************************************************)
(* Every arm main reaches ends in a break, and the break after the nested  *)
(* switch leaves switch(par1) as well: each call assigns retval exactly    *)
(* once before it returns, so no value is overwritten by falling through   *)
(* into the next case.                                                     *)
(***************************************************************************)
NoFallThrough == pc = "fn" /\ frames = <<>> => assigns = 1

(***************************************************************************)
(* What main can reach: argc is never negative, so the arms of             *)
(* switch_middle_negative labelled -5, -4 and -3 never run, and the inner  *)
(* switch sees par2 = argc + 5, never one of 10..50 when par1 = 1, so only *)
(* its default runs.  A dispatch that sends an unmatched selector anywhere *)
(* but to default reaches them.                                            *)
(***************************************************************************)
DeadCases ==
  ran \cap ({<<"negative", k>> : k \in 1..3} \cup {<<"par2", k>> : k \in 1..5}) = {}

=============================================================================

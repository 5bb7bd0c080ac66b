# TLA+ models of the bindead test programs

The repository is a corpus of small C programs that serve as fixtures for a binary
analyser. Only one has a real design: the AVL tree in
`src/binspot/src/test/resources/bindead/src/avlTreePineWiki.c`, with its demo
driver `main`. Three more (`barber.c`, `efm.c`, `cars.c`, adapted from StInG)
are loops over a handful of counters that end in an asserted invariant. They
are small transition systems, well within TLC's reach. Duff's device
(`switches-static-duffs-device.c`) is a small loop with a jump into its body.
This project models the AVL tree at two levels (tree values and heap
pointers), then those loops. It also models the smaller fixtures, each as a
step machine of what the code does: the switch fixtures, the struct overflow
of `ex.c`, the two inline-assembly instruction-aliasing programs, the AVR
port read, the recursion and call fixtures on an explicit frame stack, and
the return-address overwrite of `clobber--CASE-4.c` over every frame layout.

## Inventory

| Component | Source | State | Operations | Hard parts |
|---|---|---|---|---|
| AVL tree | `avlTreePineWiki.c` 41-268 | a tree of `struct avlNode {child[2], key, height}` reached through an `AvlTree *` slot | `avlInsert`, `avlDelete`, `avlDeleteMin`, `avlSearch`, `avlGetHeight`, `avlSanityCheck`, `avlPrintKeys`, `avlDestroy`. Internals: `avlRotate`, `avlRebalance`, `avlFixHeight` | a cached height at each node, kept right by the order of the fix-ups; the choice between single and double rotation; successor-copy deletion; the root slot replaced in place |
| AVL demo driver | `avlTreePineWiki.c` 273-309 | `t`, `i` | usage check, insert 1024 permuted keys, asserts and sanity check, 1023 `avlDeleteMin`, print, destroy | a long, fixed call sequence; the loop bounds |
| Barber shop | `barber.c` | `barber`, `chair`, `open`, `p1..p5` (unsigned) | `new_customer`, `serve_customer`, four barber steps in `main` | branches chosen by reads of uninitialized variables (undefined behaviour); customer and barber steps interleave |
| EFM | `efm.c` | `X1..X6` (unsigned) | `foo`, `bar`, one inline transition | an asserted invariant over six counters |
| Cars | `cars.c` | `x1..x3`, `v1..v3`, `t` (unsigned) | `doThen`, `doElse` | signed constants compared with unsigned counters |
| Duff's device | `switches-static-duffs-device.c` | `count`, `n`, `to`, `from` | `switch_duffs_device` | a jump into an unrolled loop; C's truncating `/` and `%` |
| array_int | `array-sub-int.c` | `r`, `i` (int) | `array_int` | intermediate signed overflow in a telescoping sum |
| Switch fixtures | `switches-dynamic*.c`, `switches-static-non-jump-table.c` | `retval`, the selectors | `switch_middle`, `_negative`, `_nested`, `switch_small`, `switch_big`, each `main` | fall-through and the scope of `break` in a nested switch; holes and negative labels |
| ex.c | `ex.c` | `struct s t`, `i` | `foo` | `i <= t.n` writes past `A` into `n` and `state`; char signedness; undefined behaviour that builds resolve differently |
| Instruction aliasing | `asm/mcveto-instraliasing*.c` | `%eax`, `%ebx`, `%edx`, the machine stack, `n` | the asm blocks, `foo` | a jump into the middle of an instruction; which register carries foo's argument |
| AVR port read | `avr8/predicates-001.c` | `n` (int8_t) | `main` | an unsigned byte converted to a signed one |
| Call fixtures | `recursion.c`, `tailCall-simple.c`, `undef-function-calls.c` | frames of `main`, `rec_*`, `f`, `g`, `h` | each function, each `main` | unbounded recursion; a loop that rewrites its own bound; a function that falls off its end |
| clobber | `clobber--CASE-4.c` | `foo`'s frame: `n`, `addr_bar`, `i`, saved `%ebp`, return address | `foo` | writes past `arr` whose effect depends on the frame layout the compiler chose; uninitialized `n` |
| `matrix-blowup.c` main | see `PROJECT.json` | locals only | `main` | 10,000 uninitialized ints; listed as not modelled with the reason |

Interaction: all the code is single-threaded. The AVL driver calls the tree API.
Every other program is a single `main`. The "interleaving" in `barber.c` is
between the steps of its simulated customers and barber: one loop picks which
one moves next.

Properties that make each component correct:

- AVL tree: cached heights are exact (`avlSanityCheck`), BST order holds, AVL
  balance holds (invariant 3 of spec.md), height is logarithmic, and the key
  set behaves as an ordered set (insert/delete/deleteMin/search).
- Driver: its asserts never fail; it never calls `avlDeleteMin` on an empty
  tree; exactly the largest key is left.
- Heap: the pointers form a tree; no node is freed while linked; no node is
  leaked, and `avlDestroy` frees all; the pointer code computes the value-level
  result.
- EFM and Cars: the final check (`UNREACHABLE`) never fires.
- Duff's device: it returns, and copies exactly `count` elements for
  `count > 0` (8 for 0 and the negative multiples of 8, none otherwise).
- Switch fixtures: each call assigns `retval` once, with no fall-through.
- `ex.c`: the summary's cases (i) and (ii), made exact for the ABI layout
  and every frame layout.
- Instruction aliasing: the block calls `foo` once, adds 4 to `n`, and ends.
- AVR: no property. The annotated return range `[0, 9]` follows from line
  9's guard alone, whatever the byte's conversion, so checking it shows nothing.
- clobber: line 4's comment says `bar` returns to main. When `foo` returns
  into `bar` through the overwritten return address, `bar`'s ret pops
  `addr_bar` again or a word of main's frame instead: a violation run.
- Call fixtures: unoptimised, `recursion.c` ends in a stack overflow in
  `rec_nonterm`. At `-O2` it hangs there instead, because GCC turns the tail
  call into a jump. `f` never falls off its end on main's path.
- Barber: the check at line 106 (`p5 >= open`, each `p_i <= 1`) never fails;
  customers are conserved between waiting, seated and served.

## Modules

- `AvlTree.tla`: the tree as values, with each C function as an operator.
  `AVL_EMPTY` is the null pointer. A node is
  `[child |-> [d \in {0,1} |-> tree], key, height]`. A function that writes
  through `AvlTree *t` returns the new content of the slot. `avlDeleteMin`
  returns `[tree, min]`. The module's constant `DeleteGuard` selects line 249 as
  written (`*t != AVL_EMPTY`: return on a non-empty tree) or the one-character
  correction that spec.md 4.7 prescribes. The body of `avlDelete` (lines
  251-267) is reachable only with the correction. The module also has the tree
  predicates the invariants use (`KeysOf`, `Nodes`, `HeightOk`, `OrderOk`,
  `BalanceOk`, `AvlMaxHeight`), plus fault-injected variants of several operators
  (`*_staleHeight`, `*_wrongDir`, ...) that show each property can be broken.
- `AvlSet.tla`: the abstract specification, an ordered set of keys with the
  interface variable `call` (the API call just made), and the results `found`
  and `minValue`.
- `AvlClient.tla`: an arbitrary caller. One action per API call (`Insert`,
  `Delete`, `DeleteMin`, `Search`), each applying the whole C function
  atomically, since nothing runs concurrently with a call. `crashed` records a
  null dereference (delete on an empty tree with the guard as written). The
  client refines `AvlSet` through `INSTANCE AvlSet WITH set <- KeysOf(tree)`.
  `call` is the interface variable: without it, a delete that does nothing
  would look like a stuttering step.
- `MC_AvlClient.tla`: keys `1..8`.
- `AvlMain.tla`: `main()` step by step: `Start` (argc), `InsertLoop` (one
  `avlInsert` per step), `Check` (the asserts and `avlSanityCheck`),
  `DeleteMinLoop` (one `avlDeleteMin` per step, then the final sanity check),
  `Destroy` (`avlPrintKeys`, which changes nothing, and `avlDestroy`, after
  which the tree value is gone). A failing assert takes `pc` to `"aborted"`, a
  null dereference to `"crashed"`.
- `AvlHeap.tla`: the same functions on a heap. A heap state is a record
  `[mem, alloc, root]`. Each function takes an `AvlTree *` slot, either the
  handle (`RootSlot`) or a node's child field (`ChildSlot(p, d)`), and writes
  it with `Store`, as the C does. `avlRotate` is the pointer writes of lines
  130-132. `free` is `Free`, and a freed node's contents become `Garbage`.
  `avlDestroy` is modelled here too.
- `AvlHeapMain.tla` (+ `MC_AvlHeapMain.tla`): the same `main()` on the heap
  of `AvlHeap`, with 1024 addresses. Each call is made on `&t`. `malloc`
  takes the least free address; no property names an address, so this one
  choice stands for all. `SanityOk` is `avlSanityCheck` read from the heap.
  `Main` instantiates `AvlMain` with `tree` mapped to the value the heap
  stores under `t` (nothing after `avlDestroy`), so the driver's checks are
  stated once, in `AvlMain`, and read on the heap.
- `AvlHeapClient.tla`: the calls of `AvlClient` on the heap, plus `Destroy`
  (main's last call). `Insert` takes the address `malloc` returns from the
  free ones, and aborts (the assert of line 182) when none is free.
  `Value(t)` reads the heap back as a tree. `Client` is `AvlClient` instanced
  with `tree <- Value(t)`, so the pointer level is checked against the value
  level.
- `MC_AvlHeapClient.tla`: key sets for the two runs; symmetry over the
  addresses. The symmetry is used only in the invariant-only memory run.
- `Efm.tla`: `efm.c`. All six counters start from any valuation in
  `0..MaxX1`, since they are read uninitialized. `Enter`/`Reject` is the guard
  of line 37. `LoopEnter`/`LoopExit` is the `MakeChoice()` of the while test.
  `Iteration` is one loop body: skip, the first transition if enabled, or else
  one of `foo`/`foo`/`bar`/`bar`.
- `Cars.tla`: `cars.c` with unsigned arithmetic of width `W` (`U(n) ==
  n % 2^W`), and signed constants converted as C converts them. The speeds are
  uninitialized, drawn from `UninitValues`.
- `Duff.tla`: `switch_duffs_device` as a step machine. `Switch` (lines 5-7),
  one `Copy` per `*to = *from++`, and `WhileTest` (`--n > 0`). `CDiv`/`CRem`
  are C's truncating division. `remaining` is the position in the unrolled
  body.
- `ArrayInt.tla`: `array_int` of `array-sub-int.c`, one step per loop
  iteration, in `W`-bit int. A signed overflow wraps (`Wrap`), as the targeted
  builds produce.
- `Barber.tla`: `barber.c`'s loop. The while test, each of the eleven tests of
  the if-else chain, and each branch are steps. Every read of an uninitialized
  variable may give either bit. This covers both a -O0 build (the same garbage
  bit every time) and an optimising build (a fresh undefined value per read).
  `p[1..4]` are `p1..p4`.

- `Switches.tla`: each switch is a sequence of arms `[labels, default, stmt,
  brk]` translated from its source (`switch_middle`, ..., `switch_big`;
  `switch_par2` is the inner switch of `switch_middle_nested`). `Dispatch` is
  C's jump to a label or default. `Exec` runs an arm's statement: an
  assignment, or a nested switch pushed on `frames`. `Leave` applies `break`
  to the innermost switch or falls through. `main_*` are each `main`'s calls.
  `ran` records the arms that ran.
- `Ex.tla`: `foo` of `ex.c` with `t` laid out by the ABI. `A[3]` is the word
  whose low byte is `n`, and `A[5]` the one whose low byte is `state`. `B`
  holds just the two bytes that are read back. `build` is `"reload"` (the loop
  test rereads `t.n`) or `"hoisted"` (it keeps 3). Both are outcomes of the
  undefined store. Past `t`, `layout` is the sequence of frame words up to
  the return address: possibly `i` and an alignment word `pad`, in any order,
  then the saved `%ebp` and the return address. `frame` holds the last two.
  A store into `i` sets the counter to `B`'s word. `Check` returns through
  `frame.ret`: to `main`, straight to main's `REACHABLE()` call, or to a wild
  address. `main` takes `foo`'s result to `REACHABLE()`, or returns, with a
  bad frame pointer if the saved `%ebp` was overwritten.
- `InstrAliasing.tla`: both asm blocks, one action
  per instruction, with the registers in `reg` and the machine stack in `stk`.
  `Push`/`Call`/`Pop` are the decoding of the bytes 53 ff d0 5b from L1+1.
  `foo` is a cdecl call that reads its argument under the return address.
  Addresses are integer constants: `foo` is at 0, as the source says, and the
  text and stack addresses are those of a linked i386 program.
- `Predicates.tla`: `main` of the AVR fixture. `Read` takes any byte and
  converts it with `I8`; `Test` and `Return` follow. No property is checked:
  the fixture's annotations hold by line 9's guard alone, and a byte above
  127 fails `n < 10` whether it is converted to `int8_t` or not.
- `CallStack.tla`: the three call fixtures on `stack`, a sequence of frames
  `[fn, at, i, j, x]`, with `MaxDepth` frames. `Call` pushes a frame, or
  overflows. `Ret` pops and leaves the value in `rv`. `TailReturn` is every
  `return callee(...)`. `f` has both loop bounds (`j < i`, `j < 16`).
  `rvDef` marks a value from an `f` that fell off its end. `build` is `O0`
  or `O2`. `TailCall` is every `return fn(...)`: at `O0` a call whose frame
  waits to pass the value on, at `O2` a jump that reuses the caller's frame.
  At `O2`, `rec_nonterm` is a jump to itself. Nothing reads its `i`, so GCC
  drops the increment, and the step changes nothing.
- `Clobber.tla`: `foo` of `clobber--CASE-4.c`. `layout` is the sequence of
  words from `arr[2]` up to the return address: some of `n`, `addr_bar` and
  `i`, in any order, then the saved `%ebp` and the return address. `frame`
  holds those words' values. `Guard` is line 12, `Test`/`Body` the loop, and
  `Store` the write `arr[i] = addr_bar`. `Return` is `leave; ret`: to `bar`
  if the return address was overwritten, to `main` with a bad frame pointer
  if only the saved `%ebp` was, else to `main`. A store past `MappedWords`
  faults. `top` is the highest word the loop wrote. `Bar` is `bar`'s `ret`,
  which pops the next word up: `addr_bar` again if the loop wrote it,
  otherwise a word of main's frame (`main_frame`). `Main` is main's
  `return 0`.
- `MC_Fixtures.tla`: the eight single-threaded fixtures above (`InstrAliasing`,
  `Ex`, `Switches`, `Predicates`, `CallStack`, `Duff`, `ArrayInt`, `Clobber`,
  `Cars`)
  as one sum.
  They share no state. Each behaviour picks one fixture (`which`) and runs its
  module's `Init` and `Next` through `INSTANCE ... WITH`, with the constants
  given there. The variables of the other fixtures hold the model value `Off`.
  Every property of a fixture is stated as `which = "<fixture>" => <its
  property>`.

## Runs

| Run | Expect | What it shows |
|---|---|---|
| `client_fixed` | pass | With the delete guard corrected, every sequence of calls over 8 keys (234,635 states) keeps heights exact, keeps BST order, and refines `AvlSet`: search answers membership, deleteMin returns the least key, delete removes exactly its key. |
| `client_delete_as_written` | violation | As written, `insert(k); delete(k)` leaves `k` in the tree. |
| `client_balance` | violation | Eight inserts and one `avlDeleteMin` produce a node with children of heights 0 and 2 (code as written). |
| `heap_main` | pass | The real `main` (N = 1024, MULTIPLIER = 97) on the pointer heap, all 2,054 states in 14 s. The asserts pass, there is no null dereference, key 1023 alone is left, and the height never exceeds the AVL bound. No node leaks: the 1023 nodes `avlDeleteMin` unlinks are freed at once, and `avlDestroy` frees the last. |
| `main_unbalanced` | violation | The same `main` is out of AVL balance after its 14th `avlDeleteMin`, though its sanity checks pass. |
| `heap_refines` | pass | 4 keys, 4 addresses (21,381 states): the pointer-level tree, read back as a value, takes exactly the steps of `AvlClient`, so in-place rotation, successor copy and splicing compute the value-level result. |
| `heap_memory` | pass | 6 keys on a 5-node heap, with inserts that find it full and the final `avlDestroy` (19,959 states under symmetry): the pointers form a tree, no linked node is freed, every allocated node is linked, and nothing is left after `avlDestroy`. |
| `efm` | pass | Every start line 37 admits (X1 <= 4) and every `MakeChoice` sequence: line 68 never fires. Also: `X3` and `X6` stay 0, so the calls of lines 51, 55 and 59 never change anything. |
| `fixtures` | pass | `MC_Fixtures` under `Fixtures.cfg` (70,736 states). Each fixture's own check: **stack asm aliasing**: From any register contents, the stack fixture's block calls `foo(&n)` once, adds 4 to `n`, and reaches main's return (under weak fairness). **ex.c**: For every layout of `foo`'s frame and both builds, with `B[3]`'s low byte from {3, 4, 5, 6, 7, 8, 9, 12, 128, 255}, `B[5]`'s from {7, 8, 136} and the frame words from {0, call site}. `main` reaches `REACHABLE()` only through the summary's (i) or (ii). (i) needs the reloading build, `n >= 5` and `state = 8`, and is always taken with `n = 5`. (ii) is taken whenever `n` reaches the return address, `B` holds the call site there and `i` does not lie below it. `foo` returns whenever `i` is not among the words the loop writes (under weak fairness). **switches**: All four fixtures with `argc` in 0..7: every call assigns `retval` exactly once before it returns, so the break after the inner switch leaves `switch(par1)` too. The arms labelled -5..-3 and the five case arms of the inner switch (par2 = argc + 5) never run. **call fixtures**: In both builds on a 90-frame stack. `rec_simple(20)` returns 101. At `O0` the overflow happens in `rec_nonterm`, and `recursion.c` always ends in it. At `O2` no chain of calls needs more than three frames, and `recursion.c` stays in `rec_nonterm` for ever. The other two fixtures return `g(20)`, and `f` is only ever called with `i > 2` (21, then 3). **Duff**: Counts -9..24: the function returns (under weak fairness), and reads exactly `count` elements for `count > 0`, 8 for `count` = 0, -8, ... and none for the other negative counts, leaving `from[count-1]` in the register. For `count` = INT_MAX - 1 and INT_MAX, `count + 7` wraps in the unoptimised build. `n` is then negative, and only `count % 8` elements are copied. **array-sub-int.c**: For every array of up to four 8-bit values from {-128, -1, 0, 1, 127}, and for main's array: `array_int` returns `a[sz-1] - a[0]` (0 when `sz = 0`), even when single differences and partial sums overflow. **cars.c**: 8-bit unsigned, every speed valuation around the guard's edges: the loop body never runs (`-5` becomes 251), so nothing moves, and line 60 never fires. |
| `aliasing_global` | violation | `MC_Fixtures` with only the global asm fixture (`Fixtures_aliasing_global.cfg`): its block adds the address of L1+1 (134,513,729 here) to `n` instead of 4. |
| `clobber_bar_returns` | violation | `MC_Fixtures` with only `clobber--CASE-4.c` (`Fixtures_clobber.cfg`): line 4's "return to main" fails. With `n = 4` and none of `foo`'s locals between `arr` and the saved `%ebp`, the loop writes `addr_bar` over the saved `%ebp` and the return address, `foo` returns into `bar`, and `bar`'s ret pops a word of main's frame. Over the 16 layouts and `n` in -1..11 the model also reaches `bar` re-entering itself, a bad frame pointer, a fault (when `n` is overwritten) and the normal return. |
| `barber` | pass | Every choice of branches and loop exits: `UNREACHABLE` is unreachable, and waiting customers = chairs + open + the one being seated. |

### Findings

1. `avlDelete` line 249 has an inverted guard: the function never deletes
   anything, and crashes on an empty tree.
2. `avlRebalance` line 154 sends the case of equal grandchild heights to the
   double rotation. That case arises only after deletions, and there the double
   rotation leaves the demoted node unbalanced by 2. Spec.md 4.3 says this
   tie-break "never affects correctness", but it breaks invariant 3.
   With arbitrary callers the height may then exceed what an AVL tree of that
   size can have; no run checks this (`HeightBound` is checked on the driver's
   own sequence only, where the height stays within the bound).
3. `avlSanityCheck` checks only heights, so the driver cannot detect finding 2.
4. `mcveto-instraliasing.c` line 32: `lea L1+1, %ebx` overwrites the 4 that
   line 27 put in `%ebx`. The aliased `push %ebx` passes that 4 as `foo`'s
   argument, so `foo` adds a code address to `n` instead, and `main` returns 0
   for every `y`. The `-stack` variant jumps through `%edx`, and there `n`
   becomes 7.
5. `clobber--CASE-4.c` line 4: `bar`'s `return; // return to main` does not
   return to main once `foo` has returned into `bar` through the return
   address its loop overwrote (which line 17's comment says can happen).

Observations that are not disagreements with any text in the repository:

- `efm.c`: from the start state of line 37, only the first transition and
  `bar(&X2, &X1, &X4, &X6)` ever change a counter. The check of line 68 is
  therefore exercised by a two-transition system. (The StInG original starts
  from a different state.)
- `cars.c`: the loop body is dead because of the unsigned comparison at line
  48, so line 60 holds only because nothing moves.
- `tailCall-simple.c`/`undef-function-calls.c`: `h(21)`'s loop ends with
  `i = 3`, so `f` returns `point.x`. One less (`h(20)`) gives `f(2)`, which
  falls off its end.
- Duff's `main` calls the K&R `switch_duffs_device(1, 8, 7)`, so the pointers
  `to` and `from` are 1 and 8. The first copy reads address 8 and faults
  (line 22; the model's `Copy` faults there, and no property restates it).
- `ex.c`: case (i) of its summary needs `n` to be at least 5, and `n = 5`
  always takes it. With 4 the loop stops before `state`; with 6 or more it
  writes past `t`, and whether `foo` still returns 1 depends on the frame
  layout (with an alignment word or the saved `%ebp` above `t`, `n = 6` does). Case (ii)
  needs `n` to reach the return address with `i` not below it. If `i` is
  among the words written, the loop can overwrite its own counter and run
  for ever.
- Duff's device with `count = 0` reads 8 elements, and so does every negative
  multiple of 8 (remainder 0, case 0). Any other negative `count` reads none,
  because `count % 8` is negative and matches no case.

### Bounds

- 8 keys: the smallest counterexample to balance needs 8 nodes (a deletion whose
  sibling subtree has height 3 with equal-height grandchildren). BFS over all
  call sequences on 8 keys covers every tree shape of up to 8 nodes that the
  operations reach, which includes every single and double rotation on both
  sides.
- The driver uses the source's own constants, on a heap of 1024 addresses, one
  per node it ever holds. Its run is deterministic apart from `argc`, so TLC
  follows the real 2,048 calls.
- Heap: 4 keys on 4 addresses reach every rotation case and a two-child
  delete. Five keys take 106 s for the refinement alone. The memory run uses
  a heap smaller than the key set, so `malloc` failure is reached.
- EFM: `X1 <= 4`. Every transition conserves `X1+X2+X3` and `X4+X5+X6`, and
  the property is linear in the counters.
- Cars: `W = 8` is the smallest byte width in which 100, 75 and -50 keep
  their roles (-50 wraps to 206). The dead-loop argument needs only
  `2^W - 5 > 5`. `UninitValues` holds every value the guard admits, plus a
  margin it rejects.
- Duff: counts -9..24 cover every remainder, positive and negative, with up
  to three passes. INT_MAX - 1 and INT_MAX make `count + 7` overflow. `MaxCopies = 40` caps `from` and is never reached by the
  code itself.
- ArrayInt: 8-bit int; values at both ends of the range and around 0 make
  every kind of overflow occur within four elements.
- Switches: `argc` in 0..7 reaches every label of the non-negative switches,
  and default on both sides (0 and 6..7).
- `ex.c`: the bytes for `n` stop the loop before `state` (3, 4), at it (5),
  at each frame word of every layout (6..9), past the frame (12), or at once
  (128, 255, negative as a char). The bytes for `state` are 8, 7, and 136,
  whose signed value is not 8. A frame word holds the call site or 0. The 5
  layouts cover `i` and an alignment word in every order.
- Instruction aliasing: `MaxCalls = 3` is never reached by the code (one
  call). `RegValues` includes the values the block compares against (1) and
  writes (2, 4, the address of `n`).
- CallStack: `MaxDepth = 90` holds `rec_simple`'s 83 frames, so the overflow
  is `rec_nonterm`'s, as on a real stack. Any depth of 83 or more gives the
  same outcome.
- Clobber: the layouts are every order of every subset of the three locals,
  16 in all. `n` in -1..11 covers both sides of the guard and every loop
  length up to 10, which reaches three words past the longest layout.
  `MappedWords = 12` is above the tenth word; only a loop whose `n` was
  overwritten goes further, and it faults at whatever bound is used.
- Barber has no bound: its state space is finite. `barber + chair` is at most 1,
  and every flag is at most 1 because every increment is guarded.

### Fairness

Weak fairness on the next-state relation is assumed in `Duff`,
`InstrAliasing`, `CallStack` and the `fixtures` run (which gives `Ex` its
`LoopEnds`) that composes them, for
their eventually properties. In `CallStack` at `O2`, `rec_nonterm`'s only step leaves the state unchanged, so `main` never returns. Each fixture is a single thread whose next step is always enabled until it returns,
faults or overflows, so a real execution does not stop part-way.
Nothing else assumes fairness. The loops of `efm.c` and `cars.c` run as long as
the external `MakeChoice()` says, so they need not terminate. (`cars.c` runs
inside the `fixtures` run under its weak fairness, which does not make
`MakeChoice()` end the loop: the loop step stays enabled; no eventually
property is stated of it.) Every AVL call
terminates by structural recursion. The loops of
`barber.c` and the driver stop only when a read or a counter says so.
`CHECK_DEADLOCK FALSE` is set where the program really stops: after `main`
returns, and after a null dereference kills the process.

## Not modelled

- The `NDEBUG` build of `avlInsert`, which writes through a null `malloc`
  result. The model aborts at the assert, as the source builds with asserts.
- Duff's `main` using the return value of a function that sets none: its
  call faults first.
- The optimised build's outcome of the `count + 7` overflow in Duff's device.
  An optimiser may compute the exact quotient, 2^28 passes, which is beyond
  any bound on the copies. The model takes the unoptimised build's wrap.
- Printing (`avlPrintKeys`, `printf`), which matters only as the key set `KeysOf`.
- Where `clobber--CASE-4.c` goes once `bar` returns into main's frame, or
  once `foo` returns into `main` with a clobbered frame pointer: that depends
  on stack words the program never wrote. The model stops there, as it does
  for `ex.c` after a return to a wild address or main's return with a bad
  frame pointer.
- `matrix-blowup.c`'s `main`: it sums 10,000 uninitialized ints. A smaller
  matrix would not be this code, and the sum of arbitrary values says nothing.
- `var_array` of `recursion.c`: `main` never calls it, because `rec_nonterm`
  overflows first (`O0`) or never returns (`O2`).
- Optimisations of the call fixtures other than sibling calls (inlining,
  constant folding, dropping `g`'s unused `f(i + 1)`). They change no
  outcome the properties state.
- The `-O0` frame assumption of `mcveto-instraliasing-stack.c` (`n` at
  `-4(%ebp)`) is taken as given.

## Plan

1. Done: `AvlTree`, `AvlSet`, `AvlClient` (refinement, heights, order,
   balance), `AvlMain`, `Barber`.
2. Done: `Efm`, `Cars`, `Duff` (liveness), and the pointer-level
   `AvlHeap`/`AvlHeapClient` (refinement of `AvlClient`, memory safety).
3. Done: `Switches`, `Ex`, `InstrAliasing`, `Predicates`, `CallStack`, and
   Duff's `main`.
4. Done: `Clobber`, and the fixtures composed as one sum (`MC_Fixtures`).
5. Done: the driver `main` on the heap model (`AvlHeapMain`), checked with
   `AvlMain`'s properties read from the heap.
6. Done: the `count + 7` wrap near INT_MAX is modelled. `Clobber` follows `bar`'s
   returns after the return-address overwrite.
7. Done: the `O0` and `O2` builds of the call fixtures (sibling calls),
   `ex.c`'s writes into `foo`'s frame (the summary's case (ii), and a loop
   that overwrites its own counter), and main's array of `array-sub-int.c`
   in `ArrayInt`.
8. Done: type invariants that held by the shape of a conversion (`Cars`,
   `Predicates`) and properties that restated a guard or another property
   (the `CopyLoop` refinement, Duff's `MainFaults`, the step-by-step
   refinement of `AvlMain` by `AvlHeapMain`, which `heap_refines` already
   shows for every call sequence) were dropped. `Cars` joined the fixtures
   composition, and clobber's line 4 comment became a violation run.

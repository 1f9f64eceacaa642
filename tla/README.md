# Verification of ezrac

ezrac compiles the EZRA language for small machines (eZ80, Z80, Game Boy, 6502, AVR, 8086 and others). This directory holds TLA+ models of the parts of it whose correctness is hard to see from tests, the TLC configurations that check them on small instances, and TLAPS proofs of what they promise for every instance. Paths below are relative to the repository's root unless they start with `src/`, which is then its library crate (`src/src/...` from here).

## 1. The system

```
 files --> workspace / import resolution (compile.rs) --> parser --> AST --> HIR
                                                                     |
             +-------------------------------------------------------+
             v                                                       v
   TBIR: optimiser, range, demand, ...            source lowering for allocation
   (eZ80 emitter)                                 (regalloc/source.rs)
             |                                                       v
             |                                     register allocator (regalloc.rs)
             |                                                       v
             +-----------------> emitters (asm/*_emitter.rs) <-------+
                                        |
             routine stripping (asm/reachability.rs), copy cleanup (asm/copy_cleanup.rs)
                                        |
             preprocessor, assemblers (asm/*) --> layout, banks --> images, packages
 editor <-- LSP --> language server (crates/ezrac-cli/src/lsp_server.rs) --> import resolution, parser, checks
```

The compiler is a pipeline of passes in one thread: components interact by calls, and what is hard in it is what a pass must keep about all the paths of a program that it sees only as text or as a graph. The language server is the one concurrent part: an editor, other programs that write the same files, and the server, connected by two pipes.

### 1.1 Inventory

| Component | State it keeps | Operations | What makes it correct | Status |
|---|---|---|---|---|
| Register allocator, `src/regalloc.rs` | liveness sets per block, live intervals, locations, spill slots and area cursors | validation, round-robin liveness, interval construction, linear scan with fixed operands, clobbers and copy preferences, spill placement with slot reuse | liveness is exactly path liveness; values alive together share no register unit and no byte; clobbers and fixed operands are honoured; a register conflict is reported only where two fixed demands clash; it terminates | modelled, proved |
| Source lowering, `src/regalloc/source.rs` | the blocks under construction, the current block, loop targets | one case per statement form; expressions to uses, definitions, clobbers | the program that runs on the allocated storage reads what the source says | modelled |
| Routine stripping, `src/asm/reachability.rs` | set of routine entries, blocks, visited flags, worklist | discovery of routines in text, marking, removal | the stripped program behaves as the whole one; it still assembles; nothing is kept in vain | modelled, proved for texts written in routines |
| Language server, `crates/ezrac-cli/src/lsp_server.rs` | open documents, URIs that diagnostics were published for | didOpen, didChange, didSave, didClose, didChangeWatchedFiles, shutdown; read-only requests | what the editor shows can be taken back, was computed from the text of the version it is stamped with, and becomes true | notifications modelled; safety proved |
| Code emitters, `src/asm/*_emitter.rs`, `src/tbir/ez80.rs` | output text, label counters, planned locals | one per target | code means what the source means | the layout of AVR locals only |
| TBIR optimiser, `src/tbir/optimize.rs`, `range.rs`, `demand.rs`, `src/optimization.rs` | the program under rewriting; within a pass, propagated values, available expressions, known bits, fresh names | ten passes in a fixed order, four of them again at level 3; value facts; narrowing | after every pass the program prints, writes and returns what it did; facts are true of every value; no name is captured or lost; a tail recursion needs no stack | every pass modelled, parts of the language left out; value facts proved |
| Asset bank planner, `src/banking.rs` | bytes, first free byte and seal of each bank, placements | validation, supplied images, first fit with alignment | nothing placed is overwritten, addresses are aligned, no bank with room is passed over | modelled, proved |
| Copy cleanup, `src/asm/copy_cleanup.rs` | known register contents within a window | removes redundant moves | the removed move was redundant on every path into the window | planned |
| Assembly preprocessor, `src/asm/preprocess.rs` | macro table, conditional stack, include stack | expansion with limits | ends on recursive macros and includes; balanced conditionals | planned |
| Compilation and imports, `src/compile.rs` | loaded modules, aliases | resolution over overrides, SDK, disk | cyclic imports end; each module once; shadowing | which files a check for the editor blames; the rest planned |
| Layout and images, `src/layout.rs`, `src/disk.rs`, `src/cart.rs`, `src/package.rs` | regions, allocation tables | placement, FAT12 and D64 writing | no overlap, chains end, sizes fit | planned in part |
| DPMI heap, `dos/src/heap.rs` | block list over DOS memory | allocate, free, grow | no overlap, no leak on failure | planned |
| Parser, AST, HIR; assemblers; virtual machine for tests; CLI; editor grammars | trees and tables | sequential translation | | not modelled, see section 8 |

### 1.2 Hard behaviours

`PROJECT.json` lists each one at its line. The main ones:

* fixed points that are compared while they change (liveness), and worklists that push themselves back (stripping): termination and exactness;
* boundaries of inclusive intervals, uses and definitions of one instruction, alignment and 32-bit limits of spill areas;
* registers that alias through their units, and an order of visits in which a free value meets a fixed one first;
* control flow that the lowering must see as the program does: ways out of loops, conditions, partial assignments, pointers that outlive names;
* ten rewriting passes that each lean on what the earlier ones leave, over a language with calls, ports, pointers and volatile memory: values recorded early and used late, expressions moved over statements, statements moved over expressions;
* arithmetic that wraps, truncates, or changes sign at the width of a type, and facts about all of its results at once;
* addresses, alignment and sizes at the end of a bank and of the address space;
* text that is cut in routines by rules which depend on what was cut before;
* diagnostics for files that are not open, closes and file events that are on their way, buffers and disk mixed in one check.

## 2. Plan

The order is by how much the correctness of compiled programs depends on the part and how little a test reaches it. Steps 1 to 7 are done.

1. `RegAllocIR`, `Liveness`, `Allocator`: the allocator, with an abstract specification `VirtualMachine` (one cell per virtual register) and `AllocExec`, the allocated function at work. Proved for every function and target.
2. `SourceProgram`, `SourceMachine`, `SourceLowering`, `SourceExec`: source bodies lowered, allocated and run against their meaning.
3. `AssemblyText`, `AssemblyMachine`, `RoutineStripping`: stripping and the stripped program at work, refining the whole program. Proved for every set of texts that are written in routines.
4. `LanguageServer`. Its safety proved for every project.
5. `TbirSyntax`, `TbirMeaning`, one module per pass of the optimiser, `ValueFacts` and `Optimizer`: the program after every stage against the program before, by an interpreter.
6. `BankPlanner`. Proved for every geometry, image and asset.
7. `TbirArithmetic`, the arithmetic that `TbirMeaning` and `TbirRange` share, without recursion; over it the value facts are proved true for every width of a byte, every depth and every operator, in `ValueFactsProofs`.
8. `ImportResolution`: the declarations and aliases that resolution builds over cyclic and shadowing imports; takes the import walk over from `LanguageServer`; theorem: each module is loaded once and the loader ends.
9. `CopyCleanup` over `AssemblyText`, the machine with register contents; property: the cleaned program refines the original.
10. `Preprocessor` (limits, conditionals), `DpmiHeap` (disjoint blocks, failure of a DOS call between two steps), FAT12 and D64 allocation of `disk.rs`, `layout.rs`.
11. The parts of TBIR left out of step 5: sibling tail calls with the eZ80 emitter that makes them, two-value lets.

## 3. Modules and the code

### 3.1 Register allocator

`RegAllocIR` is the input: `Target`, `Function`, `BasicBlock`, `Instruction`, `VirtualRegister`, validation (`Valid`), the program points (`UsePoint`, `DefPoint`, `BlockStart`, `BlockEnd`: uses and definitions of one instruction are different points, as in `instruction_layout`), `Gen` and `Kill`. Ids count from 1 instead of 0; lists whose order nothing depends on are sets; register aliasing is by sets of units.

`Liveness` is `analyze_liveness`. `VisitBlock` is one iteration of the inner loop, with `cursor` and `changed`; `NextPass` and `LivenessDone` close a pass. It is a state machine of its own because its intermediate states matter: a pass reads sets that the same pass has already changed.

`Allocator` extends it with `CheckInput`, `BeginScan`, `AssignRegister`, `SpillValue`, `RegisterConflict`, `EndScan`, `ShareSlot`, `CreateSlot`, `SpillExhausted` and `Finish`: one action per outcome of one iteration of the scan and of the placement loop. The code's active list, reserved fixed intervals and last slot users are what `TakenByOther`, `ReservedForOther` and `SharedSlots` read; candidates are in the order of copy offers and then the class (`TriedBefore`). `U32Max` is the code's `u32::MAX`, checked where it uses checked arithmetic.

`VirtualMachine` is the abstract specification: each virtual register has a cell of its own. `Storage` maps locations to cells (units of registers, bytes of spill areas, as `plan_function_locals` of the AVR emitter does). `AllocExec` runs an allocated function: `Enter`, `Execute`, `Jump`. An instruction reads, its clobbers are destroyed, then it writes. `RunsLikeVirtualMachine` is the refinement, with the identity on `fn`, `pc`, `env` and `obs`, where `obs` is what the last instruction read from real cells.

### 3.2 Source lowering

`SourceProgram` describes statements by what allocation can tell apart (names read, addresses taken, calls, reads through pointers). `SourceMachine` is their meaning: values are abstract, so conditions go either way, and a local whose address has escaped may change at any call. `SourceLowering` is `lower_source_function` with its current block, its loop targets and its per-statement cases; it is RECURSIVE as the code is. `SourceExec` composes lowering, allocator and run; `RunsLikeSource` is the refinement.

### 3.3 Routine stripping

`AssemblyText` is a text as `reachability.rs` reads it: a line has a label, a kind (what the transfer profiles make of a mnemonic) and the labels its operands name; `InBank` and `Edge` are what cuts it besides routines. `AssemblyMachine` is the abstract specification: what text does when it runs. It runs from any entry point; an indirect transfer goes to any address that has been loaded, or left by a call, so far. `RoutineStripping` is `discover_generated_routine_labels` (`Consider`, a label at a time, in order, because each decision moves the regions of the next), the cutting into blocks (`Body`, `Boundary`), the roots (`RootBlocks`), the worklist (`Visit`; the code's stack is a set, so every order is covered) and the output (`WriteOutput`), after which `RunStripped` runs what is left. `Original` and `Output` are two instances of `AssemblyMachine`, over the whole text and over the kept lines.

### 3.4 Language server

`LanguageServer` has the editor (`EditorOpen`, `EditorChange`, `EditorSave`, `EditorClose`, `EditorWatched`, `EditorShutdown`, `ShowDiagnostics`), other programs (`WriteFile`), two FIFO pipes and the server: `HandleMessage` is one turn of `Server::run`, with one operator per notification handler. `Publish` is `publish_workspace_diagnostics`: `Roots`, `CheckedLayouts` and `Diagnosed` compute who has a diagnostic from open documents and disk, `Withdrawn` are the URIs to clear, and `published` is `published_diagnostic_uris`. A handler reads the disk in one step: a write by another program comes before or after a whole check, and the file event that follows it makes the server check again.

What a check reports is `CompileErrors`, from `check_diagnostics_with_sdk_and_overrides` and what it calls in `src/compile.rs`. A root that does not parse has that error alone. Otherwise `Loads` walks through its imports as `collect_private_imports` does, depth first and each file once, and ends at the first that cannot be read (an error of the root, which has no place in another file) or parsed (an error of that file). An import cycle is an error of the root. Else every file that was loaded has its own errors and those of names that an import does not declare. So the error of a file may come with an edit of another file, open or not.

The contents of a file are clean (with its imports, right if they are), alone (as clean, without imports), bare (as alone, without the declarations that others use), wrong (with an error of its own), broken (it does not parse) and missing. They let an error appear in a file that was not touched, move from the importing file to the imported one, hide the errors behind it, and become unreachable. A manifest (`Ezra.toml`) is clean or broken: a document whose manifest is broken has that error and is not checked (`Configured`), and a root without a text or without settings is itself the error (`Compiled`).

### 3.5 TBIR optimiser

`TbirSyntax` is the program text: the expressions, places, statements and functions of `src/ast.rs` as records, and the traversals all passes share (names used, assigned, declared; purity; termination of a block). `TbirMeaning` is the reference: an interpreter of that text from the language's documents, which translates no code of the optimiser. It shows what a program prints to ports, what it reads and writes of volatile memory, in order, the globals it leaves, and its result; integers wrap at their declared width. What operators compute is in `TbirArithmetic`: types and widths, a number as a set of bits (`BitsOf`, `ValueOf`, `Wrap`, `Signed`), `Arith` and `Compare`. Calls and loop rounds are counted against `fuel`; a run that needs more is stuck and exempt.

Each pass is an operator from functions to functions, in the code's names: `TbirScalar` (`scalar_simplify_program`, `simplify_idempotent_operations_program`), `TbirComptime` (the `Evaluator` that simplification asks for the value of constants and `@comptime` calls), `TbirLoops` (`hoist_pure_loop_invariants_program`, `hoist_named_memory_reads_program`), `TbirPropagation` (`local_propagation_and_cse_program` and the two dead-code passes), `TbirKnownBits` (`known_bits_program`, with `analyze`, the walk over an expression), `TbirInline` (`ExpandCalls` for `expand_inline_functions`), `TbirDemand` (`apply_program`), `TbirTail` (`run_tail_passes`). `TbirRange` is `range.rs`: facts of an expression (width, signedness, both ranges, known zeros and ones) from the facts of its operands; bit masks are sets of bit numbers. It holds the operators of that file one by one and no recursion; the walk that applies them to a tree is `analyze`.

`Optimizer` composes them. `Begin` fixes the options of a run and with `EnabledStages` the list of stages; each stage of `optimize_program_with_context_and_options` is an action that rewrites the whole program, the simplifications after inlining included. `ValueFacts` is a machine of its own for `range.rs`: it builds an expression operator by operator, which is what `analyze` does from the leaves up, and carries along the facts and a value the expression may really have. It extends `TbirRange` only. Expressions mix all operators freely. Two history variables, read by no action, say where `range.rs` is known to be wrong: `derived`, that the bits of the expression are those of a range, and `misled`, that an operator in it read such bits, or shifted left by one of several counts (section 6).

A byte has `ByteBits` bits (three in `Optimizer`, two in `ValueFacts`); a `u16` has twice as many, a `u24` three times. The width only enters the code through the tables of types, so small bytes meet every wrap and every boundary.

### 3.6 Asset bank planner

`BankPlanner` is `plan_asset_banks` with `validate_geometry` (`ValidateGeometry`), the loop over images (`SupplyImage`) and the loop over assets (`PlaceNext`: `Place` or one of the errors). `StopsAt` is the inner loop over banks, which ends at the first unsealed bank that fits or overflows. Images and assets are taken one at a time from the sets the configuration gives, which covers every list. A byte of a bank is named by the image or asset it was copied from and its place there, so that overwriting and shifting can be seen. `U64Max` is the greatest address and the greatest `usize`.

## 4. Runs

The runs of the compiler's parts say `CHECK_DEADLOCK FALSE` because each of these systems really stops: a pass returns, a program ends, a plan is made.

| Run | States | What it shows | Bounds, and why they are enough |
|---|---|---|---|
| `allocation` | 107,372 | liveness passes end, exactly in path liveness, no step withdraws a value, a quiet pass is a solution; no shared units or bytes, clobbers, fixed operands, slots in bounds and aligned, termination, conflicts genuine | five further graphs (diamond, loops, nested, irreducible, dead code) with every assignment of fragments: every shape of back edge that needs a further pass. Two units and their pair (the least aliasing there is), three values, two spill areas, one of two bytes; `U32Max` 16 so that the end of the 32-bit range is reached |
| `execution` | 90,896 | every run of an allocated function reads what the virtual machine would | a self loop and a diamond: one back edge and one merge, values in units, pairs and memory; two values and one junk value |
| `source_bodies` | 18,180 | bodies with calls, asm, pointers, aggregates, every way out of a loop run as the source says, and are never refused by the allocator | one register and three bytes so that sharing always happens; two aggregates so that slots are shared. The shapes of the first two findings below are excluded and have runs of their own |
| `stripping` | 13,685 | the stripped text runs like the whole, never stops short, still assembles, keeps nothing in vain | 84 texts in the two orders that emitters write: all combinations of four bodies of `main`, four of `f`, three of `g`, with start-up code, bank runtime, trampolines, indirect calls, a bank, sections |
| `language_server` | 597,116 | no orphan diagnostics, versions stamped truthfully, the settled view is true, and it settles | a main file, a module it imports that may import it back, a layout, an assembly file and the manifest of all; two versions per document; five events, the least that allow open, fault, save, close and a file event on the way; one disk, with a module that lacks a declaration and a broken layout |
| `value_facts` | 3,516 | facts are true of every value, a mask proof drops or folds rightly, literals stay exact | two mixes: known bits of one- and two-byte types under the bitwise operators, shifts, comparisons and casts, where bits pass between widths; and known bits or any range of one-byte types under every operator, where bits become ranges and ranges bits. All leaves, two operators, so that the second meets what the first derived; counts below, at and past the width, exact or not. Each state quantifies over every value the facts allow |
| `optimizer` | 69,030 | the program means the same after every stage; no name is captured or lost; tail recursion becomes flat | 6 families: straight-line code with effects, volatile and port traffic; loops around invariant values and reads, with writers and exits in every place; inline calls in every position, approved or not; masks over joins, loops and pointers; tail recursion with dependent arguments, branches and loops; compile-time evaluation of constants, arrays and nested calls, with functions it must refuse and its three limits set low enough (29 steps, depth 2, 4 elements) to be met. Levels 1 and 3 (the stages of level 2 are a prefix of those of level 3), several inputs each. Fuel 20 (14 for tails) leaves about a fifth of the recursive families stuck and none of the others |
| `banks` | 818,666 | nothing placed is overwritten, aligned at the linked address, sealed banks get nothing, first fit | two images and three assets, every size up to the capacity and beyond, alignments 0 to 4, two and three banks, a window at 0, at odd addresses, at the last one that is accepted and the first that is not |
| `while_condition`, `refreshed_part`, `conditional_end`, `swap` | | the four findings | the smallest body, text or program that shows each |

Liveness analysis has no run of its own: the allocation run starts with it and checks its properties on the way. Type invariants of the analysis and of stripping are theorems, and are not run again.

Each property of a passing run has a mutant in `PROJECT.json`: a plausible bug at one mapped definition that makes TLC find the property violated under the run's own configuration. The mutated forms stand before the definitions they change and are marked as mutants.

### Findings

1. `while_condition`: `lower_statement` lowers the condition of a `while` into the block that also holds the code before the loop (`src/regalloc/source.rs:350`). A local that the earlier code defines and only the condition reads is not live over the back edge.
2. `refreshed_part`: an assignment to one field or element counts as a definition of the whole (`src/regalloc/source.rs:466`), so the parts that were not assigned are taken to be dead before it.
3. `conditional_end`: `returns("ret")` (`src/asm/reachability.rs:492`, and 482 for the Z80) does not look at a condition. A naked function whose last instruction is `ret nz` is taken to end control; the routine below it is stripped although control runs on into it.

4. `swap`: propagation records the initializer of a local that is never assigned and does not ask whether what it reads is (`src/tbir/optimize.rs:2401`). `let t = a; a = b; b = t;` loses the value of `a`.

### Further miscompilations

The same invariants fail for the programs below. To reproduce one, set `Programs` in `MCSwap.cfg` to the name in the first column: `MeaningKept` fails. The last two are found by `value_facts` when `FactsHold` is asked without its exceptions: with `OneOfSeveral(op, c) == FALSE`, or without `~derived`.

The families of the passing run avoid these shapes, and most of them leave `KnownBits` out, because the wrong bits of ranges reach any arithmetic under a mask. So the passing run guards the hazards that these shapes belong to in part only: a value reused across a call (`optimize.rs:2401`), the order of the passes at `-O3` (650, 1939), facts behind a branch that assigns (3615), a call inlined behind a read (1182), motion out of a loop whose condition or pointers write (2991). It would not see these shapes fail in a new way; whoever repairs one should add its program to the families.

| Program | Where | What happens | What is promised |
|---|---|---|---|
| `Dependent` | `src/tbir/optimize.rs:710` | the tail pass puts arguments in temporaries; the second sweep of `-O3` puts `m + n` back in place of its temporary, behind the assignment of `n` | `docs/ir-design.md:273` "so dependent arguments behave as simultaneous assignments" |
| `BranchAssigns` | `src/tbir/optimize.rs:3605` | a branch or loop is walked with a copy of the facts, and those of a variable it assigns survive it | `docs/internals/optimization-safety.md:4` "No pass is accepted unless it can preserve ... defined arithmetic behavior" |
| `ReadThenCall` | `src/tbir/optimize.rs:1252` | the body inlined for a right operand is put before the statement, and so before the read that is its left operand | `optimization-safety.md:36` "evaluate expressions once from left to right" |
| `ConditionWrites` | `src/tbir/optimize.rs:3414` | a read is moved out of a loop whose condition calls a function that writes the object: the barrier looks at the body only | `optimization-safety.md:56-60` calls block the motion |
| `CallBetween` | `src/tbir/optimize.rs:2381` | a `let` whose value contains a call keeps the available expressions; only a call as a statement clears them | `optimization-safety.md:51` "calls ... clear the available-expression set" |
| `PointerWrite` | `src/tbir/optimize.rs:2991` | a value is moved out of a loop that changes its operand through a pointer | `optimization-safety.md:53` "every dependency is defined outside and unchanged by the loop" |
| `DividedCall` | `src/tbir/optimize.rs:4469` | a quotient or remainder by literal zero becomes 0, and a call in the dividend is gone | `optimization-safety.md:12` calls "are not rewritten" |
| `HighByte` | `src/tbir/optimize.rs:3759` | `cast<u8>(a >> 8)` of a `u16` is folded to 0: the operand is analysed at the width of the cast | `toolchains/arduboy-avr/sdk/arduboy/audio.ezra:5` is written so |
| `BareArguments` | `src/tbir/optimize.rs:421` | a parameter is its argument as written: `(p + q) / 2` of two bare literals is computed without the wrap that `p: u8` has at run time. Locals and constants are not given their declared type either | `docs/spec.md:717` "Unsigned arithmetic wraps modulo the type width" |
| `MaskTested` | `src/tbir/range.rs:1098` | `cast<bool>(a & 2)` is taken to be false: bits are truncated to one | `docs/spec.md:1281` "true for any nonzero value" |
| `ReadTwice` | `src/tbir/optimize.rs:889` | `reg & reg` of a volatile object becomes one load | `docs/spec.md:1122` "volatile loads are never removed" |
| a shifted mask | `src/tbir/range.rs:1035` | a left shift by 1 or 2 moves known zeros by 1 only | `src/tbir/range.rs:1` "Conservative integer range and alignment facts" |
| a range | `src/tbir/range.rs:597` | of a range 0 to 1 the lowest bit is said to be zero: a bit counts as known when both ends lie in the same period of twice the bit | the same |

Two boundaries of the bank planner are worth knowing, and `NoRoomPassedOver` is stated so as to exempt the first. A bank that is full up to the last address of the address space makes the plan fail with `InvalidGeometry` although a later bank has room (`src/banking.rs:317`: the overflow leaves the loop by `?`). And an empty asset is placed in a full bank, at the first address behind the window.

## 5. Fairness

`Optimizer`, `ValueFacts` and `BankPlanner` state safety only. The passes of the allocator and the stripping are loops that nothing interrupts, so their specifications have weak fairness of the next-state relation of the pass, and none on the program that runs afterwards, which may loop for ever. The server loops on its input and the client reads its output, so `LanguageServer` has weak fairness of `HandleMessage` and `ShowDiagnostics`; the editor and other programs owe nothing. `ViewBecomesTrue` therefore says what follows when they fall silent after a save or a file event, and exempts a server that has ended.

## 6. What is proved

The proof modules extend the module they are about and the constants stay arbitrary. Their assumptions are the named ASSUMEs: `U32MaxAssumption` (a natural number), `FunctionsAssumption` and `TargetsAssumption` (inputs are functions and targets, valid or not), `JunkAssumption`, `LabelsAssumption` (classes of labels nest as the predicates on names do), `TextsAssumption` (no label is defined twice), `ExtraRootsAssumption` (an extra root is a label), `ProjectAssumption` (sources, layouts, assembly files and manifests are different files and finitely many, what is imported or used is of the right kind, and no file imports another twice), `PlannerAssumption` (geometries, images and assets are made of numbers that fit 64 bits), `ByteBitsAssumption` (a byte has at least two bits), `MixesAssumption` (leaves have one of the ten integer types) and `CountsAssumption` (the count of a shift is a known range within `u32`). Three theorems on stripping have a hypothesis besides, `WrittenInRoutines`, which is explained below, as are the exceptions that two properties of value facts make.

* `LivenessProofs`: lemmas about points, blocks and paths, then `LivenessTypeOK`, `QuietPassSettles`, `ResultSolvesEquations`, `NeverLiveInVain`, `ResultIsComplete`, `SetsOnlyGrow`. Inductive invariant `ShapeInv` with one conjunct per property: blocks visited in a quiet pass solve their equations, sets hold only values with a path to a use, and every step only adds.
* `PlacementProofs`: `IntervalsCoverLiveness`, from completeness and the layout of points: an interval covers every point at which its value is live, whatever the graph. Then `AllocTypeOK`, `NoSharedUnits`, `ConflictsAreGenuine`, `EveryValuePlaced`, `FixedOperandsHonoured`, `ClobbersSpareLiveValues`. Invariants `PlaceTypeOK` and `ScanInv`: what the scan has placed is pairwise compatible, what is pending starts later and has no location, and fixed values still have their registers free. `NoSharedUnits` is not inductive without the last part.
* `SpillProofs`: `NoSharedBytes`, `DedicatedSlots`, `SlotsInBounds`, `SlotsAligned`. `SpillInv` is `AreaInv` (cursors and slots within areas, slots of one area disjoint), `TenantInv` (who lives in a slot and that it fits) and `SharingInv` (values of a shared slot have disjoint intervals, and the spilled values still to be placed start no earlier than those already there: the reason that remembering only the last tenant is enough). `AlignInv` says a slot is aligned for each tenant. A slot is placed, and shared, by the greater of the value's and the class's alignment; that this suits the value is `PowersDivide` (of two powers of two the smaller divides the greater), shown by the least counterexample: the halves of a pair that fails would fail as well. Without the check that alignments are powers of two in `validate` it is false.
* `AllocExecProofs`: `LiveValuesIntact` and `RunsLikeVirtualMachine`: `ExecInv` says the cells of each live value hold its value; it combines everything above, so the allocator as a whole is proved to implement the virtual machine for every function, target and path.
* `RoutineStrippingProofs`, for every text: `StripTypeOK`, `NothingKeptInVain` and `NothingLost`. `StripInv` fixes what has and has not been computed at each stage; `VisitInv` says visited routines and pending ones are in every closed set that holds the roots; `Closed` says that what a visited routine leads to is visited or pending. Together: at the end the visited set is the least closed set, in whatever order the worklist is emptied.
* `RoutineStrippingProofs`, for every set of texts that are written in routines: `NoDanglingLabels`, `NeverStopsShort` and `RunsLikeOriginal`, the refinement of the whole program by the stripped one. The argument: `DiscoveryInv` says why each label was or was not taken for a routine, although the decision was made in a region cut by the earlier ones (`RegionIsBetweenRoutines`). Hence discovery takes nothing for a routine but heads and labels that end a routine without code (`RoutinesAreHeads`); a block is a number of whole written routines (`RoutinesStayWhole`); so what a kept line names is kept (`NamedLinesAreKept`), all entries are (`EntriesAreKept`), and so is the line that control runs on to (`NextIsKept`). `RunInv` then says that the machine stands on a kept line that some routine holds, which makes the successors of the two programs the same (`SameSuccessors`, `SameAddresses`).
* `LanguageServerProofs`: `LSTypeOK`, `NoOrphanDiagnostics`, `StampedDiagnosticsAreCurrent` and `SettledViewIsTrue`, for every project, any number of events, and pipes of any length. `ServerInv` joins `MirrorInv` (what the server has of a document is what the editor has, but for the messages about it that are on their way, each of which applies to the state the server will be in then), `VersionInv` (whatever carries a document's current version, on its way or arrived, carries its text; it says nothing of what the compiler reports, so `StampedDiagnosticsAreCurrent` holds for any compiler), `NoOrphanDiagnostics` stated of the last word about each file, in the pipe or shown, and `ToldInv` (after an announced change, with no message left to the server, the last words are the truth; otherwise the last message is one that publishes). `NoOrphanDiagnostics` is not inductive if it is stated of what is shown, and `SettledViewIsTrue` not without `MirrorInv`: the server computes from its own copies.

* `BankPlannerProofs`: `PlacedBytesIntact` and `NoRoomPassedOver`. `PaddedIsAligned` and `PaddedIsLeast` say that `aligned_offset` is the least aligned offset, from the uniqueness of remainders. `PlanInv` says that all a bank holds lies before `used`, which is what makes the next copy harmless (`CopiedKeeps`), and that sealed banks hold no asset; first fit then follows because room only shrinks.
* `ValueFactsProofs`: `ExpressionsAreTold`, `FactsAreTrue` (`FactsHold`), `LiteralsAreExact` (`LiteralsStayExact`) and `MaskProofsAreTrue` (`MaskProofsHold`), for every byte of two bits or more, every depth of expression, every leaf and every count. The argument has four layers. First, numbers and their bits: `ValueOf` and `BitsOf` are inverse to each other, which needs no induction because the weights of the bits below `k` add up to one less than the power of two at `k` (the lemmas on `Weight`). Second, what it is for facts to be true of a value: it lies in the range (`RangesTrue`), has the known ones and none of the known zeros (`BitsTrue`), and what a range says of single bits holds of all its values. Third, one lemma per operator: the corners of two ranges bound their sums, differences and products (`CornersBound`, `HullHolds`), and a result that may leave the width of its type is told nothing of its range; `&`, `|`, `^`, `~`, shifts and casts move known bits as the machine moves bits. Fourth, the invariant `Inv`: each step adds one operator to an expression of which `Told` holds. `Told` says more than `FactsHold`: the signed range is that of the same value read with its sign, and a range of one value is exact in both readings, because comparisons and divisions of signed types look at the signed range although the facts are checked against the other.

### Where value facts are not true

The theorems on value facts have no hypothesis: they hold of `Spec`, for every mix. `range.rs` promises too much in two places, and the properties say up to where its facts can be trusted:

| Variable | When it is true | What is wrong then |
|---|---|---|
| `derived` | the expression is a leaf with a range, or a sum, difference, product, quotient, remainder or negation, and its range is neither one number nor all of them (`FromRange`) | a bit counts as known when both ends of the range lie in the same period of twice the bit (`src/tbir/range.rs:597`), so the bits may be wrong; the ranges are right |
| `misled` | an operator read such bits (`~ & \| ^`, a shift, a cast), or a shift to the left was by a count of a known range within the width (`OneOfSeveral`) | anything; known zeros, for one, move by the least count, and a greater one leaves fewer of them (`src/tbir/range.rs:1035`) |

`FactsHold` claims the ranges unless `misled`, and the bits unless `derived` as well. Arithmetic, comparisons, `!`, `&&` and `||` read only ranges, so they may be piled on ranges of any kind. `MaskProofsHold` reads bits and claims nothing where they are a range's: `(x + 1) & 3` is such a mask, and there the claim of `mask_proof` may be false. `LiteralsStayExact` makes no exception, because one number has its own digits for bits. `Inv` says accordingly that an expression of literals is neither `derived` nor `misled`. The exceptions go by operators, so they also give up on some facts that are right. A cast to `bool` is not an operator of `ValueFacts` (`MaskTested` of section 4).

### What it means for a text to be written in routines

For an arbitrary text the three theorems are false: finding 3 is a counterexample to `NeverStopsShort`, and a local label that another routine's table names one to `NoDanglingLabels`. `WrittenInRoutines(t, heads)` says what the emitters see to, `heads` being the lines on which they start a routine (in the theorems those of a set of labels); each part is an operator of its own in `RoutineStripping`:

| Part | What it says | Why emitters write so |
|---|---|---|
| `RoutinesAreLaidOut` | functions, roots and call targets are heads; a head lies below a certain routine with no edge of a section, bank or static data between, and has code | `Emitter::emit`: start-up code, runtime, functions, trampolines and then data (`src/asm/lr35902_emitter.rs:586-645`) |
| `LabelsAreLocal` | any other label is named only in its own stretch; if it is generated, never called and below a return, it stands last without code | labels made by `next_label` are used by the function that makes them; an `emit_function` ends in the one return label and return of its function |
| `AddressesComeFirst` | a head that is not certain is named from above, from its own routine, or across a certain routine | trampolines for function pointers are written after all functions (`lr35902_emitter.rs:631-637`) |
| `OthersNameEntries` | constants, static data and marks of banks name only entries or lines of banks | tables of vectors and exports |
| `ExtraRootsAreKnown` | an extra root is a certain routine, or a generated label named across one | the constants at the top of 6502 programs name all of them (`src/asm/mos6502_emitter.rs:411`) |
| `RoutinesEnd` | a conditional return is not the last instruction of a routine, and a routine above an edge ends | returns written by emitters are unconditional |
| `CodeIsEntered` | an address that code can get is that of a line in a routine, not below its end | addresses are those of functions, trampolines and return points |

`MCRoutineStripping` checks by an ASSUME that all texts of the passing run are written so, hence that the hypothesis can be met by texts with every feature of the model. The text of finding 3 breaks `RoutinesEnd`, and only a naked function can. What remains outside, and is not shown: assembly in a function of m68k, M6800, MSP430, TMS9900 or DCPU-16 (whose `next_label` makes `__ezra_` labels, which discovery considers; those of the others begin with `.L_` and it does not) that ends in a return of its own just before a generated return label that nothing names. There the epilogue becomes a routine, and is stripped; that is harmless unless the assembly also jumps to a label at its very end.

## 7. Only model-checked

* Liveness under fairness: `AllocationTerminates`, `StrippingEnds`, `ViewBecomesTrue`. TLAPS cannot reach these.
* `SourceExec` as a whole (`ReadsIntact`, `ReachedLocalsPlaced`, `AlwaysAllocated`, `RunsLikeSource`): the lowering is RECURSIVE, and what it does with every body is an induction over statements. That the allocator keeps what the lowered function says is proved, in `AllocExecProofs`.
* `Optimizer` as a whole (`MeaningKept`, `NamesInScope`, `TailRecursionIsFlat`): the passes are recursive over expressions and statements, as the code is, and so is the interpreter. For the same reason nothing is proved of `analyze` itself: `ValueFacts` applies the same operators one at a time, to the facts of an operand of any depth and a leaf.

## 8. What is not modelled, and why

* Read-only requests of the language server (completion, hover, definitions, symbols, tokens): functions of the documents with no effect.
* In the language server: errors that only a collision of imported names, the use of a private name or a cfg condition makes; warnings; several targets and library mode; embedded files; a manifest that is deleted or opened as a document. Each changes which files a check blames, as a function of the same texts; `NoOrphanDiagnostics`, `StampedDiagnosticsAreCurrent` and their proofs do not depend on that function.
* Two URIs for one file, and version numbers that start anew on reopening. In the model each file has one URI and the editor never repeats a version of a document. A client that counts from 1 again after reopening can show, until the server catches up, a diagnostic that was computed for an earlier text of the same version; no document says what should happen.
* Names, wording and spans of diagnostics, and the text of assembly beyond labels, kinds and operands.
* In the optimiser: the initial values of globals, ports and constants, which simplification rewrites as well; sibling tail calls (only recorded there, for the eZ80 emitter), two-value lets, inline assembly, fields and aggregates (for every pass they are an index, a call or a literal over again), and the reports of `model.rs`, `bytes.rs`, `bit_ops.rs`, `cost.rs`, `provenance.rs` and `diagnostics.rs`, by which no pass rewrites. Runs that need more than `fuel` calls and rounds are exempt, so a program that never ends is not compared.
* Locals that hide another name: the language forbids them (`docs/spec.md:976` "shadowing is not allowed") and the emitters refuse them, so `NamesInScope` takes one made by a pass for an error and given programs have none.
* Selection of instructions in emitters, encodings in assemblers, byte formats: large tables whose entries do not interact.
* How dead statements reach an emitter (the optimiser's model and that of the source lowering do not share programs); hence whether a dead local without a location can make an emitter fail is listed as a hazard without a property.
* Parser, AST and HIR: translation of trees, with no state between two inputs.
* CLI, asset pipeline, editor grammars, toolchains, SDK data, examples: input and output around the library.

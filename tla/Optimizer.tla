------------------------------- MODULE Optimizer -------------------------------
(***************************************************************************)
(* The TBIR optimiser of src/tbir/optimize.rs as a machine: one step per   *)
(* stage of optimize_program_with_context_and_options, in its order, each  *)
(* rewriting the whole program.                                            *)
(*                                                                         *)
(* A program is                                                            *)
(*   [fns, globals, consts, objects, entry, inputs, fuel, options]:        *)
(* its functions, the memory it starts with, the constants among it and    *)
(* what each object of it is, the calls of entry that are tried and how    *)
(* deep they may go, and the [level, enable, disable] it is tried with.    *)
(* Initial values are left as they were given.                             *)
(***************************************************************************)
EXTENDS TbirMeaning, TbirScalar, TbirKnownBits, TbirPropagation, TbirLoops, TbirInline,
        TbirTail, TbirDemand

CONSTANT Programs \* the programs that may be given to the optimiser

VARIABLES program, \* as it was given
          shown,   \* what the given program shows, by input, once begun
          options, \* of this run
          fns,     \* the functions as rewritten so far
          todo     \* the stages still to run, in order

vars == <<program, shown, options, fns, todo>>

---------------------------------------------------------------------------
\* Which passes run

enabled_at(pass, level) ==
  CASE pass = "DeadCodeElimination" -> TRUE
    [] pass \in {"ScalarSimplification", "LocalPropagation", "KnownBits"} -> level >= 1
    [] OTHER -> level >= 2

\* disable wins over enable, and enable over the level.
is_enabled(pass, opts) ==
  pass \notin opts.disable /\ (pass \in opts.enable \/ enabled_at(pass, opts.level))

Stages ==
  <<"ScalarSimplification", "LoopInvariantCodeMotion", "LocalPropagation", "ScalarSimplification",
    "KnownBits", "MemoryReadLoopInvariantCodeMotion", "FunctionInlining", "DeadCodeElimination",
    "TailRecursion", "IdempotentOperations">>

SecondSweep ==
  <<"LocalPropagation", "ScalarSimplification", "IdempotentOperations", "DeadCodeElimination">>

EnabledStages(opts) ==
  SelectSeq(Stages \o (IF opts.level >= 3 THEN SecondSweep ELSE <<>>),
            LAMBDA pass : is_enabled(pass, opts))

---------------------------------------------------------------------------
\* The stages

Temporaries(text) ==
  {PureTemp \o ToString(i) : i \in 0 .. Cardinality(UNION {StmtsIn(f.body) : f \in ToSet(text)})}

\* Constants and comptime functions are taken from the program as it was given.
ScalarSimplified(text) ==
  scalar_simplify_program(text, [fns |-> program.fns, consts |-> program.consts])

Propagate(text) ==
  local_propagation_and_cse_program(text, DOMAIN program.objects, Temporaries(text))

Init ==
  /\ program \in Programs
  /\ shown = <<>>
  /\ options = [level |-> 0, enable |-> {}, disable |-> {}]
  /\ fns = <<>>
  /\ todo = <<>>

Begun == fns # <<>>

Begin ==
  /\ ~Begun
  /\ shown' = [args \in program.inputs |-> Run(program, program.entry, args, program.fuel)]
  /\ fns' = program.fns
  /\ options' \in program.options
  /\ todo' = EnabledStages(options')
  /\ UNCHANGED program

Stage(pass, rewritten) ==
  /\ todo # <<>>
  /\ Head(todo) = pass
  /\ fns' = rewritten
  /\ todo' = Tail(todo)
  /\ UNCHANGED <<program, shown, options>>

ScalarSimplification == Stage("ScalarSimplification", ScalarSimplified(fns))

LoopInvariantCodeMotion ==
  Stage("LoopInvariantCodeMotion", hoist_pure_loop_invariants_program(fns))

LocalPropagation == Stage("LocalPropagation", Propagate(fns))

KnownBits == Stage("KnownBits", known_bits_program(fns))

MemoryReadLoopInvariantCodeMotion ==
  Stage("MemoryReadLoopInvariantCodeMotion",
        hoist_named_memory_reads_program(fns, program.objects))

\* After an expansion the program is simplified and propagated once more.
FunctionInlining ==
  LET expanded == ExpandCalls(fns)
      Simplify(text) ==
        IF is_enabled("ScalarSimplification", options) THEN ScalarSimplified(text) ELSE text
      Spread(text) == IF is_enabled("LocalPropagation", options) THEN Propagate(text) ELSE text
  IN  Stage("FunctionInlining",
            IF expanded.any THEN Simplify(Spread(Simplify(expanded.fns))) ELSE expanded.fns)

DeadCodeElimination ==
  Stage("DeadCodeElimination",
        remove_unused_pure_lets_program(
          apply_program(eliminate_unreachable_statements_program(fns), program.consts)))

TailRecursion == Stage("TailRecursion", run_tail_passes(fns, TRUE))

IdempotentOperations ==
  Stage("IdempotentOperations", simplify_idempotent_operations_program(fns))

Next ==
  \/ Begin
  \/ ScalarSimplification
  \/ LoopInvariantCodeMotion
  \/ LocalPropagation
  \/ KnownBits
  \/ MemoryReadLoopInvariantCodeMotion
  \/ FunctionInlining
  \/ DeadCodeElimination
  \/ TailRecursion
  \/ IdempotentOperations

Spec == Init /\ [][Next]_vars

---------------------------------------------------------------------------
\* Properties

Now == [program EXCEPT !.fns = fns]

\* A loop made of a recursion takes a round more than it took calls.
ShownNow == [args \in program.inputs |-> Run(Now, program.entry, args, 2 * program.fuel)]

Same(before, after) ==
  before.stuck \/ (/\ ~after.stuck
                   /\ after.out = before.out
                   /\ after.mem = before.mem
                   /\ after.result = before.result)

\* After every stage the program still does what it did, for every input it is
\* tried with: the same port traffic and volatile accesses in the same order,
\* the same globals, the same result.  No stage may lean on one that has not
\* run, or be undone by one that runs later.
MeaningKept == Begun => \A args \in program.inputs : Same(shown[args], ShownNow[args])

RECURSIVE ScopeErrors(_, _, _)
\* The names a block uses where they are not in scope, and the lets that hide
\* one that is.
ScopeErrors(block, scope, globals) ==
  IF block = <<>> THEN {}
  ELSE
    LET st == Head(block)
        mentions == {x \in OwnExprs(st) \cup {st.p[i] : i \in DOMAIN st.p} :
                       x.k \in {"ident", "index", "addr"}}
        missing == {x.n : x \in mentions} \ (scope \cup globals)
        hidden == IF st.k = "let" THEN {st.n} \cap (scope \cup globals) ELSE {}
    IN  missing \cup hidden
          \cup UNION {ScopeErrors(st.b[i], scope, globals) : i \in DOMAIN st.b}
          \cup ScopeErrors(Tail(block), IF st.k = "let" THEN scope \cup {st.n} ELSE scope, globals)

\* No stage leaves a variable read outside the block its let is in, or makes a
\* variable with the name of one that is visible: the emitters refuse a program
\* where a local hides another name, so a stage that made one would turn a good
\* program into an error.
NamesInScope ==
  \A f \in ToSet(fns) : ScopeErrors(f.body, ParamNames(f), DOMAIN program.globals) = {}

MentionsCall(xs, name) ==
  \E i \in DOMAIN xs : \E y \in SubExprs(xs[i]) : SelfCall(y, name)

RECURSIVE TailOnly(_, _, _)
\* Every call of the function in the block is what the block returns, or its
\* last statement when there is no result, and none is in a loop.
TailOnly(block, name, void) ==
  \A i \in DOMAIN block :
    LET st == block[i]
        last == void /\ i = Len(block)
    IN  \/ /\ st.k = "return" \/ (st.k = "expr" /\ last)
           /\ st.e # <<>> /\ SelfCall(st.e[1], name)
           /\ ~MentionsCall(st.e[1].a, name)
        \/ /\ ~MentionsCall(st.e, name)
           /\ st.k = "if" => \A j \in 1 .. 2 : TailOnly(st.b[j], name, last)
           /\ st.k \in {"while", "loop"} => name \notin collect_calls(st.b[1])

\* Every recursion of the program is of that kind, in an ordinary function
\* whose arguments fit in registers.
OnlyTailRecursive(text) ==
  \A f \in ToSet(text) :
    /\ f.name \notin reachable(text, Calls(text, f.name) \ {f.name})
    /\ f.name \in collect_calls(f.body) =>
         TailOnly(f.body, f.name, f.ret = "") /\ tail_recursion_approved(f)

\* Direct tail recursion takes no stack: once the tail pass is behind, the
\* deepest chain of calls holds each function at most once, however many rounds
\* the recursion makes.
TailRecursionIsFlat ==
  /\ Begun
  /\ OnlyTailRecursive(program.fns)
  /\ is_enabled("TailRecursion", options)
  /\ \A i \in DOMAIN todo : todo[i] # "TailRecursion"
  => \A args \in program.inputs :
       ~shown[args].stuck => ShownNow[args].deep <= 1 + Len(program.fns)

===============================================================================

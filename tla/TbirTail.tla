------------------------------- MODULE TbirTail -------------------------------
(***************************************************************************)
(* Tail recursion of src/tbir/optimize.rs: a function that returns a call  *)
(* of itself becomes a loop around its body.  A tail call of another       *)
(* function is only recorded there, for the eZ80 emitter, and left out.    *)
(***************************************************************************)
EXTENDS TbirSyntax, SequencesExt

SelfCall(x, name) == x.k = "call" /\ x.n = name

---------------------------------------------------------------------------
\* Which statements can run on into the next

RECURSIVE block_can_fall_through(_), stmt_can_fall_through(_), block_can_reach_break(_)

block_can_fall_through(block) == \A i \in DOMAIN block : stmt_can_fall_through(block[i])

stmt_can_fall_through(st) ==
  CASE terminates(st) -> FALSE
    [] st.k = "if" -> block_can_fall_through(st.b[1]) \/ block_can_fall_through(st.b[2])
    [] st.k = "loop" -> block_can_reach_break(st.b[1])
    [] OTHER -> TRUE

\* The statements of a block that control can come to.
ReachableIn(block) == {i \in DOMAIN block : block_can_fall_through(SubSeq(block, 1, i - 1))}

block_can_reach_break(block) ==
  \E i \in ReachableIn(block) :
    \/ block[i].k = "break"
    \/ block[i].k = "if" /\ \E j \in 1 .. 2 : block_can_reach_break(block[i].b[j])

---------------------------------------------------------------------------
\* Decisions

is_byte_type(t) == t \in {"u8", "i8", "bool", "char"}

uses_argument_slots(params) ==
  Len(params) >= 3 /\ is_byte_type(params[2].t) /\ ~is_byte_type(params[3].t)

Special(f) == has_attr(f, "naked") \/ has_attr(f, "interrupt")

ArgumentsInRegisters(f) == Len(f.params) <= 3 /\ ~uses_argument_slots(f.params)

tail_recursion_approved(f) == ~Special(f) /\ ArgumentsInRegisters(f)

RECURSIVE collect_tail_targets(_, _, _)
\* The functions a block calls in tail position; the last statement of a
\* function without a result is one, but only for a call of the function itself.
collect_tail_targets(block, name, allow_void_tail) ==
  UNION {
    LET st == block[i]
        last == allow_void_tail /\ i = Len(block)
    IN  CASE st.k = "return" /\ st.e # <<>> /\ st.e[1].k = "call" -> {st.e[1].n}
          [] st.k = "expr" /\ last /\ SelfCall(st.e[1], name) -> {name}
          [] st.k = "if" -> collect_tail_targets(st.b[1], name, last)
                              \cup collect_tail_targets(st.b[2], name, last)
          [] OTHER -> {}
    : i \in ReachableIn(block)}

\* A mutant: a function without a result is not looked at for its last statement.
ReturnedTargets(f) == collect_tail_targets(f.body, f.name, FALSE)

TailTargets(f) == collect_tail_targets(f.body, f.name, f.ret = "")

---------------------------------------------------------------------------
\* The rewriting.  A call of the function itself becomes: every argument into
\* a temporary, every temporary into its parameter, continue.

TailTemp(n) == "__tbir_tail_arg_" \o ToString(n)

FreeTemp(used, n) ==
  CHOOSE m \in n .. n + Cardinality(used) :
    TailTemp(m) \notin used /\ \A k \in n .. m - 1 : TailTemp(k) \in used

RECURSIVE TempNumbers(_, _, _)
TempNumbers(count, used, n) ==
  IF count = 0 THEN <<>>
  ELSE LET m == FreeTemp(used, n) IN <<m>> \o TempNumbers(count - 1, used, m + 1)

rewrite_tail_call_args(args, params, temps) ==
  [i \in DOMAIN args |-> Let(TailTemp(temps[i]), params[i].t, args[i])]
    \o [i \in DOMAIN args |-> Assign(Ident(params[i].n), "set", Ident(TailTemp(temps[i])))]

RECURSIVE rewrite_tail_stmts(_, _, _, _, _)
\* [out, any, next]: the block rewritten, whether it changed, the next number.
rewrite_tail_stmts(block, f, used, next, allow_void_tail) ==
  LET RECURSIVE From(_, _)
      From(i, n) ==
        IF i > Len(block) THEN [out |-> <<>>, any |-> FALSE, next |-> n]
        ELSE
          LET st == block[i]
              last == allow_void_tail /\ i = Len(block)
              tail == /\ st.k = "return" \/ (st.k = "expr" /\ last)
                      /\ st.e # <<>> /\ SelfCall(st.e[1], f.name)
                      /\ Len(st.e[1].a) = Len(f.params)
              temps == TempNumbers(Len(f.params), used, n)
              then == rewrite_tail_stmts(st.b[1], f, used, n, last)
              else == rewrite_tail_stmts(st.b[2], f, used, then.next, last)
              done ==
                CASE i \in ReachableIn(block) /\ tail ->
                       [out |-> Append(rewrite_tail_call_args(st.e[1].a, f.params, temps), Continue),
                        any |-> TRUE, next |-> IF temps = <<>> THEN n ELSE Last(temps) + 1]
                  [] i \in ReachableIn(block) /\ st.k = "if" ->
                       [out |-> <<[st EXCEPT !.b = <<then.out, else.out>>]>>,
                        any |-> then.any \/ else.any, next |-> else.next]
                  [] OTHER -> [out |-> <<st>>, any |-> FALSE, next |-> n]
              rest == From(i + 1, done.next)
          IN  [out |-> done.out \o rest.out, any |-> done.any \/ rest.any, next |-> rest.next]
  IN  From(1, next)

rewrite_tail_recursion(f) ==
  LET void == f.ret = ""
      r == rewrite_tail_stmts(f.body, f, ParamNames(f) \cup collect_local_names(f.body), 0, void)
      body == IF void /\ block_can_fall_through(r.out) THEN Append(r.out, Break) ELSE r.out
  IN  IF r.any THEN [f EXCEPT !.body = <<Loop(body)>>] ELSE f

run_tail_passes(fns, recursion) ==
  [i \in DOMAIN fns |->
     IF recursion /\ fns[i].name \in TailTargets(fns[i]) /\ tail_recursion_approved(fns[i])
     THEN rewrite_tail_recursion(fns[i]) ELSE fns[i]]

===============================================================================

--------------------------- MODULE TbirPropagation ---------------------------
(***************************************************************************)
(* Local propagation, common sub-expressions and the two dead-code passes  *)
(* over statements of src/tbir/optimize.rs.                                *)
(*                                                                         *)
(* Propagation walks a block with the values it may put in place of a      *)
(* variable and the expressions some variable already holds.  objects are  *)
(* the names of the program's memory objects, its globals.                 *)
(***************************************************************************)
EXTENDS TbirSyntax, SequencesExt

expr_references_memory_object(x, objects) ==
  \E y \in SubExprs(x) : y.k \in {"ident", "index", "addr"} /\ y.n \in objects

IsLiteral(x) == x.k \in {"int", "typed", "bool"}

is_cheap_to_duplicate(x) == IsLiteral(x) \/ x.k = "ident"

\* The temporaries of loop-invariant motion are named so that no variable of
\* the program is; Temporaries is the set of those names.
contains_licm_temporary(name, temporaries) == name \in temporaries

Propagated(t, x) == [t |-> t, x |-> x]

\* A literal takes the type of the variable it replaces, anything else a cast.
Substitute(value) ==
  LET x == value.x
  IN  CASE x.k \in {"int", "typed"} -> TypedInt(x.v, value.t)
        [] x.k = "unary" /\ x.n = "-" /\ x.a[1].k \in {"int", "typed"} -> TypedInt(-x.a[1].v, value.t)
        [] x.k = "bool" /\ value.t = "bool" -> x
        [] OTHER -> Cast(value.t, x)

RECURSIVE substitute_expr(_, _)
substitute_expr(x, values) ==
  IF x.k = "ident" THEN IF x.n \in DOMAIN values THEN Substitute(values[x.n]) ELSE x
  ELSE [x EXCEPT !.a = [i \in DOMAIN @ |-> substitute_expr(@[i], values)]]

substitute_place(p, values) ==
  [p EXCEPT !.a = [i \in DOMAIN @ |-> substitute_expr(@[i], values)]]

Holding(x, available) == SelectSeq(available, LAMBDA entry : entry[1] = x)

Reusable(x, available, objects) ==
  /\ is_cse_candidate(x)
  /\ ~expr_references_memory_object(x, objects)
  /\ Holding(x, available) # <<>>

RECURSIVE reuse_available_expr(_, _, _)
reuse_available_expr(x, available, objects) ==
  LET y == IF x.k \in {"unary", "binary", "cast"}
           THEN [x EXCEPT !.a = [i \in DOMAIN @ |-> reuse_available_expr(@[i], available, objects)]]
           ELSE x
  IN  IF Reusable(y, available, objects) THEN Ident(Holding(y, available)[1][2]) ELSE y

---------------------------------------------------------------------------
\* One block.  fn is what holds for the whole function: the variables assigned
\* or whose address is taken, its text, for counting uses, and its objects.

\* A mutant: a variable that reads memory is put in place of too.
MayPropagateMemory(name, x, fn) ==
  /\ is_cheap_to_duplicate(x) \/ collect_name_uses_stmts(name, fn.body) <= 1
  /\ name \notin fn.assigned
  /\ ~contains_licm_temporary(name, fn.temporaries)
  /\ x.k = "ident" => ~contains_licm_temporary(x.n, fn.temporaries)
  /\ is_pure_scalar(x)

MayPropagate(name, x, fn) ==
  /\ is_cheap_to_duplicate(x) \/ collect_name_uses_stmts(name, fn.body) <= 1
  /\ name \notin fn.assigned
  /\ ~contains_licm_temporary(name, fn.temporaries)
  /\ x.k = "ident" => ~contains_licm_temporary(x.n, fn.temporaries)
  /\ is_pure_scalar(x)
  /\ ~expr_references_memory_object(x, fn.objects)

RECURSIVE propagate_block(_, _, _, _)
propagate_block(block, fn, values, available) ==
  IF block = <<>> THEN <<>>
  ELSE
    LET st == Head(block)
        given == [i \in DOMAIN st.e |-> substitute_expr(st.e[i], values)]
        held == reuse_available_expr(given[1], available, fn.objects)
        rewritten ==
          CASE st.k = "let" -> [st EXCEPT !.e = <<held>>]
            [] OTHER -> [st EXCEPT !.e = given,
                                   !.p = [i \in DOMAIN @ |-> substitute_place(@[i], values)],
                                   !.b = [i \in DOMAIN @ |-> propagate_block(@[i], fn, values, <<>>)]]
        learned ==
          IF st.k = "let" /\ MayPropagate(st.n, held, fn)
          THEN [n \in DOMAIN values \cup {st.n} |->
                  IF n = st.n THEN Propagated(st.t, held) ELSE values[n]]
          ELSE values
        offered ==
          CASE st.k = "let" ->
                 IF /\ is_cse_candidate(held)
                    /\ ~expr_references_memory_object(held, fn.objects)
                    /\ st.n \notin fn.assigned
                 THEN Append(available, <<held, st.n>>) ELSE available
            [] st.k \in {"assign", "if", "while", "loop", "out"} -> <<>>
            [] st.k = "expr" -> IF is_pure_scalar(given[1]) THEN available ELSE <<>>
            [] OTHER -> available
    IN  <<rewritten>> \o propagate_block(Tail(block), fn, learned, offered)

local_propagation_and_cse_program(fns, objects, temporaries) ==
  WithBodies(LAMBDA body :
               propagate_block(body,
                 [assigned |-> collect_assigned_names(body) \cup collect_address_taken_names(body),
                  body |-> body, objects |-> objects, temporaries |-> temporaries],
                 << >>, <<>>), fns)

---------------------------------------------------------------------------
\* Statements no path reaches, and lets nothing mentions

RECURSIVE eliminate(_)
\* A block up to the first statement that ends it, its inner blocks first.
eliminate(block) ==
  LET inner == [i \in DOMAIN block |->
                  [block[i] EXCEPT !.b = [j \in DOMAIN @ |-> eliminate(@[j])]]]
      ends == {i \in DOMAIN inner : terminates(inner[i])}
  IN  IF ends = {} THEN inner
      ELSE SubSeq(inner, 1, CHOOSE i \in ends : \A j \in ends : i <= j)

eliminate_unreachable_statements_program(fns) == WithBodies(eliminate, fns)

UnusedLet(st, block) ==
  st.k = "let" /\ collect_name_uses_stmts(st.n, block) = 0 /\ is_effect_free_expr(st.e[1])

RECURSIVE DropUnused(_)
DropUnused(block) ==
  LET kept == SelectSeq(block, LAMBDA st : ~UnusedLet(st, block))
  IN  IF Len(kept) = Len(block) THEN block ELSE DropUnused(kept)

RECURSIVE remove_unused_pure_lets_block(_)
remove_unused_pure_lets_block(block) ==
  DropUnused([i \in DOMAIN block |->
                [block[i] EXCEPT !.b = [j \in DOMAIN @ |-> remove_unused_pure_lets_block(@[j])]]])

remove_unused_pure_lets_program(fns) == WithBodies(remove_unused_pure_lets_block, fns)

===============================================================================

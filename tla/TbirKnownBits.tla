---------------------------- MODULE TbirKnownBits ----------------------------
(***************************************************************************)
(* Known-bits folding of src/tbir/optimize.rs: through a block it carries  *)
(* what is known of the bits of each variable, and replaces the value of a *)
(* let or of a return by a literal when every bit of it is known.          *)
(*                                                                         *)
(* A fact is [ty, zero, one] with sets of bit numbers.  What is known of   *)
(* an expression is a set with at most one fact; what is known of the      *)
(* variables is a function from the names that have a fact.                *)
(***************************************************************************)
EXTENDS TbirRange, TbirSyntax

---------------------------------------------------------------------------
\* The value facts of a whole expression

RECURSIVE analyze(_, _, _)
\* The facts of an expression whose value is wanted as a t; bindings gives the
\* facts of variables.  A shift's count is wanted as a u32, and what is under
\* a cast is wanted as what the cast itself is wanted as.
analyze(x, t, bindings) ==
  CASE x.k = "int"   -> IF HasScalar(t) THEN facts_from_raw_value(scalar_type(t), x.v) ELSE unknown
    [] x.k = "typed" -> facts_from_raw_value(scalar_type(x.t), x.v)
    [] x.k = "bool"  -> bool_fact(x.v = 1)
    [] x.k = "ident" -> IF x.n \in DOMAIN bindings THEN bindings[x.n] ELSE unknown_for_type(t)
    [] x.k = "unary" -> unary_facts(x.n, analyze(x.a[1], t, bindings), t)
    [] x.k = "cast"  -> cast_facts(analyze(x.a[1], t, bindings), x.t)
    [] x.k = "binary" ->
         binary_facts(analyze(x.a[1], t, bindings), x.n,
                      analyze(x.a[2], IF x.n \in {"<<", ">>"} THEN "u32" ELSE t, bindings), t)
    [] OTHER -> unknown_for_type(t)

---------------------------------------------------------------------------
\* What is known of the bits of an expression

known_bits_mask(t) == 0 .. Bits(t) - 1

HasBits(t) == Bits(t) # 0

Fact(t, zero, one) == [ty |-> t, zero |-> zero, one |-> one]

Simplified(x, fact) == [x |-> x, fact |-> fact]

Without(f, names) == Restrict(f, DOMAIN f \ names)

With(f, n, v) == [m \in DOMAIN f \cup {n} |-> IF m = n THEN v ELSE f[m]]

known_bits_value_fits(v, t) ==
  IF type_is_unsigned_integer(t) THEN v \in 0 .. 2 ^ Bits(t) - 1
  ELSE Signed(t) /\ v \in -(2 ^ (Bits(t) - 1)) .. 2 ^ (Bits(t) - 1) - 1

known_bits_constant(v, t) ==
  LET raw == BitsOf(Raw(t, v), Bits(t))
  IN  Simplified(TypedInt(Wrap(t, v), t), {Fact(t, known_bits_mask(t) \ raw, raw)})

\* Every bit known: the literal.
known_bits_fold(x, fact) ==
  IF \E f \in fact : f.zero \cup f.one = known_bits_mask(f.ty)
  THEN LET f == CHOOSE f \in fact : TRUE
       IN  Simplified(TypedInt(Wrap(f.ty, ValueOf(f.one)), f.ty), fact)
  ELSE Simplified(x, fact)

\* Only variables with a fact, literals and operators over them.
range_expression_is_local(x, facts) ==
  \A y \in SubExprs(x) :
    \/ y.k \in {"int", "typed", "unary", "binary", "cast"}
    \/ y.k = "ident" /\ y.n \in DOMAIN facts

range_expression_has_invalid_literal(x, t) ==
  \E y \in SubExprs(x) :
    \/ y.k = "int" /\ HasBits(t) /\ ~known_bits_value_fits(y.v, t)
    \/ y.k = "typed" /\ HasBits(y.t) /\ ~known_bits_value_fits(y.v, y.t)

\* The bits the value facts of TbirRange know.
range_known_bits(x, facts, t) ==
  LET bindings == [n \in DOMAIN facts |->
                     facts_from_known_bits(scalar_type(facts[n].ty), facts[n].zero, facts[n].one)]
      Folded(value) ==
        IF value.w = 0 THEN Simplified(x, {})
        ELSE known_bits_fold(x, {Fact(t, value.z \cap known_bits_mask(t), value.o \cap known_bits_mask(t))})
  IN  IF range_expression_is_local(x, facts) /\ ~range_expression_has_invalid_literal(x, t)
      THEN Folded(analyze(x, t, bindings))
      ELSE Simplified(x, {})

BitwiseFact(op, l, r) ==
  CASE op = "&" -> Fact(l.ty, l.zero \cup r.zero, l.one \cap r.one)
    [] op = "|" -> Fact(l.ty, l.zero \cap r.zero, l.one \cup r.one)
    [] op = "^" -> Fact(l.ty, (l.zero \cap r.zero) \cup (l.one \cap r.one),
                              (l.zero \cap r.one) \cup (l.one \cap r.zero))

RECURSIVE known_bits_expr(_, _, _)
\* x simplified where a value of type t is wanted, with what is known of it.
known_bits_expr(x, facts, t) ==
  CASE ~HasBits(t) -> Simplified(x, {})
    [] HasBits(t) /\ x.k \in {"int", "typed"} /\ (x.k = "typed" => x.t = t)
         /\ known_bits_value_fits(x.v, t) -> known_bits_constant(x.v, t)
    [] HasBits(t) /\ x.k = "ident" ->
         Simplified(x, IF x.n \in DOMAIN facts /\ facts[x.n].ty = t THEN {facts[x.n]} ELSE {})
    [] HasBits(t) /\ x.k = "unary" /\ x.n = "~" ->
         LET y == known_bits_expr(x.a[1], facts, t)
         IN  known_bits_fold(Unary("~", y.x), {Fact(f.ty, f.one, f.zero) : f \in y.fact})
    [] HasBits(t) /\ x.k = "binary" /\ x.n \in {"&", "|", "^"} ->
         LET l == known_bits_expr(x.a[1], facts, t)
             r == known_bits_expr(x.a[2], facts, t)
         IN  known_bits_fold(Binary(l.x, x.n, r.x),
                             {BitwiseFact(x.n, f, g) : f \in l.fact, g \in r.fact})
    [] HasBits(t) /\ x.k = "cast" /\ x.t = t ->
         LET y == known_bits_expr(x.a[1], facts, t)
         IN  known_bits_fold(Cast(t, y.x), y.fact)
    [] OTHER -> range_known_bits(x, facts, t)

---------------------------------------------------------------------------
\* Statements.  What a branch or a loop body learns stays inside it; a loop
\* body starts without the facts of the variables it assigns.

FactsInLoop(body, facts) == Without(facts, collect_assigned_names(body))

\* Has the statement a value to fold?
Folds(st, ret) ==
  \/ st.k = "let" /\ HasBits(st.t)
  \/ st.k = "return" /\ st.e # <<>> /\ ret # ""

\* fact is what is known of the value of a let.
FactsAfter(st, fact, address_taken, facts) ==
  LET learned == {f \in fact : f.ty = st.t /\ st.n \notin address_taken}
  IN  CASE st.k = "let" ->
             IF learned # {} THEN With(facts, st.n, CHOOSE f \in learned : TRUE)
             ELSE Without(facts, {st.n})
        [] st.k = "assign" ->
             IF st.p[1].k = "ident" THEN Without(facts, {st.p[1].n}) ELSE <<>>
        [] OTHER -> facts

RECURSIVE known_bits_block(_, _, _, _)
\* The block from a statement on whose value is y.
FoldedFrom(block, y, address_taken, ret, facts) ==
  LET st == Head(block)
      start == IF st.k = "if" THEN facts ELSE FactsInLoop(st.b[1], facts)
  IN  <<[st EXCEPT !.e = IF Folds(st, ret) THEN <<y.x>> ELSE @,
                   !.b = [j \in DOMAIN @ |-> known_bits_block(@[j], address_taken, ret, start)]]>>
      \o known_bits_block(Tail(block), address_taken, ret, FactsAfter(st, y.fact, address_taken, facts))

known_bits_block(block, address_taken, ret, facts) ==
  IF block = <<>> THEN <<>>
  ELSE LET st == Head(block)
       IN  FoldedFrom(block,
                      IF Folds(st, ret)
                      THEN known_bits_expr(st.e[1], facts, IF st.k = "let" THEN st.t ELSE ret)
                      ELSE Simplified(st, {}),
                      address_taken, ret, facts)

\* A parameter starts with a fact that knows none of its bits.
known_bits_program(fns) ==
  [i \in DOMAIN fns |->
     LET f == fns[i]
         address_taken == collect_address_taken_names(f.body)
         known == {p \in {f.params[j] : j \in DOMAIN f.params} :
                     HasBits(p.t) /\ p.n \notin address_taken}
         facts == [n \in {p.n : p \in known} |->
                     Fact((CHOOSE p \in known : p.n = n).t, {}, {})]
     IN  [f EXCEPT !.body = known_bits_block(@, address_taken, f.ret, facts)]]

===============================================================================

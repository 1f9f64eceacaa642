------------------------------ MODULE TbirDemand ------------------------------
(***************************************************************************)
(* Narrowing of src/tbir/demand.rs: when a sum or a product is cast to a   *)
(* narrower unsigned type, its operands are cast instead, so that the      *)
(* arithmetic is done at the narrow width.                                 *)
(*                                                                         *)
(* types maps the variables in scope and the program's constants to their  *)
(* types; memory objects are not in it, because reading one keeps an       *)
(* expression from being narrowed.                                         *)
(***************************************************************************)
EXTENDS TbirSyntax

LiteralType(v) ==
  CASE v <= typed_integer_mask("u8") -> "u8"
    [] v > typed_integer_mask("u8") /\ v <= typed_integer_mask("u16") -> "u16"
    [] OTHER -> "u24"

TypeIn(types, n) == IF n \in DOMAIN types THEN types[n] ELSE ""

RECURSIVE expr_type(_, _)
\* The type of an expression, "" where it has none that matters here.
expr_type(x, types) ==
  CASE x.k = "ident" -> TypeIn(types, x.n)
    [] x.k = "int" /\ x.v >= 0 -> LiteralType(x.v)
    [] x.k \in {"typed", "cast"} -> x.t
    [] x.k = "bool" -> "bool"
    [] x.k = "unary" -> IF x.n = "!" THEN "bool" ELSE expr_type(x.a[1], types)
    [] x.k = "binary" ->
         LET l == expr_type(x.a[1], types)
             r == expr_type(x.a[2], types)
         IN  CASE x.n \in {"<", "<=", ">", ">=", "==", "!=", "&&", "||"} -> "bool"
               [] x.n \notin {"<", "<=", ">", ">=", "==", "!=", "&&", "||"} ->
                    IF Bits(l) = 0 \/ Bits(r) = 0 THEN "" ELSE IF Bits(l) >= Bits(r) THEN l ELSE r
    [] OTHER -> ""

\* Nothing is called and no memory read: only variables in scope and constants.
is_pure(x, types) ==
  \A y \in SubExprs(x) :
    /\ y.k \notin {"call", "index", "deref", "in", "addr"}
    /\ y.k = "ident" => y.n \in DOMAIN types

TypedRange(t) ==
  IF Signed(t) THEN -(2 ^ (Bits(t) - 1)) .. 2 ^ (Bits(t) - 1) - 1 ELSE 0 .. typed_integer_mask(t)

invalid_typed_literal(x) ==
  \E y \in SubExprs(x) :
    \/ y.k = "typed" /\ Bits(y.t) # 0 /\ y.v \notin TypedRange(y.t)
    \/ y.k = "unary" /\ y.n = "-" /\ y.a[1].k = "typed"

RECURSIVE LeafDemand(_, _)
\* The low bits asked of the one value under a chain of casts and unary
\* operators, when that many are asked of the chain; none when it branches.
LeafDemand(x, bits) ==
  CASE x.k = "binary" -> {}
    [] x.k = "cast" -> LeafDemand(x.a[1], IF Bits(x.t) \in 1 .. bits THEN Bits(x.t) ELSE bits)
    [] x.k = "unary" -> LeafDemand(x.a[1], bits)
    [] OTHER -> {bits}

\* An operand of the sum's own width, or a bare literal of any.
SourceOperand(x, source, types) ==
  LET t == expr_type(x, types)
  IN  type_is_unsigned_integer(t) /\ (Bits(t) = Bits(source) \/ (x.k = "int" /\ x.v >= 0))

Narrows(target, x, types) ==
  LET source == expr_type(x, types)
  IN  /\ x.k = "binary" /\ x.n \in {"+", "*"}
      /\ type_is_unsigned_integer(target) /\ type_is_unsigned_integer(source)
      /\ Bits(target) < Bits(source)
      /\ ~invalid_typed_literal(x) /\ is_pure(x, types)
      /\ \A i \in 1 .. 2 : /\ SourceOperand(x.a[i], source, types)
                           /\ LeafDemand(x.a[i], Bits(target)) = {Bits(target)}

narrow_arithmetic(target, x, types) ==
  LET operand(y) == IF Bits(expr_type(y, types)) > Bits(target) THEN Cast(target, y) ELSE y
  IN  IF Narrows(target, x, types) THEN [x EXCEPT !.a = [i \in DOMAIN @ |-> operand(@[i])]] ELSE x

RECURSIVE visit_expr(_, _)
visit_expr(x, types) ==
  LET y == [x EXCEPT !.a = [i \in DOMAIN @ |-> visit_expr(@[i], types)]]
  IN  IF x.k = "cast" THEN Cast(x.t, narrow_arithmetic(x.t, y.a[1], types)) ELSE y

RECURSIVE visit_stmts(_, _)
\* A let is in scope for what follows it in its block and the blocks inside.
visit_stmts(block, types) ==
  IF block = <<>> THEN <<>>
  ELSE
    LET st == Head(block)
        after == IF st.k = "let"
                 THEN [n \in DOMAIN types \cup {st.n} |-> IF n = st.n THEN st.t ELSE types[n]]
                 ELSE types
        place(p) == [p EXCEPT !.a = [i \in DOMAIN @ |-> visit_expr(@[i], types)]]
    IN  <<[st EXCEPT !.e = [i \in DOMAIN @ |-> visit_expr(@[i], types)],
                     !.p = [i \in DOMAIN @ |-> place(@[i])],
                     !.b = [i \in DOMAIN @ |-> visit_stmts(@[i], types)]]>>
          \o visit_stmts(Tail(block), after)

\* A parameter hides a constant of its name; an array has no type of interest.
apply_program(fns, consts) ==
  [i \in DOMAIN fns |->
     LET f == fns[i]
         params == {f.params[j] : j \in DOMAIN f.params}
         type(n) == CASE n \in ParamNames(f) -> (CHOOSE p \in params : p.n = n).t
                      [] n \notin ParamNames(f) /\ consts[n].len = 0 -> consts[n].t
                      [] OTHER -> ""
     IN  [f EXCEPT !.body = visit_stmts(@, [n \in ParamNames(f) \cup DOMAIN consts |-> type(n)])]]

===============================================================================

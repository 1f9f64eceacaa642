------------------------------ MODULE TbirScalar ------------------------------
(***************************************************************************)
(* Scalar simplification and idempotent-operation cleanup of               *)
(* src/tbir/optimize.rs: literals folded, identities removed, division and *)
(* multiplication by powers of two turned into shifts and masks, and       *)
(* compile-time evaluation where TbirComptime allows it.                   *)
(***************************************************************************)
EXTENDS TbirComptime

IsInteger(x, v) == IsInt(x) /\ x.v = v

---------------------------------------------------------------------------
\* Each group of rules is a set with at most one result, empty when no rule
\* applies; the groups are tried in order.

FirstOf(groups) ==
  LET some == {i \in DOMAIN groups : groups[i] # {}}
  IN  IF some = {} THEN {} ELSE groups[CHOOSE i \in some : \A j \in some : i <= j]

When(condition, x) == IF condition THEN {x} ELSE {}

fold_unary(op, x) ==
  CASE op = "!" /\ x.k = "bool" -> {Bool(x.v = 0)}
    [] op = "~" /\ x.k = "typed" ->
         {TypedInt(IF type_is_unsigned_integer(x.t)
                   THEN HostBitwise("&", -x.v - 1, typed_integer_mask(x.t)) ELSE -x.v - 1, x.t)}
    [] OTHER -> {}

fold_binary(l, op, r) ==
  CASE l.k = "bool" /\ r.k = "bool" ->
         CASE op = "&&" -> {Bool(l.v = 1 /\ r.v = 1)}
           [] op = "||" -> {Bool(l.v = 1 \/ r.v = 1)}
           [] op = "==" -> {Bool(l.v = r.v)}
           [] op = "!=" -> {Bool(l.v # r.v)}
           [] OTHER -> {}
    [] IsInt(l) /\ l.k = r.k /\ op \in BitwiseOps ->
         {[l EXCEPT !.v = HostBitwise(op, l.v, r.v)]}
    [] OTHER -> {}

is_all_ones_mask(x) == x.k = "typed" /\ Bits(x.t) # 0 /\ x.v = typed_integer_mask(x.t)

unsigned_power_of_two(x) ==
  x.k = "typed" /\ type_is_unsigned_integer(x.t) /\ x.v > 1 /\ is_power_of_two(x.v)

power_of_two_shift(x) == IsInt(x) /\ x.v > 1 /\ is_power_of_two(x.v)

contains_inline_call(x, inline) == \E y \in SubExprs(x) : y.k = "call" /\ y.n \in inline

\* Two masks of the same type around one value become one.
combine_bitwise_constants(l, op, r) ==
  LET inner == l.a[2]
  IN  When(inner.k = "typed" /\ r.k = "typed" /\ inner.t = r.t,
           Binary(l.a[1], op, TypedInt(HostBitwise(op, inner.v, r.v), r.t)))

\* Zero and one.  A product or mask with zero needs the other operand pure; a
\* quotient or remainder by zero does not ask.
ZeroAndOne(l, op, r) ==
  FirstOf(<<When(op \in {"+", "-", "|", "^", "<<", ">>"} /\ IsInteger(r, 0), l),
            When(op \in {"*", "/"} /\ IsInteger(r, 1), l),
            When(op \in {"/", "%"} /\ IsInteger(r, 0), IntLit(0)),
            When(op \in {"*", "&"} /\ IsInteger(r, 0) /\ is_pure_scalar(l), IntLit(0)),
            When(op \in {"*", "&"} /\ IsInteger(l, 0) /\ is_pure_scalar(r), IntLit(0))>>)

\* Powers of two.  Only a divisor with an unsigned type of its own qualifies.
PowersOfTwo(l, op, r) ==
  FirstOf(<<When(op = "/" /\ unsigned_power_of_two(r),
                 Binary(l, ">>", TypedInt(trailing_zeros(r.v), r.t))),
            When(op = "%" /\ unsigned_power_of_two(r), Binary(l, "&", TypedInt(r.v - 1, r.t))),
            When(op = "*" /\ power_of_two_shift(l), Binary(r, "<<", IntLit(trailing_zeros(l.v)))),
            When(op = "*" /\ power_of_two_shift(r), Binary(l, "<<", IntLit(trailing_zeros(r.v))))>>)

MasksAndZeros(l, op, r) ==
  FirstOf(<<When(op \in {"+", "|", "^"} /\ IsInteger(l, 0), r),
            When(op = "&" /\ is_all_ones_mask(r), l),
            When(op = "^" /\ is_all_ones_mask(r), Unary("~", l)),
            IF l.k = "binary" /\ l.n = op /\ op \in BitwiseOps
            THEN combine_bitwise_constants(l, op, r) ELSE {}>>)

\* && and ||.  What the short circuit skips may be dropped unless it is a call
\* that inlining has still to see; what runs first only when it is pure.
Logical(l, op, r, inline) ==
  LET skippable == is_pure_scalar(r) \/ ~contains_inline_call(r, inline)
      unit == Bool(op = "&&")
      zero == Bool(op = "||")
  IN  IF op \notin {"&&", "||"} THEN {}
      ELSE FirstOf(<<When(l = unit, r), When(r = unit, l),
                     When(l = zero /\ skippable, zero),
                     When(r = zero /\ is_pure_scalar(l), zero)>>)

simplify_binary(l, op, r, inline) ==
  FirstOf(<<ZeroAndOne(l, op, r), PowersOfTwo(l, op, r), MasksAndZeros(l, op, r),
            Logical(l, op, r, inline)>>)

\* A mask that keeps every bit the narrowing cast keeps is dropped.
remove_unsigned_narrowing_mask(t, x) ==
  IF /\ x.k = "binary" /\ x.n = "&" /\ x.a[2].k = "typed"
     /\ <<x.a[2].t, t>> \in {<<"u16", "u8">>, <<"u24", "u8">>, <<"u24", "u16">>}
     /\ HostBitwise("&", x.a[2].v, typed_integer_mask(t)) = typed_integer_mask(t)
  THEN x.a[1] ELSE x

OrElse(results, x) == IF results = {} THEN x ELSE CHOOSE y \in results : TRUE

RECURSIVE optimize_expr(_, _, _)

\* An expression whose operands are optimised; a comptime call whose arguments
\* have become known is evaluated last.
simplify_expr(x, inline, comptime) ==
  LET a == [i \in DOMAIN x.a |-> optimize_expr(x.a[i], inline, comptime)]
      y == [x EXCEPT !.a = a]
  IN  CASE x.k = "unary" ->
             IF x.n = "~" /\ a[1].k = "unary" /\ a[1].n = "~" THEN a[1].a[1]
             ELSE OrElse(fold_unary(x.n, a[1]), y)
        [] x.k = "binary" ->
             OrElse(FirstOf(<<fold_binary(a[1], x.n, a[2]),
                              simplify_binary(a[1], x.n, a[2], inline)>>), y)
        [] x.k = "cast" -> Cast(x.t, remove_unsigned_narrowing_mask(x.t, a[1]))
        [] x.k = "call" /\ is_comptime_call(x, comptime) -> OrElse(evaluate(y, comptime), y)
        [] OTHER -> y

\* What mentions a constant and is known is its value, before anything else.
optimize_expr(x, inline, comptime) ==
  IF is_comptime_call(x, comptime) \/ ~references_enabled_constant(x, comptime)
  THEN simplify_expr(x, inline, comptime)
  ELSE OrElse({y \in evaluate(x, comptime) : y # x /\ is_comptime_inlineable(y)},
              simplify_expr(x, inline, comptime))

\* The declared type of a variable gives a bare divisor its own.
type_unsigned_power_of_two_divisor(x, t) ==
  IF /\ x.k = "binary" /\ x.n \in {"/", "%"} /\ x.a[2].k = "int"
     /\ type_is_unsigned_integer(t) /\ x.a[2].v > 1 /\ is_power_of_two(x.a[2].v)
  THEN [x EXCEPT !.a[2] = TypedInt(@.v, t)] ELSE x

optimize_stmts(block, inline, comptime) ==
  Rewritten(LAMBDA st, x :
              optimize_expr(IF st.k = "let" THEN type_unsigned_power_of_two_divisor(x, st.t) ELSE x,
                            inline, comptime), block)

inline_function_names(fns) ==
  {fns[i].name : i \in {i \in DOMAIN fns : has_attr(fns[i], "inline")
                                             /\ ~has_attr(fns[i], "no-comptime")}}

scalar_simplify_program(fns, comptime) ==
  LET inline == inline_function_names(fns)
  IN  WithBodies(LAMBDA body : optimize_stmts(body, inline, comptime), fns)

---------------------------------------------------------------------------
\* x & x and x | x

RECURSIVE idempotent(_)
idempotent(x) ==
  LET y == [x EXCEPT !.a = [i \in DOMAIN @ |-> idempotent(@[i])]]
  IN  IF y.k = "binary" /\ y.n \in {"&", "|"} /\ y.a[1] = y.a[2] /\ is_pure_scalar(y.a[1])
      THEN y.a[1] ELSE y

simplify_idempotent_operations_program(fns) ==
  WithBodies(LAMBDA body : Rewritten(LAMBDA st, x : idempotent(x), body), fns)

===============================================================================

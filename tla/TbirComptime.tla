----------------------------- MODULE TbirComptime -----------------------------
(***************************************************************************)
(* Compile-time evaluation of src/tbir/optimize.rs: enabled constants and  *)
(* calls of @comptime functions put in place of themselves when every      *)
(* input is known.                                                         *)
(*                                                                         *)
(* comptime is the program as it was given, its functions fns and its      *)
(* constants consts: name to [t, len, value, disabled], len 0 for a        *)
(* scalar.  The length of an array is a literal and its elements are       *)
(* scalars.                                                                *)
(*                                                                         *)
(* An evaluation is a set: empty when it fails, for whatever reason, else  *)
(* one value and the steps it took.  Since it has no loops and refuses     *)
(* recursion it always ends, and the step limit is asked of the total.     *)
(***************************************************************************)
EXTENDS TbirSyntax, Bitwise, TLC

CONSTANTS ComptimeMaxSteps, ComptimeMaxCallDepth, ComptimeMaxArrayElements

ASSUME ComptimeLimitsAssumption ==
  {ComptimeMaxSteps, ComptimeMaxCallDepth, ComptimeMaxArrayElements} \subseteq Nat

---------------------------------------------------------------------------
\* The compiler's own integers, eight bytes wide.

HostBits == 8 * ByteBits

HostWrap(v) ==
  LET raw == v % 2 ^ HostBits
  IN  IF raw >= 2 ^ (HostBits - 1) THEN raw - 2 ^ HostBits ELSE raw

BitwiseOps == {"&", "|", "^"}

HostBitwise(op, l, r) ==
  LET a == l % 2 ^ HostBits
      b == r % 2 ^ HostBits
  IN  HostWrap(CASE op = "&" -> a & b [] op = "|" -> a | b [] op = "^" -> a ^^ b)

HostQuotient(l, r) ==
  CASE r = 0 -> 0
    [] r # 0 /\ (l < 0) = (r < 0) -> (IF l < 0 THEN -l ELSE l) \div (IF r < 0 THEN -r ELSE r)
    [] OTHER -> -((IF l < 0 THEN -l ELSE l) \div (IF r < 0 THEN -r ELSE r))

\* A shift by the width or more gives zero, whatever the sign; so does one by a
\* negative count, which is taken for a huge one.
HostShiftLeft(l, r) == IF r \in 0 .. HostBits - 1 THEN l * 2 ^ r ELSE 0

HostShiftRight(l, r) == IF r \in 0 .. HostBits - 1 THEN l \div 2 ^ r ELSE 0

---------------------------------------------------------------------------
\* Values: literals, and arrays of them, which only constants have.

ArrayOf(xs) == Expr("array", "", 0, "", xs)

IsInt(x) == x.k \in {"int", "typed"}

is_comptime_inlineable(x) == x.k \in {"int", "typed", "bool"}

typed_integer(v, t) == IF Bits(t) = 0 THEN IntLit(v) ELSE TypedInt(Wrap(t, v), t)

zero_value(t) == IF t = "bool" THEN Bool(FALSE) ELSE TypedInt(0, t)

eval_unary(op, x) ==
  CASE op = "!" /\ x.k = "bool" -> {Bool(x.v = 0)}
    [] op = "-" /\ IsInt(x) -> {typed_integer(HostWrap(-x.v), x.t)}
    [] op = "~" /\ IsInt(x) -> {typed_integer(-x.v - 1, x.t)}
    [] OTHER -> {}

eval_cast(t, x) ==
  CASE t = "ptr" \/ ~is_comptime_inlineable(x) -> {}
    [] t = "bool" -> {Bool(x.v # 0)}
    [] OTHER -> {typed_integer(x.v, t)}

Shifted(l, r) ==
  IF Signed(l.t)
  THEN IF r.v \in 0 .. Bits(l.t) - 1 THEN l.v \div 2 ^ r.v ELSE IF l.v < 0 THEN -1 ELSE 0
  ELSE HostShiftRight(l.v, r.v)

\* The result has the type of the left literal, or else of the right one; two
\* bare literals make a bare one, which no type wraps.
eval_arithmetic(l, op, r) ==
  typed_integer(
    HostWrap(CASE op = "+" -> l.v + r.v
               [] op = "-" -> l.v - r.v
               [] op = "*" -> l.v * r.v
               [] op = "/" -> HostQuotient(l.v, r.v)
               [] op = "%" -> IF r.v = 0 THEN 0 ELSE l.v - r.v * HostQuotient(l.v, r.v)
               [] op = "<<" -> HostShiftLeft(l.v, r.v)
               [] op = ">>" -> Shifted(l, r)
               [] op \in BitwiseOps -> HostBitwise(op, l.v, r.v)),
    IF l.t # "" THEN l.t ELSE r.t)

eval_binary_literals(l, op, r) ==
  LET bools == l.k = "bool" /\ r.k = "bool"
      Holds == CASE op = "&&" -> l.v # 0 /\ r.v # 0
                 [] op = "||" -> l.v # 0 \/ r.v # 0
                 [] op = "==" -> l.v = r.v
                 [] op = "!=" -> l.v # r.v
                 [] op = "<" -> l.v < r.v
                 [] op = "<=" -> l.v <= r.v
                 [] op = ">" -> l.v > r.v
                 [] op = ">=" -> l.v >= r.v
  IN  CASE ~is_comptime_inlineable(l) \/ ~is_comptime_inlineable(r) -> {}
        [] op \in {"&&", "||", "==", "!="} -> {Bool(Holds)}
        [] op \in {"<", "<=", ">", ">="} -> IF bools THEN {} ELSE {Bool(Holds)}
        [] OTHER -> IF bools THEN {} ELSE {eval_arithmetic(l, op, r)}

---------------------------------------------------------------------------
\* What may be evaluated

ComptimeFunction(name, comptime) ==
  {comptime.fns[i] : i \in {i \in DOMAIN comptime.fns :
     /\ comptime.fns[i].name = name
     /\ has_attr(comptime.fns[i], "comptime") /\ ~has_attr(comptime.fns[i], "no-comptime")}}

is_comptime_call(x, comptime) == x.k = "call" /\ ComptimeFunction(x.n, comptime) # {}

EnabledConstant(name, comptime) ==
  name \in DOMAIN comptime.consts /\ ~comptime.consts[name].disabled

RECURSIVE references_enabled_constant(_, _)
references_enabled_constant(x, comptime) ==
  IF x.k \in {"ident", "index"} THEN EnabledConstant(x.n, comptime)
  ELSE \E i \in DOMAIN x.a : references_enabled_constant(x.a[i], comptime)

\* A result, and no pointer in or out.
Callable(f, args) ==
  /\ f.ret \notin {"", "ptr"}
  /\ Len(f.params) = Len(args)
  /\ \A i \in DOMAIN f.params : f.params[i].t # "ptr"

---------------------------------------------------------------------------
\* Evaluation in an environment: the locals of the function being evaluated,
\* the constants and the calls begun, and comptime.

Known(x, n) == [x |-> x, n |-> n]

After(steps, known) == {[r EXCEPT !.n = @ + steps] : r \in known}

NotArray(known) == {r \in known : r.x.k # "array"}

RECURSIVE eval_expr(_, _), eval_stmts(_, _)

\* Expressions in order; what they are known to be is a sequence.
EvalAll(xs, env) ==
  LET each == [i \in DOMAIN xs |-> eval_expr(xs[i], env)]
      Only(i) == CHOOSE r \in each[i] : TRUE
  IN  IF \E i \in DOMAIN xs : each[i] = {} THEN {}
      ELSE {Known([i \in DOMAIN xs |-> Only(i).x], SumOf([i \in DOMAIN xs |-> Only(i).n]))}

\* An array is filled up with zeros to its declared length.
complete_constant_value(r, c) ==
  CASE c.t = "ptr" -> {}
    [] c.t # "ptr" /\ c.len = 0 -> {r}
    [] OTHER ->
         IF r.x.k = "array" /\ Len(r.x.a) <= c.len /\ c.len <= ComptimeMaxArrayElements
         THEN {Known(ArrayOf([i \in 1 .. c.len |->
                                IF i <= Len(r.x.a) THEN r.x.a[i] ELSE zero_value(c.t)]), r.n + 1)}
         ELSE {}

\* A local hides a constant, also where it is the value of another constant
\* that is evaluated.
eval_name(name, env) ==
  LET c == env.comptime.consts[name]
  IN  CASE name \in DOMAIN env.locals -> {Known(env.locals[name], 1)}
        [] name \notin DOMAIN env.locals
             /\ EnabledConstant(name, env.comptime) /\ name \notin env.constants ->
             After(1, UNION {complete_constant_value(r, c) :
                               r \in eval_expr(c.value, [env EXCEPT !.constants = @ \cup {name}])})
        [] OTHER -> {}

index_value(base, i) ==
  IF base.x.k = "array" /\ i.x.v \in 0 .. Len(base.x.a) - 1
  THEN {Known(base.x.a[i.x.v + 1], base.n + i.n)} ELSE {}

\* && and || leave the right operand alone when the left one decides.
eval_binary(x, env) ==
  UNION {IF (x.n = "&&" /\ l.x.v = 0) \/ (x.n = "||" /\ l.x.v # 0)
         THEN {Known(Bool(l.x.v # 0), l.n)}
         ELSE UNION {{Known(y, l.n + r.n) : y \in eval_binary_literals(l.x, x.n, r.x)} :
                       r \in eval_expr(x.a[2], env)} : l \in NotArray(eval_expr(x.a[1], env))}

\* A parameter is the value of its argument, of whatever type that is.
eval_call(x, env) ==
  UNION {UNION {After(given.n, {Known(flow.ret[1], flow.n) :
                                  flow \in {flow \in
                                    eval_stmts(f.body,
                                      [env EXCEPT
                                         !.calls = Append(@, x.n),
                                         !.locals = [p \in ParamNames(f) |->
                                            given.x[CHOOSE i \in DOMAIN f.params :
                                                      f.params[i].n = p]]]) : flow.ret # <<>>}}) :
                  given \in {g \in EvalAll(x.a, env) :
                               \A i \in DOMAIN g.x : g.x[i].k # "array"}} :
           f \in {f \in ComptimeFunction(x.n, env.comptime) :
                    /\ Callable(f, x.a)
                    /\ Len(env.calls) < ComptimeMaxCallDepth
                    /\ \A i \in DOMAIN env.calls : env.calls[i] # x.n}}

eval_expr(x, env) ==
  After(IF x.k = "ident" THEN 0 ELSE 1,
        CASE is_comptime_inlineable(x) -> {Known(x, 0)}
          [] x.k = "ident" -> eval_name(x.n, env)
          [] x.k = "array" ->
               IF Len(x.a) > ComptimeMaxArrayElements THEN {}
               ELSE {Known(ArrayOf(r.x), r.n) : r \in EvalAll(x.a, env)}
          [] x.k = "index" ->
               UNION {index_value(b, i) : b \in eval_name(x.n, env),
                                          i \in NotArray(eval_expr(x.a[1], env))}
          [] x.k = "unary" ->
               UNION {{Known(y, r.n) : y \in eval_unary(x.n, r.x)} : r \in eval_expr(x.a[1], env)}
          [] x.k = "cast" ->
               UNION {{Known(y, r.n) : y \in eval_cast(x.t, r.x)} : r \in eval_expr(x.a[1], env)}
          [] x.k = "binary" -> eval_binary(x, env)
          [] x.k = "call" -> eval_call(x, env)
          [] OTHER -> {})

\* A statement or block leaves the locals it made, those of inner blocks too,
\* and in ret the value it returned, if it did.
Flow(ret, n, locals) == [ret |-> ret, n |-> n, locals |-> locals]

eval_stmt(st, env) ==
  CASE st.k = "let" ->
         {Flow(<<>>, r.n, (st.n :> r.x) @@ env.locals) : r \in NotArray(eval_expr(st.e[1], env))}
    [] st.k = "if" ->
         UNION {After(c.n, eval_stmts(st.b[IF c.x.v # 0 THEN 1 ELSE 2], env)) :
                  c \in NotArray(eval_expr(st.e[1], env))}
    [] st.k = "return" /\ st.e # <<>> ->
         {Flow(<<r.x>>, r.n, env.locals) : r \in NotArray(eval_expr(st.e[1], env))}
    [] st.k = "expr" -> {Flow(<<>>, r.n, env.locals) : r \in eval_expr(st.e[1], env)}
    [] OTHER -> {}

eval_stmts(block, env) ==
  IF block = <<>> THEN {Flow(<<>>, 0, env.locals)}
  ELSE UNION {IF flow.ret # <<>> THEN {flow}
              ELSE After(flow.n, eval_stmts(Tail(block), [env EXCEPT !.locals = flow.locals])) :
                flow \in After(1, eval_stmt(Head(block), env))}

evaluate(x, comptime) ==
  {r.x : r \in {r \in eval_expr(x, [locals |-> <<>>, constants |-> {}, calls |-> <<>>,
                                    comptime |-> comptime]) : r.n <= ComptimeMaxSteps}}

===============================================================================

------------------------------ MODULE TbirSyntax ------------------------------
(***************************************************************************)
(* The program text the optimiser of src/tbir/optimize.rs rewrites: the    *)
(* expressions, places, statements and functions of src/ast.rs, with the   *)
(* traversals every pass is written with.                                  *)
(*                                                                         *)
(* All expressions are records with the same fields, so that two of them   *)
(* can be compared: k the variant, n a name or an operator, v an integer,  *)
(* t a type, a the sub-expressions.  All statements are records too: p the *)
(* place an assignment writes, e the expressions evaluated, b the blocks.  *)
(* Fields, array literals, strings and banked pointers are left out: for   *)
(* every pass they are an Index, a Call or a literal over again.           *)
(***************************************************************************)
EXTENDS TbirArithmetic, Sequences

---------------------------------------------------------------------------
\* Expressions

Expr(k, n, v, t, a) == [k |-> k, n |-> n, v |-> v, t |-> t, a |-> a]

IntLit(v)      == Expr("int", "", v, "", <<>>)
TypedInt(v, t) == Expr("typed", "", v, t, <<>>)
Bool(b)        == Expr("bool", "", IF b THEN 1 ELSE 0, "", <<>>)
Ident(n)       == Expr("ident", n, 0, "", <<>>)
Index(n, i)    == Expr("index", n, 0, "", <<i>>)
AddressOf(n)   == Expr("addr", n, 0, "", <<>>)
Deref(p)       == Expr("deref", "", 0, "", <<p>>)
InPort(n)      == Expr("in", n, 0, "", <<>>)
Unary(op, x)   == Expr("unary", op, 0, "", <<x>>)
Binary(l, op, r) == Expr("binary", op, 0, "", <<l, r>>)
Cast(t, x)     == Expr("cast", "", 0, t, <<x>>)
Call(f, args)  == Expr("call", f, 0, "", args)

---------------------------------------------------------------------------
\* Statements

Stmt(k, n, t, p, e, b) == [k |-> k, n |-> n, t |-> t, p |-> p, e |-> e, b |-> b]

Let(n, t, x)     == Stmt("let", n, t, <<>>, <<x>>, <<>>)
Assign(p, op, x) == Stmt("assign", op, "", <<p>>, <<x>>, <<>>)
If(c, th, el)    == Stmt("if", "", "", <<>>, <<c>>, <<th, el>>)
While(c, body)   == Stmt("while", "", "", <<>>, <<c>>, <<body>>)
Loop(body)       == Stmt("loop", "", "", <<>>, <<>>, <<body>>)
Return(x)        == Stmt("return", "", "", <<>>, <<x>>, <<>>)
ReturnVoid       == Stmt("return", "", "", <<>>, <<>>, <<>>)
Out(port, x)     == Stmt("out", port, "", <<>>, <<x>>, <<>>)
ExprStmt(x)      == Stmt("expr", "", "", <<>>, <<x>>, <<>>)
Break            == Stmt("break", "", "", <<>>, <<>>, <<>>)
Continue         == Stmt("continue", "", "", <<>>, <<>>, <<>>)

\* A function declaration; ret is "" for a function without a result.
Function(name, attrs, params, ret, body) ==
  [name |-> name, attrs |-> attrs, params |-> params, ret |-> ret, body |-> body]

Param(n, t) == [n |-> n, t |-> t]

ParamNames(f) == {f.params[i].n : i \in DOMAIN f.params}

---------------------------------------------------------------------------
\* Traversals

RECURSIVE SubExprs(_)
\* An expression and everything inside it.
SubExprs(x) == {x} \cup UNION {SubExprs(x.a[i]) : i \in DOMAIN x.a}

RECURSIVE StmtsIn(_)
\* The statements of a block and of every block inside it.
StmtsIn(block) ==
  UNION {{block[i]} \cup UNION {StmtsIn(block[i].b[j]) : j \in DOMAIN block[i].b}
           : i \in DOMAIN block}

\* The expressions a statement evaluates by itself, its place's included.
OwnExprs(s) ==
  UNION {SubExprs(s.e[i]) : i \in DOMAIN s.e}
    \cup UNION {UNION {SubExprs(s.p[i].a[j]) : j \in DOMAIN s.p[i].a} : i \in DOMAIN s.p}

ExprsIn(block) == UNION {OwnExprs(s) : s \in StmtsIn(block)}

\* Every integer variable a block assigns by name.  A write through a pointer
\* or to an element is not among them.
collect_assigned_names(block) ==
  {s.p[1].n : s \in {s \in StmtsIn(block) : s.k = "assign" /\ s.p[1].k = "ident"}}

collect_local_names(block) == {s.n : s \in {s \in StmtsIn(block) : s.k = "let"}}

collect_address_taken_names(block) == {x.n : x \in {x \in ExprsIn(block) : x.k = "addr"}}

collect_scalar_dependencies(x) == {y.n : y \in {y \in SubExprs(x) : y.k = "ident"}}

\* A literal, a variable or arithmetic over them: nothing that is a call, a
\* read of memory by index or pointer, or a port read.
is_pure_scalar(x) ==
  \A y \in SubExprs(x) : y.k \in {"int", "typed", "bool", "ident", "unary", "binary", "cast"}

is_cse_candidate(x) == is_pure_scalar(x) /\ x.k \in {"unary", "binary", "cast"}

\* What removing or repeating cannot change; reading memory is not among them.
is_effect_free_expr(x) == \A y \in SubExprs(x) : y.k \notin {"index", "deref", "call", "in"}

terminates(s) == s.k \in {"return", "break", "continue"}

\* Does some statement of the block leave the loop or the function it is in?
stmt_contains_loop_exit(s) == \E u \in StmtsIn(<<s>>) : terminates(u)

stmt_contains_return(s) == \E u \in StmtsIn(<<s>>) : u.k = "return"

---------------------------------------------------------------------------
\* Rewriting.  Rewritten(F, block) is the block with every expression its
\* statements evaluate, those in places included, put through F(statement, _).

Rewritten(F(_, _), block) ==
  LET RECURSIVE Go(_)
      Go(bl) ==
        [i \in DOMAIN bl |->
           LET st == bl[i]
           IN  [st EXCEPT
                  !.e = [j \in DOMAIN @ |-> F(st, @[j])],
                  !.p = [j \in DOMAIN @ |->
                           [@[j] EXCEPT !.a = [k \in DOMAIN @ |-> F(st, @[k])]]],
                  !.b = [j \in DOMAIN @ |-> Go(@[j])]]]
  IN  Go(block)

\* The functions with every body put through F.
WithBodies(F(_), fns) == [i \in DOMAIN fns |-> [fns[i] EXCEPT !.body = F(@)]]

has_attr(f, name) == name \in f.attrs

---------------------------------------------------------------------------
\* How often a name is mentioned, and by a fold over the text rather than a
\* set, because two equal mentions count twice.

RECURSIVE SumOf(_)
SumOf(seq) == IF seq = <<>> THEN 0 ELSE Head(seq) + SumOf(Tail(seq))

RECURSIVE collect_name_uses_expr(_, _)
collect_name_uses_expr(name, x) ==
  (IF x.k \in {"ident", "index", "addr"} /\ x.n = name THEN 1 ELSE 0)
    + SumOf([i \in DOMAIN x.a |-> collect_name_uses_expr(name, x.a[i])])

RECURSIVE collect_name_uses_stmts(_, _)
collect_name_uses_stmts(name, block) ==
  SumOf([i \in DOMAIN block |->
           SumOf([j \in DOMAIN block[i].e |-> collect_name_uses_expr(name, block[i].e[j])])
             + SumOf([j \in DOMAIN block[i].p |-> collect_name_uses_expr(name, block[i].p[j])])
             + SumOf([j \in DOMAIN block[i].b |-> collect_name_uses_stmts(name, block[i].b[j])])])

---------------------------------------------------------------------------
is_power_of_two(v) == \E i \in 0 .. 4 * ByteBits : v = 2 ^ i

trailing_zeros(v) == CHOOSE i \in 0 .. 4 * ByteBits : v = 2 ^ i

===============================================================================

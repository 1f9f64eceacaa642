------------------------------ MODULE TbirInline ------------------------------
(***************************************************************************)
(* Inline expansion of src/tbir/optimize.rs: which inline functions are    *)
(* approved, and the replacement of their calls by their bodies, the       *)
(* arguments held in fresh variables before it.                            *)
(*                                                                         *)
(* The expansion of an expression is [pre, x, s]: the statements to run    *)
(* before it, what is left of it, and the state s of the expander: the     *)
(* next number for a fresh name and whether anything was expanded.         *)
(***************************************************************************)
EXTENDS TbirSyntax, SequencesExt

Unsuffixed(kind) == "__tbir_inline_" \o kind \o "_"

FunctionByName(fns, name) == fns[CHOOSE i \in DOMAIN fns : fns[i].name = name]

NamesOf(fns) == {fns[i].name : i \in DOMAIN fns}

\* The calls in the expressions of a body; those in places are not looked at.
collect_calls(body) ==
  {x.n : x \in {x \in UNION {UNION {SubExprs(s.e[i]) : i \in DOMAIN s.e} : s \in StmtsIn(body)} :
                  x.k = "call"}}

Calls(fns, name) ==
  IF name \in NamesOf(fns) THEN collect_calls(FunctionByName(fns, name).body) ELSE {}

\* Every function a chain of calls from these leads to, themselves included.
RECURSIVE reachable(_, _)
reachable(fns, names) ==
  LET next == names \cup UNION {Calls(fns, n) : n \in names}
  IN  IF next = names THEN names ELSE reachable(fns, next)

stmt_has_inline_forbidden_control(st) == \E s \in StmtsIn(<<st>>) : s.k \in {"break", "continue"}

NoReturns(block) == \A i \in DOMAIN block : ~stmt_contains_return(block[i])

\* A body that ends in the only return, which has a value.
HasReturnBody(f) ==
  /\ f.body # <<>>
  /\ Last(f.body).k = "return" /\ Last(f.body).e # <<>>
  /\ NoReturns(Front(f.body))

EndsInBareReturn(f) ==
  f.body # <<>> /\ Last(f.body) = ReturnVoid /\ NoReturns(Front(f.body))

HasVoidBody(f) == f.ret = "" /\ (EndsInBareReturn(f) \/ NoReturns(f.body))

inline_void_body(f) == IF EndsInBareReturn(f) THEN Front(f.body) ELSE f.body

\* Not rejected: neither special nor recursive, and of a shape that expands.
Approved(f, fns) ==
  /\ has_attr(f, "inline")
  /\ \A attr \in {"no-comptime", "naked", "interrupt"} : ~has_attr(f, attr)
  /\ f.name \notin reachable(fns, Calls(fns, f.name))
  /\ \A i \in DOMAIN f.body : ~stmt_has_inline_forbidden_control(f.body[i])
  /\ HasReturnBody(f) \/ HasVoidBody(f)

---------------------------------------------------------------------------
\* Renaming: names maps the parameters and locals of a body to fresh ones.

Renamed(n, names) == IF n \in DOMAIN names THEN names[n] ELSE n

RECURSIVE rename_expr(_, _)
rename_expr(x, names) ==
  [x EXCEPT !.n = IF x.k \in {"ident", "index", "addr"} THEN Renamed(@, names) ELSE @,
            !.a = [i \in DOMAIN @ |-> rename_expr(@[i], names)]]

RECURSIVE rename_stmts_values(_, _)
\* A mutant: the places assigned keep their names.
rename_stmts_values(block, names) ==
  [i \in DOMAIN block |->
     [block[i] EXCEPT
        !.n = IF block[i].k = "let" THEN Renamed(@, names) ELSE @,
        !.e = [j \in DOMAIN @ |-> rename_expr(@[j], names)],
        !.b = [j \in DOMAIN @ |-> rename_stmts_values(@[j], names)]]]

RECURSIVE rename_stmts(_, _)
rename_stmts(block, names) ==
  [i \in DOMAIN block |->
     [block[i] EXCEPT
        !.n = IF block[i].k = "let" THEN Renamed(@, names) ELSE @,
        !.p = [j \in DOMAIN @ |-> rename_expr(@[j], names)],
        !.e = [j \in DOMAIN @ |-> rename_expr(@[j], names)],
        !.b = [j \in DOMAIN @ |-> rename_stmts(@[j], names)]]]

---------------------------------------------------------------------------
\* The expansion of every body in fns; approved are the functions to expand.

Expansion(fns, approved) ==
  LET used == NamesOf(fns) \cup UNION {ParamNames(f) : f \in ToSet(fns)}
                \cup UNION {collect_local_names(f.body) : f \in ToSet(fns)}
      Unique(kind, next) ==
        CHOOSE n \in next .. next + Cardinality(used) :
          /\ Unsuffixed(kind) \o ToString(n) \notin used
          /\ \A m \in next .. n - 1 : Unsuffixed(kind) \o ToString(m) \in used
      Name(kind, n) == Unsuffixed(kind) \o ToString(n)

      \* Expandable where the functions of the active stack are being expanded.
      Expandable(x, active) ==
        /\ x.k = "call" /\ x.n \in approved \ active
        /\ Len(x.a) = Len(FunctionByName(fns, x.n).params)
      IsVoid(x) == FunctionByName(fns, x.n).ret = ""

      \* The arguments, each in a variable of its own, then the parameters,
      \* then a fresh name for every local of the body.
      BindParam(p, value, arg, param, b) ==
        [lets |-> Append(b.lets, Let(Name("arg", arg), p.t, value)),
         bindings |-> Append(b.bindings, Let(Name("param", param), p.t, Ident(Name("arg", arg)))),
         names |-> (p.n :> Name("param", param)) @@ b.names,
         next |-> param + 1]
      RECURSIVE BindParams(_, _, _), BindLocals(_, _)
      BindParams(params, args, b) ==
        IF params = <<>> THEN b
        ELSE LET arg == Unique("arg", b.next)
             IN  BindParams(Tail(params), Tail(args),
                            BindParam(Head(params), Head(args), arg, Unique("param", arg + 1), b))
      BindLocal(local, n, b) ==
        [b EXCEPT !.names = @ @@ (local :> Name("local", n)), !.next = n + 1]
      BindLocals(locals, b) ==
        IF locals = <<>> THEN b
        ELSE BindLocals(Tail(locals), BindLocal(Head(locals), Unique("local", b.next), b))
      bind_arguments(f, args, next) ==
        BindLocals(SetToSeq(collect_local_names(f.body) \ ParamNames(f)),
                   BindParams(f.params, args,
                              [lets |-> <<>>, bindings |-> <<>>, names |-> << >>, next |-> next]))

      RECURSIVE Exprs(_, _, _), ExpandExpr(_, _, _), ExpandStmts(_, _, _), Blocks(_, _, _)
      Then(first, rest) == [pre |-> first.pre \o rest.pre, xs |-> <<first.x>> \o rest.xs, s |-> rest.s]
      AndExprs(first, xs, active) == Then(first, Exprs(xs, first.s, active))
      Exprs(xs, s, active) ==
        IF xs = <<>> THEN [pre |-> <<>>, xs |-> <<>>, s |-> s]
        ELSE AndExprs(ExpandExpr(Head(xs), s, active), Tail(xs), active)

      \* The body in place of a call: its statements, its result, which gets a
      \* variable, and a reference to that.
      Held(t, pre, result, n) ==
        [pre |-> Append(pre \o result.pre, Let(Name("result", n), t, result.x)),
         x |-> Ident(Name("result", n)),
         s |-> [next |-> n + 1, any |-> TRUE]]
      Hold(t, pre, result) == Held(t, pre, result, Unique("result", result.s.next))
      ExpandResult(f, pre, names, body, active) ==
        Hold(f.ret, pre \o body.out, ExpandExpr(rename_expr(Last(f.body).e[1], names), body.s, active))
      ExpandBody(f, a, b, active) ==
        ExpandResult(f, a.pre \o b.lets \o b.bindings, b.names,
                     ExpandStmts(rename_stmts(Front(f.body), b.names), [a.s EXCEPT !.next = b.next], active),
                     active)
      ExpandCall(x, a, active) ==
        LET f == FunctionByName(fns, x.n)
        IN  IF Expandable(x, active) /\ ~IsVoid(x)
            THEN ExpandBody(f, a, bind_arguments(f, a.xs, a.s.next), active \cup {f.name})
            ELSE [pre |-> a.pre, x |-> [x EXCEPT !.a = a.xs \o SubSeq(@, Len(a.xs) + 1, Len(@))], s |-> a.s]
      \* The right side of && and || stays as it is: it may not run at all.
      ExpandExpr(x, s, active) ==
        ExpandCall(x,
          Exprs(IF x.k = "binary" /\ x.n \in {"&&", "||"} THEN <<x.a[1]>> ELSE x.a, s, active), active)

      ExpandVoid(f, b, s, active) ==
        LET Effect(body) == [out |-> b.lets \o b.bindings \o body.out, s |-> [body.s EXCEPT !.any = TRUE]]
        IN  Effect(ExpandStmts(rename_stmts(inline_void_body(f), b.names), [s EXCEPT !.next = b.next], active))
      Rebuilt(st, a, blocks) ==
        LET places == IF st.p = <<>> THEN 0 ELSE Len(st.p[1].a)
        IN  [out |-> Append(a.pre,
                       [st EXCEPT !.p = [i \in DOMAIN @ |-> [@[i] EXCEPT !.a = SubSeq(a.xs, 1, places)]],
                                  !.e = IF st.k = "while" THEN @ ELSE SubSeq(a.xs, places + 1, Len(a.xs)),
                                  !.b = blocks.out]),
             s |-> blocks.s]
      AndBlocks(st, a, active) == Rebuilt(st, a, Blocks(st.b, a.s, active))
      \* A call for its effect becomes the body.  The condition of a while is
      \* evaluated every round and stays; what an if or an assignment needs
      \* goes before it.
      ExpandStmt(st, s, active) ==
        LET x == st.e[1]
            f == FunctionByName(fns, x.n)
        IN  CASE st.k = "expr" /\ x.k = "call" /\ x.n \in approved /\ IsVoid(x) ->
                   IF Expandable(x, active)
                   THEN ExpandVoid(f, bind_arguments(f, x.a, s.next), s, active \cup {f.name})
                   ELSE [out |-> <<st>>, s |-> s]
              [] OTHER ->
                   AndBlocks(st, Exprs((IF st.p = <<>> THEN <<>> ELSE st.p[1].a)
                                         \o (IF st.k = "while" THEN <<>> ELSE st.e), s, active), active)
      AndStmts(first, block, active) ==
        LET Joined(rest) == [out |-> first.out \o rest.out, s |-> rest.s]
        IN  Joined(ExpandStmts(block, first.s, active))
      ExpandStmts(block, s, active) ==
        IF block = <<>> THEN [out |-> <<>>, s |-> s]
        ELSE AndStmts(ExpandStmt(Head(block), s, active), Tail(block), active)
      AndMore(first, blocks, active) ==
        LET Joined(rest) == [out |-> <<first.out>> \o rest.out, s |-> rest.s]
        IN  Joined(Blocks(blocks, first.s, active))
      Blocks(blocks, s, active) ==
        IF blocks = <<>> THEN [out |-> <<>>, s |-> s]
        ELSE AndMore(ExpandStmts(Head(blocks), s, active), Tail(blocks), active)

      RECURSIVE Bodies(_, _)
      AndBodies(i, body) ==
        LET Joined(rest) == [rest EXCEPT !.fns = <<[fns[i] EXCEPT !.body = body.out]>> \o @]
        IN  Joined(Bodies(i + 1, body.s))
      Bodies(i, s) ==
        IF i > Len(fns) THEN [fns |-> <<>>, any |-> s.any]
        ELSE AndBodies(i, ExpandStmts(fns[i].body, s, {}))
  IN  Bodies(1, [next |-> 0, any |-> FALSE])

ApprovedNames(fns) == {f.name : f \in {f \in ToSet(fns) : Approved(f, fns)}}

\* Every call expanded; any tells whether there was one.
ExpandCalls(fns) == Expansion(fns, ApprovedNames(fns))

===============================================================================

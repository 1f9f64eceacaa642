----------------------------- MODULE TbirMeaning -----------------------------
(***************************************************************************)
(* What a program of TbirSyntax does when it runs: the reference the       *)
(* rewritten program is compared with.  It is the language's promise and   *)
(* translates no code of the optimiser: operands and arguments are         *)
(* evaluated once from left to right, && and || stop early, integers wrap  *)
(* at their declared width, a division by zero is zero, the right shift of *)
(* a signed value keeps the sign, a cast to bool is whether it is nonzero. *)
(*                                                                         *)
(* A program is [fns |-> a sequence of functions, globals |-> the cells of *)
(* every global, objects |-> what each global is].  A variable is a        *)
(* [t, cells] record with one cell, or several for a global array; a       *)
(* pointer is the name of the variable it points to.  Every access of a    *)
(* volatile object is seen, like port traffic.  Fuel bounds the calls and  *)
(* the loop rounds of a run; one that needs more is stuck.                 *)
(***************************************************************************)
EXTENDS TbirSyntax

Var(t, cells) == [t |-> t, cells |-> cells]

FunctionNamed(P, name) ==
  P.fns[CHOOSE i \in DOMAIN P.fns : P.fns[i].name = name]

---------------------------------------------------------------------------
\* Variables: those of the running function hide the globals; a pointer may
\* also lead into the frame of a caller.

Top(s) == s.fr[Len(s.fr)]

FrameOf(s, name) ==
  LET holding == {i \in DOMAIN s.fr : name \in DOMAIN s.fr[i]}
  IN  IF holding = {} THEN 0 ELSE CHOOSE i \in holding : \A j \in holding : j <= i

Local(s, name) == name \in DOMAIN Top(s)

Read(s, name, i, through) ==
  CASE Local(s, name) -> Top(s)[name].cells[i]
    [] name \in DOMAIN s.mem -> s.mem[name].cells[i]
    [] OTHER -> IF through THEN s.fr[FrameOf(s, name)][name].cells[i] ELSE 0

TypeOf(s, name) ==
  CASE Local(s, name) -> Top(s)[name].t
    [] name \in DOMAIN s.mem -> s.mem[name].t
    [] OTHER -> s.fr[FrameOf(s, name)][name].t

Write(s, name, i, v) ==
  LET value == Wrap(TypeOf(s, name), v)
  IN  CASE Local(s, name) -> [s EXCEPT !.fr[Len(s.fr)][name].cells[i] = value]
        [] name \in DOMAIN s.mem -> [s EXCEPT !.mem[name].cells[i] = value]
        [] OTHER -> [s EXCEPT !.fr[FrameOf(s, name)][name].cells[i] = value]

\* What the outside sees of an access.
Noted(P, s, what, name, i) ==
  IF ~Local(s, name) /\ name \in DOMAIN P.objects /\ P.objects[name] # "plain"
  THEN [s EXCEPT !.out = Append(@, <<what, name, i>>)] ELSE s

Declare(s, name, t, v) ==
  LET frame == Top(s)
      cell == Var(t, <<Wrap(t, v)>>)
  IN  [s EXCEPT !.fr[Len(s.fr)] =
         [n \in DOMAIN frame \cup {name} |-> IF n = name THEN cell ELSE frame[n]]]

---------------------------------------------------------------------------
\* Running.  sig is "next", "break", "continue", "return" or "stuck".

Result(v, t, s) == [v |-> v, t |-> t, s |-> s]

Burn(s) == IF s.fuel = 0 THEN [s EXCEPT !.sig = "stuck"] ELSE [s EXCEPT !.fuel = @ - 1]

Stuck(s) == s.sig = "stuck"

RECURSIVE Eval(_, _, _), EvalArgs(_, _, _, _), Exec(_, _, _), ExecStmt(_, _, _), Rounds(_, _, _)

EvalArgs(P, args, s, done) ==
  IF args = <<>> THEN [vs |-> done, s |-> s]
  ELSE LET r == Eval(P, Head(args), s)
       IN  EvalArgs(P, Tail(args), r.s, Append(done, r.v))

Invoke(P, f, args, s) ==
  LET given == EvalArgs(P, args, s, <<>>)
      frame == [n \in ParamNames(f) |->
                  LET i == CHOOSE i \in DOMAIN f.params : f.params[i].n = n
                  IN  Var(f.params[i].t, <<Wrap(f.params[i].t, given.vs[i])>>)]
      fresh == Burn(given.s)
      entered == [fresh EXCEPT !.fr = Append(@, frame),
                               !.deep = IF Len(fresh.fr) + 1 > @ THEN Len(fresh.fr) + 1 ELSE @]
      left == Exec(P, f.body, entered)
  IN  IF Stuck(fresh) THEN Result(0, f.ret, fresh)
      ELSE Result(IF left.sig = "return" THEN Wrap(f.ret, left.val) ELSE 0, f.ret,
                  [left EXCEPT !.fr = SubSeq(@, 1, Len(@) - 1),
                               !.sig = IF Stuck(left) THEN "stuck" ELSE "next"])

Eval(P, x, s) ==
  CASE x.k = "int"   -> Result(x.v, "", s)
    [] x.k = "typed" -> Result(Wrap(x.t, x.v), x.t, s)
    [] x.k = "bool"  -> Result(x.v, "bool", s)
    [] x.k = "ident" -> Result(Read(s, x.n, 1, FALSE), TypeOf(s, x.n), Noted(P, s, "load", x.n, 1))
    [] x.k = "addr"  -> Result(x.n, "ptr", s)
    [] x.k = "index" -> LET i == Eval(P, x.a[1], s)
                        IN  Result(Read(i.s, x.n, i.v + 1, FALSE), TypeOf(i.s, x.n),
                                   Noted(P, i.s, "load", x.n, i.v + 1))
    [] x.k = "deref" -> LET p == Eval(P, x.a[1], s)
                        IN  Result(Read(p.s, p.v, 1, TRUE), TypeOf(p.s, p.v), p.s)
    [] x.k = "in"    -> Result(s.tick, "u8", [s EXCEPT !.tick = @ + 1,
                                                        !.out = Append(@, <<"in", x.n, s.tick>>)])
    [] x.k = "cast"  ->
         LET r == Eval(P, x.a[1], s)
         IN  Result(IF x.t = "bool" THEN Bit(r.v # 0) ELSE Wrap(x.t, r.v), x.t, r.s)
    [] x.k = "call"  -> Invoke(P, FunctionNamed(P, x.n), x.a, s)
    [] x.k = "unary" ->
         LET r == Eval(P, x.a[1], s)
         IN  Result(CASE x.n = "-" -> Wrap(r.t, -r.v)
                      [] x.n = "~" -> Wrap(r.t, -r.v - 1)
                      [] x.n = "!" -> 1 - r.v, r.t, r.s)
    [] x.k = "binary" ->
         LET l == Eval(P, x.a[1], s)
             skip == \/ x.n = "&&" /\ l.v = 0
                     \/ x.n = "||" /\ l.v # 0
             r == Eval(P, x.a[2], l.s)
             t == IF l.t # "" THEN l.t ELSE r.t
         IN  CASE x.n \in {"&&", "||"} -> IF skip THEN l ELSE Result(r.v, "bool", r.s)
               [] x.n \in Comparisons -> Result(Bit(Compare(x.n, l.v, r.v)), "bool", r.s)
               [] OTHER -> Result(Arith(x.n, t, l.v, r.v), t, r.s)

\* An assignment evaluates its place, then its value, then writes.
ExecAssign(P, st, s) ==
  LET place == st.p[1]
      at == IF place.k = "ident" THEN Result(1, "", s) ELSE Eval(P, place.a[1], s)
      name == IF place.k = "deref" THEN at.v ELSE place.n
      cell == IF place.k = "index" THEN at.v + 1 ELSE 1
      r == Eval(P, st.e[1], at.s)
      v == IF st.n = "set" THEN r.v
           ELSE Arith(st.n, TypeOf(r.s, name), Read(r.s, name, cell, TRUE), r.v)
  IN  Noted(P, Write(r.s, name, cell, v), "store", name, cell)

\* A while loop, or with no condition a loop.
Rounds(P, st, s) ==
  LET test == IF st.e = <<>> THEN Result(1, "bool", s) ELSE Eval(P, st.e[1], s)
      round == Exec(P, st.b[1], Burn(test.s))
  IN  CASE Stuck(test.s) -> test.s
        [] ~Stuck(test.s) /\ test.v = 0 -> test.s
        [] ~Stuck(test.s) /\ test.v # 0 ->
             CASE round.sig = "break" -> [round EXCEPT !.sig = "next"]
               [] round.sig \in {"return", "stuck"} -> round
               [] OTHER -> Rounds(P, st, [round EXCEPT !.sig = "next"])

ExecStmt(P, st, s) ==
  CASE st.k = "let" -> LET r == Eval(P, st.e[1], s) IN Declare(r.s, st.n, st.t, r.v)
    [] st.k = "assign" -> ExecAssign(P, st, s)
    [] st.k = "if" -> LET c == Eval(P, st.e[1], s)
                      IN  Exec(P, IF c.v # 0 THEN st.b[1] ELSE st.b[2], c.s)
    [] st.k \in {"while", "loop"} -> Rounds(P, st, s)
    [] st.k = "out" -> LET r == Eval(P, st.e[1], s)
                       IN  [r.s EXCEPT !.out = Append(@, <<"out", st.n, r.v>>)]
    [] st.k = "expr" -> Eval(P, st.e[1], s).s
    [] st.k = "return" ->
         IF st.e = <<>> THEN [s EXCEPT !.sig = "return"]
         ELSE LET r == Eval(P, st.e[1], s)
              IN  IF Stuck(r.s) THEN r.s ELSE [r.s EXCEPT !.sig = "return", !.val = r.v]
    [] st.k \in {"break", "continue"} -> [s EXCEPT !.sig = st.k]

Exec(P, block, s) ==
  IF block = <<>> \/ s.sig # "next" THEN s
  ELSE Exec(P, Tail(block), ExecStmt(P, Head(block), s))

\* What running entry with these arguments shows: the port traffic in order,
\* the globals it leaves and its result; deep is the deepest call chain.
Run(P, entry, args, fuel) ==
  LET s0 == [mem |-> P.globals, fr |-> << <<>> >>, out |-> <<>>, tick |-> 1, fuel |-> fuel,
             deep |-> 1, sig |-> "next", val |-> 0]
      r == Eval(P, Call(entry, [i \in DOMAIN args |-> IntLit(args[i])]), s0)
  IN  [stuck |-> Stuck(r.s), out |-> r.s.out, mem |-> r.s.mem, result |-> r.v, deep |-> r.s.deep]

===============================================================================

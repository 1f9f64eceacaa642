------------------------------ MODULE TbirLoops ------------------------------
(***************************************************************************)
(* Loop-invariant motion of src/tbir/optimize.rs, for pure values and for  *)
(* reads of named memory.  Both walk a function the same way: a let at the *)
(* top of a loop body whose value may move is computed once before the     *)
(* loop, under a fresh name the let then reads.  They differ in what may   *)
(* move.                                                                   *)
(*                                                                         *)
(* objects maps each memory object of the program to what it is: "plain"   *)
(* is a global in a known region that can be read and written and is not   *)
(* volatile; "volatile" and "mmio" are the others the programs use.        *)
(***************************************************************************)
EXTENDS TbirSyntax, TLC

\* The first number from n on whose name is free.
NextFree(prefix, used, n) ==
  CHOOSE m \in n .. n + Cardinality(used) :
    /\ prefix \o ToString(m) \notin used
    /\ \A k \in n .. m - 1 : prefix \o ToString(k) \in used

\* One function's body with every value that May move moved.  May is given the
\* value, the loop body it is in, and the names visible before the loop.
HoistFunction(prefix, May(_, _, _), f) ==
  LET used == ParamNames(f) \cup collect_local_names(f.body)
      RECURSIVE Block(_, _, _), Lets(_, _, _, _)
      \* The lets of a loop body: what moves before the loop, and what stays.
      Lets(rest, body, external, next) ==
        IF rest = <<>> THEN [preheader |-> <<>>, body |-> <<>>, next |-> next]
        ELSE
          LET st == Head(rest)
              moves == st.k = "let" /\ May(st.e[1], body, external)
              number == NextFree(prefix, used, next)
              temp == prefix \o ToString(number)
              after == Lets(Tail(rest), body, external, IF moves THEN number + 1 ELSE next)
          IN  IF moves
              THEN [after EXCEPT !.preheader = <<Let(temp, st.t, st.e[1])>> \o @,
                                 !.body = <<[st EXCEPT !.e = <<Ident(temp)>>]>> \o @]
              ELSE [after EXCEPT !.body = <<st>> \o @]
      \* A block: a loop is preceded by what moves out of it, and its body is
      \* then walked for the loops inside.
      Block(block, visible, next) ==
        IF block = <<>> THEN [out |-> <<>>, next |-> next]
        ELSE
          LET st == Head(block)
              hoisted == Lets(st.b[1], st.b[1], visible, next)
              inner == Block(hoisted.body, visible \cup collect_local_names(st.b[1]), hoisted.next)
              then == Block(st.b[1], visible, next)
              else == Block(st.b[2], visible, then.next)
              done ==
                CASE st.k \in {"while", "loop"} ->
                       [out |-> Append(hoisted.preheader, [st EXCEPT !.b = <<inner.out>>]),
                        next |-> inner.next]
                  [] st.k = "if" -> [out |-> <<[st EXCEPT !.b = <<then.out, else.out>>]>>,
                                     next |-> else.next]
                  [] OTHER -> [out |-> <<st>>, next |-> next]
              after == Block(Tail(block),
                             IF st.k = "let" THEN visible \cup {st.n} ELSE visible, done.next)
          IN  [after EXCEPT !.out = done.out \o @]
  IN  [f EXCEPT !.body = Block(@, ParamNames(f), 0).out]

\* The scalars a moved value reads are there before the loop and stay as they are.
ScalarsUnchanged(names, body, external) ==
  /\ names \cap collect_assigned_names(body) = {}
  /\ names \cap collect_local_names(body) = {}
  /\ names \subseteq external

---------------------------------------------------------------------------
\* Pure values

MayHoistPure(x, body, external) ==
  /\ is_cse_candidate(x)
  /\ \A i \in DOMAIN body : ~stmt_contains_loop_exit(body[i])
  /\ ScalarsUnchanged(collect_scalar_dependencies(x), body, external)

PureTemp == "__tbir_licm_"

hoist_pure_loop_invariants_program(fns) ==
  [i \in DOMAIN fns |-> HoistFunction(PureTemp, MayHoistPure, fns[i])]

---------------------------------------------------------------------------
\* Reads of named memory

\* The objects a value reads, and the scalars.
Roots(x, objects) ==
  {y.n : y \in {y \in SubExprs(x) : y.k = "index" \/ (y.k = "ident" /\ y.n \in DOMAIN objects)}}

Scalars(x, objects) ==
  {y.n : y \in {y \in SubExprs(x) : y.k = "ident" /\ y.n \notin DOMAIN objects}}

\* Only literals, scalars, operators and reads of plain objects, at least one.
analyze_memory_initializer(x, objects) ==
  /\ Roots(x, objects) # {}
  /\ \A n \in Roots(x, objects) : n \in DOMAIN objects /\ objects[n] = "plain"
  /\ \A y \in SubExprs(x) : y.k \notin {"addr", "deref", "call", "in"}

collect_named_writes(body) ==
  {s.p[1].n : s \in {s \in StmtsIn(body) : s.k = "assign" /\ s.p[1].k \in {"ident", "index"}}}

place_is_unknown_write(p, objects) ==
  p.k = "deref" \/ (p.k = "index" /\ p.n \notin DOMAIN objects)

\* The expressions the barrier looks at: it stops at an index or a call.
RECURSIVE Surface(_)
Surface(x) ==
  {x} \cup IF x.k \in {"unary", "binary", "cast"}
           THEN UNION {Surface(x.a[i]) : i \in DOMAIN x.a} ELSE {}

memory_expr_barrier(x, objects) ==
  \E y \in Surface(x) :
    \/ y.k \in {"call", "in", "deref", "addr"}
    \/ y.k \in {"ident", "index"} /\ y.n \in DOMAIN objects /\ objects[y.n] = "mmio"

\* Something in the loop body that may change memory out of sight.  The
\* condition of the loop itself is no part of its body.
memory_loop_barrier(body, objects) ==
  \E s \in StmtsIn(body) :
    \/ terminates(s)
    \/ s.k = "out"
    \/ s.k = "assign" /\ place_is_unknown_write(s.p[1], objects)
    \/ \E i \in DOMAIN s.e : memory_expr_barrier(s.e[i], objects)

MayHoistRead(x, body, external, objects) ==
  /\ analyze_memory_initializer(x, objects)
  /\ ~memory_loop_barrier(body, objects)
  /\ ScalarsUnchanged(Scalars(x, objects), body, external)
  /\ Roots(x, objects) \cap collect_named_writes(body) = {}

ReadTemp == "__tbir_mem_licm_"

hoist_named_memory_reads_program(fns, objects) ==
  [i \in DOMAIN fns |->
     HoistFunction(ReadTemp, LAMBDA x, body, external : MayHoistRead(x, body, external, objects),
                   fns[i])]

===============================================================================

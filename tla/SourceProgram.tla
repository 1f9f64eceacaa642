--------------------------- MODULE SourceProgram ----------------------------
(***************************************************************************)
(* The statements of a function body (src/src/ast.rs), as far as register  *)
(* allocation can tell them apart: their control structure, and which      *)
(* names their expressions and places touch.                               *)
(*                                                                         *)
(* A program is [locals, body, clobbers]: the locals in the order the      *)
(* emitter lists them, the statements, and the registers a call may        *)
(* destroy.  A statement is a record whose op says which fields it has:    *)
(*    let       value, names           (LetTwo has two names)              *)
(*    assign    value, place, via, compound, partial                       *)
(*    expr      value                  (Out is an expr)                    *)
(*    asm       inputs, outputs                                            *)
(*    if        value, then, else                                          *)
(*    while     value, body                                                *)
(*    loop      body                                                       *)
(*    return    values                 (none, one, or ReturnTwo's two)     *)
(*    break, continue                                                      *)
(* A place is the set of its root name, or {} for one behind a pointer;    *)
(* via is the expression of its indices or of the pointer.                 *)
(***************************************************************************)
EXTENDS Integers, Sequences

(***************************************************************************)
(* An expression: the names it reads, those whose address it takes, whether*)
(* it calls a function, whether it reads through a pointer.                *)
(***************************************************************************)
Const == [reads |-> {}, addressed |-> {}, calls |-> FALSE, derefs |-> FALSE]

Exprs(s) ==
  CASE s.op \in {"let", "expr", "if", "while"} -> {s.value}
    [] s.op = "assign" -> {s.value, s.via}
    [] s.op = "return" -> s.values
    [] OTHER           -> {}

Calls(s)     == \E e \in Exprs(s) : e.calls
Derefs(s)    == \E e \in Exprs(s) : e.derefs
Addressed(s) == UNION {e.addressed : e \in Exprs(s)}

Read(s) ==
  UNION {e.reads : e \in Exprs(s)} \cup
  CASE s.op = "assign" /\ s.compound -> s.place
    [] s.op = "asm"                  -> s.inputs
    [] OTHER                         -> {}

Written(s) ==
  CASE s.op = "let"    -> s.names
    [] s.op = "assign" -> s.place
    [] s.op = "asm"    -> s.outputs
    [] OTHER           -> {}

\* The locals among names; other names are globals and are ignored.
Locals(p, names) == {v \in DOMAIN p.locals : p.locals[v].name \in names}
=============================================================================

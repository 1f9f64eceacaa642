--------------------------- MODULE SourceLowering ---------------------------
(***************************************************************************)
(* lower_source_function (src/src/regalloc/source.rs): from the statements *)
(* of a function body to the allocator's blocks and instructions, with the *)
(* demands that addresses, calls and inline assembly make on its locals.   *)
(***************************************************************************)
EXTENDS SourceProgram, RegAllocIR, SequencesExt

(***************************************************************************)
(* build_mappings and validate_loop_control.  Every statement inside a loop*)
(* has a loop to leave, so the check need not look there.                  *)
(***************************************************************************)
NamesDistinct(p) ==
  \A v, w \in DOMAIN p.locals : p.locals[v].name = p.locals[w].name => v = w

RECURSIVE LoopControlValid(_)
LoopControlValid(list) ==
  \A k \in DOMAIN list :
    /\ list[k].op \notin {"break", "continue"}
    /\ list[k].op = "if" =>
         LoopControlValid(list[k].then) /\ LoopControlValid(list[k].else)

BodyAccepted(p) == NamesDistinct(p) /\ LoopControlValid(p.body)

-----------------------------------------------------------------------------
(***************************************************************************)
(* The effects of one statement.                                           *)
(***************************************************************************)
IsOpaque(s) == Calls(s) \/ s.op = "asm"

Uses(p, s) == Locals(p, Read(s) \cup Addressed(s))
Defs(p, s) == Locals(p, Written(s))

Effect(p, s) ==
  [uses |-> Uses(p, s), defs |-> Defs(p, s), fixed_uses |-> {}, fixed_defs |-> {},
   clobbers |-> IF IsOpaque(s) THEN p.clobbers ELSE {}, copies |-> << >>]

(***************************************************************************)
(* The locals an opaque statement forces to memory: it may need them on    *)
(* both sides of the call.  What a let defines, it defines after the call. *)
(***************************************************************************)
\* Mutant: only inline assembly forces its locals to memory.
OpaqueLocalsAsmOnly(p, s) == IF s.op = "asm" THEN Uses(p, s) \cup Defs(p, s) ELSE {}

OpaqueLocals(p, s) ==
  IF ~IsOpaque(s) THEN {}
  ELSE IF s.op = "let" THEN Uses(p, s) ELSE Uses(p, s) \cup Defs(p, s)

-----------------------------------------------------------------------------
(***************************************************************************)
(* The Builder, and the block the next statement goes to: none after a     *)
(* statement that does not fall through.                                   *)
(***************************************************************************)
None == 0
EmptyBlock == [code |-> << >>, succs |-> {}]

PushInstruction(p, bld, s) ==
  [bld EXCEPT !.blocks[bld.at].code = Append(@, Effect(p, s)),
              !.address_taken = @ \cup Locals(p, Addressed(s)),
              !.opaque_locals = @ \cup OpaqueLocals(p, s)]

NewBlocks(bld, n) == [bld EXCEPT !.blocks = @ \o [k \in 1..n |-> EmptyBlock]]

AddSuccessor(bld, from, to) ==
  IF from = None THEN bld ELSE [bld EXCEPT !.blocks[from].succs = @ \cup {to}]

At(bld, block) == [bld EXCEPT !.at = block]

\* Mutant: an if is left only when both its branches fall through.
AfterIfBoth(then_end, else_end, join) ==
  IF then_end = None \/ else_end = None THEN None ELSE join

AfterIf(then_end, else_end, join) ==
  IF then_end = None /\ else_end = None THEN None ELSE join

RECURSIVE LowerStatement(_, _, _, _)
LowerStatements(p, list, targets, bld) ==
  FoldLeft(LAMBDA b, s : IF b.at = None THEN b ELSE LowerStatement(p, s, targets, b),
           bld, list)

(***************************************************************************)
(* lower_statement.  The condition of a while goes to the block at hand,   *)
(* and that block is what the end of the body and a continue lead back to. *)
(***************************************************************************)
LowerStatement(p, s, targets, bld) ==
  LET here  == bld.at
      fresh == Len(bld.blocks) + 1
  IN
  CASE s.op \in {"let", "assign", "expr", "asm"} -> PushInstruction(p, bld, s)
    [] s.op = "if" ->
         LET join   == fresh + 2
             forked == AddSuccessor(AddSuccessor(
                         NewBlocks(PushInstruction(p, bld, s), 3),
                         here, fresh), here, fresh + 1)
             then   == LowerStatements(p, s.then, targets, At(forked, fresh))
             else   == LowerStatements(p, s.else, targets, At(then, fresh + 1))
         IN  At(AddSuccessor(AddSuccessor(else, then.at, join), else.at, join),
                AfterIf(then.at, else.at, join))
    [] s.op = "while" ->
         LET after  == fresh + 1
             forked == AddSuccessor(AddSuccessor(
                         NewBlocks(PushInstruction(p, bld, s), 2),
                         here, fresh), here, after)
             body   == LowerStatements(p, s.body,
                         [break |-> after, continue |-> here], At(forked, fresh))
         IN  At(AddSuccessor(body, body.at, here), after)
    [] s.op = "loop" ->
         LET after  == fresh + 1
             inside == AddSuccessor(NewBlocks(bld, 2), here, fresh)
             body   == LowerStatements(p, s.body,
                         [break |-> after, continue |-> fresh], At(inside, fresh))
         IN  At(AddSuccessor(body, body.at, fresh), after)
    [] s.op \in {"break", "continue"} ->
         At(AddSuccessor(bld, here, targets[s.op]), None)
    [] s.op = "return" ->
         At(IF s.values = {} THEN bld ELSE PushInstruction(p, bld, s), None)

-----------------------------------------------------------------------------
(***************************************************************************)
(* The function handed to allocate.                                        *)
(***************************************************************************)
\* Mutant: memory of a local whose address was taken may be reused.
LoweredLocalShared(p, bld, v) ==
  LET local == p.locals[v]
  IN  [size |-> local.size, alignment |-> local.alignment, class |-> local.class,
       must_spill |-> \/ local.force_memory
                      \/ v \in bld.address_taken \cup bld.opaque_locals,
       reusable |-> TRUE,
       spill_classes |-> local.spill_classes]

LoweredLocal(p, bld, v) ==
  LET local == p.locals[v]
  IN  [size |-> local.size, alignment |-> local.alignment, class |-> local.class,
       must_spill |-> \/ local.force_memory
                      \/ v \in bld.address_taken \cup bld.opaque_locals,
       reusable |-> v \notin bld.address_taken,
       spill_classes |-> local.spill_classes]

Lowered(p) ==
  LET start == [blocks |-> <<EmptyBlock>>, address_taken |-> {},
                opaque_locals |-> {}, at |-> 1]
      bld   == LowerStatements(p, p.body, << >>, start)
  IN  [vregs |-> [v \in DOMAIN p.locals |-> LoweredLocal(p, bld, v)],
       blocks |-> bld.blocks]
=============================================================================

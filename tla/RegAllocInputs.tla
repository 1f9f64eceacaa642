--------------------------- MODULE RegAllocInputs ---------------------------
(***************************************************************************)
(* Small inputs for the model-checking modules of the register allocator:  *)
(* instructions, virtual registers and control-flow graphs.                *)
(***************************************************************************)
EXTENDS RegAllocIR

Plain == [uses |-> {}, defs |-> {}, fixed_uses |-> {}, fixed_defs |-> {},
          clobbers |-> {}, copies |-> << >>]

Use(v)       == [Plain EXCEPT !.uses = {v}]
Def(v)       == [Plain EXCEPT !.defs = {v}]
UseDef(u, d) == [Plain EXCEPT !.uses = {u}, !.defs = {d}]
Copy(u, d)   == [Plain EXCEPT !.copies = <<<<u, d>>>>]
Clobber(r)   == [Plain EXCEPT !.clobbers = {r}]
FixedUse(v, r) == [Plain EXCEPT !.fixed_uses = {<<v, r>>}]
FixedDef(v, r) == [Plain EXCEPT !.fixed_defs = {<<v, r>>}]

Value(class) == [size |-> 1, alignment |-> 1, class |-> class,
                 must_spill |-> FALSE, reusable |-> TRUE, spill_classes |-> {}]

(***************************************************************************)
(* Control-flow graphs: the successors of each block.                      *)
(***************************************************************************)
Straight    == <<{2}, {3}, {}>>
Diamond     == <<{2, 3}, {4}, {4}, {}>>
WhileLoop   == <<{2}, {3, 4}, {2}, {}>>
SelfLoop    == <<{2}, {2, 3}, {}>>
NestedLoop  == <<{2}, {3, 4}, {3, 2}, {}>>
Irreducible == <<{2, 3}, {3, 4}, {2}, {}>>
DeadBlock   == <<{3}, {3}, {}>>
LateEntry   == <<{4}, {1, 3}, {}, {2}>>     \* laid out against the flow

(***************************************************************************)
(* Every function over one graph whose blocks take their code from Codes.  *)
(***************************************************************************)
FunctionsOver(graph, Codes, vregs) ==
  {[vregs |-> vregs,
    blocks |-> [b \in DOMAIN graph |-> [code |-> code[b], succs |-> graph[b]]]] :
     code \in [DOMAIN graph -> Codes]}
=============================================================================

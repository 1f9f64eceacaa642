---------------------------- MODULE MCAllocator -----------------------------
(***************************************************************************)
(* Allocation for a machine with two byte registers and the word register  *)
(* that is their pair, and two spill areas.  U32Max = 16 is the layout of  *)
(* eight instructions and the end of the open area.                        *)
(***************************************************************************)
EXTENDS Allocator, RegAllocInputs

\* Registers 1 and 2 cover one unit each, register 3 covers both.
MCTarget ==
  [units |-> 2,
   registers |-> <<{1}, {2}, {1, 2}>>,
   classes |-> <<<<1, 2>>, <<3>>, << >>>>,      \* byte, word, memory only
   spills |->
     <<[capacity |-> NoLimit, base_alignment |-> 1, cost |-> 1,
        register_classes |-> {}],
       [capacity |-> 2, base_alignment |-> 1, cost |-> 0,
        register_classes |-> {1, 2}]>>]

MCTargets == {MCTarget}

Word      == [Value(2) EXCEPT !.size = 2, !.alignment = 2]
Aggregate == [Value(2) EXCEPT !.size = 9, !.alignment = 8]
Escaping  == [Value(1) EXCEPT !.must_spill = TRUE, !.reusable = FALSE]

\* Two bytes and a word; a byte whose address escapes, one bound to memory and
\* an aggregate; a word that may only spill to the small area, where a byte
\* already is; values of growing alignment that all live in memory.
MCVRegTables ==
  {<<Value(1), Value(1), Word>>,
   <<Escaping, [Escaping EXCEPT !.reusable = TRUE], Aggregate>>,
   <<[Escaping EXCEPT !.reusable = TRUE], Value(3),
     [Word EXCEPT !.spill_classes = {2}]>>,
   <<Value(3), Value(3), [Word EXCEPT !.class = 3]>>}

MCCodes ==
  {<<Def(1), Def(2)>>, <<Def(3), Use(1)>>, <<Use(3), Clobber(2)>>,
   <<Copy(1, 2), Use(2)>>, <<FixedDef(1, 2), Use(1)>>}

\* A function that fixes a byte to two registers, one that is longer than
\* the program points allow, one that fixes a value bound to memory, one that
\* names a register it does not have and one that goes to such a block.
MCOddFunctions ==
  {[vregs |-> <<Value(1)>>,
    blocks |-> <<[code |-> <<FixedDef(1, 1), FixedUse(1, 2)>>, succs |-> {}]>>],
   [vregs |-> <<Value(1)>>,
    blocks |-> <<[code |-> [i \in 1..9 |-> Use(1)], succs |-> {1}]>>],
   [vregs |-> <<Escaping>>,
    blocks |-> <<[code |-> <<FixedDef(1, 1)>>, succs |-> {}]>>],
   [vregs |-> <<Value(1)>>,
    blocks |-> <<[code |-> <<Use(2)>>, succs |-> {}]>>],
   [vregs |-> <<Value(1)>>,
    blocks |-> <<[code |-> <<Def(1)>>, succs |-> {2}]>>]}

(***************************************************************************)
(* Flow of every kind, for the liveness passes: two virtual registers and  *)
(* five code fragments over the other control-flow graphs.                 *)
(***************************************************************************)
MCFlowCodes ==
  {<< >>, <<Use(1)>>, <<Def(2), Use(1)>>, <<Copy(1, 2)>>, <<Use(2), Copy(2, 1)>>}

MCFlows ==
  UNION {FunctionsOver(graph, MCFlowCodes, <<Value(1), Value(1)>>) :
    graph \in {Diamond, WhileLoop, NestedLoop, Irreducible, DeadBlock}}

MCFunctions ==
  MCOddFunctions \cup MCFlows \cup
  UNION {FunctionsOver(graph, MCCodes, vregs) :
    graph \in {Straight, SelfLoop, LateEntry}, vregs \in MCVRegTables}
=============================================================================

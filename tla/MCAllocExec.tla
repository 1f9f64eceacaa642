---------------------------- MODULE MCAllocExec -----------------------------
(***************************************************************************)
(* Loops and merges run on two byte registers, their pair, and memory.     *)
(***************************************************************************)
EXTENDS AllocExec, RegAllocInputs

MCTargets ==
  {[units |-> 2,
    registers |-> <<{1}, {2}, {1, 2}>>,
    classes |-> <<<<1, 2>>, <<3>>>>,
    spills |-> <<[capacity |-> NoLimit, base_alignment |-> 1, cost |-> 1,
                  register_classes |-> {}]>>]}

MCVRegTables ==
  {<<Value(1), Value(1), Value(2)>>,
   <<Value(1), [Value(1) EXCEPT !.must_spill = TRUE],
     [Value(2) EXCEPT !.must_spill = TRUE]>>}

DefBoth(v, w) == [Plain EXCEPT !.defs = {v, w}]

MCCodes ==
  {<<DefBoth(1, 2)>>, <<UseDef(2, 3)>>, <<Clobber(1), UseDef(3, 3)>>,
   <<Copy(1, 2)>>, <<Copy(2, 1), Use(2)>>}

MCMergeCodes == {<<UseDef(2, 3)>>, <<DefBoth(1, 2)>>, <<Copy(2, 1), Use(2)>>}

MCFunctions ==
  UNION {FunctionsOver(SelfLoop, MCCodes, vregs) \cup
         FunctionsOver(Diamond, MCMergeCodes, vregs) : vregs \in MCVRegTables}
=============================================================================

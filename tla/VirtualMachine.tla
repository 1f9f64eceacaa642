--------------------------- MODULE VirtualMachine ---------------------------
(***************************************************************************)
(* What a function means to the front end: a machine with one storage cell *)
(* per virtual register, each big enough for its value.  An instruction    *)
(* reads all it uses, then defines; a copy moves a value, everything else  *)
(* computes some value.  obs is what the last instruction read: the        *)
(* behaviour an allocation must preserve.                                  *)
(***************************************************************************)
EXTENDS RegAllocIR

CONSTANTS Functions, Values

VARIABLES fn, pc, env, obs
vmVars == <<fn, pc, env, obs>>

\* pc = <<b, i>>: before instruction i of block b, or at its end.
AtInstr  == pc[1] \in Blocks(fn) /\ pc[2] \in DOMAIN Code(fn, pc[1])
AtExit   == pc[1] \in Blocks(fn) /\ pc[2] = Len(Code(fn, pc[1])) + 1
Current  == InstrAt(fn, pc)

IsCopied(ins, v) == \E copy \in Members(ins.copies) : copy[2] = v
CopiedFrom(ins, v) == (CHOOSE copy \in Members(ins.copies) : copy[2] = v)[1]

\* The value ins leaves in v, given what it reads and what it computes.
Result(ins, read, computed, v) ==
  IF IsCopied(ins, v) THEN read[CopiedFrom(ins, v)] ELSE computed[v]

VMInit ==
  /\ fn \in Functions
  /\ pc = <<1, 1>>
  /\ env \in [VRegs(fn) -> Values]
  /\ obs = << >>

VMExecute ==
  /\ AtInstr
  /\ obs' = [u \in AllUses(Current) |-> env[u]]
  /\ \E computed \in [AllDefs(Current) -> Values] :
       env' = [v \in VRegs(fn) |->
                IF v \in AllDefs(Current) THEN Result(Current, obs', computed, v)
                                          ELSE env[v]]
  /\ pc' = <<pc[1], pc[2] + 1>>
  /\ UNCHANGED fn

VMJump ==
  /\ AtExit
  /\ \E b \in Succs(fn, pc[1]) : pc' = <<b, 1>>
  /\ UNCHANGED <<fn, env, obs>>

VMSpec == VMInit /\ [][VMExecute \/ VMJump]_vmVars
=============================================================================

----------------------------- MODULE AllocExec ------------------------------
(***************************************************************************)
(* A function run on the storage its allocation gave it.  An instruction   *)
(* reads the cells of its operands, then its clobbers are destroyed, then  *)
(* it writes the cells of what it defines.  env runs the virtual machine   *)
(* beside it and is never read by the real one.                            *)
(***************************************************************************)
EXTENDS Storage

VARIABLES pc, env, obs, cells

VM == INSTANCE VirtualMachine

runVars  == <<pc, env, obs, cells>>
execVars == <<scanVars, runVars>>

ExecInit == AllocInit /\ VM!VMInit /\ cells = << >>

(***************************************************************************)
(* The caller has put the values live on entry where the allocation says.  *)
(***************************************************************************)
Enter ==
  /\ stage = "done"
  /\ Blocks(fn) # {}
  /\ stage' = "running"
  /\ cells' = Store([c \in AllCells |-> Junk], live_in[1], env)
  /\ UNCHANGED <<fn, live_in, live_out, cursor, changed, allocVars, pc, env, obs>>

Execute ==
  /\ stage = "running"
  /\ VM!AtInstr
  /\ LET ins == VM!Current
     IN  /\ obs' = [u \in AllUses(ins) |-> Fetch(cells, u)]
         /\ \E computed \in [AllDefs(ins) -> Values] :
              /\ cells' = Store(Clobbered(cells, ins.clobbers), AllDefs(ins),
                                [v \in AllDefs(ins) |->
                                   VM!Result(ins, obs', computed, v)])
              /\ env' = [v \in VRegs(fn) |->
                           IF v \in AllDefs(ins)
                           THEN VM!Result(ins, env, computed, v) ELSE env[v]]
  /\ pc' = <<pc[1], pc[2] + 1>>
  /\ UNCHANGED <<livenessVars, allocVars>>

Jump ==
  /\ stage = "running"
  /\ VM!AtExit
  /\ \E b \in Succs(fn, pc[1]) : pc' = <<b, 1>>
  /\ UNCHANGED <<livenessVars, allocVars, env, obs, cells>>

Allocate == AllocNext /\ UNCHANGED runVars

ExecNext == Allocate \/ Enter \/ Execute \/ Jump

ExecSpec == ExecInit /\ [][ExecNext]_execVars

-----------------------------------------------------------------------------

(***************************************************************************)
(* The promise of the whole allocator: on every path, whatever is stored,  *)
(* copied or clobbered on the way, the cells of a value that may still be  *)
(* used hold that value, all of it.                                        *)
(***************************************************************************)
LiveValuesIntact ==
  stage = "running" =>
    \A v \in VRegs(fn) :
      LiveBefore(v, pc[1], pc[2]) => \A c \in CellsOf(v) : cells[c] = env[v]

(***************************************************************************)
(* Hence the allocated function does what the virtual one does: each       *)
(* instruction reads the values it would read if every virtual register    *)
(* had a place of its own.                                                 *)
(***************************************************************************)
RunsLikeVirtualMachine == VM!VMSpec
=============================================================================

----------------------------- MODULE SourceExec -----------------------------
(***************************************************************************)
(* allocate_source_locals and what the emitters make of it: a function body*)
(* is lowered, its locals are allocated, and its statements run on the     *)
(* storage the locals got.                                                 *)
(***************************************************************************)
EXTENDS Storage, SourceLowering

CONSTANT Programs

VARIABLES prog, todo, escaped, env, obs, cells

Source == INSTANCE SourceMachine

bodyVars   == <<prog, todo, escaped, env, obs, cells>>
sourceVars == <<scanVars, bodyVars>>

\* The functions the allocator is given (Functions, for the model checker).
LoweredPrograms == {Lowered(p) : p \in {q \in Programs : BodyAccepted(q)}}

SourceInit ==
  /\ Source!MachineInit
  /\ BodyAccepted(prog)
  /\ AllocInit
  /\ fn = Lowered(prog)
  /\ cells = << >>

SourceEnter ==
  /\ stage = "done"
  /\ stage' = "running"
  /\ cells' = [c \in AllCells |-> Junk]
  /\ UNCHANGED <<fn, live_in, live_out, cursor, changed, allocVars,
                 prog, todo, escaped, env, obs>>

(***************************************************************************)
(* A statement runs.  Operands may be read on either side of a call; they  *)
(* are read here after it, where less is left of them.                     *)
(***************************************************************************)
CallClobbers(s) == IF IsOpaque(s) THEN prog.clobbers ELSE {}

Run ==
  /\ stage = "running"
  /\ Source!Advance
  /\ LET s    == Source!Current
         left == Clobbered(cells, CallClobbers(s))
     IN  /\ obs' = [u \in Source!Reads(s) |-> Fetch(left, u)]
         /\ \E W \in Source!WriteSets(s) : \E computed \in [W -> Values] :
              /\ env' = Source!Updated(env, W, computed)
              /\ cells' = Store(left, W, computed)
  /\ UNCHANGED scanVars

SourceNext == (AllocNext /\ UNCHANGED bodyVars) \/ SourceEnter \/ Run

SourceSpec == SourceInit /\ [][SourceNext]_sourceVars

-----------------------------------------------------------------------------
RunsNext == stage = "running" /\ todo # << >>

(***************************************************************************)
(* A local that the next statement may read, by name, through a pointer or *)
(* in what it calls, has kept the value it was last given, and the calls   *)
(* the statement itself makes do not destroy it: the module comments of    *)
(* regalloc.rs and source.rs promise this of every body.                   *)
(***************************************************************************)
ReadsIntact ==
  RunsNext =>
    \A u \in Source!Reads(Source!Current) : \A c \in CellsOf(u) :
      cells[c] = env[u] /\ c \notin Destroyed(CallClobbers(Source!Current))

(***************************************************************************)
(* Emitters fail on a local without a location: each local that a run gets *)
(* to name has one, so that only dead code can make them fail.             *)
(***************************************************************************)
ReachedLocalsPlaced ==
  RunsNext =>
    \A v \in Uses(prog, Source!Current) \cup Defs(prog, Source!Current) :
      loc[v] # Unused

(***************************************************************************)
(* Lowering never asks for the impossible: on a target whose open spill    *)
(* area takes every class, each accepted body is allocated.                *)
(***************************************************************************)
AlwaysAllocated == stage \notin AllocFailed

(***************************************************************************)
(* Each statement reads what it would read if every local had storage of   *)
(* its own.                                                                *)
(***************************************************************************)
RunsLikeSource == Source!MachineSpec
=============================================================================

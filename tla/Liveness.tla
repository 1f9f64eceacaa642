------------------------------ MODULE Liveness ------------------------------
(***************************************************************************)
(* analyze_liveness (src/src/regalloc.rs): backward dataflow by round-     *)
(* robin passes over the blocks, last block first, until a pass changes    *)
(* nothing.  One step recomputes one block, or closes a pass.              *)
(***************************************************************************)
EXTENDS RegAllocIR

CONSTANT Functions        \* the functions the analysis may be given

ASSUME FunctionsAssumption == Functions \subseteq Function

VARIABLES
  fn,          \* the function under analysis
  stage,       \* where the call is: see Stages
  live_in,     \* live_in[b], live_out[b]: sets of virtual registers
  live_out,
  cursor,      \* the block visited next; 0 when the pass is over
  changed      \* has this pass changed any set?

livenessVars == <<fn, stage, live_in, live_out, cursor, changed>>

LivenessStages == {"validate", "liveness", "live", "rejected"}

LivenessInit ==
  /\ fn \in Functions
  /\ stage = "validate"
  /\ live_in  = [b \in Blocks(fn) |-> {}]
  /\ live_out = [b \in Blocks(fn) |-> {}]
  /\ cursor = Len(fn.blocks)
  /\ changed = FALSE

ValidateShape ==
  /\ stage = "validate"
  /\ stage' = IF ShapeValid(fn) THEN "liveness" ELSE "rejected"
  /\ UNCHANGED <<fn, live_in, live_out, cursor, changed>>

\* Mutant: only the fall-through successor contributes.
NewOutOneSuccessor(b) ==
  UNION {live_in[c] : c \in {c \in Succs(fn, b) : \A d \in Succs(fn, b) : c <= d}}

NewOut(b) == UNION {live_in[c] : c \in Succs(fn, b)}

\* Mutant: a definition does not end the life of the old value.
NewInNoKill(b) == Gen(fn, b) \cup NewOut(b)

NewIn(b)  == Gen(fn, b) \cup (NewOut(b) \ Kill(fn, b))

\* Mutant: the flag forgets the earlier blocks of the pass.
DirtyForgetful(b) == NewOut(b) # live_out[b] \/ NewIn(b) # live_in[b]

Dirty(b) ==
  \/ changed
  \/ NewOut(b) # live_out[b]
  \/ NewIn(b)  # live_in[b]

VisitBlock ==
  /\ stage = "liveness"
  /\ cursor > 0
  /\ live_out' = [live_out EXCEPT ![cursor] = NewOut(cursor)]
  /\ live_in'  = [live_in  EXCEPT ![cursor] = NewIn(cursor)]
  /\ changed' = Dirty(cursor)
  /\ cursor' = cursor - 1
  /\ UNCHANGED <<fn, stage>>

\* Mutant: every pass starts again from empty sets.
NextPassForgets ==
  /\ stage = "liveness" /\ cursor = 0 /\ changed
  /\ cursor' = Len(fn.blocks)
  /\ changed' = FALSE
  /\ live_in' = [b \in Blocks(fn) |-> {}]
  /\ UNCHANGED <<fn, stage, live_out>>

NextPass ==
  /\ stage = "liveness"
  /\ cursor = 0
  /\ changed
  /\ cursor' = Len(fn.blocks)
  /\ changed' = FALSE
  /\ UNCHANGED <<fn, stage, live_in, live_out>>

\* Mutant: one pass is taken to be enough.
LivenessDoneEarly ==
  /\ stage = "liveness" /\ cursor = 0
  /\ stage' = "live"
  /\ UNCHANGED <<fn, live_in, live_out, cursor, changed>>

LivenessDone ==
  /\ stage = "liveness"
  /\ cursor = 0
  /\ ~changed
  /\ stage' = "live"
  /\ UNCHANGED <<fn, live_in, live_out, cursor, changed>>

LivenessNext == ValidateShape \/ VisitBlock \/ NextPass \/ LivenessDone

LivenessSpec ==
  /\ LivenessInit
  /\ [][LivenessNext]_livenessVars
  /\ WF_livenessVars(LivenessNext)

-----------------------------------------------------------------------------
(***************************************************************************)
(* Type correctness.  The analysis only ever names virtual registers and   *)
(* blocks of its function once validation has accepted it.                 *)
(***************************************************************************)
LivenessSetsOK ==
  /\ fn \in Function
  /\ live_in  \in [Blocks(fn) -> SUBSET VRegs(fn)]
  /\ live_out \in [Blocks(fn) -> SUBSET VRegs(fn)]
  /\ cursor \in 0..Len(fn.blocks)
  /\ changed \in BOOLEAN
  /\ stage = "liveness" => ShapeValid(fn)

LivenessTypeOK == stage \in LivenessStages /\ LivenessSetsOK

(***************************************************************************)
(* The dataflow equations of block b.                                      *)
(***************************************************************************)
Settled(b) ==
  /\ live_out[b] = NewOut(b)
  /\ live_in[b]  = NewIn(b)

(***************************************************************************)
(* Why a quiet pass is enough (analyze_liveness, the changed flag): while  *)
(* a pass has changed nothing, every block it has visited still satisfies  *)
(* its equations, although its successors are visited at other times.      *)
(***************************************************************************)
QuietPassSettles ==
  stage = "liveness" /\ ~changed =>
    \A b \in Blocks(fn) : b > cursor => Settled(b)

(***************************************************************************)
(* Analysed: analyze_liveness has returned its sets to the caller, which   *)
(* may since have gone on to stages of its own.                            *)
(***************************************************************************)
Analysed == stage \notin {"check", "validate", "liveness", "rejected"}

(***************************************************************************)
(* The result of analyze_liveness solves the dataflow equations of every   *)
(* block at once, loops and unreachable blocks included.                   *)
(***************************************************************************)
ResultSolvesEquations ==
  Analysed => \A b \in Blocks(fn) : Settled(b)

(***************************************************************************)
(* What liveness means, told without the passes: v is live into b when     *)
(* some path from b uses v before any definition of v, that is, when b is  *)
(* in every set of blocks that holds the blocks which use v first and is   *)
(* closed under going back over an edge into a block that leaves v alone.  *)
(***************************************************************************)
UseClosed(f, v, S) ==
  \A b \in Blocks(f) :
    \/ v \in Gen(f, b)
    \/ v \notin Kill(f, b) /\ Succs(f, b) \cap S # {}
    => b \in S

ReachesUse(f, b, v) ==
  \A S \in SUBSET Blocks(f) : UseClosed(f, v, S) => b \in S

(***************************************************************************)
(* During the passes no value is ever called live that no path can use     *)
(* (analyze_liveness starts from empty sets), and when the passes end none *)
(* is missing: the result is exactly path liveness, the least solution of  *)
(* the equations and not merely one of them.                               *)
(***************************************************************************)
NeverLiveInVain ==
  \A b \in Blocks(fn) : \A v \in live_in[b] : ReachesUse(fn, b, v)

ResultIsComplete ==
  Analysed =>
    \A b \in Blocks(fn), v \in VRegs(fn) :
      ReachesUse(fn, b, v) => v \in live_in[b]

(***************************************************************************)
(* The sets only grow: recomputing a block, in whatever order its          *)
(* successors were recomputed, never withdraws a value from live_in or     *)
(* live_out.  This is what bounds the number of passes.                    *)
(***************************************************************************)
SetsOnlyGrow ==
  [][\A b \in Blocks(fn) : /\ live_in[b]  \subseteq live_in'[b]
                           /\ live_out[b] \subseteq live_out'[b]]_livenessVars

=============================================================================

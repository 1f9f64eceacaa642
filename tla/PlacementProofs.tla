-------------------------- MODULE PlacementProofs ---------------------------
(***************************************************************************)
(* Proofs about allocate, for every function, target and control flow:     *)
(* first the intervals, then the linear scan and the spill slots.          *)
(***************************************************************************)
EXTENDS Allocator, LivenessProofs


(***************************************************************************)
(* Before the scan nothing has been placed; from the scan on the intervals *)
(* are those of the liveness result.                                       *)
(***************************************************************************)
Placing == Scanned \/ stage \in {"register_conflict", "spill_exhausted"}

NothingPlaced ==
  /\ loc = [v \in VRegs(fn) |-> Unused]
  /\ area = [c \in DOMAIN tgt.spills |-> 0]
  /\ pending = {} /\ spilled = << >> /\ slots = << >> /\ unplaced = {}

ShapeInv ==
  /\ LivenessSetsOK
  /\ QuietInv
  /\ stage \in AllocStages
  /\ tgt \in Target
  /\ stage \notin {"check", "rejected"} => Valid(tgt, fn)
  /\ interval \in [VRegs(fn) -> [start : Int, end : Int]]
  /\ ~Placing => NothingPlaced
  /\ Placing => \A v \in VRegs(fn) : interval[v] = IntervalOf(v)

LEMMA TouchedType ==
  ASSUME LivenessSetsOK, NEW v
  PROVE  /\ Touched(v) \in SUBSET Nat
         /\ \A p \in Touched(v) : p <= 2 * Cardinality(Sites(fn)) + 1
         /\ 2 * Cardinality(Sites(fn)) + 1 \in Nat
<1>1. fn \in Function
  BY DEF LivenessSetsOK
<1> QED
  BY <1>1, PointType DEF Touched

(***************************************************************************)
(* An interval spans every point its register touches.                     *)
(***************************************************************************)
LEMMA IntervalSpans ==
  ASSUME LivenessSetsOK, NEW v
  PROVE  /\ IntervalOf(v) \in [start : Int, end : Int]
         /\ \A p \in Touched(v) : IntervalOf(v).start <= p /\ p <= IntervalOf(v).end
         /\ Touched(v) # {} => IntervalOf(v).start \in Nat /\ IntervalOf(v).end \in Nat
<1>1. CASE Touched(v) = {}
  BY <1>1 DEF IntervalOf, NoInterval
<1>2. CASE Touched(v) # {}
  <2> DEFINE T == Touched(v)
             N == 2 * Cardinality(Sites(fn)) + 1
  <2>1. T \in SUBSET Nat /\ N \in Nat /\ \A p \in T : p <= N
    BY TouchedType
  <2> HIDE DEF T, N
  <2>2. /\ Min(T) \in T /\ Max(T) \in T
        /\ \A p \in T : Min(T) <= p /\ p <= Max(T)
    BY <1>2, <2>1, EndsOfSet DEF T
  <2>3. IntervalOf(v) = [start |-> Min(T), end |-> Max(T)]
    BY <1>2 DEF IntervalOf, T
  <2>4. Min(T) \in Nat /\ Max(T) \in Nat
    BY <2>1, <2>2
  <2> QED
    BY <2>2, <2>3, <2>4 DEF T
<1> QED
  BY <1>1, <1>2

(***************************************************************************)
(* The steps of the scan and of the placement leave the input, liveness    *)
(* and intervals alone.                                                    *)
(***************************************************************************)
PlacingStep ==
  \/ \E v \in VRegs(fn) : AssignRegister(v) \/ SpillValue(v) \/ RegisterConflict(v)
  \/ EndScan
  \/ \E v \in VRegs(fn), c \in DOMAIN tgt.spills : ShareSlot(v, c) \/ CreateSlot(v, c)
  \/ \E v \in VRegs(fn) : SpillExhausted(v)
  \/ Finish

LEMMA PlacingFrame ==
  ASSUME PlacingStep
  PROVE  /\ Placing /\ Placing'
         /\ stage' \in AllocStages /\ stage' \notin {"check", "rejected"}
         /\ UNCHANGED <<fn, live_in, live_out, cursor, changed, tgt, interval>>
<1> DEFINE Frame ==
      /\ Placing /\ Placing'
      /\ stage' \in AllocStages /\ stage' \notin {"check", "rejected"}
      /\ UNCHANGED <<fn, live_in, live_out, cursor, changed, tgt, interval>>
<1> USE DEF Placing, Scanned, livenessVars, allocVars, AllocStages, AllocFailed,
            LivenessStages
<1>1. ASSUME NEW v, AssignRegister(v) PROVE Frame
  BY <1>1 DEF AssignRegister, Visits
<1>2. ASSUME NEW v, SpillValue(v) PROVE Frame
  BY <1>2 DEF SpillValue, Visits
<1>3. ASSUME NEW v, RegisterConflict(v) PROVE Frame
  BY <1>3 DEF RegisterConflict, Visits
<1>4. CASE EndScan
  BY <1>4 DEF EndScan
<1>5. ASSUME NEW v, NEW c, ShareSlot(v, c) PROVE Frame
  BY <1>5 DEF ShareSlot, PlacedIn
<1>6. ASSUME NEW v, NEW c, CreateSlot(v, c) PROVE Frame
  BY <1>6 DEF CreateSlot, PlacedIn
<1>7. ASSUME NEW v, SpillExhausted(v) PROVE Frame
  BY <1>7 DEF SpillExhausted
<1>8. CASE Finish
  BY <1>8 DEF Finish
<1> QED
  BY <1>1, <1>2, <1>3, <1>4, <1>5, <1>6, <1>7, <1>8 DEF PlacingStep

LEMMA NextCases ==
  ASSUME [AllocNext]_scanVars
  PROVE  \/ CheckInput \/ Analyse \/ BeginScan \/ PlacingStep \/ UNCHANGED scanVars
BY DEF AllocNext, PlacingStep

(***************************************************************************)
(* QuietInv survives steps that leave the sets alone and do not claim them *)
(* to be a result before they are one.                                     *)
(***************************************************************************)
LEMMA QuietFrame ==
  ASSUME LivenessSetsOK, QuietInv,
         UNCHANGED <<fn, live_in, live_out, cursor, changed>>,
         \/ Analysed /\ Analysed'
         \/ stage = "check" /\ stage' \in {"validate", "rejected"}
         \/ stage' = stage
  PROVE  QuietInv'
BY DEF QuietInv, QuietPassSettles, ResultSolvesEquations, Analysed, Settled,
       NewIn, NewOut

LEMMA IntervalFrame ==
  ASSUME UNCHANGED <<fn, live_in, live_out>>, NEW v
  PROVE  IntervalOf(v)' = IntervalOf(v) /\ Touched(v)' = Touched(v)
<1>1. Touched(v)' = Touched(v)
  BY DEF Touched
<1> QED
  BY <1>1 DEF IntervalOf

LEMMA ShapeStart ==
  ASSUME AllocInit
  PROVE  ShapeInv
<1>1. fn \in Function /\ tgt \in Target
  BY FunctionsAssumption, TargetsAssumption DEF AllocInit
<1>2. Len(fn.blocks) \in Nat
  BY <1>1, LengthType
<1>3. Len(fn.blocks) \in 0..Len(fn.blocks)
  BY <1>2
<1>4. LivenessSetsOK
  BY <1>1, <1>3 DEF AllocInit, LivenessSetsOK
<1>5. QuietInv
  BY DEF AllocInit, QuietInv, QuietPassSettles, ResultSolvesEquations, Analysed
<1>6. interval \in [VRegs(fn) -> [start : Int, end : Int]]
  BY DEF AllocInit, NoInterval
<1> QED
  BY <1>1, <1>4, <1>5, <1>6
  DEF AllocInit, ShapeInv, NothingPlaced, Placing, Scanned, AllocStages

LEMMA ShapeStep ==
  ASSUME ShapeInv, [AllocNext]_scanVars
  PROVE  ShapeInv'
<1>1. CASE CheckInput
  <2>1. /\ UNCHANGED <<fn, live_in, live_out, cursor, changed, allocVars>>
        /\ stage = "check" /\ stage' \in {"validate", "rejected"}
        /\ stage' = "validate" => Valid(tgt, fn)
    BY <1>1 DEF CheckInput
  <2>2. QuietInv'
    BY <2>1, QuietFrame DEF ShapeInv
  <2>3. LivenessSetsOK'
    BY <2>1 DEF ShapeInv, LivenessSetsOK
  <2> QED
    BY <2>1, <2>2, <2>3
    DEF ShapeInv, allocVars, Placing, Scanned, NothingPlaced, AllocStages,
        LivenessStages
<1>2. CASE Analyse
  <2>1. LivenessSetsOK'
    BY <1>2, SetsStep DEF Analyse, ShapeInv
  <2>2. QuietInv'
    BY <1>2, QuietStep DEF Analyse, ShapeInv
  <2>3. /\ stage \in {"validate", "liveness"}
        /\ stage' \in {"liveness", "live", "rejected"}
        /\ UNCHANGED <<fn, allocVars>>
    BY <1>2
    DEF Analyse, LivenessNext, ValidateShape, VisitBlock, NextPass, LivenessDone
  <2> QED
    BY <2>1, <2>2, <2>3
    DEF ShapeInv, allocVars, Placing, Scanned, NothingPlaced, AllocStages,
        LivenessStages
<1>3. CASE BeginScan
  <2>1. /\ UNCHANGED <<fn, live_in, live_out, cursor, changed, tgt, loc,
                       spilled, slots, area, unplaced>>
        /\ stage = "live" /\ stage' \in {"too_large", "fixed_conflict", "scan"}
        /\ stage' # "scan" => pending' = pending
        /\ \/ interval' = interval /\ stage' # "scan"
           \/ interval' = [v \in VRegs(fn) |-> IntervalOf(v)]
    BY <1>3 DEF BeginScan
  <2>2. LivenessSetsOK'
    BY <2>1 DEF ShapeInv, LivenessSetsOK
  <2>3. QuietInv'
    BY <2>1, QuietFrame DEF ShapeInv, Analysed
  <2>4. \A v \in VRegs(fn) : IntervalOf(v) \in [start : Int, end : Int]
    BY IntervalSpans DEF ShapeInv
  <2>5. interval' \in [VRegs(fn) -> [start : Int, end : Int]]
    BY <2>1, <2>4 DEF ShapeInv
  <2>6. stage' = "scan" => \A v \in VRegs(fn) : interval'[v] = IntervalOf(v)'
    BY <2>1, IntervalFrame
  <2>7. ~Placing' => NothingPlaced'
    BY <2>1 DEF ShapeInv, Placing, Scanned, NothingPlaced
  <2> QED
    BY <2>1, <2>2, <2>3, <2>5, <2>6, <2>7
    DEF ShapeInv, Placing, Scanned, AllocStages, AllocFailed
<1>4. CASE PlacingStep
  <2>1. /\ Placing /\ Placing'
        /\ stage' \in AllocStages /\ stage' \notin {"check", "rejected"}
        /\ UNCHANGED <<fn, live_in, live_out, cursor, changed, tgt, interval>>
    BY <1>4, PlacingFrame
  <2>2. LivenessSetsOK'
    BY <2>1 DEF ShapeInv, LivenessSetsOK, Placing, Scanned
  <2>3. QuietInv'
    BY <2>1, QuietFrame DEF ShapeInv, Analysed, Placing, Scanned
  <2>4. \A v \in VRegs(fn) : interval'[v] = IntervalOf(v)'
    BY <2>1, IntervalFrame DEF ShapeInv
  <2> QED
    BY <2>1, <2>2, <2>3, <2>4 DEF ShapeInv, Placing, Scanned
<1>5. CASE UNCHANGED scanVars
  <2>1. UNCHANGED livenessVars /\ UNCHANGED allocVars
    BY <1>5 DEF scanVars
  <2>2. LivenessSetsOK'
    BY <2>1 DEF ShapeInv, LivenessSetsOK, livenessVars
  <2>3. QuietInv'
    BY <2>1, QuietFrame DEF ShapeInv, livenessVars
  <2>4. \A v \in VRegs(fn) : IntervalOf(v)' = IntervalOf(v)
    BY <2>1, IntervalFrame DEF livenessVars
  <2> QED
    BY <2>1, <2>2, <2>3, <2>4
    DEF ShapeInv, livenessVars, allocVars, Placing, Scanned, NothingPlaced
<1> QED
  BY <1>1, <1>2, <1>3, <1>4, <1>5, NextCases

THEOREM ShapeCorrect == AllocSpec => []ShapeInv
BY ShapeStart, ShapeStep, PTL DEF AllocSpec

-----------------------------------------------------------------------------
(***************************************************************************)
(* Live values and their intervals.  A value live before instruction i of  *)
(* block b entered the block live or was defined there before i; and it is *)
(* used from i on or leaves the block live.                                *)
(***************************************************************************)
LEMMA LiveOrigin ==
  ASSUME LivenessSetsOK, NEW b \in Blocks(fn), Settled(b),
         NEW v, NEW i \in 1..(Len(Code(fn, b)) + 1), LiveBefore(v, b, i)
  PROVE  v \in live_in[b] \/ DefinedIn(v, b, 1, i - 1)
<1> DEFINE n == Len(Code(fn, b))
<1> SUFFICES ASSUME ~DefinedIn(v, b, 1, i - 1)
             PROVE  v \in live_in[b]
  OBVIOUS
<1>0. n \in Nat /\ DOMAIN Code(fn, b) = 1..n
  BY FunctionShape DEF LivenessSetsOK
<1>1. live_in[b] = Gen(fn, b) \cup (live_out[b] \ Kill(fn, b))
  BY DEF Settled, NewIn
<1>2. CASE v \in live_out[b] /\ ~DefinedIn(v, b, i, n)
  <2>1. \A k \in 1..n : v \notin AllDefs(Code(fn, b)[k])
    BY <1>0, <1>2 DEF DefinedIn
  <2>2. v \notin Kill(fn, b)
    BY <1>0, <2>1 DEF Kill
  <2> QED
    BY <1>1, <1>2, <2>2
<1>3. ASSUME NEW j \in i..n, v \in AllUses(Code(fn, b)[j]),
             ~DefinedIn(v, b, i, j - 1)
      PROVE  v \in live_in[b]
  <2>1. \A k \in 1..(j - 1) : v \notin AllDefs(Code(fn, b)[k])
    BY <1>0, <1>3 DEF DefinedIn
  <2>2. j \in DOMAIN Code(fn, b)
    BY <1>0
  <2>3. v \in Gen(fn, b)
    BY <1>3, <2>1, <2>2 DEF Gen
  <2> QED
    BY <1>1, <2>3
<1> QED
  BY <1>2, <1>3 DEF LiveBefore

LEMMA LiveOriginTouched ==
  ASSUME LivenessSetsOK, NEW b \in Blocks(fn), Settled(b),
         NEW v, NEW i \in 1..(Len(Code(fn, b)) + 1), LiveBefore(v, b, i)
  PROVE  \/ BlockStart(fn, b) \in Touched(v)
         \/ \E k \in 1..(i - 1) : /\ k \in DOMAIN Code(fn, b)
                                 /\ DefPoint(fn, <<b, k>>) \in Touched(v)
<1>1. CASE v \in live_in[b]
  BY <1>1 DEF Touched
<1>2. CASE DefinedIn(v, b, 1, i - 1)
  <2>1. PICK k \in 1..(i - 1) : v \in AllDefs(Code(fn, b)[k])
    BY <1>2 DEF DefinedIn
  <2>2. k \in DOMAIN Code(fn, b)
    BY FunctionShape DEF LivenessSetsOK
  <2>3. <<b, k>> \in Sites(fn) /\ InstrAt(fn, <<b, k>>) = Code(fn, b)[k]
    BY <2>2, SiteShape DEF InstrAt
  <2> QED
    BY <2>1, <2>2, <2>3 DEF Touched
<1> QED
  BY <1>1, <1>2, LiveOrigin

LEMMA LiveEndTouched ==
  ASSUME LivenessSetsOK, NEW b \in Blocks(fn),
         NEW v, NEW i \in 1..(Len(Code(fn, b)) + 1), LiveBefore(v, b, i)
  PROVE  \/ BlockEnd(fn, b) \in Touched(v)
         \/ \E j \in i..Len(Code(fn, b)) :
              /\ j \in DOMAIN Code(fn, b)
              /\ UsePoint(fn, <<b, j>>) \in Touched(v)
<1>1. CASE v \in live_out[b]
  BY <1>1 DEF Touched
<1>2. ASSUME NEW j \in i..Len(Code(fn, b)), v \in AllUses(Code(fn, b)[j])
      PROVE  /\ j \in DOMAIN Code(fn, b)
             /\ UsePoint(fn, <<b, j>>) \in Touched(v)
  <2>1. j \in DOMAIN Code(fn, b)
    BY FunctionShape DEF LivenessSetsOK
  <2>2. <<b, j>> \in Sites(fn) /\ InstrAt(fn, <<b, j>>) = Code(fn, b)[j]
    BY <2>1, SiteShape DEF InstrAt
  <2> QED
    BY <1>2, <2>1, <2>2 DEF Touched
<1> QED
  BY <1>1, <1>2 DEF LiveBefore

LEMMA CoverBefore ==
  ASSUME ShapeInv, Placing, NEW b \in Blocks(fn), NEW i \in DOMAIN Code(fn, b),
         NEW v \in VRegs(fn), LiveBefore(v, b, i)
  PROVE  /\ interval[v].start <= UsePoint(fn, <<b, i>>)
         /\ UsePoint(fn, <<b, i>>) <= interval[v].end
<1>0. /\ LivenessSetsOK /\ Settled(b) /\ fn \in Function
      /\ i \in 1..(Len(Code(fn, b)) + 1)
  BY FunctionShape
  DEF ShapeInv, LivenessSetsOK, QuietInv, ResultSolvesEquations, Analysed,
      Placing, Scanned
<1>1. /\ interval[v].start \in Int /\ interval[v].end \in Int
      /\ \A p \in Touched(v) : interval[v].start <= p /\ p <= interval[v].end
  BY <1>0, IntervalSpans DEF ShapeInv
<1>2. interval[v].start <= UsePoint(fn, <<b, i>>)
  <2>1. CASE BlockStart(fn, b) \in Touched(v)
    BY <1>0, <1>1, <2>1, BlockSpan, PointType
  <2>2. ASSUME NEW k \in 1..(i - 1), k \in DOMAIN Code(fn, b),
               DefPoint(fn, <<b, k>>) \in Touched(v)
        PROVE  interval[v].start <= UsePoint(fn, <<b, i>>)
    <3>1. DefPoint(fn, <<b, k>>) < UsePoint(fn, <<b, i>>)
      BY <1>0, <2>2, PointOrder
    <3> QED
      BY <1>0, <1>1, <2>2, <3>1, PointType
  <2> QED
    BY <1>0, <2>1, <2>2, LiveOriginTouched
<1>3. UsePoint(fn, <<b, i>>) <= interval[v].end
  <2>1. CASE BlockEnd(fn, b) \in Touched(v)
    BY <1>0, <1>1, <2>1, BlockSpan, PointType
  <2>2. ASSUME NEW j \in i..Len(Code(fn, b)), j \in DOMAIN Code(fn, b),
               UsePoint(fn, <<b, j>>) \in Touched(v)
        PROVE  UsePoint(fn, <<b, i>>) <= interval[v].end
    <3>1. CASE i = j
      BY <1>1, <2>2, <3>1
    <3>2. CASE i < j
      <4>1. DefPoint(fn, <<b, i>>) < UsePoint(fn, <<b, j>>)
        BY <1>0, <2>2, <3>2, PointOrder
      <4> QED
        BY <1>0, <1>1, <2>2, <4>1, PointType
    <3> QED
      BY <1>0, <2>2, <3>1, <3>2
  <2> QED
    BY <1>0, <2>1, <2>2, LiveEndTouched
<1> QED
  BY <1>2, <1>3

LEMMA CoverAfter ==
  ASSUME ShapeInv, Placing, NEW b \in Blocks(fn), NEW i \in DOMAIN Code(fn, b),
         NEW v \in VRegs(fn), LiveBefore(v, b, i + 1)
  PROVE  /\ interval[v].start <= DefPoint(fn, <<b, i>>)
         /\ DefPoint(fn, <<b, i>>) <= interval[v].end
<1>0. /\ LivenessSetsOK /\ Settled(b) /\ fn \in Function
      /\ i \in Nat /\ i + 1 \in 1..(Len(Code(fn, b)) + 1)
  BY FunctionShape
  DEF ShapeInv, LivenessSetsOK, QuietInv, ResultSolvesEquations, Analysed,
      Placing, Scanned
<1>1. /\ interval[v].start \in Int /\ interval[v].end \in Int
      /\ \A p \in Touched(v) : interval[v].start <= p /\ p <= interval[v].end
  BY <1>0, IntervalSpans DEF ShapeInv
<1>2. interval[v].start <= DefPoint(fn, <<b, i>>)
  <2>1. CASE BlockStart(fn, b) \in Touched(v)
    <3>1. BlockStart(fn, b) <= UsePoint(fn, <<b, i>>)
      BY <1>0, BlockSpan
    <3> QED
      BY <1>0, <1>1, <2>1, <3>1, PointType
  <2>2. ASSUME NEW k \in 1..((i + 1) - 1), k \in DOMAIN Code(fn, b),
               DefPoint(fn, <<b, k>>) \in Touched(v)
        PROVE  interval[v].start <= DefPoint(fn, <<b, i>>)
    <3>1. CASE k = i
      BY <1>1, <2>2, <3>1
    <3>2. CASE k < i
      <4>1. DefPoint(fn, <<b, k>>) < UsePoint(fn, <<b, i>>)
        BY <1>0, <2>2, <3>2, PointOrder
      <4> QED
        BY <1>0, <1>1, <2>2, <4>1, PointType
    <3> QED
      BY <1>0, <3>1, <3>2
  <2> QED
    BY <1>0, <2>1, <2>2, LiveOriginTouched
<1>3. DefPoint(fn, <<b, i>>) <= interval[v].end
  <2>1. CASE BlockEnd(fn, b) \in Touched(v)
    BY <1>0, <1>1, <2>1, BlockSpan, PointType
  <2>2. ASSUME NEW j \in (i + 1)..Len(Code(fn, b)), j \in DOMAIN Code(fn, b),
               UsePoint(fn, <<b, j>>) \in Touched(v)
        PROVE  DefPoint(fn, <<b, i>>) <= interval[v].end
    <3>1. DefPoint(fn, <<b, i>>) < UsePoint(fn, <<b, j>>)
      <4>1. i < j
        BY <1>0, FunctionShape
      <4> QED
        BY <1>0, <2>2, <4>1, PointOrder
    <3> QED
      BY <1>0, <1>1, <2>2, <3>1, PointType
  <2> QED
    BY <1>0, <2>1, <2>2, LiveEndTouched
<1> QED
  BY <1>2, <1>3

(***************************************************************************)
(* Intervals without holes cover liveness, on every control-flow graph:    *)
(* the safety argument of the module comment of regalloc.rs.               *)
(***************************************************************************)
THEOREM IntervalsCoverLivenessCorrect == AllocSpec => []IntervalsCoverLiveness
<1>1. ShapeInv => IntervalsCoverLiveness
  <2> SUFFICES ASSUME ShapeInv, Scanned, NEW s \in Sites(fn), NEW v \in VRegs(fn)
               PROVE  /\ LiveBefore(v, s[1], s[2]) =>
                           /\ interval[v].start <= UsePoint(fn, s)
                           /\ UsePoint(fn, s) <= interval[v].end
                      /\ LiveBefore(v, s[1], s[2] + 1) =>
                           /\ interval[v].start <= DefPoint(fn, s)
                           /\ DefPoint(fn, s) <= interval[v].end
    BY DEF IntervalsCoverLiveness
  <2>1. s = <<s[1], s[2]>> /\ s[1] \in Blocks(fn) /\ s[2] \in DOMAIN Code(fn, s[1])
    BY SiteIsPair
  <2>2. Placing
    BY DEF Placing
  <2> QED
    BY <2>1, <2>2, CoverBefore, CoverAfter
<1> QED
  BY <1>1, ShapeCorrect, PTL

---------------------------------------------------------------------------

(***************************************************************************)
(* What makes a register a lawful seat for v, whatever is scanned later:   *)
(* the seat only depends on the input and the intervals.                   *)
(***************************************************************************)
Seat(v, r) ==
  /\ r \in RegistersOf(tgt)
  /\ ~ClobberedAcross(v, r)
  /\ ~ReservedForOther(v, r)
  /\ IsFixed(v) => <<v, r>> \in Fixed(fn)

(***************************************************************************)
(* Every register with an interval is in one of the scan's queues, out of  *)
(* room or placed.  Fixed values are never queued for memory.              *)
(***************************************************************************)
QueueInv ==
  /\ pending \subseteq VRegs(fn)
  /\ spilled \in Seq(VRegs(fn))
  /\ loc \in [VRegs(fn) -> [kind : {"unused", "reg", "spill"}, at : Nat]]
  /\ Placing => FixedConsistent(fn)
  /\ \A v \in pending : HasInterval(v) /\ ~InRegister(v)
  /\ \A v \in Members(spilled) : ~IsFixed(v)
  /\ stage = "spill" => pending = {}
  /\ stage = "done" => pending = {} /\ spilled = << >> /\ unplaced = {}

PlacedInv ==
  Placing => \A v \in VRegs(fn) :
    HasInterval(v) <=> v \in pending \cup Members(spilled) \cup unplaced
                       \/ loc[v] # Unused

SeatInv ==
  \A v \in VRegs(fn) :
    /\ loc[v].kind = "unused" => loc[v] = Unused
    /\ InRegister(v) => \A r \in Nat : loc[v] = Reg(r) => Seat(v, r)
    /\ IsFixed(v) => loc[v].kind # "spill"

LEMMA SeatFrame ==
  ASSUME UNCHANGED <<fn, tgt, interval>>, NEW v, NEW r
  PROVE  /\ Seat(v, r)' = Seat(v, r)
         /\ IsFixed(v)' = IsFixed(v)
         /\ HasInterval(v)' = HasInterval(v)
BY DEF Seat, RegistersOf, ClobberedAcross, ReservedForOther, IsFixed, HasInterval, Overlaps

LEMMA QueueParts ==
  ASSUME NEW S, NEW q \in Seq(S), q # << >>
  PROVE  /\ Head(q) \in S /\ Tail(q) \in Seq(S)
         /\ Members(q) = {Head(q)} \cup Members(Tail(q))
<1>1. Head(q) = q[1] /\ 1 \in DOMAIN q
  OBVIOUS
<1>2. \A k \in DOMAIN Tail(q) : Tail(q)[k] = q[k + 1] /\ k + 1 \in DOMAIN q
  OBVIOUS
<1>3. \A k \in DOMAIN q : k = 1 \/ (k - 1 \in DOMAIN Tail(q) /\ q[k] = Tail(q)[k - 1])
  OBVIOUS
<1> QED
  BY <1>1, <1>2, <1>3 DEF Members

LEMMA QueueGrows ==
  ASSUME NEW S, NEW q \in Seq(S), NEW v \in S
  PROVE  /\ Append(q, v) \in Seq(S)
         /\ Members(Append(q, v)) = Members(q) \cup {v}
<1> DEFINE a == Append(q, v)
<1>1. /\ a \in Seq(S) /\ DOMAIN a = 1..(Len(q) + 1) /\ DOMAIN q = 1..Len(q)
      /\ Len(q) \in Nat /\ a[Len(q) + 1] = v
      /\ \A k \in DOMAIN q : a[k] = q[k]
  OBVIOUS
<1> HIDE DEF a
<1>2. \A k \in DOMAIN a : k \in DOMAIN q \/ k = Len(q) + 1
  BY <1>1
<1>3. \A k \in DOMAIN q : k \in DOMAIN a
  BY <1>1
<1>4. Len(q) + 1 \in DOMAIN a
  BY <1>1
<1>5. Members(a) = Members(q) \cup {v}
  BY <1>1, <1>2, <1>3, <1>4 DEF Members
<1> QED
  BY <1>1, <1>5 DEF a

LEMMA LargerOfTwo ==
  ASSUME NEW a \in Nat, NEW b \in Nat
  PROVE  /\ Max({a, b}) \in {a, b}
         /\ a <= Max({a, b}) /\ b <= Max({a, b})
<1>1. a + b \in Nat /\ {a, b} \in SUBSET Nat /\ {a, b} # {}
      /\ \A y \in {a, b} : y <= a + b
  OBVIOUS
<1>2. Max({a, b}) \in {a, b} /\ \A y \in {a, b} : y <= Max({a, b})
  BY <1>1, EndsOfSet
<1> QED
  BY <1>2

LEMMA AlignedUp ==
  ASSUME NEW x \in Nat, NEW a \in Nat \ {0}
  PROVE  AlignUp(x, a) \in Nat /\ x <= AlignUp(x, a) /\ AlignUp(x, a) % a = 0
BY DEF AlignUp

(***************************************************************************)
(* The place a new slot would get.                                         *)
(***************************************************************************)
LEMMA NewSlotFit ==
  ASSUME ShapeInv, Placing, area \in [DOMAIN tgt.spills -> Nat],
         NEW v \in VRegs(fn), NEW c \in DOMAIN tgt.spills
  PROVE  /\ c \in Nat
         /\ fn.vregs[v].size \in Nat \ {0} /\ fn.vregs[v].alignment \in Nat \ {0}
         /\ fn.vregs[v].reusable \in BOOLEAN
         /\ SlotAlignment(v, c) \in Nat \ {0}
         /\ NewOffset(v, c) \in Nat /\ area[c] <= NewOffset(v, c)
         /\ NewOffset(v, c) % SlotAlignment(v, c) = 0
<1>1. Valid(tgt, fn) /\ tgt \in Target /\ fn \in Function
  BY DEF ShapeInv, LivenessSetsOK, Placing, Scanned
<1>2. fn.vregs[v] \in VirtualRegister
  BY <1>1 DEF Function, VRegs
<1>3. tgt.spills[c] \in SpillClass /\ c \in Nat
  BY <1>1 DEF Target
<1>4. /\ fn.vregs[v].size \in Nat /\ fn.vregs[v].size # 0
      /\ fn.vregs[v].alignment \in Nat /\ fn.vregs[v].alignment # 0
      /\ fn.vregs[v].reusable \in BOOLEAN
  BY <1>1, <1>2 DEF Valid, VRegsValid, PowerOfTwo, VirtualRegister
<1>5. tgt.spills[c].base_alignment \in Nat /\ tgt.spills[c].base_alignment # 0
  BY <1>1, <1>3 DEF Valid, TargetValid, PowerOfTwo, SpillClass
<1>6. SlotAlignment(v, c) \in Nat \ {0}
  BY <1>4, <1>5, LargerOfTwo DEF SlotAlignment
<1> QED
  BY <1>3, <1>4, <1>6, AlignedUp DEF NewOffset

LEMMA IntervalEnds ==
  ASSUME ShapeInv, Placing, NEW v \in VRegs(fn), HasInterval(v)
  PROVE  /\ interval[v].start \in Nat /\ interval[v].end \in Nat
         /\ interval[v].start <= interval[v].end
<1>1. interval[v] = IntervalOf(v) /\ LivenessSetsOK
  BY DEF ShapeInv
<1>2. Touched(v) # {}
  BY <1>1 DEF HasInterval, IntervalOf
<1>3. \A p \in Touched(v) : p \in Nat
  BY <1>1, TouchedType
<1>4. IntervalOf(v).start \in Nat /\ IntervalOf(v).end \in Nat
  BY <1>1, <1>2, IntervalSpans
<1>5. \A p \in Touched(v) : IntervalOf(v).start <= p /\ p <= IntervalOf(v).end
  BY <1>1, IntervalSpans
<1> QED
  BY <1>1, <1>2, <1>3, <1>4, <1>5

(***************************************************************************)
(* Types.  Slots remember the end of an interval, so what waits for a slot *)
(* must have one.                                                          *)
(***************************************************************************)
PlaceTypeOK ==
  /\ pending \subseteq VRegs(fn)
  /\ loc \in [VRegs(fn) -> [kind : {"unused", "reg", "spill"}, at : Nat]]
  /\ spilled \in Seq(VRegs(fn))
  /\ slots \in Seq(SpillSlot)
  /\ area \in [DOMAIN tgt.spills -> Nat]
  /\ unplaced \subseteq VRegs(fn)
  /\ \A v \in pending \cup Members(spilled) : HasInterval(v)

LEMMA IdleTypes == ShapeInv /\ ~Placing => PlaceTypeOK
<1> SUFFICES ASSUME ShapeInv, ~Placing PROVE PlaceTypeOK
  OBVIOUS
<1>1. NothingPlaced
  BY DEF ShapeInv
<1>2. Members(spilled) = {} /\ spilled \in Seq(VRegs(fn)) /\ slots \in Seq(SpillSlot)
  BY <1>1 DEF NothingPlaced, Members
<1> QED
  BY <1>1, <1>2 DEF NothingPlaced, PlaceTypeOK, Unused

LEMMA SharedChoice ==
  ASSUME slots \in Seq(SpillSlot), NEW v, NEW c, SharedSlots(v, c) # {}
  PROVE  /\ Min(SharedSlots(v, c)) \in SharedSlots(v, c)
         /\ Min(SharedSlots(v, c)) \in DOMAIN slots
         /\ Min(SharedSlots(v, c)) \in Nat
<1>1. SharedSlots(v, c) \in SUBSET DOMAIN slots
  BY DEF SharedSlots
<1>2. DOMAIN slots \in SUBSET Nat
  OBVIOUS
<1>3. SharedSlots(v, c) \in SUBSET Nat
  BY <1>1, <1>2
<1>4. Min(SharedSlots(v, c)) \in SharedSlots(v, c)
  BY <1>3, LeastNatural DEF Min
<1> QED
  BY <1>1, <1>3, <1>4

(***************************************************************************)
(* What a candidate is: a register, and the fixed one of a fixed value.    *)
(***************************************************************************)
LEMMA CandidateType ==
  ASSUME ShapeInv, Placing, NEW v \in VRegs(fn), NEW r \in Candidates(v)
  PROVE  /\ r \in Nat /\ r \in RegistersOf(tgt)
         /\ IsFixed(v) => <<v, r>> \in Fixed(fn)
<1>1. Valid(tgt, fn) /\ tgt \in Target
  BY DEF ShapeInv, Placing, Scanned
<1>2. RegistersOf(tgt) \in SUBSET Nat
  BY <1>1 DEF RegistersOf, Target
<1>3. CASE IsFixed(v)
  <2>1. PICK op \in Fixed(fn) : op[1] = v /\ op[2] = r
    BY <1>3 DEF Candidates
  <2>2. op = <<v, r>>
    <3>1. fn \in Function
      BY DEF ShapeInv, LivenessSetsOK
    <3>2. PICK s \in Sites(fn) : op \in InstrAt(fn, s).fixed_uses \cup InstrAt(fn, s).fixed_defs
      BY DEF Fixed
    <3>3. InstrAt(fn, s) \in Instruction
      BY <3>1, SiteIsPair, FunctionShape DEF InstrAt
    <3>4. op \in Nat \X Nat
      BY <3>2, <3>3 DEF Instruction
    <3> QED
      BY <2>1, <3>4
  <2>3. r \in RegistersOf(tgt)
    BY <1>1, <2>1 DEF Valid, OperandsValid
  <2> QED
    BY <1>2, <2>1, <2>2, <2>3
<1>4. CASE ~IsFixed(v)
  <2>1. r \in Members(ClassOf(tgt, fn, v))
    BY <1>4 DEF Candidates
  <2>2. fn.vregs[v].class \in DOMAIN tgt.classes
    BY <1>1 DEF Valid, VRegsValid
  <2>3. r \in RegistersOf(tgt)
    BY <1>1, <2>1, <2>2 DEF Valid, TargetValid, ClassOf
  <2> QED
    BY <1>2, <1>4, <2>3
<1> QED
  BY <1>3, <1>4

(***************************************************************************)
(* Sharing changes one slot: its alignment, its values and its last end.   *)
(***************************************************************************)
LEMMA ShareEffect ==
  ASSUME ShapeInv, PlaceTypeOK, NEW v \in VRegs(fn), NEW c \in DOMAIN tgt.spills,
         ShareSlot(v, c)
  PROVE  \E k \in SharedSlots(v, c) :
           /\ k \in DOMAIN slots /\ k \in Nat
           /\ loc' = [loc EXCEPT ![v] = Slot(k)]
           /\ slots' \in Seq(SpillSlot) /\ DOMAIN slots' = DOMAIN slots
           /\ \A j \in (DOMAIN slots) \ {k} : slots'[j] = slots[j]
           /\ slots'[k].class = slots[k].class /\ slots'[k].offset = slots[k].offset
           /\ slots'[k].size = slots[k].size /\ slots'[k].reusable = slots[k].reusable
           /\ slots'[k].last_end = interval[v].end
<1> DEFINE k == Min(SharedSlots(v, c))
           new == [slots[k] EXCEPT !.alignment = Max({@, SlotAlignment(v, c)}),
                                   !.values = Append(@, v),
                                   !.last_end = interval[v].end]
<1>1. k \in SharedSlots(v, c) /\ k \in DOMAIN slots /\ k \in Nat
  BY SharedChoice DEF ShareSlot, PlaceTypeOK
<1>2. slots' = [slots EXCEPT ![k] = new] /\ loc' = [loc EXCEPT ![v] = Slot(k)]
  BY DEF ShareSlot
<1>3. stage = "spill" /\ Placing /\ spilled # << >> /\ v = Head(spilled)
  BY DEF ShareSlot, PlacedIn, Placing, Scanned
<1>4. HasInterval(v)
  BY <1>3, QueueParts DEF PlaceTypeOK
<1>5. interval[v].end \in Nat
  BY <1>3, <1>4, IntervalEnds
<1>6. slots[k] \in SpillSlot /\ SlotAlignment(v, c) \in Nat /\ v \in Nat
  <2>1. fn \in Function
    BY DEF ShapeInv, LivenessSetsOK
  <2>2. v \in Nat
    BY <2>1, FunctionShape
  <2>3. slots[k] \in SpillSlot
    BY <1>1 DEF PlaceTypeOK
  <2>4. area \in [DOMAIN tgt.spills -> Nat]
    BY DEF PlaceTypeOK
  <2>5. SlotAlignment(v, c) \in Nat
    BY <1>3, <2>4, NewSlotFit
  <2> QED
    BY <2>2, <2>3, <2>5
<1> HIDE DEF k
<1>7. Max({slots[k].alignment, SlotAlignment(v, c)}) \in Nat
  BY <1>6, LargerOfTwo DEF SpillSlot
<1>8. Append(slots[k].values, v) \in Seq(Nat)
  BY <1>6 DEF SpillSlot
<1>9. /\ new \in SpillSlot /\ new.class = slots[k].class
      /\ new.offset = slots[k].offset /\ new.size = slots[k].size
      /\ new.reusable = slots[k].reusable /\ new.last_end = interval[v].end
  BY <1>5, <1>6, <1>7, <1>8 DEF SpillSlot
<1> HIDE DEF new
<1>10. /\ slots' \in Seq(SpillSlot) /\ DOMAIN slots' = DOMAIN slots
       /\ slots'[k] = new /\ \A j \in (DOMAIN slots) \ {k} : slots'[j] = slots[j]
  BY <1>1, <1>2, <1>9 DEF PlaceTypeOK
<1> QED
  BY <1>1, <1>2, <1>9, <1>10

(***************************************************************************)
(* A new slot goes to the end of its area.                                 *)
(***************************************************************************)
LEMMA CreateEffect ==
  ASSUME ShapeInv, PlaceTypeOK, NEW v \in VRegs(fn), NEW c \in DOMAIN tgt.spills,
         CreateSlot(v, c)
  PROVE  LET k == Len(slots) + 1 IN
         /\ k \in Nat /\ k \notin DOMAIN slots
         /\ loc' = [loc EXCEPT ![v] = Slot(k)]
         /\ slots' \in Seq(SpillSlot) /\ DOMAIN slots' = (DOMAIN slots) \cup {k}
         /\ \A j \in DOMAIN slots : slots'[j] = slots[j]
         /\ slots'[k].class = c /\ slots'[k].offset = NewOffset(v, c)
         /\ slots'[k].size = fn.vregs[v].size
         /\ slots'[k].reusable = fn.vregs[v].reusable
         /\ slots'[k].last_end = interval[v].end
         /\ area' \in [DOMAIN tgt.spills -> Nat]
         /\ area'[c] = NewOffset(v, c) + fn.vregs[v].size
         /\ \A d \in (DOMAIN tgt.spills) \ {c} : area'[d] = area[d]
<1> DEFINE k == Len(slots) + 1
           new == [class |-> c, offset |-> NewOffset(v, c), size |-> fn.vregs[v].size,
                   alignment |-> SlotAlignment(v, c),
                   reusable |-> fn.vregs[v].reusable,
                   values |-> <<v>>, last_end |-> interval[v].end]
<1>1. stage = "spill" /\ Placing /\ spilled # << >> /\ v = Head(spilled)
  BY DEF CreateSlot, PlacedIn, Placing, Scanned
<1>2. HasInterval(v)
  BY <1>1, QueueParts DEF PlaceTypeOK
<1>3. interval[v].end \in Nat /\ v \in Nat
  <2>1. fn \in Function
    BY DEF ShapeInv, LivenessSetsOK
  <2> QED
    BY <1>1, <1>2, <2>1, IntervalEnds, FunctionShape
<1>4. /\ c \in Nat /\ fn.vregs[v].size \in Nat /\ fn.vregs[v].reusable \in BOOLEAN
      /\ SlotAlignment(v, c) \in Nat /\ NewOffset(v, c) \in Nat
  BY <1>1, NewSlotFit DEF PlaceTypeOK
<1>5. new \in SpillSlot
  BY <1>3, <1>4 DEF SpillSlot
<1>6. /\ slots' = Append(slots, new) /\ loc' = [loc EXCEPT ![v] = Slot(k)]
      /\ area' = [area EXCEPT ![c] = NewOffset(v, c) + fn.vregs[v].size]
  BY DEF CreateSlot
<1>7. /\ new.class = c /\ new.offset = NewOffset(v, c)
      /\ new.size = fn.vregs[v].size /\ new.reusable = fn.vregs[v].reusable
      /\ new.last_end = interval[v].end
  OBVIOUS
<1> HIDE DEF new
<1>8. /\ slots' \in Seq(SpillSlot) /\ k \in Nat /\ k \notin DOMAIN slots
      /\ DOMAIN slots' = (DOMAIN slots) \cup {k} /\ slots'[k] = new
      /\ \A j \in DOMAIN slots : slots'[j] = slots[j]
  BY <1>5, <1>6 DEF PlaceTypeOK
<1>9. /\ area' \in [DOMAIN tgt.spills -> Nat]
      /\ area'[c] = NewOffset(v, c) + fn.vregs[v].size
      /\ \A d \in (DOMAIN tgt.spills) \ {c} : area'[d] = area[d]
  <2> DEFINE top == NewOffset(v, c) + fn.vregs[v].size
  <2>1. top \in Nat /\ area' = [area EXCEPT ![c] = top]
    BY <1>4, <1>6
  <2>2. area \in [DOMAIN tgt.spills -> Nat]
    BY DEF PlaceTypeOK
  <2> HIDE DEF top
  <2>3. /\ area' \in [DOMAIN tgt.spills -> Nat] /\ area'[c] = top
        /\ \A d \in (DOMAIN tgt.spills) \ {c} : area'[d] = area[d]
    BY <2>1, <2>2
  <2> QED
    BY <2>3 DEF top
<1> QED
  BY <1>6, <1>7, <1>8, <1>9

LEMMA TypeStep ==
  ASSUME ShapeInv, PlaceTypeOK, [AllocNext]_scanVars,
         (ShapeInv /\ ~Placing => PlaceTypeOK)', ShapeInv'
  PROVE  PlaceTypeOK'
<1> DEFINE LocType == [VRegs(fn) -> [kind : {"unused", "reg", "spill"}, at : Nat]]
<1>1. CASE CheckInput
  BY <1>1 DEF CheckInput, Placing, Scanned
<1>2. CASE Analyse
  BY <1>2 DEF Analyse, LivenessNext, ValidateShape, VisitBlock, NextPass,
              LivenessDone, Placing, Scanned
<1>3. CASE BeginScan
  <2>1. CASE stage' # "scan"
    BY <1>3, <2>1 DEF BeginScan, Placing, Scanned
  <2>2. CASE stage' = "scan"
    <3>1. /\ UNCHANGED <<fn, tgt, loc, spilled, slots, area, unplaced>>
          /\ pending' = {v \in VRegs(fn) : Touched(v) # {}}
          /\ interval' = [v \in VRegs(fn) |-> IntervalOf(v)]
      BY <1>3, <2>2 DEF BeginScan
    <3>2. Members(spilled') = {}
      BY <1>3 DEF BeginScan, ShapeInv, NothingPlaced, Placing, Scanned, Members
    <3>3. \A v \in VRegs(fn) : Touched(v) # {} => HasInterval(v)'
      <4> SUFFICES ASSUME NEW v \in VRegs(fn), Touched(v) # {}
                   PROVE  IntervalOf(v) # NoInterval
        BY <3>1 DEF HasInterval
      <4> QED
        BY IntervalSpans DEF ShapeInv, NoInterval
    <3> QED
      BY <3>1, <3>2, <3>3 DEF PlaceTypeOK
  <2> QED
    BY <2>1, <2>2
<1>4. CASE PlacingStep
  <2>0. /\ Placing /\ UNCHANGED <<fn, tgt, interval>>
        /\ \A w \in VRegs(fn) : HasInterval(w)' = HasInterval(w)
    BY <1>4, PlacingFrame DEF HasInterval
  <2>1. ASSUME NEW v \in VRegs(fn), AssignRegister(v) PROVE PlaceTypeOK'
    <3>1. PICK r \in FreeCandidates(v) : loc' = [loc EXCEPT ![v] = Reg(r)]
      BY <2>1 DEF AssignRegister
    <3>2. Reg(r) \in [kind : {"unused", "reg", "spill"}, at : Nat]
      BY <2>0, <3>1, CandidateType DEF FreeCandidates, Reg
    <3>3. loc' \in LocType
      BY <3>1, <3>2 DEF PlaceTypeOK
    <3>4. Members(spilled) \in SUBSET VRegs(fn)
      BY DEF PlaceTypeOK, Members
    <3> QED
      BY <2>0, <2>1, <3>3, <3>4 DEF AssignRegister, PlaceTypeOK
  <2>2. ASSUME NEW v \in VRegs(fn), SpillValue(v) PROVE PlaceTypeOK'
    <3>1. /\ spilled' \in Seq(VRegs(fn))
          /\ Members(spilled') = Members(spilled) \cup {v}
      BY <2>2, QueueGrows DEF SpillValue, PlaceTypeOK
    <3>2. Members(spilled) \in SUBSET VRegs(fn)
      BY DEF PlaceTypeOK, Members
    <3>3. pending' \cup Members(spilled') \in SUBSET (pending \cup Members(spilled))
      BY <2>2, <3>1 DEF SpillValue, Visits
    <3>4. \A w \in pending' \cup Members(spilled') : HasInterval(w)'
      BY <2>0, <3>2, <3>3 DEF PlaceTypeOK
    <3>5. pending' \in SUBSET VRegs(fn)
      BY <2>2 DEF SpillValue, PlaceTypeOK
    <3> QED
      BY <2>0, <2>2, <3>1, <3>4, <3>5 DEF SpillValue, PlaceTypeOK
  <2>3. ASSUME NEW v, RegisterConflict(v) \/ EndScan \/ Finish PROVE PlaceTypeOK'
    <3>1. UNCHANGED <<pending, loc, spilled, slots, area, unplaced>>
      BY <2>3 DEF RegisterConflict, EndScan, Finish, allocVars
    <3>2. pending \cup Members(spilled) \in SUBSET VRegs(fn)
      BY DEF PlaceTypeOK, Members
    <3> QED
      BY <2>0, <3>1, <3>2 DEF PlaceTypeOK
  <2>4. ASSUME spilled # << >>, spilled' = Tail(spilled), pending' = pending
        PROVE  /\ spilled' \in Seq(VRegs(fn))
               /\ \A w \in pending' \cup Members(spilled') : HasInterval(w)'
    <3>1. /\ Members(spilled') \in SUBSET Members(spilled)
          /\ spilled' \in Seq(VRegs(fn))
      BY <2>4, QueueParts DEF PlaceTypeOK
    <3>2. pending \cup Members(spilled) \in SUBSET VRegs(fn)
      BY DEF PlaceTypeOK, Members
    <3> QED
      BY <2>0, <2>4, <3>1, <3>2 DEF PlaceTypeOK
  <2>5. ASSUME NEW k \in Nat, NEW v, loc' = [loc EXCEPT ![v] = Slot(k)]
        PROVE  loc' \in LocType
    <3>1. Slot(k) \in [kind : {"unused", "reg", "spill"}, at : Nat]
      BY DEF Slot
    <3> QED
      BY <2>5, <3>1 DEF PlaceTypeOK
  <2>6. ASSUME NEW v \in VRegs(fn), NEW c \in DOMAIN tgt.spills, ShareSlot(v, c)
        PROVE  PlaceTypeOK'
    <3>1. /\ UNCHANGED <<pending, area, unplaced>>
          /\ spilled # << >> /\ spilled' = Tail(spilled)
      BY <2>6 DEF ShareSlot, PlacedIn
    <3>2. PICK k \in Nat : loc' = [loc EXCEPT ![v] = Slot(k)] /\ slots' \in Seq(SpillSlot)
      BY <2>6, ShareEffect
    <3> QED
      BY <2>0, <2>4, <2>5, <3>1, <3>2 DEF PlaceTypeOK
  <2>7. ASSUME NEW v \in VRegs(fn), NEW c \in DOMAIN tgt.spills, CreateSlot(v, c)
        PROVE  PlaceTypeOK'
    <3>1. /\ UNCHANGED <<pending, unplaced>>
          /\ spilled # << >> /\ spilled' = Tail(spilled)
      BY <2>7 DEF CreateSlot, PlacedIn
    <3>2. PICK k \in Nat : /\ loc' = [loc EXCEPT ![v] = Slot(k)]
                          /\ slots' \in Seq(SpillSlot)
                          /\ area' \in [DOMAIN tgt.spills -> Nat]
      BY <2>7, CreateEffect
    <3> QED
      BY <2>0, <2>4, <2>5, <3>1, <3>2 DEF PlaceTypeOK
  <2>8. ASSUME NEW v \in VRegs(fn), SpillExhausted(v) PROVE PlaceTypeOK'
    BY <2>0, <2>4, <2>8 DEF SpillExhausted, PlaceTypeOK
  <2> QED
    BY <1>4, <2>1, <2>2, <2>3, <2>6, <2>7, <2>8 DEF PlacingStep
<1>5. CASE UNCHANGED scanVars
  BY <1>5 DEF scanVars, allocVars, livenessVars, PlaceTypeOK, HasInterval
<1> QED
  BY <1>1, <1>2, <1>3, <1>4, <1>5, NextCases

(***************************************************************************)
(* Type correctness of the allocator, the types of its slots included.     *)
(***************************************************************************)
THEOREM AllocTypeCorrect == AllocSpec => [](AllocTypeOK /\ PlaceTypeOK)
<1>1. AllocInit /\ ShapeInv => PlaceTypeOK
  BY IdleTypes DEF AllocInit, Placing, Scanned
<1>2. ShapeInv /\ PlaceTypeOK /\ [AllocNext]_scanVars /\ ShapeInv'
        /\ (ShapeInv /\ ~Placing => PlaceTypeOK)' => PlaceTypeOK'
  BY TypeStep
<1>3. ShapeInv /\ PlaceTypeOK => AllocTypeOK
  BY DEF ShapeInv, PlaceTypeOK, AllocTypeOK
<1> QED
  BY <1>1, <1>2, <1>3, IdleTypes, ShapeCorrect, PTL DEF AllocSpec

ScanInv ==
  QueueInv /\ PlacedInv /\ SeatInv /\ NoSharedUnits /\ ConflictsAreGenuine

LEMMA IdleScan == ShapeInv /\ ~Placing => ScanInv
<1> SUFFICES ASSUME ShapeInv, ~Placing PROVE ScanInv
  OBVIOUS
<1>1. NothingPlaced
  BY DEF ShapeInv
<1>2. \A v \in VRegs(fn) : loc[v] = Unused /\ loc[v].kind = "unused"
  BY <1>1 DEF NothingPlaced, Unused
<1>3. QueueInv
  <2>1. Members(spilled) = {} /\ spilled \in Seq(VRegs(fn))
    BY <1>1 DEF NothingPlaced, Members
  <2> QED
    BY <1>1, <2>1 DEF NothingPlaced, QueueInv, Unused, Placing, Scanned
<1> QED
  BY <1>2, <1>3
  DEF ScanInv, PlacedInv, SeatInv, NoSharedUnits, ConflictsAreGenuine,
      InRegister, Placing, Scanned

LEMMA StartScan ==
  ASSUME ShapeInv, ShapeInv', BeginScan, stage' = "scan"
  PROVE  ScanInv'
<1>1. /\ UNCHANGED <<fn, tgt, loc, spilled, unplaced>>
      /\ pending' = {v \in VRegs(fn) : Touched(v) # {}}
      /\ interval' = [v \in VRegs(fn) |-> IntervalOf(v)]
      /\ FixedConsistent(fn)
  BY DEF BeginScan
<1>2. loc = [v \in VRegs(fn) |-> Unused] /\ spilled = << >> /\ unplaced = {}
  BY DEF BeginScan, ShapeInv, NothingPlaced, Placing, Scanned
<1>3. \A v \in VRegs(fn) : loc'[v] = Unused /\ loc'[v].kind = "unused"
  BY <1>1, <1>2 DEF Unused
<1>4. \A v \in VRegs(fn) : Touched(v) # {} <=> HasInterval(v)'
  <2> SUFFICES ASSUME NEW v \in VRegs(fn)
               PROVE  Touched(v) # {} <=> IntervalOf(v) # NoInterval
    BY <1>1 DEF HasInterval
  <2>1. Touched(v) # {} => IntervalOf(v).start \in Nat
    BY IntervalSpans DEF ShapeInv
  <2> QED
    BY <2>1 DEF IntervalOf, NoInterval
<1>5. QueueInv'
  <2>1. Members(spilled') = {} /\ spilled' \in Seq(VRegs(fn))
    BY <1>1, <1>2 DEF Members
  <2> QED
    BY <1>1, <1>2, <1>3, <1>4, <2>1 DEF QueueInv, Unused, InRegister
<1>6. PlacedInv'
  BY <1>1, <1>2, <1>3, <1>4 DEF PlacedInv, Members
<1>7. SeatInv' /\ NoSharedUnits'
  BY <1>1, <1>3 DEF SeatInv, NoSharedUnits, InRegister
<1> QED
  BY <1>5, <1>6, <1>7 DEF ScanInv, ConflictsAreGenuine

(***************************************************************************)
(* The seat a scan step gives is lawful and shares no unit with a seat     *)
(* given before it.                                                        *)
(***************************************************************************)
LEMMA AssignKeeps ==
  ASSUME ShapeInv, ScanInv, NEW v \in VRegs(fn), AssignRegister(v)
  PROVE  ScanInv'
<1>1. /\ UNCHANGED <<fn, tgt, interval, spilled, unplaced, stage>>
      /\ pending' = pending \ {v} /\ v \in pending /\ stage = "scan"
  BY DEF AssignRegister, Visits, livenessVars
<1>2. PICK r \in FreeCandidates(v) : loc' = [loc EXCEPT ![v] = Reg(r)]
  BY DEF AssignRegister
<1>3. Placing
  BY <1>1 DEF Placing, Scanned
<1>4. r \in Nat /\ Seat(v, r) /\ ~TakenByOther(v, r)
  BY <1>2, <1>3, CandidateType DEF FreeCandidates, Free, Seat
<1>5. /\ loc' \in [VRegs(fn) -> [kind : {"unused", "reg", "spill"}, at : Nat]]
      /\ loc'[v] = Reg(r) /\ \A w \in VRegs(fn) \ {v} : loc'[w] = loc[w]
  BY <1>2, <1>4 DEF ScanInv, QueueInv, Reg
<1>6. HasInterval(v)
  BY <1>1 DEF ScanInv, QueueInv
<1>7. QueueInv'
  <2>1. \A w \in pending' : w # v /\ w \in VRegs(fn) /\ HasInterval(w) /\ ~InRegister(w)
    BY <1>1 DEF ScanInv, QueueInv
  <2>2. \A w \in pending' : HasInterval(w)' /\ ~InRegister(w)'
    BY <1>1, <1>5, <2>1 DEF HasInterval, InRegister
  <2>3. \A w \in Members(spilled') : ~IsFixed(w)'
    BY <1>1, SeatFrame DEF ScanInv, QueueInv
  <2>4. Placing' => FixedConsistent(fn')
    BY <1>1, <1>3 DEF ScanInv, QueueInv
  <2> QED
    BY <1>1, <1>5, <2>2, <2>3, <2>4 DEF ScanInv, QueueInv
<1>8. PlacedInv'
  <2>1. loc'[v] # Unused
    BY <1>5 DEF Reg, Unused
  <2>2. \A w \in VRegs(fn) : HasInterval(w)' = HasInterval(w)
    BY <1>1 DEF HasInterval
  <2> QED
    BY <1>1, <1>3, <1>5, <1>6, <2>1, <2>2 DEF ScanInv, PlacedInv
<1>9. SeatInv'
  <2>1. \A q \in Nat : Reg(r) = Reg(q) => q = r
    BY DEF Reg
  <2>2. \A w \in VRegs(fn), q \in Nat : Seat(w, q)' = Seat(w, q) /\ IsFixed(w)' = IsFixed(w)
    BY <1>1, SeatFrame
  <2>3. \A w \in VRegs(fn) \ {v} : InRegister(w)' = InRegister(w)
    BY <1>5 DEF InRegister
  <2>4. /\ loc'[v].kind = "reg"
        /\ \A q \in Nat : loc'[v] = Reg(q) => Seat(v, q)'
    BY <1>4, <1>5, <2>1, <2>2 DEF Reg
  <2>5. \A w \in VRegs(fn) \ {v} :
          /\ loc'[w].kind = "unused" => loc'[w] = Unused
          /\ InRegister(w)' => \A q \in Nat : loc'[w] = Reg(q) => Seat(w, q)'
          /\ IsFixed(w)' => loc'[w].kind # "spill"
    BY <1>5, <2>2, <2>3 DEF ScanInv, SeatInv
  <2>6. fn' = fn
    BY <1>1
  <2> QED
    BY <2>4, <2>5, <2>6 DEF SeatInv
<1>10. NoSharedUnits'
  <2> SUFFICES ASSUME NEW x \in VRegs(fn), NEW y \in VRegs(fn), x # y,
                      InRegister(x)', InRegister(y)', Overlaps(x, y)
               PROVE  ~Alias(tgt, loc'[x].at, loc'[y].at)
    BY <1>1 DEF NoSharedUnits, Overlaps
  <2>1. loc'[v].at = r
    BY <1>5 DEF Reg
  <2>2. CASE x = v
    BY <1>4, <1>5, <2>1, <2>2 DEF TakenByOther, InRegister
  <2>3. CASE y = v
    <3>1. Overlaps(v, x) /\ InRegister(x) /\ loc'[x] = loc[x]
      BY <1>5, <2>3 DEF Overlaps, InRegister
    <3>2. ~Alias(tgt, r, loc[x].at)
      BY <1>4, <3>1 DEF TakenByOther
    <3> QED
      BY <2>1, <2>3, <3>1, <3>2 DEF Alias
  <2>4. CASE x # v /\ y # v
    BY <1>5, <2>4 DEF ScanInv, NoSharedUnits, InRegister
  <2> QED
    BY <2>2, <2>3, <2>4
<1> QED
  BY <1>1, <1>7, <1>8, <1>9, <1>10 DEF ScanInv, ConflictsAreGenuine

LEMMA SpillKeeps ==
  ASSUME ShapeInv, ScanInv, NEW v \in VRegs(fn), SpillValue(v)
  PROVE  ScanInv'
<1>1. /\ UNCHANGED <<fn, tgt, interval, loc, unplaced, stage>>
      /\ spilled' = Append(spilled, v)
      /\ pending' = pending \ {v} /\ v \in pending /\ stage = "scan"
      /\ fn.vregs[v].must_spill \/ ~IsFixed(v)
  BY DEF SpillValue, Visits, livenessVars
<1>2. Placing
  BY <1>1 DEF Placing, Scanned
<1>3. Members(spilled') = Members(spilled) \cup {v} /\ spilled' \in Seq(VRegs(fn))
  BY <1>1, QueueGrows DEF ScanInv, QueueInv
<1>4. ~IsFixed(v)
  BY <1>1, <1>2 DEF IsFixed, ShapeInv, Placing, Scanned, Valid, OperandsValid
<1>5. \A w \in VRegs(fn) :
        /\ HasInterval(w)' = HasInterval(w) /\ InRegister(w)' = InRegister(w)
        /\ IsFixed(w)' = IsFixed(w)
        /\ \A r \in Nat : Seat(w, r)' = Seat(w, r)
  BY <1>1, SeatFrame DEF InRegister
<1>6. QueueInv'
  <2>1. \A w \in pending' : HasInterval(w)' /\ ~InRegister(w)'
    BY <1>1, <1>5 DEF ScanInv, QueueInv
  <2>2. Members(spilled) \in SUBSET VRegs(fn)
    BY DEF ScanInv, QueueInv, Members
  <2>3. \A w \in Members(spilled') : ~IsFixed(w)'
    BY <1>3, <1>4, <1>5, <2>2 DEF ScanInv, QueueInv
  <2> QED
    BY <1>1, <1>2, <1>3, <2>1, <2>3 DEF ScanInv, QueueInv, FixedConsistent
<1>7. PlacedInv'
  BY <1>1, <1>2, <1>3, <1>5 DEF ScanInv, PlacedInv, QueueInv
<1>8. SeatInv' /\ NoSharedUnits'
  BY <1>1, <1>5 DEF ScanInv, SeatInv, NoSharedUnits, Overlaps
<1> QED
  BY <1>1, <1>6, <1>7, <1>8 DEF ScanInv, ConflictsAreGenuine

(***************************************************************************)
(* A conflict is never the fault of a seat given to another value: that    *)
(* value would have had to sit where this fixed value has its reservation. *)
(***************************************************************************)
LEMMA ConflictKeeps ==
  ASSUME ShapeInv, ScanInv, NEW v \in VRegs(fn), RegisterConflict(v)
  PROVE  ScanInv'
<1>1. /\ UNCHANGED <<fn, tgt, interval, loc, unplaced, spilled, pending>>
      /\ stage' = "register_conflict" /\ v \in pending /\ stage = "scan"
      /\ IsFixed(v) /\ FreeCandidates(v) = {}
  BY DEF RegisterConflict, Visits, allocVars
<1>2. Placing
  BY <1>1 DEF Placing, Scanned
<1>3. PICK op \in Fixed(fn) : op[1] = v
  BY <1>1 DEF IsFixed
<1>4. op[2] \in Candidates(v)
  BY <1>1, <1>3 DEF Candidates
<1>5. ClobberedAcross(v, op[2]) \/ ReservedForOther(v, op[2])
  <2> SUFFICES ASSUME TakenByOther(v, op[2]) PROVE FALSE
    BY <1>1, <1>4 DEF FreeCandidates, Free
  <2>1. PICK w \in VRegs(fn) :
          InRegister(w) /\ Overlaps(v, w) /\ Alias(tgt, op[2], loc[w].at)
    BY DEF TakenByOther
  <2>2. w # v /\ HasInterval(v)
    BY <1>1, <2>1 DEF ScanInv, QueueInv
  <2>3. PICK r \in Nat : loc[w] = Reg(r) /\ loc[w].at = r
    BY <2>1 DEF ScanInv, QueueInv, InRegister, Reg
  <2>4. ~ReservedForOther(w, r)
    BY <2>1, <2>3 DEF ScanInv, SeatInv, Seat
  <2>5. Overlaps(w, v) /\ Alias(tgt, r, op[2])
    BY <2>1, <2>3 DEF Overlaps, Alias
  <2> QED
    BY <1>3, <2>2, <2>4, <2>5 DEF ReservedForOther
<1>6. ConflictsAreGenuine'
  <2>1. ClobberedAcross(op[1], op[2])' \/ ReservedForOther(op[1], op[2])'
    BY <1>1, <1>3, <1>5 DEF ClobberedAcross, ReservedForOther, HasInterval, Overlaps
  <2> QED
    BY <1>1, <2>1 DEF ConflictsAreGenuine
<1>7. QueueInv'
  BY <1>1, <1>2 DEF ScanInv, QueueInv, HasInterval, InRegister, IsFixed
<1>8. PlacedInv'
  BY <1>1, <1>2 DEF ScanInv, PlacedInv, HasInterval
<1>9. \A w \in VRegs(fn), r \in Nat : Seat(w, r)' = Seat(w, r) /\ IsFixed(w)' = IsFixed(w)
  BY <1>1, SeatFrame
<1>10. SeatInv' /\ NoSharedUnits'
  BY <1>1, <1>9 DEF ScanInv, SeatInv, NoSharedUnits, Overlaps, InRegister
<1> QED
  BY <1>6, <1>7, <1>8, <1>10 DEF ScanInv

(***************************************************************************)
(* Steps that leave every seat alone.                                      *)
(***************************************************************************)
LEMMA SeatsStay ==
  ASSUME SeatInv, NoSharedUnits, QueueInv,
         UNCHANGED <<fn, tgt, interval>>,
         NEW v \in VRegs(fn), ~InRegister(v)', ~IsFixed(v),
         loc'[v].kind = "unused" => loc'[v] = Unused,
         \A w \in VRegs(fn) \ {v} : loc'[w] = loc[w]
  PROVE  SeatInv' /\ NoSharedUnits'
<1>1. \A w \in VRegs(fn), r \in Nat : Seat(w, r)' = Seat(w, r) /\ IsFixed(w)' = IsFixed(w)
  BY SeatFrame
<1>2. \A w \in VRegs(fn) \ {v} : InRegister(w)' = InRegister(w)
  BY DEF InRegister
<1>3. SeatInv'
  <2>1. \A w \in VRegs(fn) \ {v} :
          /\ loc'[w].kind = "unused" => loc'[w] = Unused
          /\ InRegister(w)' => \A r \in Nat : loc'[w] = Reg(r) => Seat(w, r)'
          /\ IsFixed(w)' => loc'[w].kind # "spill"
    BY <1>1, <1>2 DEF SeatInv
  <2> QED
    BY <1>1, <2>1 DEF SeatInv
<1>4. NoSharedUnits'
  BY <1>2 DEF NoSharedUnits, Overlaps
<1> QED
  BY <1>3, <1>4

(***************************************************************************)
(* The head of the spill queue has been placed or has found no room.       *)
(***************************************************************************)
LEMMA PlaceKeeps ==
  ASSUME ShapeInv, ScanInv, UNCHANGED <<fn, tgt, interval, pending, stage>>,
         stage = "spill", spilled # << >>, NEW v, v = Head(spilled),
         spilled' = Tail(spilled),
         \/ /\ unplaced' = unplaced
            /\ \E k \in Nat : loc' = [loc EXCEPT ![v] = Slot(k)]
         \/ unplaced' = unplaced \cup {v} /\ loc' = loc
  PROVE  ScanInv'
<1>1. /\ v \in VRegs(fn) /\ spilled' \in Seq(VRegs(fn))
      /\ Members(spilled) = {v} \cup Members(spilled')
  BY QueueParts DEF ScanInv, QueueInv
<1>2. ~IsFixed(v) /\ pending = {} /\ Placing
  BY <1>1 DEF ScanInv, QueueInv, Placing, Scanned
<1>3. \A w \in VRegs(fn) : HasInterval(w)' = HasInterval(w) /\ IsFixed(w)' = IsFixed(w)
  BY DEF HasInterval, IsFixed
<1>4. /\ loc' \in [VRegs(fn) -> [kind : {"unused", "reg", "spill"}, at : Nat]]
      /\ \A w \in VRegs(fn) \ {v} : loc'[w] = loc[w]
      /\ \/ loc' = loc /\ unplaced' = unplaced \cup {v}
         \/ loc'[v].kind = "spill" /\ loc'[v] # Unused
  <2>1. \A k \in Nat : /\ Slot(k) \in [kind : {"unused", "reg", "spill"}, at : Nat]
                       /\ Slot(k).kind = "spill" /\ Slot(k).kind # Unused.kind
    BY DEF Slot, Unused
  <2>2. loc \in [VRegs(fn) -> [kind : {"unused", "reg", "spill"}, at : Nat]]
    BY DEF ScanInv, QueueInv
  <2>3. CASE loc' = loc /\ unplaced' = unplaced \cup {v}
    BY <2>2, <2>3
  <2>4. ASSUME NEW k \in Nat, loc' = [loc EXCEPT ![v] = Slot(k)]
        PROVE  /\ loc' \in [VRegs(fn) -> [kind : {"unused", "reg", "spill"}, at : Nat]]
               /\ \A w \in VRegs(fn) \ {v} : loc'[w] = loc[w]
               /\ loc'[v].kind = "spill" /\ loc'[v] # Unused
    <3>1. loc'[v] = Slot(k)
      BY <1>1, <2>2, <2>4
    <3> QED
      BY <1>1, <2>1, <2>2, <2>4, <3>1
  <2> QED
    BY <2>3, <2>4
<1>5. QueueInv'
  <2>1. Members(spilled') \in SUBSET VRegs(fn)
    BY <1>1 DEF Members
  <2>2. \A w \in Members(spilled') : ~IsFixed(w)'
    BY <1>1, <1>3, <2>1 DEF ScanInv, QueueInv
  <2> QED
    BY <1>1, <1>2, <1>4, <2>2 DEF ScanInv, QueueInv
<1>6. PlacedInv'
  <2>1. loc'[v] # Unused \/ v \in unplaced'
    BY <1>4
  <2>2. unplaced' = unplaced \/ unplaced' = unplaced \cup {v}
    OBVIOUS
  <2>3. HasInterval(v)
    BY <1>1, <1>2 DEF ScanInv, PlacedInv
  <2>4. \A w \in VRegs(fn) :
          HasInterval(w) <=> w \in Members(spilled') \cup unplaced' \/ loc'[w] # Unused
    <3> SUFFICES ASSUME NEW w \in VRegs(fn)
                 PROVE  HasInterval(w) <=>
                          w \in Members(spilled') \cup unplaced' \/ loc'[w] # Unused
      OBVIOUS
    <3>1. CASE w = v
      BY <2>1, <2>3, <3>1
    <3>2. CASE w # v
      BY <1>1, <1>2, <1>4, <2>2, <3>2 DEF ScanInv, PlacedInv
    <3> QED
      BY <3>1, <3>2
  <2> QED
    BY <1>2, <1>3, <2>4 DEF PlacedInv
<1>7. SeatInv' /\ NoSharedUnits'
  <2>2. CASE loc'[v].kind = "spill"
    BY <1>1, <1>2, <1>4, <2>2, SeatsStay DEF ScanInv, InRegister
  <2>3. CASE loc' = loc
    <3>1. \A w \in VRegs(fn), r \in Nat : Seat(w, r)' = Seat(w, r) /\ IsFixed(w)' = IsFixed(w)
      BY SeatFrame
    <3> QED
      BY <2>3, <3>1 DEF ScanInv, SeatInv, NoSharedUnits, Overlaps, InRegister
  <2> QED
    BY <1>4, <2>2, <2>3
<1> QED
  BY <1>5, <1>6, <1>7 DEF ScanInv, ConflictsAreGenuine

LEMMA FinishKeeps ==
  ASSUME ShapeInv, ScanInv, EndScan \/ Finish
  PROVE  ScanInv'
<1>1. /\ UNCHANGED <<fn, tgt, interval, loc, unplaced, spilled, pending>>
      /\ \/ stage' = "spill" /\ pending = {}
         \/ /\ stage' \in {"done", "spill_exhausted"} /\ stage = "spill"
            /\ spilled = << >> /\ (stage' = "done" => unplaced = {})
      /\ Placing
  BY DEF EndScan, Finish, allocVars, Placing, Scanned
<1>2. \A w \in VRegs(fn), r \in Nat :
        /\ Seat(w, r)' = Seat(w, r) /\ IsFixed(w)' = IsFixed(w)
        /\ HasInterval(w)' = HasInterval(w)
  BY <1>1, SeatFrame
<1>3. QueueInv'
  BY <1>1 DEF ScanInv, QueueInv, HasInterval, InRegister, IsFixed
<1>4. PlacedInv'
  BY <1>1 DEF ScanInv, PlacedInv, HasInterval
<1>5. SeatInv' /\ NoSharedUnits'
  BY <1>1, <1>2 DEF ScanInv, SeatInv, NoSharedUnits, Overlaps, InRegister
<1> QED
  BY <1>1, <1>3, <1>4, <1>5 DEF ScanInv, ConflictsAreGenuine

LEMMA ScanStep ==
  ASSUME ShapeInv, PlaceTypeOK, ScanInv, [AllocNext]_scanVars,
         ShapeInv', (ShapeInv /\ ~Placing => ScanInv)'
  PROVE  ScanInv'
<1>1. CASE CheckInput
  BY <1>1 DEF CheckInput, Placing, Scanned
<1>2. CASE Analyse
  BY <1>2 DEF Analyse, LivenessNext, ValidateShape, VisitBlock, NextPass,
              LivenessDone, Placing, Scanned
<1>3. CASE BeginScan
  <2>1. stage' = "scan" \/ ~Placing'
    BY <1>3 DEF BeginScan, Placing, Scanned
  <2> QED
    BY <1>3, <2>1, StartScan
<1>4. CASE PlacingStep
  <2>1. ASSUME NEW v \in VRegs(fn), AssignRegister(v) \/ SpillValue(v) \/ RegisterConflict(v)
        PROVE  ScanInv'
    BY <2>1, AssignKeeps, SpillKeeps, ConflictKeeps
  <2>2. CASE EndScan \/ Finish
    BY <2>2, FinishKeeps
  <2>3. ASSUME NEW v \in VRegs(fn), NEW c \in DOMAIN tgt.spills,
               ShareSlot(v, c) \/ CreateSlot(v, c)
        PROVE  ScanInv'
    <3>1. /\ UNCHANGED <<fn, tgt, interval, pending, stage, unplaced>>
          /\ stage = "spill" /\ spilled # << >> /\ v = Head(spilled)
          /\ spilled' = Tail(spilled)
      BY <2>3 DEF ShareSlot, CreateSlot, PlacedIn, livenessVars
    <3>2. \E k \in Nat : loc' = [loc EXCEPT ![v] = Slot(k)]
      BY <2>3, ShareEffect, CreateEffect
    <3> QED
      BY <3>1, <3>2, PlaceKeeps
  <2>4. ASSUME NEW v \in VRegs(fn), SpillExhausted(v)
        PROVE  ScanInv'
    BY <2>4, PlaceKeeps DEF SpillExhausted, livenessVars
  <2> QED
    BY <1>4, <2>1, <2>2, <2>3, <2>4 DEF PlacingStep
<1>5. CASE UNCHANGED scanVars
  <2>1. UNCHANGED <<fn, tgt, interval, pending, stage, loc, spilled, unplaced>>
    BY <1>5 DEF scanVars, allocVars, livenessVars
  <2>2. \A w \in VRegs(fn), r \in Nat :
          /\ Seat(w, r)' = Seat(w, r) /\ IsFixed(w)' = IsFixed(w)
          /\ HasInterval(w)' = HasInterval(w)
    BY <2>1, SeatFrame
  <2>3. QueueInv' /\ PlacedInv'
    BY <2>1 DEF ScanInv, QueueInv, PlacedInv, HasInterval, InRegister, IsFixed,
                Placing, Scanned
  <2>4. SeatInv' /\ NoSharedUnits'
    BY <2>1, <2>2 DEF ScanInv, SeatInv, NoSharedUnits, Overlaps, InRegister
  <2>5. ConflictsAreGenuine'
    BY <2>1 DEF ScanInv, ConflictsAreGenuine, ClobberedAcross, ReservedForOther,
                HasInterval, Overlaps
  <2> QED
    BY <2>3, <2>4, <2>5 DEF ScanInv
<1> QED
  BY <1>1, <1>2, <1>3, <1>4, <1>5, NextCases

(***************************************************************************)
(* The scan for every input: overlapping values share no register unit,    *)
(* and a reported conflict is one the function's own demands force.        *)
(***************************************************************************)
THEOREM ScanCorrect == AllocSpec => []ScanInv
<1>1. AllocInit /\ ShapeInv => ScanInv
  BY IdleScan DEF AllocInit, Placing, Scanned
<1>2. ShapeInv /\ PlaceTypeOK /\ ScanInv /\ [AllocNext]_scanVars /\ ShapeInv'
        /\ (ShapeInv /\ ~Placing => ScanInv)' => ScanInv'
  BY ScanStep
<1> QED
  BY <1>1, <1>2, IdleScan, ShapeCorrect, AllocTypeCorrect, PTL DEF AllocSpec

(***************************************************************************)
(* No two values whose intervals overlap share a register unit.            *)
(***************************************************************************)
THEOREM NoSharedUnitsCorrect == AllocSpec => []NoSharedUnits
<1>1. ScanInv => NoSharedUnits
  BY DEF ScanInv
<1> QED
  BY <1>1, ScanCorrect, PTL

(***************************************************************************)
(* A RegisterConflict is forced by the function's fixed operands and       *)
(* clobbers alone.                                                         *)
(***************************************************************************)
THEOREM ConflictsAreGenuineCorrect == AllocSpec => []ConflictsAreGenuine
<1>1. ScanInv => ConflictsAreGenuine
  BY DEF ScanInv
<1> QED
  BY <1>1, ScanCorrect, PTL

(***************************************************************************)
(* Success leaves no value of the code without a location.                 *)
(***************************************************************************)
THEOREM EveryValuePlacedCorrect == AllocSpec => []EveryValuePlaced
<1>1. ScanInv => EveryValuePlaced
  <2> SUFFICES ASSUME ScanInv, stage = "done", NEW v \in VRegs(fn)
               PROVE  loc[v] = Unused <=> ~HasInterval(v)
    BY DEF EveryValuePlaced
  <2>1. pending = {} /\ Members(spilled) = {} /\ unplaced = {} /\ Placing
    BY DEF ScanInv, QueueInv, Members, Placing, Scanned
  <2> QED
    BY <2>1 DEF ScanInv, PlacedInv
<1> QED
  BY <1>1, ScanCorrect, PTL

(***************************************************************************)
(* Success gives every fixed operand its register.                         *)
(***************************************************************************)
LEMMA FixedIsTouched ==
  ASSUME ShapeInv, Placing, NEW op \in Fixed(fn)
  PROVE  /\ op[1] \in VRegs(fn) /\ op[2] \in Nat /\ IsFixed(op[1])
         /\ HasInterval(op[1])
<1>1. Valid(tgt, fn) /\ fn \in Function /\ LivenessSetsOK
  BY DEF ShapeInv, LivenessSetsOK, Placing, Scanned
<1>2. PICK s \in Sites(fn) :
        op \in InstrAt(fn, s).fixed_uses \cup InstrAt(fn, s).fixed_defs
  BY DEF Fixed
<1>3. op[1] \in AllUses(InstrAt(fn, s)) \cup AllDefs(InstrAt(fn, s))
  BY <1>2 DEF AllUses, AllDefs
<1>4. op[1] \in VRegs(fn)
  BY <1>1, <1>2, <1>3 DEF Valid, ShapeValid
<1>5. InstrAt(fn, s) \in Instruction
  BY <1>1, SiteIsPair, FunctionShape DEF InstrAt
<1>6. op[2] \in Nat
  BY <1>2, <1>5 DEF Instruction
<1>7. Touched(op[1]) # {}
  BY <1>3 DEF Touched
<1>8. IntervalOf(op[1]).start \in Nat
  BY <1>1, <1>7, IntervalSpans
<1>9. HasInterval(op[1])
  BY <1>4, <1>8 DEF HasInterval, NoInterval, ShapeInv
<1> QED
  BY <1>4, <1>6, <1>9 DEF IsFixed

THEOREM FixedOperandsHonouredCorrect == AllocSpec => []FixedOperandsHonoured
<1>1. ShapeInv /\ ScanInv => FixedOperandsHonoured
  <2> SUFFICES ASSUME ShapeInv, ScanInv, stage = "done", NEW op \in Fixed(fn)
               PROVE  loc[op[1]] = Reg(op[2])
    BY DEF FixedOperandsHonoured
  <2>1. Placing /\ pending = {} /\ Members(spilled) = {} /\ unplaced = {}
    BY DEF ScanInv, QueueInv, Members, Placing, Scanned
  <2>2. op[1] \in VRegs(fn) /\ IsFixed(op[1]) /\ HasInterval(op[1])
    BY <2>1, FixedIsTouched
  <2>3. loc[op[1]] # Unused
    BY <2>1, <2>2 DEF ScanInv, PlacedInv
  <2>4. InRegister(op[1])
    BY <2>2, <2>3 DEF ScanInv, QueueInv, SeatInv, InRegister
  <2>5. PICK r \in Nat : loc[op[1]] = Reg(r)
    BY <2>2, <2>4 DEF ScanInv, QueueInv, InRegister, Reg
  <2>6. <<op[1], r>> \in Fixed(fn)
    BY <2>2, <2>4, <2>5 DEF ScanInv, SeatInv, Seat
  <2>7. FixedConsistent(fn)
    BY <2>1 DEF ScanInv, QueueInv
  <2>8. r = op[2]
    BY <2>6, <2>7 DEF FixedConsistent
  <2> QED
    BY <2>5, <2>8
<1> QED
  BY <1>1, ShapeCorrect, ScanCorrect, PTL

(***************************************************************************)
(* A value live after an instruction that does not define it was live      *)
(* before it, so its interval crosses the instruction's clobbers.          *)
(***************************************************************************)
LEMMA LiveThrough ==
  ASSUME fn \in Function, NEW b \in Blocks(fn), NEW i \in DOMAIN Code(fn, b),
         NEW v, LiveBefore(v, b, i + 1), v \notin AllDefs(Code(fn, b)[i])
  PROVE  LiveBefore(v, b, i)
<1> DEFINE n == Len(Code(fn, b))
<1>1. n \in Nat /\ i \in 1..n
  BY FunctionShape
<1>2. ASSUME NEW j \in Nat, DefinedIn(v, b, i, j)
      PROVE  DefinedIn(v, b, i + 1, j)
  <2>1. PICK k \in i..j : v \in AllDefs(Code(fn, b)[k])
    BY <1>2 DEF DefinedIn
  <2>2. k \in (i + 1)..j
    BY <1>1, <2>1
  <2> QED
    BY <2>1, <2>2 DEF DefinedIn
<1>3. CASE v \in live_out[b] /\ ~DefinedIn(v, b, i + 1, n)
  BY <1>1, <1>2, <1>3 DEF LiveBefore
<1>4. ASSUME NEW j \in (i + 1)..n, v \in AllUses(Code(fn, b)[j]),
             ~DefinedIn(v, b, i + 1, j - 1)
      PROVE  LiveBefore(v, b, i)
  <2>1. j \in i..n /\ j - 1 \in Nat
    BY <1>1
  <2>2. ~DefinedIn(v, b, i, j - 1)
    BY <1>2, <1>4, <2>1
  <2> QED
    BY <1>4, <2>1, <2>2 DEF LiveBefore
<1> QED
  BY <1>3, <1>4 DEF LiveBefore

LEMMA ClobbersSpareState ==
  ASSUME ShapeInv, PlaceTypeOK, ScanInv
  PROVE  ClobbersSpareLiveValues
<1> SUFFICES ASSUME NEW s \in Sites(fn), NEW v \in VRegs(fn), InRegister(v),
                    LiveBefore(v, s[1], s[2] + 1), v \notin AllDefs(InstrAt(fn, s)),
                    NEW c \in InstrAt(fn, s).clobbers
             PROVE  ~Alias(tgt, loc[v].at, c)
  BY DEF ClobbersSpareLiveValues
<1>1. Placing
  BY DEF ShapeInv, NothingPlaced, InRegister, Unused
<1>2. s = <<s[1], s[2]>> /\ s[1] \in Blocks(fn) /\ s[2] \in DOMAIN Code(fn, s[1])
  BY SiteIsPair
<1>3. LiveBefore(v, s[1], s[2])
  BY <1>2, LiveThrough DEF ShapeInv, LivenessSetsOK, InstrAt
<1>4. /\ interval[v].start <= UsePoint(fn, s)
      /\ DefPoint(fn, s) <= interval[v].end
  BY <1>1, <1>2, <1>3, CoverBefore, CoverAfter
<1>5. interval[v].end \in Int /\ DefPoint(fn, s) \in Nat
  BY PointType DEF ShapeInv, LivenessSetsOK
<1>6. PICK r \in Nat : loc[v] = Reg(r) /\ loc[v].at = r
  BY DEF PlaceTypeOK, InRegister, Reg
<1>7. ~ClobberedAcross(v, r)
  BY <1>6 DEF ScanInv, SeatInv, Seat
<1> QED
  BY <1>4, <1>5, <1>6, <1>7 DEF ClobberedAcross

(***************************************************************************)
(* No instruction clobbers a register whose value is still wanted.         *)
(***************************************************************************)
THEOREM ClobbersSpareLiveValuesCorrect == AllocSpec => []ClobbersSpareLiveValues
BY ClobbersSpareState, ShapeCorrect, AllocTypeCorrect, ScanCorrect, PTL
=============================================================================

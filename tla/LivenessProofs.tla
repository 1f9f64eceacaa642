--------------------------- MODULE LivenessProofs ---------------------------
(***************************************************************************)
(* Proofs about analyze_liveness for every function, of any size and any   *)
(* control flow; first, that instruction_layout puts the points of a block *)
(* in the order of its instructions and inside the range of the block.     *)
(***************************************************************************)
EXTENDS Liveness, FiniteSetsExt, FiniteSetTheorems, WellFoundedInduction, TLAPS

LEMMA FunctionShape ==
  ASSUME NEW f \in Function
  PROVE  /\ Len(f.blocks) \in Nat /\ Blocks(f) = 1..Len(f.blocks)
         /\ Len(f.vregs) \in Nat /\ VRegs(f) = 1..Len(f.vregs)
         /\ \A b \in Blocks(f) : /\ Code(f, b) \in Seq(Instruction)
                                 /\ Len(Code(f, b)) \in Nat
                                 /\ DOMAIN Code(f, b) = 1..Len(Code(f, b))
<1>1. f.blocks \in Seq(BasicBlock) /\ f.vregs \in Seq(VirtualRegister)
  BY DEF Function
<1>2. Len(f.blocks) \in Nat /\ Blocks(f) = 1..Len(f.blocks)
  BY <1>1 DEF Blocks
<1>3. Len(f.vregs) \in Nat /\ VRegs(f) = 1..Len(f.vregs)
  BY <1>1 DEF VRegs
<1>4. ASSUME NEW b \in Blocks(f)
      PROVE  Code(f, b) \in Seq(Instruction)
  <2>1. f.blocks[b] \in BasicBlock
    BY <1>1, <1>2
  <2> QED
    BY <2>1 DEF BasicBlock, Code
<1>5. ASSUME NEW q \in Seq(Instruction)
      PROVE  Len(q) \in Nat /\ DOMAIN q = 1..Len(q)
  OBVIOUS
<1> QED
  BY <1>2, <1>3, <1>4, <1>5

LEMMA SiteShape ==
  ASSUME NEW f, NEW b, NEW i
  PROVE  <<b, i>> \in Sites(f) <=> b \in Blocks(f) /\ i \in DOMAIN Code(f, b)
BY DEF Sites

LEMMA SiteIsPair ==
  ASSUME NEW f, NEW s \in Sites(f)
  PROVE  s = <<s[1], s[2]>> /\ s[1] \in Blocks(f) /\ s[2] \in DOMAIN Code(f, s[1])
BY DEF Sites

LEMMA SitesFinite ==
  ASSUME NEW f \in Function
  PROVE  IsFiniteSet(Sites(f))
<1> DEFINE Row == [b \in Blocks(f) |-> {b} \X DOMAIN Code(f, b)]
           Rows == {{b} \X DOMAIN Code(f, b) : b \in Blocks(f)}
<1>1. IsFiniteSet(Blocks(f))
  BY FunctionShape, FS_Interval
<1>2. Row \in Surjection(Blocks(f), Rows)
  BY DEF Surjection
<1>3. IsFiniteSet(Rows)
  BY <1>1, <1>2, FS_Surjection
<1>4. ASSUME NEW b \in Blocks(f)
      PROVE  IsFiniteSet({b} \X DOMAIN Code(f, b))
  <2>1. IsFiniteSet(DOMAIN Code(f, b))
    BY FunctionShape, FS_Interval
  <2>2. IsFiniteSet({b})
    BY FS_Singleton
  <2> QED
    BY <2>1, <2>2, FS_Product
<1>5. \A R \in Rows : IsFiniteSet(R)
  BY <1>4
<1>6. IsFiniteSet(UNION Rows)
  BY <1>3, <1>5, FS_UNION
<1> QED
  BY <1>6 DEF Sites

(***************************************************************************)
(* Every point is a natural number below twice the number of instructions. *)
(***************************************************************************)
LEMMA LaidOutCount ==
  ASSUME NEW f \in Function, NEW b, NEW i
  PROVE  /\ IsFiniteSet(LaidOutBefore(f, b, i))
         /\ Cardinality(LaidOutBefore(f, b, i)) \in Nat
         /\ Cardinality(Sites(f)) \in Nat
         /\ Cardinality(LaidOutBefore(f, b, i)) <= Cardinality(Sites(f))
<1>1. LaidOutBefore(f, b, i) \in SUBSET Sites(f)
  BY DEF LaidOutBefore
<1> QED
  BY <1>1, SitesFinite, FS_Subset, FS_CardinalityType

LEMMA PointType ==
  ASSUME NEW f \in Function
  PROVE  /\ \A s : /\ UsePoint(f, s) \in Nat /\ DefPoint(f, s) \in Nat
                   /\ UsePoint(f, s) < DefPoint(f, s)
                   /\ DefPoint(f, s) <= 2 * Cardinality(Sites(f)) + 1
         /\ \A b : /\ BlockStart(f, b) \in Nat /\ BlockEnd(f, b) \in Nat
                   /\ BlockStart(f, b) <= 2 * Cardinality(Sites(f)) + 1
                   /\ BlockEnd(f, b) <= 2 * Cardinality(Sites(f)) + 1
         /\ 2 * Cardinality(Sites(f)) + 1 \in Nat
<1>1. \A s : /\ UsePoint(f, s) \in Nat /\ DefPoint(f, s) \in Nat
             /\ UsePoint(f, s) < DefPoint(f, s)
             /\ DefPoint(f, s) <= 2 * Cardinality(Sites(f)) + 1
  BY LaidOutCount DEF UsePoint, DefPoint
<1>2. \A b : /\ BlockStart(f, b) \in Nat
             /\ BlockStart(f, b) <= 2 * Cardinality(Sites(f)) + 1
  BY LaidOutCount DEF BlockStart
<1>3. \A b : /\ BlockEnd(f, b) \in Nat
             /\ BlockEnd(f, b) <= 2 * Cardinality(Sites(f)) + 1
  BY <1>1, <1>2 DEF BlockEnd
<1> QED
  BY <1>1, <1>2, <1>3, LaidOutCount

(***************************************************************************)
(* Within a block an earlier instruction defines before a later one uses.  *)
(***************************************************************************)
LEMMA PointOrder ==
  ASSUME NEW f \in Function, NEW b \in Blocks(f),
         NEW i \in DOMAIN Code(f, b), NEW j \in DOMAIN Code(f, b), i < j
  PROVE  DefPoint(f, <<b, i>>) < UsePoint(f, <<b, j>>)
<1> DEFINE Before == LaidOutBefore(f, b, i)
           Later  == LaidOutBefore(f, b, j)
<1>0. i \in Nat /\ j \in Nat /\ b \in Nat
  BY FunctionShape
<1>1. Before \in SUBSET Later
  <2> SUFFICES ASSUME NEW s \in Before PROVE s \in Later
    OBVIOUS
  <2>1. s \in Sites(f) /\ (s[1] < b \/ (s[1] = b /\ s[2] < i))
    BY DEF LaidOutBefore
  <2>2. CASE s[1] < b
    BY <2>1, <2>2 DEF LaidOutBefore
  <2>3. CASE s[1] = b /\ s[2] < i
    <3>1. s[2] \in Nat
      BY <2>1, <2>3, SiteIsPair, FunctionShape
    <3>2. s[2] < j
      BY <1>0, <2>3, <3>1
    <3> QED
      BY <2>1, <2>3, <3>2 DEF LaidOutBefore
  <2> QED
    BY <2>1, <2>2, <2>3
<1>2. <<b, i>> \in Later /\ <<b, i>> \notin Before
  <2>1. <<b, i>> \in Sites(f)
    BY SiteShape
  <2> QED
    BY <1>0, <2>1 DEF LaidOutBefore
<1>3. IsFiniteSet(Later) /\ Cardinality(Later) \in Nat /\ Cardinality(Before) \in Nat
  BY LaidOutCount
<1> HIDE DEF Before, Later
<1>4. Cardinality(Before) <= Cardinality(Later)
      /\ (Cardinality(Later) = Cardinality(Before) => Later = Before)
  BY <1>1, <1>3, FS_Subset
<1>5. Cardinality(Before) + 1 <= Cardinality(Later)
  BY <1>2, <1>3, <1>4
<1>6. UsePoint(f, <<b, i>>) = 2 * Cardinality(Before)
      /\ UsePoint(f, <<b, j>>) = 2 * Cardinality(Later)
  BY DEF UsePoint, Before, Later
<1> QED
  BY <1>3, <1>5, <1>6 DEF DefPoint

(***************************************************************************)
(* The points of an instruction lie in the range of its block.             *)
(***************************************************************************)
LEMMA BlockSpan ==
  ASSUME NEW f \in Function, NEW b \in Blocks(f), NEW i \in DOMAIN Code(f, b)
  PROVE  /\ BlockStart(f, b) <= UsePoint(f, <<b, i>>)
         /\ DefPoint(f, <<b, i>>) <= BlockEnd(f, b)
<1> DEFINE n == Len(Code(f, b))
<1>1. n \in Nat /\ DOMAIN Code(f, b) = 1..n /\ i \in 1..n /\ n \in 1..n
  BY FunctionShape
<1>2. Code(f, b) # << >>
  BY <1>1
<1>3. BlockStart(f, b) = UsePoint(f, <<b, 1>>) /\ 1 \in DOMAIN Code(f, b)
  BY <1>1 DEF BlockStart, UsePoint
<1>4. BlockEnd(f, b) = DefPoint(f, <<b, n>>)
  BY <1>2 DEF BlockEnd
<1>5. BlockStart(f, b) <= UsePoint(f, <<b, i>>)
  <2>1. CASE i = 1
    BY <1>3, <2>1, PointType
  <2>2. CASE 1 < i
    <3>1. DefPoint(f, <<b, 1>>) < UsePoint(f, <<b, i>>)
      BY <1>3, <2>2, PointOrder
    <3> QED
      BY <1>3, <3>1, PointType
  <2> QED
    BY <1>1, <2>1, <2>2
<1>6. DefPoint(f, <<b, i>>) <= BlockEnd(f, b)
  <2>1. CASE i = n
    BY <1>4, <2>1, PointType
  <2>2. CASE i < n
    <3>1. DefPoint(f, <<b, i>>) < UsePoint(f, <<b, n>>)
      BY <1>1, <2>2, PointOrder
    <3> QED
      BY <1>4, <3>1, PointType
  <2> QED
    BY <1>1, <2>1, <2>2
<1> QED
  BY <1>5, <1>6

-----------------------------------------------------------------------------
(***************************************************************************)
(* A nonempty set of naturals has a least member and, if it is bounded, a  *)
(* greatest one: the two ends extend_interval keeps.                       *)
(***************************************************************************)
LEMMA LeastNatural ==
  ASSUME NEW T \in SUBSET Nat, T # {}
  PROVE  \E x \in T : \A y \in T : x <= y
<1>1. PICK x \in T : \A y \in T : ~(<<y, x>> \in OpToRel(<, Nat))
  BY NatLessThanWellFounded, WFMin
<1>2. \A y \in T : ~(y < x)
  BY <1>1 DEF OpToRel
<1>3. \A y \in T : x <= y
  BY <1>2
<1> QED
  BY <1>3

LEMMA EndsOfSet ==
  ASSUME NEW T \in SUBSET Nat, T # {}, NEW N \in Nat, \A y \in T : y <= N
  PROVE  /\ Min(T) \in T /\ Max(T) \in T
         /\ \A y \in T : Min(T) <= y /\ y <= Max(T)
<1>1. Min(T) \in T /\ \A y \in T : Min(T) <= y
  BY LeastNatural DEF Min
<1>2. \E x \in T : \A y \in T : x >= y
  <2> DEFINE Gaps == {N - y : y \in T}
  <2>1. \A y \in T : N - y \in Nat
    OBVIOUS
  <2>2a. Gaps \subseteq Nat
    BY <2>1
  <2>2b. Gaps # {}
    OBVIOUS
  <2> HIDE DEF Gaps
  <2>2. PICK g \in Gaps : \A h \in Gaps : g <= h
    BY <2>2a, <2>2b, LeastNatural
  <2>3. PICK x \in T : g = N - x
    BY <2>2 DEF Gaps
  <2>4. \A y \in T : N - y \in Gaps
    BY DEF Gaps
  <2>5. \A y \in T : x >= y
    BY <2>2, <2>3, <2>4
  <2> QED
    BY <2>5
<1>3. Max(T) \in T /\ \A y \in T : Max(T) >= y
  BY <1>2 DEF Max
<1> QED
  BY <1>1, <1>3

-----------------------------------------------------------------------------

(***************************************************************************)
(* What a block reads first and what it defines are registers of a         *)
(* function whose shape is valid.                                          *)
(***************************************************************************)
LEMMA GenKillType ==
  ASSUME NEW f, ShapeValid(f), NEW b \in Blocks(f)
  PROVE  Gen(f, b) \subseteq VRegs(f) /\ Kill(f, b) \subseteq VRegs(f)
<1>1. ASSUME NEW i \in DOMAIN Code(f, b)
      PROVE  AllUses(Code(f, b)[i]) \cup AllDefs(Code(f, b)[i])
               \subseteq VRegs(f)
  <2>1. <<b, i>> \in Sites(f)
    BY <1>1 DEF Sites
  <2>2. InstrAt(f, <<b, i>>) = Code(f, b)[i]
    BY DEF InstrAt
  <2> QED
    BY <2>1, <2>2 DEF ShapeValid
<1> QED
  BY <1>1 DEF Gen, Kill

LEMMA LengthType ==
  ASSUME NEW f \in Function
  PROVE  Len(f.blocks) \in Nat /\ Blocks(f) = 1..Len(f.blocks)
BY DEF Function, Blocks

(***************************************************************************)
(* A block's new sets are sets of registers.                               *)
(***************************************************************************)
LEMMA NewSetsType ==
  ASSUME LivenessSetsOK, ShapeValid(fn), NEW b \in Blocks(fn)
  PROVE  NewOut(b) \subseteq VRegs(fn) /\ NewIn(b) \subseteq VRegs(fn)
<1>1. NewOut(b) \subseteq VRegs(fn)
  BY DEF NewOut, LivenessSetsOK, ShapeValid
<1>2. Gen(fn, b) \subseteq VRegs(fn)
  BY GenKillType
<1> QED
  BY <1>1, <1>2 DEF NewIn

(***************************************************************************)
(* A step of the analysis keeps its sets well-typed, whatever called it.   *)
(***************************************************************************)
LEMMA SetsStep ==
  ASSUME LivenessSetsOK, [LivenessNext]_livenessVars
  PROVE  LivenessSetsOK'
<1>1. Len(fn.blocks) \in Nat /\ Blocks(fn) = 1..Len(fn.blocks)
  BY LengthType DEF LivenessSetsOK
<1>2. CASE ValidateShape
  BY <1>2 DEF ValidateShape, LivenessSetsOK
<1>3. CASE VisitBlock
  <2>1. ShapeValid(fn) /\ cursor \in Blocks(fn)
    BY <1>1, <1>3 DEF VisitBlock, LivenessSetsOK
  <2>2. NewOut(cursor) \subseteq VRegs(fn) /\ NewIn(cursor) \subseteq VRegs(fn)
    BY <2>1, NewSetsType
  <2>3. live_in' \in [Blocks(fn) -> SUBSET VRegs(fn)]
    BY <1>3, <2>1, <2>2 DEF VisitBlock, LivenessSetsOK
  <2>4. live_out' \in [Blocks(fn) -> SUBSET VRegs(fn)]
    BY <1>3, <2>1, <2>2 DEF VisitBlock, LivenessSetsOK
  <2>5. cursor' \in 0..Len(fn.blocks)
    BY <1>1, <1>3 DEF VisitBlock, LivenessSetsOK
  <2>6. fn' = fn /\ stage' = stage /\ changed' \in BOOLEAN
    BY <1>3 DEF VisitBlock, Dirty, LivenessSetsOK
  <2> QED
    BY <2>1, <2>3, <2>4, <2>5, <2>6 DEF LivenessSetsOK
<1>4. CASE NextPass
  <2>1. Len(fn.blocks) \in 0..Len(fn.blocks)
    BY <1>1
  <2> QED
    BY <1>4, <2>1 DEF NextPass, LivenessSetsOK
<1>5. CASE LivenessDone
  BY <1>5 DEF LivenessDone, LivenessSetsOK
<1>6. CASE UNCHANGED livenessVars
  BY <1>6 DEF livenessVars, LivenessSetsOK
<1> QED
  BY <1>2, <1>3, <1>4, <1>5, <1>6 DEF LivenessNext

(***************************************************************************)
(* analyze_liveness only names registers and blocks of its function.       *)
(***************************************************************************)
THEOREM LivenessTypeCorrect == LivenessSpec => []LivenessTypeOK
<1>1. LivenessInit => LivenessTypeOK
  <2> SUFFICES ASSUME LivenessInit PROVE LivenessTypeOK
    OBVIOUS
  <2>1. fn \in Function
    BY FunctionsAssumption DEF LivenessInit
  <2>2. Len(fn.blocks) \in Nat
    BY <2>1, LengthType
  <2>3. Len(fn.blocks) \in 0..Len(fn.blocks)
    BY <2>2
  <2> QED
    BY <2>1, <2>3
    DEF LivenessInit, LivenessTypeOK, LivenessSetsOK, LivenessStages
<1>2. LivenessTypeOK /\ [LivenessNext]_livenessVars => LivenessTypeOK'
  <2> SUFFICES ASSUME LivenessTypeOK, [LivenessNext]_livenessVars
               PROVE  LivenessTypeOK'
    OBVIOUS
  <2>1. LivenessSetsOK'
    BY SetsStep DEF LivenessTypeOK
  <2>2. stage' \in LivenessStages
    BY DEF LivenessTypeOK, LivenessStages, LivenessNext, livenessVars,
           ValidateShape, VisitBlock, NextPass, LivenessDone
  <2> QED
    BY <2>1, <2>2 DEF LivenessTypeOK
<1> QED
  BY <1>1, <1>2, PTL DEF LivenessSpec

-----------------------------------------------------------------------------
(***************************************************************************)
(* Visiting a block can disturb the equations of its predecessors only,    *)
(* and a visit that changes nothing disturbs none: that is why one quiet   *)
(* pass settles every block.                                               *)
(***************************************************************************)
QuietInv ==
  /\ stage \in {"check", "validate"} => cursor = Len(fn.blocks)
  /\ QuietPassSettles
  /\ ResultSolvesEquations

LEMMA QuietVisit ==
  ASSUME LivenessSetsOK, VisitBlock, ~changed'
  PROVE  /\ ~changed /\ cursor \in Blocks(fn)
         /\ live_in' = live_in /\ live_out' = live_out
         /\ Settled(cursor)
<1>1. ~changed /\ NewOut(cursor) = live_out[cursor] /\ NewIn(cursor) = live_in[cursor]
  BY DEF VisitBlock, Dirty
<1>2. cursor \in Blocks(fn)
  <2>1. Len(fn.blocks) \in Nat /\ Blocks(fn) = 1..Len(fn.blocks)
    BY LengthType DEF LivenessSetsOK
  <2> QED
    BY <2>1 DEF VisitBlock, LivenessSetsOK
<1>3. live_in' = live_in /\ live_out' = live_out
  BY <1>1, <1>2 DEF VisitBlock, LivenessSetsOK
<1> QED
  BY <1>1, <1>2, <1>3 DEF Settled

LEMMA QuietStep ==
  ASSUME LivenessSetsOK, QuietInv, [LivenessNext]_livenessVars
  PROVE  QuietInv'
<1>1. Len(fn.blocks) \in Nat /\ Blocks(fn) = 1..Len(fn.blocks)
  BY LengthType DEF LivenessSetsOK
<1>2. CASE ValidateShape
  BY <1>1, <1>2
  DEF ValidateShape, LivenessSetsOK, QuietInv, QuietPassSettles,
      ResultSolvesEquations, Analysed, Settled, LivenessInit
<1>3. CASE VisitBlock
  <2>1. ResultSolvesEquations'
    BY <1>3 DEF VisitBlock, ResultSolvesEquations, Analysed
  <2>2. ASSUME stage' = "liveness", ~changed', NEW b \in Blocks(fn), b > cursor'
        PROVE  Settled(b)'
    <3>1. /\ ~changed /\ cursor \in Blocks(fn)
          /\ live_in' = live_in /\ live_out' = live_out
          /\ Settled(cursor)
      BY <1>3, <2>2, QuietVisit
    <3>2. b = cursor \/ b > cursor
      BY <1>1, <1>3, <2>2 DEF VisitBlock, LivenessSetsOK
    <3>3. Settled(b)
      BY <1>3, <3>1, <3>2 DEF QuietInv, QuietPassSettles, VisitBlock
    <3> QED
      BY <1>3, <3>1, <3>3 DEF Settled, NewOut, NewIn, VisitBlock
  <2>3. fn' = fn /\ stage' = "liveness"
    BY <1>3 DEF VisitBlock
  <2>4. QuietPassSettles'
    BY <2>2, <2>3 DEF QuietPassSettles
  <2> QED
    BY <2>1, <2>3, <2>4 DEF QuietInv
<1>4. CASE NextPass
  BY <1>1, <1>4
  DEF NextPass, QuietInv, QuietPassSettles, ResultSolvesEquations, Analysed
<1>5. CASE LivenessDone
  <2>1. \A b \in Blocks(fn) : Settled(b)
    BY <1>1, <1>5 DEF LivenessDone, QuietInv, QuietPassSettles
  <2> QED
    BY <1>5, <2>1
    DEF LivenessDone, QuietInv, QuietPassSettles, ResultSolvesEquations, Analysed,
        Settled, NewOut, NewIn
<1>6. CASE UNCHANGED livenessVars
  BY <1>6
  DEF livenessVars, QuietInv, QuietPassSettles, ResultSolvesEquations, Analysed,
      Settled, NewOut, NewIn
<1> QED
  BY <1>2, <1>3, <1>4, <1>5, <1>6 DEF LivenessNext

THEOREM QuietPassCorrect == LivenessSpec => []QuietInv
<1>1. LivenessInit => QuietInv
  BY DEF LivenessInit, QuietInv, QuietPassSettles, ResultSolvesEquations, Analysed
<1>2. LivenessTypeOK /\ QuietInv /\ [LivenessNext]_livenessVars => QuietInv'
  BY QuietStep DEF LivenessTypeOK
<1> QED
  BY <1>1, <1>2, LivenessTypeCorrect, PTL DEF LivenessSpec, LivenessTypeOK

(***************************************************************************)
(* A pass that has changed nothing so far has settled what it visited.     *)
(***************************************************************************)
THEOREM QuietPassSettlesCorrect == LivenessSpec => []QuietPassSettles
BY QuietPassCorrect, PTL DEF QuietInv

(***************************************************************************)
(* When analyze_liveness returns, every block satisfies its equations.     *)
(***************************************************************************)
THEOREM ResultSolvesEquationsCorrect ==
  LivenessSpec => []ResultSolvesEquations
BY QuietPassCorrect, PTL DEF QuietInv

-----------------------------------------------------------------------------
(***************************************************************************)
(* A block only ever receives values that some path can use: a value comes *)
(* from its own code, or back over an edge from a block where the value    *)
(* already was usable.                                                     *)
(***************************************************************************)
LEMMA NewInReaches ==
  ASSUME LivenessSetsOK, ShapeValid(fn), NeverLiveInVain,
         NEW b \in Blocks(fn), NEW v \in NewIn(b)
  PROVE  ReachesUse(fn, b, v)
<1> SUFFICES ASSUME NEW S \in SUBSET Blocks(fn), UseClosed(fn, v, S)
             PROVE  b \in S
  BY DEF ReachesUse
<1>1. CASE v \in Gen(fn, b)
  BY <1>1 DEF UseClosed
<1>2. CASE v \in NewOut(b) /\ v \notin Kill(fn, b)
  <2>1. PICK c \in Succs(fn, b) : v \in live_in[c]
    BY <1>2 DEF NewOut
  <2>2. c \in Blocks(fn)
    BY <2>1 DEF ShapeValid
  <2>3. c \in S
    BY <2>1, <2>2 DEF NeverLiveInVain, ReachesUse
  <2> QED
    BY <1>2, <2>1, <2>3 DEF UseClosed
<1> QED
  BY <1>1, <1>2 DEF NewIn

(***************************************************************************)
(* No pass of analyze_liveness ever calls a value live in vain.            *)
(***************************************************************************)
THEOREM NeverLiveInVainCorrect == LivenessSpec => []NeverLiveInVain
<1>1. LivenessInit => NeverLiveInVain
  BY DEF LivenessInit, NeverLiveInVain
<1>2. LivenessSetsOK /\ NeverLiveInVain /\ [LivenessNext]_livenessVars
        => NeverLiveInVain'
  <2> SUFFICES ASSUME LivenessSetsOK, NeverLiveInVain,
                      [LivenessNext]_livenessVars
               PROVE  NeverLiveInVain'
    OBVIOUS
  <2>1. CASE VisitBlock
    <3>1. ShapeValid(fn) /\ fn' = fn
      BY <2>1 DEF VisitBlock, LivenessSetsOK
    <3> SUFFICES ASSUME NEW b \in Blocks(fn), NEW v \in live_in'[b]
                 PROVE  ReachesUse(fn, b, v)
      BY <3>1 DEF NeverLiveInVain
    <3>2. CASE b = cursor
      <4>1. v \in NewIn(b)
        BY <2>1, <3>2 DEF VisitBlock, LivenessSetsOK
      <4> QED
        BY <3>1, <4>1, NewInReaches
    <3>3. CASE b # cursor
      <4>1. v \in live_in[b]
        BY <2>1, <3>3 DEF VisitBlock, LivenessSetsOK
      <4> QED
        BY <4>1 DEF NeverLiveInVain
    <3> QED
      BY <3>2, <3>3
  <2>2. CASE fn' = fn /\ live_in' = live_in
    BY <2>2 DEF NeverLiveInVain
  <2> QED
    BY <2>1, <2>2
    DEF LivenessNext, livenessVars, ValidateShape, NextPass, LivenessDone
<1> QED
  BY <1>1, <1>2, LivenessTypeCorrect, PTL DEF LivenessSpec, LivenessTypeOK

(***************************************************************************)
(* The blocks where the result calls v live form a use-closed set, so the  *)
(* result misses no block from which a use of v can be reached.            *)
(***************************************************************************)
THEOREM ResultIsCompleteCorrect == LivenessSpec => []ResultIsComplete
<1>1. ResultSolvesEquations => ResultIsComplete
  <2> SUFFICES ASSUME ResultSolvesEquations, Analysed,
                      NEW b \in Blocks(fn), NEW v \in VRegs(fn),
                      ReachesUse(fn, b, v)
               PROVE  v \in live_in[b]
    BY DEF ResultIsComplete
  <2> DEFINE S == {c \in Blocks(fn) : v \in live_in[c]}
  <2>1. UseClosed(fn, v, S)
    <3> SUFFICES ASSUME NEW c \in Blocks(fn),
                        \/ v \in Gen(fn, c)
                        \/ v \notin Kill(fn, c) /\ Succs(fn, c) \cap S # {}
                 PROVE  v \in live_in[c]
      BY DEF UseClosed
    <3>1. live_in[c] = NewIn(c)
      BY DEF ResultSolvesEquations, Settled
    <3> QED
      BY <3>1 DEF NewIn, NewOut
  <2>2. b \in S
    BY <2>1 DEF ReachesUse
  <2> QED
    BY <2>2
<1> QED
  BY <1>1, ResultSolvesEquationsCorrect, PTL

-----------------------------------------------------------------------------
(***************************************************************************)
(* Every set is below what its equation would give it now.  Visiting a     *)
(* block therefore enlarges it, which enlarges the right-hand sides of its *)
(* predecessors' equations and keeps them above.                           *)
(***************************************************************************)
FromBelow ==
  \A b \in Blocks(fn) : /\ live_in[b]  \subseteq NewIn(b)
                        /\ live_out[b] \subseteq NewOut(b)

LEMMA VisitGrows ==
  ASSUME LivenessSetsOK, FromBelow, VisitBlock, NEW b \in Blocks(fn)
  PROVE  /\ live_in[b]  \subseteq live_in'[b]
         /\ live_out[b] \subseteq live_out'[b]
         /\ b = cursor => live_in'[b] = NewIn(b) /\ live_out'[b] = NewOut(b)
         /\ b # cursor => live_in'[b] = live_in[b] /\ live_out'[b] = live_out[b]
BY DEF LivenessSetsOK, VisitBlock, FromBelow

THEOREM FromBelowCorrect == LivenessSpec => []FromBelow
<1>1. LivenessInit => FromBelow
  BY DEF LivenessInit, FromBelow
<1>2. LivenessSetsOK /\ FromBelow /\ [LivenessNext]_livenessVars => FromBelow'
  <2> SUFFICES ASSUME LivenessSetsOK, FromBelow, [LivenessNext]_livenessVars
               PROVE  FromBelow'
    OBVIOUS
  <2>1. CASE VisitBlock
    <3>1. ShapeValid(fn) /\ fn' = fn
      BY <2>1 DEF VisitBlock, LivenessSetsOK
    <3>2. ASSUME NEW b \in Blocks(fn)
          PROVE  NewOut(b) \subseteq NewOut(b)' /\ NewIn(b) \subseteq NewIn(b)'
      <4>1. \A c \in Succs(fn, b) : live_in[c] \subseteq live_in'[c]
        BY <2>1, <3>1, VisitGrows DEF ShapeValid
      <4>2. NewOut(b) \subseteq NewOut(b)'
        BY <3>1, <4>1 DEF NewOut
      <4> QED
        BY <3>1, <4>2 DEF NewIn
    <3> QED
      BY <2>1, <3>1, <3>2, VisitGrows DEF FromBelow
  <2>2. CASE fn' = fn /\ live_in' = live_in /\ live_out' = live_out
    BY <2>2 DEF FromBelow, NewIn, NewOut
  <2> QED
    BY <2>1, <2>2
    DEF LivenessNext, livenessVars, ValidateShape, NextPass, LivenessDone
<1> QED
  BY <1>1, <1>2, LivenessTypeCorrect, PTL DEF LivenessSpec, LivenessTypeOK

(***************************************************************************)
(* No step of analyze_liveness withdraws a value from a set.               *)
(***************************************************************************)
THEOREM SetsOnlyGrowCorrect == LivenessSpec => SetsOnlyGrow
<1>1. LivenessSetsOK /\ FromBelow /\ [LivenessNext]_livenessVars
        => [\A b \in Blocks(fn) : /\ live_in[b]  \subseteq live_in'[b]
                                  /\ live_out[b] \subseteq live_out'[b]]_livenessVars
  <2> SUFFICES ASSUME LivenessSetsOK, FromBelow, [LivenessNext]_livenessVars,
                      NEW b \in Blocks(fn)
               PROVE  /\ live_in[b]  \subseteq live_in'[b]
                      /\ live_out[b] \subseteq live_out'[b]
    OBVIOUS
  <2>1. CASE VisitBlock
    BY <2>1, VisitGrows
  <2>2. CASE live_in' = live_in /\ live_out' = live_out
    BY <2>2
  <2> QED
    BY <2>1, <2>2
    DEF LivenessNext, livenessVars, ValidateShape, NextPass, LivenessDone
<1> QED
  BY <1>1, LivenessTypeCorrect, FromBelowCorrect, PTL
  DEF LivenessSpec, LivenessTypeOK, SetsOnlyGrow
=============================================================================

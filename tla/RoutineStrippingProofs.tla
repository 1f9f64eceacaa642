------------------------ MODULE RoutineStrippingProofs ------------------------
(***************************************************************************)
(* What holds of the stripping of every assembly text: its types, and that *)
(* it keeps exactly the routines that the roots lead to; and of texts that *)
(* are written in routines: that the output defines the labels it names,   *)
(* and runs like the original.                                             *)
(***************************************************************************)
EXTENDS RoutineStripping, WellFoundedInduction, TLAPS

-----------------------------------------------------------------------------
(***************************************************************************)
(* The line after a line, and the lines that control goes to.              *)
(***************************************************************************)
LEMMA LeastLine ==
  ASSUME NEW T \in SUBSET Nat, T # {}
  PROVE  Min(T) \in T /\ \A y \in T : Min(T) <= y
<1>1. PICK x \in T : \A y \in T : ~(<<y, x>> \in OpToRel(<, Nat))
  BY NatLessThanWellFounded, WFMin
<1>2. \A y \in T : ~(y < x)
  BY <1>1 DEF OpToRel
<1>3. \A y \in T : x <= y
  BY <1>2
<1> QED
  BY <1>3 DEF Min

LEMMA GreatestLine ==
  ASSUME NEW n \in Nat, NEW T \in SUBSET (0..n), T # {}
  PROVE  Max(T) \in T /\ \A y \in T : y <= Max(T)
<1> DEFINE above == {x \in Nat : \A y \in T : y <= x}
           m     == Min(above)
<1>1. above \in SUBSET Nat /\ n \in above
  OBVIOUS
<1>2. m \in above /\ \A x \in above : m <= x
  BY <1>1, LeastLine
<1> HIDE DEF m
<1>3. m \in T
  <2> SUFFICES ASSUME m \notin T PROVE FALSE
    OBVIOUS
  <2>1. PICK y \in T : TRUE
    OBVIOUS
  <2>2. m \in Nat /\ \A z \in T : z <= m /\ z # m /\ z \in Nat
    BY <1>2
  <2>3. m - 1 \in above
    BY <2>1, <2>2
  <2> QED
    BY <1>2, <2>2, <2>3
<1>4. \A y \in T : y <= m
  BY <1>2
<1> QED
  BY <1>3, <1>4 DEF Max

LEMMA TextLines ==
  ASSUME NEW t \in Texts
  PROVE  /\ Len(t) \in Nat /\ Lines(t) = 1..Len(t)
         /\ Lines(t) \subseteq Nat
<1>1. t \in Seq(Line)
  BY TextsAssumption DEF IsText
<1>2. DOMAIN t = 1..Len(t) /\ Len(t) \in Nat
  BY <1>1
<1> QED
  BY <1>2 DEF Lines

(***************************************************************************)
(* The types, with those of the variables of the machine and of the        *)
(* routines found so far.                                                  *)
(***************************************************************************)
StripInv ==
  /\ StripTypeOK
  /\ known \subseteq Lines(text)
  /\ stage = "discover" => reachable = {} /\ pending = {}

LEMMA LinesOfKept ==
  ASSUME NEW labels
  PROVE  Output!LinesOf(labels) \subseteq kept
BY DEF Output!LinesOf

LEMMA FollowingIsKept ==
  ASSUME kept \subseteq Nat, NEW i
  PROVE  Output!Following(i) \subseteq kept
<1> DEFINE later == {j \in kept : j > i}
<1>1. later # {} => Min(later) \in later
  BY LeastLine
<1>2. Output!Min(later) = Min(later)
  BY DEF Output!Min, Min
<1> QED
  BY <1>1, <1>2 DEF Output!Following

LEMMA SuccessorsAreLines ==
  ASSUME kept \subseteq Nat, NEW i
  PROVE  /\ Output!Successors(i) \subseteq kept \cup known
         /\ Output!Learned(i) \subseteq kept
<1>1. Output!Target(i) \subseteq kept
  BY LinesOfKept DEF Output!Target
<1>2. Output!Following(i) \subseteq kept
  BY FollowingIsKept
<1>3. Output!LinesOf(Entries) \subseteq kept
  BY LinesOfKept
<1>4. Output!Successors(i) \subseteq kept \cup known
  BY <1>1, <1>2, <1>3 DEF Output!Successors
<1>5. Output!Learned(i) \subseteq kept
  BY <1>2, LinesOfKept DEF Output!Learned
<1> QED
  BY <1>4, <1>5

(***************************************************************************)
(* A routine leads to routines only.                                       *)
(***************************************************************************)
LEMMA RoutineLeadsToRoutines ==
  ASSUME StripTypeOK, NEW b
  PROVE  Referenced(b) \cup FallsInto(b) \subseteq Blocks
<1>1. Blocks \subseteq Nat
  BY TextLines DEF StripTypeOK, Blocks, LabelLines
<1> DEFINE later == {c \in Blocks : c > b}
<1>2. later # {} => Min(later) \in later
  BY <1>1, LeastLine
<1>3. FallsInto(b) \subseteq Blocks
  BY <1>2 DEF FallsInto
<1>4. Referenced(b) \subseteq Blocks
  BY DEF Referenced
<1> QED
  BY <1>3, <1>4

LEMMA StripInvInit == Init => StripInv
<1> SUFFICES ASSUME Init PROVE StripInv
  OBVIOUS
<1>1. routine \subseteq LabelLines(text)
  BY DEF Init, SureRoutines
<1>2. pc = 0 /\ known = {}
  BY DEF Init, Original!MachineInit
<1> QED
  BY <1>1, <1>2 DEF Init, StripInv, StripTypeOK

LEMMA StripInvNext == StripInv /\ [Next]_vars => StripInv'
<1> SUFFICES ASSUME StripInv, [Next]_vars PROVE StripInv'
  OBVIOUS
<1> USE DEF StripInv, StripTypeOK
<1>1. ASSUME NEW i \in Lines(text), Consider(i) PROVE StripInv'
  <2>1. routine' \subseteq LabelLines(text)
    BY <1>1 DEF Consider
  <2> QED
    BY <1>1, <2>1 DEF Consider, runVars
<1>2. CASE BeginVisits
  <2>1. RootBlocks \subseteq Blocks
    BY DEF RootBlocks
  <2>2. Blocks' = Blocks
    BY <1>2 DEF BeginVisits, Blocks, InBank
  <2> QED
    BY <1>2, <2>1, <2>2 DEF BeginVisits, runVars
<1>3. ASSUME NEW b \in Lines(text), Visit(b) PROVE StripInv'
  <2>1. Referenced(b) \cup FallsInto(b) \subseteq Blocks
    BY RoutineLeadsToRoutines
  <2>2. Blocks' = Blocks
    BY <1>3 DEF Visit, Blocks, InBank
  <2>3. (reachable \cup pending)' \subseteq Blocks
    BY <1>3, <2>1 DEF Visit
  <2> QED
    BY <1>3, <2>2, <2>3 DEF Visit, runVars
<1>4. CASE WriteOutput
  <2>1. Blocks' = Blocks
    BY <1>4 DEF WriteOutput, stripVars, Blocks, InBank
  <2> QED
    BY <1>4, <2>1 DEF WriteOutput, stripVars, runVars
<1>5. CASE RunStripped
  <2>1. kept \subseteq Nat
    BY TextLines
  <2>2. Output!Successors(pc) \subseteq Lines(text) /\ Output!Learned(pc) \subseteq Lines(text)
    BY <2>1, SuccessorsAreLines
  <2>3. Blocks' = Blocks
    BY <1>5 DEF RunStripped, stripVars, Blocks, InBank
  <2>4. pc' \in Lines(text) /\ known' \subseteq Lines(text) /\ kept' = kept
    BY <1>5, <2>2 DEF RunStripped, Output!MachineStep
  <2> QED
    BY <1>5, <2>3, <2>4 DEF RunStripped, stripVars
<1>6. CASE UNCHANGED vars
  <2>1. Blocks' = Blocks
    BY <1>6 DEF vars, stripVars, Blocks, InBank
  <2> QED
    BY <1>6, <2>1 DEF vars, stripVars, runVars
<1> QED
  BY <1>1, <1>2, <1>3, <1>4, <1>5, <1>6 DEF Next, StripNext

(***************************************************************************)
(* Type correctness: only routines are visited, only lines run.            *)
(***************************************************************************)
THEOREM StripTypeCorrect == Spec => []StripTypeOK
<1>1. StripInv => StripTypeOK
  BY DEF StripInv
<1> QED
  BY StripInvInit, StripInvNext, <1>1, PTL DEF Spec

-----------------------------------------------------------------------------
(***************************************************************************)
(* The worklist.  It stays within every set that holds the roots and is    *)
(* closed, and what it has visited leads nowhere else but to what is       *)
(* visited or pending.                                                     *)
(***************************************************************************)
Closed(S) ==
  /\ S \subseteq Blocks
  /\ RootBlocks \subseteq S
  /\ \A b \in S : Referenced(b) \cup FallsInto(b) \subseteq S

VisitInv ==
  stage = "visit" =>
    /\ \A S \in SUBSET Blocks : Closed(S) => reachable \cup pending \subseteq S
    /\ RootBlocks \subseteq reachable \cup pending
    /\ \A b \in reachable : Referenced(b) \cup FallsInto(b) \subseteq reachable \cup pending

LEMMA SameRoutines ==
  ASSUME text' = text, routine' = routine
  PROVE  /\ Blocks' = Blocks
         /\ RootBlocks' = RootBlocks
         /\ \A b : Referenced(b)' = Referenced(b) /\ FallsInto(b)' = FallsInto(b)
         /\ \A S : Closed(S)' = Closed(S)
<1>1. \A i : BankNames(i)' = BankNames(i) /\ Boundary(i)' = Boundary(i)
  BY DEF BankNames, Boundary
<1>2. Blocks' = Blocks
  BY <1>1 DEF Blocks
<1>3. \A b : Body(b)' = Body(b)
  BY <1>1 DEF Body, Lines
<1>4. RootBlocks' = RootBlocks
  BY <1>1, <1>2 DEF RootBlocks, Marks
<1>5. \A b : Referenced(b)' = Referenced(b)
  BY <1>2, <1>3 DEF Referenced, NamedIn
<1>6. \A b : EndsTransfer(b)' = EndsTransfer(b)
  BY <1>3 DEF EndsTransfer
<1>7. \A b : FallsInto(b)' = FallsInto(b)
  BY <1>2, <1>6 DEF FallsInto
<1>8. \A S : Closed(S)' = Closed(S)
  BY <1>2, <1>4, <1>5, <1>7 DEF Closed
<1> QED
  BY <1>2, <1>4, <1>5, <1>7, <1>8

LEMMA VisitInvNext == StripInv /\ VisitInv /\ [Next]_vars => VisitInv'
<1> SUFFICES ASSUME StripInv, VisitInv, [Next]_vars, stage' = "visit" PROVE VisitInv'
  BY DEF VisitInv
<1>1. ASSUME NEW i \in Lines(text), Consider(i) PROVE FALSE
  BY <1>1 DEF Consider
<1>2. CASE BeginVisits
  <2>1. text' = text /\ routine' = routine /\ reachable' = {} /\ pending' = RootBlocks
    BY <1>2 DEF BeginVisits, StripInv
  <2>2. Blocks' = Blocks /\ RootBlocks' = RootBlocks /\ \A S : Closed(S)' = Closed(S)
    BY <2>1, SameRoutines
  <2>3. \A S : Closed(S) => RootBlocks \subseteq S
    BY DEF Closed
  <2> QED
    BY <2>1, <2>2, <2>3 DEF VisitInv
<1>3. ASSUME NEW b \in Lines(text), Visit(b) PROVE VisitInv'
  <2>1. stage = "visit" /\ text' = text /\ routine' = routine /\ b \in pending
    BY <1>3 DEF Visit
  <2>2. /\ Blocks' = Blocks /\ RootBlocks' = RootBlocks
        /\ \A S : Closed(S)' = Closed(S)
        /\ \A c : Referenced(c)' = Referenced(c) /\ FallsInto(c)' = FallsInto(c)
    BY <2>1, SameRoutines
  <2>3. /\ reachable' = reachable \cup {b}
        /\ pending \ {b} \subseteq pending'
        /\ b \notin reachable => Referenced(b) \cup FallsInto(b) \subseteq pending'
        /\ pending' \subseteq pending \cup Referenced(b) \cup FallsInto(b)
    BY <1>3 DEF Visit
  <2>4. ASSUME NEW S \in SUBSET Blocks, Closed(S) PROVE (reachable \cup pending)' \subseteq S
    <3>1. reachable \cup pending \subseteq S
      BY <2>1, <2>4 DEF VisitInv
    <3>2. Referenced(b) \cup FallsInto(b) \subseteq S
      BY <2>1, <2>4, <3>1 DEF Closed
    <3> QED
      BY <2>1, <2>3, <3>1, <3>2
  <2>5. RootBlocks \subseteq (reachable \cup pending)'
    BY <2>1, <2>3 DEF VisitInv
  <2>6. ASSUME NEW c \in reachable \cup {b}
        PROVE  Referenced(c) \cup FallsInto(c) \subseteq (reachable \cup pending)'
    <3>1. CASE c \in reachable
      BY <2>1, <2>3, <3>1 DEF VisitInv
    <3>2. CASE c = b /\ b \notin reachable
      BY <2>3, <3>2
    <3> QED
      BY <2>6, <3>1, <3>2
  <2> QED
    BY <2>2, <2>3, <2>4, <2>5, <2>6 DEF VisitInv
<1>4. CASE WriteOutput
  BY <1>4 DEF WriteOutput
<1>5. CASE RunStripped
  BY <1>5 DEF RunStripped
<1>6. CASE UNCHANGED vars
  <2>1. /\ text' = text /\ routine' = routine /\ stage = "visit"
        /\ reachable' = reachable /\ pending' = pending
    BY <1>6 DEF vars, stripVars
  <2>2. /\ Blocks' = Blocks /\ RootBlocks' = RootBlocks
        /\ \A S : Closed(S)' = Closed(S)
        /\ \A c : Referenced(c)' = Referenced(c) /\ FallsInto(c)' = FallsInto(c)
    BY <2>1, SameRoutines
  <2> QED
    BY <2>1, <2>2 DEF VisitInv
<1> QED
  BY <1>1, <1>2, <1>3, <1>4, <1>5, <1>6 DEF Next, StripNext

(***************************************************************************)
(* Nothing is kept in vain, for every text and every order of the visits.  *)
(***************************************************************************)
THEOREM NothingKeptInVainCorrect == Spec => []NothingKeptInVain
<1>1. Init => VisitInv
  BY DEF Init, VisitInv
<1>2. VisitInv => NothingKeptInVain
  <2> SUFFICES ASSUME VisitInv, stage = "visit", NEW S \in SUBSET Blocks,
                      RootBlocks \subseteq S,
                      \A b \in S : [c \in Blocks |-> Referenced(c) \cup FallsInto(c)][b] \subseteq S
               PROVE  reachable \subseteq S
    BY DEF NothingKeptInVain
  <2>1. Closed(S)
    BY DEF Closed
  <2> QED
    BY <2>1 DEF VisitInv
<1> QED
  BY StripInvInit, StripInvNext, VisitInvNext, <1>1, <1>2, PTL DEF Spec

(***************************************************************************)
(* Nor is anything lost: when the worklist is empty the visited routines   *)
(* are the roots and all that the roots lead to, so that they are the      *)
(* least such set.                                                         *)
(***************************************************************************)
THEOREM NothingLost ==
  Spec => [](stage = "visit" /\ pending = {} => Closed(reachable))
<1>1. Init => VisitInv
  BY DEF Init, VisitInv
<1>2. StripInv /\ VisitInv => (stage = "visit" /\ pending = {} => Closed(reachable))
  BY DEF StripInv, StripTypeOK, VisitInv, Closed
<1> QED
  BY StripInvInit, StripInvNext, VisitInvNext, <1>1, <1>2, PTL DEF Spec

-----------------------------------------------------------------------------
(***************************************************************************)
(* What discovery has found.  Each label was put into the region between   *)
(* the routines known then: all of those above it, and of those below the  *)
(* ones that are routines by their names and the calls to them.            *)
(***************************************************************************)
Apart(i, k, known_) ==
  \E r \in known_ : (r < i /\ k < r) \/ (i < r /\ r <= k)

KnownThen(i) == {r \in routine : r < i} \cup SureRoutines(text)

NamedFar(i) ==
  \E k \in Lines(text) : Names(text, k, text[i].label) /\ Apart(i, k, KnownThen(i))

NamedNear(i) ==
  \E k \in Lines(text) : Names(text, k, text[i].label) /\ ~Apart(i, k, KnownThen(i))

Generated(i) == text[i].label \in GeneratedLabels

Judged(i) ==
  i \in routine <=>
    \/ i \in SureRoutines(text)
    \/ Generated(i) /\ (NamedFar(i) \/ (~NamedNear(i) /\ FollowsReturn(text, i)))

DiscoveryInv ==
  /\ considered \in Nat
  /\ SureRoutines(text) \subseteq routine
  /\ \A i \in routine : i > considered => i \in SureRoutines(text)
  /\ \A i \in LabelLines(text) : i <= considered => Judged(i)
  /\ stage # "discover" => \A i \in LabelLines(text) : i <= considered

LEMMA RegionIsBetweenRoutines ==
  ASSUME text \in Texts, routine \subseteq Lines(text),
         NEW i \in Lines(text), NEW k \in Lines(text)
  PROVE  k \in Region(i) <=> ~Apart(i, k, routine)
<1> DEFINE n     == Len(text)
           above == {1} \cup {j \in routine : j < i}
           below == {n + 1} \cup {j \in routine : j > i}
<1>1. n \in Nat /\ Lines(text) = 1..n
  BY TextLines
<1>2. above \in SUBSET (0..n + 1) /\ above # {} /\ n + 1 \in Nat
  BY <1>1
<1>3. below \in SUBSET Nat /\ below # {}
  BY <1>1
<1>4. Max(above) \in above /\ \A y \in above : y <= Max(above)
  BY <1>2, GreatestLine
<1>5. Min(below) \in below /\ \A y \in below : Min(below) <= y
  BY <1>3, LeastLine
<1>6. Region(i) = Max(above)..(Min(below) - 1)
  BY DEF Region
<1> HIDE DEF above, below
<1>7. Max(above) \in Nat /\ Min(below) \in Nat
  <2>1. \A y \in above : y \in Nat
    BY <1>2
  <2>2. \A y \in below : y \in Nat
    BY <1>3
  <2> QED
    BY <1>4, <1>5, <2>1, <2>2
<1>8. Max(above) <= k <=> \A r \in routine : r < i => r <= k
  BY <1>1, <1>4, <1>7 DEF above
<1>9. k < Min(below) <=> \A r \in routine : r > i => k < r
  BY <1>1, <1>5, <1>7 DEF below
<1>10. \A r \in routine : r \in Nat
  BY <1>1
<1> QED
  BY <1>1, <1>6, <1>7, <1>8, <1>9, <1>10 DEF Apart

LEMMA ConsideredIsJudged ==
  ASSUME StripInv, DiscoveryInv, NEW i \in Lines(text), Consider(i)
  PROVE  DiscoveryInv'
<1> USE DEF StripInv, StripTypeOK
<1>1. /\ stage = "discover" /\ stage' = "discover" /\ text' = text
      /\ i \in LabelLines(text) /\ considered < i /\ considered' = i
      /\ \A j \in LabelLines(text) : j > considered => i <= j
      /\ routine' = IF Generated(i) /\ StartsRoutine(i) THEN routine \cup {i} ELSE routine
  BY DEF Consider, Generated
<1>2. Lines(text) \subseteq Nat /\ LabelLines(text) \subseteq Lines(text)
      /\ SureRoutines(text) \subseteq Lines(text) /\ considered \in Nat
  BY TextLines DEF LabelLines, SureRoutines, DiscoveryInv
<1>3. \A j \in Lines(text) : j <= i => KnownThen(j)' = KnownThen(j)
  BY <1>1, <1>2 DEF KnownThen
<1>4. \A r \in routine : r = i \/ r < i \/ (r > i /\ r \in SureRoutines(text))
  BY <1>1, <1>2 DEF DiscoveryInv
<1>5. \A k \in Lines(text) : Apart(i, k, routine) <=> Apart(i, k, KnownThen(i))
  <2> SUFFICES ASSUME NEW k \in Lines(text)
               PROVE  Apart(i, k, routine) <=> Apart(i, k, KnownThen(i))
    OBVIOUS
  <2>1. KnownThen(i) \subseteq routine
    BY DEF KnownThen, DiscoveryInv
  <2>2. \A r \in routine : r # i => r \in KnownThen(i)
    BY <1>4 DEF KnownThen
  <2> QED
    BY <1>2, <2>1, <2>2 DEF Apart
<1>6. StartsRoutine(i) <=> NamedFar(i) \/ (~NamedNear(i) /\ FollowsReturn(text, i))
  <2>1. \A k \in Lines(text) : k \in Region(i) <=> ~Apart(i, k, KnownThen(i))
    BY <1>2, <1>5, RegionIsBetweenRoutines
  <2>2. Region(i) \subseteq Lines(text)
    <3> DEFINE n     == Len(text)
               above == {1} \cup {j \in routine : j < i}
               below == {n + 1} \cup {j \in routine : j > i}
    <3>1. n \in Nat /\ Lines(text) = 1..n
      BY TextLines
    <3>2. Max(above) \in above
      <4>1. above \in SUBSET (0..n + 1) /\ above # {} /\ n + 1 \in Nat
        BY <1>2, <3>1
      <4> QED
        BY <4>1, GreatestLine
    <3>3. Min(below) \in below
      <4>1. below \in SUBSET Nat /\ below # {}
        BY <1>2, <3>1
      <4> QED
        BY <4>1, LeastLine
    <3>4. Region(i) = Max(above)..(Min(below) - 1)
      BY DEF Region
    <3>5. Max(above) \in 1..n + 1 /\ Min(below) \in 1..n + 1
      BY <1>2, <3>1, <3>2, <3>3
    <3> HIDE DEF n, above, below
    <3> QED
      BY <3>1, <3>4, <3>5
  <2>3. NamedIn(i, Lines(text) \ Region(i)) <=> NamedFar(i)
    BY <2>1 DEF NamedIn, NamedFar
  <2>4. NamedIn(i, Region(i)) <=> NamedNear(i)
    BY <2>1, <2>2 DEF NamedIn, NamedNear
  <2> QED
    BY <2>3, <2>4 DEF StartsRoutine
<1>7. \A j \in Lines(text) : j <= i => /\ NamedFar(j)' = NamedFar(j)
                                        /\ NamedNear(j)' = NamedNear(j)
                                        /\ Generated(j)' = Generated(j)
                                        /\ (j \in SureRoutines(text))' = (j \in SureRoutines(text))
                                        /\ FollowsReturn(text, j)' = FollowsReturn(text, j)
  BY <1>1, <1>3 DEF NamedFar, NamedNear, Generated
<1>8. \A j \in LabelLines(text) : j <= i => Judged(j)'
  <2> SUFFICES ASSUME NEW j \in LabelLines(text), j <= i PROVE Judged(j)'
    OBVIOUS
  <2>1. CASE j # i
    <3>1. j <= considered
      BY <1>1, <1>2, <2>1
    <3>2. Judged(j) /\ (j \in routine' <=> j \in routine)
      BY <1>1, <2>1, <3>1 DEF DiscoveryInv
    <3> QED
      BY <1>2, <1>7, <3>2 DEF Judged
  <2>2. CASE j = i
    <3>1. i \in routine => i \in SureRoutines(text)
      BY <1>1, <1>2 DEF DiscoveryInv
    <3>2. i \in SureRoutines(text) => i \in routine
      BY DEF DiscoveryInv
    <3>3. i \in routine' <=> i \in SureRoutines(text) \/ (Generated(i) /\ StartsRoutine(i))
      BY <1>1, <3>1, <3>2
    <3> QED
      BY <1>2, <1>6, <1>7, <2>2, <3>3 DEF Judged
  <2> QED
    BY <2>1, <2>2
<1>9. SureRoutines(text') \subseteq routine'
  BY <1>1 DEF DiscoveryInv
<1>10. \A j \in routine' : j > i => j \in SureRoutines(text')
  BY <1>1, <1>2 DEF DiscoveryInv
<1>11. considered' \in Nat
  BY <1>1, <1>2
<1> QED
  BY <1>1, <1>8, <1>9, <1>10, <1>11 DEF DiscoveryInv

LEMMA DiscoveryInvInit == Init => DiscoveryInv
<1> SUFFICES ASSUME Init PROVE DiscoveryInv
  OBVIOUS
<1>1. LabelLines(text) \subseteq Nat
  BY TextLines DEF Init, LabelLines
<1>2. \A i \in LabelLines(text) : ~(i <= 0)
  BY TextLines DEF Init, LabelLines
<1> QED
  BY <1>1, <1>2 DEF Init, DiscoveryInv

LEMMA DiscoveryInvNext == StripInv /\ DiscoveryInv /\ [Next]_vars => DiscoveryInv'
<1> SUFFICES ASSUME StripInv, DiscoveryInv, [Next]_vars PROVE DiscoveryInv'
  OBVIOUS
<1> DEFINE Same == text' = text /\ routine' = routine /\ considered' = considered
<1>1. ASSUME Same, stage' # "discover" => \A i \in LabelLines(text) : i <= considered
      PROVE  DiscoveryInv'
  <2>1. \A i : KnownThen(i)' = KnownThen(i)
    BY <1>1 DEF KnownThen
  <2>2. \A i : NamedFar(i)' = NamedFar(i) /\ NamedNear(i)' = NamedNear(i)
    BY <1>1, <2>1 DEF NamedFar, NamedNear
  <2>3. \A i : Judged(i)' = Judged(i)
    BY <1>1, <2>2 DEF Judged, Generated
  <2> QED
    BY <1>1, <2>3 DEF DiscoveryInv
<1>2. ASSUME NEW i \in Lines(text), Consider(i) PROVE DiscoveryInv'
  BY <1>2, ConsideredIsJudged
<1>3. CASE BeginVisits
  BY <1>1, <1>3 DEF BeginVisits
<1>4. ASSUME NEW b \in Lines(text), Visit(b) PROVE DiscoveryInv'
  BY <1>1, <1>4 DEF Visit, DiscoveryInv
<1>5. CASE WriteOutput
  BY <1>1, <1>5 DEF WriteOutput, stripVars, DiscoveryInv
<1>6. CASE RunStripped
  BY <1>1, <1>6 DEF RunStripped, stripVars, DiscoveryInv
<1>7. CASE UNCHANGED vars
  BY <1>1, <1>7 DEF vars, stripVars, DiscoveryInv
<1> QED
  BY <1>2, <1>3, <1>4, <1>5, <1>6, <1>7 DEF Next, StripNext

-----------------------------------------------------------------------------
(***************************************************************************)
(* Texts that are written in routines: discovery finds heads of routines,  *)
(* and labels that are the last line of one, which nothing leads to.       *)
(***************************************************************************)
Discovered ==
  /\ text \in Texts
  /\ SureRoutines(text) \subseteq routine
  /\ routine \subseteq LabelLines(text)
  /\ \A i \in LabelLines(text) : Judged(i)

Written(heads) ==
  /\ Discovered
  /\ heads \subseteq LabelLines(text)
  /\ WrittenInRoutines(text, heads)

Tails(heads) ==
  {j \in LabelLines(text) \ heads :
     Generated(j) /\ ~Called(text, j) /\ FollowsReturn(text, j)}

LEMMA WrittenLines ==
  ASSUME NEW heads, Written(heads)
  PROVE  /\ Len(text) \in Nat /\ Lines(text) = 1..Len(text)
         /\ LabelLines(text) \subseteq Lines(text)
         /\ SureRoutines(text) \subseteq routine \cap heads
         /\ routine \subseteq Lines(text)
         /\ heads \subseteq Lines(text)
         /\ Tails(heads) \subseteq Lines(text)
         /\ Cuts(text, heads) \subseteq Lines(text)
         /\ heads \subseteq Cuts(text, heads)
<1>1. Len(text) \in Nat /\ Lines(text) = 1..Len(text)
  BY TextLines DEF Written, Discovered
<1> QED
  BY <1>1 DEF Written, Discovered, WrittenInRoutines, RoutinesAreLaidOut, LabelLines, Tails, Cuts

LEMMA TogetherIsAnEquivalence ==
  ASSUME NEW heads, NEW i, NEW j, Together(text, heads, i, j)
  PROVE  /\ Together(text, heads, j, i)
         /\ \A k : Together(text, heads, j, k) => Together(text, heads, i, k)
BY DEF Together

LEMMA TogetherBetween ==
  ASSUME NEW heads, Written(heads), NEW i \in Nat, NEW j \in Nat, NEW k \in Nat,
         i <= k, k <= j, Together(text, heads, i, j)
  PROVE  Together(text, heads, i, k) /\ Together(text, heads, k, j)
<1>1. \A c \in Cuts(text, heads) : c \in Nat
  BY WrittenLines
<1> QED
  BY <1>1 DEF Together

LEMMA HeadsComeFirst ==
  ASSUME NEW heads, Written(heads), NEW h \in heads, NEW i \in Nat, Together(text, heads, h, i)
  PROVE  h <= i
<1>1. h \in Cuts(text, heads) /\ h \in Nat
  BY WrittenLines
<1> QED
  BY <1>1 DEF Together

LEMMA TailsComeLast ==
  ASSUME NEW heads, Written(heads), NEW j \in Tails(heads)
  PROVE  /\ ~HasCode(text, j) /\ text[j].refs = {}
         /\ \A i \in Lines(text) : Together(text, heads, i, j) => i <= j
<1>1. /\ ~HasCode(text, j)
      /\ \A i \in Lines(text) : Together(text, heads, i, j) => i <= j
  BY DEF Tails, Generated, Written, WrittenInRoutines, LabelsAreLocal
<1>2. text[j].refs = {}
  <2>1. IsText(text) /\ j \in DOMAIN text
    BY TextsAssumption, WrittenLines DEF Written, Discovered, Lines
  <2> QED
    BY <1>1, <2>1 DEF IsText, HasCode
<1> QED
  BY <1>1, <1>2

LEMMA RoutinesAreHeads ==
  ASSUME NEW heads, Written(heads)
  PROVE  routine \subseteq heads \cup Tails(heads)
<1> DEFINE odd == routine \ (heads \cup Tails(heads))
           q   == Min(odd)
<1> SUFFICES ASSUME odd # {} PROVE FALSE
  OBVIOUS
<1>1. Lines(text) \subseteq Nat /\ odd \subseteq Lines(text)
  BY WrittenLines
<1>2. q \in odd /\ \A r \in odd : q <= r
  BY <1>1, LeastLine
<1> HIDE DEF q, odd
<1>3. /\ q \in LabelLines(text) \ heads /\ q \in Lines(text) /\ q \in Nat
      /\ q \notin Tails(heads) /\ q \notin SureRoutines(text) /\ q \in routine
  BY <1>1, <1>2, WrittenLines DEF odd, Written, Discovered
<1>4. ASSUME NEW k \in Lines(text), Names(text, k, text[q].label)
      PROVE  ~Apart(q, k, KnownThen(q))
  <2>1. Together(text, heads, k, q) /\ k \in Nat
    BY <1>1, <1>3, <1>4 DEF Written, WrittenInRoutines, LabelsAreLocal
  <2> SUFFICES ASSUME NEW r \in KnownThen(q),
                      (r < q /\ k < r) \/ (q < r /\ r <= k)
               PROVE  FALSE
    BY DEF Apart
  <2>2. r \in routine /\ r \in Nat /\ r # q
    BY <1>1, <1>3, WrittenLines DEF KnownThen
  <2>3. CASE r \in heads
    <3>1. r \in Cuts(text, heads)
      BY <2>3, WrittenLines
    <3> QED
      BY <1>3, <2>1, <2>2, <3>1 DEF Together
  <2>4. CASE r \notin heads
    <3>1. r < q /\ k < r
      BY <1>3, <2>2, <2>4, WrittenLines DEF KnownThen
    <3>2. r \in Tails(heads)
      BY <1>2, <1>3, <2>2, <2>4, <3>1 DEF odd
    <3>3. Together(text, heads, r, q)
      BY <1>3, <2>1, <2>2, <3>1, TogetherBetween
    <3>4. Together(text, heads, q, r)
      BY <3>3, TogetherIsAnEquivalence
    <3> QED
      BY <1>3, <2>2, <3>1, <3>2, <3>4, TailsComeLast
  <2> QED
    BY <2>3, <2>4
<1>5. Judged(q)
  BY <1>3 DEF Written, Discovered
<1>6. ~NamedFar(q)
  BY <1>4 DEF NamedFar
<1>7. Generated(q) /\ ~NamedNear(q) /\ FollowsReturn(text, q)
  BY <1>3, <1>5, <1>6 DEF Judged
<1>8. ~Called(text, q)
  BY <1>4, <1>7 DEF Called, NamedNear
<1> QED
  BY <1>3, <1>7, <1>8 DEF Tails

-----------------------------------------------------------------------------
(***************************************************************************)
(* The bodies of routines: from the label to the next boundary.            *)
(***************************************************************************)
LEMMA BodyLines ==
  ASSUME text \in Texts, NEW b \in Lines(text), NEW i
  PROVE  i \in Body(b) <=> /\ i \in Lines(text) /\ b <= i
                           /\ \A k \in Lines(text) : b < k /\ k <= i => ~Boundary(k)
<1> DEFINE n    == Len(text)
           ends == {n + 1} \cup {k \in Lines(text) : k > b /\ Boundary(k)}
           m    == Min(ends)
<1>1. n \in Nat /\ Lines(text) = 1..n
  BY TextLines
<1>2. ends \in SUBSET Nat /\ ends # {}
  BY <1>1
<1>3. m \in ends /\ \A k \in ends : m <= k
  BY <1>2, LeastLine
<1>4. Body(b) = b..(m - 1)
  BY DEF Body
<1>5. m \in 1..n + 1
  BY <1>1, <1>3
<1> HIDE DEF m
<1>6. ASSUME i \in b..(m - 1)
      PROVE  /\ i \in Lines(text) /\ b <= i
             /\ \A k \in Lines(text) : b < k /\ k <= i => ~Boundary(k)
  <2>1. i \in Lines(text) /\ b <= i /\ i < m
    BY <1>1, <1>5, <1>6
  <2> QED
    BY <1>1, <1>3, <1>5, <2>1
<1>7. ASSUME i \in Lines(text), b <= i,
             \A k \in Lines(text) : b < k /\ k <= i => ~Boundary(k)
      PROVE  i \in b..(m - 1)
  <2>1. ~(m <= i)
    BY <1>1, <1>3, <1>5, <1>7
  <2> QED
    BY <1>1, <1>5, <1>7, <2>1
<1> QED
  BY <1>4, <1>6, <1>7

LEMMA LabelLinesAreNoEdgesOfBanks ==
  ASSUME NEW i \in LabelLines(text)
  PROVE  ~Marks(text, i, StaticLabels) /\ ~Marks(text, i, BankStarts \cup BankEnds)
BY LabelsAssumption DEF LabelLines, Marks

LEMMA BanksEndAtEdges ==
  ASSUME NEW heads, Written(heads), NEW i \in Lines(text), NEW j \in Lines(text), i <= j,
         \A e \in (i + 1)..j : ~Edge(text, e), i \in LabelLines(text)
  PROVE  InBank(text, i) <=> InBank(text, j)
<1>1. Lines(text) \subseteq Nat
  BY WrittenLines
<1>2. \A e \in i..j : ~Marks(text, e, BankStarts) /\ ~Marks(text, e, BankEnds)
  <2>1. \A e \in (i + 1)..j : ~Marks(text, e, BankStarts) /\ ~Marks(text, e, BankEnds)
    BY DEF Edge, Marks
  <2>2. ~Marks(text, i, BankStarts) /\ ~Marks(text, i, BankEnds)
    BY LabelLinesAreNoEdgesOfBanks DEF Marks
  <2> QED
    BY <1>1, <2>1, <2>2
<1>3. ASSUME InBank(text, i) PROVE InBank(text, j)
  <2>1. PICK s \in Lines(text) : /\ s < i /\ Marks(text, s, BankStarts)
                                 /\ \A e \in (s + 1)..(i - 1) : ~Marks(text, e, BankEnds)
    BY <1>3 DEF InBank
  <2>2. s < j /\ \A e \in (s + 1)..(j - 1) : ~Marks(text, e, BankEnds)
    BY <1>1, <1>2, <2>1
  <2> QED
    BY <2>1, <2>2 DEF InBank
<1>4. ASSUME InBank(text, j) PROVE InBank(text, i)
  <2>1. PICK s \in Lines(text) : /\ s < j /\ Marks(text, s, BankStarts)
                                 /\ \A e \in (s + 1)..(j - 1) : ~Marks(text, e, BankEnds)
    BY <1>4 DEF InBank
  <2>2. s < i /\ \A e \in (s + 1)..(i - 1) : ~Marks(text, e, BankEnds)
    BY <1>1, <1>2, <2>1
  <2> QED
    BY <2>1, <2>2 DEF InBank
<1> QED
  BY <1>3, <1>4

(***************************************************************************)
(* Bodies are outside of banks, and only their first lines are routines.   *)
(***************************************************************************)
LEMMA BodiesAreCode ==
  ASSUME NEW heads, Written(heads), NEW b \in Blocks, NEW i \in Body(b)
  PROVE  /\ i \in Lines(text) /\ b <= i /\ ~InBank(text, i)
         /\ \A e \in (b + 1)..i : ~Edge(text, e) /\ e \notin routine
         /\ text[i].label # NoLabel => i \in LabelLines(text)
<1>1. b \in LabelLines(text) /\ b \in Lines(text) /\ ~InBank(text, b) /\ Lines(text) = 1..Len(text)
      /\ Len(text) \in Nat
  BY WrittenLines DEF Blocks, Written, Discovered
<1>2. i \in Lines(text) /\ b <= i /\ \A k \in Lines(text) : b < k /\ k <= i => ~Boundary(k)
  BY <1>1, BodyLines DEF Written, Discovered
<1>3. \A e \in (b + 1)..i : e \in Lines(text) /\ b < e /\ e <= i
  BY <1>1, <1>2
<1>4. \A e \in (b + 1)..i : ~Edge(text, e)
  BY <1>2, <1>3 DEF Boundary
<1>5. \A e \in b..i : ~InBank(text, e)
  <2> SUFFICES ASSUME NEW e \in b..i PROVE ~InBank(text, e)
    OBVIOUS
  <2>1. e \in Lines(text) /\ b <= e /\ e <= i
    BY <1>1, <1>2
  <2>2. \A f \in (b + 1)..e : ~Edge(text, f)
    BY <1>1, <1>2, <1>4, <2>1
  <2> QED
    BY <1>1, <2>1, <2>2, BanksEndAtEdges
<1>6. \A e \in (b + 1)..i : e \notin routine
  BY <1>1, <1>2, <1>3, <1>5 DEF Boundary
<1>7. ~InBank(text, i)
  BY <1>1, <1>2, <1>5
<1>8. text[i].label # NoLabel => i \in LabelLines(text)
  <2>1. CASE i = b
    BY <1>1, <2>1
  <2>2. CASE i # b
    <3>1. ~Edge(text, i)
      BY <1>1, <1>2, <1>4, <2>2
    <3> QED
      BY <1>2, <1>7, <3>1 DEF Edge, Marks, LabelLines
  <2> QED
    BY <2>1, <2>2
<1> QED
  BY <1>2, <1>4, <1>6, <1>7, <1>8

(***************************************************************************)
(* Lines that belong together stay together, the last lines apart.         *)
(***************************************************************************)
LEMMA RoutinesStayWhole ==
  ASSUME NEW heads, Written(heads), NEW b \in Blocks, NEW j \in Body(b), NEW i \in Lines(text),
         Together(text, heads, i, j), i \notin Tails(heads), j \notin Tails(heads)
  PROVE  i \in Body(b)
<1>1. b \in routine /\ b \in Lines(text) /\ b \in heads \cup Tails(heads) /\ Lines(text) \subseteq Nat
  BY WrittenLines, RoutinesAreHeads DEF Blocks
<1>2. /\ j \in Lines(text) /\ b <= j
      /\ \A k \in Lines(text) : b < k /\ k <= j => ~Boundary(k)
  BY <1>1, BodyLines DEF Written, Discovered
<1>3. Together(text, heads, j, i)
  BY TogetherIsAnEquivalence
<1>4. b <= i
  <2>1. CASE b \in heads
    <3>1. b \in Cuts(text, heads)
      BY <2>1, WrittenLines
    <3> QED
      BY <1>2, <3>1 DEF Together
  <2>2. CASE b \in Tails(heads)
    <3> SUFFICES ASSUME ~(b <= i) PROVE FALSE
      OBVIOUS
    <3>1. i <= b
      BY <1>1
    <3>2. Together(text, heads, b, j)
      BY <1>1, <1>2, <3>1, TogetherBetween
    <3>3. Together(text, heads, j, b)
      BY <3>2, TogetherIsAnEquivalence
    <3>4. j <= b
      BY <1>2, <2>2, <3>3, TailsComeLast
    <3> QED
      BY <1>1, <1>2, <2>2, <3>4
  <2> QED
    BY <1>1, <2>1, <2>2
<1>5. ASSUME NEW k \in Lines(text), b < k, k <= i PROVE ~Boundary(k)
  <2>1. CASE k <= j
    BY <1>2, <1>5, <2>1
  <2>2. CASE ~(k <= j)
    <3>1. j <= k /\ j \in Nat /\ k \in Nat /\ i \in Nat
      BY <1>1, <1>2, <2>2
    <3>2. ~(k \in Cuts(text, heads))
      BY <1>5, <2>2 DEF Together
    <3>3. ~Edge(text, k) /\ k \notin heads
      BY <3>2 DEF Cuts
    <3>4. k \notin Tails(heads)
      <4> SUFFICES ASSUME k \in Tails(heads) PROVE FALSE
        OBVIOUS
      <4>1. Together(text, heads, k, i)
        BY <1>3, <1>5, <3>1, TogetherBetween
      <4>2. Together(text, heads, i, k)
        BY <4>1, TogetherIsAnEquivalence
      <4>3. i <= k
        BY <4>2, TailsComeLast
      <4> QED
        BY <1>5, <3>1, <4>3
    <3> QED
      BY <3>3, <3>4, RoutinesAreHeads DEF Boundary
  <2> QED
    BY <2>1, <2>2
<1> QED
  BY <1>1, <1>4, <1>5, BodyLines DEF Written, Discovered

(***************************************************************************)
(* Below a routine that is sure, a line outside of the banks is in a body. *)
(***************************************************************************)
LEMMA BelowSureInBody ==
  ASSUME NEW heads, Written(heads), NEW i \in Lines(text), BelowSureRoutine(text, i),
         ~InBank(text, i)
  PROVE  \E b \in Blocks : i \in Body(b)
<1>1. Len(text) \in Nat /\ Lines(text) = 1..Len(text)
  BY WrittenLines
<1>2. PICK s \in SureRoutines(text) : s <= i /\ \A e \in (s + 1)..i : ~Edge(text, e)
  BY DEF BelowSureRoutine
<1> DEFINE above == {r \in routine : s <= r /\ r <= i}
           b     == Max(above)
<1>3. s \in above /\ above \in SUBSET (0..Len(text))
  BY <1>1, <1>2, WrittenLines
<1>4. b \in above /\ \A r \in above : r <= b
  BY <1>1, <1>3, GreatestLine
<1> HIDE DEF b
<1>5. /\ b \in routine /\ b \in Lines(text) /\ b \in LabelLines(text) /\ s <= b /\ b <= i
      /\ s \in Lines(text)
  BY <1>3, <1>4, WrittenLines DEF Written, Discovered
<1>6. \A e \in (b + 1)..i : ~Edge(text, e) /\ e \notin routine
  BY <1>1, <1>2, <1>4, <1>5
<1>7. ~InBank(text, b)
  BY <1>5, <1>6, BanksEndAtEdges
<1>8. \A k \in Lines(text) : b < k /\ k <= i => ~Boundary(k)
  BY <1>1, <1>5, <1>6 DEF Boundary
<1>9. i \in Body(b)
  BY <1>5, <1>8, BodyLines DEF Written, Discovered
<1> QED
  BY <1>5, <1>7, <1>9 DEF Blocks

-----------------------------------------------------------------------------
(***************************************************************************)
(* The output.  A line that is kept names lines that are kept only: those  *)
(* it belongs together with stay with it, and routines that it names are   *)
(* visited, from its own routine or as roots.                              *)
(***************************************************************************)
Stripped(heads) ==
  /\ Written(heads)
  /\ Closed(reachable)
  /\ kept = Lines(text) \ Removed

LEMMA RemovedBody ==
  ASSUME NEW heads, Stripped(heads), NEW j \in Lines(text), j \notin kept
  PROVE  \E b \in Blocks \ reachable : j \in Body(b)
BY DEF Stripped, Removed

LEMMA KeptBody ==
  ASSUME NEW heads, Stripped(heads), NEW i \in kept, NEW b \in Blocks, i \in Body(b)
  PROVE  b \in reachable
BY DEF Stripped, Removed

LEMMA RealLabels ==
  ASSUME NEW heads, Written(heads), NEW i \in Lines(text), NEW j \in Lines(text),
         Names(text, i, text[j].label)
  PROVE  text[j].label # NoLabel
<1>1. IsText(text)
  BY TextsAssumption DEF Written, Discovered
<1>2. text[i] \in Line
  BY <1>1 DEF IsText, Lines
<1>3. text[i].refs \subseteq Labels
  BY <1>2 DEF Line
<1> QED
  BY <1>3, LabelsAssumption DEF Names, Labels

LEMMA OthersAreGenerated ==
  ASSUME NEW heads, Written(heads), NEW j \in LabelLines(text), j \notin routine
  PROVE  Generated(j)
<1>1. IsText(text) /\ j \in DOMAIN text
  BY TextsAssumption, WrittenLines DEF Written, Discovered, Lines
<1>2. text[j] \in Line
  BY <1>1 DEF IsText
<1>3. text[j].label \in Labels \cup {NoLabel}
  BY <1>2 DEF Line
<1>4. j \notin SureRoutines(text)
  BY WrittenLines
<1>5. text[j].label # NoLabel /\ text[j].label \notin SourceLabels \cup RootLabels
  BY <1>4 DEF SureRoutines, LabelLines
<1> QED
  BY <1>3, <1>5 DEF Labels, Generated

LEMMA NamedRoutinesAreVisited ==
  ASSUME NEW heads, Stripped(heads), NEW i \in kept, NEW b \in Blocks,
         Names(text, i, text[b].label)
  PROVE  b \in reachable
<1> USE DEF Stripped
<1>1. i \in Lines(text) /\ b \in Lines(text)
  BY WrittenLines DEF Blocks
<1>2. CASE \E c \in Blocks : i \in Body(c)
  <2>1. PICK c \in Blocks : i \in Body(c)
    BY <1>2
  <2>2. c \in reachable
    BY <2>1, KeptBody
  <2>3. b \in Referenced(c)
    BY <2>1 DEF Referenced, NamedIn
  <2> QED
    BY <2>2, <2>3 DEF Closed
<1>3. CASE InBank(text, i) /\ ~Marks(text, i, BankStarts \cup BankEnds)
  <2>1. BankNames(b)
    BY <1>1, <1>3 DEF BankNames
  <2> QED
    BY <2>1 DEF RootBlocks, Closed
<1>4. CASE /\ ~\E c \in Blocks : i \in Body(c)
           /\ InBank(text, i) => Marks(text, i, BankStarts \cup BankEnds)
  <2>1. ~BelowSureRoutine(text, i)
    <3> SUFFICES ASSUME BelowSureRoutine(text, i) PROVE FALSE
      OBVIOUS
    <3>1. CASE ~InBank(text, i)
      BY <1>1, <1>4, <3>1, BelowSureInBody
    <3>2. CASE Marks(text, i, BankStarts \cup BankEnds)
      <4>1. PICK s \in SureRoutines(text) : s <= i /\ \A e \in (s + 1)..i : ~Edge(text, e)
        BY DEF BelowSureRoutine
      <4>2. s \in LabelLines(text) /\ s \in Lines(text) /\ Lines(text) \subseteq Nat
        BY WrittenLines DEF Written, Discovered
      <4>3. s # i
        BY <3>2, <4>2, LabelLinesAreNoEdgesOfBanks
      <4>4. i \in (s + 1)..i
        BY <1>1, <4>1, <4>2, <4>3
      <4> QED
        BY <3>2, <4>1, <4>4 DEF Edge
    <3> QED
      BY <1>4, <3>1, <3>2
  <2>2. ~InBank(text, b)
    BY DEF Blocks
  <2>3. text[b].label \in Entries
    BY <1>1, <1>4, <2>1, <2>2 DEF Written, WrittenInRoutines, OthersNameEntries
  <2> QED
    BY <2>3 DEF RootBlocks, Marks, Closed
<1> QED
  BY <1>2, <1>3, <1>4

LEMMA NamedLinesAreKept ==
  ASSUME NEW heads, Stripped(heads), NEW i \in kept, NEW j \in Lines(text),
         Names(text, i, text[j].label)
  PROVE  j \in kept
<1> SUFFICES ASSUME j \notin kept PROVE FALSE
  OBVIOUS
<1>1. PICK b \in Blocks \ reachable : j \in Body(b)
  BY RemovedBody
<1>2. /\ Written(heads) /\ i \in Lines(text) /\ Lines(text) \subseteq Nat
      /\ b \in routine /\ b \in Lines(text) /\ i \notin Body(b)
  BY <1>1, WrittenLines, KeptBody DEF Stripped, Blocks
<1>3. /\ b <= j /\ j \in LabelLines(text)
      /\ \A e \in (b + 1)..j : ~Edge(text, e) /\ e \notin routine
  BY <1>1, <1>2, BodiesAreCode, RealLabels
<1>4. j # b
  BY <1>1, NamedRoutinesAreVisited
<1>5. j \notin routine /\ j \notin SureRoutines(text)
  <2>1. j \in (b + 1)..j
    BY <1>2, <1>3, <1>4
  <2> QED
    BY <1>2, <1>3, <2>1, WrittenLines
<1>6. Judged(j) /\ Generated(j)
  BY <1>2, <1>3, <1>5, OthersAreGenerated DEF Written, Discovered
<1>7. ~Apart(j, i, KnownThen(j))
  BY <1>2, <1>5, <1>6 DEF Judged, NamedFar
<1>8. i \notin Tails(heads)
  BY <1>2, TailsComeLast DEF Names
<1>9. j \notin Tails(heads)
  BY <1>2 DEF Tails, Called
<1>10. ~Together(text, heads, i, j)
  BY <1>1, <1>2, <1>8, <1>9, RoutinesStayWhole
<1>11. j \in heads
  BY <1>2, <1>3, <1>10 DEF Written, WrittenInRoutines, LabelsAreLocal
<1>12. b <= i
  <2>1. b \in KnownThen(j) /\ b < j
    BY <1>2, <1>3, <1>4 DEF KnownThen
  <2> QED
    BY <1>2, <1>7, <2>1 DEF Apart
<1>13. ~(i <= j)
  <2> SUFFICES ASSUME i <= j PROVE FALSE
    OBVIOUS
  <2>1. \A k \in Lines(text) : b < k /\ k <= j => ~Boundary(k)
    BY <1>1, <1>2, BodyLines DEF Written, Discovered
  <2>2. \A k \in Lines(text) : b < k /\ k <= i => ~Boundary(k)
    BY <1>2, <2>1
  <2> QED
    BY <1>2, <1>12, <2>2, BodyLines DEF Written, Discovered
<1>14. SureRoutineBetween(text, i, j)
  BY <1>2, <1>5, <1>10, <1>11, <1>13 DEF Written, WrittenInRoutines, AddressesComeFirst
<1>15. PICK s \in SureRoutines(text) : j < s /\ s <= i
  BY <1>2, <1>13, <1>14, WrittenLines DEF SureRoutineBetween
<1>16. s \in KnownThen(j)
  BY DEF KnownThen
<1> QED
  BY <1>7, <1>15, <1>16 DEF Apart

LEMMA EntriesAreKept ==
  ASSUME NEW heads, Stripped(heads), NEW j \in Lines(text), text[j].label \in Entries
  PROVE  j \in kept
<1> SUFFICES ASSUME j \notin kept PROVE FALSE
  OBVIOUS
<1>1. PICK b \in Blocks \ reachable : j \in Body(b)
  BY RemovedBody
<1>2. /\ Written(heads) /\ Lines(text) \subseteq Nat /\ b \in Lines(text)
      /\ SureRoutines(text) \subseteq Lines(text)
  BY WrittenLines DEF Stripped, Blocks
<1>3. text[j].label # NoLabel
  BY ExtraRootsAssumption, LabelsAssumption DEF Entries
<1>4. /\ b <= j /\ j \in LabelLines(text)
      /\ \A e \in (b + 1)..j : ~Edge(text, e) /\ e \notin routine
  BY <1>1, <1>2, <1>3, BodiesAreCode
<1>5. j # b
  BY <1>1 DEF RootBlocks, Marks, Stripped, Closed
<1>6. j \notin routine /\ j \notin SureRoutines(text)
  <2>1. j \in (b + 1)..j
    BY <1>2, <1>4, <1>5
  <2> QED
    BY <1>2, <1>4, <2>1, WrittenLines
<1>7. text[j].label \in ExtraRoots
  BY <1>4, <1>6 DEF Entries, SureRoutines
<1>8. PICK i \in Lines(text) : Names(text, i, text[j].label) /\ SureRoutineBetween(text, i, j)
  BY <1>2, <1>4, <1>6, <1>7 DEF Written, WrittenInRoutines, ExtraRootsAreKnown
<1>9. Apart(j, i, KnownThen(j))
  <2>1. PICK s \in SureRoutines(text) : (i < s /\ s <= j) \/ (j < s /\ s <= i)
    BY <1>8 DEF SureRoutineBetween
  <2>2. s # j /\ s \in Nat /\ j \in Nat /\ i \in Nat /\ s \in KnownThen(j)
    BY <1>2, <1>6 DEF KnownThen
  <2> QED
    BY <2>1, <2>2 DEF Apart
<1>10. Judged(j) /\ Generated(j)
  BY <1>2, <1>4, <1>6, OthersAreGenerated DEF Written, Discovered
<1> QED
  BY <1>6, <1>8, <1>9, <1>10 DEF Judged, NamedFar

-----------------------------------------------------------------------------
(***************************************************************************)
(* Control.  The machine comes to lines of routines that are not below     *)
(* their last instruction, or that do not go on; and from such a line it   *)
(* goes on to the next one of the text, which is kept.                     *)
(***************************************************************************)
Alive(heads, i) ==
  /\ ~PastTheEnd(text, heads, i)
  /\ GoesOn(text, i) => InRoutine(text, heads, i)

LEMMA NextIsAlive ==
  ASSUME NEW heads, Written(heads), NEW i \in Lines(text), i + 1 \in Lines(text),
         Alive(heads, i), GoesOn(text, i)
  PROVE  /\ ~Edge(text, i + 1) /\ InRoutine(text, heads, i + 1)
         /\ Alive(heads, i + 1)
<1>1. Lines(text) \subseteq Nat /\ Cuts(text, heads) \subseteq Nat /\ heads \subseteq Nat
  BY WrittenLines
<1>2. ~Edge(text, i + 1)
  BY DEF Alive, Written, WrittenInRoutines, RoutinesEnd
<1>3. CASE i + 1 \in heads
  <2>1. Together(text, heads, i + 1, i + 1)
    BY DEF Together
  <2>2. \A k \in Lines(text) : Together(text, heads, k, i + 1) => i + 1 <= k
    BY <1>1, <1>3, WrittenLines DEF Together
  <2> QED
    BY <1>1, <1>2, <1>3, <2>1, <2>2 DEF Alive, InRoutine, PastTheEnd
<1>4. CASE i + 1 \notin heads
  <2>1. Together(text, heads, i, i + 1)
    <3>1. i + 1 \notin Cuts(text, heads)
      BY <1>2, <1>4 DEF Cuts
    <3> QED
      BY <1>1, <3>1 DEF Together
  <2>2. Together(text, heads, i + 1, i)
    BY <2>1, TogetherIsAnEquivalence
  <2>3. InRoutine(text, heads, i + 1)
    BY <2>1, TogetherIsAnEquivalence DEF InRoutine, Alive
  <2>4. ASSUME PastTheEnd(text, heads, i + 1) PROVE FALSE
    <3>1. PICK k \in Lines(text) :
            /\ k < i + 1 /\ Together(text, heads, k, i + 1)
            /\ EndsControl(text, k)
            /\ \A c \in Lines(text) : c > k /\ Together(text, heads, c, i + 1) => ~HasCode(text, c)
      BY <2>4 DEF PastTheEnd
    <3>2. Together(text, heads, k, i)
      BY <2>2, <3>1, TogetherIsAnEquivalence
    <3>3. \A c \in Lines(text) : c > k /\ Together(text, heads, c, i) => ~HasCode(text, c)
      BY <2>1, <3>1, TogetherIsAnEquivalence
    <3>4. CASE k < i
      BY <3>1, <3>2, <3>3, <3>4 DEF PastTheEnd, Alive
    <3>5. CASE k = i
      <4>1. text[i].kind = "return_if"
        BY <3>1, <3>5 DEF EndsControl, IsReturn, GoesOn
      <4>2. PICK c \in Lines(text) : c > i /\ HasCode(text, c) /\ Together(text, heads, c, i)
        BY <4>1 DEF Written, WrittenInRoutines, RoutinesEnd
      <4> QED
        BY <3>3, <3>5, <4>2
    <3> QED
      BY <1>1, <3>1, <3>4, <3>5
  <2> QED
    BY <1>2, <2>3, <2>4 DEF Alive
<1> QED
  BY <1>3, <1>4

LEMMA TailsArePastTheEnd ==
  ASSUME NEW heads, Written(heads), NEW j \in Tails(heads), InRoutine(text, heads, j)
  PROVE  PastTheEnd(text, heads, j)
<1>1. Len(text) \in Nat /\ Lines(text) = 1..Len(text) /\ j \in Lines(text)
  BY WrittenLines
<1>2. PICK h \in heads : Together(text, heads, h, j)
  BY DEF InRoutine
<1>3. PICK c \in Lines(text) : HasCode(text, c) /\ Together(text, heads, h, c)
  BY DEF Written, WrittenInRoutines, RoutinesAreLaidOut
<1>4. Together(text, heads, c, j)
  BY <1>2, <1>3, TogetherIsAnEquivalence
<1>5. c < j
  <2>1. c <= j /\ c # j
    BY <1>3, <1>4, TailsComeLast
  <2> QED
    BY <1>1, <2>1
<1> DEFINE before == {k \in Lines(text) : k < j /\ HasCode(text, k)}
           k      == Max(before)
<1>6. c \in before /\ before \in SUBSET (0..Len(text))
  BY <1>1, <1>3, <1>5
<1>7. k \in before /\ \A x \in before : x <= k
  BY <1>1, <1>6, GreatestLine
<1>8. IsReturn(text, k)
  BY DEF Tails, FollowsReturn
<1> HIDE DEF k
<1>9. k \in Lines(text) /\ k < j /\ c <= k
  BY <1>6, <1>7
<1>10. Together(text, heads, k, j)
  BY <1>1, <1>4, <1>9, TogetherBetween
<1>11. ASSUME NEW x \in Lines(text), x > k, Together(text, heads, x, j) PROVE ~HasCode(text, x)
  <2>1. x <= j
    BY <1>11, TailsComeLast
  <2>2. CASE x = j
    BY <2>2, TailsComeLast
  <2>3. CASE x < j
    BY <1>1, <1>7, <1>9, <1>11, <2>3
  <2> QED
    BY <1>1, <2>1, <2>2, <2>3
<1> QED
  BY <1>8, <1>9, <1>10, <1>11 DEF PastTheEnd, EndsControl

(***************************************************************************)
(* The line after one that is kept and goes on is kept: if it starts a     *)
(* routine, the one above runs on into it.                                 *)
(***************************************************************************)
LEMMA NextIsKept ==
  ASSUME NEW heads, Stripped(heads), NEW i \in kept, i + 1 \in Lines(text),
         Alive(heads, i), GoesOn(text, i)
  PROVE  i + 1 \in kept
<1> SUFFICES ASSUME i + 1 \notin kept PROVE FALSE
  OBVIOUS
<1> DEFINE b == i + 1
<1>1. /\ Written(heads) /\ i \in Lines(text) /\ Len(text) \in Nat /\ Lines(text) = 1..Len(text)
      /\ heads \subseteq Lines(text) /\ routine \subseteq Lines(text)
  BY WrittenLines DEF Stripped
<1>2. PICK a \in Blocks \ reachable : b \in Body(a)
  BY RemovedBody
<1>3. /\ a \in Lines(text) /\ a <= b /\ ~InBank(text, b)
      /\ \A k \in Lines(text) : a < k /\ k <= b => ~Boundary(k)
  BY <1>1, <1>2, BodyLines, BodiesAreCode DEF Blocks, Written, Discovered
<1>4. a = b
  <2> SUFFICES ASSUME a # b PROVE FALSE
    OBVIOUS
  <2>1. a <= i
    BY <1>1, <1>3
  <2>2. i \in Body(a)
    BY <1>1, <1>3, <2>1, BodyLines DEF Written, Discovered
  <2> QED
    BY <1>2, <2>2, KeptBody
<1>5. /\ ~Edge(text, b) /\ InRoutine(text, heads, b) /\ Alive(heads, b)
      /\ b \in Blocks /\ b \notin reachable /\ b \in routine
  BY <1>1, <1>2, <1>4, NextIsAlive DEF Blocks
<1>6. b \in heads
  <2>1. b \notin Tails(heads)
    BY <1>1, <1>5, TailsArePastTheEnd DEF Alive
  <2> QED
    BY <1>1, <1>5, <2>1, RoutinesAreHeads
<1>7. PICK h \in heads : Together(text, heads, h, i)
  BY DEF Alive, InRoutine
<1>8. h <= i /\ BelowSureRoutine(text, i) /\ ~InBank(text, i)
  <2>1. h <= i
    BY <1>1, <1>7, HeadsComeFirst
  <2>2. PICK s \in SureRoutines(text) : s <= h /\ \A e \in (s + 1)..h : ~Edge(text, e)
    BY <1>1 DEF Written, WrittenInRoutines, RoutinesAreLaidOut, BelowSureRoutine
  <2>3. s \in LabelLines(text) /\ s \in Lines(text)
    BY <1>1, WrittenLines DEF Written, Discovered
  <2>4. \A e \in (h + 1)..i : ~Edge(text, e)
    <3> SUFFICES ASSUME NEW e \in (h + 1)..i, Edge(text, e) PROVE FALSE
      OBVIOUS
    <3>1. e \in Lines(text) /\ h < e /\ e <= i
      BY <1>1, <2>1
    <3>2. e \in Cuts(text, heads)
      BY <3>1 DEF Cuts
    <3> QED
      BY <1>1, <1>7, <3>1, <3>2 DEF Together
  <2>5. \A e \in (s + 1)..i : ~Edge(text, e)
    BY <1>1, <2>1, <2>2, <2>3, <2>4
  <2>6. \A e \in (s + 1)..b : ~Edge(text, e)
    BY <1>1, <1>5, <2>3, <2>5
  <2>7. InBank(text, s) <=> InBank(text, i)
    BY <1>1, <2>1, <2>2, <2>3, <2>5, BanksEndAtEdges
  <2>8. InBank(text, s) <=> InBank(text, b)
    BY <1>1, <2>1, <2>2, <2>3, <2>6, BanksEndAtEdges
  <2>9. s <= i
    BY <1>1, <2>1, <2>2, <2>3
  <2> QED
    BY <1>3, <2>1, <2>5, <2>7, <2>8, <2>9 DEF BelowSureRoutine
<1>9. PICK c \in Blocks : i \in Body(c)
  BY <1>1, <1>8, BelowSureInBody
<1>10. c \in reachable
  BY <1>9, KeptBody
<1>11. /\ c \in Lines(text) /\ c <= i
       /\ \A e \in (c + 1)..i : ~Edge(text, e) /\ e \notin routine
  BY <1>1, <1>9, BodiesAreCode DEF Blocks
<1> DEFINE later == {d \in Blocks : d > c}
<1>12. b \in later /\ \A d \in later : b <= d
  <2>1. \A d \in later : d \in Lines(text) /\ d \in routine
    BY <1>1 DEF Blocks
  <2>2. \A d \in later : ~(d <= i)
    BY <1>1, <1>11, <2>1
  <2> QED
    BY <1>1, <1>5, <1>11, <2>1, <2>2
<1>13. Min(later) = b
  <2>1. later \subseteq Nat
    BY <1>1 DEF Blocks
  <2>2. Min(later) \in later /\ Min(later) <= b
    BY <1>12, <2>1, LeastLine
  <2>3. b <= Min(later) /\ Min(later) \in Nat /\ b \in Nat
    BY <1>1, <1>12, <2>1, <2>2
  <2> QED
    BY <2>2, <2>3
<1>14. EndsTransfer(c)
  <2>1. b \notin FallsInto(c)
    BY <1>5, <1>10 DEF Stripped, Closed
  <2> QED
    BY <1>12, <1>13, <2>1 DEF FallsInto
<1> DEFINE code == {k \in Body(c) : HasCode(text, k)}
           k    == Max(code)
<1>15. Body(c) \subseteq 0..Len(text)
  <2>1. Body(c) \subseteq Lines(text)
    BY <1>9, BodiesAreCode, <1>1
  <2> QED
    BY <1>1, <2>1
<1>16. code # {} /\ EndsControl(text, k)
  BY <1>14 DEF EndsTransfer
<1>17. k \in code /\ \A x \in code : x <= k
  BY <1>1, <1>15, <1>16, GreatestLine
<1> HIDE DEF k
<1>18. PICK x \in Lines(text) : HasCode(text, x) /\ Together(text, heads, h, x)
  BY <1>1 DEF Written, WrittenInRoutines, RoutinesAreLaidOut
<1>19. Together(text, heads, x, i)
  BY <1>7, <1>18, TogetherIsAnEquivalence
<1>20. \A y \in Lines(text) : Together(text, heads, y, i) => y <= i
  <2>1. b \in Cuts(text, heads)
    BY <1>1, <1>6, WrittenLines
  <2> QED
    BY <1>1, <2>1 DEF Together
<1>21. i \notin Tails(heads)
  <2>1. InRoutine(text, heads, i)
    BY DEF Alive
  <2> QED
    BY <1>1, <2>1, TailsArePastTheEnd DEF Alive
<1>22. \A y \in Lines(text) : Together(text, heads, y, i) /\ HasCode(text, y) => y \in code
  <2> SUFFICES ASSUME NEW y \in Lines(text), Together(text, heads, y, i), HasCode(text, y)
               PROVE  y \in code
    OBVIOUS
  <2>1. y \notin Tails(heads)
    BY <1>1, TailsComeLast
  <2> QED
    BY <1>1, <1>9, <1>21, <2>1, RoutinesStayWhole
<1>23. x <= k /\ k \in Lines(text)
  BY <1>1, <1>9, <1>17, <1>18, <1>19, <1>22, BodiesAreCode
<1>24. k <= i
  <2> SUFFICES ASSUME ~(k <= i) PROVE FALSE
    OBVIOUS
  <2>1. k \in Body(c) /\ b \in (c + 1)..k
    BY <1>1, <1>11, <1>17, <1>23
  <2> QED
    BY <1>1, <1>5, <1>9, <2>1, BodiesAreCode
<1>25. Together(text, heads, k, i)
  BY <1>1, <1>19, <1>23, <1>24, TogetherBetween
<1>26. \A y \in Lines(text) : y > k /\ Together(text, heads, y, i) => ~HasCode(text, y)
  BY <1>1, <1>17, <1>22, <1>23
<1>27. CASE k < i
  BY <1>16, <1>23, <1>25, <1>26, <1>27 DEF PastTheEnd, Alive
<1>28. CASE k = i
  <2>1. text[i].kind = "return_if"
    BY <1>16, <1>28 DEF EndsControl, IsReturn, GoesOn
  <2>2. PICK y \in Lines(text) : y > i /\ HasCode(text, y) /\ Together(text, heads, y, i)
    BY <1>1, <2>1 DEF Written, WrittenInRoutines, RoutinesEnd
  <2> QED
    BY <1>26, <1>28, <2>2
<1> QED
  BY <1>1, <1>23, <1>24, <1>27, <1>28

-----------------------------------------------------------------------------
(***************************************************************************)
(* The stripped program and the whole one, step by step.                   *)
(***************************************************************************)
LEMMA FirstAfter ==
  ASSUME NEW S \in SUBSET Nat, NEW i \in Nat, i + 1 \in S
  PROVE  Min({j \in S : j > i}) = i + 1
<1> DEFINE T == {j \in S : j > i}
<1>1. T \in SUBSET Nat /\ i + 1 \in T
  <2>1. i + 1 > i
    OBVIOUS
  <2> QED
    BY <2>1
<1>2. Min(T) \in T /\ Min(T) <= i + 1
  <2>1. T # {}
    BY <1>1
  <2> QED
    BY <1>1, <2>1, LeastLine
<1>3. Min(T) \in Nat /\ Min(T) > i
  BY <1>1, <1>2
<1> QED
  BY <1>2, <1>3

LEMMA FollowingIsTheNext ==
  ASSUME NEW heads, Stripped(heads), NEW i \in kept, Alive(heads, i), GoesOn(text, i)
  PROVE  /\ Output!Following(i) = Original!Following(i)
         /\ \A j \in Output!Following(i) : j \in kept /\ Alive(heads, j)
<1>1. Len(text) \in Nat /\ Lines(text) = 1..Len(text) /\ kept \subseteq Lines(text)
      /\ i \in Lines(text) /\ Written(heads)
  BY WrittenLines DEF Stripped
<1>2. /\ \A S : Output!Min(S) = Min(S)
      /\ \A S : Original!Min(S) = Min(S)
  BY DEF Output!Min, Original!Min, Min
<1>3. CASE i + 1 \in Lines(text)
  <2>1. i + 1 \in kept /\ Alive(heads, i + 1)
    BY <1>1, <1>3, NextIsKept, NextIsAlive
  <2>2. Min({j \in kept : j > i}) = i + 1 /\ Min({j \in Lines(text) : j > i}) = i + 1
    <3>1. kept \in SUBSET Nat /\ Lines(text) \in SUBSET Nat /\ i \in Nat
      BY <1>1
    <3> QED
      BY <1>3, <2>1, <3>1, FirstAfter
  <2>3. {j \in kept : j > i} # {} /\ {j \in Lines(text) : j > i} # {}
    BY <1>1, <1>3, <2>1
  <2>4. Output!Following(i) = {i + 1} /\ Original!Following(i) = {i + 1}
    BY <1>2, <2>2, <2>3 DEF Output!Following, Original!Following
  <2> QED
    BY <2>1, <2>4
<1>4. CASE i + 1 \notin Lines(text)
  <2>1. {j \in kept : j > i} = {} /\ {j \in Lines(text) : j > i} = {}
    BY <1>1, <1>4
  <2>2. Output!Following(i) = {} /\ Original!Following(i) = {}
    BY <2>1 DEF Output!Following, Original!Following
  <2> QED
    BY <2>2
<1> QED
  BY <1>3, <1>4

LEMMA EnteredLinesAreAlive ==
  ASSUME NEW heads, Written(heads), NEW j \in Lines(text), text[j].label # NoLabel,
         Enterable(text, j)
  PROVE  Alive(heads, j)
BY DEF Written, WrittenInRoutines, CodeIsEntered, Alive

(***************************************************************************)
(* The lines that the operands of a kept line name, and their addresses.   *)
(***************************************************************************)
LEMMA NamedLines ==
  ASSUME NEW heads, Stripped(heads), NEW i \in kept, NEW labels, labels \subseteq text[i].refs
  PROVE  /\ Output!LinesOf(labels) = Original!LinesOf(labels)
         /\ Output!LinesOf(labels) \subseteq kept
         /\ (text[i].kind = "data" => text[i].label # NoLabel) =>
              \A j \in Output!LinesOf(labels) : Alive(heads, j)
<1>1. Written(heads) /\ kept \subseteq Lines(text)
  BY DEF Stripped
<1>2. ASSUME NEW j \in Lines(text), text[j].label \in labels
      PROVE  j \in kept /\ Names(text, i, text[j].label) /\ text[j].label # NoLabel
  <2>1. Names(text, i, text[j].label)
    BY <1>2 DEF Names
  <2> QED
    BY <1>1, <2>1, NamedLinesAreKept, RealLabels
<1>3. Output!LinesOf(labels) = Original!LinesOf(labels)
  BY <1>1, <1>2 DEF Output!LinesOf, Original!LinesOf
<1>4. ASSUME text[i].kind = "data" => text[i].label # NoLabel,
             NEW j \in Output!LinesOf(labels)
      PROVE  Alive(heads, j)
  <2>1. j \in Lines(text) /\ text[j].label \in labels
    BY <1>1 DEF Output!LinesOf
  <2>2. Enterable(text, j)
    BY <1>1, <1>2, <1>4, <2>1 DEF Enterable
  <2> QED
    BY <1>1, <1>2, <2>1, <2>2, EnteredLinesAreAlive
<1> QED
  BY <1>3, <1>4, LinesOfKept

LEMMA EntryLines ==
  ASSUME NEW heads, Stripped(heads)
  PROVE  /\ Output!LinesOf(Entries) = Original!LinesOf(Entries)
         /\ \A j \in Output!LinesOf(Entries) : Alive(heads, j)
<1>1. Written(heads) /\ kept \subseteq Lines(text)
  BY DEF Stripped
<1>2. ASSUME NEW j \in Lines(text), text[j].label \in Entries
      PROVE  j \in kept /\ Alive(heads, j)
  <2>1. text[j].label # NoLabel
    BY <1>2, ExtraRootsAssumption, LabelsAssumption DEF Entries
  <2> QED
    BY <1>1, <1>2, <2>1, EntriesAreKept, EnteredLinesAreAlive DEF Enterable
<1> QED
  BY <1>1, <1>2 DEF Output!LinesOf, Original!LinesOf

RunsWell(heads) ==
  /\ pc \in kept \cup {0}
  /\ known \subseteq kept
  /\ \A i \in known \cup ({pc} \ {0}) : Alive(heads, i)

LEMMA SameSuccessors ==
  ASSUME NEW heads, Stripped(heads), RunsWell(heads)
  PROVE  /\ Output!Successors(pc) = Original!Successors(pc)
         /\ Output!Successors(pc) \subseteq kept
         /\ \A j \in Output!Successors(pc) : Alive(heads, j)
<1> USE DEF RunsWell
<1>1. CASE pc = 0
  BY <1>1, EntryLines, LinesOfKept DEF Output!Successors, Original!Successors
<1>2. CASE pc # 0
  <2>1. pc \in kept /\ Alive(heads, pc)
    BY <1>2
  <2>2. GoesOn(text, pc) =>
          /\ Output!Following(pc) = Original!Following(pc)
          /\ \A j \in Output!Following(pc) : j \in kept /\ Alive(heads, j)
    BY <2>1, FollowingIsTheNext
  <2>3. text[pc].kind # "data" =>
          /\ Output!Target(pc) = Original!Target(pc)
          /\ \A j \in Output!Target(pc) : j \in kept /\ Alive(heads, j)
    BY <2>1, NamedLines DEF Output!Target, Original!Target
  <2>4. CASE text[pc].kind \in {"none", "plain"}
    BY <1>2, <2>2, <2>4 DEF GoesOn, Output!Successors, Original!Successors
  <2>5. CASE text[pc].kind = "branch"
    BY <1>2, <2>2, <2>3, <2>5 DEF GoesOn, Output!Successors, Original!Successors
  <2>6. CASE text[pc].kind \in {"call", "jump"}
    BY <1>2, <2>3, <2>6 DEF Output!Successors, Original!Successors
  <2>7. CASE text[pc].kind = "return"
    BY <1>2, <2>7 DEF Output!Successors, Original!Successors
  <2>8. CASE text[pc].kind = "return_if"
    BY <1>2, <2>2, <2>8 DEF GoesOn, Output!Successors, Original!Successors
  <2>9. CASE text[pc].kind \notin {"none", "plain", "branch", "call", "jump", "return", "return_if"}
    BY <1>2, <2>9 DEF Output!Successors, Original!Successors
  <2> QED
    BY <2>4, <2>5, <2>6, <2>7, <2>8, <2>9
<1> QED
  BY <1>1, <1>2

LEMMA SameAddresses ==
  ASSUME NEW heads, Stripped(heads), RunsWell(heads)
  PROVE  /\ Output!Learned(pc) = Original!Learned(pc)
         /\ Output!Learned(pc) \subseteq kept
         /\ \A j \in Output!Learned(pc) : Alive(heads, j)
<1> USE DEF RunsWell
<1>1. CASE pc = 0
  BY <1>1 DEF Output!Learned, Original!Learned
<1>2. CASE pc # 0 /\ text[pc].kind = "call"
  <2>1. pc \in kept /\ Alive(heads, pc) /\ GoesOn(text, pc)
    BY <1>2 DEF GoesOn
  <2>2. /\ Output!Following(pc) = Original!Following(pc)
        /\ \A j \in Output!Following(pc) : j \in kept /\ Alive(heads, j)
    BY <2>1, FollowingIsTheNext
  <2> QED
    BY <1>2, <2>2 DEF Output!Learned, Original!Learned
<1>3. CASE pc # 0 /\ text[pc].kind = "plain"
  <2> DEFINE tables == {j \in Output!Target(pc) : text[j].kind = "data"}
             labels == text[pc].refs \cup UNION {text[j].refs : j \in tables}
  <2>1. pc \in kept /\ Alive(heads, pc) /\ text[pc].kind # "data"
    BY <1>3
  <2>2. Output!Target(pc) = Original!Target(pc) /\ Output!Target(pc) \subseteq kept
    BY <2>1, NamedLines DEF Output!Target, Original!Target
  <2>3. \A j \in tables : j \in kept /\ text[j].label # NoLabel
    <3> SUFFICES ASSUME NEW j \in tables PROVE text[j].label # NoLabel
      BY <2>2
    <3>1. Names(text, pc, text[j].label) /\ j \in Lines(text) /\ pc \in Lines(text)
      BY <2>1 DEF Output!Target, Output!LinesOf, Names, Stripped
    <3> QED
      BY <3>1, RealLabels DEF Stripped
  <2>4. Output!Learned(pc) = Output!LinesOf(labels)
    BY <1>3 DEF Output!Learned
  <2>5. Original!Learned(pc) = Original!LinesOf(labels)
    BY <1>3, <2>2 DEF Original!Learned
  <2>6. /\ Output!LinesOf(text[pc].refs) = Original!LinesOf(text[pc].refs)
        /\ \A j \in Output!LinesOf(text[pc].refs) : j \in kept /\ Alive(heads, j)
    BY <2>1, NamedLines
  <2>7. \A t \in tables :
          /\ Output!LinesOf(text[t].refs) = Original!LinesOf(text[t].refs)
          /\ \A j \in Output!LinesOf(text[t].refs) : j \in kept /\ Alive(heads, j)
    BY <2>3, NamedLines
  <2> HIDE DEF tables
  <2>8. \A j : j \in Output!LinesOf(labels) <=>
          \/ j \in Output!LinesOf(text[pc].refs)
          \/ \E t \in tables : j \in Output!LinesOf(text[t].refs)
    BY DEF Output!LinesOf
  <2>9. \A j : j \in Original!LinesOf(labels) <=>
          \/ j \in Original!LinesOf(text[pc].refs)
          \/ \E t \in tables : j \in Original!LinesOf(text[t].refs)
    BY DEF Original!LinesOf
  <2>10. Output!LinesOf(labels) = Original!LinesOf(labels)
    <3>1. \A j : j \in Output!LinesOf(labels) <=> j \in Original!LinesOf(labels)
      BY <2>6, <2>7, <2>8, <2>9
    <3>2. /\ Output!LinesOf(labels) = {j \in Output!LinesOf(labels) : TRUE}
          /\ Original!LinesOf(labels) = {j \in Original!LinesOf(labels) : TRUE}
      BY DEF Output!LinesOf, Original!LinesOf
    <3> HIDE DEF labels
    <3> QED
      BY <3>1, <3>2
  <2>11. \A j \in Output!LinesOf(labels) : j \in kept /\ Alive(heads, j)
    BY <2>6, <2>7, <2>8
  <2> HIDE DEF labels
  <2> QED
    BY <2>4, <2>5, <2>10, <2>11
<1>4. CASE pc # 0 /\ text[pc].kind \notin {"call", "plain"}
  BY <1>4 DEF Output!Learned, Original!Learned
<1> QED
  BY <1>1, <1>2, <1>3, <1>4

-----------------------------------------------------------------------------
(***************************************************************************)
(* The output is the text without the routines that nothing leads to, and  *)
(* the machine starts when it is written.                                  *)
(***************************************************************************)
KeptInv ==
  /\ stage = "run" => Closed(reachable) /\ kept = Lines(text) \ Removed
  /\ stage # "run" => pc = 0 /\ known = {}

StrippingInv == StripInv /\ DiscoveryInv /\ VisitInv /\ KeptInv

LEMMA KeptInvNext == StripInv /\ VisitInv /\ KeptInv /\ [Next]_vars => KeptInv'
<1> SUFFICES ASSUME StripInv, VisitInv, KeptInv, [Next]_vars PROVE KeptInv'
  OBVIOUS
<1>1. ASSUME NEW i \in Lines(text), Consider(i) PROVE KeptInv'
  BY <1>1 DEF Consider, KeptInv, runVars
<1>2. CASE BeginVisits
  BY <1>2 DEF BeginVisits, KeptInv, runVars
<1>3. ASSUME NEW b \in Lines(text), Visit(b) PROVE KeptInv'
  BY <1>3 DEF Visit, KeptInv, runVars
<1> DEFINE Same == text' = text /\ routine' = routine /\ reachable' = reachable
<1>4. ASSUME Same
      PROVE  Closed(reachable)' = Closed(reachable) /\ Removed' = Removed /\ Lines(text)' = Lines(text)
  <2>1. Blocks' = Blocks /\ \A S : Closed(S)' = Closed(S)
    BY <1>4, SameRoutines
  <2>2. \A b : Body(b)' = Body(b)
    BY <1>4 DEF Body, Boundary
  <2>3. Closed(reachable)' = Closed(reachable)
    BY <1>4, SameRoutines DEF Closed
  <2> QED
    BY <1>4, <2>1, <2>2, <2>3 DEF Removed
<1>5. CASE WriteOutput
  <2>1. Same /\ stage = "visit" /\ pending = {} /\ kept' = Lines(text) \ Removed /\ stage' = "run"
    BY <1>5 DEF WriteOutput, stripVars
  <2>2. Closed(reachable)
    BY <2>1 DEF StripInv, StripTypeOK, VisitInv, Closed
  <2> QED
    BY <1>4, <2>1, <2>2 DEF KeptInv
<1>6. CASE RunStripped
  <2>1. Same /\ stage = "run" /\ stage' = "run" /\ kept' = kept
    BY <1>6 DEF RunStripped, stripVars, Output!MachineStep
  <2> QED
    BY <1>4, <2>1 DEF KeptInv
<1>7. CASE UNCHANGED vars
  <2>1. Same /\ stage' = stage /\ kept' = kept /\ pc' = pc /\ known' = known
    BY <1>7 DEF vars, stripVars, runVars
  <2> QED
    BY <1>4, <2>1 DEF KeptInv
<1> QED
  BY <1>1, <1>2, <1>3, <1>5, <1>6, <1>7 DEF Next, StripNext

LEMMA StrippingInvInit == Init => StrippingInv
<1> SUFFICES ASSUME Init PROVE StrippingInv
  OBVIOUS
<1>1. VisitInv /\ KeptInv
  BY DEF Init, VisitInv, KeptInv, Original!MachineInit
<1> QED
  BY <1>1, StripInvInit, DiscoveryInvInit DEF StrippingInv

LEMMA StrippingInvNext == StrippingInv /\ [Next]_vars => StrippingInv'
BY StripInvNext, DiscoveryInvNext, VisitInvNext, KeptInvNext DEF StrippingInv

AllWritten(labels) == \A t \in Texts : WrittenInRoutines(t, Heads(t, labels))

LEMMA StrippedText ==
  ASSUME NEW labels, AllWritten(labels), StrippingInv, stage = "run"
  PROVE  Stripped(Heads(text, labels))
<1>1. \A i \in LabelLines(text) : Judged(i)
  BY DEF StrippingInv, DiscoveryInv
<1>2. Discovered
  BY <1>1 DEF StrippingInv, StripInv, StripTypeOK, DiscoveryInv, Discovered
<1>3. Written(Heads(text, labels))
  BY <1>2 DEF AllWritten, Written, Heads, Discovered
<1> QED
  BY <1>3 DEF StrippingInv, KeptInv, Stripped

RunInv(labels) == stage = "run" => RunsWell(Heads(text, labels))

LEMMA RunInvNext ==
  ASSUME NEW labels, AllWritten(labels)
  PROVE  StrippingInv /\ RunInv(labels) /\ [Next]_vars => RunInv(labels)'
<1> SUFFICES ASSUME StrippingInv, RunInv(labels), [Next]_vars, stage' = "run"
             PROVE  RunsWell(Heads(text, labels))'
  BY DEF RunInv
<1> DEFINE heads == Heads(text, labels)
<1>1. ASSUME NEW i \in Lines(text), Consider(i) PROVE FALSE
  BY <1>1 DEF Consider
<1>2. CASE BeginVisits
  BY <1>2 DEF BeginVisits
<1>3. ASSUME NEW b \in Lines(text), Visit(b) PROVE FALSE
  BY <1>3 DEF Visit
<1>4. CASE WriteOutput
  <2>1. pc' = 0 /\ known' = {}
    BY <1>4 DEF WriteOutput, runVars, StrippingInv, KeptInv
  <2> QED
    BY <2>1 DEF RunsWell
<1>5. CASE RunStripped
  <2>1. /\ stage = "run" /\ text' = text /\ kept' = kept
        /\ pc' \in Output!Successors(pc) /\ known' = known \cup Output!Learned(pc)
    BY <1>5 DEF RunStripped, Output!MachineStep
  <2>2. Stripped(heads) /\ RunsWell(heads)
    BY <2>1, StrippedText DEF RunInv
  <2>3. pc' \in kept /\ Alive(heads, pc')
    BY <2>1, <2>2, SameSuccessors
  <2>4. known' \subseteq kept /\ \A i \in known' : Alive(heads, i)
    BY <2>1, <2>2, SameAddresses DEF RunsWell
  <2>5. \A i : Alive(heads, i)' = Alive(heads, i)
    BY <2>1 DEF Alive
  <2>6. \A i \in known' \cup ({pc'} \ {0}) : Alive(heads, i)'
    BY <2>3, <2>4, <2>5
  <2> QED
    BY <2>1, <2>3, <2>4, <2>6 DEF RunsWell
<1>6. CASE UNCHANGED vars
  <2>1. text' = text /\ kept' = kept /\ pc' = pc /\ known' = known /\ stage = "run"
    BY <1>6 DEF vars, stripVars, runVars
  <2>2. RunsWell(heads)
    BY <2>1 DEF RunInv
  <2>3. \A i : Alive(heads, i)' = Alive(heads, i)
    BY <2>1 DEF Alive
  <2> QED
    BY <2>1, <2>2, <2>3 DEF RunsWell
<1> QED
  BY <1>1, <1>2, <1>3, <1>4, <1>5, <1>6 DEF Next, StripNext

-----------------------------------------------------------------------------
(***************************************************************************)
(* The output assembles: of every text that is written in routines, no     *)
(* line that is kept names a label that is gone.                           *)
(***************************************************************************)
THEOREM NoDanglingLabelsCorrect ==
  ASSUME NEW CONSTANT labels, AllWritten(labels)
  PROVE  Spec => []NoDanglingLabels
<1>1. StrippingInv => NoDanglingLabels
  <2> SUFFICES ASSUME StrippingInv, stage = "run", NEW i \in kept, NEW j \in Lines(text),
                      Names(text, i, text[j].label)
               PROVE  j \in kept
    BY DEF NoDanglingLabels
  <2>1. Stripped(Heads(text, labels))
    BY StrippedText
  <2> QED
    BY <2>1, NamedLinesAreKept
<1> QED
  BY StrippingInvInit, StrippingInvNext, <1>1, PTL DEF Spec

(***************************************************************************)
(* The stripped program never stops short: the line it comes to next is    *)
(* there, whatever the original may do.                                    *)
(***************************************************************************)
THEOREM NeverStopsShortCorrect ==
  ASSUME NEW CONSTANT labels, AllWritten(labels)
  PROVE  Spec => []NeverStopsShort
<1>1. Init => RunInv(labels)
  BY DEF Init, RunInv
<1>2. StrippingInv /\ RunInv(labels) => NeverStopsShort
  <2> SUFFICES ASSUME StrippingInv, RunInv(labels), stage = "run"
               PROVE  /\ pc \in kept \cup {0}
                      /\ Original!Successors(pc) \subseteq Output!Successors(pc)
    BY DEF NeverStopsShort
  <2>1. Stripped(Heads(text, labels)) /\ RunsWell(Heads(text, labels))
    BY StrippedText DEF RunInv
  <2> QED
    BY <2>1, SameSuccessors DEF RunsWell
<1> QED
  BY StrippingInvInit, StrippingInvNext, RunInvNext, <1>1, <1>2, PTL DEF Spec

(***************************************************************************)
(* Stripping is invisible: the stripped program implements the machine     *)
(* that runs the whole text.                                               *)
(***************************************************************************)
THEOREM RunsLikeOriginalCorrect ==
  ASSUME NEW CONSTANT labels, AllWritten(labels)
  PROVE  Spec => RunsLikeOriginal
<1>1. Init => RunInv(labels)
  BY DEF Init, RunInv
<1>2. Init => Original!MachineInit
  BY DEF Init
<1>3. StrippingInv /\ RunInv(labels) /\ [Next]_vars
        => [Original!MachineStep]_Original!machineVars
  <2> SUFFICES ASSUME StrippingInv, RunInv(labels), [Next]_vars
               PROVE  [Original!MachineStep]_Original!machineVars
    OBVIOUS
  <2>1. ASSUME text' = text, pc' = pc, known' = known
        PROVE  UNCHANGED Original!machineVars
    BY <2>1 DEF Original!machineVars, Lines
  <2>2. ASSUME NEW i \in Lines(text), Consider(i) PROVE UNCHANGED Original!machineVars
    BY <2>1, <2>2 DEF Consider, runVars
  <2>3. CASE BeginVisits
    BY <2>1, <2>3 DEF BeginVisits, runVars
  <2>4. ASSUME NEW b \in Lines(text), Visit(b) PROVE UNCHANGED Original!machineVars
    BY <2>1, <2>4 DEF Visit, runVars
  <2>5. CASE WriteOutput
    BY <2>1, <2>5 DEF WriteOutput, stripVars, runVars
  <2>6. CASE RunStripped
    <3>1. /\ stage = "run" /\ text' = text
          /\ pc' \in Output!Successors(pc) /\ known' = known \cup Output!Learned(pc)
      BY <2>6 DEF RunStripped, Output!MachineStep
    <3>2. Stripped(Heads(text, labels)) /\ RunsWell(Heads(text, labels))
      BY <3>1, StrippedText DEF RunInv
    <3>3. /\ Output!Successors(pc) = Original!Successors(pc)
          /\ Output!Learned(pc) = Original!Learned(pc)
      BY <3>2, SameSuccessors, SameAddresses
    <3> QED
      BY <3>1, <3>3 DEF Original!MachineStep, Lines
  <2>7. CASE UNCHANGED vars
    BY <2>1, <2>7 DEF vars, stripVars, runVars
  <2> QED
    BY <2>2, <2>3, <2>4, <2>5, <2>6, <2>7 DEF Next, StripNext
<1> QED
  BY StrippingInvInit, StrippingInvNext, RunInvNext, <1>1, <1>2, <1>3, PTL
     DEF Spec, RunsLikeOriginal, Original!MachineSpec
=============================================================================

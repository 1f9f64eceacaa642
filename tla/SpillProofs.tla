---------------------------- MODULE SpillProofs -----------------------------
(***************************************************************************)
(* Proofs about the spill slots of allocate: where their bytes lie, who    *)
(* may share them, and that every value in one is aligned.                 *)
(***************************************************************************)
EXTENDS PlacementProofs

(***************************************************************************)
(* Alignments are powers of two, so the greater of two is a multiple of    *)
(* both.                                                                   *)
(***************************************************************************)
\* A number is a multiple of another when it leaves no remainder.
LEMMA Multiples ==
  ASSUME NEW m \in Nat \ {0}
  PROVE  /\ \A n \in Nat : n % m = 0 => \E k \in Nat : n = m * k
         /\ \A k \in Nat : m * k \in Nat /\ (m * k) % m = 0
<1>1. ASSUME NEW n \in Nat, n % m = 0 PROVE \E k \in Nat : n = m * k
  <2>1. n \div m \in Nat /\ n = m * (n \div m) + (n % m)
    BY SMTT(30)
  <2> QED
    BY <1>1, <2>1
<1>2. ASSUME NEW k \in Nat PROVE m * k \in Nat /\ (m * k) % m = 0
  BY SMTT(30)
<1> QED
  BY <1>1, <1>2

LEMMA MultipleOfMultiple ==
  ASSUME NEW l \in Nat \ {0}, NEW m \in Nat \ {0}, NEW n \in Nat,
         m % l = 0, n % m = 0
  PROVE  n % l = 0
<1>1. PICK j \in Nat : m = l * j
  BY Multiples
<1>2. PICK k \in Nat : n = m * k
  BY Multiples
<1>3. j * k \in Nat /\ n = l * (j * k)
  BY <1>1, <1>2, SMTT(30)
<1> QED
  BY <1>3, Multiples

\* Half of a power of two greater than 1 is one, too.
LEMMA PowerHalves ==
  ASSUME NEW n \in Nat, PowerOfTwo(n), n # 1
  PROVE  \E h \in Nat \ {0} : n = 2 * h /\ h < n /\ PowerOfTwo(h)
<1>0. n \in Nat \ {0} /\ n \in 1..n
  BY DEF PowerOfTwo
<1>1. n % n = 0
  <2>1. n = n * 1
    BY <1>0
  <2> QED
    BY <1>0, <2>1, Multiples, 1 \in Nat
<1>2. n % 2 = 0
  BY <1>0, <1>1 DEF PowerOfTwo
<1>3. PICK h \in Nat : n = 2 * h
  BY <1>2, Multiples, 2 \in Nat \ {0}
<1>4. h # 0 /\ h < n
  BY <1>0, <1>3
<1>5. ASSUME NEW d \in 1..h, h % d = 0 PROVE d = 1 \/ d % 2 = 0
  <2>1. PICK k \in Nat : h = d * k
    BY <1>4, <1>5, Multiples
  <2>2. 2 * k \in Nat /\ n = d * (2 * k)
    BY <1>3, <2>1, SMTT(30)
  <2>3. n % d = 0
    BY <2>2, Multiples
  <2> QED
    BY <1>4, <2>3 DEF PowerOfTwo
<1> QED
  BY <1>3, <1>4, <1>5 DEF PowerOfTwo

\* The smaller of two powers of two divides the greater: there is no least
\* power that a smaller one fails to divide, for their halves would fail, too.
LEMMA PowersDivide ==
  ASSUME NEW a \in Nat, NEW b \in Nat, PowerOfTwo(a), PowerOfTwo(b), a <= b
  PROVE  b % a = 0
<1> DEFINE Fails(n, m) == /\ PowerOfTwo(n) /\ PowerOfTwo(m)
                          /\ m <= n /\ n % m # 0
           Failing == {n \in Nat : \E m \in Nat : Fails(n, m)}
<1>1. Failing = {}
  <2> SUFFICES ASSUME Failing # {} PROVE FALSE
    OBVIOUS
  <2>1. PICK n \in Failing : \A y \in Failing : n <= y
    BY LeastNatural
  <2>2. PICK m \in Nat : Fails(n, m)
    OBVIOUS
  <2>3. n \in Nat /\ n # 0 /\ m # 0
    BY <2>2 DEF PowerOfTwo
  <2>4. m # 1
    <3>1. n = 1 * n
      BY <2>3
    <3>2. n % 1 = 0
      BY <2>3, <3>1, Multiples, 1 \in Nat \ {0}
    <3> QED
      BY <2>2, <3>2
  <2>5. n # 1
    BY <2>2, <2>3, <2>4
  <2>6. PICK p \in Nat \ {0} : n = 2 * p /\ p < n /\ PowerOfTwo(p)
    BY <2>2, <2>3, <2>5, PowerHalves
  <2>7. PICK q \in Nat \ {0} : m = 2 * q /\ q < m /\ PowerOfTwo(q)
    BY <2>2, <2>4, PowerHalves
  <2>8. q <= p
    BY <2>2, <2>6, <2>7
  <2>9. p \notin Failing
    BY <2>1, <2>3, <2>6
  <2>10. p % q = 0
    BY <2>6, <2>7, <2>8, <2>9
  <2>11. PICK k \in Nat : p = q * k
    BY <2>10, Multiples
  <2>12. n = m * k
    BY <2>6, <2>7, <2>11, SMTT(30)
  <2>13. n % m = 0
    BY <2>3, <2>12, Multiples
  <2> QED
    BY <2>2, <2>13
<1> QED
  BY <1>1

-----------------------------------------------------------------------------

(***************************************************************************)
(* Slots of one class lie one after the other below the class's cursor.    *)
(***************************************************************************)
AreaInv ==
  /\ \A c \in DOMAIN tgt.spills : area[c] <= U32Max /\ area[c] <= AreaSize(c)
  /\ \A k \in DOMAIN slots :
       /\ slots[k].class \in DOMAIN tgt.spills
       /\ slots[k].offset + slots[k].size <= area[slots[k].class]
  /\ \A j, k \in DOMAIN slots :
       j # k /\ slots[j].class = slots[k].class =>
         \/ slots[j].offset + slots[j].size <= slots[k].offset
         \/ slots[k].offset + slots[k].size <= slots[j].offset

(***************************************************************************)
(* A tenant fits its slot; the slot remembers an end no tenant outlives.   *)
(***************************************************************************)
Tenant(v, k) == loc[v] = Slot(k)

TenantInv ==
  \A v \in VRegs(fn), k \in Nat :
    Tenant(v, k) =>
      /\ k \in DOMAIN slots
      /\ HasInterval(v)
      /\ interval[v].end <= slots[k].last_end
      /\ fn.vregs[v].size <= slots[k].size
      /\ (fn.vregs[v].reusable <=> slots[k].reusable)

SharingInv ==
  \A v, w \in VRegs(fn), k \in Nat :
    v # w /\ Tenant(v, k) /\ Tenant(w, k) => slots[k].reusable /\ ~Overlaps(v, w)

SpillInv == AreaInv /\ TenantInv /\ SharingInv

LEMMA AreaSizes ==
  ASSUME ShapeInv, NEW c \in DOMAIN tgt.spills
  PROVE  AreaSize(c) \in Nat
<1>1. tgt.spills[c] \in SpillClass
  BY DEF ShapeInv, Target
<1> QED
  BY <1>1, U32MaxAssumption DEF AreaSize, SpillClass

LEMMA NoTenants ==
  ASSUME NEW v, \A w \in VRegs(fn) : loc[w] = Unused, v \in VRegs(fn), NEW k
  PROVE  ~Tenant(v, k)
<1>1. Unused.kind # Slot(k).kind
  BY DEF Unused, Slot
<1> QED
  BY <1>1 DEF Tenant

LEMMA IdleSpill == ShapeInv /\ ~Placing => SpillInv
<1> SUFFICES ASSUME ShapeInv, ~Placing PROVE SpillInv
  OBVIOUS
<1>1. NothingPlaced
  BY DEF ShapeInv
<1>2. \A v \in VRegs(fn), k \in Nat : ~Tenant(v, k)
  BY <1>1, NoTenants DEF NothingPlaced
<1>3. \A c \in DOMAIN tgt.spills : area[c] <= U32Max /\ area[c] <= AreaSize(c)
  BY <1>1, AreaSizes, U32MaxAssumption DEF NothingPlaced
<1>4. DOMAIN slots = {}
  BY <1>1 DEF NothingPlaced
<1> QED
  BY <1>2, <1>3, <1>4 DEF SpillInv, AreaInv, TenantInv, SharingInv

(***************************************************************************)
(* Steps that leave the slots alone and place nothing in memory.           *)
(***************************************************************************)
LEMMA SlotsStay ==
  ASSUME SpillInv, UNCHANGED <<fn, tgt, interval, slots, area>>,
         \A v \in VRegs(fn), k \in Nat : Tenant(v, k)' => Tenant(v, k)
  PROVE  SpillInv'
<1>1. AreaInv'
  BY DEF SpillInv, AreaInv, AreaSize
<1>2. TenantInv'
  BY DEF SpillInv, TenantInv, HasInterval
<1>3. SharingInv'
  BY DEF SpillInv, SharingInv, Overlaps
<1> QED
  BY <1>1, <1>2, <1>3 DEF SpillInv

LEMMA ShareKeeps ==
  ASSUME ShapeInv, PlaceTypeOK, SpillInv, NEW v \in VRegs(fn),
         NEW c \in DOMAIN tgt.spills, ShareSlot(v, c)
  PROVE  SpillInv'
<1>1. /\ UNCHANGED <<fn, tgt, interval, area>> /\ Placing
      /\ spilled # << >> /\ v = Head(spilled)
  BY DEF ShareSlot, PlacedIn, livenessVars, Placing, Scanned
<1>2. PICK k \in SharedSlots(v, c) :
        /\ k \in DOMAIN slots /\ k \in Nat
        /\ loc' = [loc EXCEPT ![v] = Slot(k)]
        /\ slots' \in Seq(SpillSlot) /\ DOMAIN slots' = DOMAIN slots
        /\ \A j \in DOMAIN slots \ {k} : slots'[j] = slots[j]
        /\ slots'[k].class = slots[k].class /\ slots'[k].offset = slots[k].offset
        /\ slots'[k].size = slots[k].size /\ slots'[k].reusable = slots[k].reusable
        /\ slots'[k].last_end = interval[v].end
  BY ShareEffect
<1>3. /\ HasInterval(v) /\ interval[v].start \in Nat /\ interval[v].end \in Nat
      /\ interval[v].start <= interval[v].end
  <2>1. HasInterval(v)
    BY <1>1, QueueParts DEF PlaceTypeOK
  <2> QED
    BY <1>1, <2>1, IntervalEnds
<1>4. /\ slots[k].last_end \in Nat /\ slots[k].last_end < interval[v].start
      /\ fn.vregs[v].size <= slots[k].size
      /\ fn.vregs[v].reusable /\ slots[k].reusable
  <2>1. slots[k] \in SpillSlot
    BY <1>2 DEF PlaceTypeOK
  <2>2. slots[k].size >= fn.vregs[v].size /\ fn.vregs[v].size \in Nat
    BY <1>1, <1>2, NewSlotFit DEF SharedSlots, PlaceTypeOK
  <2> QED
    BY <1>2, <2>1, <2>2 DEF SharedSlots, SpillSlot
<1>5. \A w \in VRegs(fn), j \in Nat :
        /\ w # v => Tenant(w, j)' = Tenant(w, j)
        /\ w = v /\ Tenant(w, j)' => j = k
  BY <1>2 DEF Tenant, Slot, PlaceTypeOK
<1>6. AreaInv'
  BY <1>1, <1>2 DEF SpillInv, AreaInv, AreaSize
<1>7. TenantInv'
  <2> SUFFICES ASSUME NEW w \in VRegs(fn), NEW j \in Nat, Tenant(w, j)'
               PROVE  /\ j \in DOMAIN slots' /\ HasInterval(w)
                      /\ interval[w].end <= slots'[j].last_end
                      /\ fn.vregs[w].size <= slots'[j].size
                      /\ (fn.vregs[w].reusable <=> slots'[j].reusable)
    BY <1>1 DEF TenantInv, HasInterval
  <2>1. CASE w = v
    <3>1. j = k
      BY <1>5, <2>1
    <3>2. interval[v].end <= slots'[k].last_end
      BY <1>2, <1>3
    <3>3. fn.vregs[v].reusable <=> slots'[k].reusable
      BY <1>2, <1>4
    <3>4. k \in DOMAIN slots' /\ fn.vregs[v].size <= slots'[k].size
      BY <1>2, <1>4
    <3> QED
      BY <1>3, <2>1, <3>1, <3>2, <3>3, <3>4
  <2>2. CASE w # v
    <3>1. /\ j \in DOMAIN slots /\ HasInterval(w)
          /\ interval[w].end <= slots[j].last_end
          /\ fn.vregs[w].size <= slots[j].size
          /\ (fn.vregs[w].reusable <=> slots[j].reusable)
      BY <1>5, <2>2 DEF SpillInv, TenantInv
    <3>2. interval[w].end \in Nat
      BY <1>1, <3>1, IntervalEnds
    <3>3. CASE j = k
      <4>1. interval[w].end <= interval[v].end
        BY <1>3, <1>4, <3>1, <3>2, <3>3
      <4> QED
        BY <1>2, <3>1, <3>3, <4>1
    <3>4. CASE j # k
      BY <1>2, <3>1, <3>4
    <3> QED
      BY <3>3, <3>4
  <2> QED
    BY <2>1, <2>2
<1>8. SharingInv'
  <2>1. ASSUME NEW w \in VRegs(fn), w # v, Tenant(w, k)
        PROVE  ~Overlaps(v, w) /\ ~Overlaps(w, v)
    <3>1. HasInterval(w) /\ interval[w].end <= slots[k].last_end
      BY <1>2, <2>1 DEF SpillInv, TenantInv
    <3>2. interval[w].end \in Nat
      BY <1>1, <3>1, IntervalEnds
    <3>3. ~(interval[v].start <= interval[w].end)
      BY <1>3, <1>4, <3>1, <3>2
    <3> QED
      BY <3>3 DEF Overlaps
  <2> SUFFICES ASSUME NEW x \in VRegs(fn), NEW y \in VRegs(fn), NEW j \in Nat,
                      x # y, Tenant(x, j)', Tenant(y, j)'
               PROVE  slots'[j].reusable /\ ~Overlaps(x, y)
    BY <1>1 DEF SharingInv, Overlaps
  <2>2. CASE x = v
    BY <1>2, <1>4, <1>5, <2>1, <2>2
  <2>3. CASE y = v
    BY <1>2, <1>4, <1>5, <2>1, <2>3
  <2>4. CASE x # v /\ y # v
    <3>1. slots[j].reusable /\ ~Overlaps(x, y) /\ j \in DOMAIN slots
      BY <1>5, <2>4 DEF SpillInv, SharingInv, TenantInv
    <3> QED
      BY <1>2, <3>1
  <2> QED
    BY <2>2, <2>3, <2>4
<1> QED
  BY <1>6, <1>7, <1>8 DEF SpillInv

LEMMA CreateKeeps ==
  ASSUME ShapeInv, PlaceTypeOK, SpillInv, NEW v \in VRegs(fn),
         NEW c \in DOMAIN tgt.spills, CreateSlot(v, c)
  PROVE  SpillInv'
<1> DEFINE k == Len(slots) + 1
<1>1. /\ UNCHANGED <<fn, tgt, interval>> /\ Placing
      /\ spilled # << >> /\ v = Head(spilled) /\ FitsAtEnd(v, c)
  BY DEF CreateSlot, PlacedIn, livenessVars, Placing, Scanned, Accepts
<1>2. /\ k \in Nat /\ k \notin DOMAIN slots
      /\ loc' = [loc EXCEPT ![v] = Slot(k)]
      /\ slots' \in Seq(SpillSlot) /\ DOMAIN slots' = DOMAIN slots \cup {k}
      /\ \A j \in DOMAIN slots : slots'[j] = slots[j]
      /\ slots'[k].class = c /\ slots'[k].offset = NewOffset(v, c)
      /\ slots'[k].size = fn.vregs[v].size
      /\ slots'[k].reusable = fn.vregs[v].reusable
      /\ slots'[k].last_end = interval[v].end
      /\ area' \in [DOMAIN tgt.spills -> Nat]
      /\ area'[c] = NewOffset(v, c) + fn.vregs[v].size
      /\ \A d \in DOMAIN tgt.spills \ {c} : area'[d] = area[d]
  BY CreateEffect
<1> HIDE DEF k
<1>3. area \in [DOMAIN tgt.spills -> Nat]
  BY DEF PlaceTypeOK
<1>4. /\ fn.vregs[v].size \in Nat /\ NewOffset(v, c) \in Nat
      /\ area[c] <= NewOffset(v, c)
  BY <1>1, <1>3, NewSlotFit
<1>5. HasInterval(v) /\ interval[v].end \in Nat
  <2>1. HasInterval(v)
    BY <1>1, QueueParts DEF PlaceTypeOK
  <2> QED
    BY <1>1, <2>1, IntervalEnds
<1>6. \A w \in VRegs(fn), j \in Nat :
        /\ w # v => Tenant(w, j)' = Tenant(w, j)
        /\ w = v /\ Tenant(w, j)' => j = k
        /\ Tenant(w, j) => j # k
  <2>1. \A w \in VRegs(fn), j \in Nat : Tenant(w, j) => j # k
    BY <1>2 DEF SpillInv, TenantInv
  <2> QED
    BY <1>2, <2>1 DEF Tenant, Slot, PlaceTypeOK
<1>7. \A j \in DOMAIN slots :
        /\ slots[j].class \in DOMAIN tgt.spills
        /\ slots[j].offset \in Nat /\ slots[j].size \in Nat
        /\ slots[j].offset + slots[j].size <= area[slots[j].class]
  <2>1. \A j \in DOMAIN slots : slots[j] \in SpillSlot
    BY DEF PlaceTypeOK
  <2> QED
    BY <2>1 DEF SpillInv, AreaInv, SpillSlot
<1>8. AreaInv'
  <2>1. \A d \in DOMAIN tgt.spills : area'[d] <= U32Max /\ area'[d] <= AreaSize(d)
    BY <1>1, <1>2 DEF SpillInv, AreaInv, FitsAtEnd
  <2>2. \A j \in DOMAIN slots' :
          /\ slots'[j].class \in DOMAIN tgt.spills
          /\ slots'[j].offset + slots'[j].size <= area'[slots'[j].class]
    <3> SUFFICES ASSUME NEW j \in DOMAIN slots'
                 PROVE  /\ slots'[j].class \in DOMAIN tgt.spills
                        /\ slots'[j].offset + slots'[j].size <= area'[slots'[j].class]
      OBVIOUS
    <3>1. CASE j = k
      BY <1>2, <1>4, <3>1
    <3>2. CASE j # k
      <4>1. j \in DOMAIN slots /\ slots'[j] = slots[j]
        BY <1>2, <3>2
      <4>2. CASE slots[j].class = c
        <5>1. slots[j].offset + slots[j].size <= area[c] /\ area[c] \in Nat
          BY <1>3, <1>7, <4>1, <4>2
        <5>2. area[c] <= area'[c]
          BY <1>2, <1>3, <1>4
        <5>3. slots'[j].offset + slots'[j].size <= area'[c]
          BY <1>2, <1>7, <4>1, <5>1, <5>2
        <5> QED
          BY <4>1, <4>2, <5>3
      <4>3. CASE slots[j].class # c
        BY <1>2, <1>7, <4>1, <4>3
      <4> QED
        BY <4>2, <4>3
    <3> QED
      BY <3>1, <3>2
  <2>3. ASSUME NEW j \in DOMAIN slots, slots[j].class = c
        PROVE  slots[j].offset + slots[j].size <= NewOffset(v, c)
    BY <1>3, <1>4, <1>7, <2>3
  <2>4. \A i, j \in DOMAIN slots' :
          i # j /\ slots'[i].class = slots'[j].class =>
            \/ slots'[i].offset + slots'[i].size <= slots'[j].offset
            \/ slots'[j].offset + slots'[j].size <= slots'[i].offset
    <3> SUFFICES ASSUME NEW i \in DOMAIN slots', NEW j \in DOMAIN slots', i # j,
                        slots'[i].class = slots'[j].class
                 PROVE  \/ slots'[i].offset + slots'[i].size <= slots'[j].offset
                        \/ slots'[j].offset + slots'[j].size <= slots'[i].offset
      OBVIOUS
    <3>1. CASE i = k
      BY <1>2, <2>3, <3>1
    <3>2. CASE j = k
      BY <1>2, <2>3, <3>2
    <3>3. CASE i # k /\ j # k
      BY <1>2, <3>3 DEF SpillInv, AreaInv
    <3> QED
      BY <3>1, <3>2, <3>3
  <2>5. \A d \in DOMAIN tgt.spills : AreaSize(d)' = AreaSize(d)
    BY <1>1 DEF AreaSize
  <2> QED
    BY <1>1, <2>1, <2>2, <2>4, <2>5 DEF AreaInv
<1>9. TenantInv'
  <2> SUFFICES ASSUME NEW w \in VRegs(fn), NEW j \in Nat, Tenant(w, j)'
               PROVE  /\ j \in DOMAIN slots' /\ HasInterval(w)
                      /\ interval[w].end <= slots'[j].last_end
                      /\ fn.vregs[w].size <= slots'[j].size
                      /\ (fn.vregs[w].reusable <=> slots'[j].reusable)
    BY <1>1 DEF TenantInv, HasInterval
  <2>1. CASE w = v
    <3>1. j = k
      BY <1>6, <2>1
    <3>2. k \in DOMAIN slots' /\ interval[v].end <= slots'[k].last_end
      BY <1>2, <1>5
    <3>3. fn.vregs[v].size <= slots'[k].size
      BY <1>2, <1>4
    <3>4. fn.vregs[v].reusable <=> slots'[k].reusable
      BY <1>2
    <3> QED
      BY <1>5, <2>1, <3>1, <3>2, <3>3, <3>4
  <2>2. CASE w # v
    <3>1. Tenant(w, j)
      BY <1>6, <2>2
    <3> QED
      BY <1>2, <3>1 DEF SpillInv, TenantInv
  <2> QED
    BY <2>1, <2>2
<1>10. SharingInv'
  <2> SUFFICES ASSUME NEW x \in VRegs(fn), NEW y \in VRegs(fn), NEW j \in Nat,
                      x # y, Tenant(x, j)', Tenant(y, j)'
               PROVE  slots'[j].reusable /\ ~Overlaps(x, y)
    BY <1>1 DEF SharingInv, Overlaps
  <2>1. x # v /\ y # v
    BY <1>6
  <2>2. slots[j].reusable /\ ~Overlaps(x, y) /\ j \in DOMAIN slots
    BY <1>6, <2>1 DEF SpillInv, SharingInv, TenantInv
  <2> QED
    BY <1>2, <2>2
<1> QED
  BY <1>8, <1>9, <1>10 DEF SpillInv

LEMMA SpillStep ==
  ASSUME ShapeInv, PlaceTypeOK, SpillInv, [AllocNext]_scanVars,
         ShapeInv', (ShapeInv /\ ~Placing => SpillInv)'
  PROVE  SpillInv'
<1>1. CASE CheckInput
  BY <1>1 DEF CheckInput, Placing, Scanned
<1>2. CASE Analyse
  BY <1>2 DEF Analyse, LivenessNext, ValidateShape, VisitBlock, NextPass,
              LivenessDone, Placing, Scanned
<1>3. CASE BeginScan
  <2>1. CASE stage' # "scan"
    BY <1>3, <2>1 DEF BeginScan, Placing, Scanned
  <2>2. CASE stage' = "scan"
    <3>1. UNCHANGED <<fn, tgt, loc, slots, area>> /\ NothingPlaced
      BY <1>3, <2>2 DEF BeginScan, ShapeInv, Placing, Scanned
    <3>2. \A v \in VRegs(fn), k \in Nat : ~Tenant(v, k)
      BY <3>1, NoTenants DEF NothingPlaced
    <3>3. \A v \in VRegs(fn), k \in Nat : ~Tenant(v, k)'
      BY <3>1, <3>2 DEF Tenant
    <3>4. AreaInv'
      BY <3>1 DEF SpillInv, AreaInv, AreaSize
    <3> QED
      BY <3>1, <3>3, <3>4 DEF SpillInv, TenantInv, SharingInv
  <2> QED
    BY <2>1, <2>2
<1>4. CASE PlacingStep
  <2>0. UNCHANGED <<fn, tgt, interval>>
    BY <1>4, PlacingFrame
  <2>1. ASSUME NEW v \in VRegs(fn), AssignRegister(v) PROVE SpillInv'
    <3>1. PICK r \in FreeCandidates(v) : loc' = [loc EXCEPT ![v] = Reg(r)]
      BY <2>1 DEF AssignRegister
    <3>2. \A k \in Nat : Reg(r) # Slot(k)
      <4>1. \A k \in Nat : Reg(r).kind # Slot(k).kind
        BY DEF Reg, Slot
      <4> QED
        BY <4>1
    <3>3. \A w \in VRegs(fn), k \in Nat : Tenant(w, k)' => Tenant(w, k)
      BY <3>1, <3>2 DEF Tenant, PlaceTypeOK
    <3>4. UNCHANGED <<slots, area>>
      BY <2>1 DEF AssignRegister
    <3> QED
      BY <2>0, <3>3, <3>4, SlotsStay
  <2>2. ASSUME NEW v \in VRegs(fn),
               \/ SpillValue(v) \/ RegisterConflict(v) \/ EndScan
               \/ SpillExhausted(v) \/ Finish
        PROVE  SpillInv'
    <3>1. UNCHANGED <<loc, slots, area>>
      BY <2>2 DEF SpillValue, RegisterConflict, EndScan, SpillExhausted, Finish,
                  allocVars
    <3> QED
      BY <2>0, <3>1, SlotsStay DEF Tenant
  <2>3. CASE EndScan \/ Finish
    <3>1. UNCHANGED <<loc, slots, area>>
      BY <2>3 DEF EndScan, Finish, allocVars
    <3> QED
      BY <2>0, <3>1, SlotsStay DEF Tenant
  <2> QED
    BY <1>4, <2>1, <2>2, <2>3, ShareKeeps, CreateKeeps DEF PlacingStep
<1>5. CASE UNCHANGED scanVars
  <2>1. UNCHANGED <<fn, tgt, interval, loc, slots, area>>
    BY <1>5 DEF scanVars, allocVars, livenessVars
  <2> QED
    BY <2>1, SlotsStay DEF Tenant
<1> QED
  BY <1>1, <1>2, <1>3, <1>4, <1>5, NextCases

THEOREM SpillCorrect == AllocSpec => []SpillInv
<1>1. AllocInit /\ ShapeInv => SpillInv
  BY IdleSpill DEF AllocInit, Placing, Scanned
<1>2. ShapeInv /\ PlaceTypeOK /\ SpillInv /\ [AllocNext]_scanVars /\ ShapeInv'
        /\ (ShapeInv /\ ~Placing => SpillInv)' => SpillInv'
  BY SpillStep
<1> QED
  BY <1>1, <1>2, IdleSpill, ShapeCorrect, AllocTypeCorrect, PTL DEF AllocSpec

-----------------------------------------------------------------------------
LEMMA SlotOfTenant ==
  ASSUME PlaceTypeOK, SpillInv, NEW v \in VRegs(fn), InMemory(v)
  PROVE  \E k \in DOMAIN slots :
           /\ k \in Nat /\ Tenant(v, k) /\ SlotOf(v) = slots[k]
           /\ slots[k].offset \in Nat /\ slots[k].size \in Nat
           /\ fn.vregs[v].size <= slots[k].size
           /\ (fn.vregs[v].reusable <=> slots[k].reusable)
<1>1. PICK k \in Nat : loc[v] = Slot(k) /\ loc[v].at = k
  BY DEF PlaceTypeOK, InMemory, Slot
<1>2. k \in DOMAIN slots
  BY <1>1 DEF SpillInv, TenantInv, Tenant
<1>3. slots[k] \in SpillSlot
  BY <1>2 DEF PlaceTypeOK
<1>4. slots[k].offset \in Nat /\ slots[k].size \in Nat
  BY <1>3 DEF SpillSlot
<1>5. /\ fn.vregs[v].size <= slots[k].size
      /\ (fn.vregs[v].reusable <=> slots[k].reusable)
  BY <1>1 DEF SpillInv, TenantInv, Tenant
<1> QED
  BY <1>1, <1>2, <1>4, <1>5 DEF Tenant, SlotOf

LEMMA ApartInDifferentSlots ==
  ASSUME ShapeInv, PlaceTypeOK, SpillInv,
         NEW v \in VRegs(fn), NEW w \in VRegs(fn), v # w, InMemory(v), InMemory(w),
         \A k \in Nat : ~(Tenant(v, k) /\ Tenant(w, k))
  PROVE  Bytes(v) \cap Bytes(w) = {}
<1>1. PICK j \in DOMAIN slots :
        /\ j \in Nat /\ Tenant(v, j) /\ SlotOf(v) = slots[j]
        /\ slots[j].offset \in Nat /\ slots[j].size \in Nat
        /\ fn.vregs[v].size <= slots[j].size
  BY SlotOfTenant
<1>2. PICK k \in DOMAIN slots :
        /\ k \in Nat /\ Tenant(w, k) /\ SlotOf(w) = slots[k]
        /\ slots[k].offset \in Nat /\ slots[k].size \in Nat
        /\ fn.vregs[w].size <= slots[k].size
  BY SlotOfTenant
<1>3. j # k
  BY <1>1, <1>2
<1>4. fn.vregs[v].size \in Nat /\ fn.vregs[w].size \in Nat
  <2>1. fn.vregs[v] \in VirtualRegister /\ fn.vregs[w] \in VirtualRegister
    BY DEF ShapeInv, LivenessSetsOK, Function, VRegs
  <2> QED
    BY <2>1 DEF VirtualRegister
<1>5. SUFFICES ASSUME NEW x \in 0..(fn.vregs[v].size - 1),
                      NEW y \in 0..(fn.vregs[w].size - 1),
                      slots[j].class = slots[k].class,
                      slots[j].offset + x = slots[k].offset + y
               PROVE  FALSE
  BY <1>1, <1>2 DEF Bytes
<1>6. \/ slots[j].offset + slots[j].size <= slots[k].offset
      \/ slots[k].offset + slots[k].size <= slots[j].offset
  BY <1>3, <1>5 DEF SpillInv, AreaInv
<1> QED
  BY <1>1, <1>2, <1>4, <1>5, <1>6

(***************************************************************************)
(* Values in memory at the same time never overlap in memory.              *)
(***************************************************************************)
THEOREM NoSharedBytesCorrect == AllocSpec => []NoSharedBytes
<1>1. ShapeInv /\ PlaceTypeOK /\ SpillInv => NoSharedBytes
  <2> SUFFICES ASSUME ShapeInv, PlaceTypeOK, SpillInv,
                      NEW v \in VRegs(fn), NEW w \in VRegs(fn), v # w,
                      InMemory(v), InMemory(w), Overlaps(v, w)
               PROVE  Bytes(v) \cap Bytes(w) = {}
    BY DEF NoSharedBytes
  <2>1. \A k \in Nat : ~(Tenant(v, k) /\ Tenant(w, k))
    BY DEF SpillInv, SharingInv
  <2> QED
    BY <2>1, ApartInDifferentSlots
<1> QED
  BY <1>1, ShapeCorrect, AllocTypeCorrect, SpillCorrect, PTL

(***************************************************************************)
(* A value whose address escapes shares its bytes with no other value.     *)
(***************************************************************************)
THEOREM DedicatedSlotsCorrect == AllocSpec => []DedicatedSlots
<1>1. ShapeInv /\ PlaceTypeOK /\ SpillInv => DedicatedSlots
  <2> SUFFICES ASSUME ShapeInv, PlaceTypeOK, SpillInv,
                      NEW v \in VRegs(fn), NEW w \in VRegs(fn), v # w,
                      InMemory(v), InMemory(w), ~fn.vregs[v].reusable
               PROVE  Bytes(v) \cap Bytes(w) = {}
    BY DEF DedicatedSlots
  <2>1. \A k \in Nat : ~(Tenant(v, k) /\ Tenant(w, k))
    BY DEF SpillInv, SharingInv, TenantInv
  <2> QED
    BY <2>1, ApartInDifferentSlots
<1> QED
  BY <1>1, ShapeCorrect, AllocTypeCorrect, SpillCorrect, PTL

(***************************************************************************)
(* No slot reaches past its area, no value past its slot.                  *)
(***************************************************************************)
THEOREM SlotsInBoundsCorrect == AllocSpec => []SlotsInBounds
<1>1. ShapeInv /\ PlaceTypeOK /\ SpillInv => SlotsInBounds
  <2> SUFFICES ASSUME ShapeInv, PlaceTypeOK, SpillInv PROVE SlotsInBounds
    OBVIOUS
  <2>1. ASSUME NEW k \in DOMAIN slots
        PROVE  /\ slots[k].offset + slots[k].size <= U32Max
               /\ slots[k].offset + slots[k].size <= AreaSize(slots[k].class)
    <3> DEFINE c == slots[k].class
               top == slots[k].offset + slots[k].size
    <3>1. c \in DOMAIN tgt.spills /\ top <= area[c]
      BY DEF SpillInv, AreaInv
    <3>2. area[c] <= U32Max /\ area[c] <= AreaSize(c)
      BY <3>1 DEF SpillInv, AreaInv
    <3>3. top \in Nat
      <4>1. slots[k] \in SpillSlot
        BY DEF PlaceTypeOK
      <4> QED
        BY <4>1 DEF SpillSlot
    <3>4. area[c] \in Nat /\ AreaSize(c) \in Nat
      BY <3>1, AreaSizes DEF PlaceTypeOK
    <3> HIDE DEF c, top
    <3>5. top <= U32Max /\ top <= AreaSize(c)
      BY <3>1, <3>2, <3>3, <3>4, U32MaxAssumption
    <3> QED
      BY <3>5 DEF c, top
  <2>2. \A v \in VRegs(fn) : InMemory(v) => fn.vregs[v].size <= SlotOf(v).size
    BY SlotOfTenant
  <2> QED
    BY <2>1, <2>2 DEF SlotsInBounds
<1> QED
  BY <1>1, ShapeCorrect, AllocTypeCorrect, SpillCorrect, PTL

-----------------------------------------------------------------------------
(***************************************************************************)
(* A slot is aligned for each of its tenants.                              *)
(***************************************************************************)
AlignInv ==
  \A v \in VRegs(fn), k \in Nat :
    Tenant(v, k) => /\ k \in DOMAIN slots
                    /\ slots[k].offset % fn.vregs[v].alignment = 0

LEMMA IdleAlign == ShapeInv /\ ~Placing => AlignInv
<1> SUFFICES ASSUME ShapeInv, ~Placing PROVE AlignInv
  OBVIOUS
<1>1. NothingPlaced
  BY DEF ShapeInv
<1> QED
  BY <1>1, NoTenants DEF NothingPlaced, AlignInv

(***************************************************************************)
(* What suits a value's slot alignment in a class suits the value: the     *)
(* class's own alignment and the value's are powers of two.                *)
(***************************************************************************)
LEMMA SuitsValue ==
  ASSUME ShapeInv, Placing, NEW v \in VRegs(fn), NEW c \in DOMAIN tgt.spills,
         NEW o \in Nat, o % SlotAlignment(v, c) = 0
  PROVE  o % fn.vregs[v].alignment = 0
<1> DEFINE a == fn.vregs[v].alignment
           b == tgt.spills[c].base_alignment
<1>1. Valid(tgt, fn) /\ tgt \in Target /\ fn \in Function
  BY DEF ShapeInv, LivenessSetsOK, Placing, Scanned
<1>2. a \in Nat /\ PowerOfTwo(a)
  <2>1. fn.vregs[v] \in VirtualRegister
    BY <1>1 DEF Function, VRegs
  <2> QED
    BY <1>1, <2>1 DEF Valid, VRegsValid, VirtualRegister
<1>3. b \in Nat /\ PowerOfTwo(b)
  <2>1. tgt.spills[c] \in SpillClass
    BY <1>1 DEF Target
  <2> QED
    BY <1>1, <2>1 DEF Valid, TargetValid, SpillClass
<1>4. SlotAlignment(v, c) = Max({a, b})
  BY DEF SlotAlignment
<1> HIDE DEF a, b
<1>5. Max({a, b}) \in {a, b} /\ a <= Max({a, b})
  BY <1>2, <1>3, LargerOfTwo
<1>6. a # 0 /\ b # 0
  BY <1>2, <1>3 DEF PowerOfTwo
<1>7. SlotAlignment(v, c) \in Nat \ {0} /\ PowerOfTwo(SlotAlignment(v, c))
      /\ a <= SlotAlignment(v, c)
  BY <1>2, <1>3, <1>4, <1>5, <1>6
<1>8. SlotAlignment(v, c) % a = 0
  BY <1>2, <1>7, PowersDivide
<1>9. o % a = 0
  BY <1>2, <1>6, <1>7, <1>8, MultipleOfMultiple
<1> QED
  BY <1>9 DEF a

LEMMA AlignStays ==
  ASSUME AlignInv, UNCHANGED <<fn, slots>>,
         \A v \in VRegs(fn), k \in Nat : Tenant(v, k)' => Tenant(v, k)
  PROVE  AlignInv'
BY DEF AlignInv

LEMMA ShareAligned ==
  ASSUME ShapeInv, PlaceTypeOK, AlignInv, NEW v \in VRegs(fn),
         NEW c \in DOMAIN tgt.spills, ShareSlot(v, c)
  PROVE  AlignInv'
<1>1. UNCHANGED fn /\ Placing
  BY DEF ShareSlot, PlacedIn, livenessVars, Placing, Scanned
<1>2. PICK k \in SharedSlots(v, c) :
        /\ k \in DOMAIN slots /\ k \in Nat
        /\ loc' = [loc EXCEPT ![v] = Slot(k)]
        /\ DOMAIN slots' = DOMAIN slots
        /\ \A j \in (DOMAIN slots) \ {k} : slots'[j] = slots[j]
        /\ slots'[k].offset = slots[k].offset
  BY ShareEffect
<1>3. slots[k].offset % fn.vregs[v].alignment = 0
  <2>1. slots[k] \in SpillSlot
    BY <1>2 DEF PlaceTypeOK
  <2>2. slots[k].offset \in Nat
    BY <2>1 DEF SpillSlot
  <2>3. slots[k].offset % SlotAlignment(v, c) = 0
    BY <1>2 DEF SharedSlots
  <2> QED
    BY <1>1, <2>2, <2>3, SuitsValue
<1>4. \A w \in VRegs(fn), j \in Nat :
        /\ w # v => Tenant(w, j)' = Tenant(w, j)
        /\ w = v /\ Tenant(w, j)' => j = k
  BY <1>2 DEF Tenant, Slot, PlaceTypeOK
<1>5. \A j \in DOMAIN slots : slots'[j].offset = slots[j].offset
  BY <1>2
<1> SUFFICES ASSUME NEW w \in VRegs(fn), NEW j \in Nat, Tenant(w, j)'
             PROVE  j \in DOMAIN slots' /\ slots'[j].offset % fn.vregs[w].alignment = 0
  BY <1>1 DEF AlignInv
<1>6. CASE w = v
  BY <1>2, <1>3, <1>4, <1>6
<1>7. CASE w # v
  BY <1>2, <1>4, <1>5, <1>7 DEF AlignInv
<1> QED
  BY <1>6, <1>7

LEMMA CreateAligned ==
  ASSUME ShapeInv, PlaceTypeOK, AlignInv, NEW v \in VRegs(fn),
         NEW c \in DOMAIN tgt.spills, CreateSlot(v, c)
  PROVE  AlignInv'
<1> DEFINE k == Len(slots) + 1
<1>1. UNCHANGED fn /\ Placing
  BY DEF CreateSlot, PlacedIn, livenessVars, Placing, Scanned
<1>2. /\ k \in Nat /\ k \notin DOMAIN slots
      /\ loc' = [loc EXCEPT ![v] = Slot(k)]
      /\ DOMAIN slots' = DOMAIN slots \cup {k}
      /\ \A j \in DOMAIN slots : slots'[j] = slots[j]
      /\ slots'[k].offset = NewOffset(v, c)
  BY CreateEffect
<1> HIDE DEF k
<1>3. NewOffset(v, c) % fn.vregs[v].alignment = 0
  <2>1. NewOffset(v, c) \in Nat /\ NewOffset(v, c) % SlotAlignment(v, c) = 0
    BY <1>1, NewSlotFit DEF PlaceTypeOK
  <2> QED
    BY <1>1, <2>1, SuitsValue
<1>4. \A w \in VRegs(fn), j \in Nat :
        /\ w # v => Tenant(w, j)' = Tenant(w, j)
        /\ w = v /\ Tenant(w, j)' => j = k
  BY <1>2 DEF Tenant, Slot, PlaceTypeOK
<1> SUFFICES ASSUME NEW w \in VRegs(fn), NEW j \in Nat, Tenant(w, j)'
             PROVE  j \in DOMAIN slots' /\ slots'[j].offset % fn.vregs[w].alignment = 0
  BY <1>1 DEF AlignInv
<1>5. CASE w = v
  BY <1>2, <1>3, <1>4, <1>5
<1>6. CASE w # v
  BY <1>2, <1>4, <1>6 DEF AlignInv
<1> QED
  BY <1>5, <1>6

LEMMA AlignStep ==
  ASSUME ShapeInv, PlaceTypeOK, AlignInv, [AllocNext]_scanVars,
         ShapeInv', (ShapeInv /\ ~Placing => AlignInv)'
  PROVE  AlignInv'
<1>1. CASE CheckInput
  BY <1>1 DEF CheckInput, Placing, Scanned
<1>2. CASE Analyse
  BY <1>2 DEF Analyse, LivenessNext, ValidateShape, VisitBlock, NextPass,
              LivenessDone, Placing, Scanned
<1>3. CASE BeginScan
  <2>1. CASE stage' # "scan"
    BY <1>3, <2>1 DEF BeginScan, Placing, Scanned
  <2>2. CASE stage' = "scan"
    <3>1. UNCHANGED <<fn, loc, slots>> /\ NothingPlaced
      BY <1>3, <2>2 DEF BeginScan, ShapeInv, Placing, Scanned
    <3> QED
      BY <3>1, AlignStays DEF Tenant
  <2> QED
    BY <2>1, <2>2
<1>4. CASE PlacingStep
  <2>0. UNCHANGED fn
    BY <1>4, PlacingFrame
  <2>1. ASSUME NEW v \in VRegs(fn), AssignRegister(v) PROVE AlignInv'
    <3>1. PICK r \in FreeCandidates(v) : loc' = [loc EXCEPT ![v] = Reg(r)]
      BY <2>1 DEF AssignRegister
    <3>2. \A k \in Nat : Reg(r) # Slot(k)
      <4>1. \A k \in Nat : Reg(r).kind # Slot(k).kind
        BY DEF Reg, Slot
      <4> QED
        BY <4>1
    <3>3. \A w \in VRegs(fn), k \in Nat : Tenant(w, k)' => Tenant(w, k)
      BY <3>1, <3>2 DEF Tenant, PlaceTypeOK
    <3>4. UNCHANGED slots
      BY <2>1 DEF AssignRegister
    <3> QED
      BY <2>0, <3>3, <3>4, AlignStays
  <2>2. ASSUME NEW v \in VRegs(fn),
               SpillValue(v) \/ RegisterConflict(v) \/ SpillExhausted(v)
        PROVE  AlignInv'
    <3>1. UNCHANGED <<loc, slots>>
      BY <2>2 DEF SpillValue, RegisterConflict, SpillExhausted, allocVars
    <3> QED
      BY <2>0, <3>1, AlignStays DEF Tenant
  <2>3. CASE EndScan \/ Finish
    <3>1. UNCHANGED <<loc, slots>>
      BY <2>3 DEF EndScan, Finish, allocVars
    <3> QED
      BY <2>0, <3>1, AlignStays DEF Tenant
  <2> QED
    BY <1>4, <2>1, <2>2, <2>3, ShareAligned, CreateAligned DEF PlacingStep
<1>5. CASE UNCHANGED scanVars
  <2>1. UNCHANGED <<fn, loc, slots>>
    BY <1>5 DEF scanVars, allocVars, livenessVars
  <2> QED
    BY <2>1, AlignStays DEF Tenant
<1> QED
  BY <1>1, <1>2, <1>3, <1>4, <1>5, NextCases

(***************************************************************************)
(* Every value in memory sits at a multiple of its alignment, whoever else *)
(* its slot was made for.                                                  *)
(***************************************************************************)
THEOREM SlotsAlignedCorrect == AllocSpec => []SlotsAligned
<1>1. AllocInit /\ ShapeInv => AlignInv
  BY IdleAlign DEF AllocInit, Placing, Scanned
<1>2. ShapeInv /\ PlaceTypeOK /\ AlignInv /\ [AllocNext]_scanVars /\ ShapeInv'
        /\ (ShapeInv /\ ~Placing => AlignInv)' => AlignInv'
  BY AlignStep
<1>3. PlaceTypeOK /\ AlignInv => SlotsAligned
  <2> SUFFICES ASSUME PlaceTypeOK, AlignInv, NEW v \in VRegs(fn), InMemory(v)
               PROVE  SlotOf(v).offset % fn.vregs[v].alignment = 0
    BY DEF SlotsAligned
  <2>1. PICK k \in Nat : loc[v] = Slot(k) /\ loc[v].at = k
    BY DEF PlaceTypeOK, InMemory, Slot
  <2> QED
    BY <2>1 DEF AlignInv, Tenant, SlotOf
<1> QED
  BY <1>1, <1>2, <1>3, IdleAlign, ShapeCorrect, AllocTypeCorrect, PTL DEF AllocSpec
=============================================================================

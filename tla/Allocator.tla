----------------------------- MODULE Allocator ------------------------------
(***************************************************************************)
(* allocate (src/src/regalloc.rs): validation, liveness, live intervals    *)
(* without holes, a linear scan that gives each interval a register or     *)
(* spills it, and the placement of the spilled values in spill slots.      *)
(*                                                                         *)
(* The steps are the iterations of its three loops: a block of the         *)
(* liveness analysis, an interval of the scan, a spilled value to place.   *)
(***************************************************************************)
EXTENDS Liveness, FiniteSetsExt

CONSTANT Targets
ASSUME TargetsAssumption == Targets \subseteq Target

VARIABLES
  tgt,         \* the target
  interval,    \* the live interval of each virtual register, or NoInterval
  pending,     \* registers whose intervals the scan has still to visit
  loc,         \* the location of each virtual register
  spilled,     \* registers to place in memory, in scan order
  slots,       \* the spill slots, in order of creation
  area,        \* the first free byte of each spill class (cursors)
  unplaced     \* registers reported as SpillExhausted

allocVars == <<tgt, interval, pending, loc, spilled, slots, area, unplaced>>
scanVars  == <<livenessVars, allocVars>>

AllocFailed == {"rejected", "too_large", "fixed_conflict",
                "register_conflict", "spill_exhausted"}
AllocStages == LivenessStages \cup AllocFailed \cup {"check", "scan", "spill", "done"}

NoInterval == [start |-> -1, end |-> -1]
Unused     == [kind |-> "unused", at |-> 0]
Reg(r)     == [kind |-> "reg", at |-> r]
Slot(k)    == [kind |-> "spill", at |-> k]

AllocInit ==
  /\ fn \in Functions
  /\ tgt \in Targets
  /\ stage = "check"
  /\ live_in  = [b \in Blocks(fn) |-> {}]
  /\ live_out = [b \in Blocks(fn) |-> {}]
  /\ cursor = Len(fn.blocks)
  /\ changed = FALSE
  /\ interval = [v \in VRegs(fn) |-> NoInterval]
  /\ pending = {}
  /\ loc = [v \in VRegs(fn) |-> Unused]
  /\ spilled = << >>
  /\ slots = << >>
  /\ area = [c \in DOMAIN tgt.spills |-> 0]
  /\ unplaced = {}

CheckInput ==
  /\ stage = "check"
  /\ stage' = IF Valid(tgt, fn) THEN "validate" ELSE "rejected"
  /\ UNCHANGED <<fn, live_in, live_out, cursor, changed, allocVars>>

-----------------------------------------------------------------------------
(***************************************************************************)
(* build_live_intervals.  The points at which a register is live at a      *)
(* block boundary or named by an instruction; its interval spans them all. *)
(***************************************************************************)
\* Mutant: block ends are not part of an interval.
TouchedNoLiveOut(v) ==
       {BlockStart(fn, b) : b \in {b \in Blocks(fn) : v \in live_in[b]}}
  \cup {UsePoint(fn, s)   : s \in {s \in Sites(fn) : v \in AllUses(InstrAt(fn, s))}}
  \cup {DefPoint(fn, s)   : s \in {s \in Sites(fn) : v \in AllDefs(InstrAt(fn, s))}}

Touched(v) ==
       {BlockStart(fn, b) : b \in {b \in Blocks(fn) : v \in live_in[b]}}
  \cup {BlockEnd(fn, b)   : b \in {b \in Blocks(fn) : v \in live_out[b]}}
  \cup {UsePoint(fn, s)   : s \in {s \in Sites(fn) : v \in AllUses(InstrAt(fn, s))}}
  \cup {DefPoint(fn, s)   : s \in {s \in Sites(fn) : v \in AllDefs(InstrAt(fn, s))}}

IntervalOf(v) ==
  IF Touched(v) = {} THEN NoInterval
  ELSE [start |-> Min(Touched(v)), end |-> Max(Touched(v))]

HasInterval(v) == interval[v] # NoInterval

\* Mutant: intervals that meet at one point do not overlap.
OverlapsStrictly(v, w) ==
  /\ interval[v].start < interval[w].end
  /\ interval[w].start < interval[v].end

Overlaps(v, w) ==
  /\ interval[v].start <= interval[w].end
  /\ interval[w].start <= interval[v].end

TooManyPoints == 2 * Cardinality(Sites(fn)) > U32Max

BeginScan ==
  /\ stage = "live"
  /\ IF TooManyPoints THEN stage' = "too_large" /\ UNCHANGED <<interval, pending>>
     ELSE /\ interval' = [v \in VRegs(fn) |-> IntervalOf(v)]
          /\ IF FixedConsistent(fn)
             THEN /\ stage' = "scan"
                  /\ pending' = {v \in VRegs(fn) : Touched(v) # {}}
             ELSE stage' = "fixed_conflict" /\ UNCHANGED pending
  /\ UNCHANGED <<fn, live_in, live_out, cursor, changed, tgt, loc, spilled,
                 slots, area, unplaced>>

-----------------------------------------------------------------------------
(***************************************************************************)
(* The linear scan.                                                        *)
(***************************************************************************)
InRegister(v) == loc[v].kind = "reg"
IsFixed(v)    == \E op \in Fixed(fn) : op[1] = v

(***************************************************************************)
(* register_is_clobbered_across: effects are ordered uses, clobbers,       *)
(* definitions, so a value that the instruction only defines is safe.      *)
(***************************************************************************)
\* Mutant: a value that lives just past the clobber is taken to be over.
ClobberedStrictlyInside(v, r) ==
  \E s \in Sites(fn) :
    /\ interval[v].start <= UsePoint(fn, s)
    /\ interval[v].end > DefPoint(fn, s)
    /\ ~(v \in AllDefs(InstrAt(fn, s)) /\ v \notin AllUses(InstrAt(fn, s)))
    /\ \E c \in InstrAt(fn, s).clobbers : Alias(tgt, r, c)

ClobberedAcross(v, r) ==
  \E s \in Sites(fn) :
    /\ interval[v].start <= UsePoint(fn, s)
    /\ interval[v].end >= DefPoint(fn, s)
    /\ ~(v \in AllDefs(InstrAt(fn, s)) /\ v \notin AllUses(InstrAt(fn, s)))
    /\ \E c \in InstrAt(fn, s).clobbers : Alias(tgt, r, c)

\* Mutant: registers are compared by name, not by the units they cover.
TakenByName(v, r) ==
  \E w \in VRegs(fn) : InRegister(w) /\ Overlaps(v, w) /\ r = loc[w].at

TakenByOther(v, r) ==
  \E w \in VRegs(fn) : InRegister(w) /\ Overlaps(v, w) /\ Alias(tgt, r, loc[w].at)

ReservedForOther(v, r) ==
  \E op \in Fixed(fn) :
    /\ op[1] # v
    /\ HasInterval(op[1]) /\ Overlaps(v, op[1])
    /\ Alias(tgt, r, op[2])

\* Mutant: registers that fixed values will need are not kept free.
FreeUnreserved(v, r) == ~ClobberedAcross(v, r) /\ ~TakenByOther(v, r)

Free(v, r) ==
  ~ClobberedAcross(v, r) /\ ~TakenByOther(v, r) /\ ~ReservedForOther(v, r)

(***************************************************************************)
(* collect_copy_preferences: v would rather sit where a copy into it comes *)
(* from, if that source is over.  A copy is <<block, instruction, copy>>.  *)
(***************************************************************************)
CopiesInto(v) ==
  {c \in UNION {{s} \X DOMAIN InstrAt(fn, s).copies : s \in Sites(fn)} :
     InstrAt(fn, c[1]).copies[c[2]][2] = v}
CopySource(c) == InstrAt(fn, c[1]).copies[c[2]][1]

CopyOffers(v, r) ==
  {c \in CopiesInto(v) :
     /\ loc[CopySource(c)] = Reg(r)
     /\ ~Overlaps(v, CopySource(c))}

EarlierCopy(c, d) ==
  \/ c[1][1] < d[1][1]
  \/ c[1][1] = d[1][1] /\ c[1][2] < d[1][2]
  \/ c[1] = d[1] /\ c[2] <= d[2]

(***************************************************************************)
(* Candidates and the order they are tried in: the fixed register alone;   *)
(* or the registers copies offer, earliest copy first, then the class in   *)
(* the target's order.                                                     *)
(***************************************************************************)
\* Mutant: a fixed operand is only a hint.
CandidatesUnfixed(v) == Members(ClassOf(tgt, fn, v))

Candidates(v) ==
  IF IsFixed(v) THEN {op[2] : op \in {op \in Fixed(fn) : op[1] = v}}
                ELSE Members(ClassOf(tgt, fn, v))

ListedBefore(v, r, q) ==
  LET class == ClassOf(tgt, fn, v)
  IN  \E j, k \in DOMAIN class : j < k /\ class[j] = r /\ class[k] = q

TriedBefore(v, r, q) ==
  IF CopyOffers(v, q) = {} THEN CopyOffers(v, r) # {} \/ ListedBefore(v, r, q)
  ELSE \E c \in CopyOffers(v, r) : \A d \in CopyOffers(v, q) : EarlierCopy(c, d)

FreeCandidates(v) == {r \in Candidates(v) : Free(v, r)}

(***************************************************************************)
(* The interval the scan visits: they are sorted by (start, register).     *)
(***************************************************************************)
Visits(v) ==
  /\ stage = "scan"
  /\ v \in pending
  /\ \A w \in pending :
       \/ interval[v].start < interval[w].start
       \/ interval[v].start = interval[w].start /\ v <= w

AssignRegister(v) ==
  /\ Visits(v)
  /\ ~fn.vregs[v].must_spill
  /\ \E r \in FreeCandidates(v) :
       /\ \A q \in FreeCandidates(v) \ {r} : TriedBefore(v, r, q)
       /\ loc' = [loc EXCEPT ![v] = Reg(r)]
  /\ pending' = pending \ {v}
  /\ UNCHANGED <<livenessVars, tgt, interval, spilled, slots, area, unplaced>>

SpillValue(v) ==
  /\ Visits(v)
  /\ fn.vregs[v].must_spill \/ (~IsFixed(v) /\ FreeCandidates(v) = {})
  /\ spilled' = Append(spilled, v)
  /\ pending' = pending \ {v}
  /\ UNCHANGED <<livenessVars, tgt, interval, loc, slots, area, unplaced>>

RegisterConflict(v) ==
  /\ Visits(v)
  /\ ~fn.vregs[v].must_spill /\ IsFixed(v) /\ FreeCandidates(v) = {}
  /\ stage' = "register_conflict"
  /\ UNCHANGED <<fn, live_in, live_out, cursor, changed, allocVars>>

EndScan ==
  /\ stage = "scan" /\ pending = {}
  /\ stage' = "spill"
  /\ UNCHANGED <<fn, live_in, live_out, cursor, changed, allocVars>>

-----------------------------------------------------------------------------
(***************************************************************************)
(* allocate_spill_slots.                                                   *)
(***************************************************************************)
\* Mutant: a spill class without a list of register classes takes none.
SpillClassesForListed(v) ==
  {c \in DOMAIN tgt.spills :
     /\ fn.vregs[v].spill_classes = {} \/ c \in fn.vregs[v].spill_classes
     /\ fn.vregs[v].class \in tgt.spills[c].register_classes}

SpillClassesFor(v) ==
  {c \in DOMAIN tgt.spills :
     /\ fn.vregs[v].spill_classes = {} \/ c \in fn.vregs[v].spill_classes
     /\ \/ tgt.spills[c].register_classes = {}
        \/ fn.vregs[v].class \in tgt.spills[c].register_classes}

CheaperClass(c, d) ==
  \/ tgt.spills[c].cost < tgt.spills[d].cost
  \/ tgt.spills[c].cost = tgt.spills[d].cost /\ c <= d

SlotAlignment(v, c) == Max({fn.vregs[v].alignment, tgt.spills[c].base_alignment})

AlignUp(x, a) == ((x + a - 1) \div a) * a

(***************************************************************************)
(* A slot may be shared when both the slot and the value allow it and the  *)
(* slot's last value is over before the new one starts.                    *)
(***************************************************************************)
\* Mutants: a slot is handed over at the point where its value is last used;
\* the slot's own refusal to be shared is not looked at.
SharedSlotsAtEnd(v, c) ==
  {k \in DOMAIN slots :
     /\ fn.vregs[v].reusable /\ slots[k].reusable
     /\ slots[k].class = c
     /\ slots[k].last_end <= interval[v].start
     /\ slots[k].size >= fn.vregs[v].size
     /\ slots[k].offset % SlotAlignment(v, c) = 0}

SharedSlotsAnyOwner(v, c) ==
  {k \in DOMAIN slots :
     /\ fn.vregs[v].reusable
     /\ slots[k].class = c
     /\ slots[k].last_end < interval[v].start
     /\ slots[k].size >= fn.vregs[v].size
     /\ slots[k].offset % SlotAlignment(v, c) = 0}

SharedSlots(v, c) ==
  {k \in DOMAIN slots :
     /\ fn.vregs[v].reusable /\ slots[k].reusable
     /\ slots[k].class = c
     /\ slots[k].last_end < interval[v].start
     /\ slots[k].size >= fn.vregs[v].size
     /\ slots[k].offset % SlotAlignment(v, c) = 0}

\* Mutant: a new slot starts right after the last one.
NewOffsetUnaligned(v, c) == area[c]

NewOffset(v, c) == AlignUp(area[c], SlotAlignment(v, c))

AreaSize(c) ==
  IF tgt.spills[c].capacity = NoLimit THEN U32Max ELSE tgt.spills[c].capacity

\* Mutant: only the start of the slot must lie in the area.
FitsAtEndStartOnly(v, c) ==
  /\ area[c] + SlotAlignment(v, c) - 1 <= U32Max
  /\ NewOffset(v, c) + fn.vregs[v].size <= U32Max
  /\ NewOffset(v, c) <= AreaSize(c)

FitsAtEnd(v, c) ==
  /\ area[c] + SlotAlignment(v, c) - 1 <= U32Max
  /\ NewOffset(v, c) + fn.vregs[v].size <= U32Max
  /\ NewOffset(v, c) + fn.vregs[v].size <= AreaSize(c)

Accepts(v, c) == SharedSlots(v, c) # {} \/ FitsAtEnd(v, c)

(***************************************************************************)
(* Classes are tried from the cheapest; v is placed in the first one that  *)
(* has a slot to share or room for a new one.                              *)
(***************************************************************************)
PlacedIn(v, c) ==
  /\ stage = "spill" /\ spilled # << >> /\ v = Head(spilled)
  /\ c \in SpillClassesFor(v) /\ Accepts(v, c)
  /\ \A d \in SpillClassesFor(v) : Accepts(v, d) => CheaperClass(c, d)

ShareSlot(v, c) ==
  /\ PlacedIn(v, c)
  /\ SharedSlots(v, c) # {}
  /\ LET k == Min(SharedSlots(v, c))
     IN  /\ slots' = [slots EXCEPT
              ![k].alignment = Max({@, SlotAlignment(v, c)}),
              ![k].values    = Append(@, v),
              ![k].last_end  = interval[v].end]
         /\ loc' = [loc EXCEPT ![v] = Slot(k)]
  /\ spilled' = Tail(spilled)
  /\ UNCHANGED <<livenessVars, tgt, interval, pending, area, unplaced>>

CreateSlot(v, c) ==
  /\ PlacedIn(v, c)
  /\ SharedSlots(v, c) = {}
  /\ slots' = Append(slots,
       [class |-> c, offset |-> NewOffset(v, c), size |-> fn.vregs[v].size,
        alignment |-> SlotAlignment(v, c), reusable |-> fn.vregs[v].reusable,
        values |-> <<v>>, last_end |-> interval[v].end])
  /\ area' = [area EXCEPT ![c] = NewOffset(v, c) + fn.vregs[v].size]
  /\ loc' = [loc EXCEPT ![v] = Slot(Len(slots) + 1)]
  /\ spilled' = Tail(spilled)
  /\ UNCHANGED <<livenessVars, tgt, interval, pending, unplaced>>

\* Mutant: a value without a place is tried again.
SpillExhaustedRetries(v) ==
  /\ stage = "spill" /\ spilled # << >> /\ v = Head(spilled)
  /\ \A c \in SpillClassesFor(v) : ~Accepts(v, c)
  /\ unplaced' = unplaced \cup {v}
  /\ UNCHANGED <<livenessVars, tgt, interval, pending, loc, spilled, slots, area>>

SpillExhausted(v) ==
  /\ stage = "spill" /\ spilled # << >> /\ v = Head(spilled)
  /\ \A c \in SpillClassesFor(v) : ~Accepts(v, c)
  /\ unplaced' = unplaced \cup {v}
  /\ spilled' = Tail(spilled)
  /\ UNCHANGED <<livenessVars, tgt, interval, pending, loc, slots, area>>

\* Mutant: the spill diagnostics are dropped.
FinishUnchecked ==
  /\ stage = "spill" /\ spilled = << >>
  /\ stage' = "done"
  /\ UNCHANGED <<fn, live_in, live_out, cursor, changed, allocVars>>

Finish ==
  /\ stage = "spill" /\ spilled = << >>
  /\ stage' = IF unplaced = {} THEN "done" ELSE "spill_exhausted"
  /\ UNCHANGED <<fn, live_in, live_out, cursor, changed, allocVars>>

-----------------------------------------------------------------------------
Analyse == LivenessNext /\ UNCHANGED allocVars

AllocNext ==
  \/ CheckInput
  \/ Analyse
  \/ BeginScan
  \/ \E v \in VRegs(fn) : AssignRegister(v)
  \/ \E v \in VRegs(fn) : SpillValue(v)
  \/ \E v \in VRegs(fn) : RegisterConflict(v)
  \/ EndScan
  \/ \E v \in VRegs(fn), c \in DOMAIN tgt.spills : ShareSlot(v, c)
  \/ \E v \in VRegs(fn), c \in DOMAIN tgt.spills : CreateSlot(v, c)
  \/ \E v \in VRegs(fn) : SpillExhausted(v)
  \/ Finish

AllocSpec ==
  /\ AllocInit
  /\ [][AllocNext]_scanVars
  /\ WF_scanVars(AllocNext)

-----------------------------------------------------------------------------
(***************************************************************************)
(* Type correctness.                                                       *)
(***************************************************************************)
SpillSlot ==
  [class : Nat, offset : Nat, size : Nat, alignment : Nat, reusable : BOOLEAN,
   values : Seq(Nat), last_end : Nat]

AllocTypeOK ==
  /\ LivenessSetsOK
  /\ stage \in AllocStages
  /\ tgt \in Target
  /\ interval \in [VRegs(fn) -> [start : Int, end : Int]]
  /\ pending \subseteq VRegs(fn)
  /\ loc \in [VRegs(fn) -> [kind : {"unused", "reg", "spill"}, at : Nat]]
  /\ spilled \in Seq(VRegs(fn))
  /\ slots \in Seq(SpillSlot)
  /\ area \in [DOMAIN tgt.spills -> Nat]
  /\ unplaced \subseteq VRegs(fn)

(***************************************************************************)
(* Where registers are live, instruction by instruction, from live_out:    *)
(* before instruction i of block b (i = one past the last: at its end).    *)
(***************************************************************************)
DefinedIn(v, b, i, j) ==
  \E k \in i..j : v \in AllDefs(Code(fn, b)[k])

LiveBefore(v, b, i) ==
  LET n == Len(Code(fn, b))
  IN  \/ v \in live_out[b] /\ ~DefinedIn(v, b, i, n)
      \/ \E j \in i..n : /\ v \in AllUses(Code(fn, b)[j])
                         /\ ~DefinedIn(v, b, i, j - 1)

Scanned == stage \in {"scan", "spill", "done", "running"}

(***************************************************************************)
(* The claim the module comment of regalloc.rs rests its safety on: an     *)
(* interval without holes spans every point where its value is live.  A    *)
(* value live before an instruction covers its use point, one live after   *)
(* it covers its definition point.                                         *)
(***************************************************************************)
IntervalsCoverLiveness ==
  Scanned =>
    \A s \in Sites(fn), v \in VRegs(fn) :
      /\ LiveBefore(v, s[1], s[2]) =>
           interval[v].start <= UsePoint(fn, s) /\ UsePoint(fn, s) <= interval[v].end
      /\ LiveBefore(v, s[1], s[2] + 1) =>
           interval[v].start <= DefPoint(fn, s) /\ DefPoint(fn, s) <= interval[v].end

(***************************************************************************)
(* The linear scan never lets two values whose intervals overlap share a   *)
(* register unit, whether one name or two aliasing names are involved.     *)
(***************************************************************************)
NoSharedUnits ==
  \A v, w \in VRegs(fn) :
    v # w /\ InRegister(v) /\ InRegister(w) /\ Overlaps(v, w)
      => ~Alias(tgt, loc[v].at, loc[w].at)

(***************************************************************************)
(* A register that an instruction clobbers holds no value that is live     *)
(* after the instruction without being redefined by it.                    *)
(***************************************************************************)
ClobbersSpareLiveValues ==
  \A s \in Sites(fn), v \in VRegs(fn) :
    InRegister(v) /\ LiveBefore(v, s[1], s[2] + 1) /\ v \notin AllDefs(InstrAt(fn, s))
      => \A c \in InstrAt(fn, s).clobbers : ~Alias(tgt, loc[v].at, c)

(***************************************************************************)
(* Every operand fixed to a register gets it when allocation succeeds, at  *)
(* all the places that fix it.                                             *)
(***************************************************************************)
FixedOperandsHonoured ==
  stage = "done" => \A op \in Fixed(fn) : loc[op[1]] = Reg(op[2])

(***************************************************************************)
(* RegisterConflict is reported only for demands the function itself makes *)
(* incompatible: a clobber under a fixed value, or another fixed value     *)
(* with an aliasing register and an overlapping interval.  A value that    *)
(* was free to sit elsewhere never causes it, although it is scanned first.*)
(***************************************************************************)
ConflictsAreGenuine ==
  stage = "register_conflict" =>
    \E op \in Fixed(fn) :
      ClobberedAcross(op[1], op[2]) \/ ReservedForOther(op[1], op[2])

(***************************************************************************)
(* The bytes of a spilled value.                                           *)
(***************************************************************************)
InMemory(v) == loc[v].kind = "spill"
SlotOf(v)   == slots[loc[v].at]
Bytes(v)    == {<<SlotOf(v).class, SlotOf(v).offset + i>> :
                  i \in 0..(fn.vregs[v].size - 1)}

(***************************************************************************)
(* Spilled values whose intervals overlap occupy disjoint bytes, although  *)
(* slots are shared and only the end of a slot's last value is remembered. *)
(***************************************************************************)
NoSharedBytes ==
  \A v, w \in VRegs(fn) :
    v # w /\ InMemory(v) /\ InMemory(w) /\ Overlaps(v, w)
      => Bytes(v) \cap Bytes(w) = {}

(***************************************************************************)
(* A value whose address escapes (spill_slot_reusable = false) keeps its   *)
(* bytes to itself for the whole function, however short its interval.     *)
(***************************************************************************)
DedicatedSlots ==
  \A v, w \in VRegs(fn) :
    v # w /\ InMemory(v) /\ InMemory(w) /\ ~fn.vregs[v].reusable
      => Bytes(v) \cap Bytes(w) = {}

(***************************************************************************)
(* Every slot lies inside its spill area and holds all of each value that  *)
(* is placed in it, also one it was not made for.                          *)
(***************************************************************************)
SlotsInBounds ==
  /\ \A k \in DOMAIN slots :
       LET top == slots[k].offset + slots[k].size
       IN  top <= U32Max /\ top <= AreaSize(slots[k].class)
  /\ \A v \in VRegs(fn) : InMemory(v) => fn.vregs[v].size <= SlotOf(v).size

(***************************************************************************)
(* Every value in memory sits at a multiple of its alignment, also in a    *)
(* slot shared with values of other alignments.                            *)
(***************************************************************************)
SlotsAligned ==
  \A v \in VRegs(fn) :
    InMemory(v) => SlotOf(v).offset % fn.vregs[v].alignment = 0

(***************************************************************************)
(* When allocation succeeds every register the code names has a location,  *)
(* none is lost between the scan and the placement.                        *)
(***************************************************************************)
EveryValuePlaced ==
  stage = "done" => \A v \in VRegs(fn) : loc[v] = Unused <=> ~HasInterval(v)

(***************************************************************************)
(* allocate returns, with an allocation or a diagnostic, for every input.  *)
(***************************************************************************)
AllocationTerminates == <>(stage \in AllocFailed \cup {"done"})
=============================================================================

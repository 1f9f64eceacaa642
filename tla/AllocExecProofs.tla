-------------------------- MODULE AllocExecProofs ---------------------------
(***************************************************************************)
(* Proofs about running an allocated function: live values stay intact,    *)
(* and the run is a run of the virtual machine.                            *)
(***************************************************************************)
EXTENDS AllocExec, SpillProofs

HoldsAt(v, p) == interval[v].start <= p /\ p <= interval[v].end

(***************************************************************************)
(* What a finished allocation guarantees of the storage it assigns.        *)
(***************************************************************************)
StorageOK ==
  /\ LivenessSetsOK /\ ShapeValid(fn)
  /\ \A b \in Blocks(fn) : Settled(b)
  /\ \A v, w \in VRegs(fn), p \in Nat :
       v # w /\ HoldsAt(v, p) /\ HoldsAt(w, p) => CellsOf(v) \cap CellsOf(w) = {}
  /\ \A b \in Blocks(fn) : \A v \in live_in[b] : HoldsAt(v, BlockStart(fn, b))
  /\ \A s \in Sites(fn) :
       /\ \A v \in AllDefs(InstrAt(fn, s)) : HoldsAt(v, DefPoint(fn, s))
       /\ \A v \in AllUses(InstrAt(fn, s)) : CellsOf(v) # {}
       /\ \A v \in VRegs(fn) :
            LiveBefore(v, s[1], s[2] + 1) =>
              /\ HoldsAt(v, DefPoint(fn, s))
              /\ v \notin AllDefs(InstrAt(fn, s)) =>
                   CellsOf(v) \cap Destroyed(InstrAt(fn, s).clobbers) = {}

LEMMA StorageFrame ==
  ASSUME UNCHANGED <<fn, tgt, live_in, live_out, cursor, changed, interval, loc, slots>>,
         StorageOK, stage' = stage \/ stage' = "running"
  PROVE  StorageOK' /\ AllCells' = AllCells
<1>1. LivenessSetsOK'
  BY DEF StorageOK, LivenessSetsOK
<1>2. \A b \in Blocks(fn) : Settled(b)' = Settled(b)
  BY DEF Settled, NewIn, NewOut
<1>3. \A v : CellsOf(v)' = CellsOf(v)
  BY DEF CellsOf, UnitCells, Bytes, SlotOf, InRegister, InMemory
<1>4. \A v, p : HoldsAt(v, p)' = HoldsAt(v, p)
  BY DEF HoldsAt
<1>5. \A v, b, i : LiveBefore(v, b, i)' = LiveBefore(v, b, i)
  BY DEF LiveBefore, DefinedIn
<1>6. \A R : Destroyed(R)' = Destroyed(R)
  BY DEF Destroyed, UnitCells
<1>7. AllCells' = AllCells
  BY <1>3 DEF AllCells
<1> QED
  BY <1>1, <1>2, <1>3, <1>4, <1>5, <1>6, <1>7 DEF StorageOK

-----------------------------------------------------------------------------
(***************************************************************************)
(* A successful allocation establishes StorageOK.                          *)
(***************************************************************************)
LEMMA PlacedCells ==
  ASSUME ShapeInv, PlaceTypeOK, ScanInv, SpillInv, stage = "done",
         NEW v \in VRegs(fn), HasInterval(v)
  PROVE  /\ CellsOf(v) # {}
         /\ \/ InRegister(v) /\ CellsOf(v) = UnitCells(loc[v].at)
            \/ /\ InMemory(v) /\ CellsOf(v) = Bytes(v)
               /\ \A c \in Bytes(v) : c[1] # 0
<1>1. Valid(tgt, fn) /\ tgt \in Target /\ Placing
  BY DEF ShapeInv, Placing, Scanned
<1>2. loc[v] # Unused
  BY <1>1 DEF ScanInv, QueueInv, PlacedInv, Members
<1>3. InRegister(v) \/ (InMemory(v) /\ ~InRegister(v))
  BY <1>2 DEF ScanInv, SeatInv, PlaceTypeOK, InRegister, InMemory
<1>4. CASE InRegister(v)
  <2>1. CellsOf(v) = UnitCells(loc[v].at)
    BY <1>4 DEF CellsOf, InMemory, InRegister
  <2>2. loc[v].at \in RegistersOf(tgt)
    <3>1. PICK r \in Nat : loc[v] = Reg(r) /\ loc[v].at = r
      BY <1>4 DEF PlaceTypeOK, InRegister, Reg
    <3> QED
      BY <1>4, <3>1 DEF ScanInv, SeatInv, Seat
  <2>3. tgt.registers[loc[v].at] # {}
    BY <1>1, <2>2 DEF Valid, TargetValid
  <2>4. UnitCells(loc[v].at) # {}
    <3>1. PICK u : u \in tgt.registers[loc[v].at]
      BY <2>3
    <3>2. <<0, u>> \in UnitCells(loc[v].at)
      BY <3>1 DEF UnitCells
    <3> QED
      BY <3>2
  <2> QED
    BY <1>4, <2>1, <2>4
<1>5. CASE InMemory(v) /\ ~InRegister(v)
  <2>1. CellsOf(v) = Bytes(v)
    BY <1>5 DEF CellsOf
  <2>2. PICK k \in DOMAIN slots : SlotOf(v) = slots[k]
    BY <1>5, SlotOfTenant
  <2>3. slots[k].class \in DOMAIN tgt.spills
    BY <2>2 DEF SpillInv, AreaInv
  <2>4. slots[k].class # 0
    BY <1>1, <2>3 DEF Target
  <2>5. fn.vregs[v].size \in Nat /\ fn.vregs[v].size # 0
    <3>1. fn.vregs[v] \in VirtualRegister
      BY DEF ShapeInv, LivenessSetsOK, Function, VRegs
    <3> QED
      BY <1>1, <3>1 DEF Valid, VRegsValid, VirtualRegister
  <2>6. 0 \in 0..(fn.vregs[v].size - 1)
    BY <2>5
  <2>7. Bytes(v) # {}
    BY <2>6 DEF Bytes
  <2>8. \A c \in Bytes(v) : c[1] # 0
    BY <2>2, <2>4 DEF Bytes
  <2> QED
    BY <1>5, <2>1, <2>7, <2>8
<1> QED
  BY <1>3, <1>4, <1>5

LEMMA DisjointCells ==
  ASSUME ShapeInv, PlaceTypeOK, ScanInv, SpillInv, stage = "done",
         NEW v \in VRegs(fn), NEW w \in VRegs(fn), v # w,
         HasInterval(v), HasInterval(w), Overlaps(v, w)
  PROVE  CellsOf(v) \cap CellsOf(w) = {}
<1>1. /\ \/ InRegister(v) /\ CellsOf(v) = UnitCells(loc[v].at)
         \/ InMemory(v) /\ CellsOf(v) = Bytes(v) /\ \A c \in Bytes(v) : c[1] # 0
      /\ \/ InRegister(w) /\ CellsOf(w) = UnitCells(loc[w].at)
         \/ InMemory(w) /\ CellsOf(w) = Bytes(w) /\ \A c \in Bytes(w) : c[1] # 0
  BY PlacedCells
<1>2. \A r : \A c \in UnitCells(r) : c[1] = 0 /\ c[2] \in tgt.registers[r]
  BY DEF UnitCells
<1>3. CASE InRegister(v) /\ InRegister(w)
  <2>1. tgt.registers[loc[v].at] \cap tgt.registers[loc[w].at] = {}
    BY <1>3 DEF ScanInv, NoSharedUnits, Alias
  <2>2. CellsOf(v) = UnitCells(loc[v].at) /\ CellsOf(w) = UnitCells(loc[w].at)
    BY <1>1, <1>3 DEF InRegister, InMemory
  <2> QED
    BY <1>2, <2>1, <2>2
<1>4. CASE InMemory(v) /\ InMemory(w)
  <2>1. \A k \in Nat : ~(Tenant(v, k) /\ Tenant(w, k))
    BY DEF SpillInv, SharingInv
  <2>2. Bytes(v) \cap Bytes(w) = {}
    BY <1>4, <2>1, ApartInDifferentSlots
  <2> QED
    BY <1>1, <1>4, <2>2 DEF InRegister, InMemory
<1>5. CASE (InRegister(v) /\ InMemory(w)) \/ (InMemory(v) /\ InRegister(w))
  BY <1>1, <1>2, <1>5 DEF InRegister, InMemory
<1> QED
  BY <1>1, <1>3, <1>4, <1>5

LEMMA TouchedHolds ==
  ASSUME ShapeInv, Placing, NEW v \in VRegs(fn), NEW p \in Touched(v)
  PROVE  HasInterval(v) /\ HoldsAt(v, p)
<1>1. /\ interval[v] = IntervalOf(v) /\ LivenessSetsOK
      /\ IntervalOf(v).start \in Nat
      /\ IntervalOf(v).start <= p /\ p <= IntervalOf(v).end
  BY IntervalSpans DEF ShapeInv
<1> QED
  BY <1>1 DEF HasInterval, HoldsAt, NoInterval

LEMMA HoldingHas ==
  ASSUME ShapeInv, Placing, NEW v \in VRegs(fn), NEW p \in Nat, HoldsAt(v, p)
  PROVE  HasInterval(v)
BY DEF HasInterval, HoldsAt, NoInterval

LEMMA Established ==
  ASSUME ShapeInv, PlaceTypeOK, ScanInv, SpillInv, stage = "done"
  PROVE  StorageOK
<1>1. /\ Valid(tgt, fn) /\ Placing /\ LivenessSetsOK /\ fn \in Function
      /\ ShapeValid(fn) /\ \A b \in Blocks(fn) : Settled(b)
  BY DEF ShapeInv, Placing, Scanned, LivenessSetsOK, Valid, QuietInv,
         ResultSolvesEquations, Analysed
<1>2. ASSUME NEW v \in VRegs(fn), NEW w \in VRegs(fn), NEW p \in Nat, v # w,
             HoldsAt(v, p), HoldsAt(w, p)
      PROVE  CellsOf(v) \cap CellsOf(w) = {}
  <2>1. HasInterval(v) /\ HasInterval(w)
    BY <1>1, <1>2, HoldingHas
  <2>2. /\ interval[v].start \in Int /\ interval[v].end \in Int
        /\ interval[w].start \in Int /\ interval[w].end \in Int
    BY DEF ShapeInv
  <2>3. Overlaps(v, w)
    BY <1>2, <2>2 DEF Overlaps, HoldsAt
  <2> QED
    BY <1>2, <2>1, <2>3, DisjointCells
<1>3. ASSUME NEW b \in Blocks(fn), NEW v \in live_in[b]
      PROVE  HoldsAt(v, BlockStart(fn, b))
  <2>1. v \in VRegs(fn)
    BY <1>1 DEF LivenessSetsOK
  <2>2. BlockStart(fn, b) \in Touched(v)
    BY DEF Touched
  <2> QED
    BY <1>1, <2>1, <2>2, TouchedHolds
<1>4. ASSUME NEW s \in Sites(fn), NEW v \in AllDefs(InstrAt(fn, s))
      PROVE  HoldsAt(v, DefPoint(fn, s))
  <2>1. v \in VRegs(fn)
    BY <1>1 DEF ShapeValid
  <2>2. DefPoint(fn, s) \in Touched(v)
    BY <1>4 DEF Touched
  <2> QED
    BY <1>1, <2>1, <2>2, TouchedHolds
<1>5. ASSUME NEW s \in Sites(fn), NEW v \in AllUses(InstrAt(fn, s))
      PROVE  CellsOf(v) # {}
  <2>1. v \in VRegs(fn)
    BY <1>1 DEF ShapeValid
  <2>2. UsePoint(fn, s) \in Touched(v)
    BY <1>5 DEF Touched
  <2>3. HasInterval(v)
    BY <1>1, <2>1, <2>2, TouchedHolds
  <2> QED
    BY <2>1, <2>3, PlacedCells
<1>6. ASSUME NEW s \in Sites(fn), NEW v \in VRegs(fn), LiveBefore(v, s[1], s[2] + 1)
      PROVE  HoldsAt(v, DefPoint(fn, s))
  <2>1. s = <<s[1], s[2]>> /\ s[1] \in Blocks(fn) /\ s[2] \in DOMAIN Code(fn, s[1])
    BY SiteIsPair
  <2> QED
    BY <1>1, <1>6, <2>1, CoverAfter DEF HoldsAt
<1>7. ASSUME NEW s \in Sites(fn), NEW v \in VRegs(fn), LiveBefore(v, s[1], s[2] + 1),
             v \notin AllDefs(InstrAt(fn, s))
      PROVE  CellsOf(v) \cap Destroyed(InstrAt(fn, s).clobbers) = {}
  <2>1. HasInterval(v)
    BY <1>1, <1>6, <1>7, HoldingHas, PointType
  <2>2. \/ InRegister(v) /\ CellsOf(v) = UnitCells(loc[v].at)
        \/ InMemory(v) /\ CellsOf(v) = Bytes(v) /\ \A c \in Bytes(v) : c[1] # 0
    BY <2>1, PlacedCells
  <2>3. \A r : \A c \in UnitCells(r) : c[1] = 0 /\ c[2] \in tgt.registers[r]
    BY DEF UnitCells
  <2>4. CASE InRegister(v)
    <3>1. \A r \in InstrAt(fn, s).clobbers :
            tgt.registers[loc[v].at] \cap tgt.registers[r] = {}
      <4>1. ClobbersSpareLiveValues
        BY ClobbersSpareState
      <4> QED
        BY <1>7, <2>4, <4>1 DEF ClobbersSpareLiveValues, Alias
    <3>2. CellsOf(v) = UnitCells(loc[v].at)
      BY <2>2, <2>4 DEF InRegister, InMemory
    <3> QED
      BY <2>3, <3>1, <3>2 DEF Destroyed
  <2>5. CASE InMemory(v)
    BY <2>2, <2>3, <2>5 DEF Destroyed, InRegister, InMemory
  <2> QED
    BY <2>2, <2>4, <2>5
<1> QED
  BY <1>1, <1>2, <1>3, <1>4, <1>5, <1>6, <1>7 DEF StorageOK

-----------------------------------------------------------------------------
(***************************************************************************)
(* The run.  While allocation is under way its invariants hold; from Enter *)
(* on the storage is fixed and live values are intact.                     *)
(***************************************************************************)
Intact(memory, values, b, i) ==
  \A v \in VRegs(fn) :
    LiveBefore(v, b, i) => \A c \in CellsOf(v) : memory[c] = values[v]

RunInv ==
  /\ StorageOK
  /\ pc \in Nat \X Nat
  /\ pc[1] \in Blocks(fn) /\ pc[2] \in 1..(Len(Code(fn, pc[1])) + 1)
  /\ cells \in [AllCells -> Values \cup {Junk}]
  /\ Intact(cells, env, pc[1], pc[2])

AllocatedInv == ShapeInv /\ PlaceTypeOK /\ ScanInv /\ SpillInv

ExecInv ==
  /\ env \in [VRegs(fn) -> Values]
  /\ stage # "running" => AllocatedInv /\ pc = <<1, 1>>
  /\ stage = "running" => RunInv

LEMMA IntactFrame ==
  ASSUME UNCHANGED <<fn, tgt, live_in, live_out, interval, loc, slots>>,
         Intact(cells', env', pc'[1], pc'[2])
  PROVE  Intact(cells, env, pc[1], pc[2])'
<1>1. \A v : CellsOf(v)' = CellsOf(v)
  BY DEF CellsOf, UnitCells, Bytes, SlotOf, InRegister, InMemory
<1>2. \A v, b, i : LiveBefore(v, b, i)' = LiveBefore(v, b, i)
  BY DEF LiveBefore, DefinedIn
<1>3. SUFFICES ASSUME NEW v \in VRegs(fn),
                      LiveBefore(v, pc[1], pc[2])', NEW c \in CellsOf(v)'
               PROVE  cells'[c] = env'[v]
  BY DEF Intact
<1>4. LiveBefore(v, pc'[1], pc'[2])
  BY <1>3 DEF LiveBefore, DefinedIn
<1> QED
  BY <1>1, <1>3, <1>4 DEF Intact

LEMMA VMNames ==
  /\ VM!VRegs(fn) = VRegs(fn)
  /\ VM!Blocks(fn) = Blocks(fn)
  /\ VM!AtInstr <=> pc[1] \in Blocks(fn) /\ pc[2] \in DOMAIN Code(fn, pc[1])
  /\ VM!AtExit <=> pc[1] \in Blocks(fn) /\ pc[2] = Len(Code(fn, pc[1])) + 1
  /\ VM!Current = InstrAt(fn, pc)
  /\ \A b : VM!Succs(fn, b) = Succs(fn, b)
  /\ \A ins : VM!AllUses(ins) = AllUses(ins) /\ VM!AllDefs(ins) = AllDefs(ins)
BY DEF VM!VRegs, VM!Blocks, VM!AtInstr, VM!AtExit, VM!Current, VM!Succs,
       VM!AllUses, VM!AllDefs, VM!Code, VM!InstrAt, VM!Members,
       VRegs, Blocks, Succs, AllUses, AllDefs, Code, InstrAt, Members

LEMMA Written ==
  ASSUME NEW memory, NEW V, NEW value, NEW c \in DOMAIN memory
  PROVE  /\ \A v \in V : (c \in CellsOf(v) /\ \A w \in V : w # v => c \notin CellsOf(w))
                         => Store(memory, V, value)[c] = value[v]
         /\ (\A v \in V : c \notin CellsOf(v)) => Store(memory, V, value)[c] = memory[c]
         /\ \/ Store(memory, V, value)[c] = memory[c]
            \/ \E v \in V : Store(memory, V, value)[c] = value[v]
<1> DEFINE writer == CHOOSE v \in V : c \in CellsOf(v)
<1>1. Store(memory, V, value)[c] =
        IF \E v \in V : c \in CellsOf(v) THEN value[writer] ELSE memory[c]
  BY DEF Store
<1>2. (\E v \in V : c \in CellsOf(v)) => writer \in V /\ c \in CellsOf(writer)
  OBVIOUS
<1> HIDE DEF writer
<1> QED
  BY <1>1, <1>2

(***************************************************************************)
(* A value an instruction uses is live before it, so the instruction reads *)
(* what the virtual machine reads.                                         *)
(***************************************************************************)
LEMMA ReadsRight ==
  ASSUME ExecInv, stage = "running", VM!AtInstr, NEW u \in AllUses(InstrAt(fn, pc))
  PROVE  Fetch(cells, u) = env[u] /\ env[u] \in Values /\ u \in VRegs(fn)
<1>1. /\ pc \in Sites(fn) /\ pc[1] \in Blocks(fn) /\ pc[2] \in DOMAIN Code(fn, pc[1])
  <2>1. pc = <<pc[1], pc[2]>>
    BY DEF ExecInv, RunInv
  <2>2. pc[1] \in Blocks(fn) /\ pc[2] \in DOMAIN Code(fn, pc[1])
    BY VMNames
  <2>3. <<pc[1], pc[2]>> \in Sites(fn)
    BY <2>2, SiteShape
  <2> QED
    BY <2>1, <2>2, <2>3
<1>2. /\ pc[2] \in Nat /\ pc[2] \in 1..Len(Code(fn, pc[1]))
  BY <1>1, FunctionShape DEF ExecInv, RunInv, StorageOK, LivenessSetsOK
<1>3. u \in VRegs(fn)
  BY <1>1 DEF ExecInv, RunInv, StorageOK, ShapeValid
<1>4. LiveBefore(u, pc[1], pc[2])
  <2>1. ~DefinedIn(u, pc[1], pc[2], pc[2] - 1)
    BY <1>2 DEF DefinedIn
  <2>2. pc[2] \in pc[2]..Len(Code(fn, pc[1])) /\ u \in AllUses(Code(fn, pc[1])[pc[2]])
    BY <1>2 DEF InstrAt
  <2> QED
    BY <2>1, <2>2 DEF LiveBefore
<1>5. \A c \in CellsOf(u) : cells[c] = env[u]
  BY <1>3, <1>4 DEF ExecInv, RunInv, Intact
<1>6. CellsOf(u) # {}
  BY <1>1 DEF ExecInv, RunInv, StorageOK
<1>7. env[u] \in Values
  BY <1>3 DEF ExecInv
<1>8. Fetch(cells, u) = env[u]
  BY <1>5, <1>6, <1>7 DEF Fetch
<1> QED
  BY <1>3, <1>7, <1>8

LEMMA ResultRight ==
  ASSUME NEW ins, NEW read, NEW values, NEW computed, NEW v \in AllDefs(ins),
         \A u \in AllUses(ins) : read[u] = values[u] /\ values[u] \in Values,
         computed \in [AllDefs(ins) -> Values]
  PROVE  /\ VM!Result(ins, read, computed, v) = VM!Result(ins, values, computed, v)
         /\ VM!Result(ins, values, computed, v) \in Values
<1>1. CASE VM!IsCopied(ins, v)
  <2>1. VM!CopiedFrom(ins, v) \in AllUses(ins)
    BY <1>1 DEF VM!CopiedFrom, VM!IsCopied, VM!Members, AllUses, Members
  <2> QED
    BY <1>1, <2>1 DEF VM!Result
<1>2. CASE ~VM!IsCopied(ins, v)
  BY <1>2 DEF VM!Result
<1> QED
  BY <1>1, <1>2

LEMMA ExecuteKeeps ==
  ASSUME ExecInv, Execute
  PROVE  /\ ExecInv'
         /\ VM!VMExecute
<1> DEFINE b == pc[1]
           i == pc[2]
           ins == InstrAt(fn, pc)
<1>1. /\ stage = "running" /\ VM!AtInstr /\ pc' = <<b, i + 1>> /\ RunInv
      /\ UNCHANGED <<fn, stage, live_in, live_out, cursor, changed, tgt, interval, loc, slots>>
  BY DEF Execute, ExecInv, livenessVars, allocVars
<1>2. /\ pc = <<b, i>> /\ pc \in Sites(fn) /\ b \in Blocks(fn) /\ b \in Nat
      /\ i \in DOMAIN Code(fn, b) /\ i \in Nat /\ i \in 1..Len(Code(fn, b))
  <2>1. pc = <<b, i>> /\ b \in Nat /\ i \in Nat
    BY <1>1 DEF RunInv
  <2>2. b \in Blocks(fn) /\ i \in DOMAIN Code(fn, b)
    BY <1>1, VMNames
  <2>3. i \in 1..Len(Code(fn, b))
    BY <1>1, <2>2, FunctionShape DEF RunInv, StorageOK, LivenessSetsOK
  <2>4. pc \in Sites(fn)
    BY <2>1, <2>2, SiteShape
  <2> QED
    BY <2>1, <2>2, <2>3, <2>4
<1>3. /\ obs' = [u \in AllUses(ins) |-> Fetch(cells, u)]
      /\ \E computed \in [AllDefs(ins) -> Values] :
           /\ cells' = Store([c \in DOMAIN cells |->
                                IF c \in Destroyed(ins.clobbers) THEN Junk ELSE cells[c]],
                             AllDefs(ins),
                             [v \in AllDefs(ins) |-> VM!Result(ins, obs', computed, v)])
           /\ env' = [v \in VRegs(fn) |->
                        IF v \in AllDefs(ins)
                        THEN VM!Result(ins, env, computed, v) ELSE env[v]]
  BY VMNames DEF Execute, Clobbered
<1>4. PICK computed \in [AllDefs(ins) -> Values] :
        /\ cells' = Store([c \in DOMAIN cells |->
                             IF c \in Destroyed(ins.clobbers) THEN Junk ELSE cells[c]],
                          AllDefs(ins),
                          [v \in AllDefs(ins) |-> VM!Result(ins, obs', computed, v)])
        /\ env' = [v \in VRegs(fn) |->
                     IF v \in AllDefs(ins)
                     THEN VM!Result(ins, env, computed, v) ELSE env[v]]
  BY <1>3
<1>5. \A u \in AllUses(ins) : obs'[u] = env[u] /\ env[u] \in Values
  BY <1>1, <1>3, ReadsRight
<1> DEFINE res == [v \in AllDefs(ins) |-> VM!Result(ins, obs', computed, v)]
           mem == [c \in DOMAIN cells |-> IF c \in Destroyed(ins.clobbers) THEN Junk ELSE cells[c]]
<1>6. \A v \in AllDefs(ins) : /\ res[v] = VM!Result(ins, env, computed, v)
                               /\ res[v] \in Values
  BY <1>5, ResultRight
<1> HIDE DEF ins
<1>7. /\ cells' = Store(mem, AllDefs(ins), res)
      /\ env' = [v \in VRegs(fn) |-> IF v \in AllDefs(ins) THEN res[v] ELSE env[v]]
  BY <1>4, <1>6
<1>8. VM!VMExecute
  <2>1. obs' = [u \in AllUses(ins) |-> env[u]]
    BY <1>3, <1>5
  <2>2. env' = [v \in VRegs(fn) |-> IF v \in AllDefs(ins)
                                    THEN VM!Result(ins, obs', computed, v) ELSE env[v]]
    BY <1>7
  <2> QED
    BY <1>1, <2>1, <2>2, VMNames DEF VM!VMExecute, ins
<1> HIDE DEF res
<1>9. env' \in [VRegs(fn) -> Values]
  BY <1>6, <1>7 DEF ExecInv
<1>10. StorageOK' /\ AllCells' = AllCells
  BY <1>1, StorageFrame DEF RunInv
<1>11. cells' \in [AllCells -> Values \cup {Junk}]
  <2>1. DOMAIN mem = AllCells /\ \A c \in AllCells : mem[c] \in Values \cup {Junk}
    BY <1>1 DEF RunInv
  <2> HIDE DEF mem
  <2>2. DOMAIN cells' = AllCells
    BY <1>7, <2>1 DEF Store
  <2>3. \A c \in AllCells : cells'[c] \in Values \cup {Junk}
    BY <1>6, <1>7, <2>1, Written
  <2>4. cells' = [c \in AllCells |-> cells'[c]]
    BY <1>7, <2>1 DEF Store
  <2> QED
    BY <2>3, <2>4
<1>12. Intact(cells', env', b, i + 1)
  <2> SUFFICES ASSUME NEW v \in VRegs(fn), LiveBefore(v, b, i + 1), NEW c \in CellsOf(v)
               PROVE  cells'[c] = env'[v]
    BY DEF Intact
  <2>1. c \in AllCells /\ DOMAIN mem = AllCells
    BY <1>1 DEF AllCells, RunInv
  <2>2. HoldsAt(v, DefPoint(fn, pc)) /\ DefPoint(fn, pc) \in Nat
    <3>1. LiveBefore(v, pc[1], pc[2] + 1)
      OBVIOUS
    <3> QED
      BY <1>1, <1>2, <3>1, PointType DEF RunInv, StorageOK, LivenessSetsOK
  <2>3. \A w \in AllDefs(ins) : w # v => c \notin CellsOf(w)
    <3> SUFFICES ASSUME NEW w \in AllDefs(ins), w # v PROVE c \notin CellsOf(w)
      OBVIOUS
    <3>1. w \in VRegs(fn) /\ HoldsAt(w, DefPoint(fn, pc))
      BY <1>1, <1>2 DEF RunInv, StorageOK, ShapeValid, ins
    <3>2. CellsOf(v) \cap CellsOf(w) = {}
      BY <1>1, <2>2, <3>1 DEF RunInv, StorageOK
    <3> QED
      BY <3>2
  <2>4. CASE v \in AllDefs(ins)
    <3>1. cells'[c] = res[v]
      BY <1>7, <2>1, <2>3, <2>4, Written
    <3>2. env'[v] = res[v]
      BY <1>7, <2>4
    <3> QED
      BY <3>1, <3>2
  <2>5. CASE v \notin AllDefs(ins)
    <3>1. cells'[c] = mem[c]
      <4>1. \A w \in AllDefs(ins) : c \notin CellsOf(w)
        BY <2>3, <2>5
      <4> QED
        BY <1>7, <2>1, <4>1, Written
    <3>2. c \notin Destroyed(ins.clobbers)
      <4>1. LiveBefore(v, pc[1], pc[2] + 1)
        OBVIOUS
      <4> QED
        BY <1>1, <1>2, <2>5, <4>1 DEF RunInv, StorageOK, ins
    <3>3. mem[c] = cells[c]
      BY <2>1, <3>2
    <3>4. LiveBefore(v, b, i)
      <4>1. v \notin AllDefs(Code(fn, b)[i])
        BY <2>5 DEF ins, InstrAt
      <4> QED
        BY <1>1, <1>2, <4>1, LiveThrough DEF RunInv, StorageOK, LivenessSetsOK
    <3>5. cells[c] = env[v]
      BY <1>1, <3>4 DEF RunInv, Intact
    <3>6. env'[v] = env[v]
      BY <1>7, <2>5
    <3> QED
      BY <3>1, <3>3, <3>5, <3>6
  <2> QED
    BY <2>4, <2>5
<1>13. Intact(cells, env, pc[1], pc[2])'
  BY <1>1, <1>12, IntactFrame
<1>14. /\ pc' \in Nat \X Nat /\ pc'[1] \in Blocks(fn')
       /\ pc'[2] \in 1..(Len(Code(fn', pc'[1])) + 1)
  BY <1>1, <1>2, FunctionShape DEF RunInv, StorageOK, LivenessSetsOK
<1> QED
  BY <1>1, <1>8, <1>9, <1>10, <1>11, <1>13, <1>14 DEF ExecInv, RunInv

(***************************************************************************)
(* The caller's values are in place at the entry of the first block.       *)
(***************************************************************************)
LEMMA EnterKeeps ==
  ASSUME ExecInv, Enter
  PROVE  ExecInv' /\ UNCHANGED <<fn, pc, env, obs>>
<1>1. /\ stage = "done" /\ stage' = "running" /\ Blocks(fn) # {}
      /\ cells' = Store([c \in AllCells |-> Junk], live_in[1], env)
      /\ UNCHANGED <<fn, live_in, live_out, cursor, changed, tgt, interval, loc,
                     slots, pc, env, obs>>
  BY DEF Enter, allocVars
<1>2. AllocatedInv /\ pc = <<1, 1>>
  BY <1>1 DEF ExecInv
<1>3. StorageOK
  BY <1>1, <1>2, Established DEF AllocatedInv
<1>4. StorageOK' /\ AllCells' = AllCells
  BY <1>1, <1>3, StorageFrame
<1>5. /\ fn \in Function /\ 1 \in Blocks(fn) /\ Len(Code(fn, 1)) \in Nat
      /\ live_in[1] \in SUBSET VRegs(fn) /\ LivenessSetsOK /\ Settled(1)
  <2>1. fn \in Function /\ LivenessSetsOK
    BY <1>3 DEF StorageOK, LivenessSetsOK
  <2>2. 1 \in Blocks(fn)
    BY <1>1, <2>1, FunctionShape
  <2> QED
    BY <1>3, <2>1, <2>2, FunctionShape DEF StorageOK, LivenessSetsOK
<1> DEFINE mem == [c \in AllCells |-> Junk]
<1>6. cells' \in [AllCells -> Values \cup {Junk}]
  <2>1. DOMAIN mem = AllCells /\ \A c \in AllCells : mem[c] = Junk
    OBVIOUS
  <2>2. cells' = Store(mem, live_in[1], env)
    BY <1>1
  <2> HIDE DEF mem
  <2>3. \A c \in AllCells : cells'[c] \in Values \cup {Junk}
    <3>1. \A v \in live_in[1] : env[v] \in Values
      BY <1>5 DEF ExecInv
    <3> QED
      BY <2>1, <2>2, <3>1, Written
  <2>4. cells' = [c \in AllCells |-> cells'[c]]
    BY <2>1, <2>2 DEF Store
  <2> QED
    BY <2>3, <2>4
<1>7. Intact(cells', env', pc'[1], pc'[2])
  <2> SUFFICES ASSUME NEW v \in VRegs(fn), LiveBefore(v, 1, 1), NEW c \in CellsOf(v)
               PROVE  cells'[c] = env[v]
    BY <1>1, <1>2 DEF Intact
  <2>1. v \in live_in[1]
    <3>1. ~DefinedIn(v, 1, 1, 1 - 1)
      BY DEF DefinedIn
    <3>2. 1 \in 1..(Len(Code(fn, 1)) + 1)
      BY <1>5
    <3> QED
      BY <1>5, <3>1, <3>2, LiveOrigin
  <2>2. \A w \in live_in[1] : w # v => c \notin CellsOf(w)
    <3> SUFFICES ASSUME NEW w \in live_in[1], w # v PROVE c \notin CellsOf(w)
      OBVIOUS
    <3>1. HoldsAt(v, BlockStart(fn, 1)) /\ HoldsAt(w, BlockStart(fn, 1))
      BY <1>3, <1>5, <2>1 DEF StorageOK
    <3>2. BlockStart(fn, 1) \in Nat /\ w \in VRegs(fn)
      BY <1>5, PointType
    <3>3. CellsOf(v) \cap CellsOf(w) = {}
      BY <1>3, <3>1, <3>2 DEF StorageOK
    <3> QED
      BY <3>3
  <2>3. c \in DOMAIN mem
    BY DEF AllCells
  <2> HIDE DEF mem
  <2> QED
    BY <1>1, <2>1, <2>2, <2>3, Written DEF mem
<1>8. Intact(cells, env, pc[1], pc[2])'
  BY <1>1, <1>7, IntactFrame
<1>9. pc' = <<1, 1>> /\ 1 \in 1..(Len(Code(fn, 1)) + 1)
  BY <1>1, <1>2, <1>5
<1> QED
  BY <1>1, <1>4, <1>5, <1>6, <1>8, <1>9 DEF ExecInv, RunInv

(***************************************************************************)
(* What is live into a successor is live out of the block.                 *)
(***************************************************************************)
LEMMA JumpKeeps ==
  ASSUME ExecInv, Jump
  PROVE  ExecInv' /\ VM!VMJump
<1>1. /\ stage = "running" /\ VM!AtExit /\ RunInv
      /\ UNCHANGED <<fn, stage, live_in, live_out, cursor, changed, tgt, interval,
                     loc, slots, env, obs, cells>>
  BY DEF Jump, ExecInv, livenessVars, allocVars
<1>2. PICK b \in Succs(fn, pc[1]) : pc' = <<b, 1>>
  BY DEF Jump
<1>3. /\ fn \in Function /\ LivenessSetsOK /\ ShapeValid(fn)
      /\ pc[1] \in Blocks(fn) /\ pc[2] = Len(Code(fn, pc[1])) + 1
  BY <1>1, VMNames DEF RunInv, StorageOK, LivenessSetsOK
<1>4. /\ b \in Blocks(fn) /\ b \in Nat /\ Settled(b) /\ Settled(pc[1])
      /\ Len(Code(fn, b)) \in Nat /\ Len(Code(fn, pc[1])) \in Nat
  BY <1>1, <1>2, <1>3, FunctionShape DEF ShapeValid, RunInv, StorageOK
<1>5. StorageOK' /\ AllCells' = AllCells
  BY <1>1, StorageFrame DEF RunInv
<1>6. Intact(cells', env', pc'[1], pc'[2])
  <2> SUFFICES ASSUME NEW v \in VRegs(fn), LiveBefore(v, b, 1)
               PROVE  \A c \in CellsOf(v) : cells[c] = env[v]
    BY <1>1, <1>2 DEF Intact
  <2>1. v \in live_in[b]
    <3>1. ~DefinedIn(v, b, 1, 1 - 1)
      BY DEF DefinedIn
    <3>2. 1 \in 1..(Len(Code(fn, b)) + 1)
      BY <1>4
    <3> QED
      BY <1>3, <1>4, <3>1, <3>2, LiveOrigin
  <2>2. v \in live_out[pc[1]]
    BY <1>2, <1>4, <2>1 DEF Settled, NewOut
  <2>3. LiveBefore(v, pc[1], pc[2])
    BY <1>3, <1>4, <2>2 DEF LiveBefore, DefinedIn
  <2> QED
    BY <1>1, <2>3 DEF RunInv, Intact
<1>7. Intact(cells, env, pc[1], pc[2])'
  BY <1>1, <1>6, IntactFrame
<1>8. /\ pc' \in Nat \X Nat /\ pc'[1] \in Blocks(fn')
      /\ pc'[2] \in 1..(Len(Code(fn', pc'[1])) + 1)
  BY <1>1, <1>2, <1>4
<1>9. ExecInv'
  BY <1>1, <1>5, <1>7, <1>8 DEF ExecInv, RunInv
<1>10. VM!VMJump
  BY <1>1, <1>2, VMNames DEF VM!VMJump
<1> QED
  BY <1>9, <1>10

LEMMA AllocateKeeps ==
  ASSUME ExecInv, Allocate,
         (ShapeInv /\ ~Placing => PlaceTypeOK)',
         (ShapeInv /\ ~Placing => ScanInv)',
         (ShapeInv /\ ~Placing => SpillInv)'
  PROVE  ExecInv' /\ UNCHANGED <<fn, pc, env, obs>>
<1>1. /\ [AllocNext]_scanVars /\ stage # "running"
      /\ UNCHANGED <<fn, pc, env, obs>>
  BY DEF Allocate, runVars, AllocNext, CheckInput, Analyse, LivenessNext,
         ValidateShape, VisitBlock, NextPass, LivenessDone, BeginScan,
         AssignRegister, SpillValue, RegisterConflict, Visits, EndScan,
         ShareSlot, CreateSlot, PlacedIn, SpillExhausted, Finish, livenessVars,
         allocVars
<1>2. AllocatedInv /\ pc = <<1, 1>>
  BY <1>1 DEF ExecInv
<1>3. ShapeInv'
  BY <1>1, <1>2, ShapeStep DEF AllocatedInv
<1>4. PlaceTypeOK'
  BY <1>1, <1>2, <1>3, TypeStep DEF AllocatedInv
<1>5. ScanInv'
  BY <1>1, <1>2, <1>3, ScanStep DEF AllocatedInv
<1>6. SpillInv'
  BY <1>1, <1>2, <1>3, SpillStep DEF AllocatedInv
<1>7. stage' # "running"
  BY <1>3 DEF ShapeInv, AllocStages, AllocFailed, LivenessStages
<1> QED
  BY <1>1, <1>2, <1>3, <1>4, <1>5, <1>6, <1>7 DEF ExecInv, AllocatedInv

LEMMA ExecStart ==
  ASSUME ExecInit,
         ShapeInv /\ ~Placing => PlaceTypeOK,
         ShapeInv /\ ~Placing => ScanInv,
         ShapeInv /\ ~Placing => SpillInv
  PROVE  ExecInv /\ VM!VMInit
<1>1. AllocInit /\ VM!VMInit /\ stage = "check"
  BY DEF ExecInit, AllocInit
<1>2. ShapeInv /\ ~Placing
  BY <1>1, ShapeStart DEF Placing, Scanned
<1>3. env \in [VRegs(fn) -> Values] /\ pc = <<1, 1>>
  BY <1>1, VMNames DEF VM!VMInit
<1> QED
  BY <1>1, <1>2, <1>3 DEF ExecInv, AllocatedInv

LEMMA ExecStep ==
  ASSUME ExecInv, [ExecNext]_execVars,
         (ShapeInv /\ ~Placing => PlaceTypeOK)',
         (ShapeInv /\ ~Placing => ScanInv)',
         (ShapeInv /\ ~Placing => SpillInv)'
  PROVE  ExecInv' /\ [VM!VMExecute \/ VM!VMJump]_(VM!vmVars)
<1>1. CASE Allocate
  BY <1>1, AllocateKeeps DEF VM!vmVars
<1>2. CASE Enter
  BY <1>2, EnterKeeps DEF VM!vmVars
<1>3. CASE Execute
  BY <1>3, ExecuteKeeps
<1>4. CASE Jump
  BY <1>4, JumpKeeps
<1>5. CASE UNCHANGED execVars
  <2>1. /\ UNCHANGED scanVars /\ UNCHANGED <<pc, env, obs, cells>>
        /\ UNCHANGED <<fn, stage, live_in, live_out, cursor, changed, tgt,
                       interval, loc, slots>>
    BY <1>5 DEF execVars, runVars, scanVars, livenessVars, allocVars
  <2>2. CASE stage = "running"
    <3>1. StorageOK' /\ AllCells' = AllCells
      BY <2>1, <2>2, StorageFrame DEF ExecInv, RunInv
    <3>2. Intact(cells', env', pc'[1], pc'[2])
      BY <2>1, <2>2 DEF ExecInv, RunInv
    <3>3. Intact(cells, env, pc[1], pc[2])'
      BY <2>1, <3>2, IntactFrame
    <3> QED
      BY <2>1, <2>2, <3>1, <3>3 DEF ExecInv, RunInv, VM!vmVars
  <2>3. CASE stage # "running"
    <3>1. AllocatedInv /\ [AllocNext]_scanVars
      BY <2>1, <2>3 DEF ExecInv
    <3>2. ShapeInv'
      BY <3>1, ShapeStep DEF AllocatedInv
    <3>3. PlaceTypeOK' /\ ScanInv' /\ SpillInv'
      BY <3>1, <3>2, TypeStep, ScanStep, SpillStep DEF AllocatedInv
    <3> QED
      BY <2>1, <2>3, <3>2, <3>3 DEF ExecInv, AllocatedInv, VM!vmVars
  <2> QED
    BY <2>2, <2>3
<1> QED
  BY <1>1, <1>2, <1>3, <1>4, <1>5 DEF ExecNext

THEOREM ExecCorrect == ExecSpec => []ExecInv
BY ExecStart, ExecStep, IdleTypes, IdleScan, IdleSpill, PTL DEF ExecSpec

(***************************************************************************)
(* On every run of every allocated function the cells of a value that may  *)
(* still be used hold that value.                                          *)
(***************************************************************************)
THEOREM LiveValuesIntactCorrect == ExecSpec => []LiveValuesIntact
<1>1. ExecInv => LiveValuesIntact
  BY DEF ExecInv, RunInv, Intact, LiveValuesIntact
<1> QED
  BY <1>1, ExecCorrect, PTL

(***************************************************************************)
(* The allocated function implements the virtual machine: what each        *)
(* instruction reads is what it would read if every virtual register had   *)
(* a storage cell of its own.                                              *)
(***************************************************************************)
THEOREM RunsLikeVirtualMachineCorrect == ExecSpec => RunsLikeVirtualMachine
<1>1. ExecInit => VM!VMInit
  BY DEF ExecInit
<1>2. ExecInv /\ [ExecNext]_execVars
        /\ (ShapeInv /\ ~Placing => PlaceTypeOK)'
        /\ (ShapeInv /\ ~Placing => ScanInv)'
        /\ (ShapeInv /\ ~Placing => SpillInv)'
        => [VM!VMExecute \/ VM!VMJump]_(VM!vmVars)
  BY ExecStep
<1> QED
  BY <1>1, <1>2, ExecCorrect, IdleTypes, IdleScan, IdleSpill, PTL
  DEF ExecSpec, RunsLikeVirtualMachine, VM!VMSpec
=============================================================================

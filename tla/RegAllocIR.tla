----------------------------- MODULE RegAllocIR -----------------------------
(***************************************************************************)
(* The input of the register allocator (src/src/regalloc.rs): a Target, a  *)
(* Function made of basic blocks, and the program points its instructions  *)
(* are laid out on.  Ids are 1-based positions (the code counts from 0),   *)
(* lists whose order no property depends on are sets, and names are left   *)
(* out.  An id that validation must reject may still appear in an operand. *)
(***************************************************************************)
EXTENDS Integers, Sequences, FiniteSets

CONSTANTS NoLimit,        \* the None of SpillClass.capacity
          U32Max          \* the largest program point or spill offset

ASSUME U32MaxAssumption == U32Max \in Nat

(***************************************************************************)
(* The data types.                                                         *)
(***************************************************************************)
Instruction ==
  [uses       : SUBSET Nat,
   defs       : SUBSET Nat,
   fixed_uses : SUBSET (Nat \X Nat),        \* <<vreg, register>>
   fixed_defs : SUBSET (Nat \X Nat),
   clobbers   : SUBSET Nat,                 \* registers
   copies     : Seq(Nat \X Nat)]            \* <<from, to>>, in order

BasicBlock == [code : Seq(Instruction), succs : SUBSET Nat]

VirtualRegister ==
  [size : Nat, alignment : Nat, class : Nat, must_spill : BOOLEAN,
   reusable : BOOLEAN,                      \* spill_slot_reusable
   spill_classes : SUBSET Nat]              \* empty: every class is allowed

Function == [vregs : Seq(VirtualRegister), blocks : Seq(BasicBlock)]

SpillClass ==
  [capacity : Nat \cup {NoLimit}, base_alignment : Nat, cost : Nat,
   register_classes : SUBSET Nat]           \* empty: accepts every class

Target ==
  [units     : Nat,                         \* how many units there are
   registers : Seq(SUBSET Nat),             \* the units each register covers
   classes   : Seq(Seq(Nat)),               \* registers in preference order
   spills    : Seq(SpillClass)]

VRegs(f)     == DOMAIN f.vregs
Blocks(f)    == DOMAIN f.blocks
Code(f, b)   == f.blocks[b].code
Succs(f, b)  == f.blocks[b].succs
Sites(f)     == UNION {{b} \X DOMAIN Code(f, b) : b \in Blocks(f)}
InstrAt(f, s) == Code(f, s[1])[s[2]]

Members(seq) == {seq[k] : k \in DOMAIN seq}

(***************************************************************************)
(* Fixed operands and copies count as ordinary uses and definitions.       *)
(***************************************************************************)
AllUses(ins) ==
  ins.uses \cup {op[1] : op \in ins.fixed_uses}
           \cup {copy[1] : copy \in Members(ins.copies)}

AllDefs(ins) ==
  ins.defs \cup {op[1] : op \in ins.fixed_defs}
           \cup {copy[2] : copy \in Members(ins.copies)}

-----------------------------------------------------------------------------
(***************************************************************************)
(* Program points: instruction number n (blocks in order, instructions in  *)
(* order) uses at 2n and defines at 2n+1.                                  *)
(***************************************************************************)
LaidOutBefore(f, b, i) ==
  {s \in Sites(f) : s[1] < b \/ (s[1] = b /\ s[2] < i)}

UsePoint(f, s) == 2 * Cardinality(LaidOutBefore(f, s[1], s[2]))
DefPoint(f, s) == UsePoint(f, s) + 1

BlockStart(f, b) == 2 * Cardinality(LaidOutBefore(f, b, 1))
BlockEnd(f, b) ==
  IF Code(f, b) = << >> THEN BlockStart(f, b)
                        ELSE DefPoint(f, <<b, Len(Code(f, b))>>)

-----------------------------------------------------------------------------
(***************************************************************************)
(* The two sets analyze_liveness gathers per block: values used before any *)
(* definition in the block, and values the block defines.                  *)
(***************************************************************************)
Kill(f, b) == UNION {AllDefs(Code(f, b)[i]) : i \in DOMAIN Code(f, b)}

\* Mutant: an instruction's definitions are recorded before its uses.
GenDefsFirst(f, b) ==
  UNION {{v \in AllUses(Code(f, b)[i]) :
             \A j \in 1..i : v \notin AllDefs(Code(f, b)[j])} :
           i \in DOMAIN Code(f, b)}

Gen(f, b) ==
  UNION {{v \in AllUses(Code(f, b)[i]) :
             \A j \in 1..(i - 1) : v \notin AllDefs(Code(f, b)[j])} :
           i \in DOMAIN Code(f, b)}

\* Mutant: operands are not checked.
ShapeValidNoOperands(f) == \A b \in Blocks(f) : Succs(f, b) \subseteq Blocks(f)

(***************************************************************************)
(* validate_function_shape: successors and operands must exist.            *)
(***************************************************************************)
ShapeValid(f) ==
  /\ \A b \in Blocks(f) : Succs(f, b) \subseteq Blocks(f)
  /\ \A s \in Sites(f) :
       AllUses(InstrAt(f, s)) \cup AllDefs(InstrAt(f, s)) \subseteq VRegs(f)

(***************************************************************************)
(* u32::is_power_of_two: 1 is the only odd number that divides n.          *)
(***************************************************************************)
PowerOfTwo(n) == n # 0 /\ \A d \in 1..n : n % d = 0 => d = 1 \/ d % 2 = 0

RegistersOf(t) == DOMAIN t.registers
ClassOf(t, f, v) == t.classes[f.vregs[v].class]

(***************************************************************************)
(* validate: what allocate checks before anything else.  Names, which it   *)
(* also checks, are left out of the model.                                 *)
(***************************************************************************)
TargetValid(t) ==
  /\ \A r \in RegistersOf(t) :
       t.registers[r] # {} /\ t.registers[r] \subseteq 1..t.units
  /\ \A c \in DOMAIN t.classes :
       /\ Members(t.classes[c]) \subseteq RegistersOf(t)
       /\ Cardinality(Members(t.classes[c])) = Len(t.classes[c])
  /\ \A p \in DOMAIN t.spills :
       /\ PowerOfTwo(t.spills[p].base_alignment)
       /\ t.spills[p].register_classes \subseteq DOMAIN t.classes

VRegsValid(t, f) ==
  \A v \in VRegs(f) :
    /\ f.vregs[v].size # 0
    /\ PowerOfTwo(f.vregs[v].alignment)
    /\ f.vregs[v].class \in DOMAIN t.classes
    /\ f.vregs[v].spill_classes \subseteq DOMAIN t.spills

Fixed(f) == UNION {InstrAt(f, s).fixed_uses \cup InstrAt(f, s).fixed_defs :
                     s \in Sites(f)}

OperandsValid(t, f) ==
  /\ \A s \in Sites(f) : InstrAt(f, s).clobbers \subseteq RegistersOf(t)
  /\ \A op \in Fixed(f) :
       /\ op[2] \in RegistersOf(t)
       /\ ~f.vregs[op[1]].must_spill
       /\ op[2] \in Members(ClassOf(t, f, op[1]))

Valid(t, f) ==
  /\ TargetValid(t)
  /\ VRegsValid(t, f)
  /\ ShapeValid(f)
  /\ OperandsValid(t, f)

(***************************************************************************)
(* collect_fixed_constraints: one register per fixed value, everywhere.    *)
(***************************************************************************)
FixedConsistent(f) ==
  \A p, q \in Fixed(f) : p[1] = q[1] => p[2] = q[2]

Alias(t, r, q) == t.registers[r] \cap t.registers[q] # {}
=============================================================================

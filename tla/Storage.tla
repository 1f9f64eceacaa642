------------------------------ MODULE Storage -------------------------------
(***************************************************************************)
(* The storage an allocation hands out, as the emitters use it: the cells  *)
(* are register units and bytes of the spill areas.                        *)
(***************************************************************************)
EXTENDS Allocator

CONSTANTS Values, Junk
ASSUME JunkAssumption == Junk \notin Values

\* Cells are <<0, unit>> or <<spill class, byte>>.
UnitCells(r) == {0} \X tgt.registers[r]

CellsOf(v) ==
  CASE InRegister(v) -> UnitCells(loc[v].at)
    [] InMemory(v)   -> Bytes(v)
    [] OTHER         -> {}

AllCells == ({0} \X (1..tgt.units)) \cup UNION {CellsOf(v) : v \in VRegs(fn)}

\* The value v's cells hold together; Junk when they disagree.
Fetch(memory, v) ==
  IF \E x \in Values : \A c \in CellsOf(v) : memory[c] = x
  THEN CHOOSE x \in Values : \A c \in CellsOf(v) : memory[c] = x
  ELSE Junk

\* Write values into the cells of the registers in V; the rest keep theirs.
Store(memory, V, value) ==
  [c \in DOMAIN memory |->
     IF \E v \in V : c \in CellsOf(v)
     THEN value[CHOOSE v \in V : c \in CellsOf(v)]
     ELSE memory[c]]

\* What is left of memory after the registers in R are clobbered.
Destroyed(R) == UNION {UnitCells(r) : r \in R}

Clobbered(memory, R) ==
  [c \in DOMAIN memory |-> IF c \in Destroyed(R) THEN Junk ELSE memory[c]]
=============================================================================

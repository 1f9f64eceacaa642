--------------------------- MODULE AssemblyMachine --------------------------
(***************************************************************************)
(* What emitted assembly does: the lines of text that are kept run one     *)
(* after the other from an entry point, calls and jumps find their labels, *)
(* and an indirect transfer goes to an address that an instruction has     *)
(* loaded, itself or from a table, or a call has left behind.  Running into*)
(* data stops the machine.                                                 *)
(***************************************************************************)
EXTENDS AssemblyText, FiniteSetsExt

CONSTANT Entries     \* the labels the machine may start at

VARIABLES
  text,
  kept,       \* the lines of text that are in the program
  pc,         \* the line that runs next, 0 before the start
  known       \* lines whose addresses are in registers or in memory

machineVars == <<text, kept, pc, known>>

LinesOf(labels) == {i \in kept : text[i].label \in labels}
Target(i)       == LinesOf(text[i].refs)
Following(i)    == LET later == {j \in kept : j > i}
                   IN  IF later = {} THEN {} ELSE {Min(later)}

\* Where the instruction of line i may lead, and what addresses it leaves.
Successors(i) ==
  IF i = 0 THEN LinesOf(Entries)
  ELSE CASE text[i].kind \in {"none", "plain"} -> Following(i)
         [] text[i].kind = "branch"            -> Following(i) \cup Target(i)
         [] text[i].kind \in {"call", "jump"}  ->
              IF text[i].refs = {} THEN known ELSE Target(i)
         [] text[i].kind = "return"            -> known
         [] text[i].kind = "return_if"         -> known \cup Following(i)
         [] OTHER                              -> {}

Learned(i) ==
  IF i = 0 THEN {}
  ELSE CASE text[i].kind = "plain" ->
              LinesOf(text[i].refs \cup
                      UNION {text[j].refs : j \in {j \in Target(i) : text[j].kind = "data"}})
         [] text[i].kind = "call"  -> Following(i)
         [] OTHER                  -> {}

MachineInit ==
  /\ pc = 0
  /\ known = {}

MachineStep ==
  /\ pc' \in Successors(pc)
  /\ known' = known \cup Learned(pc)
  /\ UNCHANGED <<text, kept>>

MachineSpec == MachineInit /\ [][MachineStep]_machineVars
=============================================================================

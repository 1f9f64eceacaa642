-------------------------- MODULE RoutineStripping --------------------------
(***************************************************************************)
(* strip_unreachable_generated_routines_with_roots (src/src/asm/           *)
(* reachability.rs), which the emitters run over their assembly, and the   *)
(* stripped program at work.  A routine is known by the line of its label; *)
(* the stack of pending blocks is a set, so it is emptied in any order.    *)
(***************************************************************************)
EXTENDS AssemblyText, FiniteSetsExt

CONSTANTS Texts,        \* the assembly the emitters may produce
          ExtraRoots    \* labels the emitter itself asks to keep

ASSUME TextsAssumption == \A t \in Texts : IsText(t)
ASSUME ExtraRootsAssumption == NoLabel \notin ExtraRoots

VARIABLES
  stage,        \* "discover", "visit" or "run"
  text,
  routine,      \* lines of the labels taken to be routine entries
  considered,   \* the last label line that discovery has looked at
  reachable,    \* routines visited
  pending,      \* routines to visit
  kept,         \* the lines of the output
  pc, known

stripVars == <<text, routine, considered, reachable, pending>>
runVars   == <<pc, known>>
vars      == <<stage, stripVars, kept, runVars>>

Entries == RootLabels \cup ExtraRoots

Original == INSTANCE AssemblyMachine WITH kept <- Lines(text)
Output   == INSTANCE AssemblyMachine

-----------------------------------------------------------------------------
(***************************************************************************)
(* discover_generated_routine_labels.  Functions, roots and call targets   *)
(* are routines; then the other generated labels are looked at in order,   *)
(* each in the region between the routines known so far.                   *)
(***************************************************************************)
LabelLines(t) == {i \in Lines(t) : t[i].label \notin StaticLabels \cup {NoLabel}}

CallTarget(t, i) == \E j \in Lines(t) : t[j].kind = "call" /\ Names(t, j, t[i].label)

SureRoutines(t) ==
  {i \in LabelLines(t) :
     t[i].label \in SourceLabels \cup RootLabels \/ CallTarget(t, i)}

Region(i) ==
  Max({1} \cup {j \in routine : j < i}) ..
    (Min({Len(text) + 1} \cup {j \in routine : j > i}) - 1)

NamedIn(i, lines) == \E j \in lines : Names(text, j, text[i].label)

FollowsReturn(t, i) ==
  LET before == {j \in Lines(t) : j < i /\ HasCode(t, j)}
  IN  before # {} /\ IsReturn(t, Max(before))

StartsRoutine(i) ==
  \/ NamedIn(i, Lines(text) \ Region(i))
  \/ ~NamedIn(i, Region(i)) /\ FollowsReturn(text, i)

Consider(i) ==
  /\ stage = "discover"
  /\ i \in LabelLines(text)
  /\ considered < i
  /\ \A j \in LabelLines(text) : j > considered => i <= j
  /\ considered' = i
  /\ routine' = IF text[i].label \in GeneratedLabels /\ StartsRoutine(i)
                THEN routine \cup {i} ELSE routine
  /\ UNCHANGED <<stage, text, reachable, pending, kept, runVars>>

-----------------------------------------------------------------------------
(***************************************************************************)
(* strip_unreachable_routines.  Blocks run from a routine label outside    *)
(* the banked payloads to the next boundary.                               *)
(***************************************************************************)
Blocks == {i \in routine : ~InBank(text, i)}

Boundary(i) == Edge(text, i) \/ (i \in routine /\ ~InBank(text, i))

Body(b) ==
  b..(Min({Len(text) + 1} \cup {i \in Lines(text) : i > b /\ Boundary(i)}) - 1)

\* labels_referenced_from_banked_payload
BankNames(i) ==
  \E j \in Lines(text) :
    /\ InBank(text, j) /\ ~Marks(text, j, BankStarts \cup BankEnds)
    /\ Names(text, j, text[i].label)

\* Mutant: what banked code needs is not kept.
RootBlocksOfMain == {b \in Blocks : Marks(text, b, Entries)}

RootBlocks == {b \in Blocks : Marks(text, b, Entries) \/ BankNames(b)}

\* Mutant: only transfers count, not the addresses that are loaded.
ReferencedByTransfers(b) ==
  {c \in Blocks : \E i \in Body(b) :
     text[i].kind # "plain" /\ Names(text, i, text[c].label)}

Referenced(b) == {c \in Blocks : NamedIn(c, Body(b))}

\* block_ends_transfer
EndsTransfer(b) ==
  LET code == {i \in Body(b) : HasCode(text, i)}
  IN  code # {} /\ EndsControl(text, Max(code))

\* Mutant: every routine is taken to end in a transfer.
FallsIntoNothing(b) == {}

FallsInto(b) ==
  LET later == {c \in Blocks : c > b}
  IN  IF EndsTransfer(b) \/ later = {} THEN {} ELSE {Min(later)}

BeginVisits ==
  /\ stage = "discover"
  /\ \A j \in LabelLines(text) : j <= considered
  /\ stage' = "visit"
  /\ pending' = RootBlocks
  /\ UNCHANGED <<text, routine, considered, reachable, kept, runVars>>

\* Mutant: a routine that was visited is visited again.
VisitAgain(b) ==
  /\ stage = "visit"
  /\ b \in pending
  /\ reachable' = reachable \cup {b}
  /\ pending' = (pending \ {b}) \cup Referenced(b) \cup FallsInto(b)
  /\ UNCHANGED <<stage, text, routine, considered, kept, runVars>>

\* Mutant: the routine below is kept, whether or not this one runs into it.
VisitNeighbour(b) ==
  /\ stage = "visit"
  /\ b \in pending
  /\ reachable' = reachable \cup {b}
  /\ pending' = (pending \ {b}) \cup
                (IF b \in reachable THEN {} ELSE Referenced(b) \cup {c \in Blocks : c = b + 1})
  /\ UNCHANGED <<stage, text, routine, considered, kept, runVars>>

Visit(b) ==
  /\ stage = "visit"
  /\ b \in pending
  /\ reachable' = reachable \cup {b}
  /\ pending' = (pending \ {b}) \cup
                (IF b \in reachable THEN {} ELSE Referenced(b) \cup FallsInto(b))
  /\ UNCHANGED <<stage, text, routine, considered, kept, runVars>>

Removed == UNION {Body(b) : b \in Blocks \ reachable}

WriteOutput ==
  /\ stage = "visit"
  /\ pending = {}
  /\ stage' = "run"
  /\ kept' = Lines(text) \ Removed
  /\ UNCHANGED <<stripVars, runVars>>

StripNext ==
  \/ \E i \in Lines(text) : Consider(i)
  \/ BeginVisits
  \/ \E b \in Lines(text) : Visit(b)
  \/ WriteOutput

-----------------------------------------------------------------------------
(***************************************************************************)
(* The stripped program runs.                                              *)
(***************************************************************************)
RunStripped ==
  /\ stage = "run"
  /\ Output!MachineStep
  /\ UNCHANGED <<stage, stripVars>>

Init ==
  /\ stage = "discover"
  /\ text \in Texts
  /\ routine = SureRoutines(text)
  /\ considered = 0
  /\ reachable = {}
  /\ pending = {}
  /\ kept = Lines(text)
  /\ Original!MachineInit

Next == StripNext \/ RunStripped

Spec == Init /\ [][Next]_vars /\ WF_vars(StripNext)

-----------------------------------------------------------------------------
(***************************************************************************)
(* How the emitters write routines (Emitter::emit and emit_function): the  *)
(* lines of heads start them, and heads and the edges of sections, banks   *)
(* and static data cut the text.  Discovery has to find its way through    *)
(* the labels without knowing the heads.                                   *)
(***************************************************************************)
Heads(t, labels) == {i \in LabelLines(t) : t[i].label \in labels}

Cuts(t, heads) == heads \cup {i \in Lines(t) : Edge(t, i)}

\* In the same routine, or in the same stretch outside of all.
Together(t, heads, i, j) == \A k \in Cuts(t, heads) : k <= i <=> k <= j

InRoutine(t, heads, i) == \E h \in heads : Together(t, heads, h, i)

BelowSureRoutine(t, i) ==
  \E s \in SureRoutines(t) : s <= i /\ \A e \in (s + 1)..i : ~Edge(t, e)

SureRoutineBetween(t, i, j) ==
  \E s \in SureRoutines(t) : (i < s /\ s <= j) \/ (j < s /\ s <= i)

\* Control goes on to the next line.
GoesOn(t, i) == t[i].kind \in {"none", "plain", "call", "branch", "return_if"}

\* Below the last instruction of a routine, which is a return or a jump.
PastTheEnd(t, heads, i) ==
  \E k \in Lines(t) :
    /\ k < i /\ Together(t, heads, k, i)
    /\ EndsControl(t, k)
    /\ \A c \in Lines(t) : c > k /\ Together(t, heads, c, i) => ~HasCode(t, c)

Called(t, j) == \E i \in Lines(t) : Names(t, i, t[j].label)

\* An address in an unlabelled table (an equ) is no address that is loaded.
Enterable(t, j) ==
  \/ t[j].label \in Entries
  \/ \E i \in Lines(t) :
       Names(t, i, t[j].label) /\ (t[i].kind = "data" => t[i].label # NoLabel)

RoutinesAreLaidOut(t, heads) ==
  /\ SureRoutines(t) \subseteq heads
  /\ \A h \in heads :
       /\ BelowSureRoutine(t, h)
       /\ \E c \in Lines(t) : HasCode(t, c) /\ Together(t, heads, h, c)

\* Other labels are local, and one that no one names may be the last line.
LabelsAreLocal(t, heads) ==
  \A j \in LabelLines(t) \ heads :
    /\ \A i \in Lines(t) : Names(t, i, t[j].label) => Together(t, heads, i, j)
    /\ t[j].label \in GeneratedLabels /\ ~Called(t, j) /\ FollowsReturn(t, j) =>
         /\ ~HasCode(t, j)
         /\ \A i \in Lines(t) : Together(t, heads, i, j) => i <= j

\* Trampolines come after what takes their addresses.
AddressesComeFirst(t, heads) ==
  \A j \in heads \ SureRoutines(t), i \in Lines(t) :
    i > j /\ Names(t, i, t[j].label) =>
      Together(t, heads, i, j) \/ SureRoutineBetween(t, i, j)

\* Lines above, below and between: constants, static data, marks of banks.
OthersNameEntries(t) ==
  \A i, j \in Lines(t) :
    /\ Names(t, i, t[j].label)
    /\ ~BelowSureRoutine(t, i)
    /\ InBank(t, i) => Marks(t, i, BankStarts \cup BankEnds)
    => InBank(t, j) \/ t[j].label \in Entries

\* The 6502's constants name the trampolines that are extra roots.
ExtraRootsAreKnown(t) ==
  \A j \in LabelLines(t) :
    t[j].label \in ExtraRoots =>
      \/ j \in SureRoutines(t)
      \/ /\ t[j].label \in GeneratedLabels
         /\ \E i \in Lines(t) :
              Names(t, i, t[j].label) /\ SureRoutineBetween(t, i, j)

\* The emitters' own returns are unconditional, and no routine is left open.
RoutinesEnd(t, heads) ==
  \A i \in Lines(t) :
    /\ t[i].kind = "return_if" =>
         \E c \in Lines(t) : c > i /\ HasCode(t, c) /\ Together(t, heads, c, i)
    /\ /\ i + 1 \in Lines(t) /\ Edge(t, i + 1)
       /\ InRoutine(t, heads, i) /\ GoesOn(t, i)
       => PastTheEnd(t, heads, i)

CodeIsEntered(t, heads) ==
  \A j \in Lines(t) :
    t[j].label # NoLabel /\ Enterable(t, j) =>
      /\ ~PastTheEnd(t, heads, j)
      /\ GoesOn(t, j) => InRoutine(t, heads, j)

WrittenInRoutines(t, heads) ==
  /\ RoutinesAreLaidOut(t, heads)
  /\ LabelsAreLocal(t, heads)
  /\ AddressesComeFirst(t, heads)
  /\ OthersNameEntries(t)
  /\ ExtraRootsAreKnown(t)
  /\ RoutinesEnd(t, heads)
  /\ CodeIsEntered(t, heads)

-----------------------------------------------------------------------------
StripTypeOK ==
  /\ stage \in {"discover", "visit", "run"}
  /\ text \in Texts
  /\ routine \subseteq LabelLines(text)
  /\ reachable \cup pending \subseteq Blocks
  /\ kept \subseteq Lines(text)
  /\ pc \in Lines(text) \cup {0}

(***************************************************************************)
(* Stripping is invisible to the program (strip_unreachable_routines): the *)
(* stripped assembly, run from any entry point, does what the whole would, *)
(* through calls, branches, indirect jumps and by running from one routine *)
(* into the next.                                                          *)
(***************************************************************************)
RunsLikeOriginal == Original!MachineSpec

(***************************************************************************)
(* It never stops short either: whatever the original could do from here,  *)
(* the stripped program can do, its next line is never one that is gone.   *)
(***************************************************************************)
NeverStopsShort ==
  stage = "run" =>
    /\ pc \in kept \cup {0}
    /\ Original!Successors(pc) \subseteq Output!Successors(pc)

(***************************************************************************)
(* The output still assembles: a label that any kept line names, data and  *)
(* banked payloads included, is still defined if it was.                   *)
(***************************************************************************)
NoDanglingLabels ==
  stage = "run" =>
    \A i \in kept, j \in Lines(text) : Names(text, i, text[j].label) => j \in kept

(***************************************************************************)
(* Nothing is kept in vain: a routine is visited only if it is in every    *)
(* set of routines that holds the roots and is closed under references and *)
(* under running on into the next routine.                                 *)
(***************************************************************************)
NothingKeptInVain ==
  stage = "visit" /\ pending = {} =>
    LET leads == [b \in Blocks |-> Referenced(b) \cup FallsInto(b)]
    IN  \A S \in SUBSET Blocks :
          RootBlocks \subseteq S /\ (\A b \in S : leads[b] \subseteq S)
            => reachable \subseteq S

(***************************************************************************)
(* The worklist of strip_unreachable_routines runs dry.                    *)
(***************************************************************************)
StrippingEnds == <>(stage = "run")
=============================================================================

---------------------------- MODULE AssemblyText ----------------------------
(***************************************************************************)
(* Emitted assembly, as src/src/asm/reachability.rs reads it.  A line has  *)
(* a label or NoLabel, a kind, and the labels its operands name (refs):    *)
(*    none        no instruction                                           *)
(*    section     a section boundary                                       *)
(*    data        bytes, or the addresses of labels                        *)
(*    plain       an instruction that goes on; refs are addresses it loads *)
(*    call        to its label, or to an address known at run time         *)
(*    branch      to its label, or on                                      *)
(*    jump        to its label, or to an address known at run time         *)
(*    return, return_if    the latter may go on                            *)
(* Labels are classified by the sets below; no label is defined twice.     *)
(***************************************************************************)
EXTENDS Integers, Sequences, FiniteSets

CONSTANTS
  NoLabel,
  SourceLabels,      \* is_source_routine_label: the functions of the program
  RootLabels,        \* is_routine_root: entry points and interrupt handlers
  GeneratedLabels,   \* begin with __ezra_
  StaticLabels,      \* is_static_data_label: storage, embeds, banks
  BankStarts,        \* is_banked_payload_start
  BankEnds           \* is_banked_payload_end

ASSUME LabelsAssumption ==
  /\ BankStarts \cup BankEnds \subseteq StaticLabels
  /\ BankStarts \cap BankEnds = {}
  /\ StaticLabels \subseteq GeneratedLabels
  /\ StaticLabels \cap (SourceLabels \cup RootLabels) = {}
  /\ NoLabel \notin GeneratedLabels \cup SourceLabels \cup RootLabels

Kinds == {"none", "section", "data", "plain", "call", "branch", "jump",
          "return", "return_if"}

Labels == GeneratedLabels \cup SourceLabels \cup RootLabels

Line == [label : Labels \cup {NoLabel}, kind : Kinds, refs : SUBSET Labels]

IsText(t) ==
  /\ t \in Seq(Line)
  /\ \A i, j \in DOMAIN t :
       t[i].label = t[j].label => i = j \/ t[i].label = NoLabel
  /\ \A i \in DOMAIN t : t[i].kind = "none" => t[i].refs = {}

Lines(t)         == DOMAIN t
HasCode(t, i)    == t[i].kind # "none"

\* operands_reference_label, on the operands of line i.
Names(t, i, l) == l \in t[i].refs

Marks(t, i, labels) == t[i].label \in labels

InBank(t, i) ==
  \E s \in Lines(t) :
    /\ s < i /\ Marks(t, s, BankStarts)
    /\ \A e \in (s + 1)..(i - 1) : ~Marks(t, e, BankEnds)

\* What closes a block of strip_unreachable_routines besides a routine.
Edge(t, i) ==
  \/ t[i].kind = "section"
  \/ Marks(t, i, BankStarts \cup BankEnds)
  \/ Marks(t, i, StaticLabels) /\ ~InBank(t, i)

(***************************************************************************)
(* transfer_kind: what the last instruction of a routine says about going  *)
(* on into the next.  The rule for ret does not look at a condition.       *)
(***************************************************************************)
IsReturn(t, i)     == t[i].kind \in {"return", "return_if"}
EndsControl(t, i)  == IsReturn(t, i) \/ t[i].kind = "jump"
=============================================================================

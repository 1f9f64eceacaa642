---------------------------- MODULE MCSourceExec ----------------------------
(***************************************************************************)
(* Bodies over three byte locals and a two-byte aggregate, for a machine   *)
(* with one byte register that calls keep or destroy, and an open spill    *)
(* area.                                                                   *)
(***************************************************************************)
EXTENDS SourceExec

MCTargets ==
  {[units |-> 1, registers |-> <<{1}>>, classes |-> <<<<1>>, << >>>>,
    spills |-> <<[capacity |-> NoLimit, base_alignment |-> 1, cost |-> 1,
                  register_classes |-> {}]>>]}

Byte(name) ==
  [name |-> name, size |-> 1, alignment |-> 1, class |-> 1,
   spill_classes |-> {}, force_memory |-> FALSE]
Pair(name) == [Byte(name) EXCEPT !.size = 2, !.class = 2, !.force_memory = TRUE]

MCLocals == <<Byte("i"), Byte("k"), Byte("t"), Pair("a"), Pair("b")>>

-----------------------------------------------------------------------------
Of(names)      == [Const EXCEPT !.reads = names]
AddressOf(x)   == [Const EXCEPT !.addressed = {x}]
Deref(names)   == [Const EXCEPT !.reads = names, !.derefs = TRUE]
Call(names)    == [Const EXCEPT !.reads = names, !.calls = TRUE]

Let(x, e)      == [op |-> "let", value |-> e, names |-> {x}]
LetTwo(x, y, e) == [op |-> "let", value |-> e, names |-> {x, y}]
Set(x, e)      == [op |-> "assign", value |-> e, via |-> Const, place |-> {x},
                   compound |-> FALSE, partial |-> FALSE]
Bump(x, e)     == [Set(x, e) EXCEPT !.compound = TRUE]
SetPart(x, e)  == [Set(x, e) EXCEPT !.partial = TRUE]
SetBehind(p, e) == [Set(p, e) EXCEPT !.place = {}, !.via = Of({p})]
Do(e)          == [op |-> "expr", value |-> e]
Asm(in, out)   == [op |-> "asm", inputs |-> in, outputs |-> out]
If(e, yes, no) == [op |-> "if", value |-> e, then |-> yes, else |-> no]
While(e, body) == [op |-> "while", value |-> e, body |-> body]
Loop(body)     == [op |-> "loop", body |-> body]
Return(es)     == [op |-> "return", values |-> es]
Break          == [op |-> "break"]
Continue       == [op |-> "continue"]

-----------------------------------------------------------------------------
(***************************************************************************)
(* What may happen in the middle: control that leaves or goes round, with  *)
(* each kind of statement in it.                                           *)
(***************************************************************************)
Deeds ==
  {<<Bump("i", Of({"k"}))>>,
   <<Do(Call({"i"}))>>,
   <<Bump("k", Call({"i"}))>>,
   <<Asm({"i"}, {"k"})>>,
   <<Do(AddressOf("i")), SetBehind("k", Of({"i"}))>>,
   <<If(Of({"global"}), <<Set("k", AddressOf("i"))>>, <<Set("i", Deref({"k"}))>>)>>,
   <<If(Of({"i"}), <<Return({Of({"k"})})>>, <<Set("k", Of({"global"}))>>)>>}

Exits == {<<Break>>, <<Continue>>, <<Return({})>>,
          <<Return({Of({"i"}), Of({"k"})})>>, << >>}

\* Straight-line code with an aggregate that is filled part by part, another
\* in its place, a byte a call needs, and pointers that may still be about.
Filled(deed) ==
  <<LetTwo("i", "k", Const)>> \o deed \o
  <<Let("a", Of({"i"})), SetPart("a", Of({"k"})), Do(Of({"a"})),
    Let("b", Const), Let("t", Of({"b"})), Do(Call({"t"})),
    Return({Deref({"k"})})>>

\* A loop that values are carried through, one of them only now and then.
Carried(deed, exit) ==
  <<LetTwo("i", "k", Const),
    Loop(deed \o
         <<If(Of({"k"}), exit, << >>), Let("t", Of({"k"})), Set("k", Of({"t"})),
           If(Of({"i"}), <<Break>>, << >>)>>),
    Return({Of({"i"})})>>

\* A while at the head of a block: of a function, and of a loop.
Headed(deed, exit) ==
  <<While(Of({"global"}), <<Let("t", Const), Do(Call({"t"}))>>),
    LetTwo("i", "k", Const),
    Loop(<<While(Of({"i"}), deed \o <<If(Of({"k"}), exit, << >>)>>),
           Set("i", Call({"k"})), If(Of({"i"}), <<Break>>, <<Continue>>)>>),
    Return({Of({"k"})})>>

Body(list) == [locals |-> MCLocals, body |-> list, clobbers |-> {1}]

MCPrograms ==
  {Body(Filled(deed)) : deed \in Deeds} \cup
  {Body(Carried(deed, exit)) : deed \in Deeds, exit \in Exits} \cup
  {Body(Headed(deed, exit)) : deed \in Deeds, exit \in Exits} \cup
  {[Body(<<Let("i", Const), Break>>) EXCEPT !.clobbers = {}],
   [Body(Carried(<< >>, << >>)) EXCEPT !.locals[3].name = "i"]}

(***************************************************************************)
(* A while below the definition of what its condition reads:               *)
(*    let i; while i { i += ..; let t; use t; }                            *)
(***************************************************************************)
MCCountingLoops ==
  {Body(<<Let("i", Const),
          While(Of({"i"}), <<Bump("i", Const), Let("t", Const), Do(Of({"t"}))>>)>>)}

(***************************************************************************)
(* A loop that refreshes one part of an aggregate in every round:          *)
(*    let a; loop { a.x = ..; use a; let b; use b; }                       *)
(***************************************************************************)
MCRefreshedParts ==
  {Body(<<Let("a", Const),
          Loop(<<SetPart("a", Const), Do(Of({"a"})), Let("b", Const),
                 Do(Of({"b"}))>>)>>)}
=============================================================================

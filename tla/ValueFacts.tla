----------------------------- MODULE ValueFacts -----------------------------
(***************************************************************************)
(* An expression and the facts src/tbir/range.rs derives for it, built up  *)
(* one operator at a time.  Beside the facts runs the value the expression *)
(* really has, so that the two can be compared: an action applies the same *)
(* operator to both.  Leaves are literals and variables about which some   *)
(* facts are known; every value those facts allow is tried.                *)
(*                                                                         *)
(* The bits range.rs takes from a range (common_bits_for_raw_interval) are *)
(* wrong in one place, and so is a left shift by a count of a known range. *)
(* Two history variables, which no action reads, say how far that reaches: *)
(* whether the bits of this expression come from a range, and whether an   *)
(* operator below it was given a mistake to work on.                       *)
(***************************************************************************)
EXTENDS TbirRange

CONSTANTS Mixes,        \* the kinds of expression that are built, each a record of
                        \*   types: the integer types of the leaves
                        \*   leaves: what is known of a leaf, "bits", "range" or both
                        \*   operators: the operators applied, "cast" among them
          Depth,        \* operators applied, at most
          LeftCounts,   \* facts of the counts a left shift is tried with
          RightCounts   \* and a right shift

ASSUME MixesAssumption ==
  \A m \in Mixes :
    m.types \subseteq {"u8", "i8", "u16", "i16", "u20", "i20", "u24", "i24", "u32", "i32"}

VARIABLES
  mix,    \* the kind of expression
  t,      \* the type of the expression
  value,  \* what it evaluates to
  facts,  \* what is known of it
  exact,  \* are all its leaves literals?
  derived,  \* are its bits those of a range? (history)
  misled,   \* did an operator in it read such bits, or shift so? (history)
  depth

vars == <<mix, t, value, facts, exact, derived, misled, depth>>

---------------------------------------------------------------------------
\* Leaves

from_known_bits(ty, z, o) == facts_from_known_bits(scalar_type(ty), z, o)

from_unsigned_range(ty, r) == facts_from_raw_range(scalar_type(ty), r)

from_signed_range(ty, r) == facts_from_signed_range(scalar_type(ty), r)

Intervals(lo, hi) == {r \in [min : lo .. hi, max : lo .. hi] : r.min <= r.max}

Unread(ty, v) == IF ty = "bool" THEN v ELSE Raw(ty, v)

AsSigned(ty, v) ==
  LET w == scalar_type(ty).w
      raw == Unread(ty, v)
  IN  IF w > 1 /\ raw >= 2 ^ (w - 1) THEN raw - 2 ^ w ELSE raw

ValuesOf(ty) ==
  LET raws == 0 .. 2 ^ scalar_type(ty).w - 1
  IN  IF ty = "bool" THEN raws ELSE {Wrap(ty, raw) : raw \in raws}

BitsHold(f, ty, v) ==
  LET ones == BitsOf(Unread(ty, v), f.w)
  IN  f.o \subseteq ones /\ f.z \cap ones = {}

\* Facts made from a range of more than one number and less than all of them.
\* The bits of such a range are wrong where its ends first differ; those of one
\* number are its digits, and those of every number are none.
FromRange(f, ty) == ~is_singleton(f.u) /\ f # full_facts(scalar_type(ty))

\* A leaf: the facts made for it, the values they were made for, and whether its
\* bits are those of a range.
Leaf(f, values, d) == [facts |-> f, values |-> values, derived |-> d]

RangeLeaf(f, ty, values) == Leaf(f, values, FromRange(f, ty))

Leaves(ty) ==
  LET w == scalar_type(ty).w
      b == signed_bounds(scalar_type(ty))
      masks == {m \in [z : SUBSET (0 .. w - 1), o : SUBSET (0 .. w - 1)] : m.z \cap m.o = {}}
  IN  (IF "bits" \notin mix.leaves THEN {}
       ELSE {Leaf(from_known_bits(ty, m.z, m.o), {v \in ValuesOf(ty) : BitsHold(m, ty, v)},
                    FALSE) :
               m \in {[w |-> w, z |-> m.z, o |-> m.o] : m \in masks}})
      \cup
      (IF "range" \notin mix.leaves THEN {}
       ELSE {RangeLeaf(from_unsigned_range(ty, r), ty,
                       {v \in ValuesOf(ty) : Holds(r, Unread(ty, v))}) :
               r \in Intervals(0, 2 ^ w - 1)}
            \cup {RangeLeaf(from_signed_range(ty, r), ty,
                            {v \in ValuesOf(ty) : Holds(r, AsSigned(ty, v))}) :
                    r \in Intervals(b.min, b.max)})

IsExact(f) == is_singleton(f.u)

\* A count is wanted as a u32, whatever is shifted.
ASSUME CountsAssumption ==
  \A f \in LeftCounts \cup RightCounts :
    /\ f.u \in Intervals(0, 2 ^ Bits("u32") - 1)
    /\ f = from_unsigned_range("u32", f.u)

\* Operators that work on ranges, and on bits.
Arithmetics == {"+", "-", "*", "/", "%"}
Bitwises == {"&", "|", "^"}

\* A shift to the left by a count of which only a range is known, and which never
\* shifts everything out: the shift is taken to be by the least count (range.rs:1035).
OneOfSeveral(op, c) == op = "<<" /\ ~is_singleton(c.u) /\ c.u.max < Bits(t)

---------------------------------------------------------------------------

Init ==
  /\ mix \in Mixes
  /\ t \in mix.types
  /\ \E leaf \in Leaves(t) :
       /\ facts = leaf.facts
       /\ value \in leaf.values
       /\ exact = IsExact(leaf.facts)
       /\ derived = leaf.derived
  /\ misled = FALSE
  /\ depth = 0

ApplyUnary(op) ==
  /\ depth < Depth
  /\ t # "bool"
  /\ t' = IF op = "!" THEN "bool" ELSE t
  /\ value' = CASE op = "neg" -> Wrap(t, -value)
                [] op = "~" -> Wrap(t, -value - 1)
                [] op = "!" -> Bit(value = 0)
  /\ facts' = unary_facts(IF op = "neg" THEN "-" ELSE op, facts, t)
  /\ derived' = (op = "neg" /\ FromRange(facts', t))
  /\ misled' = (misled \/ (op = "~" /\ derived))
  /\ depth' = depth + 1
  /\ UNCHANGED <<mix, exact>>

\* The other operand is a leaf of the same type.
ApplyBinary(op) ==
  /\ depth < Depth
  /\ t # "bool"
  /\ \E leaf \in Leaves(t) : \E v \in leaf.values :
       /\ value' = IF op \in Comparisons THEN Bit(Compare(op, value, v)) ELSE Arith(op, t, value, v)
       /\ facts' = binary_facts(facts, op, leaf.facts, t)
       /\ exact' = (exact /\ IsExact(leaf.facts))
       /\ misled' = (misled \/ (op \in Bitwises /\ (derived \/ leaf.derived)))
  /\ derived' = (op \in Arithmetics /\ FromRange(facts', t))
  /\ t' = IF op \in Comparisons THEN "bool" ELSE t
  /\ depth' = depth + 1
  /\ UNCHANGED mix

\* A conjunction or disjunction of two truth values.
ApplyLogical(op) ==
  /\ depth < Depth
  /\ t = "bool"
  /\ \E leaf \in Leaves(t) : \E v \in leaf.values :
       /\ value' = CASE op = "&&" -> value * v [] op = "||" -> Bit(value + v > 0)
       /\ facts' = binary_facts(facts, op, leaf.facts, t)
       /\ exact' = (exact /\ IsExact(leaf.facts))
  /\ derived' = FALSE
  /\ depth' = depth + 1
  /\ UNCHANGED <<mix, t, misled>>

ApplyShift(op) ==
  /\ depth < Depth
  /\ t # "bool"
  /\ \E f \in IF op = "<<" THEN LeftCounts ELSE RightCounts : \E v \in f.u.min .. f.u.max :
       /\ value' = Arith(op, t, value, v)
       /\ facts' = binary_facts(facts, op, f, t)
       /\ exact' = (exact /\ IsExact(f))
       /\ misled' = (misled \/ derived \/ OneOfSeveral(op, f))
  /\ derived' = FALSE
  /\ depth' = depth + 1
  /\ UNCHANGED <<mix, t>>

ApplyCast(ty) ==
  /\ depth < Depth
  /\ t # ty
  /\ t' = ty
  /\ value' = Wrap(ty, value)
  /\ facts' = cast_facts(facts, ty)
  /\ derived' = FALSE
  /\ misled' = (misled \/ derived)
  /\ depth' = depth + 1
  /\ UNCHANGED <<mix, exact>>

Next ==
  \/ \E op \in mix.operators \cap {"neg", "~", "!"} : ApplyUnary(op)
  \/ \E op \in mix.operators \cap (Arithmetics \cup Bitwises \cup Comparisons) :
       ApplyBinary(op)
  \/ \E op \in mix.operators \cap {"&&", "||"} : ApplyLogical(op)
  \/ \E op \in mix.operators \cap {"<<", ">>"} : ApplyShift(op)
  \/ "cast" \in mix.operators /\ \E ty \in mix.types : ApplyCast(ty)

Spec == Init /\ [][Next]_vars

---------------------------------------------------------------------------
(***************************************************************************)
(* Everything said of an expression is true of its value: the range of its *)
(* bits, read as an unsigned and as a signed number, and each bit known to *)
(* be zero or known to be one.  What is said after several operators rests *)
(* on every one of them, on where each can wrap and on how a signed range  *)
(* becomes one of bits and back; it is what lets known-bits folding put a  *)
(* literal in place of the expression.  It is not so of an expression that *)
(* was misled, and the bits are not those of the value where they are a    *)
(* range's.                                                                *)
(***************************************************************************)
FactsHold ==
  ~misled =>
    /\ Holds(facts.u, Unread(t, value))
    /\ Holds(facts.s, AsSigned(t, value))
    /\ ~derived => BitsHold(facts, t, value)

\* Whatever a mask proof claims of value & mask is so: that it is zero, that
\* it is value itself, and the bits it gives the masked value; unless the bits
\* it reads are a range's, as those of x + 1 mostly are.
MaskProofsHold ==
  ~misled /\ ~derived /\ t # "bool" =>
    \A mask \in SUBSET mask_for_width(facts.w) :
      LET p == mask_proof(facts, mask)
          ones == BitsOf(Unread(t, value), facts.w)
      IN  /\ p.proves_zero => ones \cap mask = {}
          /\ p.proves_identity => ones \subseteq mask
          /\ BitsHold(p.result, t, ValueOf(ones \cap mask))

\* An expression of literals alone is known exactly, and truly: no operator
\* forgets what its operands fix, so folding reaches the literal the expression
\* stands for. It makes no exception: one number is never misread.
LiteralsStayExact ==
  exact =>
    /\ IsExact(facts)
    /\ facts.u.min = Unread(t, value)

===============================================================================

---------------------------- MODULE TbirArithmetic ----------------------------
(***************************************************************************)
(* The integers of a program: the types of src/ast.rs with their widths,   *)
(* numbers as the sets of their bits, and what each operator computes.     *)
(* The arithmetic is the language's promise, as it is in TbirMeaning.  No  *)
(* operator here is recursive, so that ValueFacts can be reasoned about.   *)
(***************************************************************************)
EXTENDS Integers, FiniteSetsExt

\* The bits of a byte.
CONSTANT ByteBits

\* A signed byte has a sign bit and at least one other.
ASSUME ByteBitsAssumption == ByteBits \in Nat /\ ByteBits > 1

---------------------------------------------------------------------------
\* Integer types.  A byte has ByteBits bits: 8 in the compiler, fewer in an
\* instance small enough to try every input; u20 and i20 have two bytes and a
\* half.  Types other than these have no width: pointers and the type of a bare
\* literal.

Bits(t) ==
  CASE t \in {"u8", "i8"}   -> ByteBits
    [] t \in {"u16", "i16"} -> 2 * ByteBits
    [] t \in {"u20", "i20"} -> (5 * ByteBits) \div 2
    [] t \in {"u24", "i24"} -> 3 * ByteBits
    [] t \in {"u32", "i32"} -> 4 * ByteBits
    [] OTHER                -> 0

Signed(t) == t \in {"i8", "i16", "i20", "i24", "i32"}

type_is_unsigned_integer(t) == t \in {"u8", "u16", "u20", "u24", "u32"}

typed_integer_mask(t) == 2 ^ Bits(t) - 1

\* The value of type t that is v modulo the width of t.
Wrap(t, v) ==
  LET low == v % 2 ^ Bits(t)
  IN  CASE Bits(t) = 0 -> v
        [] Signed(t) /\ low >= 2 ^ (Bits(t) - 1) -> low - 2 ^ Bits(t)
        [] OTHER -> low

\* The bits of a value of type t, as a natural number.
Raw(t, v) == v % 2 ^ Bits(t)

---------------------------------------------------------------------------
\* A natural number and the set of its bits.

ValueOf(bits) == MapThenSumSet(LAMBDA i : 2 ^ i, bits)

BitsOf(v, w) == {i \in 0 .. w - 1 : (v \div 2 ^ i) % 2 = 1}

---------------------------------------------------------------------------
\* Arithmetic of type t; "" is the type of an expression of bare literals.

Width(t) == IF t = "" THEN 4 * ByteBits ELSE Bits(t)

Quotient(l, r) ==
  CASE r = 0 -> 0
    [] r > 0 -> IF l >= 0 THEN l \div r ELSE -((-l) \div r)
    [] OTHER -> IF l >= 0 THEN -(l \div (-r)) ELSE (-l) \div (-r)

ShiftLeft(t, l, r) == IF r \in 0 .. 4 * ByteBits THEN (l % 2 ^ Width(t)) * 2 ^ r ELSE 0

ShiftRight(l, r) ==
  IF r \in 0 .. 4 * ByteBits THEN l \div 2 ^ r ELSE IF l < 0 THEN -1 ELSE 0

Conjoined(op, a, b) ==
  CASE op = "&" -> a \cap b
    [] op = "|" -> a \cup b
    [] op = "^" -> (a \ b) \cup (b \ a)

Arith(op, t, l, r) ==
  Wrap(t, CASE op = "+" -> l + r
            [] op = "-" -> l - r
            [] op = "*" -> l * r
            [] op = "/" -> Quotient(l, r)
            [] op = "%" -> IF r = 0 THEN 0 ELSE l - r * Quotient(l, r)
            [] op = "<<" -> ShiftLeft(t, l, r)
            [] op = ">>" -> ShiftRight(l, r)
            [] op \in {"&", "|", "^"} -> ValueOf(Conjoined(op, BitsOf(l, Width(t)), BitsOf(r, Width(t)))))

Compare(op, l, r) ==
  CASE op = "==" -> l = r
    [] op = "!=" -> l # r
    [] op = "<" -> l < r
    [] op = "<=" -> l <= r
    [] op = ">" -> l > r
    [] op = ">=" -> l >= r

Comparisons == {"==", "!=", "<", "<=", ">", ">="}

Bit(b) == IF b THEN 1 ELSE 0

===============================================================================

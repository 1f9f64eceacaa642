------------------------------ MODULE TbirRange ------------------------------
(***************************************************************************)
(* The value facts of src/tbir/range.rs: what is known, without running    *)
(* it, of the bits an expression can have.  Facts are [w, sg, u, s, z, o]: *)
(* the width (0 when the expression is no supported integer), whether it   *)
(* is signed, the range of the bits read as an unsigned and as a signed    *)
(* number, and the bits known to be zero and one.  The code's bit masks    *)
(* are sets of bit numbers here.  Effects are left out: nothing asks for   *)
(* the facts of an expression that has any (range_expression_is_local).    *)
(***************************************************************************)
EXTENDS TbirArithmetic

Interval(lo, hi) == [min |-> lo, max |-> hi]

is_singleton(r) == r.min = r.max

Holds(r, v) == r.min <= v /\ v <= r.max

---------------------------------------------------------------------------
\* Bit masks

mask_for_width(w) == 0 .. w - 1

Low(bits, w) == bits \cap mask_for_width(w)

Left(bits, n) == {i + n : i \in bits}

Right(bits, n) == {i - n : i \in {i \in bits : i >= n}}

---------------------------------------------------------------------------
\* Facts of one value

Scalar(w, sg) == [w |-> w, sg |-> sg]

\* bool is one unsigned bit; a type with no width has no scalar.
scalar_type(t) == IF t = "bool" THEN Scalar(1, FALSE) ELSE Scalar(Bits(t), Signed(t))

HasScalar(t) == scalar_type(t).w # 0

signed_bounds(sc) ==
  IF sc.w = 1 THEN Interval(0, 1) ELSE Interval(-(2 ^ (sc.w - 1)), 2 ^ (sc.w - 1) - 1)

unknown == [w |-> 0, sg |-> FALSE, u |-> Interval(0, 0), s |-> Interval(0, 0), z |-> {}, o |-> {}]

signed_range_for_known_bits(sc, z, o) ==
  LET lo == ValueOf(o)
      hi == ValueOf(mask_for_width(sc.w) \ z)
  IN  CASE sc.w = 1 \/ sc.w - 1 \in z -> Interval(lo, hi)
        [] sc.w > 1 /\ sc.w - 1 \in o -> Interval(lo - 2 ^ sc.w, hi - 2 ^ sc.w)
        [] OTHER -> signed_bounds(sc)

\* A bit said to be both is taken to be one.
facts_from_known_bits(sc, zero, one) ==
  LET o == Low(one, sc.w)
      z == Low(zero, sc.w) \ o
  IN  [w |-> sc.w, sg |-> sc.sg, z |-> z, o |-> o,
       u |-> Interval(ValueOf(o), ValueOf(mask_for_width(sc.w) \ z)),
       s |-> signed_range_for_known_bits(sc, z, o)]

full_facts(sc) == facts_from_known_bits(sc, {}, {})

unknown_for_type(t) == IF HasScalar(t) THEN full_facts(scalar_type(t)) ELSE unknown

facts_from_raw_value(sc, v) ==
  LET raw == BitsOf(v % 2 ^ sc.w, sc.w)
  IN  facts_from_known_bits(sc, mask_for_width(sc.w) \ raw, raw)

\* The bits every number of lo .. hi shares: those above which lo and hi agree.
common_bits_for_raw_interval(lo, hi, w) ==
  {i \in 0 .. w - 1 : lo \div 2 ^ (i + 1) = hi \div 2 ^ (i + 1)}

signed_range_for_raw(sc, raw) ==
  CASE sc.w = 1 \/ raw.max < 2 ^ (sc.w - 1) -> raw
    [] sc.w > 1 /\ raw.min >= 2 ^ (sc.w - 1) -> Interval(raw.min - 2 ^ sc.w, raw.max - 2 ^ sc.w)
    [] OTHER -> signed_bounds(sc)

\* The lower end of the range gives the shared bits their values.
facts_from_raw_range(sc, r) ==
  LET shared == common_bits_for_raw_interval(r.min, r.max, sc.w)
      ones == shared \cap BitsOf(r.min, sc.w)
  IN  [facts_from_known_bits(sc, shared \ ones, ones)
         EXCEPT !.u = r, !.s = signed_range_for_raw(sc, r)]

facts_from_signed_range(sc, r) ==
  LET raw == CASE r.max < 0 -> Interval(r.min + 2 ^ sc.w, r.max + 2 ^ sc.w)
               [] r.min >= 0 -> r
               [] OTHER -> Interval(0, 2 ^ sc.w - 1)
  IN  [facts_from_raw_range(sc, raw) EXCEPT !.s = r]

is_known_zero(f) == f.w # 0 /\ f.u = Interval(0, 0)

is_known_nonzero(f) == f.w # 0 /\ f.u.min > 0

active_range(f, signed) == IF signed THEN f.s ELSE f.u

bool_scalar == Scalar(1, FALSE)

bool_fact(b) == facts_from_raw_value(bool_scalar, IF b THEN 1 ELSE 0)

---------------------------------------------------------------------------
\* Unary operators

negate_facts(f, sc) ==
  LET signed == Interval(-f.s.max, -f.s.min)
      m == 2 ^ sc.w
      raw == Interval((m - f.u.max) % m, (m - f.u.min) % m)
      b == signed_bounds(sc)
  IN  CASE f.w # 0 /\ is_singleton(f.u) -> facts_from_raw_value(sc, -f.u.min)
        [] f.w # 0 /\ ~is_singleton(f.u) /\ sc.sg /\ signed.min >= b.min /\ signed.max <= b.max ->
             facts_from_signed_range(sc, signed)
        [] f.w # 0 /\ ~is_singleton(f.u) /\ ~sc.sg /\ f.u.max <= m - f.u.min /\ raw.min <= raw.max ->
             facts_from_raw_range(sc, raw)
        [] OTHER -> full_facts(sc)

unary_facts(op, f, t) ==
  CASE ~HasScalar(t) -> unknown
    [] HasScalar(t) /\ op = "~" -> facts_from_known_bits(scalar_type(t), f.o, f.z)
    [] HasScalar(t) /\ op = "-" -> negate_facts(f, scalar_type(t))
    [] HasScalar(t) /\ op = "!" ->
         CASE is_known_zero(f) -> bool_fact(TRUE)
           [] is_known_nonzero(f) -> bool_fact(FALSE)
           [] OTHER -> full_facts(bool_scalar)

---------------------------------------------------------------------------
\* Comparisons and conjunctions

logical_facts(l, op, r) ==
  LET stop == IF op = "&&" THEN is_known_zero(l) \/ is_known_zero(r)
              ELSE is_known_nonzero(l) \/ is_known_nonzero(r)
      go == IF op = "&&" THEN is_known_nonzero(l) /\ is_known_nonzero(r)
            ELSE is_known_zero(l) /\ is_known_zero(r)
  IN  CASE stop -> bool_fact(op = "||")
        [] ~stop /\ go -> bool_fact(op = "&&")
        [] OTHER -> full_facts(bool_scalar)

\* The left operand decides whether the comparison is signed.
comparison_facts(l, op, r) ==
  LET a == active_range(l, l.sg)
      b == active_range(r, l.sg)
      apart == a.max < b.min \/ a.min > b.max
      same == is_singleton(a) /\ is_singleton(b) /\ a.min = b.min
      yes == CASE op = "<" -> a.max < b.min [] op = "<=" -> a.max <= b.min
               [] op = ">" -> a.min > b.max [] op = ">=" -> a.min >= b.max
               [] op = "==" -> same [] op = "!=" -> apart
      no == CASE op = "<" -> a.min >= b.max [] op = "<=" -> a.min > b.max
              [] op = ">" -> a.max <= b.min [] op = ">=" -> a.max < b.min
              [] op = "==" -> apart [] op = "!=" -> same
  IN  CASE l.w = 0 \/ r.w = 0 -> full_facts(bool_scalar)
        [] l.w # 0 /\ r.w # 0 /\ yes -> bool_fact(TRUE)
        [] l.w # 0 /\ r.w # 0 /\ ~yes /\ no -> bool_fact(FALSE)
        [] OTHER -> full_facts(bool_scalar)

---------------------------------------------------------------------------
\* Arithmetic

bitwise_facts(l, r, sc, op) ==
  CASE op = "&" -> facts_from_known_bits(sc, l.z \cup r.z, l.o \cap r.o)
    [] op = "|" -> facts_from_known_bits(sc, l.z \cap r.z, l.o \cup r.o)
    [] op = "^" -> facts_from_known_bits(sc, (l.z \cap r.z) \cup (l.o \cap r.o),
                                         (l.z \cap r.o) \cup (l.o \cap r.z))

\* The host's division truncates toward zero; by zero is zero.
Truncated(l, r) ==
  CASE r = 0 -> 0
    [] r > 0 -> IF l >= 0 THEN l \div r ELSE -((-l) \div r)
    [] OTHER -> IF l >= 0 THEN -(l \div (-r)) ELSE (-l) \div (-r)

exact_arithmetic(l, r, op) ==
  CASE op = "+" -> l + r
    [] op = "-" -> l - r
    [] op = "*" -> l * r
    [] op = "/" -> Truncated(l, r)
    [] op = "%" -> IF r = 0 THEN 0 ELSE l - r * Truncated(l, r)

\* The results at the four corners bound the others, unless one of them does
\* not fit within bounds: then the operation may wrap.
Corners(a, b, op) ==
  {exact_arithmetic(x, y, op) : x \in {a.min, a.max}, y \in {b.min, b.max}}

Fits(values, bounds) == \A v \in values : Holds(bounds, v)

Hull(values) == Interval(Min(values), Max(values))

unsigned_arithmetic(l, r, op, sc) ==
  LET corners == Corners(l.u, r.u, op)
      bounds == Interval(0, 2 ^ sc.w - 1)
  IN  CASE l.w = 0 \/ r.w = 0 -> full_facts(sc)
        [] l.w # 0 /\ r.w # 0 /\ op \in {"+", "-", "*"} ->
             IF Fits(corners, bounds) THEN facts_from_raw_range(sc, Hull(corners)) ELSE full_facts(sc)
        [] l.w # 0 /\ r.w # 0 /\ op \in {"/", "%"} ->
             CASE r.u.min <= 0 -> full_facts(sc)
               [] r.u.min > 0 /\ op = "/" ->
                    facts_from_raw_range(sc, Interval(l.u.min \div r.u.max, l.u.max \div r.u.min))
               [] r.u.min > 0 /\ op = "%" -> facts_from_raw_range(sc, Interval(0, r.u.max - 1))

signed_arithmetic(l, r, op, sc) ==
  LET corners == Corners(l.s, r.s, op)
      size == Max({Max({v, -v}) : v \in {r.s.min, r.s.max}})
  IN  CASE l.w = 0 \/ r.w = 0 -> full_facts(sc)
        [] l.w # 0 /\ r.w # 0 /\ (op \in {"+", "-", "*"} \/ (op = "/" /\ ~Holds(r.s, 0))) ->
             IF Fits(corners, signed_bounds(sc)) THEN facts_from_signed_range(sc, Hull(corners))
             ELSE full_facts(sc)
        [] l.w # 0 /\ r.w # 0 /\ op = "%" /\ ~Holds(r.s, 0) ->
             facts_from_signed_range(sc, Interval(-(size - 1), size - 1))
        [] l.w # 0 /\ r.w # 0 /\ op \in {"/", "%"} /\ Holds(r.s, 0) ->
             IF r.s = Interval(0, 0) THEN facts_from_signed_range(sc, r.s) ELSE full_facts(sc)

\* A mutant: two known operands are treated as two ranges.
arithmetic_ranges(l, r, op, sc) ==
  IF sc.sg THEN signed_arithmetic(l, r, op, sc) ELSE unsigned_arithmetic(l, r, op, sc)

arithmetic_facts(l, r, op, sc) ==
  LET a == active_range(l, sc.sg)
      b == active_range(r, sc.sg)
  IN  IF l.w # 0 /\ r.w # 0 /\ is_singleton(a) /\ is_singleton(b)
      THEN facts_from_raw_value(sc, exact_arithmetic(a.min, b.min, op))
      ELSE IF sc.sg THEN signed_arithmetic(l, r, op, sc) ELSE unsigned_arithmetic(l, r, op, sc)

---------------------------------------------------------------------------
\* Shifts

\* What the range of the count proves of a shift of f.
shift_proof(f, count) ==
  LET r == active_range(count, count.sg)
  IN  [definitely_overshift |-> count.w # 0 /\ r.min >= f.w,
       definitely_in_range |-> count.w # 0 /\ r.min >= 0 /\ r.max < f.w,
       count_range |-> r]

AllZero(sc) == facts_from_known_bits(sc, mask_for_width(sc.w), {})

AllOne(sc) == facts_from_known_bits(sc, {}, mask_for_width(sc.w))

\* The bits a right shift by n brings in.
high_mask(sc, n) == {i \in mask_for_width(sc.w) : i >= sc.w - n}

\* A mutant: a right shift always brings zeros in.
logical_shift(f, n, right, sc) ==
  IF right THEN facts_from_known_bits(sc, Right(f.z, n) \cup high_mask(sc, n), Right(f.o, n))
  ELSE facts_from_known_bits(sc, Left(f.z, n) \cup (0 .. n - 1), Left(f.o, n))

fixed_shift(f, n, right, sc) ==
  LET in == high_mask(sc, n)
      z == Right(f.z, n)
      o == Right(f.o, n)
  IN  CASE ~right -> facts_from_known_bits(sc, Left(f.z, n) \cup (0 .. n - 1), Left(f.o, n))
        [] right /\ (~sc.sg \/ sc.w - 1 \in f.z) -> facts_from_known_bits(sc, z \cup in, o)
        [] right /\ sc.sg /\ sc.w - 1 \notin f.z /\ sc.w - 1 \in f.o ->
             facts_from_known_bits(sc, z, o \cup in)
        [] OTHER -> facts_from_known_bits(sc, z, o)

over_shift(f, right, sc) ==
  CASE ~right \/ ~sc.sg \/ sc.w - 1 \in f.z -> AllZero(sc)
    [] right /\ sc.sg /\ sc.w - 1 \notin f.z /\ sc.w - 1 \in f.o -> AllOne(sc)
    [] OTHER -> full_facts(sc)

\* A count that is not one number shifts a left shift's zeros by the least.
variable_shift(f, r, right, sc) ==
  CASE is_known_zero(f) -> AllZero(sc)
    [] ~is_known_zero(f) /\ ~right ->
         facts_from_known_bits(sc, Left(f.z, r.min) \cup (0 .. r.min - 1), {})
    [] OTHER -> full_facts(sc)

shift_facts(f, count, right, sc) ==
  LET proof == shift_proof(f, count)
      r == proof.count_range
  IN  CASE proof.definitely_overshift -> over_shift(f, right, sc)
        [] proof.definitely_in_range ->
             IF is_singleton(r) THEN fixed_shift(f, r.min, right, sc)
             ELSE variable_shift(f, r, right, sc)
        [] OTHER -> full_facts(sc)

---------------------------------------------------------------------------
\* What known facts prove of value & mask.

\* A mutant: a bit not known to be one is taken for a zero.
lax_mask_proof(f, mask) ==
  LET outside == mask_for_width(f.w) \ mask
  IN  [result |-> facts_from_known_bits(Scalar(f.w, f.sg), f.z \cup outside, f.o \cap mask),
       proves_zero |-> mask \subseteq f.z,
       proves_identity |-> outside \cap f.o = {}]

mask_proof(f, mask) ==
  LET outside == mask_for_width(f.w) \ mask
      low == mask # {} /\ mask = 0 .. Max(mask)
      aligned == {i \in mask_for_width(f.w) : 0 .. i \subseteq f.z}
  IN  [result |-> facts_from_known_bits(Scalar(f.w, f.sg), f.z \cup outside, f.o \cap mask),
       proves_zero |-> mask \subseteq f.z \/ (low /\ mask \subseteq aligned),
       proves_identity |-> outside \subseteq f.z]

---------------------------------------------------------------------------
\* Casts, and every binary operator

\* A wider target repeats the sign bit of a signed source when it is known.
cast_facts(f, t) ==
  LET sc == scalar_type(t)
      new == mask_for_width(sc.w) \ mask_for_width(f.w)
  IN  CASE ~HasScalar(t) -> unknown
        [] HasScalar(t) /\ f.w = 0 -> full_facts(sc)
        [] HasScalar(t) /\ f.w # 0 ->
             facts_from_known_bits(sc,
               IF ~f.sg \/ f.w - 1 \in f.z THEN f.z \cup new ELSE f.z,
               IF f.sg /\ f.w - 1 \in f.o THEN f.o \cup new ELSE f.o)

binary_facts(l, op, r, t) ==
  LET sc == scalar_type(t)
  IN  CASE op \in {"&&", "||"} -> logical_facts(l, op, r)
        [] op \in {"<", "<=", ">", ">=", "==", "!="} -> comparison_facts(l, op, r)
        [] op \in {"&", "|", "^"} /\ HasScalar(t) -> bitwise_facts(l, r, sc, op)
        [] op \in {"<<", ">>"} /\ HasScalar(t) -> shift_facts(l, r, op = ">>", sc)
        [] op \in {"+", "-", "*", "/", "%"} /\ HasScalar(t) -> arithmetic_facts(l, r, op, sc)
        [] OTHER -> unknown

===============================================================================

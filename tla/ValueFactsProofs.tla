--------------------------- MODULE ValueFactsProofs ---------------------------
(***************************************************************************)
(* Proofs about the value facts, for bytes of any width: what is known of  *)
(* an expression is true of its value, what a mask proof claims is so, and *)
(* an expression of literals stays known exactly.                          *)
(***************************************************************************)
EXTENDS ValueFacts, FiniteSetTheorems, WellFoundedInduction, TLAPS

---------------------------------------------------------------------------
(***************************************************************************)
(* Powers of two.  That a set of n members has 2^n subsets is all that the *)
(* library says of them.                                                   *)
(***************************************************************************)
LEMMA LeastNatural ==
  ASSUME NEW T \in SUBSET Nat, T # {}
  PROVE  \E x \in T : \A y \in T : x <= y
<1>1. PICK x \in T : \A y \in T : ~(<<y, x>> \in OpToRel(<, Nat))
  BY NatLessThanWellFounded, WFMin
<1>2. \A y \in T : ~(y < x)
  BY <1>1 DEF OpToRel
<1>3. \A y \in T : x <= y
  BY <1>2
<1> QED
  BY <1>3

LEMMA PowerCounts ==
  ASSUME NEW n \in Nat
  PROVE  /\ IsFiniteSet(SUBSET (1 .. n))
         /\ Cardinality(SUBSET (1 .. n)) = 2 ^ n
<1>1. IsFiniteSet(1 .. n) /\ Cardinality(1 .. n) = n
  BY FS_Interval
<1> QED
  BY <1>1, FS_SUBSET

LEMMA PowerDoubles ==
  ASSUME NEW n \in Nat
  PROVE  /\ 2 ^ n \in Nat \ {0}
         /\ 2 ^ (n + 1) = 2 * 2 ^ n
<1> DEFINE Old == SUBSET (1 .. n)
           New == {s \cup {n + 1} : s \in Old}
<1>1. IsFiniteSet(Old) /\ Cardinality(Old) = 2 ^ n
  BY PowerCounts
<1>2. Cardinality(SUBSET (1 .. n + 1)) = 2 ^ (n + 1)
  BY PowerCounts
<1>3. 2 ^ n \in Nat \ {0}
  <2>1. {} \in Old
    OBVIOUS
  <2>2. Cardinality(Old) \in Nat
    BY <1>1, FS_CardinalityType
  <2> QED
    BY <1>1, <2>1, <2>2, FS_EmptySet
<1>4. ExistsBijection(Old, New)
  <2> DEFINE f == [s \in Old |-> s \cup {n + 1}]
  <2>1. \A s \in Old : n + 1 \notin s
    OBVIOUS
  <2>2. \A s, u \in Old : f[s] = f[u] => s = u
    <3> SUFFICES ASSUME NEW s \in Old, NEW u \in Old, f[s] = f[u]
                 PROVE  s = u
      OBVIOUS
    <3>1. s \cup {n + 1} = u \cup {n + 1}
      OBVIOUS
    <3> QED
      BY <2>1, <3>1
  <2>3. f \in [Old -> New] /\ \A u \in New : \E s \in Old : f[s] = u
    OBVIOUS
  <2>4. f \in Bijection(Old, New)
    BY <2>2, <2>3, Zenon DEF Bijection, Injection, Surjection, IsInjective
  <2> QED
    BY <2>4 DEF ExistsBijection
<1>5. SUBSET (1 .. n + 1) = Old \cup New
  <2>1. ASSUME NEW s \in SUBSET (1 .. n + 1)
        PROVE  s \in Old \cup New
    <3>1. CASE n + 1 \in s
      <4>1. s = (s \ {n + 1}) \cup {n + 1} /\ s \ {n + 1} \in Old
        BY <3>1
      <4> QED
        BY <4>1
    <3>2. CASE n + 1 \notin s
      BY <3>2
    <3> QED
      BY <3>1, <3>2
  <2>2. ASSUME NEW s \in Old \cup New
        PROVE  s \in SUBSET (1 .. n + 1)
    OBVIOUS
  <2> HIDE DEF Old, New
  <2> QED
    BY <2>1, <2>2
<1>6. Old \cap New = {}
  OBVIOUS
<1>7. IsFiniteSet(New) /\ Cardinality(New) = 2 ^ n
  BY <1>1, <1>4, FS_Bijection
<1> HIDE DEF Old, New
<1>8. Cardinality(Old \cup New) = 2 ^ n + 2 ^ n - 0
  <2>1. Cardinality(Old \cap New) = 0
    BY <1>6, FS_EmptySet
  <2>2. Cardinality(Old \cup New) = Cardinality(Old) + Cardinality(New) - Cardinality(Old \cap New)
    BY <1>1, <1>7, FS_Union
  <2> QED
    BY <1>1, <1>7, <2>1, <2>2, Zenon
<1>9. 2 ^ (n + 1) = 2 ^ n + 2 ^ n - 0
  BY <1>2, <1>5, <1>8, Zenon
<1> QED
  BY <1>3, <1>9

LEMMA SmallPowers == 2 ^ 0 = 1 /\ 2 ^ 1 = 2
OBVIOUS

LEMMA PowerOfSum ==
  ASSUME NEW m \in Nat, NEW n \in Nat
  PROVE  2 ^ (m + n) = 2 ^ m * 2 ^ n
<1> DEFINE T == {k \in Nat : 2 ^ (m + k) # 2 ^ m * 2 ^ k}
<1>1. ASSUME T # {} PROVE FALSE
  <2>1. PICK k \in T : \A j \in T : k <= j
    BY <1>1, LeastNatural
  <2>2. k # 0
    <3>1. m + 0 = m /\ 2 ^ m \in Nat /\ 2 ^ m * 1 = 2 ^ m
      BY PowerDoubles
    <3>2. 2 ^ (m + 0) = 2 ^ m * 2 ^ 0
      BY <3>1, SmallPowers, Zenon
    <3> QED
      BY <2>1, <3>2
  <2>3. k - 1 \in Nat /\ k - 1 \notin T
    BY <2>1, <2>2
  <2>4. 2 ^ (m + (k - 1)) = 2 ^ m * 2 ^ (k - 1)
    BY <2>3
  <2>5. m + k = (m + (k - 1)) + 1 /\ k = (k - 1) + 1 /\ m + (k - 1) \in Nat
    BY <2>3
  <2>6. 2 ^ (m + k) = 2 * 2 ^ (m + (k - 1)) /\ 2 ^ k = 2 * 2 ^ (k - 1)
    BY <2>3, <2>5, PowerDoubles
  <2>7. 2 ^ m \in Nat /\ 2 ^ (k - 1) \in Nat
    BY <2>3, PowerDoubles
  <2>8. \A a, b \in Nat : 2 * (a * b) = a * (2 * b)
    BY SMTT(30)
  <2> QED
    BY <2>4, <2>6, <2>7, <2>8
<1> QED
  BY <1>1

LEMMA PowerGrows ==
  ASSUME NEW m \in Nat, NEW n \in Nat, m <= n
  PROVE  /\ 2 ^ m <= 2 ^ n
         /\ m < n => 2 * 2 ^ m <= 2 ^ n
<1>1. \A k \in Nat : 2 ^ m <= 2 ^ (m + k)
  <2> SUFFICES ASSUME NEW k \in Nat PROVE 2 ^ m <= 2 ^ (m + k)
    OBVIOUS
  <2>1. 2 ^ (m + k) = 2 ^ m * 2 ^ k /\ 2 ^ m \in Nat /\ 2 ^ k \in Nat \ {0}
    BY PowerOfSum, PowerDoubles
  <2>2. \A a \in Nat, b \in Nat \ {0} : a <= a * b
    BY SMTT(30)
  <2> QED
    BY <2>1, <2>2
<1>2. n = m + (n - m) /\ n - m \in Nat
  OBVIOUS
<1>3. ASSUME m < n PROVE 2 * 2 ^ m <= 2 ^ n
  <2>1. n - m - 1 \in Nat /\ n = (m + (n - m - 1)) + 1 /\ m + (n - m - 1) \in Nat
    BY <1>3
  <2>2. 2 ^ n = 2 * 2 ^ (m + (n - m - 1))
    BY <2>1, PowerDoubles
  <2>3. 2 ^ m <= 2 ^ (m + (n - m - 1)) /\ 2 ^ m \in Nat /\ 2 ^ (m + (n - m - 1)) \in Nat
    BY <1>1, <2>1, PowerDoubles
  <2> QED
    BY <2>2, <2>3
<1> QED
  BY <1>1, <1>2, <1>3

---------------------------------------------------------------------------
(***************************************************************************)
(* Quotients and remainders by a positive divisor, of negative numbers     *)
(* too: both round down.                                                   *)
(***************************************************************************)
LEMMA Division ==
  ASSUME NEW a \in Int, NEW d \in Nat \ {0}
  PROVE  /\ a \div d \in Int
         /\ a % d \in Int
         /\ a % d \in 0 .. d - 1
         /\ a = d * (a \div d) + (a % d)
BY SMTT(30)

LEMMA DivisionUnique ==
  ASSUME NEW d \in Nat \ {0}, NEW q \in Int, NEW r \in 0 .. d - 1
  PROVE  /\ (d * q + r) \div d = q
         /\ (d * q + r) % d = r
BY SMTT(30)

LEMMA QuotientOfQuotient ==
  ASSUME NEW a \in Int, NEW d \in Nat \ {0}, NEW e \in Nat \ {0}
  PROVE  (a \div d) \div e = a \div (d * e)
<1> DEFINE q == a \div d
           r == a % d
           p == q \div e
           s == q % e
<1>1. q \in Int /\ r \in 0 .. d - 1 /\ a = d * q + r
  BY Division
<1>2. p \in Int /\ s \in 0 .. e - 1 /\ q = e * p + s
  BY <1>1, Division
<1> HIDE DEF q, r, p, s
<1>3. a = (d * e) * p + (d * s + r)
  BY <1>1, <1>2, SMTT(30)
<1>4. d * s + r \in 0 .. d * e - 1 /\ d * e \in Nat \ {0}
  <2>1. d * s <= d * (e - 1) /\ 0 <= d * s
    BY <1>2, SMTT(30)
  <2>2. d * (e - 1) = d * e - d /\ d * e \in Int /\ d * s \in Int
    BY <1>2, SMTT(30)
  <2> QED
    BY <1>1, <1>2, <2>1, <2>2
<1>5. a \div (d * e) = p
  BY <1>2, <1>3, <1>4, DivisionUnique
<1> QED
  BY <1>5 DEF p, q

---------------------------------------------------------------------------
(***************************************************************************)
(* The bits of a number.  A negative number has infinitely many: those of  *)
(* its two's complement.                                                   *)
(***************************************************************************)
HasBit(v, i) == (v \div 2 ^ i) % 2 = 1

LEMMA BitsAreBits ==
  ASSUME NEW v, NEW w
  PROVE  BitsOf(v, w) = {i \in 0 .. w - 1 : HasBit(v, i)}
BY DEF BitsOf, HasBit

\* A multiple of 2 * 2 ^ i leaves bit i as it is.
LEMMA ParityKept ==
  ASSUME NEW P \in Nat \ {0}, NEW a \in Int, NEW m \in Int
  PROVE  ((2 * P) * m + a) \div P = 2 * m + a \div P
<1> DEFINE q == a \div P
           r == a % P
<1>1. q \in Int /\ r \in 0 .. P - 1 /\ a = P * q + r
  BY Division
<1> HIDE DEF q, r
<1>2. (2 * P) * m + a = P * (2 * m + q) + r
  BY <1>1, SMTT(30)
<1>3. 2 * m + q \in Int
  BY <1>1
<1>4. ((2 * P) * m + a) \div P = 2 * m + q
  BY <1>1, <1>2, <1>3, DivisionUnique
<1> QED
  BY <1>4 DEF q

LEMMA BitBelowMultiple ==
  ASSUME NEW i \in Nat, NEW w \in Nat, i < w, NEW a \in Int, NEW m \in Int
  PROVE  HasBit(2 ^ w * m + a, i) <=> HasBit(a, i)
<1> DEFINE P == 2 ^ i
           K == 2 ^ (w - i - 1)
<1>1. w - i - 1 \in Nat /\ w = (i + 1) + (w - i - 1) /\ i + 1 \in Nat
  OBVIOUS
<1>2. 2 ^ w = (2 * P) * K /\ P \in Nat \ {0} /\ K \in Nat
  <2>1. 2 ^ w = 2 ^ (i + 1) * K
    BY <1>1, PowerOfSum
  <2> QED
    BY <1>1, <2>1, PowerDoubles
<1>3. HasBit(2 ^ w * m + a, i) <=> ((2 ^ w * m + a) \div P) % 2 = 1
  BY DEF HasBit
<1>4. HasBit(a, i) <=> (a \div P) % 2 = 1
  BY DEF HasBit
<1> HIDE DEF P, K
<1>5. 2 ^ w * m + a = (2 * P) * (K * m) + a /\ K * m \in Int
  BY <1>2, SMTT(30)
<1>6. (2 ^ w * m + a) \div P = 2 * (K * m) + a \div P
  BY <1>2, <1>5, ParityKept
<1>7. a \div P \in Int
  BY <1>2, Division
<1>8. \A x, y \in Int : (2 * x + y) % 2 = y % 2
  BY SMTT(30)
<1> QED
  BY <1>3, <1>4, <1>5, <1>6, <1>7, <1>8

LEMMA BitOfRemainder ==
  ASSUME NEW i \in Nat, NEW w \in Nat, i < w, NEW v \in Int
  PROVE  HasBit(v % 2 ^ w, i) <=> HasBit(v, i)
<1>1. 2 ^ w \in Nat \ {0}
  BY PowerDoubles
<1>2. v \div 2 ^ w \in Int /\ v % 2 ^ w \in Int /\ v = 2 ^ w * (v \div 2 ^ w) + (v % 2 ^ w)
  BY <1>1, Division, Zenon
<1>3. HasBit(2 ^ w * (v \div 2 ^ w) + (v % 2 ^ w), i) <=> HasBit(v % 2 ^ w, i)
  BY <1>2, BitBelowMultiple
<1> QED
  BY <1>2, <1>3

LEMMA BitOfQuotient ==
  ASSUME NEW i \in Nat, NEW n \in Nat, NEW v \in Int
  PROVE  HasBit(v \div 2 ^ n, i) <=> HasBit(v, n + i)
<1>1. 2 ^ i \in Nat \ {0} /\ 2 ^ n \in Nat \ {0} /\ 2 ^ (n + i) = 2 ^ n * 2 ^ i
  BY PowerDoubles, PowerOfSum
<1>2. (v \div 2 ^ n) \div 2 ^ i = v \div (2 ^ n * 2 ^ i)
  BY <1>1, QuotientOfQuotient
<1> QED
  BY <1>1, <1>2, Zenon DEF HasBit

LEMMA BitOfProduct ==
  ASSUME NEW i \in Nat, NEW n \in Nat, NEW v \in Int
  PROVE  HasBit(v * 2 ^ n, i) <=> i >= n /\ HasBit(v, i - n)
<1>1. CASE i >= n
  <2>1. i - n \in Nat /\ i = n + (i - n)
    BY <1>1
  <2>2. 2 ^ n \in Nat \ {0} /\ v * 2 ^ n \in Int
    BY PowerDoubles
  <2>3. HasBit((v * 2 ^ n) \div 2 ^ n, i - n) <=> HasBit(v * 2 ^ n, n + (i - n))
    BY <2>1, <2>2, BitOfQuotient
  <2>4. (v * 2 ^ n) \div 2 ^ n = v
    <3>1. v * 2 ^ n = 2 ^ n * v + 0 /\ 0 \in 0 .. 2 ^ n - 1
      BY <2>2
    <3> QED
      BY <2>2, <3>1, DivisionUnique
  <2>5. HasBit(v, i - n) <=> HasBit(v * 2 ^ n, i)
    BY <2>1, <2>3, <2>4, Zenon
  <2> QED
    BY <1>1, <2>5
<1>2. CASE i < n
  <2>1. v * 2 ^ n = 2 ^ n * v + 0
    BY PowerDoubles
  <2>2. HasBit(2 ^ n * v + 0, i) <=> HasBit(0, i)
    BY <1>2, BitBelowMultiple, 0 \in Int, Zenon
  <2>3. ~HasBit(0, i)
    <3>1. 2 ^ i \in Nat \ {0} /\ 0 = 2 ^ i * 0 + 0 /\ 0 \in 0 .. 2 ^ i - 1
      BY PowerDoubles
    <3>2. 0 \div 2 ^ i = 0
      BY <3>1, DivisionUnique
    <3>3. 0 % 2 # 1
      OBVIOUS
    <3> QED
      BY <3>2, <3>3, Zenon DEF HasBit
  <2>4. ~(i >= n)
    BY <1>2
  <2> QED
    BY <2>1, <2>2, <2>3, <2>4, Zenon
<1> QED
  BY <1>1, <1>2

LEMMA BitOfComplement ==
  ASSUME NEW i \in Nat, NEW v \in Int
  PROVE  HasBit(-v - 1, i) <=> ~HasBit(v, i)
<1> DEFINE P == 2 ^ i
           q == v \div P
           r == v % P
<1>1. P \in Nat \ {0}
  BY PowerDoubles
<1>2. HasBit(v, i) <=> q % 2 = 1
  BY DEF HasBit
<1>3. HasBit(-v - 1, i) <=> ((-v - 1) \div P) % 2 = 1
  BY DEF HasBit
<1> HIDE DEF P
<1>4. q \in Int /\ r \in 0 .. P - 1 /\ v = P * q + r
  BY <1>1, Division
<1> HIDE DEF q, r
<1>5. -v - 1 = P * (-q - 1) + (P - 1 - r)
  BY <1>1, <1>4, SMTT(30)
<1>6. (-v - 1) \div P = -q - 1
  BY <1>1, <1>4, <1>5, DivisionUnique
<1>7. \A x \in Int : (-x - 1) % 2 = 1 <=> ~(x % 2 = 1)
  BY SMTT(30)
<1> QED
  BY <1>2, <1>3, <1>4, <1>6, <1>7

\* Beyond its width a number only has the bits of its sign.
LEMMA HighBits ==
  ASSUME NEW w \in Nat, NEW i \in Nat, i >= w, NEW v \in Int, -(2 ^ w) <= v, v < 2 ^ w
  PROVE  HasBit(v, i) <=> v < 0
<1> DEFINE P == 2 ^ i
<1>1. P \in Nat \ {0} /\ 2 ^ w \in Nat \ {0} /\ 2 ^ w <= P
  BY PowerDoubles, PowerGrows
<1>2. -P <= v /\ v < P
  BY <1>1
<1>3. HasBit(v, i) <=> (v \div P) % 2 = 1
  BY DEF HasBit
<1> HIDE DEF P
<1>4. CASE v < 0
  <2>1. v = P * (-1) + (v + P) /\ v + P \in 0 .. P - 1
    BY <1>1, <1>2, <1>4
  <2>2. v \div P = -1
    BY <1>1, <2>1, DivisionUnique
  <2> QED
    BY <1>3, <1>4, <2>2
<1>5. CASE v >= 0
  <2>1. v = P * 0 + v /\ v \in 0 .. P - 1
    BY <1>1, <1>2, <1>5
  <2>2. v \div P = 0
    BY <1>1, <2>1, DivisionUnique
  <2> QED
    BY <1>3, <1>5, <2>2
<1> QED
  BY <1>4, <1>5

LEMMA ConstantBits ==
  ASSUME NEW i \in Nat
  PROVE  ~HasBit(0, i) /\ HasBit(-1, i)
<1>1. \A v \in Int : -(2 ^ i) <= v /\ v < 2 ^ i => (HasBit(v, i) <=> v < 0)
  BY HighBits
<1>2. -(2 ^ i) <= 0 /\ 0 < 2 ^ i /\ -(2 ^ i) <= -1 /\ -1 < 2 ^ i
  BY PowerDoubles
<1>3. (HasBit(0, i) <=> 0 < 0) /\ (HasBit(-1, i) <=> -1 < 0)
  BY <1>1, <1>2, 0 \in Int, -1 \in Int, Zenon
<1>4. ~(0 < 0) /\ -1 < 0
  OBVIOUS
<1> QED
  BY <1>3, <1>4, Zenon

LEMMA TopBit ==
  ASSUME NEW w \in Nat, NEW v \in 0 .. 2 ^ (w + 1) - 1
  PROVE  HasBit(v, w) <=> v >= 2 ^ w
<1> DEFINE P == 2 ^ w
<1>1. P \in Nat \ {0} /\ 2 ^ (w + 1) = 2 * P
  BY PowerDoubles
<1>2. HasBit(v, w) <=> (v \div P) % 2 = 1
  BY DEF HasBit
<1>3. v \in Int /\ 0 <= v /\ v < 2 * P
  BY <1>1
<1> HIDE DEF P
<1>4. CASE v >= P
  <2>1. v = P * 1 + (v - P) /\ v - P \in 0 .. P - 1
    BY <1>1, <1>3, <1>4
  <2>2. v \div P = 1
    BY <1>1, <2>1, DivisionUnique
  <2>3. (1 % 2) = 1
    OBVIOUS
  <2> QED
    BY <1>2, <1>4, <2>2, <2>3, Zenon DEF P
<1>5. CASE v < P
  <2>1. v = P * 0 + v /\ v \in 0 .. P - 1
    BY <1>1, <1>3, <1>5
  <2>2. v \div P = 0
    BY <1>1, <2>1, DivisionUnique
  <2>3. ~(v >= P)
    BY <1>1, <1>3, <1>5
  <2> QED
    BY <1>2, <2>2, <2>3 DEF P
<1> QED
  BY <1>1, <1>3, <1>4, <1>5

---------------------------------------------------------------------------
(***************************************************************************)
(* The value of a set of bits: how many numbers there are in all of the    *)
(* intervals 2 ^ i .. 2 ^ (i + 1) - 1 of its members.                      *)
(***************************************************************************)
Covered(s) == {n \in Nat : \E i \in s : 2 ^ i <= n /\ n < 2 ^ (i + 1)}

Weight(s) == Cardinality(Covered(s))

LEMMA CoveredBounds ==
  ASSUME NEW w \in Nat, NEW s \in SUBSET (0 .. w - 1)
  PROVE  /\ Covered(s) \subseteq 1 .. 2 ^ w - 1
         /\ IsFiniteSet(Covered(s))
         /\ Weight(s) \in 0 .. 2 ^ w - 1
<1>1. ASSUME NEW n \in Covered(s) PROVE n \in 1 .. 2 ^ w - 1
  <2>1. PICK i \in s : 2 ^ i <= n /\ n < 2 ^ (i + 1)
    BY DEF Covered
  <2>2. i \in Nat /\ i + 1 \in Nat /\ i + 1 <= w /\ n \in Nat
    BY DEF Covered
  <2>3. 2 ^ (i + 1) <= 2 ^ w /\ 2 ^ i \in Nat \ {0} /\ 2 ^ (i + 1) \in Nat /\ 2 ^ w \in Nat
    BY <2>2, PowerGrows, PowerDoubles
  <2> QED
    BY <2>1, <2>2, <2>3
<1>2. 2 ^ w \in Nat \ {0}
  BY PowerDoubles
<1>3. IsFiniteSet(1 .. 2 ^ w - 1) /\ Cardinality(1 .. 2 ^ w - 1) = 2 ^ w - 1
  <2>1. 2 ^ w - 1 \in Int /\ 1 \in Int /\ ~(1 > 2 ^ w - 1 /\ 2 ^ w - 1 # 0)
    BY <1>2
  <2> QED
    BY <2>1, FS_Interval
<1>4. IsFiniteSet(Covered(s)) /\ Cardinality(Covered(s)) <= 2 ^ w - 1
  BY <1>1, <1>3, FS_Subset
<1> QED
  BY <1>1, <1>2, <1>4, FS_CardinalityType DEF Weight

LEMMA WeightOfMember ==
  ASSUME NEW w \in Nat, NEW s \in SUBSET (0 .. w - 1), NEW x \in s
  PROVE  Weight(s) = 2 ^ x + Weight(s \ {x})
<1> DEFINE Own == 2 ^ x .. 2 ^ (x + 1) - 1
<1>1. x \in Nat /\ x + 1 \in Nat /\ 2 ^ x \in Nat \ {0} /\ 2 ^ (x + 1) = 2 * 2 ^ x
  BY PowerDoubles
<1>2. IsFiniteSet(Own) /\ Cardinality(Own) = 2 ^ x
  <2>1. 2 ^ x \in Int /\ 2 ^ (x + 1) - 1 \in Int /\ ~(2 ^ x > 2 ^ (x + 1) - 1)
        /\ 2 ^ (x + 1) - 1 - 2 ^ x + 1 = 2 ^ x
    BY <1>1
  <2> QED
    BY <2>1, FS_Interval
<1>3. Covered(s) = Covered(s \ {x}) \cup Own
  <2>1. \A n : n \in Own <=> n \in Nat /\ 2 ^ x <= n /\ n < 2 ^ (x + 1)
    BY <1>1
  <2> QED
    BY <2>1, Zenon DEF Covered
<1>4. Covered(s \ {x}) \cap Own = {}
  <2> SUFFICES ASSUME NEW n \in Covered(s \ {x}), n \in Own PROVE FALSE
    OBVIOUS
  <2>1. PICK i \in s \ {x} : 2 ^ i <= n /\ n < 2 ^ (i + 1)
    BY DEF Covered
  <2>2. i \in Nat /\ i + 1 \in Nat /\ n \in Nat /\ i # x
    BY DEF Covered
  <2>3. 2 ^ i \in Nat /\ 2 ^ (i + 1) \in Nat
    BY <2>2, PowerDoubles
  <2>4. CASE i < x
    <3>1. 2 ^ (i + 1) <= 2 ^ x
      BY <1>1, <2>2, <2>4, PowerGrows
    <3> QED
      BY <1>1, <2>1, <2>2, <2>3, <3>1
  <2>5. CASE x < i
    <3>1. 2 ^ (x + 1) <= 2 ^ i
      BY <1>1, <2>2, <2>5, PowerGrows
    <3> QED
      BY <1>1, <2>1, <2>2, <2>3, <3>1
  <2> QED
    BY <1>1, <2>2, <2>4, <2>5
<1>5. IsFiniteSet(Covered(s \ {x})) /\ Weight(s \ {x}) \in Nat
  <2>1. s \ {x} \in SUBSET (0 .. w - 1)
    OBVIOUS
  <2>2. IsFiniteSet(Covered(s \ {x}))
    BY <2>1, CoveredBounds, Zenon
  <2> QED
    BY <2>2, FS_CardinalityType DEF Weight
<1>6. Cardinality(Covered(s \ {x}) \cap Own) = 0
  BY <1>4, FS_EmptySet
<1> HIDE DEF Own
<1>7. Cardinality(Covered(s \ {x}) \cup Own)
        = Cardinality(Covered(s \ {x})) + Cardinality(Own) - Cardinality(Covered(s \ {x}) \cap Own)
  BY <1>2, <1>5, FS_Union
<1>8. Weight(s) = Weight(s \ {x}) + 2 ^ x - 0
  BY <1>2, <1>3, <1>6, <1>7, Zenon DEF Weight
<1> QED
  BY <1>1, <1>5, <1>8

LEMMA WeightOfNone == Weight({}) = 0
<1>1. Covered({}) = {}
  BY DEF Covered
<1> QED
  BY <1>1, FS_EmptySet DEF Weight

\* What ValueOf computes does not depend on the order it takes the bits in.
LEMMA ValueIsWeight ==
  ASSUME NEW w \in Nat, NEW S \in SUBSET (0 .. w - 1)
  PROVE  ValueOf(S) = Weight(S)
<1> DEFINE Picked(s) == CHOOSE x \in s : TRUE
           Sums(h) == h = [s \in SUBSET S |-> IF s = {} THEN 0 ELSE 2 ^ Picked(s) + h[s \ {Picked(s)}]]
           g == CHOOSE h : Sums(h)
           weights == [s \in SUBSET S |-> Weight(s)]
<1>1. ValueOf(S) = g[S]
  BY DEF ValueOf, MapThenSumSet, MapThenFoldSet
<1>2. Sums(weights)
  <2>1. ASSUME NEW s \in SUBSET S
        PROVE  Weight(s) = IF s = {} THEN 0 ELSE 2 ^ Picked(s) + weights[s \ {Picked(s)}]
    <3>1. CASE s = {}
      BY <3>1, WeightOfNone
    <3>2. CASE s # {}
      <4>1. Picked(s) \in s
        BY <3>2
      <4>2. s \in SUBSET (0 .. w - 1)
        OBVIOUS
      <4>3. Weight(s) = 2 ^ Picked(s) + Weight(s \ {Picked(s)})
        BY <4>1, <4>2, WeightOfMember
      <4>4. weights[s \ {Picked(s)}] = Weight(s \ {Picked(s)})
        OBVIOUS
      <4> QED
        BY <3>2, <4>3, <4>4, Zenon
    <3> QED
      BY <3>1, <3>2
  <2> QED
    BY <2>1
<1>3. Sums(g)
  BY <1>2, Zenon
<1> HIDE DEF g, weights
<1> DEFINE Wrong == {n \in Nat : \E s \in SUBSET S : Cardinality(s) = n /\ g[s] # Weight(s)}
<1>4. ASSUME NEW s \in SUBSET S
      PROVE  IsFiniteSet(s) /\ Cardinality(s) \in Nat
  <2>1. IsFiniteSet(0 .. w - 1)
    BY FS_Interval
  <2>2. s \in SUBSET (0 .. w - 1)
    OBVIOUS
  <2> QED
    BY <2>1, <2>2, FS_Subset, FS_CardinalityType
<1>5. ASSUME Wrong # {} PROVE FALSE
  <2>1. PICK n \in Wrong : \A m \in Wrong : n <= m
    BY <1>5, LeastNatural
  <2>2. PICK s \in SUBSET S : Cardinality(s) = n /\ g[s] # Weight(s)
    BY <2>1
  <2>3. g[s] = IF s = {} THEN 0 ELSE 2 ^ Picked(s) + g[s \ {Picked(s)}]
    BY <1>3
  <2>4. s # {}
    BY <2>2, <2>3, WeightOfNone
  <2> DEFINE x == Picked(s)
  <2>5. x \in s
    BY <2>4
  <2>6. Cardinality(s \ {x}) = n - 1 /\ n - 1 \in Nat
    <3>1. IsFiniteSet(s) /\ Cardinality(s) \in Nat
      BY <1>4
    <3>2. Cardinality(s) # 0
      BY <2>4, <3>1, FS_EmptySet
    <3>3. Cardinality(s \ {x}) = Cardinality(s) - 1
      BY <2>5, <3>1, FS_RemoveElement
    <3> QED
      BY <2>2, <3>1, <3>2, <3>3
  <2>7. n - 1 \notin Wrong
    BY <2>1, <2>6
  <2>8. s \ {x} \in SUBSET S
    OBVIOUS
  <2>9. g[s \ {x}] = Weight(s \ {x})
    BY <2>6, <2>7, <2>8
  <2>10. Weight(s) = 2 ^ x + Weight(s \ {x})
    <3>1. s \in SUBSET (0 .. w - 1)
      OBVIOUS
    <3> QED
      BY <2>5, <3>1, WeightOfMember
  <2> QED
    BY <2>2, <2>3, <2>4, <2>9, <2>10, Zenon
<1>6. Cardinality(S) \in Nat
  BY <1>4
<1>7. g[S] = Weight(S)
  BY <1>5, <1>6
<1> QED
  BY <1>1, <1>7

LEMMA ValueOfMember ==
  ASSUME NEW w \in Nat, NEW s \in SUBSET (0 .. w - 1), NEW x \in s
  PROVE  ValueOf(s) = 2 ^ x + ValueOf(s \ {x})
<1>1. s \ {x} \in SUBSET (0 .. w - 1)
  OBVIOUS
<1> QED
  BY <1>1, ValueIsWeight, WeightOfMember, Zenon

LEMMA ValueOfRange ==
  ASSUME NEW w \in Nat, NEW s \in SUBSET (0 .. w - 1)
  PROVE  ValueOf(s) \in 0 .. 2 ^ w - 1
BY ValueIsWeight, CoveredBounds, Zenon

LEMMA ValueOfNone == ValueOf({}) = 0
<1>1. {} \in SUBSET (0 .. 0 - 1) /\ 0 \in Nat
  OBVIOUS
<1> QED
  BY <1>1, ValueIsWeight, WeightOfNone, Zenon

LEMMA ValueOfSubset ==
  ASSUME NEW w \in Nat, NEW u \in SUBSET (0 .. w - 1), NEW s \in SUBSET u
  PROVE  ValueOf(s) <= ValueOf(u)
<1>1. s \in SUBSET (0 .. w - 1)
  OBVIOUS
<1>2. Covered(s) \subseteq Covered(u)
  BY DEF Covered
<1>3. Weight(s) <= Weight(u)
  BY <1>2, CoveredBounds, FS_Subset DEF Weight
<1> QED
  BY <1>1, <1>3, ValueIsWeight, Zenon

(***************************************************************************)
(* From bits to a number and back.                                         *)
(***************************************************************************)
LEMMA BitsOfValue ==
  ASSUME NEW w \in Nat, NEW s \in SUBSET (0 .. w - 1)
  PROVE  BitsOf(ValueOf(s), w) = s
<1> DEFINE Right_(n) == \A u \in SUBSET (0 .. n - 1) : \A i \in 0 .. n - 1 : HasBit(ValueOf(u), i) <=> i \in u
           Wrong == {n \in Nat : ~Right_(n)}
<1>1. ASSUME Wrong # {} PROVE FALSE
  <2>1. PICK n \in Wrong : \A m \in Wrong : n <= m
    BY <1>1, LeastNatural
  <2>2. n # 0
    <3>1. Right_(0)
      OBVIOUS
    <3> QED
      BY <2>1, <3>1
  <2> DEFINE m == n - 1
  <2>3. m \in Nat /\ n = m + 1 /\ m \notin Wrong
    BY <2>1, <2>2
  <2>4. Right_(m)
    BY <2>3
  <2>5. PICK u \in SUBSET (0 .. n - 1), i \in 0 .. n - 1 : ~(HasBit(ValueOf(u), i) <=> i \in u)
    BY <2>1
  <2> HIDE DEF m
  <2>6. u \in SUBSET (0 .. (m + 1) - 1) /\ i \in 0 .. m /\ i \in Nat /\ (m + 1) \in Nat
    BY <2>3, <2>5
  <2>7. u \ {m} \in SUBSET (0 .. m - 1)
    BY <2>3, <2>6
  <2> DEFINE low == ValueOf(u \ {m})
  <2>8. low \in 0 .. 2 ^ m - 1 /\ 2 ^ m \in Nat \ {0} /\ 2 ^ (m + 1) = 2 * 2 ^ m
    BY <2>3, <2>7, ValueOfRange, PowerDoubles
  <2>9. i < m => (HasBit(low, i) <=> i \in u \ {m})
    <3>1. i < m => i \in 0 .. m - 1
      BY <2>3, <2>6
    <3> QED
      BY <2>4, <2>7, <3>1
  <2>10. CASE m \in u
    <3>1. ValueOf(u) = 2 ^ m + low
      BY <2>6, <2>10, ValueOfMember
    <3> HIDE DEF low
    <3>2. ValueOf(u) = 2 ^ m * 1 + low /\ low \in Int
      BY <2>8, <3>1
    <3>3. CASE i < m
      <4>1. HasBit(2 ^ m * 1 + low, i) <=> HasBit(low, i)
        BY <2>3, <2>6, <3>2, <3>3, BitBelowMultiple, 1 \in Int, Zenon
      <4>2. i \in u \ {m} <=> i \in u
        BY <2>3, <3>3
      <4> QED
        BY <2>5, <2>9, <3>2, <3>3, <4>1, <4>2, Zenon
    <3>4. CASE i = m
      <4>1. ValueOf(u) \in 0 .. 2 ^ (m + 1) - 1 /\ ValueOf(u) >= 2 ^ m
        BY <2>8, <3>1
      <4>2. HasBit(ValueOf(u), m)
        BY <2>3, <4>1, TopBit
      <4> QED
        BY <2>5, <2>10, <3>4, <4>2
    <3> QED
      BY <2>3, <2>6, <3>3, <3>4
  <2>11. CASE m \notin u
    <3>1. u \ {m} = u
      BY <2>11
    <3>0. ValueOf(u) = low
      BY <3>1, Zenon
    <3> HIDE DEF low
    <3>2. CASE i < m
      BY <2>5, <2>9, <3>0, <3>1, <3>2, Zenon
    <3>3. CASE i = m
      <4>1. ValueOf(u) \in 0 .. 2 ^ (m + 1) - 1 /\ ~(ValueOf(u) >= 2 ^ m)
        BY <2>8, <3>0
      <4>2. ~HasBit(ValueOf(u), m)
        BY <2>3, <4>1, TopBit
      <4> QED
        BY <2>5, <2>11, <3>3, <4>2
    <3> QED
      BY <2>3, <2>6, <3>2, <3>3
  <2> QED
    BY <2>10, <2>11
<1>2. Right_(w)
  BY <1>1
<1> QED
  BY <1>2, BitsAreBits

LEMMA ValueOfBits ==
  ASSUME NEW w \in Nat, NEW v \in 0 .. 2 ^ w - 1
  PROVE  ValueOf(BitsOf(v, w)) = v
<1> DEFINE Same(n) == \A x \in 0 .. 2 ^ n - 1 : ValueOf(BitsOf(x, n)) = x
           Wrong == {n \in Nat : ~Same(n)}
<1>1. ASSUME Wrong # {} PROVE FALSE
  <2>1. PICK n \in Wrong : \A m \in Wrong : n <= m
    BY <1>1, LeastNatural
  <2>2. n # 0
    <3>1. Same(0)
      <4> SUFFICES ASSUME NEW x \in 0 .. 2 ^ 0 - 1 PROVE ValueOf(BitsOf(x, 0)) = x
        OBVIOUS
      <4>1. x = 0
        BY SmallPowers
      <4>2. BitsOf(x, 0) = {}
        BY DEF BitsOf
      <4> QED
        BY <4>1, <4>2, ValueOfNone
    <3> QED
      BY <2>1, <3>1
  <2> DEFINE m == n - 1
  <2>3. m \in Nat /\ n = m + 1 /\ m \notin Wrong
    BY <2>1, <2>2
  <2>4. Same(m)
    BY <2>3
  <2>5. PICK x \in 0 .. 2 ^ n - 1 : ValueOf(BitsOf(x, n)) # x
    BY <2>1
  <2> HIDE DEF m
  <2>6. 2 ^ m \in Nat \ {0} /\ 2 ^ (m + 1) = 2 * 2 ^ m /\ (m + 1) \in Nat
    BY <2>3, PowerDoubles
  <2>7. x \in 0 .. 2 ^ (m + 1) - 1 /\ ValueOf(BitsOf(x, m + 1)) # x
    BY <2>3, <2>5
  <2>8. HasBit(x, m) <=> x >= 2 ^ m
    BY <2>3, <2>7, TopBit
  <2>9. \A i : i \in 0 .. (m + 1) - 1 <=> i = m \/ i \in 0 .. m - 1
    BY <2>3
  <2>10. CASE x >= 2 ^ m
    <3> DEFINE y == x - 2 ^ m
    <3>1. y \in 0 .. 2 ^ m - 1 /\ x = 2 ^ m * 1 + y /\ x = 2 ^ m + y /\ y \in Int
      BY <2>6, <2>7, <2>10
    <3> HIDE DEF y
    <3>2. \A i \in 0 .. m - 1 : HasBit(x, i) <=> HasBit(y, i)
      <4> SUFFICES ASSUME NEW i \in 0 .. m - 1 PROVE HasBit(x, i) <=> HasBit(y, i)
        OBVIOUS
      <4>1. i \in Nat /\ i < m
        BY <2>3
      <4> QED
        <5>1. HasBit(2 ^ m * 1 + y, i) <=> HasBit(y, i)
          BY <2>3, <3>1, <4>1, BitBelowMultiple, 1 \in Int, Zenon
        <5>2. x = 2 ^ m * 1 + y
          BY <3>1
        <5> QED
          BY <5>1, <5>2, Zenon
    <3>3. BitsOf(x, m + 1) = BitsOf(y, m) \cup {m}
      BY <2>8, <2>9, <2>10, <3>2, BitsAreBits, Zenon
    <3>4. BitsOf(y, m) \in SUBSET (0 .. m - 1) /\ m \notin 0 .. m - 1
      BY <2>3 DEF BitsOf
    <3>5. BitsOf(x, m + 1) \in SUBSET (0 .. (m + 1) - 1) /\ m \in BitsOf(x, m + 1)
          /\ BitsOf(x, m + 1) \ {m} = BitsOf(y, m)
      BY <2>9, <3>3, <3>4
    <3>6. ValueOf(BitsOf(x, m + 1)) = 2 ^ m + ValueOf(BitsOf(y, m))
      <4>1. ValueOf(BitsOf(x, m + 1)) = 2 ^ m + ValueOf(BitsOf(x, m + 1) \ {m})
        BY <2>6, <3>5, ValueOfMember, Zenon
      <4> QED
        BY <3>5, <4>1, Zenon
    <3> QED
      BY <2>4, <2>7, <3>1, <3>6
  <2>11. CASE ~(x >= 2 ^ m)
    <3>1. x \in 0 .. 2 ^ m - 1
      BY <2>6, <2>7, <2>11
    <3>2. BitsOf(x, m + 1) = BitsOf(x, m)
      BY <2>8, <2>9, <2>11, BitsAreBits, Zenon
    <3> QED
      BY <2>4, <2>7, <3>1, <3>2
  <2> QED
    BY <2>10, <2>11
<1>2. Same(w)
  BY <1>1
<1> QED
  BY <1>2

LEMMA BitsOfSubset ==
  ASSUME NEW w, NEW v
  PROVE  BitsOf(v, w) \in SUBSET (0 .. w - 1)
BY DEF BitsOf

LEMMA ValueOfAll ==
  ASSUME NEW w \in Nat
  PROVE  ValueOf(0 .. w - 1) = 2 ^ w - 1
<1> DEFINE v == 2 ^ w - 1
<1>1. 2 ^ w \in Nat \ {0}
  BY PowerDoubles
<1>2. v \in 0 .. 2 ^ w - 1
  BY <1>1
<1>3. BitsOf(v, w) \in SUBSET (0 .. w - 1) /\ ValueOf(BitsOf(v, w)) = v
  BY <1>2, ValueOfBits, BitsOfSubset
<1>4. 0 .. w - 1 \in SUBSET (0 .. w - 1)
  OBVIOUS
<1>5. v <= ValueOf(0 .. w - 1)
  BY <1>3, <1>4, ValueOfSubset
<1>6. ValueOf(0 .. w - 1) \in 0 .. 2 ^ w - 1
  BY <1>4, ValueOfRange
<1> QED
  BY <1>1, <1>5, <1>6

\* Two sets of bits with one value are one set.
LEMMA ValueOfInjective ==
  ASSUME NEW w \in Nat, NEW s \in SUBSET (0 .. w - 1), NEW u \in SUBSET (0 .. w - 1),
         ValueOf(s) = ValueOf(u)
  PROVE  s = u
BY BitsOfValue, Zenon

---------------------------------------------------------------------------
(***************************************************************************)
(* Types, and the values of each: raw is what its bits say as a natural    *)
(* number, and a signed value is that number less 2 ^ w when its top bit   *)
(* is one.                                                                 *)
(***************************************************************************)
Integral == {"u8", "i8", "u16", "i16", "u20", "i20", "u24", "i24", "u32", "i32"}

Types == Integral \cup {"bool"}

W(ty) == scalar_type(ty).w

SignedOf(w, raw) == IF w > 1 /\ raw >= 2 ^ (w - 1) THEN raw - 2 ^ w ELSE raw

LEMMA Widths ==
  /\ \A ty \in Integral :
       /\ scalar_type(ty) = Scalar(Bits(ty), Signed(ty))
       /\ W(ty) = Bits(ty) /\ scalar_type(ty).sg = Signed(ty)
       /\ W(ty) \in Nat /\ W(ty) > 1 /\ W(ty) <= 4 * ByteBits
       /\ ty # "bool" /\ HasScalar(ty) /\ Signed(ty) \in BOOLEAN
       /\ Width(ty) = W(ty)
  /\ scalar_type("bool") = bool_scalar /\ W("bool") = 1 /\ ~scalar_type("bool").sg
  /\ 4 * ByteBits \in Nat
BY ByteBitsAssumption
   DEF Integral, W, scalar_type, Scalar, Bits, Signed, HasScalar, bool_scalar, Width

LEMMA WidthOfType ==
  ASSUME NEW ty \in Types
  PROVE  /\ W(ty) \in Nat \ {0} /\ W(ty) - 1 \in Nat
         /\ 2 ^ W(ty) \in Nat \ {0} /\ 2 ^ (W(ty) - 1) \in Nat \ {0}
         /\ 2 ^ W(ty) = 2 * 2 ^ (W(ty) - 1)
         /\ scalar_type(ty) = Scalar(W(ty), scalar_type(ty).sg)
         /\ scalar_type(ty).sg \in BOOLEAN
         /\ ty # "bool" => ty \in Integral
<1>1. W(ty) \in Nat \ {0} /\ W(ty) - 1 \in Nat
  BY Widths DEF Types
<1>2. (W(ty) - 1) + 1 = W(ty)
  BY <1>1
<1>3. 2 ^ ((W(ty) - 1) + 1) = 2 * 2 ^ (W(ty) - 1)
  BY <1>1, PowerDoubles
<1>4. 2 ^ W(ty) \in Nat \ {0} /\ 2 ^ (W(ty) - 1) \in Nat \ {0}
  BY <1>1, PowerDoubles
<1>5. 2 ^ W(ty) = 2 * 2 ^ (W(ty) - 1)
  BY <1>2, <1>3, Zenon
<1>6. scalar_type(ty) = Scalar(W(ty), scalar_type(ty).sg) /\ scalar_type(ty).sg \in BOOLEAN
  <2>1. CASE ty \in Integral
    BY <2>1, Widths, Zenon
  <2>2. CASE ty = "bool"
    <3>1. scalar_type(ty) = [w |-> 1, sg |-> FALSE]
      BY <2>2, Widths DEF bool_scalar, Scalar
    <3> QED
      BY <3>1 DEF W, Scalar
  <2> QED
    BY <2>1, <2>2 DEF Types
<1>7. ty # "bool" => ty \in Integral
  BY DEF Types
<1> QED
  BY <1>1, <1>4, <1>5, <1>6, <1>7

LEMMA RemainderOfRange ==
  ASSUME NEW d \in Nat \ {0}, NEW v \in Int
  PROVE  /\ v \in 0 .. d - 1 => v % d = v
         /\ v < 0 /\ -d <= v => v % d = v + d
<1>1. ASSUME v \in 0 .. d - 1 PROVE v % d = v
  BY <1>1
<1>2. ASSUME v < 0, -d <= v PROVE v % d = v + d
  <2>1. v = d * (-1) + (v + d) /\ v + d \in 0 .. d - 1 /\ -1 \in Int
    BY <1>2
  <2> QED
    BY <2>1, DivisionUnique
<1> QED
  BY <1>1, <1>2

\* What a number becomes when it is made a value of an integer type.
LEMMA Wrapped ==
  ASSUME NEW ty \in Integral, NEW x \in Int
  PROVE  /\ Wrap(ty, x) \in ValuesOf(ty)
         /\ Unread(ty, Wrap(ty, x)) = x % 2 ^ W(ty)
         /\ x % 2 ^ W(ty) \in 0 .. 2 ^ W(ty) - 1
         /\ Wrap(ty, x) \in Int
         /\ Signed(ty) => Wrap(ty, x) = SignedOf(W(ty), x % 2 ^ W(ty))
         /\ ~Signed(ty) => Wrap(ty, x) = x % 2 ^ W(ty)
<1> DEFINE P == 2 ^ W(ty)
           H == 2 ^ (W(ty) - 1)
           low == x % P
<1>1. W(ty) = Bits(ty) /\ ty # "bool" /\ Bits(ty) # 0 /\ W(ty) > 1 /\ Signed(ty) \in BOOLEAN
  BY Widths
<1>2. P \in Nat \ {0} /\ H \in Nat \ {0} /\ P = 2 * H
  BY WidthOfType DEF Types
<1>3. low \in 0 .. P - 1 /\ low \in Int
  BY <1>2, Division
<1>4. Wrap(ty, x) = IF Signed(ty) /\ low >= H THEN low - P ELSE low
  BY <1>1 DEF Wrap
<1>5. Wrap(ty, low) = IF Signed(ty) /\ low % P >= H THEN (low % P) - P ELSE low % P
  BY <1>1 DEF Wrap
<1>6. Unread(ty, Wrap(ty, x)) = Wrap(ty, x) % P
  BY <1>1 DEF Unread, Raw
<1>7. ValuesOf(ty) = {Wrap(ty, raw) : raw \in 0 .. P - 1}
  BY <1>1 DEF ValuesOf, W
<1>8. SignedOf(W(ty), low) = IF low >= H THEN low - P ELSE low
  BY <1>1 DEF SignedOf
<1> HIDE DEF low, P, H
<1>9. low % P = low
  BY <1>2, <1>3, RemainderOfRange
<1>10. Wrap(ty, x) \in ValuesOf(ty)
  BY <1>3, <1>4, <1>5, <1>7, <1>9
<1>11. Wrap(ty, x) % P = low
  <2>1. CASE Signed(ty) /\ low >= H
    <3>1. Wrap(ty, x) = low - P /\ low - P < 0 /\ -P <= low - P /\ low - P \in Int
      BY <1>2, <1>3, <1>4, <2>1
    <3>2. (low - P) % P = (low - P) + P
      BY <1>2, <3>1, RemainderOfRange
    <3> QED
      BY <1>2, <1>3, <3>1, <3>2
  <2>2. CASE ~(Signed(ty) /\ low >= H)
    BY <1>4, <1>9, <2>2
  <2> QED
    BY <2>1, <2>2
<1>12. Wrap(ty, x) \in Int
  BY <1>2, <1>3, <1>4
<1>13. /\ Signed(ty) => Wrap(ty, x) = SignedOf(W(ty), low)
       /\ ~Signed(ty) => Wrap(ty, x) = low
  <2>1. CASE low >= H
    BY <1>1, <1>4, <1>8, <2>1, Zenon
  <2>2. CASE ~(low >= H)
    BY <1>1, <1>4, <1>8, <2>2, Zenon
  <2> QED
    BY <2>1, <2>2
<1> QED
  BY <1>3, <1>6, <1>10, <1>11, <1>12, <1>13 DEF low, P

LEMMA Values ==
  ASSUME NEW ty \in Types, NEW v \in ValuesOf(ty)
  PROVE  /\ v \in Int
         /\ Unread(ty, v) \in 0 .. 2 ^ W(ty) - 1
         /\ Unread(ty, v) = v % 2 ^ W(ty)
         /\ AsSigned(ty, v) = SignedOf(W(ty), Unread(ty, v))
         /\ scalar_type(ty).sg => v = AsSigned(ty, v)
         /\ ~scalar_type(ty).sg => v = Unread(ty, v)
<1>1. AsSigned(ty, v) = SignedOf(W(ty), Unread(ty, v))
  BY DEF AsSigned, SignedOf, W
<1>2. CASE ty = "bool"
  <2>1. ValuesOf(ty) = 0 .. 2 ^ W(ty) - 1 /\ Unread(ty, v) = v
    BY <1>2 DEF ValuesOf, Unread, W
  <2>2. 2 ^ W(ty) \in Nat \ {0}
    BY WidthOfType
  <2>3. v % 2 ^ W(ty) = v
    BY <2>1, <2>2, RemainderOfRange
  <2>4. ~scalar_type(ty).sg
    BY <1>2, Widths
  <2> QED
    BY <1>1, <2>1, <2>2, <2>3, <2>4
<1>3. CASE ty \in Integral
  <2>1. PICK raw \in 0 .. 2 ^ W(ty) - 1 : v = Wrap(ty, raw)
    BY <1>3, Widths DEF ValuesOf, W
  <2>2. raw \in Int /\ 2 ^ W(ty) \in Nat \ {0}
    BY WidthOfType
  <2>3. Unread(ty, v) = raw % 2 ^ W(ty) /\ v \in Int
    BY <1>3, <2>1, <2>2, Wrapped
  <2>4. Unread(ty, v) = v % 2 ^ W(ty)
    BY <1>3, Widths DEF Unread, Raw
  <2>5. raw % 2 ^ W(ty) \in 0 .. 2 ^ W(ty) - 1
    BY <2>2, Division
  <2>6. scalar_type(ty).sg = Signed(ty) /\ Signed(ty) \in BOOLEAN
    BY <1>3, Widths
  <2>7. /\ Signed(ty) => v = SignedOf(W(ty), raw % 2 ^ W(ty))
        /\ ~Signed(ty) => v = raw % 2 ^ W(ty)
    BY <1>3, <2>1, <2>2, Wrapped, Zenon
  <2> QED
    BY <1>1, <2>3, <2>4, <2>5, <2>6, <2>7, Zenon
<1> QED
  BY <1>2, <1>3 DEF Types

---------------------------------------------------------------------------
(***************************************************************************)
(* What it is for facts to be true of a value.  RangesTrue also says that  *)
(* the ranges are ones of the type, BitsTrue that the ranges are those the *)
(* bits imply.                                                             *)
(***************************************************************************)
Shaped(f, ty) ==
  /\ f.w = W(ty) /\ f.sg = scalar_type(ty).sg
  /\ f.u = Interval(f.u.min, f.u.max) /\ f.u.min \in Nat /\ f.u.max \in Nat
  /\ f.u.max < 2 ^ W(ty)
  /\ f.s = Interval(f.s.min, f.s.max) /\ f.s.min \in Int /\ f.s.max \in Int
  /\ signed_bounds(scalar_type(ty)).min <= f.s.min
  /\ f.s.max <= signed_bounds(scalar_type(ty)).max

RangesTrue(f, ty, v) ==
  /\ Shaped(f, ty)
  /\ Holds(f.u, Unread(ty, v))
  /\ Holds(f.s, AsSigned(ty, v))

BitsTrue(f, ty, v) ==
  /\ f = facts_from_known_bits(scalar_type(ty), f.z, f.o)
  /\ f.o \subseteq BitsOf(v, W(ty))
  /\ f.z \subseteq (0 .. W(ty) - 1) \ BitsOf(v, W(ty))

Singletons(f) == is_singleton(f.u) /\ is_singleton(f.s)

LEMMA BitsOfRemainder ==
  ASSUME NEW w \in Nat, NEW x \in Int
  PROVE  BitsOf(x % 2 ^ w, w) = BitsOf(x, w)
<1>1. \A i \in 0 .. w - 1 : HasBit(x % 2 ^ w, i) <=> HasBit(x, i)
  <2> SUFFICES ASSUME NEW i \in 0 .. w - 1 PROVE HasBit(x % 2 ^ w, i) <=> HasBit(x, i)
    OBVIOUS
  <2>1. i \in Nat /\ i < w
    OBVIOUS
  <2> QED
    BY <2>1, BitOfRemainder
<1> QED
  BY <1>1, BitsAreBits, Zenon

LEMMA BitsOfUnread ==
  ASSUME NEW ty \in Types, NEW v \in ValuesOf(ty)
  PROVE  BitsOf(Unread(ty, v), W(ty)) = BitsOf(v, W(ty))
BY Values, WidthOfType, BitsOfRemainder, Zenon

LEMMA SignedBounds ==
  ASSUME NEW ty \in Types
  PROVE  signed_bounds(scalar_type(ty)) =
           IF W(ty) = 1 THEN Interval(0, 1)
           ELSE Interval(-(2 ^ (W(ty) - 1)), 2 ^ (W(ty) - 1) - 1)
BY DEF signed_bounds, W

LEMMA SignedWithinBounds ==
  ASSUME NEW ty \in Types, NEW raw \in 0 .. 2 ^ W(ty) - 1
  PROVE  /\ signed_bounds(scalar_type(ty)).min <= SignedOf(W(ty), raw)
         /\ SignedOf(W(ty), raw) <= signed_bounds(scalar_type(ty)).max
<1> DEFINE H == 2 ^ (W(ty) - 1)
           P == 2 ^ W(ty)
<1>1. W(ty) \in Nat \ {0} /\ H \in Nat \ {0} /\ P = 2 * H
  BY WidthOfType
<1>2. SignedOf(W(ty), raw) = IF W(ty) > 1 /\ raw >= H THEN raw - P ELSE raw
  BY DEF SignedOf
<1>3. W(ty) = 1 => H = 1
  BY SmallPowers
<1>4. /\ signed_bounds(scalar_type(ty)).min = IF W(ty) = 1 THEN 0 ELSE -H
      /\ signed_bounds(scalar_type(ty)).max = IF W(ty) = 1 THEN 1 ELSE H - 1
  BY SignedBounds DEF Interval
<1>5. raw \in 0 .. P - 1
  OBVIOUS
<1> HIDE DEF H, P
<1> QED
  BY <1>1, <1>2, <1>3, <1>4, <1>5

\* Bits that are true of a value give ranges that are, signed and unsigned.
LEMMA SignedRangeOfBits ==
  ASSUME NEW ty \in Types, NEW raw \in 0 .. 2 ^ W(ty) - 1,
         NEW o \in SUBSET BitsOf(raw, W(ty)),
         NEW z \in SUBSET ((0 .. W(ty) - 1) \ BitsOf(raw, W(ty)))
  PROVE  LET r == signed_range_for_known_bits(scalar_type(ty), z, o)
         IN  /\ r = Interval(r.min, r.max) /\ r.min \in Int /\ r.max \in Int
             /\ signed_bounds(scalar_type(ty)).min <= r.min
             /\ r.max <= signed_bounds(scalar_type(ty)).max
             /\ Holds(r, SignedOf(W(ty), raw))
             /\ z \cup o = 0 .. W(ty) - 1 => r.min = r.max
<1> DEFINE w == W(ty)
           top == W(ty) - 1
           H == 2 ^ top
           P == 2 ^ w
           B == BitsOf(raw, w)
           N == (0 .. w - 1) \ z
           lo == ValueOf(o)
           hi == ValueOf(N)
           r == signed_range_for_known_bits(scalar_type(ty), z, o)
           bounds == signed_bounds(scalar_type(ty))
<1>1. w \in Nat \ {0} /\ top \in Nat /\ top = w - 1 /\ w = top + 1 /\ H \in Nat \ {0} /\ P = 2 * H
  BY WidthOfType
<1>2. B \in SUBSET (0 .. w - 1) /\ N \in SUBSET (0 .. w - 1) /\ o \in SUBSET (0 .. w - 1)
      /\ o \in SUBSET B /\ B \in SUBSET N
  BY BitsOfSubset
<1>3. lo \in 0 .. P - 1 /\ hi \in 0 .. P - 1 /\ ValueOf(B) = raw
  BY <1>1, <1>2, ValueOfRange, ValueOfBits
<1>4. lo <= raw /\ raw <= hi
  BY <1>1, <1>2, <1>3, ValueOfSubset
<1>5. top \in B <=> raw >= H
  <2>1. raw \in 0 .. 2 ^ (top + 1) - 1
    BY <1>1
  <2>2. HasBit(raw, top) <=> raw >= H
    BY <1>1, <2>1, TopBit
  <2>3. top \in 0 .. w - 1
    BY <1>1
  <2> QED
    BY <2>2, <2>3, BitsAreBits, Zenon
<1>6. SignedOf(w, raw) = IF w > 1 /\ raw >= H THEN raw - P ELSE raw
  BY DEF SignedOf
<1>7. r = CASE w = 1 \/ top \in z -> Interval(lo, hi)
            [] w > 1 /\ top \in o -> Interval(lo - P, hi - P)
            [] OTHER -> bounds
  BY DEF signed_range_for_known_bits, W, mask_for_width
<1>8. /\ bounds = IF w = 1 THEN Interval(0, 1) ELSE Interval(-H, H - 1)
      /\ bounds.min <= SignedOf(w, raw)
      /\ SignedOf(w, raw) <= bounds.max
  BY SignedBounds, SignedWithinBounds
<1>9. w = 1 => H = 1
  BY SmallPowers
<1>10. top \in o => lo >= H
  <2> SUFFICES ASSUME top \in o PROVE lo >= H
    OBVIOUS
  <2>1. lo = H + ValueOf(o \ {top})
    BY <1>1, <1>2, ValueOfMember
  <2>2. o \ {top} \in SUBSET (0 .. w - 1)
    BY <1>2
  <2>3. ValueOf(o \ {top}) \in 0 .. P - 1
    BY <1>1, <2>2, ValueOfRange
  <2> HIDE DEF lo, H, P
  <2> QED
    BY <1>1, <2>1, <2>3
<1>11. top \in z => hi <= H - 1
  <2> SUFFICES ASSUME top \in z PROVE hi <= H - 1
    OBVIOUS
  <2>1. N \in SUBSET (0 .. top - 1)
    BY <1>1, <1>2
  <2>2. hi \in 0 .. H - 1
    BY <1>1, <2>1, ValueOfRange
  <2> QED
    BY <1>1, <2>2
<1>12. raw \in Int
  OBVIOUS
<1>13. \A a, b : Interval(a, b).min = a /\ Interval(a, b).max = b
  BY DEF Interval
<1>14. z \cup o = 0 .. w - 1 => lo = hi /\ (w = 1 \/ top \in z \/ top \in o)
  <2> SUFFICES ASSUME z \cup o = 0 .. w - 1 PROVE lo = hi /\ (w = 1 \/ top \in z \/ top \in o)
    OBVIOUS
  <2>1. o = N
    OBVIOUS
  <2>2. top \in 0 .. w - 1
    BY <1>1
  <2> QED
    BY <2>1, <2>2
<1>15. top \in o => top \notin z /\ top \in B
  OBVIOUS
<1>16. top \in z => top \notin B
  OBVIOUS
<1> HIDE DEF w, top, H, P, B, lo, hi, r, bounds
<1>17. CASE w = 1 \/ top \in z
  <2>1. r = Interval(lo, hi)
    BY <1>7, <1>17
  <2>2. r.min = lo /\ r.max = hi
    BY <2>1, <1>13
  <2>3. ~(w > 1 /\ raw >= H)
    BY <1>1, <1>5, <1>16, <1>17
  <2>4. SignedOf(w, raw) = raw
    BY <1>6, <2>3
  <2>5. bounds.min <= lo /\ hi <= bounds.max
    BY <1>1, <1>3, <1>8, <1>9, <1>11, <1>13, <1>17
  <2> QED
    BY <1>3, <1>4, <1>14, <2>1, <2>2, <2>4, <2>5 DEF Holds, w, r, bounds
<1>18. CASE ~(w = 1 \/ top \in z) /\ top \in o
  <2>0. w > 1
    BY <1>1, <1>18
  <2>1. r = Interval(lo - P, hi - P)
    BY <1>7, <1>18, <2>0
  <2>2. r.min = lo - P /\ r.max = hi - P
    BY <2>1, <1>13
  <2>4. SignedOf(w, raw) = raw - P
    BY <1>5, <1>6, <1>15, <1>18, <2>0
  <2>5. bounds.min <= lo - P /\ hi - P <= bounds.max
    BY <1>1, <1>3, <1>8, <1>10, <1>13, <1>18
  <2>6. lo \in Int /\ hi \in Int /\ P \in Int
    BY <1>1, <1>3
  <2> QED
    BY <1>4, <1>12, <1>14, <2>1, <2>2, <2>4, <2>5, <2>6 DEF Holds, w, r, bounds
<1>19. CASE ~(w = 1 \/ top \in z) /\ top \notin o
  <2>1. r = bounds
    BY <1>7, <1>19
  <2>2. bounds = Interval(-H, H - 1)
    BY <1>8, <1>19
  <2>3. bounds.min = -H /\ bounds.max = H - 1
    BY <2>2, <1>13
  <2> QED
    BY <1>1, <1>8, <1>14, <1>19, <2>1, <2>2, <2>3 DEF Holds, w, r, bounds
<1> QED
  BY <1>17, <1>18, <1>19

\* facts_from_known_bits, given bits that are true of v.
LEMMA KnownBits ==
  ASSUME NEW ty \in Types, NEW v \in ValuesOf(ty), NEW zero, NEW one,
         Low(one, W(ty)) \subseteq BitsOf(v, W(ty)),
         Low(zero, W(ty)) \cap BitsOf(v, W(ty)) = {}
  PROVE  LET f == facts_from_known_bits(scalar_type(ty), zero, one)
         IN  /\ BitsTrue(f, ty, v)
             /\ RangesTrue(f, ty, v)
             /\ f.z = Low(zero, W(ty)) /\ f.o = Low(one, W(ty))
             /\ f.z \cup f.o = 0 .. W(ty) - 1 => Singletons(f)
<1> DEFINE w == W(ty)
           sc == scalar_type(ty)
           raw == Unread(ty, v)
           o == Low(one, w)
           z == Low(zero, w)
           f == facts_from_known_bits(sc, zero, one)
           u == Interval(ValueOf(o), ValueOf((0 .. w - 1) \ z))
           s == signed_range_for_known_bits(sc, z, o)
           B == BitsOf(raw, w)
<1>1. w \in Nat /\ raw \in 0 .. 2 ^ w - 1 /\ B = BitsOf(v, w) /\ AsSigned(ty, v) = SignedOf(w, raw)
      /\ 2 ^ w \in Nat
  BY WidthOfType, Values, BitsOfUnread, Zenon
<1>2. o \in SUBSET B /\ z \in SUBSET ((0 .. w - 1) \ B) /\ B \in SUBSET (0 .. w - 1)
  BY <1>1, BitsOfSubset DEF Low, mask_for_width
<1>3. z \ o = z
  BY <1>2
<1>4. f = [w |-> w, sg |-> sc.sg, z |-> z, o |-> o, u |-> u, s |-> s]
  <2>1. Low(zero, sc.w) \ Low(one, sc.w) = z
    BY <1>3 DEF W
  <2> QED
    BY <2>1 DEF facts_from_known_bits, W, mask_for_width
<1>5. f.w = w /\ f.sg = sc.sg /\ f.z = z /\ f.o = o /\ f.u = u /\ f.s = s
  BY <1>4
<1>6. Low(z, w) = z /\ Low(o, w) = o
  BY DEF Low
<1>7. f = facts_from_known_bits(sc, f.z, f.o)
  <2>1. facts_from_known_bits(sc, z, o) = [w |-> w, sg |-> sc.sg, z |-> z, o |-> o, u |-> u, s |-> s]
    <3>1. Low(z, sc.w) \ Low(o, sc.w) = z /\ Low(o, sc.w) = o
      BY <1>3, <1>6 DEF W
    <3> QED
      BY <3>1 DEF facts_from_known_bits, W, mask_for_width
  <2> QED
    BY <1>4, <1>5, <2>1
<1>8. BitsTrue(f, ty, v)
  BY <1>1, <1>2, <1>5, <1>7 DEF BitsTrue
<1>9. /\ u.min = ValueOf(o) /\ u.max = ValueOf((0 .. w - 1) \ z) /\ u = Interval(u.min, u.max)
      /\ u.min \in 0 .. 2 ^ w - 1 /\ u.max \in 0 .. 2 ^ w - 1
      /\ Holds(u, raw)
  <2>1. u.min = ValueOf(o) /\ u.max = ValueOf((0 .. w - 1) \ z)
    BY DEF Interval
  <2>2. (0 .. w - 1) \ z \in SUBSET (0 .. w - 1) /\ o \in SUBSET (0 .. w - 1)
        /\ B \in SUBSET ((0 .. w - 1) \ z)
    BY <1>2
  <2>3. u.min \in 0 .. 2 ^ w - 1 /\ u.max \in 0 .. 2 ^ w - 1
    BY <1>1, <2>1, <2>2, ValueOfRange
  <2>4. ValueOf(B) = raw
    BY <1>1, ValueOfBits
  <2>5. ValueOf(o) <= ValueOf(B) /\ ValueOf(B) <= ValueOf((0 .. w - 1) \ z)
    BY <1>1, <1>2, <2>2, ValueOfSubset
  <2>6. u = Interval(u.min, u.max)
    BY <2>1
  <2> QED
    BY <2>1, <2>3, <2>4, <2>5, <2>6 DEF Holds
<1>10. /\ s = Interval(s.min, s.max) /\ s.min \in Int /\ s.max \in Int
       /\ signed_bounds(sc).min <= s.min /\ s.max <= signed_bounds(sc).max
       /\ Holds(s, SignedOf(w, raw))
       /\ z \cup o = 0 .. w - 1 => s.min = s.max
  BY <1>1, <1>2, SignedRangeOfBits
<1>11. z \cup o = 0 .. w - 1 => u.min = u.max
  <2> SUFFICES ASSUME z \cup o = 0 .. w - 1 PROVE u.min = u.max
    OBVIOUS
  <2>1. (0 .. w - 1) \ z = o
    BY <1>2
  <2> QED
    BY <1>9, <2>1
<1> HIDE DEF f, u, s, o, z, raw, w, sc
<1>12. Shaped(f, ty)
  BY <1>1, <1>5, <1>9, <1>10 DEF Shaped, w, sc
<1>13. RangesTrue(f, ty, v)
  BY <1>1, <1>5, <1>9, <1>10, <1>12 DEF RangesTrue, raw
<1>14. f.z \cup f.o = 0 .. w - 1 => Singletons(f)
  BY <1>5, <1>10, <1>11 DEF Singletons, is_singleton
<1> QED
  BY <1>5, <1>8, <1>13, <1>14 DEF f, z, o, w, sc

LEMMA BitsGiveRanges ==
  ASSUME NEW ty \in Types, NEW v \in ValuesOf(ty), NEW f, BitsTrue(f, ty, v)
  PROVE  /\ RangesTrue(f, ty, v)
         /\ f.w = W(ty) /\ f.sg = scalar_type(ty).sg
         /\ f.z \subseteq 0 .. W(ty) - 1 /\ f.o \subseteq 0 .. W(ty) - 1
         /\ f.z \cup f.o = 0 .. W(ty) - 1 <=> is_singleton(f.u)
         /\ is_singleton(f.u) => Singletons(f)
<1> DEFINE w == W(ty)
<1>1. f.o \subseteq BitsOf(v, w) /\ f.z \subseteq (0 .. w - 1) \ BitsOf(v, w)
      /\ f = facts_from_known_bits(scalar_type(ty), f.z, f.o)
  BY DEF BitsTrue
<1>2. BitsOf(v, w) \in SUBSET (0 .. w - 1)
  BY BitsOfSubset
<1>3. Low(f.o, w) = f.o /\ Low(f.z, w) = f.z /\ f.z \ f.o = f.z
  BY <1>1, <1>2 DEF Low, mask_for_width
<1>4. Low(f.o, w) \subseteq BitsOf(v, w) /\ Low(f.z, w) \cap BitsOf(v, w) = {}
  BY <1>1, <1>3
<1> DEFINE g == facts_from_known_bits(scalar_type(ty), f.z, f.o)
<1>5a. RangesTrue(g, ty, v) /\ (g.z \cup g.o = 0 .. w - 1 => Singletons(g))
  BY <1>1, <1>4, KnownBits
<1>6a. g.u = Interval(ValueOf(f.o), ValueOf((0 .. w - 1) \ f.z))
  <2>1. Low(f.o, scalar_type(ty).w) = f.o /\ Low(f.z, scalar_type(ty).w) \ f.o = f.z
    BY <1>3 DEF W
  <2> QED
    BY <2>1 DEF facts_from_known_bits, W, mask_for_width
<1>5b. f = g
  BY <1>1
<1> HIDE DEF g
<1>5. RangesTrue(f, ty, v) /\ (f.z \cup f.o = 0 .. w - 1 => Singletons(f))
  BY <1>5a, <1>5b
<1>6. f.u = Interval(ValueOf(f.o), ValueOf((0 .. w - 1) \ f.z))
  BY <1>5b, <1>6a
<1>7. is_singleton(f.u) => f.z \cup f.o = 0 .. w - 1
  <2> SUFFICES ASSUME is_singleton(f.u) PROVE f.z \cup f.o = 0 .. w - 1
    OBVIOUS
  <2>1. ValueOf(f.o) = ValueOf((0 .. w - 1) \ f.z)
    BY <1>6 DEF is_singleton, Interval
  <2>2. f.o \in SUBSET (0 .. w - 1) /\ (0 .. w - 1) \ f.z \in SUBSET (0 .. w - 1) /\ w \in Nat
    BY <1>1, <1>2, WidthOfType
  <2>3. f.o = (0 .. w - 1) \ f.z
    BY <2>1, <2>2, ValueOfInjective
  <2> QED
    BY <1>1, <2>3
<1>8. f.w = w /\ f.sg = scalar_type(ty).sg
  BY <1>5 DEF RangesTrue, Shaped
<1> QED
  BY <1>1, <1>2, <1>5, <1>7, <1>8 DEF Singletons

\* Nothing known is true of every value.
LEMMA FullFacts ==
  ASSUME NEW ty \in Types, NEW v \in ValuesOf(ty)
  PROVE  BitsTrue(full_facts(scalar_type(ty)), ty, v)
<1>1. Low({}, W(ty)) \subseteq BitsOf(v, W(ty)) /\ Low({}, W(ty)) \cap BitsOf(v, W(ty)) = {}
  BY DEF Low
<1> QED
  BY <1>1, KnownBits, Zenon DEF full_facts

\* A literal is known exactly.
LEMMA RawValue ==
  ASSUME NEW ty \in Types, NEW x \in Int, NEW v \in ValuesOf(ty), Unread(ty, v) = x % 2 ^ W(ty)
  PROVE  LET f == facts_from_raw_value(scalar_type(ty), x)
         IN  BitsTrue(f, ty, v) /\ Singletons(f)
<1> DEFINE w == W(ty)
           B == BitsOf(v, w)
<1>1. BitsOf(x % 2 ^ w, w) = B
  BY BitsOfUnread, Zenon
<1>2. B \in SUBSET (0 .. w - 1)
  BY BitsOfSubset
<1>3. facts_from_raw_value(scalar_type(ty), x)
        = facts_from_known_bits(scalar_type(ty), (0 .. w - 1) \ B, B)
  BY <1>1 DEF facts_from_raw_value, mask_for_width, W
<1> HIDE DEF B
<1>4. Low(B, w) = B /\ Low((0 .. w - 1) \ B, w) = (0 .. w - 1) \ B
  BY <1>2 DEF Low, mask_for_width
<1>5. Low(B, w) \subseteq B /\ Low((0 .. w - 1) \ B, w) \cap B = {}
  BY <1>4
<1>6. Low((0 .. w - 1) \ B, w) \cup Low(B, w) = 0 .. w - 1
  BY <1>2, <1>4
<1> DEFINE Z == (0 .. w - 1) \ B
           g == facts_from_known_bits(scalar_type(ty), Z, B)
<1>7. /\ BitsTrue(g, ty, v)
      /\ g.z = Low(Z, w) /\ g.o = Low(B, w)
      /\ g.z \cup g.o = 0 .. w - 1 => Singletons(g)
  <2>1. Low(B, W(ty)) \subseteq BitsOf(v, W(ty)) /\ Low(Z, W(ty)) \cap BitsOf(v, W(ty)) = {}
    BY <1>5 DEF B
  <2> HIDE DEF Z
  <2> QED
    BY <2>1, KnownBits
<1> HIDE DEF g
<1>8. g.z \cup g.o = 0 .. w - 1
  BY <1>6, <1>7
<1>9. facts_from_raw_value(scalar_type(ty), x) = g
  BY <1>3 DEF g
<1> QED
  BY <1>7, <1>8, <1>9

LEMMA BoolFact ==
  ASSUME NEW b \in BOOLEAN
  PROVE  /\ Bit(b) \in ValuesOf("bool")
         /\ BitsTrue(bool_fact(b), "bool", Bit(b)) /\ Singletons(bool_fact(b))
<1>1. "bool" \in Types /\ scalar_type("bool") = bool_scalar /\ W("bool") = 1
  BY Widths DEF Types
<1>2. Bit(b) \in 0 .. 1 /\ Bit(b) = (IF b THEN 1 ELSE 0) /\ Bit(b) \in Int
  BY DEF Bit
<1>3. Bit(b) \in ValuesOf("bool") /\ Unread("bool", Bit(b)) = Bit(b)
  <2>1. ValuesOf("bool") = 0 .. 2 ^ 1 - 1
    BY <1>1 DEF ValuesOf, W
  <2> QED
    BY <1>2, <2>1, SmallPowers DEF Unread
<1>4. Bit(b) % 2 ^ 1 = Bit(b)
  BY <1>2, SmallPowers
<1> QED
  BY <1>1, <1>2, <1>3, <1>4, RawValue, Zenon DEF bool_fact

---------------------------------------------------------------------------
(***************************************************************************)
(* Facts made from ranges.  Nothing is said of their bits.                 *)
(***************************************************************************)
LEMMA IntervalEnds ==
  ASSUME NEW a, NEW b
  PROVE  Interval(a, b).min = a /\ Interval(a, b).max = b
BY DEF Interval

LEMMA RawRange ==
  ASSUME NEW ty \in Types, NEW v \in ValuesOf(ty), NEW a \in Nat, NEW b \in Nat,
         a <= Unread(ty, v), Unread(ty, v) <= b, b < 2 ^ W(ty)
  PROVE  LET f == facts_from_raw_range(scalar_type(ty), Interval(a, b))
         IN  /\ RangesTrue(f, ty, v)
             /\ f.u = Interval(a, b)
             /\ a = b => Singletons(f)
<1> DEFINE sc == scalar_type(ty)
           w == W(ty)
           H == 2 ^ (w - 1)
           P == 2 ^ w
           r == Interval(a, b)
           s == signed_range_for_raw(sc, r)
           bounds == signed_bounds(sc)
           f == facts_from_raw_range(sc, r)
           raw == Unread(ty, v)
<1>1. f.w = w /\ f.sg = sc.sg /\ f.u = r /\ f.s = s
  BY DEF facts_from_raw_range, facts_from_known_bits, W
<1>2. w \in Nat \ {0} /\ H \in Nat \ {0} /\ P = 2 * H
  BY WidthOfType
<1>3. raw \in 0 .. P - 1 /\ AsSigned(ty, v) = SignedOf(w, raw)
  BY Values
<1>4. SignedOf(w, raw) = IF w > 1 /\ raw >= H THEN raw - P ELSE raw
  BY DEF SignedOf
<1>5. /\ bounds = IF w = 1 THEN Interval(0, 1) ELSE Interval(-H, H - 1)
      /\ bounds.min <= SignedOf(w, raw)
      /\ SignedOf(w, raw) <= bounds.max
  BY <1>3, SignedBounds, SignedWithinBounds
<1>6. w = 1 => H = 1
  BY SmallPowers
<1>7. s = CASE w = 1 \/ b < H -> r
            [] w > 1 /\ a >= H -> Interval(a - P, b - P)
            [] OTHER -> bounds
  BY IntervalEnds DEF signed_range_for_raw, W
<1>8. r.min = a /\ r.max = b /\ r = Interval(r.min, r.max)
  BY IntervalEnds
<1>9. a <= raw /\ raw <= b /\ b < P
  OBVIOUS
<1> HIDE DEF w, H, P, r, s, bounds, f, raw, sc
<1>10. /\ s = Interval(s.min, s.max) /\ s.min \in Int /\ s.max \in Int
       /\ bounds.min <= s.min /\ s.max <= bounds.max
       /\ Holds(s, SignedOf(w, raw))
       /\ a = b => s.min = s.max
  <2>1. CASE w = 1 \/ b < H
    <3>0. ~(w > 1 /\ a >= H)
      BY <1>2, <1>3, <1>9, <2>1
    <3>1. s = r
      BY <1>7, <2>1, <3>0
    <3>2. ~(w > 1 /\ raw >= H)
      BY <1>2, <1>3, <1>9, <2>1
    <3>3. bounds.min <= a /\ b <= bounds.max
      BY <1>2, <1>3, <1>5, <1>6, <1>9, <2>1, IntervalEnds
    <3> QED
      BY <1>4, <1>8, <1>9, <3>1, <3>2, <3>3 DEF Holds
  <2>2. CASE ~(w = 1 \/ b < H) /\ a >= H
    <3>0. w > 1
      BY <1>2, <2>2
    <3>1. s = Interval(a - P, b - P)
      BY <1>7, <2>2, <3>0
    <3>2. SignedOf(w, raw) = raw - P
      BY <1>2, <1>3, <1>4, <1>9, <2>2, <3>0
    <3>3. bounds.min <= a - P /\ b - P <= bounds.max
      BY <1>2, <1>3, <1>5, <1>9, <2>2, IntervalEnds
    <3>4. s.min = a - P /\ s.max = b - P
      BY <3>1, IntervalEnds
    <3>5. a - P <= raw - P /\ raw - P <= b - P /\ a - P \in Int /\ b - P \in Int
      BY <1>2, <1>3, <1>9
    <3> QED
      BY <3>1, <3>2, <3>3, <3>4, <3>5 DEF Holds
  <2>3. CASE ~(w = 1 \/ b < H) /\ ~(a >= H)
    <3>1. s = bounds
      BY <1>7, <2>3
    <3>2. bounds = Interval(-H, H - 1) /\ bounds.min = -H /\ bounds.max = H - 1
      BY <1>5, <2>3, IntervalEnds
    <3>3. a # b
      BY <1>2, <2>3
    <3> QED
      BY <1>2, <1>5, <3>1, <3>2, <3>3 DEF Holds
  <2> QED
    BY <2>1, <2>2, <2>3
<1>11. Shaped(f, ty)
  BY <1>1, <1>8, <1>9, <1>10 DEF Shaped, w, sc, P, bounds
<1>12. RangesTrue(f, ty, v)
  BY <1>1, <1>3, <1>8, <1>9, <1>10, <1>11 DEF RangesTrue, raw, Holds
<1>13. a = b => Singletons(f)
  BY <1>1, <1>8, <1>10 DEF Singletons, is_singleton
<1> QED
  BY <1>1, <1>12, <1>13 DEF f, r, sc

LEMMA SignedRange ==
  ASSUME NEW ty \in Types, NEW v \in ValuesOf(ty), NEW a \in Int, NEW b \in Int,
         a <= AsSigned(ty, v), AsSigned(ty, v) <= b,
         signed_bounds(scalar_type(ty)).min <= a, b <= signed_bounds(scalar_type(ty)).max
  PROVE  LET f == facts_from_signed_range(scalar_type(ty), Interval(a, b))
         IN  /\ RangesTrue(f, ty, v)
             /\ a = b => Singletons(f)
             /\ is_singleton(f.u) => Singletons(f)
<1> DEFINE sc == scalar_type(ty)
           w == W(ty)
           H == 2 ^ (w - 1)
           P == 2 ^ w
           r == Interval(a, b)
           u == CASE b < 0 -> Interval(a + P, b + P)
                  [] a >= 0 -> r
                  [] OTHER -> Interval(0, P - 1)
           g == facts_from_raw_range(sc, u)
           bounds == signed_bounds(sc)
           f == facts_from_signed_range(sc, r)
           raw == Unread(ty, v)
           signed == AsSigned(ty, v)
<1>1. f = [g EXCEPT !.s = r]
  BY IntervalEnds DEF facts_from_signed_range, W
<1>2. g.w = w /\ g.sg = sc.sg /\ g.u = u
  BY DEF facts_from_raw_range, facts_from_known_bits, W
<1>3. f.w = w /\ f.sg = sc.sg /\ f.u = u /\ f.s = r
  <2>1. f.w = g.w /\ f.sg = g.sg /\ f.u = g.u /\ f.s = r
    BY <1>1 DEF facts_from_raw_range, facts_from_known_bits
  <2> QED
    BY <1>2, <2>1
<1>4. w \in Nat \ {0} /\ H \in Nat \ {0} /\ P = 2 * H
  BY WidthOfType
<1>5. raw \in 0 .. P - 1 /\ signed = SignedOf(w, raw)
  BY Values
<1>6. signed = IF w > 1 /\ raw >= H THEN raw - P ELSE raw
  BY <1>5 DEF SignedOf
<1>7. bounds = IF w = 1 THEN Interval(0, 1) ELSE Interval(-H, H - 1)
  BY SignedBounds
<1>8. w = 1 => H = 1
  BY SmallPowers
<1>9. r.min = a /\ r.max = b /\ r = Interval(r.min, r.max)
  BY IntervalEnds
<1>10. a <= signed /\ signed <= b /\ bounds.min <= a /\ b <= bounds.max
  OBVIOUS
<1>11. /\ bounds.min = IF w = 1 THEN 0 ELSE -H
       /\ bounds.max = IF w = 1 THEN 1 ELSE H - 1
  BY <1>7, IntervalEnds
<1> DEFINE lo == CASE b < 0 -> a + P [] a >= 0 -> a [] OTHER -> 0
           hi == CASE b < 0 -> b + P [] a >= 0 -> b [] OTHER -> P - 1
<1>12. u = Interval(lo, hi)
  BY <1>5, <1>6, <1>4, <1>10
<1>13. u.min = lo /\ u.max = hi /\ u = Interval(u.min, u.max)
  BY <1>12, IntervalEnds
<1> HIDE DEF w, H, P, r, u, bounds, f, raw, sc, g, signed
<1>14. signed \in Int
  BY <1>4, <1>5, <1>6
<1>15. CASE b < 0
  <2>1. lo = a + P /\ hi = b + P
    BY <1>10, <1>14, <1>15
  <2>2. lo \in Nat /\ hi \in Nat /\ hi < P /\ lo <= raw /\ raw <= hi /\ (lo = hi <=> a = b)
    BY <1>4, <1>5, <1>6, <1>10, <1>11, <1>15, <2>1
  <2> QED
    BY <1>3, <1>9, <1>10, <1>13, <2>1, <2>2
       DEF RangesTrue, Shaped, Holds, Singletons, is_singleton, f, w, sc, P, bounds, raw, signed, r
<1>16. CASE a >= 0
  <2>1. lo = a /\ hi = b
    BY <1>10, <1>14, <1>16
  <2>2. lo \in Nat /\ hi \in Nat /\ hi < P /\ lo <= raw /\ raw <= hi
    BY <1>4, <1>5, <1>6, <1>8, <1>10, <1>11, <1>16, <2>1
  <2> QED
    BY <1>3, <1>9, <1>10, <1>13, <2>1, <2>2
       DEF RangesTrue, Shaped, Holds, Singletons, is_singleton, f, w, sc, P, bounds, raw, signed, r
<1>17. CASE ~(b < 0) /\ ~(a >= 0)
  <2>1. lo = 0 /\ hi = P - 1
    BY <1>17
  <2>2. lo \in Nat /\ hi \in Nat /\ hi < P /\ lo <= raw /\ raw <= hi /\ lo # hi /\ a # b
    BY <1>4, <1>5, <1>17, <2>1
  <2> QED
    BY <1>3, <1>9, <1>10, <1>13, <2>1, <2>2
       DEF RangesTrue, Shaped, Holds, Singletons, is_singleton, f, w, sc, P, bounds, raw, signed, r
<1> QED
  BY <1>15, <1>16, <1>17

---------------------------------------------------------------------------
(***************************************************************************)
(* The operators on bits.                                                  *)
(***************************************************************************)
LEMMA MadeBits ==
  ASSUME NEW ty \in Integral, NEW x \in Int, NEW zero, NEW one,
         Low(one, W(ty)) \subseteq BitsOf(x, W(ty)),
         Low(zero, W(ty)) \cap BitsOf(x, W(ty)) = {}
  PROVE  LET f == facts_from_known_bits(scalar_type(ty), zero, one)
         IN  /\ Wrap(ty, x) \in ValuesOf(ty)
             /\ BitsTrue(f, ty, Wrap(ty, x))
             /\ Low(zero, W(ty)) \cup Low(one, W(ty)) = 0 .. W(ty) - 1 => Singletons(f)
<1> DEFINE v == Wrap(ty, x)
           f == facts_from_known_bits(scalar_type(ty), zero, one)
<1>1. ty \in Types /\ W(ty) \in Nat
  BY Widths DEF Types
<1>2. v \in ValuesOf(ty) /\ Unread(ty, v) = x % 2 ^ W(ty)
  BY Wrapped
<1> HIDE DEF v
<1>3. BitsOf(v, W(ty)) = BitsOf(x, W(ty))
  <2>1. BitsOf(Unread(ty, v), W(ty)) = BitsOf(v, W(ty))
    BY <1>1, <1>2, BitsOfUnread
  <2>2. BitsOf(x % 2 ^ W(ty), W(ty)) = BitsOf(x, W(ty))
    BY <1>1, BitsOfRemainder
  <2> QED
    BY <1>2, <2>1, <2>2, Zenon
<1>4. Low(one, W(ty)) \subseteq BitsOf(v, W(ty)) /\ Low(zero, W(ty)) \cap BitsOf(v, W(ty)) = {}
  BY <1>3
<1>5. /\ BitsTrue(f, ty, v)
      /\ f.z = Low(zero, W(ty)) /\ f.o = Low(one, W(ty))
      /\ f.z \cup f.o = 0 .. W(ty) - 1 => Singletons(f)
  BY <1>1, <1>2, <1>4, KnownBits
<1> HIDE DEF f
<1> QED
  BY <1>2, <1>5 DEF f, v

\* The bits of a value and those known of it are bits of the type.
LEMMA KnownBitsOfType ==
  ASSUME NEW ty \in Types, NEW v \in ValuesOf(ty), NEW f, BitsTrue(f, ty, v)
  PROVE  /\ BitsOf(v, W(ty)) \subseteq 0 .. W(ty) - 1
         /\ f.o \subseteq BitsOf(v, W(ty))
         /\ f.z \subseteq (0 .. W(ty) - 1) \ BitsOf(v, W(ty))
         /\ is_singleton(f.u) => f.z \cup f.o = 0 .. W(ty) - 1
BY BitsGiveRanges, BitsOfSubset, Zenon DEF BitsTrue

\* The result of an operator that keeps the type.
Follows(f, ty, v, known) ==
  /\ v \in ValuesOf(ty)
  /\ BitsTrue(f, ty, v)
  /\ known => Singletons(f)

LEMMA NotKeepsBits ==
  ASSUME NEW ty \in Integral, NEW v \in ValuesOf(ty), NEW f, BitsTrue(f, ty, v)
  PROVE  Follows(unary_facts("~", f, ty), ty, Wrap(ty, -v - 1), is_singleton(f.u))
<1> DEFINE w == W(ty)
<1>1. ty \in Types /\ w \in Nat /\ HasScalar(ty)
  BY Widths DEF Types
<1>2. v \in Int /\ -v - 1 \in Int
  BY <1>1, Values
<1>3. \A i \in 0 .. w - 1 : HasBit(-v - 1, i) <=> ~HasBit(v, i)
  BY <1>1, <1>2, BitOfComplement
<1>4. BitsOf(-v - 1, w) = (0 .. w - 1) \ BitsOf(v, w)
  BY <1>3, BitsAreBits, Zenon
<1>5. /\ f.o \subseteq BitsOf(v, w) /\ f.z \subseteq (0 .. w - 1) \ BitsOf(v, w)
      /\ BitsOf(v, w) \subseteq 0 .. w - 1
      /\ is_singleton(f.u) => f.z \cup f.o = 0 .. w - 1
  BY <1>1, KnownBitsOfType
<1>6. Low(f.z, w) = f.z /\ Low(f.o, w) = f.o
  BY <1>5 DEF Low, mask_for_width
<1>7. Low(f.z, w) \subseteq BitsOf(-v - 1, w) /\ Low(f.o, w) \cap BitsOf(-v - 1, w) = {}
  BY <1>4, <1>5, <1>6
<1>8. unary_facts("~", f, ty) = facts_from_known_bits(scalar_type(ty), f.o, f.z)
  BY <1>1 DEF unary_facts
<1>9. is_singleton(f.u) => Low(f.o, w) \cup Low(f.z, w) = 0 .. w - 1
  BY <1>5, <1>6
<1> DEFINE zero == f.o
           one == f.z
           x == -v - 1
<1>10. /\ x \in Int /\ Low(one, W(ty)) \subseteq BitsOf(x, W(ty))
       /\ Low(zero, W(ty)) \cap BitsOf(x, W(ty)) = {}
  BY <1>2, <1>7
<1> HIDE DEF zero, one, x
<1>11. /\ Wrap(ty, x) \in ValuesOf(ty)
       /\ BitsTrue(facts_from_known_bits(scalar_type(ty), zero, one), ty, Wrap(ty, x))
       /\ Low(zero, W(ty)) \cup Low(one, W(ty)) = 0 .. W(ty) - 1
            => Singletons(facts_from_known_bits(scalar_type(ty), zero, one))
  BY <1>10, MadeBits
<1> QED
  BY <1>8, <1>9, <1>11 DEF zero, one, x, Follows

LEMMA BitwiseKeepsBits ==
  ASSUME NEW ty \in Integral, NEW l \in ValuesOf(ty), NEW r \in ValuesOf(ty), NEW op \in {"&", "|", "^"},
         NEW f, BitsTrue(f, ty, l), NEW g, BitsTrue(g, ty, r)
  PROVE  Follows(binary_facts(f, op, g, ty), ty, Arith(op, ty, l, r),
                 is_singleton(f.u) /\ is_singleton(g.u))
<1> DEFINE w == W(ty)
           A == BitsOf(l, w)
           B == BitsOf(r, w)
           C == Conjoined(op, A, B)
           x == ValueOf(C)
<1>1. ty \in Types /\ w \in Nat /\ HasScalar(ty) /\ Width(ty) = w
  BY Widths DEF Types
<1>2. /\ f.o \subseteq A /\ f.z \subseteq (0 .. w - 1) \ A /\ A \subseteq 0 .. w - 1
      /\ is_singleton(f.u) => f.z \cup f.o = 0 .. w - 1
  BY <1>1, KnownBitsOfType
<1>3. /\ g.o \subseteq B /\ g.z \subseteq (0 .. w - 1) \ B /\ B \subseteq 0 .. w - 1
      /\ is_singleton(g.u) => g.z \cup g.o = 0 .. w - 1
  BY <1>1, KnownBitsOfType
<1>4. C \in SUBSET (0 .. w - 1)
  BY <1>2, <1>3 DEF Conjoined
<1>5. x \in Int /\ BitsOf(x, w) = C
  <2> HIDE DEF C
  <2>1. x \in 0 .. 2 ^ w - 1 /\ BitsOf(x, w) = C
    BY <1>1, <1>4, ValueOfRange, BitsOfValue
  <2> QED
    BY <2>1
<1>6. Arith(op, ty, l, r) = Wrap(ty, x)
  BY <1>1 DEF Arith
<1> DEFINE one == CASE op = "&" -> f.o \cap g.o
                    [] op = "|" -> f.o \cup g.o
                    [] op = "^" -> (f.z \cap g.o) \cup (f.o \cap g.z)
           zero == CASE op = "&" -> f.z \cup g.z
                     [] op = "|" -> f.z \cap g.z
                     [] op = "^" -> (f.z \cap g.z) \cup (f.o \cap g.o)
<1>7. binary_facts(f, op, g, ty) = facts_from_known_bits(scalar_type(ty), zero, one)
  <2>1. binary_facts(f, op, g, ty) = bitwise_facts(f, g, scalar_type(ty), op)
    BY <1>1 DEF binary_facts
  <2> QED
    BY <2>1 DEF bitwise_facts
<1>8. Low(one, w) = one /\ Low(zero, w) = zero
  BY <1>2, <1>3 DEF Low, mask_for_width
<1>9. one \subseteq C /\ zero \cap C = {}
  BY <1>2, <1>3 DEF Conjoined
<1>10. is_singleton(f.u) /\ is_singleton(g.u) => zero \cup one = 0 .. w - 1
  <2> SUFFICES ASSUME f.z \cup f.o = 0 .. w - 1, g.z \cup g.o = 0 .. w - 1
               PROVE  zero \cup one = 0 .. w - 1
    BY <1>2, <1>3
  <2>1. zero \cup one \subseteq 0 .. w - 1
    BY <1>2, <1>3
  <2>2. ASSUME NEW i \in 0 .. w - 1 PROVE i \in zero \cup one
    <3>1. (i \in f.z \/ i \in f.o) /\ (i \in g.z \/ i \in g.o)
      OBVIOUS
    <3> QED
      BY <3>1
  <2> QED
    BY <2>1, <2>2
<1> HIDE DEF C, x, zero, one
<1>11. Low(one, W(ty)) \subseteq BitsOf(x, W(ty)) /\ Low(zero, W(ty)) \cap BitsOf(x, W(ty)) = {}
  BY <1>5, <1>8, <1>9
<1>12. /\ Wrap(ty, x) \in ValuesOf(ty)
       /\ BitsTrue(facts_from_known_bits(scalar_type(ty), zero, one), ty, Wrap(ty, x))
       /\ Low(zero, W(ty)) \cup Low(one, W(ty)) = 0 .. W(ty) - 1
            => Singletons(facts_from_known_bits(scalar_type(ty), zero, one))
  BY <1>5, <1>11, MadeBits
<1> QED
  BY <1>6, <1>7, <1>8, <1>10, <1>12 DEF Follows

LEMMA MadeBitsFollow ==
  ASSUME NEW ty \in Integral, NEW x \in Int, NEW zero, NEW one, NEW known,
         Low(one, W(ty)) \subseteq BitsOf(x, W(ty)),
         Low(zero, W(ty)) \cap BitsOf(x, W(ty)) = {},
         known => Low(zero, W(ty)) \cup Low(one, W(ty)) = 0 .. W(ty) - 1
  PROVE  Follows(facts_from_known_bits(scalar_type(ty), zero, one), ty, Wrap(ty, x), known)
BY MadeBits DEF Follows

LEMMA FullFactsFollow ==
  ASSUME NEW ty \in Integral, NEW x \in Int
  PROVE  Follows(full_facts(scalar_type(ty)), ty, Wrap(ty, x), FALSE)
BY Wrapped, FullFacts DEF Follows, Types

LEMMA SignBit ==
  ASSUME NEW ty \in Types, NEW v \in ValuesOf(ty)
  PROVE  /\ v < 0 <=> scalar_type(ty).sg /\ W(ty) - 1 \in BitsOf(v, W(ty))
         /\ -(2 ^ W(ty)) <= v /\ v < 2 ^ W(ty)
<1> DEFINE w == W(ty)
           top == w - 1
           H == 2 ^ top
           P == 2 ^ w
           raw == Unread(ty, v)
           sg == scalar_type(ty).sg
<1>1. w \in Nat \ {0} /\ top \in Nat /\ w = top + 1 /\ top = w - 1 /\ P = 2 * H /\ H \in Nat \ {0}
      /\ sg \in BOOLEAN
  BY WidthOfType
<1>2. raw \in 0 .. P - 1 /\ v \in Int
  BY Values
<1>3. (sg => v = SignedOf(w, raw)) /\ (~sg => v = raw)
  BY Values, Zenon
<1>4. SignedOf(w, raw) = IF w > 1 /\ raw >= H THEN raw - P ELSE raw
  BY DEF SignedOf
<1>5. top \in BitsOf(v, w) <=> raw >= H
  <2>1. BitsOf(v, w) = BitsOf(raw, w)
    BY BitsOfUnread, Zenon
  <2>2. raw \in 0 .. 2 ^ (top + 1) - 1 /\ top \in 0 .. w - 1
    BY <1>1, <1>2
  <2>3. HasBit(raw, top) <=> raw >= H
    BY <1>1, <2>2, TopBit
  <2> QED
    BY <2>1, <2>2, <2>3, BitsAreBits, Zenon
<1>6. sg => w > 1
  BY Widths DEF Types
<1> HIDE DEF w, top, H, P, raw, sg
<1>7. CASE sg
  BY <1>1, <1>2, <1>3, <1>4, <1>5, <1>6, <1>7 DEF sg, w, P, top
<1>8. CASE ~sg
  BY <1>1, <1>2, <1>3, <1>8 DEF sg, w, P, top
<1> QED
  BY <1>7, <1>8

LEMMA BitsOfLeft ==
  ASSUME NEW ty \in Integral, NEW v \in ValuesOf(ty), NEW n \in Nat
  PROVE  /\ ShiftLeft(ty, v, n) \in Int
         /\ BitsOf(ShiftLeft(ty, v, n), W(ty))
              = {i \in 0 .. W(ty) - 1 : i >= n /\ i - n \in BitsOf(v, W(ty))}
<1> DEFINE w == W(ty)
           x == ShiftLeft(ty, v, n)
           low == v % 2 ^ w
<1>1. ty \in Types /\ w \in Nat /\ w <= 4 * ByteBits /\ 4 * ByteBits \in Nat /\ Width(ty) = w
  BY Widths DEF Types
<1>2. v \in Int /\ low \in Int /\ 2 ^ n \in Nat
  BY <1>1, Values, PowerDoubles, Division
<1>3. x = IF n \in 0 .. 4 * ByteBits THEN low * 2 ^ n ELSE 0
  BY <1>1 DEF ShiftLeft
<1>4. x \in Int
  BY <1>2, <1>3
<1>5. ASSUME NEW i \in 0 .. w - 1
      PROVE  HasBit(x, i) <=> i >= n /\ i - n \in BitsOf(v, w)
  <2>1. CASE n \in 0 .. 4 * ByteBits
    <3>1. HasBit(low * 2 ^ n, i) <=> i >= n /\ HasBit(low, i - n)
      BY <1>2, BitOfProduct
    <3>2. ASSUME i >= n PROVE HasBit(low, i - n) <=> i - n \in BitsOf(v, w)
      <4>1. i - n \in Nat /\ i - n < w /\ i - n \in 0 .. w - 1
        BY <1>1, <3>2
      <4>2. HasBit(low, i - n) <=> HasBit(v, i - n)
        BY <1>1, <1>2, <4>1, BitOfRemainder
      <4> QED
        BY <4>1, <4>2, BitsAreBits, Zenon
    <3> QED
      BY <1>3, <2>1, <3>1, <3>2, Zenon
  <2>2. CASE n \notin 0 .. 4 * ByteBits
    <3>1. ~(i >= n)
      BY <1>1, <2>2
    <3>2. x = 0
      BY <1>3, <2>2
    <3>3. ~HasBit(0, i)
      BY ConstantBits
    <3> QED
      BY <3>1, <3>2, <3>3, Zenon
  <2> QED
    BY <2>1, <2>2
<1> HIDE DEF x
<1>6. BitsOf(x, w) = {i \in 0 .. w - 1 : i >= n /\ i - n \in BitsOf(v, w)}
  BY <1>5, BitsAreBits, Zenon
<1> QED
  BY <1>4, <1>6 DEF x

LEMMA BitsOfRight ==
  ASSUME NEW ty \in Integral, NEW v \in ValuesOf(ty), NEW n \in Nat
  PROVE  /\ ShiftRight(v, n) \in Int
         /\ BitsOf(ShiftRight(v, n), W(ty))
              = {i \in 0 .. W(ty) - 1 : IF n + i < W(ty) THEN n + i \in BitsOf(v, W(ty))
                                        ELSE scalar_type(ty).sg /\ W(ty) - 1 \in BitsOf(v, W(ty))}
<1> DEFINE w == W(ty)
           x == ShiftRight(v, n)
           negative == scalar_type(ty).sg /\ W(ty) - 1 \in BitsOf(v, W(ty))
<1>1. ty \in Types /\ w \in Nat /\ w <= 4 * ByteBits /\ 4 * ByteBits \in Nat
  BY Widths DEF Types
<1>2. v \in Int /\ 2 ^ n \in Nat \ {0} /\ v \div 2 ^ n \in Int
  BY <1>1, Values, PowerDoubles, Division
<1>3. x = IF n \in 0 .. 4 * ByteBits THEN v \div 2 ^ n ELSE IF v < 0 THEN -1 ELSE 0
  BY DEF ShiftRight
<1>4. x \in Int
  BY <1>2, <1>3
<1>5. (v < 0 <=> negative) /\ -(2 ^ w) <= v /\ v < 2 ^ w
  BY <1>1, SignBit
<1> HIDE DEF negative
<1>6. ASSUME NEW i \in 0 .. w - 1
      PROVE  HasBit(x, i) <=> IF n + i < w THEN n + i \in BitsOf(v, w) ELSE negative
  <2>0. i \in Nat /\ n + i \in Nat
    OBVIOUS
  <2>1. CASE n \in 0 .. 4 * ByteBits
    <3>1. HasBit(v \div 2 ^ n, i) <=> HasBit(v, n + i)
      BY <1>2, BitOfQuotient
    <3>2. CASE n + i < w
      <4>1. n + i \in 0 .. w - 1
        BY <1>1, <3>2
      <4> QED
        BY <1>3, <2>1, <3>1, <3>2, <4>1, BitsAreBits, Zenon
    <3>3. CASE ~(n + i < w)
      <4>1. n + i >= w
        BY <1>1, <3>3
      <4>2. HasBit(v, n + i) <=> v < 0
        BY <1>1, <1>2, <1>5, <2>0, <4>1, HighBits
      <4> QED
        BY <1>3, <1>5, <2>1, <3>1, <3>3, <4>2, Zenon
    <3> QED
      BY <3>2, <3>3
  <2>2. CASE n \notin 0 .. 4 * ByteBits
    <3>1. ~(n + i < w)
      BY <1>1, <2>2
    <3>2. x = IF v < 0 THEN -1 ELSE 0
      BY <1>3, <2>2
    <3>3. ~HasBit(0, i) /\ HasBit(-1, i)
      BY <2>0, ConstantBits
    <3>4. HasBit(x, i) <=> v < 0
      BY <3>2, <3>3, Zenon
    <3> QED
      BY <1>5, <3>1, <3>4, Zenon
  <2> QED
    BY <2>1, <2>2
<1> HIDE DEF x
<1>7. BitsOf(x, w) = {i \in 0 .. w - 1 : IF n + i < w THEN n + i \in BitsOf(v, w) ELSE negative}
  BY <1>6, BitsAreBits, Zenon
<1> QED
  BY <1>4, <1>7 DEF x, negative

LEMMA CountShape ==
  ASSUME NEW c \in LeftCounts \cup RightCounts
  PROVE  /\ c.w # 0 /\ c.sg = FALSE
         /\ c.u.min \in Nat /\ c.u.max \in Nat /\ c.u.min <= c.u.max
<1>1. c.u \in Intervals(0, 2 ^ Bits("u32") - 1) /\ c = from_unsigned_range("u32", c.u)
  BY CountsAssumption
<1>2. "u32" \in Integral
  BY DEF Integral
<1>3. W("u32") > 1 /\ scalar_type("u32").sg = FALSE /\ W("u32") = Bits("u32") /\ Bits("u32") \in Nat
  BY <1>2, Widths DEF Signed
<1>4. 2 ^ Bits("u32") \in Nat
  BY <1>3, PowerDoubles
<1>5. c.u.min \in Nat /\ c.u.max \in Nat /\ c.u.min <= c.u.max
  BY <1>1, <1>4 DEF Intervals
<1> DEFINE g == facts_from_raw_range(scalar_type("u32"), c.u)
<1>6. g.w = W("u32") /\ g.sg = scalar_type("u32").sg
  BY DEF facts_from_raw_range, facts_from_known_bits, W
<1>7. c = g
  BY <1>1 DEF from_unsigned_range
<1> HIDE DEF g
<1> QED
  BY <1>3, <1>5, <1>6, <1>7

LEMMA ShiftCases ==
  ASSUME NEW c \in LeftCounts \cup RightCounts, NEW f, NEW right \in BOOLEAN, NEW sc,
         f.w \in Nat
  PROVE  shift_facts(f, c, right, sc) =
           IF c.u.min >= f.w THEN over_shift(f, right, sc)
           ELSE IF c.u.max < f.w
                THEN IF is_singleton(c.u) THEN fixed_shift(f, c.u.min, right, sc)
                     ELSE variable_shift(f, c.u, right, sc)
                ELSE full_facts(sc)
<1>1. /\ c.w # 0 /\ c.sg = FALSE
      /\ c.u.min \in Nat /\ c.u.max \in Nat /\ c.u.min <= c.u.max
  BY CountShape
<1>2. /\ shift_proof(f, c).definitely_overshift <=> c.u.min >= f.w
      /\ shift_proof(f, c).definitely_in_range <=> c.u.max < f.w
      /\ shift_proof(f, c).count_range = c.u
  <2>1. active_range(c, c.sg) = c.u
    BY <1>1 DEF active_range
  <2>2. /\ shift_proof(f, c).definitely_overshift <=> c.w # 0 /\ c.u.min >= f.w
        /\ shift_proof(f, c).definitely_in_range <=> c.w # 0 /\ c.u.min >= 0 /\ c.u.max < f.w
        /\ shift_proof(f, c).count_range = c.u
    BY <2>1, Zenon DEF shift_proof
  <2>3. c.u.min >= 0
    BY <1>1
  <2> QED
    BY <1>1, <2>2, <2>3, Zenon
<1>3. ~(c.u.min >= f.w /\ c.u.max < f.w)
  BY <1>1
<1>4. shift_facts(f, c, right, sc) =
        CASE c.u.min >= f.w -> over_shift(f, right, sc)
          [] c.u.max < f.w ->
               IF is_singleton(c.u) THEN fixed_shift(f, c.u.min, right, sc)
               ELSE variable_shift(f, c.u, right, sc)
          [] OTHER -> full_facts(sc)
  BY <1>2, Zenon DEF shift_facts
<1> QED
  BY <1>3, <1>4

LEMMA LeftShiftKeepsBits ==
  ASSUME NEW ty \in Integral, NEW v \in ValuesOf(ty), NEW f, BitsTrue(f, ty, v),
         NEW c \in LeftCounts, NEW n \in c.u.min .. c.u.max,
         is_singleton(c.u) \/ c.u.max >= W(ty)
  PROVE  Follows(binary_facts(f, "<<", c, ty), ty, Arith("<<", ty, v, n),
                 is_singleton(f.u) /\ is_singleton(c.u))
<1> DEFINE w == W(ty)
           sc == scalar_type(ty)
           B == BitsOf(v, w)
           x == ShiftLeft(ty, v, n)
           known == is_singleton(f.u) /\ is_singleton(c.u)
           left == binary_facts(f, "<<", c, ty)
<1>1. ty \in Types /\ w \in Nat /\ HasScalar(ty) /\ sc.w = w
  BY Widths DEF Types, W
<1>2. c.u.min \in Nat /\ c.u.max \in Nat /\ c.u.min <= c.u.max /\ n \in Nat
      /\ c \in LeftCounts \cup RightCounts /\ c.u.min <= n /\ n <= c.u.max
  <2>1. c \in LeftCounts \cup RightCounts
    OBVIOUS
  <2>2. c.u.min \in Nat /\ c.u.max \in Nat /\ c.u.min <= c.u.max
    BY <2>1, CountShape
  <2> QED
    BY <2>1, <2>2
<1>3. f.w = w
  BY <1>1, BitsGiveRanges
<1>4. /\ f.o \subseteq B /\ f.z \subseteq (0 .. w - 1) \ B /\ B \subseteq 0 .. w - 1
      /\ is_singleton(f.u) => f.z \cup f.o = 0 .. w - 1
  BY <1>1, KnownBitsOfType
<1>5. x \in Int /\ BitsOf(x, w) = {i \in 0 .. w - 1 : i >= n /\ i - n \in B}
  BY <1>2, BitsOfLeft
<1>6. Arith("<<", ty, v, n) = Wrap(ty, x)
  BY DEF Arith
<1>7. left = shift_facts(f, c, FALSE, sc)
  <2>1. left = shift_facts(f, c, "<<" = ">>", sc)
    BY <1>1 DEF binary_facts
  <2> QED
    BY <2>1
<1>8. left = IF c.u.min >= w THEN over_shift(f, FALSE, sc)
             ELSE IF c.u.max < w
                  THEN IF is_singleton(c.u) THEN fixed_shift(f, c.u.min, FALSE, sc)
                       ELSE variable_shift(f, c.u, FALSE, sc)
                  ELSE full_facts(sc)
  <2>1. f.w \in Nat /\ FALSE \in BOOLEAN
    BY <1>1, <1>3
  <2>2. shift_facts(f, c, FALSE, sc) =
          IF c.u.min >= f.w THEN over_shift(f, FALSE, sc)
          ELSE IF c.u.max < f.w
               THEN IF is_singleton(c.u) THEN fixed_shift(f, c.u.min, FALSE, sc)
                    ELSE variable_shift(f, c.u, FALSE, sc)
               ELSE full_facts(sc)
    <3> HIDE DEF w, B, x, left, sc
    <3> QED
      BY <1>2, <2>1, ShiftCases
  <2> HIDE DEF w, B, x, left, sc
  <2> QED
    BY <1>3, <1>7, <2>2, Zenon
<1>9. is_singleton(c.u) \/ c.u.max >= w
  OBVIOUS
<1>10. is_singleton(c.u) => c.u.min = n /\ c.u.max = n
  BY <1>2 DEF is_singleton
<1> HIDE DEF w, B, x, left
<1>11. CASE c.u.min >= w
  <2>1. left = facts_from_known_bits(sc, 0 .. w - 1, {})
    BY <1>1, <1>8, <1>11 DEF over_shift, AllZero, mask_for_width
  <2>2. BitsOf(x, w) = {}
    BY <1>1, <1>2, <1>5, <1>11
  <2>3. Low({}, w) = {} /\ Low(0 .. w - 1, w) = 0 .. w - 1
    BY DEF Low, mask_for_width
  <2>4. /\ Low({}, w) \subseteq BitsOf(x, w) /\ Low(0 .. w - 1, w) \cap BitsOf(x, w) = {}
        /\ known => Low(0 .. w - 1, w) \cup Low({}, w) = 0 .. w - 1
    BY <2>2, <2>3
  <2>5. Follows(facts_from_known_bits(sc, 0 .. w - 1, {}), ty, Wrap(ty, x), known)
    BY <1>5, <2>4, MadeBitsFollow, Zenon DEF w
  <2> QED
    BY <1>6, <2>1, <2>5 DEF left
<1>12. CASE ~(c.u.min >= w) /\ c.u.max < w
  <2>1. is_singleton(c.u)
    BY <1>1, <1>2, <1>9, <1>12
  <2> DEFINE zero == Left(f.z, n) \cup (0 .. n - 1)
             one == Left(f.o, n)
  <2>2. left = facts_from_known_bits(sc, zero, one)
    BY <1>8, <1>10, <1>12, <2>1 DEF fixed_shift
  <2>3. Low(one, w) \subseteq BitsOf(x, w)
    <3> SUFFICES ASSUME NEW j \in Low(one, w) PROVE j \in BitsOf(x, w)
      OBVIOUS
    <3>1. PICK i \in f.o : j = i + n
      BY DEF Low, Left
    <3>2. j \in 0 .. w - 1
      BY DEF Low, mask_for_width
    <3>3. i \in 0 .. w - 1 /\ i \in B
      BY <1>4
    <3>4. j >= n /\ j - n = i
      BY <1>2, <3>1, <3>3
    <3> QED
      BY <1>5, <3>2, <3>3, <3>4
  <2>4. Low(zero, w) \cap BitsOf(x, w) = {}
    <3> SUFFICES ASSUME NEW j \in Low(zero, w), j \in BitsOf(x, w) PROVE FALSE
      OBVIOUS
    <3>1. j \in 0 .. w - 1 /\ j >= n /\ j - n \in B
      BY <1>5
    <3>2. CASE j \in Left(f.z, n)
      <4>1. PICK i \in f.z : j = i + n
        BY <3>2 DEF Left
      <4>2. i \in 0 .. w - 1 /\ i \notin B
        BY <1>4
      <4>3. j - n = i
        BY <1>2, <4>1, <4>2
      <4> QED
        BY <3>1, <4>2, <4>3
    <3>3. CASE j \in 0 .. n - 1
      BY <1>2, <3>1, <3>3
    <3> QED
      BY <3>2, <3>3 DEF Low
  <2>5. known => Low(zero, w) \cup Low(one, w) = 0 .. w - 1
    <3> SUFFICES ASSUME known, NEW j \in 0 .. w - 1 PROVE j \in Low(zero, w) \cup Low(one, w)
      BY DEF Low, mask_for_width
    <3>1. f.z \cup f.o = 0 .. w - 1
      BY <1>4
    <3>2. CASE j < n
      <4>1. j \in 0 .. n - 1
        BY <1>2, <3>2
      <4> QED
        BY <4>1 DEF Low, mask_for_width
    <3>3. CASE ~(j < n)
      <4>1. j - n \in 0 .. w - 1 /\ j = (j - n) + n
        BY <1>1, <1>2, <3>3
      <4>2. j - n \in f.z \/ j - n \in f.o
        BY <3>1, <4>1
      <4>3. j \in Left(f.z, n) \/ j \in Left(f.o, n)
        BY <4>1, <4>2 DEF Left
      <4> QED
        BY <4>3 DEF Low, mask_for_width
    <3> QED
      BY <3>2, <3>3
  <2> HIDE DEF zero, one, known
  <2>6. Follows(facts_from_known_bits(sc, zero, one), ty, Wrap(ty, x), known)
    BY <1>5, <2>3, <2>4, <2>5, MadeBitsFollow DEF w
  <2> QED
    BY <1>6, <2>2, <2>6 DEF left, known
<1>13. CASE ~(c.u.min >= w) /\ ~(c.u.max < w)
  <2>1. left = full_facts(sc)
    BY <1>8, <1>13
  <2>2. ~is_singleton(c.u)
    BY <1>1, <1>2, <1>13 DEF is_singleton
  <2>3. Follows(full_facts(sc), ty, Wrap(ty, x), FALSE)
    BY <1>5, FullFactsFollow
  <2> QED
    BY <1>6, <2>1, <2>2, <2>3 DEF left, Follows
<1> QED
  BY <1>11, <1>12, <1>13

\* Facts that leave zero as the only value are true of zero alone.
LEMMA KnownZero ==
  ASSUME NEW ty \in Types, NEW v \in ValuesOf(ty), NEW f, RangesTrue(f, ty, v), is_known_zero(f)
  PROVE  Unread(ty, v) = 0 /\ BitsOf(v, W(ty)) = {}
<1>1. f.u.min = 0 /\ f.u.max = 0
  BY DEF is_known_zero, Interval
<1>2. Unread(ty, v) = 0
  BY <1>1, Values DEF RangesTrue, Holds
<1>3. \A i \in 0 .. W(ty) - 1 : ~HasBit(0, i)
  BY ConstantBits
<1>4. BitsOf(0, W(ty)) = {}
  BY <1>3, BitsAreBits, Zenon
<1> QED
  BY <1>2, <1>4, BitsOfUnread

LEMMA RightShiftKeepsBits ==
  ASSUME NEW ty \in Integral, NEW v \in ValuesOf(ty), NEW f, BitsTrue(f, ty, v),
         NEW c \in RightCounts, NEW n \in c.u.min .. c.u.max
  PROVE  Follows(binary_facts(f, ">>", c, ty), ty, Arith(">>", ty, v, n),
                 is_singleton(f.u) /\ is_singleton(c.u))
<1> DEFINE w == W(ty)
           top == w - 1
           sc == scalar_type(ty)
           B == BitsOf(v, w)
           x == ShiftRight(v, n)
           known == is_singleton(f.u) /\ is_singleton(c.u)
           result == binary_facts(f, ">>", c, ty)
<1>1. ty \in Types /\ w \in Nat /\ HasScalar(ty) /\ sc.w = w /\ sc.sg \in BOOLEAN /\ w > 1
  BY Widths DEF Types, W
<1>2. c.u.min \in Nat /\ c.u.max \in Nat /\ c.u.min <= c.u.max /\ n \in Nat
      /\ c \in LeftCounts \cup RightCounts /\ c.u.min <= n /\ n <= c.u.max
  <2>1. c \in LeftCounts \cup RightCounts
    OBVIOUS
  <2>2. c.u.min \in Nat /\ c.u.max \in Nat /\ c.u.min <= c.u.max
    BY <2>1, CountShape
  <2> QED
    BY <2>1, <2>2
<1>3. f.w = w /\ RangesTrue(f, ty, v)
  BY <1>1, BitsGiveRanges
<1>4. /\ f.o \subseteq B /\ f.z \subseteq (0 .. w - 1) \ B /\ B \subseteq 0 .. w - 1
      /\ is_singleton(f.u) => f.z \cup f.o = 0 .. w - 1
  BY <1>1, KnownBitsOfType
<1>5. /\ x \in Int
      /\ BitsOf(x, w) = {i \in 0 .. w - 1 : IF n + i < w THEN n + i \in B ELSE sc.sg /\ top \in B}
  BY <1>2, BitsOfRight
<1>6. Arith(">>", ty, v, n) = Wrap(ty, x)
  BY DEF Arith
<1> SUFFICES Follows(result, ty, Wrap(ty, x), known)
  BY <1>6
<1>7. result = shift_facts(f, c, TRUE, sc)
  <2>1. result = shift_facts(f, c, ">>" = ">>", sc)
    BY <1>1 DEF binary_facts
  <2> QED
    BY <2>1
<1>8. result = IF c.u.min >= w THEN over_shift(f, TRUE, sc)
               ELSE IF c.u.max < w
                    THEN IF is_singleton(c.u) THEN fixed_shift(f, c.u.min, TRUE, sc)
                         ELSE variable_shift(f, c.u, TRUE, sc)
                    ELSE full_facts(sc)
  <2>1. f.w \in Nat /\ TRUE \in BOOLEAN
    BY <1>1, <1>3
  <2>2. shift_facts(f, c, TRUE, sc) =
          IF c.u.min >= f.w THEN over_shift(f, TRUE, sc)
          ELSE IF c.u.max < f.w
               THEN IF is_singleton(c.u) THEN fixed_shift(f, c.u.min, TRUE, sc)
                    ELSE variable_shift(f, c.u, TRUE, sc)
               ELSE full_facts(sc)
    <3> HIDE DEF w, B, x, result, sc
    <3> QED
      BY <1>2, <2>1, ShiftCases
  <2> HIDE DEF w, B, x, result, sc
  <2> QED
    BY <1>3, <1>7, <2>2, Zenon
<1>9. is_singleton(c.u) => c.u.min = n /\ c.u.max = n
  BY <1>2 DEF is_singleton
<1>10. is_singleton(f.u) => top \in f.z \/ top \in f.o
  BY <1>1, <1>4
<1>11. ASSUME NEW zero, NEW one, result = facts_from_known_bits(sc, zero, one),
              Low(one, w) \subseteq BitsOf(x, w), Low(zero, w) \cap BitsOf(x, w) = {},
              known => Low(zero, w) \cup Low(one, w) = 0 .. w - 1
       PROVE  Follows(result, ty, Wrap(ty, x), known)
  <2> HIDE DEF known, x, result
  <2> QED
    BY <1>5, <1>11, MadeBitsFollow DEF w
<1>12. ASSUME result = full_facts(sc), ~known PROVE Follows(result, ty, Wrap(ty, x), known)
  BY <1>5, <1>12, FullFactsFollow DEF Follows
<1>13. Low({}, w) = {} /\ Low(0 .. w - 1, w) = 0 .. w - 1
  BY DEF Low, mask_for_width
<1>14. mask_for_width(sc.w) = 0 .. w - 1
  BY <1>1 DEF mask_for_width
<1>15. sc.w - 1 = top
  BY <1>1
<1> HIDE DEF w, B, x, result, known, sc, top
<1>16. ASSUME result = AllZero(sc), BitsOf(x, w) = {}
       PROVE  Follows(result, ty, Wrap(ty, x), known)
  <2>1. result = facts_from_known_bits(sc, 0 .. w - 1, {})
    BY <1>14, <1>16 DEF AllZero
  <2>2. /\ Low({}, w) \subseteq BitsOf(x, w) /\ Low(0 .. w - 1, w) \cap BitsOf(x, w) = {}
        /\ known => Low(0 .. w - 1, w) \cup Low({}, w) = 0 .. w - 1
    BY <1>13, <1>16
  <2> QED
    BY <1>11, <2>1, <2>2, Zenon
<1>17. CASE c.u.min >= w
  <2>1. result = over_shift(f, TRUE, sc)
    BY <1>8, <1>17
  <2>2. \A i \in 0 .. w - 1 : ~(n + i < w)
    BY <1>1, <1>2, <1>17
  <2>3. BitsOf(x, w) = {i \in 0 .. w - 1 : sc.sg /\ top \in B}
    BY <1>5, <2>2
  <2>4. CASE ~sc.sg \/ top \in f.z
    <3>1. result = AllZero(sc)
      BY <1>15, <2>1, <2>4, Zenon DEF over_shift
    <3>2. BitsOf(x, w) = {}
      BY <1>4, <2>3, <2>4
    <3> QED
      BY <1>16, <3>1, <3>2, Zenon
  <2>5. CASE sc.sg /\ top \notin f.z /\ top \in f.o
    <3>1. result = AllOne(sc)
      BY <1>15, <2>1, <2>5 DEF over_shift
    <3>2. result = facts_from_known_bits(sc, {}, 0 .. w - 1)
      BY <1>14, <3>1 DEF AllOne
    <3>3. BitsOf(x, w) = 0 .. w - 1
      BY <1>4, <2>3, <2>5
    <3>4. /\ Low(0 .. w - 1, w) \subseteq BitsOf(x, w) /\ Low({}, w) \cap BitsOf(x, w) = {}
          /\ known => Low({}, w) \cup Low(0 .. w - 1, w) = 0 .. w - 1
      BY <1>13, <3>3
    <3> QED
      BY <1>11, <3>2, <3>4, Zenon
  <2>6. CASE sc.sg /\ top \notin f.z /\ top \notin f.o
    <3>1. result = full_facts(sc)
      BY <1>15, <2>1, <2>6 DEF over_shift
    <3>2. ~known
      BY <1>10, <2>6 DEF known
    <3> QED
      BY <1>12, <3>1, <3>2
  <2>7. sc.sg \in BOOLEAN
    BY <1>1
  <2> QED
    BY <2>4, <2>5, <2>6, <2>7
<1>18. CASE ~(c.u.min >= w) /\ c.u.max < w /\ ~is_singleton(c.u)
  <2>1. result = variable_shift(f, c.u, TRUE, sc)
    BY <1>8, <1>18
  <2>2. ~known
    BY <1>18 DEF known
  <2>3. CASE is_known_zero(f)
    <3>1. result = AllZero(sc)
      BY <2>1, <2>3 DEF variable_shift
    <3>2. B = {}
      BY <1>1, <1>3, <2>3, KnownZero DEF B, w
    <3>3. BitsOf(x, w) = {}
      BY <1>5, <3>2
    <3> QED
      BY <1>16, <3>1, <3>3
  <2>4. CASE ~is_known_zero(f)
    <3>1. result = full_facts(sc)
      BY <2>1, <2>4 DEF variable_shift
    <3> QED
      BY <1>12, <2>2, <3>1
  <2> QED
    BY <2>3, <2>4
<1>19. CASE ~(c.u.min >= w) /\ c.u.max < w /\ is_singleton(c.u)
  <2> DEFINE zin == Right(f.z, n)
             oin == Right(f.o, n)
             in == high_mask(sc, n)
  <2>1. result = fixed_shift(f, n, TRUE, sc)
    BY <1>8, <1>9, <1>19
  <2>2. n < w
    BY <1>1, <1>2, <1>19
  <2>3. in = {i \in 0 .. w - 1 : ~(n + i < w)}
    BY <1>1, <1>2, <1>14 DEF high_mask, mask_for_width
  <2>4. ASSUME NEW i \in 0 .. w - 1, NEW s \in {f.z, f.o}
        PROVE  i \in Right(s, n) <=> n + i < w /\ n + i \in s
    <3>1. s \subseteq 0 .. w - 1
      BY <1>4
    <3>2. ASSUME i \in Right(s, n) PROVE n + i < w /\ n + i \in s
      <4>1. PICK j \in s : j >= n /\ i = j - n
        BY <3>2 DEF Right
      <4>2. j \in 0 .. w - 1
        BY <3>1
      <4>3. n + i = j
        BY <1>2, <4>1, <4>2
      <4> QED
        BY <1>1, <4>2, <4>3
    <3>3. ASSUME n + i \in s PROVE i \in Right(s, n)
      <4>1. n + i >= n /\ i = (n + i) - n
        BY <1>2
      <4> QED
        BY <3>3, <4>1 DEF Right
    <3> QED
      BY <3>2, <3>3
  <2>5. /\ \A i \in 0 .. w - 1 : i \in zin <=> n + i < w /\ n + i \in f.z
        /\ \A i \in 0 .. w - 1 : i \in oin <=> n + i < w /\ n + i \in f.o
    BY <2>4
  <2> HIDE DEF zin, oin, in
  <2>6. \A i \in 0 .. w - 1 : n + i < w => n + i \in 0 .. w - 1
    BY <1>1, <1>2
  <2>7. known => \A i \in 0 .. w - 1 : n + i < w => n + i \in f.z \/ n + i \in f.o
    BY <1>4, <2>6 DEF known
  <2>8. \A s : Low(s, w) = {i \in 0 .. w - 1 : i \in s}
    BY DEF Low, mask_for_width
  <2>9. \A i \in 0 .. w - 1 : i \in BitsOf(x, w) <=> IF n + i < w THEN n + i \in B ELSE sc.sg /\ top \in B
    BY <1>5
  <2>10. \A i \in 0 .. w - 1 : i \in in <=> ~(n + i < w)
    BY <2>3
  <2>11. CASE ~sc.sg \/ top \in f.z
    <3>1. result = facts_from_known_bits(sc, zin \cup in, oin)
      BY <1>15, <2>1, <2>11, Zenon DEF fixed_shift, zin, oin, in
    <3>2. ~(sc.sg /\ top \in B)
      BY <1>4, <2>11
    <3>3. Low(oin, w) \subseteq BitsOf(x, w)
      BY <1>4, <2>5, <2>8, <2>9
    <3>4. Low(zin \cup in, w) \cap BitsOf(x, w) = {}
      BY <1>4, <2>5, <2>8, <2>9, <2>10, <3>2
    <3>5. known => Low(zin \cup in, w) \cup Low(oin, w) = 0 .. w - 1
      BY <2>5, <2>7, <2>8, <2>10
    <3> QED
      BY <1>11, <3>1, <3>3, <3>4, <3>5, Zenon
  <2>12. CASE sc.sg /\ top \notin f.z /\ top \in f.o
    <3>1. result = facts_from_known_bits(sc, zin, oin \cup in)
      BY <1>15, <2>1, <2>12 DEF fixed_shift, zin, oin, in
    <3>2. sc.sg /\ top \in B
      BY <1>4, <2>12
    <3>3. Low(oin \cup in, w) \subseteq BitsOf(x, w)
      BY <1>4, <2>5, <2>8, <2>9, <2>10, <3>2
    <3>4. Low(zin, w) \cap BitsOf(x, w) = {}
      BY <1>4, <2>5, <2>8, <2>9
    <3>5. known => Low(zin, w) \cup Low(oin \cup in, w) = 0 .. w - 1
      BY <2>5, <2>7, <2>8, <2>10
    <3> QED
      BY <1>11, <3>1, <3>3, <3>4, <3>5, Zenon
  <2>13. CASE sc.sg /\ top \notin f.z /\ top \notin f.o
    <3>1. result = facts_from_known_bits(sc, zin, oin)
      BY <1>15, <2>1, <2>13 DEF fixed_shift, zin, oin
    <3>2. ~known
      BY <1>10, <2>13 DEF known
    <3>3. Low(oin, w) \subseteq BitsOf(x, w)
      BY <1>4, <2>5, <2>8, <2>9
    <3>4. Low(zin, w) \cap BitsOf(x, w) = {}
      BY <1>4, <2>5, <2>8, <2>9
    <3> QED
      BY <1>11, <3>1, <3>2, <3>3, <3>4, Zenon
  <2>14. sc.sg \in BOOLEAN
    BY <1>1
  <2> QED
    BY <2>11, <2>12, <2>13, <2>14
<1>20. CASE ~(c.u.min >= w) /\ ~(c.u.max < w)
  <2>1. result = full_facts(sc)
    BY <1>8, <1>20
  <2>2. ~known
    BY <1>1, <1>2, <1>9, <1>20 DEF known
  <2> QED
    BY <1>12, <2>1, <2>2
<1> QED
  BY <1>17, <1>18, <1>19, <1>20

\* A cast keeps the value, whose bits above the source's repeat its sign.
LEMMA CastKeepsBits ==
  ASSUME NEW ty \in Types, NEW to \in Integral, NEW v \in ValuesOf(ty), NEW f, BitsTrue(f, ty, v)
  PROVE  Follows(cast_facts(f, to), to, Wrap(to, v), is_singleton(f.u))
<1> DEFINE w == W(ty)
           top == w - 1
           n == W(to)
           sg == scalar_type(ty).sg
           B == BitsOf(v, w)
           new == (0 .. n - 1) \ (0 .. w - 1)
           zero == IF ~sg \/ top \in f.z THEN f.z \cup new ELSE f.z
           one == IF sg /\ top \in f.o THEN f.o \cup new ELSE f.o
           known == is_singleton(f.u)
<1>1. /\ n \in Nat /\ HasScalar(to) /\ scalar_type(to).w = n
      /\ w \in Nat \ {0} /\ top \in Nat /\ sg \in BOOLEAN /\ top \in 0 .. w - 1
  BY Widths, WidthOfType DEF W
<1>2. f.w = w /\ f.sg = sg
  BY BitsGiveRanges
<1>3. /\ f.o \subseteq B /\ f.z \subseteq (0 .. w - 1) \ B /\ B \subseteq 0 .. w - 1
      /\ known => f.z \cup f.o = 0 .. w - 1
  BY KnownBitsOfType
<1>4. v \in Int /\ -(2 ^ w) <= v /\ v < 2 ^ w /\ (v < 0 <=> sg /\ top \in B)
  BY Values, SignBit
<1>5. cast_facts(f, to) = facts_from_known_bits(scalar_type(to), zero, one)
  BY <1>1, <1>2 DEF cast_facts, mask_for_width
<1>6. ASSUME NEW i \in 0 .. n - 1, i \notin new PROVE HasBit(v, i) <=> i \in B
  <2>1. i \in 0 .. w - 1
    BY <1>6
  <2> QED
    BY <2>1, BitsAreBits, Zenon
<1>7. ASSUME NEW i \in new PROVE HasBit(v, i) <=> sg /\ top \in B
  <2>1. i \in Nat /\ i >= w
    BY <1>1
  <2> QED
    BY <1>1, <1>4, <2>1, HighBits
<1>8. BitsOf(v, n) = {i \in 0 .. n - 1 : HasBit(v, i)}
  BY BitsAreBits
<1>9. \A s : Low(s, n) = {i \in 0 .. n - 1 : i \in s}
  BY DEF Low, mask_for_width
<1>10. new \subseteq 0 .. n - 1 /\ \A i \in 0 .. n - 1 : i \notin new => i \in 0 .. w - 1
  OBVIOUS
<1>11. \A i \in 0 .. w - 1 : i \notin new
  OBVIOUS
<1> HIDE DEF w, top, n, sg, B, new, known
<1>12. Low(one, n) \subseteq BitsOf(v, n)
  <2> SUFFICES ASSUME NEW i \in 0 .. n - 1, i \in one PROVE HasBit(v, i)
    BY <1>8, <1>9
  <2>1. CASE i \in new
    <3>1. i \notin f.o
      BY <1>3, <1>11, <2>1
    <3>2. sg /\ top \in f.o
      BY <3>1
    <3> QED
      BY <1>3, <1>7, <2>1, <3>2
  <2>2. CASE i \notin new
    <3>1. i \in f.o
      BY <2>2
    <3> QED
      BY <1>3, <1>6, <2>2, <3>1
  <2> QED
    BY <2>1, <2>2
<1>13. Low(zero, n) \cap BitsOf(v, n) = {}
  <2> SUFFICES ASSUME NEW i \in 0 .. n - 1, i \in zero PROVE ~HasBit(v, i)
    BY <1>8, <1>9
  <2>1. CASE i \in new
    <3>1. i \notin f.z
      BY <1>3, <1>11, <2>1
    <3>2. ~sg \/ top \in f.z
      BY <3>1
    <3> QED
      BY <1>3, <1>7, <2>1, <3>2
  <2>2. CASE i \notin new
    <3>1. i \in f.z
      BY <2>2
    <3> QED
      BY <1>3, <1>6, <2>2, <3>1
  <2> QED
    BY <2>1, <2>2
<1>14. known => Low(zero, n) \cup Low(one, n) = 0 .. n - 1
  <2> SUFFICES ASSUME known, NEW i \in 0 .. n - 1 PROVE i \in zero \cup one
    BY <1>9
  <2>1. f.z \cup f.o = 0 .. w - 1
    BY <1>3
  <2>2. CASE i \in new
    <3>1. top \in f.z \/ top \in f.o
      BY <1>1, <2>1
    <3>2. (~sg \/ top \in f.z) \/ (sg /\ top \in f.o)
      BY <1>1, <3>1
    <3> QED
      BY <2>2, <3>2
  <2>3. CASE i \notin new
    BY <1>10, <2>1, <2>3
  <2> QED
    BY <2>2, <2>3
<1> HIDE DEF zero, one
<1>15. Follows(facts_from_known_bits(scalar_type(to), zero, one), to, Wrap(to, v), known)
  BY <1>4, <1>12, <1>13, <1>14, MadeBitsFollow DEF n
<1> QED
  BY <1>5, <1>15 DEF known

---------------------------------------------------------------------------
(***************************************************************************)
(* The operators that give a truth value look at ranges alone.             *)
(***************************************************************************)
LEMMA TruthFollows ==
  ASSUME NEW b \in BOOLEAN, NEW result, NEW known,
         result = bool_fact(b) \/ (result = full_facts(bool_scalar) /\ ~known)
  PROVE  Follows(result, "bool", Bit(b), known)
<1>1. /\ Bit(b) \in ValuesOf("bool")
      /\ BitsTrue(bool_fact(b), "bool", Bit(b)) /\ Singletons(bool_fact(b))
  BY BoolFact
<1>2. "bool" \in Types /\ scalar_type("bool") = bool_scalar
  BY Widths DEF Types
<1>3. BitsTrue(full_facts(bool_scalar), "bool", Bit(b))
  BY <1>1, <1>2, FullFacts
<1>4. CASE result = bool_fact(b)
  BY <1>1, <1>4 DEF Follows
<1>5. CASE result = full_facts(bool_scalar) /\ ~known
  BY <1>1, <1>3, <1>5 DEF Follows
<1> QED
  BY <1>4, <1>5

\* What is_known_zero and is_known_nonzero tell of the value, and when they do.
LEMMA ZeroTests ==
  ASSUME NEW ty \in Types, NEW v \in ValuesOf(ty), NEW f, RangesTrue(f, ty, v)
  PROVE  /\ is_known_zero(f) => v = 0
         /\ is_known_nonzero(f) => v # 0
         /\ is_singleton(f.u) => is_known_zero(f) \/ is_known_nonzero(f)
         /\ ~(is_known_zero(f) /\ is_known_nonzero(f))
<1> DEFINE raw == Unread(ty, v)
<1>1. /\ f.w = W(ty) /\ f.u = Interval(f.u.min, f.u.max) /\ f.u.min \in Nat /\ f.u.max \in Nat
      /\ f.u.min <= raw /\ raw <= f.u.max
  BY DEF RangesTrue, Shaped, Holds
<1>2. W(ty) # 0 /\ 2 ^ (W(ty) - 1) \in Nat \ {0} /\ 2 ^ W(ty) \in Nat \ {0}
  BY WidthOfType
<1>3. v \in Int /\ raw = v % 2 ^ W(ty) /\ raw \in Nat
  BY Values
<1>4. 0 % 2 ^ W(ty) = 0
  BY <1>2, RemainderOfRange
<1>5. raw = 0 => v = 0
  <2> SUFFICES ASSUME raw = 0 PROVE v = 0
    OBVIOUS
  <2>1. SignedOf(W(ty), 0) = 0
    BY <1>2 DEF SignedOf
  <2>2. scalar_type(ty).sg \in BOOLEAN
    BY WidthOfType
  <2> QED
    BY <2>1, <2>2, Values, Zenon
<1>6. v = 0 => raw = 0
  BY <1>3, <1>4
<1>7. is_known_zero(f) <=> f.u.min = 0 /\ f.u.max = 0
  BY <1>1, <1>2 DEF is_known_zero, Interval
<1>8. is_known_nonzero(f) <=> f.u.min > 0
  BY <1>1, <1>2 DEF is_known_nonzero
<1> HIDE DEF raw
<1> QED
  BY <1>1, <1>3, <1>5, <1>6, <1>7, <1>8 DEF is_singleton

LEMMA NotKeepsFacts ==
  ASSUME NEW ty \in Integral, NEW v \in ValuesOf(ty), NEW f, RangesTrue(f, ty, v)
  PROVE  Follows(unary_facts("!", f, ty), "bool", Bit(v = 0), is_singleton(f.u))
<1> DEFINE result == unary_facts("!", f, ty)
<1>1. HasScalar(ty) /\ ty \in Types
  BY Widths DEF Types
<1>2. result = CASE is_known_zero(f) -> bool_fact(TRUE)
                 [] is_known_nonzero(f) -> bool_fact(FALSE)
                 [] OTHER -> full_facts(bool_scalar)
  BY <1>1 DEF unary_facts
<1>3. /\ is_known_zero(f) => v = 0
      /\ is_known_nonzero(f) => v # 0
      /\ is_singleton(f.u) => is_known_zero(f) \/ is_known_nonzero(f)
      /\ ~(is_known_zero(f) /\ is_known_nonzero(f))
  BY <1>1, ZeroTests
<1> HIDE DEF result
<1>4. result = bool_fact(v = 0) \/ (result = full_facts(bool_scalar) /\ ~is_singleton(f.u))
  <2>1. CASE is_known_zero(f)
    <3>1. (v = 0) = TRUE
      BY <1>3, <2>1
    <3> QED
      BY <1>2, <1>3, <2>1, <3>1
  <2>2. CASE is_known_nonzero(f)
    <3>1. (v = 0) = FALSE
      BY <1>3, <2>2
    <3> QED
      BY <1>2, <1>3, <2>2, <3>1
  <2>3. CASE ~is_known_zero(f) /\ ~is_known_nonzero(f)
    BY <1>2, <1>3, <2>3
  <2> QED
    BY <2>1, <2>2, <2>3
<1>5. (v = 0) \in BOOLEAN
  OBVIOUS
<1> DEFINE known == is_singleton(f.u)
           b == v = 0
<1> HIDE DEF known, b
<1>6. b \in BOOLEAN /\ (result = bool_fact(b) \/ (result = full_facts(bool_scalar) /\ ~known))
  BY <1>4, <1>5 DEF b, known
<1>7. Follows(result, "bool", Bit(b), known)
  BY <1>6, TruthFollows
<1> QED
  BY <1>7 DEF result, b, known

\* The range an operator that is signed or not reads off facts of its type.
LEMMA ActiveRange ==
  ASSUME NEW ty \in Types, NEW v \in ValuesOf(ty), NEW f, RangesTrue(f, ty, v)
  PROVE  LET a == active_range(f, scalar_type(ty).sg)
         IN  /\ a.min \in Int /\ a.max \in Int /\ a.min <= v /\ v <= a.max
             /\ a = Interval(a.min, a.max)
             /\ Singletons(f) => a.min = a.max
<1>1. scalar_type(ty).sg \in BOOLEAN
  BY WidthOfType
<1>2. CASE scalar_type(ty).sg
  BY <1>2, Values DEF active_range, RangesTrue, Shaped, Holds, Singletons, is_singleton
<1>3. CASE ~scalar_type(ty).sg
  BY <1>3, Values DEF active_range, RangesTrue, Shaped, Holds, Singletons, is_singleton
<1> QED
  BY <1>1, <1>2, <1>3

LEMMA ComparisonKeepsFacts ==
  ASSUME NEW ty \in Integral, NEW l \in ValuesOf(ty), NEW r \in ValuesOf(ty), NEW op \in Comparisons,
         NEW f, RangesTrue(f, ty, l), NEW g, RangesTrue(g, ty, r)
  PROVE  Follows(binary_facts(f, op, g, ty), "bool", Bit(Compare(op, l, r)),
                 Singletons(f) /\ Singletons(g))
<1> DEFINE result == binary_facts(f, op, g, ty)
           a == active_range(f, scalar_type(ty).sg)
           c == active_range(g, scalar_type(ty).sg)
           known == Singletons(f) /\ Singletons(g)
           apart == a.max < c.min \/ a.min > c.max
           same == is_singleton(a) /\ is_singleton(c) /\ a.min = c.min
           yes == CASE op = "<" -> a.max < c.min [] op = "<=" -> a.max <= c.min
                    [] op = ">" -> a.min > c.max [] op = ">=" -> a.min >= c.max
                    [] op = "==" -> same [] op = "!=" -> apart
           no == CASE op = "<" -> a.min >= c.max [] op = "<=" -> a.min > c.max
                   [] op = ">" -> a.max <= c.min [] op = ">=" -> a.max < c.min
                   [] op = "==" -> apart [] op = "!=" -> same
           b == Compare(op, l, r)
<1>1. ty \in Types /\ W(ty) # 0
  BY Widths DEF Types
<1>2. f.w # 0 /\ g.w # 0 /\ f.sg = scalar_type(ty).sg
  BY <1>1 DEF RangesTrue, Shaped
<1>3. result = CASE yes -> bool_fact(TRUE)
                 [] ~yes /\ no -> bool_fact(FALSE)
                 [] OTHER -> full_facts(bool_scalar)
  <2>1. op \notin {"&&", "||"} /\ op \in {"<", "<=", ">", ">=", "==", "!="}
    BY DEF Comparisons
  <2>2. result = comparison_facts(f, op, g)
    BY <2>1 DEF binary_facts
  <2>3. result = CASE f.w = 0 \/ g.w = 0 -> full_facts(bool_scalar)
                   [] f.w # 0 /\ g.w # 0 /\ yes -> bool_fact(TRUE)
                   [] f.w # 0 /\ g.w # 0 /\ ~yes /\ no -> bool_fact(FALSE)
                   [] OTHER -> full_facts(bool_scalar)
    BY <1>2, <2>2, Zenon DEF comparison_facts
  <2> HIDE DEF yes, no, result
  <2> QED
    BY <1>2, <2>3
<1>4. /\ a.min \in Int /\ a.max \in Int /\ a.min <= l /\ l <= a.max
      /\ Singletons(f) => a.min = a.max
  BY <1>1, ActiveRange
<1>5. /\ c.min \in Int /\ c.max \in Int /\ c.min <= r /\ r <= c.max
      /\ Singletons(g) => c.min = c.max
  BY <1>1, ActiveRange
<1>6. l \in Int /\ r \in Int
  BY <1>1, Values
<1> HIDE DEF a, c
<1>7. (yes => b) /\ (no => ~b) /\ (known => yes \/ no) /\ b \in BOOLEAN
  <2>1. CASE op = "<"
    BY <1>4, <1>5, <1>6, <2>1 DEF Compare
  <2>2. CASE op = "<="
    BY <1>4, <1>5, <1>6, <2>2 DEF Compare
  <2>3. CASE op = ">"
    BY <1>4, <1>5, <1>6, <2>3 DEF Compare
  <2>4. CASE op = ">="
    BY <1>4, <1>5, <1>6, <2>4 DEF Compare
  <2>5. CASE op = "=="
    BY <1>4, <1>5, <1>6, <2>5 DEF Compare, is_singleton
  <2>6. CASE op = "!="
    BY <1>4, <1>5, <1>6, <2>6 DEF Compare, is_singleton
  <2> QED
    BY <2>1, <2>2, <2>3, <2>4, <2>5, <2>6 DEF Comparisons
<1> HIDE DEF yes, no, b, known, result
<1>8. result = bool_fact(b) \/ (result = full_facts(bool_scalar) /\ ~known)
  <2>1. CASE yes
    <3>1. b = TRUE
      BY <1>7, <2>1
    <3> QED
      BY <1>3, <2>1, <3>1
  <2>2. CASE ~yes /\ no
    <3>1. b = FALSE
      BY <1>7, <2>2
    <3> QED
      BY <1>3, <2>2, <3>1
  <2>3. CASE ~yes /\ ~no
    BY <1>3, <1>7, <2>3
  <2> QED
    BY <2>1, <2>2, <2>3
<1>9. Follows(result, "bool", Bit(b), known)
  BY <1>7, <1>8, TruthFollows
<1> QED
  BY <1>9 DEF result, b, known

LEMMA LogicalKeepsFacts ==
  ASSUME NEW l \in ValuesOf("bool"), NEW r \in ValuesOf("bool"), NEW op \in {"&&", "||"},
         NEW f, RangesTrue(f, "bool", l), NEW g, RangesTrue(g, "bool", r)
  PROVE  Follows(binary_facts(f, op, g, "bool"), "bool",
                 CASE op = "&&" -> l * r [] op = "||" -> Bit(l + r > 0),
                 is_singleton(f.u) /\ is_singleton(g.u))
<1> DEFINE result == binary_facts(f, op, g, "bool")
           known == is_singleton(f.u) /\ is_singleton(g.u)
           b == IF op = "&&" THEN l # 0 /\ r # 0 ELSE l # 0 \/ r # 0
           stop == IF op = "&&" THEN is_known_zero(f) \/ is_known_zero(g)
                   ELSE is_known_nonzero(f) \/ is_known_nonzero(g)
           go == IF op = "&&" THEN is_known_nonzero(f) /\ is_known_nonzero(g)
                 ELSE is_known_zero(f) /\ is_known_zero(g)
<1>1. "bool" \in Types
  BY DEF Types
<1>2. l \in {0, 1} /\ r \in {0, 1}
  <2>1. ValuesOf("bool") = 0 .. 2 ^ 1 - 1
    BY Widths DEF ValuesOf, W
  <2> QED
    BY <2>1, SmallPowers
<1>3. (CASE op = "&&" -> l * r [] op = "||" -> Bit(l + r > 0)) = Bit(b)
  BY <1>2 DEF Bit
<1>4. result = CASE stop -> bool_fact(op = "||")
                 [] ~stop /\ go -> bool_fact(op = "&&")
                 [] OTHER -> full_facts(bool_scalar)
  <2>1. result = logical_facts(f, op, g)
    BY DEF binary_facts
  <2> QED
    BY <2>1, Zenon DEF logical_facts
<1>5. /\ is_known_zero(f) => l = 0
      /\ is_known_nonzero(f) => l # 0
      /\ is_singleton(f.u) => is_known_zero(f) \/ is_known_nonzero(f)
  BY <1>1, ZeroTests
<1>6. /\ is_known_zero(g) => r = 0
      /\ is_known_nonzero(g) => r # 0
      /\ is_singleton(g.u) => is_known_zero(g) \/ is_known_nonzero(g)
  BY <1>1, ZeroTests
<1>7. b \in BOOLEAN
  OBVIOUS
<1>8. (stop => b = (op = "||")) /\ (go => b = (op = "&&")) /\ (known => stop \/ go)
  <2>1. CASE op = "&&"
    BY <1>5, <1>6, <2>1
  <2>2. CASE op = "||"
    BY <1>5, <1>6, <2>2
  <2> QED
    BY <2>1, <2>2
<1> HIDE DEF stop, go, b, known, result
<1>9. result = bool_fact(b) \/ (result = full_facts(bool_scalar) /\ ~known)
  <2>1. CASE stop
    BY <1>4, <1>8, <2>1
  <2>2. CASE ~stop /\ go
    BY <1>4, <1>8, <2>2
  <2>3. CASE ~stop /\ ~go
    BY <1>4, <1>8, <2>3
  <2> QED
    BY <2>1, <2>2, <2>3
<1>10. Follows(result, "bool", Bit(b), known)
  BY <1>7, <1>9, TruthFollows
<1> QED
  BY <1>3, <1>10 DEF result, known

---------------------------------------------------------------------------
(***************************************************************************)
(* What an operator does to numbers between two bounds: the results at the *)
(* corners bound the others.                                               *)
(***************************************************************************)
LEMMA ProductGrows ==
  ASSUME NEW x \in Int, NEW y \in Int, x <= y, NEW z \in Int
  PROVE  /\ z >= 0 => x * z <= y * z
         /\ z <= 0 => y * z <= x * z
<1>1. y - x \in Nat
  OBVIOUS
<1>2. y * z - x * z = (y - x) * z
  OBVIOUS
<1>3. x * z \in Int /\ y * z \in Int /\ (y - x) * z \in Int
  OBVIOUS
<1>4. z >= 0 => (y - x) * z >= 0
  BY <1>1
<1>5. z <= 0 => (y - x) * z <= 0
  BY <1>1
<1> QED
  BY <1>2, <1>3, <1>4, <1>5

LEMMA QuotientGrows ==
  ASSUME NEW x \in Int, NEW y \in Int, x <= y, NEW d \in Nat \ {0}
  PROVE  x \div d <= y \div d
<1> DEFINE p == x \div d
           q == y \div d
<1>1. p \in Int /\ q \in Int /\ x = d * p + (x % d) /\ x % d \in 0 .. d - 1
  BY Division
<1>2. y = d * q + (y % d) /\ y % d \in 0 .. d - 1
  BY Division
<1> HIDE DEF p, q
<1>3. ASSUME p >= q + 1 PROVE FALSE
  <2>1. d * (q + 1) <= d * p
    BY <1>1, <1>2, <1>3, ProductGrows
  <2>2. d * (q + 1) = d * q + d
    BY <1>1
  <2>3. d * q \in Int /\ d * p \in Int
    BY <1>1
  <2> QED
    BY <1>1, <1>2, <2>1, <2>2, <2>3
<1>4. p <= q
  BY <1>1, <1>3
<1> QED
  BY <1>4 DEF p, q

LEMMA QuotientShrinks ==
  ASSUME NEW x \in Nat, NEW d \in Nat \ {0}, NEW e \in Nat \ {0}, d <= e
  PROVE  x \div e <= x \div d
<1> DEFINE p == x \div e
           q == x \div d
<1>1. p \in Int /\ x = e * p + (x % e) /\ x % e \in 0 .. e - 1
  BY Division
<1>2. q \in Int /\ x = d * q + (x % d) /\ x % d \in 0 .. d - 1
  BY Division
<1> HIDE DEF p, q
<1>3. p >= 0
  <2> SUFFICES ASSUME p <= -1 PROVE FALSE
    BY <1>1
  <2>1. p * e <= (-1) * e
    BY <1>1, ProductGrows
  <2>2. e * p = p * e /\ e * p \in Int /\ (-1) * e = -e
    BY <1>1
  <2> QED
    BY <1>1, <2>1, <2>2
<1>4. ASSUME p >= q + 1 PROVE FALSE
  <2>1. (q + 1) * d <= p * d
    BY <1>1, <1>2, <1>4, ProductGrows
  <2>2. d * p <= e * p
    BY <1>1, <1>3, ProductGrows
  <2>3. (q + 1) * d = d * q + d /\ p * d = d * p
    BY <1>1, <1>2
  <2>4. d * q \in Int /\ d * p \in Int /\ e * p \in Int
    BY <1>1, <1>2
  <2> QED
    BY <1>1, <1>2, <2>1, <2>2, <2>3, <2>4
<1>5. p <= q
  BY <1>1, <1>2, <1>4
<1> QED
  BY <1>5 DEF p, q

LEMMA QuotientOfNatural ==
  ASSUME NEW x \in Nat, NEW d \in Nat \ {0}
  PROVE  x \div d \in Nat
<1>1. x \div d \in Int
  BY Division
<1>2. 0 \div d <= x \div d
  BY QuotientGrows
<1>3. 0 \div d = 0
  <2>1. 0 = d * 0 + 0 /\ 0 \in 0 .. d - 1
    OBVIOUS
  <2> QED
    BY <2>1, DivisionUnique
<1> QED
  BY <1>1, <1>2, <1>3

\* Division toward zero, by a positive number.
LEMMA TruncatedGrows ==
  ASSUME NEW x \in Int, NEW y \in Int, x <= y, NEW d \in Nat \ {0}
  PROVE  /\ Truncated(x, d) \in Int /\ Truncated(y, d) \in Int
         /\ Truncated(x, d) <= Truncated(y, d)
<1>1. ASSUME NEW n \in Int
      PROVE  Truncated(n, d) = IF n >= 0 THEN n \div d ELSE -((-n) \div d)
  BY DEF Truncated
<1>2. ASSUME NEW n \in Nat PROVE n \div d \in Nat
  BY QuotientOfNatural
<1>3. ASSUME NEW n \in Int
      PROVE  /\ n >= 0 => Truncated(n, d) \in Nat
             /\ n < 0 => -Truncated(n, d) \in Nat /\ Truncated(n, d) \in Int
  <2>1. CASE n >= 0
    BY <1>1, <1>2, <2>1
  <2>2. CASE n < 0
    <3>1. -n \in Nat
      BY <2>2
    <3>2. (-n) \div d \in Nat
      BY <1>2, <3>1
    <3> QED
      BY <1>1, <2>2, <3>2
  <2> QED
    BY <2>1, <2>2
<1>4. CASE x >= 0
  <2>1. x \div d <= y \div d
    BY QuotientGrows
  <2> QED
    BY <1>1, <1>3, <1>4, <2>1
<1>5. CASE y < 0
  <2>1. (-y) \div d <= (-x) \div d
    BY <1>5, QuotientGrows
  <2>2. (-y) \div d \in Nat /\ (-x) \div d \in Nat
    <3>1. -y \in Nat /\ -x \in Nat
      BY <1>5
    <3> QED
      BY <1>2, <3>1
  <2> QED
    BY <1>1, <1>3, <1>5, <2>1, <2>2
<1>6. CASE x < 0 /\ y >= 0
  BY <1>3, <1>6
<1> QED
  BY <1>4, <1>5, <1>6

LEMMA TruncatedShrinks ==
  ASSUME NEW x \in Int, NEW d \in Nat \ {0}, NEW e \in Nat \ {0}, d <= e
  PROVE  /\ x >= 0 => Truncated(x, e) <= Truncated(x, d)
         /\ x < 0 => Truncated(x, d) <= Truncated(x, e)
<1>1. CASE x >= 0
  <2>0. x \in Nat
    BY <1>1
  <2>1. x \div e <= x \div d
    BY <2>0, QuotientShrinks
  <2> QED
    BY <1>1, <2>1 DEF Truncated
<1>2. CASE x < 0
  <2>1. -x \in Nat
    BY <1>2
  <2>2. (-x) \div e <= (-x) \div d
    BY <2>1, QuotientShrinks
  <2>3. (-x) \div e \in Nat /\ (-x) \div d \in Nat
    BY <2>1, QuotientOfNatural
  <2>4. Truncated(x, d) = -((-x) \div d) /\ Truncated(x, e) = -((-x) \div e)
    BY <1>2 DEF Truncated
  <2> QED
    BY <1>2, <2>2, <2>3, <2>4
<1> QED
  BY <1>1, <1>2

LEMMA TruncatedSign ==
  ASSUME NEW x \in Int, NEW d \in Nat \ {0}
  PROVE  Truncated(x, -d) = -Truncated(x, d) /\ Truncated(x, d) \in Int
<1>1. CASE x >= 0
  <2>1. x \div d \in Int
    BY Division
  <2> QED
    BY <1>1, <2>1 DEF Truncated
<1>2. CASE x < 0
  <2>1. (-x) \div d \in Int
    BY Division
  <2>2. Truncated(x, d) = -((-x) \div d) /\ Truncated(x, -d) = (-x) \div (-(-d)) /\ -(-d) = d
    BY <1>2 DEF Truncated
  <2> QED
    BY <2>1, <2>2
<1> QED
  BY <1>1, <1>2

\* The results at the corners of two ranges, and the least and the greatest.
LEMMA CornersBound ==
  ASSUME NEW a, NEW b,
         a.min \in Int, a.max \in Int, b.min \in Int, b.max \in Int,
         NEW l \in Int, NEW r \in Int, Holds(a, l), Holds(b, r),
         NEW op \in {"+", "-", "*", "/"}, op = "/" => ~Holds(b, 0)
  PROVE  LET x == exact_arithmetic(l, r, op)
         IN  /\ Corners(a, b, op) \subseteq Int /\ x \in Int
             /\ \E c \in Corners(a, b, op) : c <= x
             /\ \E d \in Corners(a, b, op) : x <= d
<1> DEFINE a1 == a.min
           a2 == a.max
           b1 == b.min
           b2 == b.max
           E(p, q) == exact_arithmetic(p, q, op)
           C == {E(a1, b1), E(a1, b2), E(a2, b1), E(a2, b2)}
<1>1. Corners(a, b, op) = C
  BY DEF Corners
<1>2. a1 \in Int /\ a2 \in Int /\ b1 \in Int /\ b2 \in Int /\ a1 <= l /\ l <= a2 /\ b1 <= r /\ r <= b2
  BY DEF Holds
<1> HIDE DEF a1, a2, b1, b2
<1> SUFFICES /\ C \subseteq Int /\ E(l, r) \in Int
             /\ \E c \in C : c <= E(l, r)
             /\ \E d \in C : E(l, r) <= d
  BY <1>1
<1>3. CASE op = "+"
  <2>1. \A p, q : E(p, q) = p + q
    BY <1>3 DEF exact_arithmetic
  <2>2. E(a1, b1) <= E(l, r) /\ E(l, r) <= E(a2, b2)
    BY <1>2, <2>1
  <2> QED
    BY <1>2, <2>1, <2>2
<1>4. CASE op = "-"
  <2>1. \A p, q : E(p, q) = p - q
    BY <1>4 DEF exact_arithmetic
  <2>2. E(a1, b2) <= E(l, r) /\ E(l, r) <= E(a2, b1)
    BY <1>2, <2>1
  <2> QED
    BY <1>2, <2>1, <2>2
<1>5. CASE op = "*"
  <2>1. \A p, q : E(p, q) = p * q
    BY <1>5 DEF exact_arithmetic
  <2>2. ASSUME NEW p \in Int, NEW q \in Int PROVE E(p, q) \in Int /\ E(p, q) = E(q, p)
    BY <2>1
  <2>3. ASSUME NEW p \in Int, NEW q \in Int, NEW z \in Int, p <= z, z <= q, NEW m \in Int
        PROVE  \/ E(p, m) <= E(z, m) /\ E(z, m) <= E(q, m)
               \/ E(q, m) <= E(z, m) /\ E(z, m) <= E(p, m)
    <3>1. CASE m >= 0
      BY <2>1, <2>3, <3>1, ProductGrows
    <3>2. CASE m <= 0
      BY <2>1, <2>3, <3>2, ProductGrows
    <3> QED
      BY <3>1, <3>2
  <2>4. \/ E(a1, r) <= E(l, r) /\ E(l, r) <= E(a2, r)
        \/ E(a2, r) <= E(l, r) /\ E(l, r) <= E(a1, r)
    BY <1>2, <2>3
  <2>5. ASSUME NEW m \in Int
        PROVE  \/ E(m, b1) <= E(m, r) /\ E(m, r) <= E(m, b2)
               \/ E(m, b2) <= E(m, r) /\ E(m, r) <= E(m, b1)
    <3>1. \/ E(b1, m) <= E(r, m) /\ E(r, m) <= E(b2, m)
          \/ E(b2, m) <= E(r, m) /\ E(r, m) <= E(b1, m)
      BY <1>2, <2>3
    <3>2. E(b1, m) = E(m, b1) /\ E(b2, m) = E(m, b2) /\ E(r, m) = E(m, r)
      BY <1>2, <2>2
    <3> QED
      BY <3>1, <3>2
  <2>6. /\ \/ E(a1, b1) <= E(a1, r) /\ E(a1, r) <= E(a1, b2)
           \/ E(a1, b2) <= E(a1, r) /\ E(a1, r) <= E(a1, b1)
        /\ \/ E(a2, b1) <= E(a2, r) /\ E(a2, r) <= E(a2, b2)
           \/ E(a2, b2) <= E(a2, r) /\ E(a2, r) <= E(a2, b1)
    BY <1>2, <2>5
  <2>7. /\ E(l, r) \in Int /\ E(a1, r) \in Int /\ E(a2, r) \in Int
        /\ E(a1, b1) \in Int /\ E(a1, b2) \in Int /\ E(a2, b1) \in Int /\ E(a2, b2) \in Int
    BY <1>2, <2>2
  <2> HIDE DEF E
  <2> QED
    BY <2>4, <2>6, <2>7
<1>6. CASE op = "/"
  <2>1. \A p, q : E(p, q) = Truncated(p, q)
    BY <1>6 DEF exact_arithmetic
  <2>2. b1 > 0 \/ b2 < 0
    BY <1>2, <1>6 DEF Holds, b1, b2
  \* One side of zero is the other with the results negated.
  <2>3. ASSUME NEW d1 \in Nat \ {0}, NEW d2 \in Nat \ {0}, NEW d \in Nat \ {0}, d1 <= d, d <= d2
        PROVE  /\ \E p \in {a1, a2}, q \in {d1, d2} : Truncated(p, q) <= Truncated(l, d)
               /\ \E p \in {a1, a2}, q \in {d1, d2} : Truncated(l, d) <= Truncated(p, q)
    <3>1. /\ Truncated(a1, d) <= Truncated(l, d) /\ Truncated(l, d) <= Truncated(a2, d)
          /\ Truncated(a1, d) \in Int /\ Truncated(l, d) \in Int /\ Truncated(a2, d) \in Int
      BY <1>2, TruncatedGrows
    <3>2. ASSUME NEW p \in {a1, a2}
          PROVE  /\ Truncated(p, d1) \in Int /\ Truncated(p, d2) \in Int
                 /\ \/ Truncated(p, d2) <= Truncated(p, d) /\ Truncated(p, d) <= Truncated(p, d1)
                    \/ Truncated(p, d1) <= Truncated(p, d) /\ Truncated(p, d) <= Truncated(p, d2)
      <4>1. p \in Int
        BY <1>2
      <4>2. Truncated(p, d1) \in Int /\ Truncated(p, d2) \in Int
        BY <4>1, TruncatedSign
      <4>3. /\ p >= 0 => Truncated(p, d2) <= Truncated(p, d) /\ Truncated(p, d) <= Truncated(p, d1)
            /\ p < 0 => Truncated(p, d1) <= Truncated(p, d) /\ Truncated(p, d) <= Truncated(p, d2)
        BY <2>3, <4>1, TruncatedShrinks
      <4> QED
        BY <4>1, <4>2, <4>3
    <3>3. \E q \in {d1, d2} : Truncated(a1, q) <= Truncated(l, d)
      BY <3>1, <3>2
    <3>4. \E q \in {d1, d2} : Truncated(l, d) <= Truncated(a2, q)
      BY <3>1, <3>2
    <3> QED
      BY <3>3, <3>4
  <2>4. CASE b1 > 0
    <3>1. b1 \in Nat \ {0} /\ r \in Nat \ {0} /\ b2 \in Nat \ {0}
      BY <1>2, <2>4
    <3>2. /\ \E p \in {a1, a2}, q \in {b1, b2} : E(p, q) <= E(l, r)
          /\ \E p \in {a1, a2}, q \in {b1, b2} : E(l, r) <= E(p, q)
      BY <1>2, <2>1, <2>3, <3>1
    <3>3. E(l, r) \in Int /\ C \subseteq Int
      <4>1. ASSUME NEW p \in Int, NEW q \in Nat \ {0} PROVE E(p, q) \in Int
        BY <2>1, TruncatedSign
      <4> QED
        BY <1>2, <3>1, <4>1
    <3>4. \A p \in {a1, a2}, q \in {b1, b2} : E(p, q) \in C
      OBVIOUS
    <3> HIDE DEF E, C
    <3> QED
      BY <3>2, <3>3, <3>4
  <2>5. CASE b2 < 0
    <3>1. -b1 \in Nat \ {0} /\ -r \in Nat \ {0} /\ -b2 \in Nat \ {0} /\ -b2 <= -r /\ -r <= -b1
      BY <1>2, <2>5
    <3>2. /\ \E p \in {a1, a2}, q \in {-b2, -b1} : Truncated(p, q) <= Truncated(l, -r)
          /\ \E p \in {a1, a2}, q \in {-b2, -b1} : Truncated(l, -r) <= Truncated(p, q)
      BY <2>3, <3>1
    <3>3. ASSUME NEW p \in Int, NEW q \in Int, -q \in Nat \ {0}
          PROVE  E(p, q) = -Truncated(p, -q) /\ Truncated(p, -q) \in Int /\ E(p, q) \in Int
      <4>1. Truncated(p, -(-q)) = -Truncated(p, -q) /\ Truncated(p, -q) \in Int
        BY <3>3, TruncatedSign
      <4>2. -(-q) = q
        OBVIOUS
      <4> QED
        BY <2>1, <4>1, <4>2
    <3>4. E(l, r) = -Truncated(l, -r) /\ Truncated(l, -r) \in Int /\ E(l, r) \in Int
      BY <3>1, <3>3
    <3>5. \A p \in {a1, a2} : \A q \in {b1, b2} :
            E(p, q) = -Truncated(p, -q) /\ Truncated(p, -q) \in Int /\ E(p, q) \in Int
      <4>1. a1 \in Int /\ a2 \in Int /\ b1 \in Int /\ b2 \in Int
        BY <1>2
      <4> HIDE DEF E
      <4> SUFFICES ASSUME NEW p \in {a1, a2}, NEW q \in {b1, b2}
                   PROVE  E(p, q) = -Truncated(p, -q) /\ Truncated(p, -q) \in Int /\ E(p, q) \in Int
        OBVIOUS
      <4>2. p \in Int /\ q \in Int /\ -q \in Nat \ {0}
        BY <3>1, <4>1
      <4> QED
        BY <3>3, <4>2, Zenon
    <3>6. C \subseteq Int /\ \A p \in {a1, a2}, q \in {b1, b2} : E(p, q) \in C
      BY <3>5
    <3> HIDE DEF E, C
    <3>7. \E d \in C : E(l, r) <= d
      <4>1. PICK p \in {a1, a2}, q \in {-b2, -b1} : Truncated(p, q) <= Truncated(l, -r)
        BY <3>2
      <4>2. PICK s \in {b1, b2} : q = -s
        OBVIOUS
      <4>3. E(p, s) = -Truncated(p, q) /\ Truncated(p, q) \in Int
        BY <3>5, <4>2
      <4>4. E(l, r) <= E(p, s)
        BY <3>4, <4>1, <4>3
      <4> QED
        BY <3>6, <4>4
    <3>8. \E c \in C : c <= E(l, r)
      <4>1. PICK p \in {a1, a2}, q \in {-b2, -b1} : Truncated(l, -r) <= Truncated(p, q)
        BY <3>2
      <4>2. PICK s \in {b1, b2} : q = -s
        OBVIOUS
      <4>3. E(p, s) = -Truncated(p, q) /\ Truncated(p, q) \in Int
        BY <3>5, <4>2
      <4>4. E(p, s) <= E(l, r)
        BY <3>4, <4>1, <4>3
      <4> QED
        BY <3>6, <4>4
    <3> QED
      BY <3>4, <3>6, <3>7, <3>8
  <2> QED
    BY <2>2, <2>4, <2>5
<1> QED
  BY <1>3, <1>4, <1>5, <1>6

\* The least and the greatest of the four.
LEMMA ExtremesOfFour ==
  ASSUME NEW p \in Int, NEW q \in Int, NEW s \in Int, NEW u \in Int
  PROVE  LET S == {p, q, s, u}
         IN  /\ Min(S) \in S /\ \A y \in S : Min(S) <= y
             /\ Max(S) \in S /\ \A y \in S : Max(S) >= y
<1> DEFINE S == {p, q, s, u}
<1>1. \E x \in S : \A y \in S : x <= y
  OBVIOUS
<1>2. \E x \in S : \A y \in S : x >= y
  OBVIOUS
<1> HIDE DEF S
<1>3. Min(S) \in S /\ \A y \in S : Min(S) <= y
  BY <1>1, Zenon DEF Min
<1>4. Max(S) \in S /\ \A y \in S : Max(S) >= y
  BY <1>2, Zenon DEF Max
<1> QED
  BY <1>3, <1>4 DEF S

LEMMA HullHolds ==
  ASSUME NEW a, NEW b,
         a.min \in Int, a.max \in Int, b.min \in Int, b.max \in Int,
         NEW l \in Int, NEW r \in Int, Holds(a, l), Holds(b, r),
         NEW op \in {"+", "-", "*", "/"}, op = "/" => ~Holds(b, 0),
         NEW bounds, Fits(Corners(a, b, op), bounds)
  PROVE  LET x == exact_arithmetic(l, r, op)
             C == Corners(a, b, op)
         IN  /\ x \in Int /\ Min(C) \in Int /\ Max(C) \in Int
             /\ Hull(C) = Interval(Min(C), Max(C))
             /\ bounds.min <= Min(C) /\ Min(C) <= x /\ x <= Max(C) /\ Max(C) <= bounds.max
<1> DEFINE x == exact_arithmetic(l, r, op)
           C == Corners(a, b, op)
<1>1. C \subseteq Int /\ x \in Int /\ (\E c \in C : c <= x) /\ (\E d \in C : x <= d)
  BY CornersBound, Zenon
<1>2. /\ Min(C) \in C /\ \A y \in C : Min(C) <= y
      /\ Max(C) \in C /\ \A y \in C : Max(C) >= y
  <2> DEFINE p == exact_arithmetic(a.min, b.min, op)
             q == exact_arithmetic(a.min, b.max, op)
             s == exact_arithmetic(a.max, b.min, op)
             u == exact_arithmetic(a.max, b.max, op)
  <2>1. C = {p, q, s, u}
    BY DEF Corners
  <2> HIDE DEF C, p, q, s, u
  <2>2. p \in Int /\ q \in Int /\ s \in Int /\ u \in Int
    BY <1>1, <2>1
  <2>3. /\ Min({p, q, s, u}) \in {p, q, s, u} /\ \A y \in {p, q, s, u} : Min({p, q, s, u}) <= y
        /\ Max({p, q, s, u}) \in {p, q, s, u} /\ \A y \in {p, q, s, u} : Max({p, q, s, u}) >= y
    BY <2>2, ExtremesOfFour
  <2> QED
    BY <2>1, <2>3, Zenon
<1>3. \A c \in C : Holds(bounds, c)
  BY DEF Fits
<1>4. Hull(C) = Interval(Min(C), Max(C))
  BY DEF Hull
<1> HIDE DEF x, C
<1>5. Min(C) \in Int /\ Max(C) \in Int /\ bounds.min <= Min(C) /\ Max(C) <= bounds.max
  BY <1>1, <1>2, <1>3 DEF Holds
<1>6. Min(C) <= x /\ x <= Max(C)
  <2>1. PICK c \in C : c <= x
    BY <1>1
  <2>2. PICK d \in C : x <= d
    BY <1>1
  <2>3. Min(C) <= c /\ d <= Max(C) /\ c \in Int /\ d \in Int
    BY <1>1, <1>2, <1>5
  <2> QED
    BY <1>1, <1>5, <2>1, <2>2, <2>3
<1> QED
  BY <1>1, <1>4, <1>5, <1>6 DEF x, C

---------------------------------------------------------------------------
(***************************************************************************)
(* Arithmetic: the range that results holds the exact result, and where    *)
(* the exact result may not fit, every value of the type.                  *)
(***************************************************************************)
\* The result of an operator of which only the ranges are promised.
RangesFollow(f, ty, v, known) ==
  /\ v \in ValuesOf(ty)
  /\ RangesTrue(f, ty, v)
  /\ known => Singletons(f)

LEMMA FollowsRanges ==
  ASSUME NEW ty \in Types, NEW f, NEW v, NEW known, Follows(f, ty, v, known)
  PROVE  RangesFollow(f, ty, v, known)
BY BitsGiveRanges DEF Follows, RangesFollow

LEMMA FullRangesFollow ==
  ASSUME NEW ty \in Integral, NEW x \in Int
  PROVE  RangesFollow(full_facts(scalar_type(ty)), ty, Wrap(ty, x), FALSE)
<1>1. Follows(full_facts(scalar_type(ty)), ty, Wrap(ty, x), FALSE)
  BY FullFactsFollow
<1> QED
  BY <1>1, FollowsRanges DEF Types

\* One number, whichever of its representations was computed.
LEMMA OneValueFollows ==
  ASSUME NEW ty \in Integral, NEW x \in Int, NEW y \in Int, x % 2 ^ W(ty) = y % 2 ^ W(ty)
  PROVE  RangesFollow(facts_from_raw_value(scalar_type(ty), y), ty, Wrap(ty, x), TRUE)
<1> DEFINE f == facts_from_raw_value(scalar_type(ty), y)
           v == Wrap(ty, x)
<1>1. ty \in Types /\ v \in ValuesOf(ty) /\ Unread(ty, v) = y % 2 ^ W(ty)
  BY Wrapped DEF Types
<1>2. BitsTrue(f, ty, v) /\ Singletons(f)
  BY <1>1, RawValue
<1> HIDE DEF f, v
<1>3. Follows(f, ty, v, TRUE)
  BY <1>1, <1>2 DEF Follows
<1> QED
  BY <1>1, <1>3, FollowsRanges DEF f, v

LEMMA RawRangeFollows ==
  ASSUME NEW ty \in Integral, NEW x \in Int, NEW a \in Nat, NEW b \in Nat,
         a <= x % 2 ^ W(ty), x % 2 ^ W(ty) <= b, b < 2 ^ W(ty)
  PROVE  RangesFollow(facts_from_raw_range(scalar_type(ty), Interval(a, b)), ty, Wrap(ty, x), a = b)
<1> DEFINE f == facts_from_raw_range(scalar_type(ty), Interval(a, b))
           v == Wrap(ty, x)
<1>1. ty \in Types /\ v \in ValuesOf(ty) /\ Unread(ty, v) = x % 2 ^ W(ty)
  BY Wrapped DEF Types
<1> HIDE DEF v
<1>2. a <= Unread(ty, v) /\ Unread(ty, v) <= b
  BY <1>1
<1>3. RangesTrue(f, ty, v) /\ (a = b => Singletons(f))
  BY <1>1, <1>2, RawRange
<1> HIDE DEF f
<1> QED
  BY <1>1, <1>3 DEF f, v, RangesFollow

LEMMA SignedRangeFollows ==
  ASSUME NEW ty \in Integral, Signed(ty), NEW x \in Int, NEW a \in Int, NEW b \in Int,
         a <= x, x <= b,
         signed_bounds(scalar_type(ty)).min <= a, b <= signed_bounds(scalar_type(ty)).max
  PROVE  RangesFollow(facts_from_signed_range(scalar_type(ty), Interval(a, b)), ty, Wrap(ty, x), a = b)
<1> DEFINE f == facts_from_signed_range(scalar_type(ty), Interval(a, b))
           v == Wrap(ty, x)
           w == W(ty)
           P == 2 ^ w
           H == 2 ^ (w - 1)
<1>1. ty \in Types /\ v \in ValuesOf(ty) /\ v = SignedOf(w, x % P) /\ w > 1
  BY Wrapped, Widths DEF Types
<1>2. P = 2 * H /\ H \in Nat \ {0} /\ P \in Nat \ {0}
  BY <1>1, WidthOfType
<1>3. SignedOf(w, x % P) = IF w > 1 /\ x % P >= H THEN (x % P) - P ELSE x % P
  BY DEF SignedOf
<1>4. signed_bounds(scalar_type(ty)).min = -H /\ signed_bounds(scalar_type(ty)).max = H - 1
  BY <1>1, SignedBounds, IntervalEnds
<1> HIDE DEF v, w, P, H
<1>5. -H <= x /\ x <= H - 1
  BY <1>2, <1>4
<1>6. v = x
  <2>1. CASE x >= 0
    <3>1. x % P = x
      BY <1>2, <1>5, <2>1, RemainderOfRange
    <3> QED
      BY <1>1, <1>2, <1>3, <1>5, <3>1
  <2>2. CASE x < 0
    <3>0. -P <= x
      BY <1>2, <1>5
    <3>1. x % P = x + P
      BY <1>2, <2>2, <3>0, RemainderOfRange
    <3> QED
      BY <1>1, <1>2, <1>3, <1>5, <2>2, <3>1
  <2> QED
    BY <2>1, <2>2
<1>7. AsSigned(ty, v) = v
  BY <1>1, Values, Widths
<1>8. a <= AsSigned(ty, v) /\ AsSigned(ty, v) <= b
  BY <1>6, <1>7
<1>9. RangesTrue(f, ty, v) /\ (a = b => Singletons(f))
  BY <1>1, <1>8, SignedRange
<1> HIDE DEF f
<1> QED
  BY <1>1, <1>9 DEF f, v, RangesFollow

LEMMA NegateKeepsRanges ==
  ASSUME NEW ty \in Integral, NEW v \in ValuesOf(ty), NEW f, RangesTrue(f, ty, v)
  PROVE  RangesFollow(unary_facts("-", f, ty), ty, Wrap(ty, -v), is_singleton(f.u))
<1> DEFINE sc == scalar_type(ty)
           m == 2 ^ W(ty)
           raw == Unread(ty, v)
           known == is_singleton(f.u)
           result == unary_facts("-", f, ty)
           signed == Interval(-f.s.max, -f.s.min)
           range == Interval((m - f.u.max) % m, (m - f.u.min) % m)
           b == signed_bounds(sc)
<1>1. ty \in Types /\ HasScalar(ty) /\ sc.w = W(ty) /\ W(ty) # 0 /\ sc.sg = Signed(ty) /\ sc.sg \in BOOLEAN
      /\ m \in Nat \ {0}
  BY Widths, WidthOfType DEF Types, W
<1>2. /\ f.w # 0
      /\ f.u.min \in Nat /\ f.u.max \in Nat /\ f.u.min <= raw /\ raw <= f.u.max /\ f.u.max < m
      /\ f.s.min \in Int /\ f.s.max \in Int
      /\ f.s.min <= AsSigned(ty, v) /\ AsSigned(ty, v) <= f.s.max
  BY <1>1 DEF RangesTrue, Shaped, Holds
<1>3. /\ v \in Int /\ raw \in 0 .. m - 1 /\ raw = v % m
      /\ sc.sg => v = AsSigned(ty, v)
  BY <1>1, Values
<1>4. result = CASE known -> facts_from_raw_value(sc, -f.u.min)
                 [] ~known /\ sc.sg /\ signed.min >= b.min /\ signed.max <= b.max ->
                      facts_from_signed_range(sc, signed)
                 [] ~known /\ ~sc.sg /\ f.u.max <= m - f.u.min /\ range.min <= range.max ->
                      facts_from_raw_range(sc, range)
                 [] OTHER -> full_facts(sc)
  <2>1. result = negate_facts(f, sc)
    BY <1>1 DEF unary_facts
  <2>2. result = CASE f.w # 0 /\ known -> facts_from_raw_value(sc, -f.u.min)
                   [] f.w # 0 /\ ~known /\ sc.sg /\ signed.min >= b.min /\ signed.max <= b.max ->
                        facts_from_signed_range(sc, signed)
                   [] f.w # 0 /\ ~known /\ ~sc.sg /\ f.u.max <= m - f.u.min /\ range.min <= range.max ->
                        facts_from_raw_range(sc, range)
                   [] OTHER -> full_facts(sc)
    BY <1>1, <2>1 DEF negate_facts
  <2> HIDE DEF known, signed, range, b, result, sc, m
  <2> QED
    BY <1>2, <2>2
<1>5. RangesFollow(full_facts(sc), ty, Wrap(ty, -v), FALSE)
  <2>1. -v \in Int
    BY <1>3
  <2> QED
    BY <2>1, FullRangesFollow
<1>6. (-v) % m = IF raw = 0 THEN 0 ELSE m - raw
  <2>1. v = m * (v \div m) + raw /\ v \div m \in Int
    BY <1>1, <1>3, Division
  <2>2. CASE raw = 0
    <3>1. -v = m * (-(v \div m)) + 0 /\ -(v \div m) \in Int /\ 0 \in 0 .. m - 1
      BY <1>1, <2>1, <2>2
    <3> QED
      BY <1>1, <2>2, <3>1, DivisionUnique
  <2>3. CASE raw # 0
    <3> DEFINE q == v \div m
               n == -q - 1
    <3>1. n \in Int /\ m - raw \in 0 .. m - 1 /\ q \in Int
      <4>1. q \in Int
        BY <2>1
      <4> HIDE DEF q, m, raw
      <4>2. m - raw \in 0 .. m - 1
        BY <1>1, <1>3, <2>3
      <4> QED
        BY <4>1, <4>2
    <3>2. m * n = -(m * q) - m /\ m * q \in Int
      BY <1>1, <3>1
    <3>3. -v = m * n + (m - raw)
      BY <1>1, <1>3, <2>1, <3>2
    <3> HIDE DEF n
    <3>4. (m * n + (m - raw)) % m = m - raw
      BY <1>1, <3>1, DivisionUnique
    <3> QED
      BY <2>3, <3>3, <3>4
  <2> QED
    BY <2>2, <2>3
<1>7. SUFFICES RangesFollow(result, ty, Wrap(ty, -v), known)
  OBVIOUS
<1> HIDE DEF m, raw, known, result, signed, range, b, sc
<1>8. CASE known
  <2>1. f.u.min = raw
    BY <1>2, <1>3, <1>8 DEF known, is_singleton
  <2>2. (-raw) % m = (-v) % m
    <3>1. CASE raw = 0
      BY <1>1, <1>6, <3>1, RemainderOfRange
    <3>2. CASE raw # 0
      <4>1. -raw \in Int /\ -raw < 0 /\ -m <= -raw
        BY <1>1, <1>3, <3>2
      <4>2. (-raw) % m = -raw + m
        BY <1>1, <4>1, RemainderOfRange
      <4> QED
        BY <1>1, <1>3, <1>6, <3>2, <4>2
    <3> QED
      BY <3>1, <3>2
  <2>3. result = facts_from_raw_value(sc, -raw)
    BY <1>4, <1>8, <2>1
  <2>4. -raw \in Int /\ -v \in Int
    BY <1>3
  <2>5. RangesFollow(facts_from_raw_value(sc, -raw), ty, Wrap(ty, -v), TRUE)
    BY <2>2, <2>4, OneValueFollows DEF m, sc
  <2> QED
    BY <2>3, <2>5 DEF RangesFollow
<1>9. CASE ~known /\ sc.sg /\ signed.min >= b.min /\ signed.max <= b.max
  <2>1. result = facts_from_signed_range(sc, signed)
    BY <1>4, <1>9
  <2>2. signed = Interval(-f.s.max, -f.s.min) /\ signed.min = -f.s.max /\ signed.max = -f.s.min
    BY IntervalEnds DEF signed
  <2> DEFINE lo == -f.s.max
             hi == -f.s.min
             x == -v
  <2>3. lo \in Int /\ hi \in Int /\ x \in Int /\ lo <= x /\ x <= hi
    BY <1>2, <1>3, <1>9
  <2>4. b.min <= lo /\ hi <= b.max /\ Signed(ty)
    BY <1>1, <1>9, <2>2, <2>3 
  <2> HIDE DEF lo, hi, x
  <2>5. RangesFollow(facts_from_signed_range(sc, Interval(lo, hi)), ty, Wrap(ty, x), lo = hi)
    BY <2>3, <2>4, SignedRangeFollows DEF b, sc
  <2> QED
    BY <1>9, <2>1, <2>2, <2>5 DEF RangesFollow, lo, hi, x
<1>10. CASE ~known /\ ~sc.sg /\ f.u.max <= m - f.u.min /\ range.min <= range.max
  <2>1. result = facts_from_raw_range(sc, range)
    BY <1>4, <1>10
  <2>2. range = Interval((m - f.u.max) % m, (m - f.u.min) % m)
        /\ range.min = (m - f.u.max) % m /\ range.max = (m - f.u.min) % m
    BY IntervalEnds DEF range
  <2>3. f.u.min < f.u.max
    BY <1>2, <1>3, <1>10 DEF known, is_singleton
  <2>4. (m - f.u.max) % m = m - f.u.max
    <3>1. m - f.u.max \in 0 .. m - 1 /\ m - f.u.max \in Int
      BY <1>1, <1>2, <2>3
    <3> QED
      BY <1>1, <3>1, RemainderOfRange
  <2>5. f.u.min > 0
    <3> SUFFICES ASSUME f.u.min = 0 PROVE FALSE
      BY <1>2
    <3>1. m = m * 1 + 0 /\ 0 \in 0 .. m - 1
      BY <1>1
    <3>2. m % m = 0
      BY <1>1, <3>1, DivisionUnique
    <3>3. range.max = 0
      BY <1>1, <2>2, <3>2
    <3> QED
      BY <1>1, <1>2, <1>10, <2>2, <2>4, <3>3
  <2>6. (m - f.u.min) % m = m - f.u.min
    <3>1. m - f.u.min \in 0 .. m - 1 /\ m - f.u.min \in Int
      BY <1>1, <1>2, <2>3, <2>5
    <3> QED
      BY <1>1, <3>1, RemainderOfRange
  <2> DEFINE lo == m - f.u.max
             hi == m - f.u.min
             x == -v
  <2>7. lo \in Nat /\ hi \in Nat /\ x \in Int /\ lo <= x % m /\ x % m <= hi /\ hi < m
    BY <1>1, <1>2, <1>3, <1>6, <2>5
  <2>8. range = Interval(lo, hi)
    BY <2>2, <2>4, <2>6
  <2> HIDE DEF lo, hi, x
  <2>9. RangesFollow(facts_from_raw_range(sc, Interval(lo, hi)), ty, Wrap(ty, x), lo = hi)
    BY <2>7, RawRangeFollows DEF m, sc
  <2> QED
    BY <1>10, <2>1, <2>8, <2>9 DEF RangesFollow, x
<1>11. CASE /\ ~known
            /\ ~(sc.sg /\ signed.min >= b.min /\ signed.max <= b.max)
            /\ ~(~sc.sg /\ f.u.max <= m - f.u.min /\ range.min <= range.max)
  <2>1. result = full_facts(sc)
    BY <1>4, <1>11
  <2> QED
    BY <1>5, <1>11, <2>1 DEF RangesFollow
<1> QED
  BY <1>8, <1>9, <1>10, <1>11

\* Two definitions of division toward zero, the language's and the analysis's.
LEMMA ArithmeticIsExact ==
  ASSUME NEW ty \in Integral, NEW l \in Int, NEW r \in Int, NEW op \in {"+", "-", "*", "/", "%"}
  PROVE  /\ Arith(op, ty, l, r) = Wrap(ty, exact_arithmetic(l, r, op))
         /\ exact_arithmetic(l, r, op) \in Int
<1>1. Quotient(l, r) = Truncated(l, r)
  BY DEF Quotient, Truncated
<1>2. Truncated(l, r) \in Int
  <2>1. CASE r = 0
    BY <2>1 DEF Truncated
  <2>2. CASE r > 0
    <3>1. r \in Nat \ {0}
      BY <2>2
    <3> QED
      BY <3>1, TruncatedSign
  <2>3. CASE r < 0
    <3>1. -r \in Nat \ {0} /\ -(-r) = r
      BY <2>3
    <3>2. Truncated(l, -(-r)) = -Truncated(l, -r) /\ Truncated(l, -r) \in Int
      BY <3>1, TruncatedSign
    <3> QED
      BY <3>1, <3>2
  <2> QED
    BY <2>1, <2>2, <2>3
<1> DEFINE q == Truncated(l, r)
<1> HIDE DEF q
<1>3. CASE op = "+"
  BY <1>3 DEF Arith, exact_arithmetic
<1>4. CASE op = "-"
  BY <1>4 DEF Arith, exact_arithmetic
<1>5. CASE op = "*"
  BY <1>5 DEF Arith, exact_arithmetic
<1>6. CASE op = "/"
  BY <1>1, <1>2, <1>6 DEF Arith, exact_arithmetic
<1>7. CASE op = "%"
  <2>1. exact_arithmetic(l, r, op) = IF r = 0 THEN 0 ELSE l - r * q
    BY <1>7 DEF exact_arithmetic, q
  <2>2. Arith(op, ty, l, r) = Wrap(ty, IF r = 0 THEN 0 ELSE l - r * q)
    BY <1>1, <1>7 DEF Arith, q
  <2>3. q \in Int
    BY <1>2 DEF q
  <2> QED
    BY <2>1, <2>2, <2>3
<1> QED
  BY <1>3, <1>4, <1>5, <1>6, <1>7

LEMMA NaturalDivision ==
  ASSUME NEW k \in Nat, NEW d \in Nat \ {0}
  PROVE  /\ k = d * (k \div d) + (k % d)
         /\ k % d \in 0 .. d - 1
         /\ k \div d \in Int
         /\ d * (k \div d) \in Int
         /\ d * (-(k \div d)) = -(d * (k \div d))
         /\ (-d) * (-(k \div d)) = d * (k \div d)
         /\ (-d) * (k \div d) = -(d * (k \div d))
<1> DEFINE q == k \div d
<1>1. k \in Int
  OBVIOUS
<1>2. q \in Int /\ k = d * q + (k % d) /\ k % d \in 0 .. d - 1
  BY <1>1, Division
<1> HIDE DEF q
<1>3. d * q \in Int /\ d * (-q) = -(d * q) /\ (-d) * (-q) = d * q /\ (-d) * q = -(d * q)
  BY <1>2
<1> QED
  BY <1>2, <1>3 DEF q

\* The remainder is smaller than the divisor, whatever their signs.
LEMMA RemainderIsSmall ==
  ASSUME NEW l \in Int, NEW r \in Int, r # 0, NEW n \in Nat, -n <= r, r <= n
  PROVE  LET x == exact_arithmetic(l, r, "%")
         IN  /\ x \in Int /\ -(n - 1) <= x /\ x <= n - 1
             /\ l >= 0 /\ r > 0 => x >= 0
<1> DEFINE x == exact_arithmetic(l, r, "%")
<1>1. x = l - r * Truncated(l, r)
  BY DEF exact_arithmetic
<1>2. CASE l >= 0 /\ r > 0
  <2>1. Truncated(l, r) = l \div r /\ r \in Nat \ {0}
    BY <1>2 DEF Truncated
  <2>2. l = r * (l \div r) + (l % r) /\ l % r \in 0 .. r - 1 /\ l \div r \in Int
    BY <2>1, Division
  <2>3. x = l % r
    BY <1>1, <2>1, <2>2
  <2> HIDE DEF x
  <2> QED
    BY <1>2, <2>1, <2>2, <2>3 DEF x
<1>3. CASE l < 0 /\ r > 0
  <2> DEFINE k == -l
  <2>0. k \in Nat /\ l = -k
    BY <1>3
  <2>1. Truncated(l, r) = -(k \div r) /\ r \in Nat \ {0}
    BY <1>3 DEF Truncated
  <2> HIDE DEF k
  <2>2. /\ k = r * (k \div r) + (k % r) /\ k % r \in 0 .. r - 1 /\ r * (k \div r) \in Int
        /\ r * (-(k \div r)) = -(r * (k \div r))
    BY <2>0, <2>1, NaturalDivision
  <2> HIDE DEF x
  <2>3. x = l - r * (-(k \div r))
    BY <1>1, <2>1
  <2>4. x = -(k % r)
    BY <2>0, <2>2, <2>3
  <2> QED
    BY <1>3, <2>1, <2>2, <2>4 DEF x
<1>4. CASE l >= 0 /\ r < 0
  <2> DEFINE e == -r
  <2>0. e \in Nat \ {0} /\ r = -e
    BY <1>4
  <2>1. Truncated(l, r) = -(l \div e)
    BY <1>4 DEF Truncated
  <2> HIDE DEF e
  <2>2. /\ l = e * (l \div e) + (l % e) /\ l % e \in 0 .. e - 1 /\ e * (l \div e) \in Int
        /\ (-e) * (-(l \div e)) = e * (l \div e)
    BY <1>4, <2>0, NaturalDivision
  <2> HIDE DEF x
  <2>3. x = l - (-e) * (-(l \div e))
    BY <1>1, <2>0, <2>1
  <2>4. x = l % e
    BY <2>2, <2>3
  <2> QED
    BY <1>4, <2>0, <2>2, <2>4 DEF x
<1>5. CASE l < 0 /\ r < 0
  <2> DEFINE e == -r
             k == -l
  <2>0. e \in Nat \ {0} /\ r = -e /\ k \in Nat /\ l = -k
    BY <1>5
  <2>1. Truncated(l, r) = k \div e
    BY <1>5 DEF Truncated
  <2> HIDE DEF e, k
  <2>2. /\ k = e * (k \div e) + (k % e) /\ k % e \in 0 .. e - 1 /\ e * (k \div e) \in Int
        /\ (-e) * (k \div e) = -(e * (k \div e))
    BY <2>0, NaturalDivision
  <2> HIDE DEF x
  <2>3. x = l - (-e) * (k \div e)
    BY <1>1, <2>0, <2>1
  <2>4. x = -(k % e)
    BY <2>0, <2>2, <2>3
  <2> QED
    BY <1>5, <2>0, <2>2, <2>4 DEF x
<1> QED
  BY <1>2, <1>3, <1>4, <1>5

LEMMA UnsignedArithmetic ==
  ASSUME NEW ty \in Integral, ~Signed(ty), NEW l \in ValuesOf(ty), NEW r \in ValuesOf(ty),
         NEW op \in {"+", "-", "*", "/", "%"},
         NEW f, RangesTrue(f, ty, l), NEW g, RangesTrue(g, ty, r)
  PROVE  RangesFollow(unsigned_arithmetic(f, g, op, scalar_type(ty)), ty, Arith(op, ty, l, r), FALSE)
<1> DEFINE sc == scalar_type(ty)
           P == 2 ^ W(ty)
           x == exact_arithmetic(l, r, op)
           result == unsigned_arithmetic(f, g, op, sc)
           C == Corners(f.u, g.u, op)
           bounds == Interval(0, P - 1)
<1>1. ty \in Types /\ W(ty) # 0 /\ sc.w = W(ty) /\ ~sc.sg /\ P \in Nat \ {0}
  BY Widths, WidthOfType DEF Types, W
<1>2. l \in 0 .. P - 1 /\ r \in 0 .. P - 1 /\ l = Unread(ty, l) /\ r = Unread(ty, r)
  BY <1>1, Values
<1>3. /\ f.w # 0 /\ f.u.min \in Nat /\ f.u.max \in Nat /\ f.u.min <= l /\ l <= f.u.max /\ f.u.max < P
      /\ g.w # 0 /\ g.u.min \in Nat /\ g.u.max \in Nat /\ g.u.min <= r /\ r <= g.u.max /\ g.u.max < P
  BY <1>1, <1>2 DEF RangesTrue, Shaped, Holds
<1>4. Arith(op, ty, l, r) = Wrap(ty, x) /\ x \in Int
  BY <1>2, ArithmeticIsExact
<1>5. RangesFollow(full_facts(sc), ty, Wrap(ty, x), FALSE)
  BY <1>4, FullRangesFollow
<1>6. /\ op \in {"+", "-", "*"} =>
           result = IF Fits(C, bounds) THEN facts_from_raw_range(sc, Hull(C)) ELSE full_facts(sc)
      /\ op \in {"/", "%"} /\ g.u.min <= 0 => result = full_facts(sc)
      /\ op = "/" /\ g.u.min > 0 =>
           result = facts_from_raw_range(sc, Interval(f.u.min \div g.u.max, f.u.max \div g.u.min))
      /\ op = "%" /\ g.u.min > 0 => result = facts_from_raw_range(sc, Interval(0, g.u.max - 1))
  <2>0. ~(f.w = 0 \/ g.w = 0)
    BY <1>3
  <2>1. ASSUME op \in {"+", "-", "*"}
        PROVE  result = IF Fits(C, bounds) THEN facts_from_raw_range(sc, Hull(C)) ELSE full_facts(sc)
    BY <1>1, <2>0, <2>1 DEF unsigned_arithmetic
  <2>2. ASSUME op \in {"/", "%"}
        PROVE  result = CASE g.u.min <= 0 -> full_facts(sc)
                          [] g.u.min > 0 /\ op = "/" ->
                               facts_from_raw_range(sc, Interval(f.u.min \div g.u.max, f.u.max \div g.u.min))
                          [] g.u.min > 0 /\ op = "%" ->
                               facts_from_raw_range(sc, Interval(0, g.u.max - 1))
    BY <2>0, <2>2 DEF unsigned_arithmetic
  <2>3. ~(g.u.min <= 0 /\ g.u.min > 0)
    BY <1>3
  <2> HIDE DEF result, C, bounds
  <2> QED
    BY <2>1, <2>2, <2>3
<1> SUFFICES RangesFollow(result, ty, Wrap(ty, x), FALSE)
  BY <1>4
<1>7. ASSUME NEW a \in Nat, NEW b \in Nat, a <= x, x <= b, b < P,
             result = facts_from_raw_range(sc, Interval(a, b))
      PROVE  RangesFollow(result, ty, Wrap(ty, x), FALSE)
  <2> HIDE DEF x, P
  <2>1. x \in 0 .. P - 1
    BY <1>1, <1>4, <1>7
  <2>2. x % P = x
    BY <1>1, <1>4, <2>1, RemainderOfRange
  <2>3. x \in Int /\ a <= x % P /\ x % P <= b /\ b < P
    BY <1>4, <1>7, <2>2
  <2>4. RangesFollow(facts_from_raw_range(scalar_type(ty), Interval(a, b)), ty, Wrap(ty, x), a = b)
    BY <2>3, RawRangeFollows DEF P
  <2> HIDE DEF result
  <2> QED
    BY <1>7, <2>4 DEF RangesFollow
<1>8. CASE op \in {"+", "-", "*"}
  <2>1. CASE Fits(C, bounds)
    <3> DEFINE a == f.u
               b == g.u
    <3>1. /\ a.min \in Int /\ a.max \in Int /\ b.min \in Int /\ b.max \in Int
          /\ l \in Int /\ r \in Int /\ Holds(a, l) /\ Holds(b, r)
          /\ op \in {"+", "-", "*", "/"} /\ (op = "/" => ~Holds(b, 0))
      BY <1>2, <1>3, <1>8 DEF Holds
    <3> HIDE DEF a, b, bounds
    <3>2. Fits(Corners(a, b, op), bounds)
      BY <2>1 DEF a, b
    <3>3. /\ Min(Corners(a, b, op)) \in Int /\ Max(Corners(a, b, op)) \in Int
          /\ Hull(Corners(a, b, op)) = Interval(Min(Corners(a, b, op)), Max(Corners(a, b, op)))
          /\ bounds.min <= Min(Corners(a, b, op)) /\ Min(Corners(a, b, op)) <= exact_arithmetic(l, r, op)
          /\ exact_arithmetic(l, r, op) <= Max(Corners(a, b, op)) /\ Max(Corners(a, b, op)) <= bounds.max
      BY <3>1, <3>2, HullHolds
    <3>4. /\ Min(C) \in Int /\ Max(C) \in Int /\ Hull(C) = Interval(Min(C), Max(C))
          /\ bounds.min <= Min(C) /\ Min(C) <= x /\ x <= Max(C) /\ Max(C) <= bounds.max
      BY <3>3 DEF a, b
    <3>5. bounds.min = 0 /\ bounds.max = P - 1
      BY IntervalEnds DEF bounds
    <3> HIDE DEF C, x, P, result
    <3>6. Min(C) \in Nat /\ Max(C) \in Nat /\ Max(C) < P
      BY <1>1, <1>4, <3>4, <3>5
    <3>7. result = facts_from_raw_range(sc, Interval(Min(C), Max(C)))
      BY <1>6, <1>8, <2>1, <3>4
    <3> QED
      BY <1>7, <3>4, <3>6, <3>7
  <2>2. CASE ~Fits(C, bounds)
    <3>1. result = full_facts(sc)
      BY <1>6, <1>8, <2>2
    <3> QED
      BY <1>5, <3>1
  <2> QED
    BY <2>1, <2>2
<1>9. CASE op \in {"/", "%"} /\ g.u.min <= 0
  <2>1. result = full_facts(sc)
    BY <1>6, <1>9
  <2> QED
    BY <1>5, <2>1
<1>10. CASE op = "/" /\ g.u.min > 0
  <2>1. /\ g.u.min \in Nat \ {0} /\ g.u.max \in Nat \ {0} /\ r \in Nat \ {0} /\ l \in Nat
    BY <1>2, <1>3, <1>10
  <2>2. x = l \div r
    BY <1>10, <2>1 DEF exact_arithmetic, Truncated
  <2> DEFINE a == f.u.min \div g.u.max
             b == f.u.max \div g.u.min
  <2>3. a <= l \div g.u.max /\ l \div g.u.min <= b
    <3>1. f.u.min \in Int /\ f.u.max \in Int /\ l \in Int /\ f.u.min <= l /\ l <= f.u.max
      BY <1>3, <2>1
    <3> QED
      BY <2>1, <3>1, QuotientGrows
  <2>4. l \div g.u.max <= l \div r /\ l \div r <= l \div g.u.min
    <3>1. g.u.min <= r /\ r <= g.u.max
      BY <1>3
    <3> QED
      BY <2>1, <3>1, QuotientShrinks
  <2>5. a \in Nat /\ b \in Nat /\ l \div g.u.max \in Nat /\ l \div r \in Nat /\ l \div g.u.min \in Nat
    BY <1>3, <2>1, QuotientOfNatural
  <2>6. b <= f.u.max
    <3>0. f.u.max \in Nat
      BY <1>3
    <3>1. b \in Nat /\ f.u.max = g.u.min * b + (f.u.max % g.u.min) /\ f.u.max % g.u.min \in 0 .. g.u.min - 1
      BY <2>1, <2>5, <3>0, NaturalDivision
    <3> HIDE DEF b
    <3>2. 1 * b <= g.u.min * b
      BY <2>1, <3>1, ProductGrows
    <3>3. g.u.min * b \in Int
      BY <2>1, <3>1
    <3> QED
      BY <1>3, <2>1, <3>1, <3>2, <3>3
  <2>7. a <= x /\ x <= b /\ b < P
    <3> HIDE DEF a, b, x, P
    <3> QED
      BY <1>1, <1>3, <2>2, <2>3, <2>4, <2>5, <2>6
  <2>8. result = facts_from_raw_range(sc, Interval(a, b))
    BY <1>6, <1>10
  <2> HIDE DEF a, b, x, P, result
  <2> QED
    BY <1>7, <2>5, <2>7, <2>8
<1>11. CASE op = "%" /\ g.u.min > 0
  <2>1. /\ r > 0 /\ l >= 0 /\ -(g.u.max) <= r /\ l \in Int /\ r \in Int /\ r # 0
        /\ r <= g.u.max /\ g.u.max \in Nat
    BY <1>2, <1>3, <1>11
  <2>2. 0 <= x /\ x <= g.u.max - 1
    BY <1>3, <1>11, <2>1, RemainderIsSmall
  <2> DEFINE a == 0
             b == g.u.max - 1
  <2>3. result = facts_from_raw_range(sc, Interval(a, b))
    BY <1>6, <1>11
  <2>4. a \in Nat /\ b \in Nat /\ b < P
    <3> HIDE DEF P
    <3>1. g.u.max < P /\ P \in Int
      BY <1>1, <1>3
    <3> QED
      BY <2>1, <3>1
  <2>5. a <= x /\ x <= b
    BY <2>2
  <2> HIDE DEF a, b, x, P, result
  <2> QED
    BY <1>7, <2>3, <2>4, <2>5
<1>12. g.u.min <= 0 \/ g.u.min > 0
  BY <1>3
<1> HIDE DEF result, x
<1> QED
  BY <1>8, <1>9, <1>10, <1>11, <1>12

\* The larger of the divisor's ends, signs aside.
LEMMA LargestDivisor ==
  ASSUME NEW a \in Int, NEW b \in Int, NEW r \in Int, a <= r, r <= b,
         NEW h \in Nat, -h <= a, b <= h, ~(a <= 0 /\ 0 <= b)
  PROVE  LET size == Max({Max({v, -v}) : v \in {a, b}})
         IN  size \in Nat /\ size > 0 /\ -size <= r /\ r <= size /\ size <= h
<1> DEFINE p == Max({a, -a})
           q == Max({b, -b})
           size == Max({Max({v, -v}) : v \in {a, b}})
<1>1. ASSUME NEW n \in Int PROVE Max({n, -n}) = IF n >= 0 THEN n ELSE -n
  <2>1. \E x \in {n, -n} : \A y \in {n, -n} : x >= y
    OBVIOUS
  <2> DEFINE S == {n, -n}
  <2> HIDE DEF S
  <2>2. Max(S) \in S /\ \A y \in S : Max(S) >= y
    BY <2>1, Zenon DEF Max, S
  <2>3. Max(S) \in {n, -n} /\ Max(S) >= n /\ Max(S) >= -n
    BY <2>2 DEF S
  <2>4. Max(S) = IF n >= 0 THEN n ELSE -n
    BY <2>3
  <2> QED
    BY <2>4 DEF S
<1>2. (p = IF a >= 0 THEN a ELSE -a) /\ (q = IF b >= 0 THEN b ELSE -b)
  BY <1>1
<1> HIDE DEF p, q
<1>3. p \in Int /\ q \in Int
  BY <1>2
<1>4. Max({p, q}) \in {p, q} /\ Max({p, q}) >= p /\ Max({p, q}) >= q
  <2>1. \E x \in {p, q} : \A y \in {p, q} : x >= y
    BY <1>3
  <2> DEFINE S == {p, q}
  <2> HIDE DEF S
  <2>2. Max(S) \in S /\ \A y \in S : Max(S) >= y
    BY <2>1, Zenon DEF Max, S
  <2> QED
    BY <2>2 DEF S
<1>5. size = Max({p, q})
  <2>1. {Max({v, -v}) : v \in {a, b}} = {p, q}
    BY DEF p, q
  <2> QED
    BY <2>1
<1> HIDE DEF size
<1>6. size \in Nat /\ size > 0 /\ -size <= r /\ r <= size /\ size <= h
  BY <1>2, <1>3, <1>4, <1>5
<1> QED
  BY <1>6 DEF size

LEMMA SignedArithmetic ==
  ASSUME NEW ty \in Integral, Signed(ty), NEW l \in ValuesOf(ty), NEW r \in ValuesOf(ty),
         NEW op \in {"+", "-", "*", "/", "%"},
         NEW f, RangesTrue(f, ty, l), NEW g, RangesTrue(g, ty, r)
  PROVE  RangesFollow(signed_arithmetic(f, g, op, scalar_type(ty)), ty, Arith(op, ty, l, r), FALSE)
<1> DEFINE sc == scalar_type(ty)
           x == exact_arithmetic(l, r, op)
           result == signed_arithmetic(f, g, op, sc)
           C == Corners(f.s, g.s, op)
           bounds == signed_bounds(sc)
           H == 2 ^ (W(ty) - 1)
           size == Max({Max({v, -v}) : v \in {g.s.min, g.s.max}})
<1>1. ty \in Types /\ W(ty) # 0 /\ W(ty) # 1 /\ sc.w = W(ty) /\ sc.sg /\ H \in Nat \ {0}
  BY Widths, WidthOfType DEF Types, W
<1>2. l \in Int /\ r \in Int /\ l = AsSigned(ty, l) /\ r = AsSigned(ty, r)
  BY <1>1, Values
<1>3. /\ f.w # 0 /\ f.s.min \in Int /\ f.s.max \in Int /\ f.s.min <= l /\ l <= f.s.max
      /\ g.w # 0 /\ g.s.min \in Int /\ g.s.max \in Int /\ g.s.min <= r /\ r <= g.s.max
      /\ bounds.min <= g.s.min /\ g.s.max <= bounds.max
      /\ g.s = Interval(g.s.min, g.s.max)
  BY <1>1, <1>2 DEF RangesTrue, Shaped, Holds
<1>4. Arith(op, ty, l, r) = Wrap(ty, x) /\ x \in Int
  BY <1>2, ArithmeticIsExact
<1>5. RangesFollow(full_facts(sc), ty, Wrap(ty, x), FALSE)
  BY <1>4, FullRangesFollow
<1>6. bounds.min = -H /\ bounds.max = H - 1
  BY <1>1, SignedBounds, IntervalEnds
<1>7. Holds(g.s, 0) <=> g.s.min <= 0 /\ 0 <= g.s.max
  BY DEF Holds
<1>8. /\ op \in {"+", "-", "*"} \/ (op = "/" /\ ~Holds(g.s, 0)) =>
           result = IF Fits(C, bounds) THEN facts_from_signed_range(sc, Hull(C)) ELSE full_facts(sc)
      /\ op = "%" /\ ~Holds(g.s, 0) =>
           result = facts_from_signed_range(sc, Interval(-(size - 1), size - 1))
      /\ op \in {"/", "%"} /\ Holds(g.s, 0) =>
           result = IF g.s = Interval(0, 0) THEN facts_from_signed_range(sc, g.s) ELSE full_facts(sc)
  <2>0. ~(f.w = 0 \/ g.w = 0) /\ f.w # 0 /\ g.w # 0
    BY <1>3
  <2>1. ASSUME op \in {"+", "-", "*"} \/ (op = "/" /\ ~Holds(g.s, 0))
        PROVE  result = IF Fits(C, bounds) THEN facts_from_signed_range(sc, Hull(C)) ELSE full_facts(sc)
    <3>1. op # "%" /\ ~(op \in {"/", "%"} /\ Holds(g.s, 0))
      BY <2>1
    <3> QED
      BY <2>0, <2>1, <3>1 DEF signed_arithmetic
  <2>2. ASSUME op = "%" /\ ~Holds(g.s, 0)
        PROVE  result = facts_from_signed_range(sc, Interval(-(size - 1), size - 1))
    BY <2>0, <2>2 DEF signed_arithmetic
  <2>3. ASSUME op \in {"/", "%"} /\ Holds(g.s, 0)
        PROVE  result = IF g.s = Interval(0, 0) THEN facts_from_signed_range(sc, g.s) ELSE full_facts(sc)
    BY <2>0, <2>3 DEF signed_arithmetic
  <2> QED
    BY <2>1, <2>2, <2>3
<1> SUFFICES RangesFollow(result, ty, Wrap(ty, x), FALSE)
  BY <1>4
<1>9. ASSUME NEW a \in Int, NEW b \in Int, a <= x, x <= b, bounds.min <= a, b <= bounds.max,
             result = facts_from_signed_range(sc, Interval(a, b))
      PROVE  RangesFollow(result, ty, Wrap(ty, x), FALSE)
  <2> HIDE DEF x
  <2>1. RangesFollow(facts_from_signed_range(scalar_type(ty), Interval(a, b)), ty, Wrap(ty, x), a = b)
    BY <1>4, <1>9, SignedRangeFollows
  <2> HIDE DEF result
  <2> QED
    BY <1>9, <2>1 DEF RangesFollow
<1> HIDE DEF bounds, H
<1>10. CASE op \in {"+", "-", "*"} \/ (op = "/" /\ ~Holds(g.s, 0))
  <2>1. CASE Fits(C, bounds)
    <3> DEFINE a == f.s
               b == g.s
    <3>1. /\ a.min \in Int /\ a.max \in Int /\ b.min \in Int /\ b.max \in Int
          /\ l \in Int /\ r \in Int /\ Holds(a, l) /\ Holds(b, r)
          /\ op \in {"+", "-", "*", "/"} /\ (op = "/" => ~Holds(b, 0))
      BY <1>2, <1>3, <1>10 DEF Holds
    <3> HIDE DEF a, b
    <3>2. Fits(Corners(a, b, op), bounds)
      BY <2>1 DEF a, b
    <3>3. /\ Min(Corners(a, b, op)) \in Int /\ Max(Corners(a, b, op)) \in Int
          /\ Hull(Corners(a, b, op)) = Interval(Min(Corners(a, b, op)), Max(Corners(a, b, op)))
          /\ bounds.min <= Min(Corners(a, b, op)) /\ Min(Corners(a, b, op)) <= exact_arithmetic(l, r, op)
          /\ exact_arithmetic(l, r, op) <= Max(Corners(a, b, op)) /\ Max(Corners(a, b, op)) <= bounds.max
      BY <3>1, <3>2, HullHolds
    <3>4. /\ Min(C) \in Int /\ Max(C) \in Int /\ Hull(C) = Interval(Min(C), Max(C))
          /\ bounds.min <= Min(C) /\ Min(C) <= x /\ x <= Max(C) /\ Max(C) <= bounds.max
      BY <3>3 DEF a, b
    <3> HIDE DEF C, x, result
    <3>5. result = facts_from_signed_range(sc, Interval(Min(C), Max(C)))
      BY <1>8, <1>10, <2>1, <3>4
    <3> QED
      BY <1>9, <3>4, <3>5
  <2>2. CASE ~Fits(C, bounds)
    <3>1. result = full_facts(sc)
      BY <1>8, <1>10, <2>2
    <3> QED
      BY <1>5, <3>1
  <2> QED
    BY <2>1, <2>2
<1>11. CASE op = "%" /\ ~Holds(g.s, 0)
  <2>1. /\ -H <= g.s.min /\ g.s.max <= H /\ H \in Nat /\ r # 0
        /\ ~(g.s.min <= 0 /\ 0 <= g.s.max) /\ g.s.min <= r /\ r <= g.s.max
    BY <1>1, <1>2, <1>3, <1>6, <1>7, <1>11
  <2>2. size \in Nat /\ size > 0 /\ -size <= r /\ r <= size /\ size <= H
    BY <1>2, <1>3, <2>1, LargestDivisor
  <2> HIDE DEF size
  <2>3. -(size - 1) <= x /\ x <= size - 1
    BY <1>2, <1>11, <2>1, <2>2, RemainderIsSmall
  <2> DEFINE a == -(size - 1)
             b == size - 1
  <2>4. a \in Int /\ b \in Int /\ bounds.min <= a /\ b <= bounds.max
    BY <1>6, <2>1, <2>2
  <2>5. result = facts_from_signed_range(sc, Interval(a, b)) /\ a <= x /\ x <= b
    BY <1>8, <1>11, <2>3
  <2> HIDE DEF a, b, x, result
  <2> QED
    BY <1>9, <2>4, <2>5
<1>12. CASE op \in {"/", "%"} /\ Holds(g.s, 0)
  <2>1. CASE g.s = Interval(0, 0)
    <3>1. g.s.min = 0 /\ g.s.max = 0
      BY <2>1, IntervalEnds
    <3>2. r = 0
      BY <1>2, <1>3, <3>1
    <3>3. x = 0
      BY <1>12, <3>2 DEF exact_arithmetic, Truncated
    <3> DEFINE a == g.s.min
               b == g.s.max
    <3>4. a \in Int /\ b \in Int /\ a <= x /\ x <= b /\ bounds.min <= a /\ b <= bounds.max
      BY <1>3, <3>1, <3>3
    <3>5. result = facts_from_signed_range(sc, Interval(a, b))
      BY <1>3, <1>8, <1>12, <2>1
    <3> HIDE DEF a, b, x, result
    <3> QED
      BY <1>9, <3>4, <3>5
  <2>2. CASE g.s # Interval(0, 0)
    <3>1. result = full_facts(sc)
      BY <1>8, <1>12, <2>2
    <3> QED
      BY <1>5, <3>1
  <2> QED
    BY <2>1, <2>2
<1> HIDE DEF result, x
<1> QED
  BY <1>10, <1>11, <1>12

LEMMA ArithmeticKeepsRanges ==
  ASSUME NEW ty \in Integral, NEW l \in ValuesOf(ty), NEW r \in ValuesOf(ty),
         NEW op \in {"+", "-", "*", "/", "%"},
         NEW f, RangesTrue(f, ty, l), NEW g, RangesTrue(g, ty, r)
  PROVE  RangesFollow(binary_facts(f, op, g, ty), ty, Arith(op, ty, l, r),
                      Singletons(f) /\ Singletons(g))
<1> DEFINE sc == scalar_type(ty)
           a == active_range(f, sc.sg)
           b == active_range(g, sc.sg)
           result == binary_facts(f, op, g, ty)
           known == Singletons(f) /\ Singletons(g)
           other == IF sc.sg THEN signed_arithmetic(f, g, op, sc) ELSE unsigned_arithmetic(f, g, op, sc)
           x == exact_arithmetic(l, r, op)
<1>1. ty \in Types /\ W(ty) # 0 /\ HasScalar(ty) /\ sc.sg = Signed(ty) /\ sc.sg \in BOOLEAN
  BY Widths DEF Types
<1>2. f.w # 0 /\ g.w # 0 /\ l \in Int /\ r \in Int
  BY <1>1, Values DEF RangesTrue, Shaped
<1>3. /\ a.min \in Int /\ a.max \in Int /\ a.min <= l /\ l <= a.max
      /\ Singletons(f) => a.min = a.max
  BY <1>1, ActiveRange
<1>4. /\ b.min \in Int /\ b.max \in Int /\ b.min <= r /\ r <= b.max
      /\ Singletons(g) => b.min = b.max
  BY <1>1, ActiveRange
<1>5. result = IF is_singleton(a) /\ is_singleton(b)
               THEN facts_from_raw_value(sc, exact_arithmetic(a.min, b.min, op)) ELSE other
  <2>1. result = arithmetic_facts(f, g, op, sc)
    BY <1>1 DEF binary_facts
  <2> QED
    BY <1>2, <2>1 DEF arithmetic_facts
<1>6. Arith(op, ty, l, r) = Wrap(ty, x) /\ x \in Int
  BY <1>2, ArithmeticIsExact
<1>7. RangesFollow(other, ty, Wrap(ty, x), FALSE)
  <2>1. CASE sc.sg
    BY <1>1, <1>6, <2>1, SignedArithmetic
  <2>2. CASE ~sc.sg
    BY <1>1, <1>6, <2>2, UnsignedArithmetic
  <2> QED
    BY <1>1, <2>1, <2>2
<1> HIDE DEF a, b, result, other
<1>8. CASE is_singleton(a) /\ is_singleton(b)
  <2>1. a.min = l /\ b.min = r
    BY <1>2, <1>3, <1>4, <1>8 DEF is_singleton
  <2>2. result = facts_from_raw_value(sc, x)
    BY <1>5, <1>8, <2>1
  <2> HIDE DEF x
  <2>3. RangesFollow(facts_from_raw_value(sc, x), ty, Wrap(ty, x), TRUE)
    BY <1>6, OneValueFollows
  <2> QED
    BY <1>6, <2>2, <2>3 DEF RangesFollow, result
<1>9. CASE ~(is_singleton(a) /\ is_singleton(b))
  <2>1. ~known
    BY <1>3, <1>4, <1>9 DEF is_singleton
  <2>2. result = other
    BY <1>5, <1>9
  <2> QED
    BY <1>6, <1>7, <2>1, <2>2 DEF RangesFollow, result
<1> QED
  BY <1>8, <1>9

---------------------------------------------------------------------------
(***************************************************************************)
(* Bits taken from a range.  They are right when the range is one number,  *)
(* and when nothing is known: that is what FromRange rules out.            *)
(***************************************************************************)
Digits(f, w) ==
  f.o = BitsOf(f.u.min, w) /\ f.z = (0 .. w - 1) \ BitsOf(f.u.min, w)

Record(f) == f = [w |-> f.w, sg |-> f.sg, z |-> f.z, o |-> f.o, u |-> f.u, s |-> f.s]

\* Facts that say one number, in their ranges and in their bits, are those the
\* bits alone would give.
LEMMA DigitsGiveBits ==
  ASSUME NEW ty \in Types, NEW v \in ValuesOf(ty), NEW f, RangesTrue(f, ty, v), Singletons(f),
         Digits(f, W(ty)), Record(f)
  PROVE  BitsTrue(f, ty, v)
<1> DEFINE w == W(ty)
           g == facts_from_known_bits(scalar_type(ty), f.z, f.o)
<1>1. Unread(ty, v) \in Int /\ AsSigned(ty, v) \in Int
  <2>1. 2 ^ w \in Nat
    BY WidthOfType
  <2> QED
    BY <2>1, Values DEF SignedOf
<1>2. f.u = Interval(Unread(ty, v), Unread(ty, v)) /\ f.s = Interval(AsSigned(ty, v), AsSigned(ty, v))
  BY <1>1 DEF RangesTrue, Shaped, Singletons, is_singleton, Holds
<1>3. BitsOf(f.u.min, w) = BitsOf(v, w)
  BY <1>2, IntervalEnds, BitsOfUnread
<1>4. f.o = BitsOf(v, w) /\ f.z = (0 .. w - 1) \ BitsOf(v, w) /\ BitsOf(v, w) \in SUBSET (0 .. w - 1)
  BY <1>3, BitsOfSubset DEF Digits
<1>5. Low(f.o, w) = f.o /\ Low(f.z, w) = f.z
  BY <1>4 DEF Low, mask_for_width
<1>6. Low(f.o, w) \subseteq BitsOf(v, w) /\ Low(f.z, w) \cap BitsOf(v, w) = {}
  BY <1>4, <1>5
<1>7. /\ BitsTrue(g, ty, v) /\ RangesTrue(g, ty, v)
      /\ g.z = f.z /\ g.o = f.o
      /\ g.z \cup g.o = 0 .. w - 1 => Singletons(g)
  BY <1>5, <1>6, KnownBits
<1>8. Record(g)
  BY DEF Record, facts_from_known_bits
<1> HIDE DEF g
<1>9. Singletons(g)
  BY <1>4, <1>7
<1>10. g.u = Interval(Unread(ty, v), Unread(ty, v)) /\ g.s = Interval(AsSigned(ty, v), AsSigned(ty, v))
  BY <1>1, <1>7, <1>9 DEF RangesTrue, Shaped, Singletons, is_singleton, Holds
<1>11. g.w = f.w /\ g.sg = f.sg
  BY <1>7 DEF RangesTrue, Shaped
<1>12. g = f
  BY <1>2, <1>7, <1>8, <1>10, <1>11, Zenon DEF Record
<1> QED
  BY <1>7, <1>12

\* One number read as a range has its own digits for bits.
LEMMA RawRangeDigits ==
  ASSUME NEW ty \in Types, NEW r
  PROVE  LET f == facts_from_raw_range(scalar_type(ty), r)
         IN  /\ Record(f) /\ f.u = r
             /\ is_singleton(r) => Digits(f, W(ty))
<1> DEFINE w == W(ty)
           shared == common_bits_for_raw_interval(r.min, r.max, w)
           ones == shared \cap BitsOf(r.min, w)
           k == facts_from_known_bits(scalar_type(ty), shared \ ones, ones)
           f == facts_from_raw_range(scalar_type(ty), r)
<1>1. f = [k EXCEPT !.u = r, !.s = signed_range_for_raw(scalar_type(ty), r)]
  BY DEF facts_from_raw_range, W
<1>2. Record(k)
  BY DEF Record, facts_from_known_bits
<1>3. k.o = Low(ones, w) /\ k.z = Low(shared \ ones, w) \ Low(ones, w)
  BY DEF facts_from_known_bits, W
<1>4. is_singleton(r) => shared = 0 .. w - 1
  BY DEF is_singleton, common_bits_for_raw_interval
<1>5. BitsOf(r.min, w) \in SUBSET (0 .. w - 1)
  BY BitsOfSubset
<1> HIDE DEF k, shared, w, f
<1>6. Record(f) /\ f.u = r /\ f.o = k.o /\ f.z = k.z
  BY <1>1, <1>2 DEF Record
<1>7. is_singleton(r) => f.o = BitsOf(r.min, w) /\ f.z = (0 .. w - 1) \ BitsOf(r.min, w)
  BY <1>3, <1>4, <1>5, <1>6 DEF Low, mask_for_width
<1> QED
  BY <1>6, <1>7 DEF Digits, f, w

LEMMA SignedRangeDigits ==
  ASSUME NEW ty \in Types, NEW r
  PROVE  LET f == facts_from_signed_range(scalar_type(ty), r)
         IN  /\ Record(f) /\ f.s = r
             /\ is_singleton(f.u) => Digits(f, W(ty))
<1> DEFINE f == facts_from_signed_range(scalar_type(ty), r)
<1>1. PICK raw : f = [facts_from_raw_range(scalar_type(ty), raw) EXCEPT !.s = r]
  BY DEF facts_from_signed_range
<1> DEFINE g == facts_from_raw_range(scalar_type(ty), raw)
<1>2. Record(g) /\ g.u = raw /\ (is_singleton(raw) => Digits(g, W(ty)))
  BY RawRangeDigits
<1>3. f = [g EXCEPT !.s = r]
  BY <1>1
<1> HIDE DEF f, g
<1>4. Record(f) /\ f.s = r /\ f.u = g.u /\ f.o = g.o /\ f.z = g.z
  BY <1>2, <1>3 DEF Record
<1> QED
  BY <1>2, <1>4 DEF Digits, f

\* The facts arithmetic makes: of everything, of one number, of a range.
MadeOfRanges(f, ty) ==
  \/ f = full_facts(scalar_type(ty))
  \/ ty \in Integral /\ \E y \in Int : f = facts_from_raw_value(scalar_type(ty), y)
  \/ \E r : f = facts_from_raw_range(scalar_type(ty), r)
  \/ \E r : f = facts_from_signed_range(scalar_type(ty), r)

LEMMA RangesGiveBits ==
  ASSUME NEW ty \in Types, NEW v \in ValuesOf(ty), NEW f, RangesTrue(f, ty, v),
         MadeOfRanges(f, ty), ~FromRange(f, ty)
  PROVE  BitsTrue(f, ty, v)
<1>1. CASE f = full_facts(scalar_type(ty))
  BY <1>1, FullFacts
<1>2. CASE ty \in Integral /\ \E y \in Int : f = facts_from_raw_value(scalar_type(ty), y)
  <2>1. PICK y \in Int : f = facts_from_raw_value(scalar_type(ty), y)
    BY <1>2
  <2> DEFINE x == Wrap(ty, y)
  <2>2. x \in ValuesOf(ty) /\ Unread(ty, x) = y % 2 ^ W(ty)
    BY <1>2, Wrapped
  <2> HIDE DEF x
  <2>3. BitsTrue(f, ty, x) /\ Singletons(f)
    BY <2>1, <2>2, RawValue
  <2>4. RangesTrue(f, ty, x)
    BY <2>2, <2>3, BitsGiveRanges
  <2>5. 2 ^ W(ty) \in Nat /\ Unread(ty, v) \in Int /\ Unread(ty, x) \in Int
    BY <2>2, Values, WidthOfType
  <2>6. Unread(ty, v) = Unread(ty, x)
    BY <2>3, <2>4, <2>5 DEF RangesTrue, Shaped, Singletons, is_singleton, Holds
  <2>7. BitsOf(v, W(ty)) = BitsOf(x, W(ty))
    BY <2>2, <2>6, BitsOfUnread
  <2> QED
    BY <2>3, <2>7 DEF BitsTrue
<1>3. CASE is_singleton(f.u) /\ \E r : f = facts_from_raw_range(scalar_type(ty), r)
  <2>1. PICK r : f = facts_from_raw_range(scalar_type(ty), r)
    BY <1>3
  <2>2. Record(f) /\ f.u = r /\ Digits(f, W(ty))
    BY <1>3, <2>1, RawRangeDigits
  <2> DEFINE a == r.min
  <2>3. r = Interval(a, a) /\ a \in Nat /\ a < 2 ^ W(ty) /\ a <= Unread(ty, v) /\ Unread(ty, v) <= a
    BY <1>3, <2>2 DEF RangesTrue, Shaped, is_singleton, Holds
  <2> HIDE DEF a
  <2>4. Singletons(f)
    BY <2>1, <2>3, RawRange
  <2> QED
    BY <2>2, <2>4, DigitsGiveBits
<1>4. CASE is_singleton(f.u) /\ \E r : f = facts_from_signed_range(scalar_type(ty), r)
  <2>1. PICK r : f = facts_from_signed_range(scalar_type(ty), r)
    BY <1>4
  <2>2. Record(f) /\ f.s = r /\ Digits(f, W(ty))
    BY <1>4, <2>1, SignedRangeDigits
  <2> DEFINE a == r.min
             b == r.max
  <2>3. /\ r = Interval(a, b) /\ a \in Int /\ b \in Int
        /\ a <= AsSigned(ty, v) /\ AsSigned(ty, v) <= b
        /\ signed_bounds(scalar_type(ty)).min <= a /\ b <= signed_bounds(scalar_type(ty)).max
    BY <2>2 DEF RangesTrue, Shaped, Holds
  <2> HIDE DEF a, b
  <2>4. is_singleton(f.u) => Singletons(f)
    BY <2>1, <2>3, SignedRange
  <2> QED
    BY <1>4, <2>2, <2>4, DigitsGiveBits
<1> QED
  BY <1>1, <1>2, <1>3, <1>4 DEF MadeOfRanges, FromRange

LEMMA NegationMadeOfRanges ==
  ASSUME NEW ty \in Integral, NEW v \in ValuesOf(ty), NEW f, RangesTrue(f, ty, v)
  PROVE  MadeOfRanges(unary_facts("-", f, ty), ty)
<1> DEFINE sc == scalar_type(ty)
<1>1. HasScalar(ty)
  BY Widths
<1>2. unary_facts("-", f, ty) = negate_facts(f, sc)
  BY <1>1 DEF unary_facts
<1>3. -f.u.min \in Int
  BY DEF RangesTrue, Shaped
<1>4. \/ negate_facts(f, sc) = full_facts(sc)
      \/ negate_facts(f, sc) = facts_from_raw_value(sc, -f.u.min)
      \/ \E r : negate_facts(f, sc) = facts_from_raw_range(sc, r)
      \/ \E r : negate_facts(f, sc) = facts_from_signed_range(sc, r)
  BY DEF negate_facts
<1> QED
  BY <1>2, <1>3, <1>4 DEF MadeOfRanges

LEMMA ArithmeticMadeOfRanges ==
  ASSUME NEW ty \in Integral, NEW l \in ValuesOf(ty), NEW r \in ValuesOf(ty), NEW op \in Arithmetics,
         NEW f, RangesTrue(f, ty, l), NEW g, RangesTrue(g, ty, r)
  PROVE  MadeOfRanges(binary_facts(f, op, g, ty), ty)
<1> DEFINE sc == scalar_type(ty)
           a == active_range(f, sc.sg)
           b == active_range(g, sc.sg)
<1>1. HasScalar(ty) /\ W(ty) # 0 /\ ty \in Types
  BY Widths DEF Types
<1>2. binary_facts(f, op, g, ty) = arithmetic_facts(f, g, op, sc)
  BY <1>1, Zenon DEF binary_facts, Arithmetics
<1>3. f.w = W(ty) /\ g.w = W(ty) /\ f.w # 0 /\ g.w # 0 /\ g.u.min \in Int
  BY <1>1 DEF RangesTrue, Shaped
<1>4. exact_arithmetic(a.min, b.min, op) \in Int
  <2>1. a.min \in Int /\ b.min \in Int
    BY <1>1, ActiveRange
  <2> HIDE DEF a, b
  <2> QED
    BY <2>1, ArithmeticIsExact DEF Arithmetics
<1>5. MadeOfRanges(unsigned_arithmetic(f, g, op, sc), ty)
  <2>1. CASE op \in {"+", "-", "*"}
    BY <1>3, <2>1 DEF unsigned_arithmetic, MadeOfRanges
  <2>2. CASE op \in {"/", "%"}
    BY <1>3, <2>2 DEF unsigned_arithmetic, MadeOfRanges
  <2> QED
    BY <2>1, <2>2 DEF Arithmetics
<1>6. MadeOfRanges(signed_arithmetic(f, g, op, sc), ty)
  <2>1. CASE op \in {"+", "-", "*"} \/ (op = "/" /\ ~Holds(g.s, 0))
    BY <1>3, <2>1 DEF signed_arithmetic, MadeOfRanges
  <2>2. CASE op = "%" /\ ~Holds(g.s, 0)
    BY <1>3, <2>2 DEF signed_arithmetic, MadeOfRanges
  <2>3. CASE op \in {"/", "%"} /\ Holds(g.s, 0)
    BY <1>3, <2>3 DEF signed_arithmetic, MadeOfRanges
  <2> QED
    BY <2>1, <2>2, <2>3 DEF Arithmetics
<1>7. arithmetic_facts(f, g, op, sc)
        \in {facts_from_raw_value(sc, exact_arithmetic(a.min, b.min, op)),
             signed_arithmetic(f, g, op, sc), unsigned_arithmetic(f, g, op, sc)}
  BY DEF arithmetic_facts
<1> HIDE DEF a, b
<1> QED
  BY <1>2, <1>4, <1>5, <1>6, <1>7 DEF MadeOfRanges

---------------------------------------------------------------------------
(***************************************************************************)
(* The specification.  The invariant says more than FactsHold: what the    *)
(* operators need of the facts they are given, that an expression of       *)
(* literals is known exactly as a signed number too, which is what a       *)
(* signed operator looks at, and that nothing misleads it.                 *)
(***************************************************************************)
Told(f, ty, v, known, fromrange, wrong) ==
  /\ v \in ValuesOf(ty)
  /\ ~wrong => RangesTrue(f, ty, v)
  /\ ~wrong /\ ~fromrange => BitsTrue(f, ty, v)
  /\ known => ~wrong /\ ~fromrange /\ Singletons(f)

Inv ==
  /\ mix \in Mixes
  /\ t \in mix.types \cup {"bool"}
  /\ exact \in BOOLEAN
  /\ derived \in BOOLEAN
  /\ misled \in BOOLEAN
  /\ Told(facts, t, value, exact, derived, misled)

LEMMA TypesOfMixes ==
  ASSUME NEW m \in Mixes
  PROVE  /\ m.types \subseteq Integral
         /\ m.types \cup {"bool"} \subseteq Types
BY MixesAssumption DEF Integral, Types

\* What the three ways of making a leaf say of the values it stands for.
LEMMA BitsLeaf ==
  ASSUME NEW ty \in Types, NEW v \in ValuesOf(ty), NEW z, NEW o,
         z \cap BitsOf(Unread(ty, v), W(ty)) = {}, o \subseteq BitsOf(Unread(ty, v), W(ty))
  PROVE  LET f == from_known_bits(ty, z, o)
         IN  BitsTrue(f, ty, v) /\ RangesTrue(f, ty, v) /\ (IsExact(f) => Singletons(f))
<1> DEFINE f == facts_from_known_bits(scalar_type(ty), z, o)
<1>1. from_known_bits(ty, z, o) = f
  BY DEF from_known_bits
<1>2. BitsOf(Unread(ty, v), W(ty)) = BitsOf(v, W(ty))
  BY BitsOfUnread
<1>3. Low(o, W(ty)) \subseteq BitsOf(v, W(ty)) /\ Low(z, W(ty)) \cap BitsOf(v, W(ty)) = {}
  BY <1>2 DEF Low
<1>4. BitsTrue(f, ty, v) /\ RangesTrue(f, ty, v)
  BY <1>3, KnownBits
<1> HIDE DEF f
<1>5. is_singleton(f.u) => Singletons(f)
  BY <1>4, BitsGiveRanges
<1> QED
  BY <1>1, <1>4, <1>5 DEF IsExact

LEMMA RawLeaf ==
  ASSUME NEW ty \in Types, NEW v \in ValuesOf(ty), NEW r \in Intervals(0, 2 ^ W(ty) - 1),
         Holds(r, Unread(ty, v))
  PROVE  LET f == from_unsigned_range(ty, r)
         IN  RangesTrue(f, ty, v) /\ (IsExact(f) => Singletons(f)) /\ MadeOfRanges(f, ty)
<1> DEFINE a == r.min
           b == r.max
<1>1. 2 ^ W(ty) \in Nat
  BY WidthOfType
<1>2. a \in Nat /\ b \in Nat /\ b < 2 ^ W(ty) /\ r = Interval(a, b)
      /\ a <= Unread(ty, v) /\ Unread(ty, v) <= b
  BY <1>1 DEF Intervals, Interval, Holds
<1> HIDE DEF a, b
<1> DEFINE f == facts_from_raw_range(scalar_type(ty), Interval(a, b))
<1>3. RangesTrue(f, ty, v) /\ f.u = Interval(a, b) /\ (a = b => Singletons(f))
  BY <1>2, RawRange
<1>4. from_unsigned_range(ty, r) = f
  BY <1>2 DEF from_unsigned_range
<1>5. MadeOfRanges(f, ty)
  BY DEF MadeOfRanges
<1> HIDE DEF f
<1> QED
  BY <1>3, <1>4, <1>5, IntervalEnds DEF IsExact, is_singleton

LEMMA SignedLeaf ==
  ASSUME NEW ty \in Types, NEW v \in ValuesOf(ty),
         NEW r \in Intervals(signed_bounds(scalar_type(ty)).min, signed_bounds(scalar_type(ty)).max),
         Holds(r, AsSigned(ty, v))
  PROVE  LET f == from_signed_range(ty, r)
         IN  RangesTrue(f, ty, v) /\ (IsExact(f) => Singletons(f)) /\ MadeOfRanges(f, ty)
<1> DEFINE a == r.min
           b == r.max
           bounds == signed_bounds(scalar_type(ty))
<1>1. bounds.min \in Int /\ bounds.max \in Int
  <2>1. 2 ^ (W(ty) - 1) \in Nat
    BY WidthOfType
  <2> QED
    BY <2>1, SignedBounds, IntervalEnds
<1>2. a \in Int /\ b \in Int /\ bounds.min <= a /\ b <= bounds.max /\ r = Interval(a, b)
      /\ a <= AsSigned(ty, v) /\ AsSigned(ty, v) <= b
  <2> HIDE DEF bounds
  <2>1. r \in Intervals(bounds.min, bounds.max)
    BY DEF bounds
  <2> QED
    BY <1>1, <2>1 DEF Intervals, Interval, Holds
<1> HIDE DEF a, b
<1> DEFINE f == facts_from_signed_range(scalar_type(ty), Interval(a, b))
<1>3. RangesTrue(f, ty, v) /\ (is_singleton(f.u) => Singletons(f))
  BY <1>2, SignedRange
<1>4. from_signed_range(ty, r) = f
  BY <1>2 DEF from_signed_range
<1>5. MadeOfRanges(f, ty)
  BY DEF MadeOfRanges
<1> HIDE DEF f
<1> QED
  BY <1>3, <1>4, <1>5 DEF IsExact

\* A leaf made from a range: its bits are promised unless they are the range's.
LEMMA RangeLeafTold ==
  ASSUME NEW ty \in Types, NEW v \in ValuesOf(ty), NEW f, RangesTrue(f, ty, v),
         IsExact(f) => Singletons(f), MadeOfRanges(f, ty)
  PROVE  /\ Told(f, ty, v, IsExact(f), FromRange(f, ty), FALSE)
         /\ FromRange(f, ty) \in BOOLEAN
<1>1. ~FromRange(f, ty) => BitsTrue(f, ty, v)
  BY RangesGiveBits
<1>2. IsExact(f) => ~FromRange(f, ty)
  BY DEF IsExact, FromRange
<1>3. FromRange(f, ty) \in BOOLEAN
  BY DEF FromRange
<1> QED
  BY <1>1, <1>2, <1>3 DEF Told

LEMMA LeavesAreTold ==
  ASSUME NEW ty \in Types, NEW leaf \in Leaves(ty), NEW v \in leaf.values
  PROVE  /\ Told(leaf.facts, ty, v, IsExact(leaf.facts), leaf.derived, FALSE)
         /\ leaf.derived \in BOOLEAN
<1> DEFINE w == W(ty)
           b == signed_bounds(scalar_type(ty))
           masks == {m \in [z : SUBSET (0 .. w - 1), o : SUBSET (0 .. w - 1)] : m.z \cap m.o = {}}
<1>1. \/ \E z, o : /\ leaf.facts = from_known_bits(ty, z, o)
                   /\ leaf.values = {u \in ValuesOf(ty) : BitsHold([w |-> w, z |-> z, o |-> o], ty, u)}
                   /\ leaf.derived = FALSE
      \/ \E r \in Intervals(0, 2 ^ w - 1) :
           /\ leaf.facts = from_unsigned_range(ty, r)
           /\ leaf.values = {u \in ValuesOf(ty) : Holds(r, Unread(ty, u))}
           /\ leaf.derived = FromRange(leaf.facts, ty)
      \/ \E r \in Intervals(b.min, b.max) :
           /\ leaf.facts = from_signed_range(ty, r)
           /\ leaf.values = {u \in ValuesOf(ty) : Holds(r, AsSigned(ty, u))}
           /\ leaf.derived = FromRange(leaf.facts, ty)
  <2> DEFINE BitsLeaves ==
               {Leaf(from_known_bits(ty, m.z, m.o), {u \in ValuesOf(ty) : BitsHold(m, ty, u)}, FALSE) :
                  m \in {[w |-> w, z |-> m.z, o |-> m.o] : m \in masks}}
             RawLeaves ==
               {RangeLeaf(from_unsigned_range(ty, r), ty,
                          {u \in ValuesOf(ty) : Holds(r, Unread(ty, u))}) :
                  r \in Intervals(0, 2 ^ w - 1)}
             SignedLeaves ==
               {RangeLeaf(from_signed_range(ty, r), ty,
                          {u \in ValuesOf(ty) : Holds(r, AsSigned(ty, u))}) :
                  r \in Intervals(b.min, b.max)}
  <2>1. Leaves(ty) = (IF "bits" \notin mix.leaves THEN {} ELSE BitsLeaves)
                     \cup (IF "range" \notin mix.leaves THEN {} ELSE RawLeaves \cup SignedLeaves)
    BY Zenon DEF Leaves, W
  <2>2. ASSUME leaf \in BitsLeaves
        PROVE  \E z, o : /\ leaf.facts = from_known_bits(ty, z, o)
                         /\ leaf.values = {u \in ValuesOf(ty) : BitsHold([w |-> w, z |-> z, o |-> o], ty, u)}
                         /\ leaf.derived = FALSE
    <3>1. PICK m \in masks :
            leaf = LET n == [w |-> w, z |-> m.z, o |-> m.o]
                   IN  Leaf(from_known_bits(ty, n.z, n.o), {u \in ValuesOf(ty) : BitsHold(n, ty, u)}, FALSE)
      BY <2>2
    <3> DEFINE z == m.z
               o == m.o
               n == [w |-> w, z |-> z, o |-> o]
    <3>2. n.z = z /\ n.o = o
      OBVIOUS
    <3>3. leaf.facts = from_known_bits(ty, z, o) /\ leaf.derived = FALSE
          /\ leaf.values = {u \in ValuesOf(ty) : BitsHold(n, ty, u)}
      BY <3>1, <3>2 DEF Leaf
    <3> HIDE DEF z, o
    <3> QED
      BY <3>3
  <2>3. ASSUME leaf \in RawLeaves
        PROVE  \E r \in Intervals(0, 2 ^ w - 1) :
                 /\ leaf.facts = from_unsigned_range(ty, r)
                 /\ leaf.values = {u \in ValuesOf(ty) : Holds(r, Unread(ty, u))}
                 /\ leaf.derived = FromRange(leaf.facts, ty)
    BY <2>3 DEF RangeLeaf, Leaf
  <2>4. ASSUME leaf \in SignedLeaves
        PROVE  \E r \in Intervals(b.min, b.max) :
                 /\ leaf.facts = from_signed_range(ty, r)
                 /\ leaf.values = {u \in ValuesOf(ty) : Holds(r, AsSigned(ty, u))}
                 /\ leaf.derived = FromRange(leaf.facts, ty)
    BY <2>4 DEF RangeLeaf, Leaf
  <2> HIDE DEF BitsLeaves, RawLeaves, SignedLeaves, w, b
  <2> QED
    BY <2>1, <2>2, <2>3, <2>4
<1>2. CASE \E z, o : /\ leaf.facts = from_known_bits(ty, z, o)
                     /\ leaf.values = {u \in ValuesOf(ty) : BitsHold([w |-> w, z |-> z, o |-> o], ty, u)}
                     /\ leaf.derived = FALSE
  <2>1. PICK z, o : /\ leaf.facts = from_known_bits(ty, z, o)
                    /\ leaf.values = {u \in ValuesOf(ty) : BitsHold([w |-> w, z |-> z, o |-> o], ty, u)}
                    /\ leaf.derived = FALSE
    BY <1>2
  <2>2. v \in ValuesOf(ty) /\ BitsHold([w |-> w, z |-> z, o |-> o], ty, v)
    BY <2>1
  <2>3. z \cap BitsOf(Unread(ty, v), W(ty)) = {} /\ o \subseteq BitsOf(Unread(ty, v), W(ty))
    BY <2>2 DEF BitsHold
  <2> DEFINE f == from_known_bits(ty, z, o)
  <2>4. BitsTrue(f, ty, v) /\ RangesTrue(f, ty, v) /\ (IsExact(f) => Singletons(f))
    BY <2>2, <2>3, BitsLeaf
  <2> HIDE DEF f
  <2> QED
    BY <2>1, <2>2, <2>4 DEF Told, f
<1>3. CASE \E r \in Intervals(0, 2 ^ w - 1) :
             /\ leaf.facts = from_unsigned_range(ty, r)
             /\ leaf.values = {u \in ValuesOf(ty) : Holds(r, Unread(ty, u))}
             /\ leaf.derived = FromRange(leaf.facts, ty)
  <2>1. PICK r \in Intervals(0, 2 ^ w - 1) :
           /\ leaf.facts = from_unsigned_range(ty, r)
           /\ leaf.values = {u \in ValuesOf(ty) : Holds(r, Unread(ty, u))}
           /\ leaf.derived = FromRange(leaf.facts, ty)
    BY <1>3
  <2>2. v \in ValuesOf(ty) /\ Holds(r, Unread(ty, v))
    BY <2>1
  <2> DEFINE f == from_unsigned_range(ty, r)
  <2>3. RangesTrue(f, ty, v) /\ (IsExact(f) => Singletons(f)) /\ MadeOfRanges(f, ty)
    BY <2>2, RawLeaf
  <2> HIDE DEF f
  <2>4. /\ Told(f, ty, v, IsExact(f), FromRange(f, ty), FALSE)
        /\ FromRange(f, ty) \in BOOLEAN
    BY <2>2, <2>3, RangeLeafTold
  <2> QED
    BY <2>1, <2>4 DEF f
<1>4. CASE \E r \in Intervals(b.min, b.max) :
             /\ leaf.facts = from_signed_range(ty, r)
             /\ leaf.values = {u \in ValuesOf(ty) : Holds(r, AsSigned(ty, u))}
             /\ leaf.derived = FromRange(leaf.facts, ty)
  <2>1. PICK r \in Intervals(b.min, b.max) :
           /\ leaf.facts = from_signed_range(ty, r)
           /\ leaf.values = {u \in ValuesOf(ty) : Holds(r, AsSigned(ty, u))}
           /\ leaf.derived = FromRange(leaf.facts, ty)
    BY <1>4
  <2>2. v \in ValuesOf(ty) /\ Holds(r, AsSigned(ty, v))
    BY <2>1
  <2> DEFINE f == from_signed_range(ty, r)
  <2>3. RangesTrue(f, ty, v) /\ (IsExact(f) => Singletons(f)) /\ MadeOfRanges(f, ty)
    BY <2>2, SignedLeaf
  <2> HIDE DEF f
  <2>4. /\ Told(f, ty, v, IsExact(f), FromRange(f, ty), FALSE)
        /\ FromRange(f, ty) \in BOOLEAN
    BY <2>2, <2>3, RangeLeafTold
  <2> QED
    BY <2>1, <2>4 DEF f
<1> QED
  BY <1>1, <1>2, <1>3, <1>4

LEMMA InitTold == Init => Inv
<1> SUFFICES ASSUME Init PROVE Inv
  OBVIOUS
<1>1. mix \in Mixes /\ t \in mix.types /\ misled = FALSE
  BY DEF Init
<1>2. PICK leaf \in Leaves(t) : /\ facts = leaf.facts /\ value \in leaf.values
                                /\ exact = IsExact(leaf.facts) /\ derived = leaf.derived
  BY DEF Init
<1>3. t \in Types
  BY <1>1, TypesOfMixes
<1>4. /\ Told(leaf.facts, t, value, IsExact(leaf.facts), leaf.derived, FALSE)
      /\ leaf.derived \in BOOLEAN
  BY <1>2, <1>3, LeavesAreTold
<1>5. exact \in BOOLEAN
  BY <1>2 DEF IsExact, is_singleton
<1> QED
  BY <1>1, <1>2, <1>4, <1>5 DEF Inv

\* What is so of the expression before an operator is applied.
LEMMA StateTold ==
  ASSUME Inv
  PROVE  /\ mix \in Mixes /\ t \in Types /\ (t # "bool" => t \in Integral /\ t \in mix.types)
         /\ exact \in BOOLEAN /\ derived \in BOOLEAN /\ misled \in BOOLEAN
         /\ value \in ValuesOf(t)
         /\ ~misled => RangesTrue(facts, t, value)
         /\ ~misled /\ ~derived => BitsTrue(facts, t, value)
         /\ exact => ~misled /\ ~derived /\ Singletons(facts)
<1>1. mix \in Mixes /\ t \in mix.types \cup {"bool"} /\ Told(facts, t, value, exact, derived, misled)
  BY DEF Inv
<1>2. mix.types \subseteq Integral /\ mix.types \cup {"bool"} \subseteq Types
  BY <1>1, TypesOfMixes
<1> QED
  BY <1>1, <1>2 DEF Told, Inv

\* What an operator that reads bits, or makes new ones, leaves of the invariant.
LEMMA FollowsTold ==
  ASSUME NEW ty \in Types, NEW f, NEW v \in ValuesOf(ty), NEW known, NEW wrong \in BOOLEAN, NEW also,
         ~wrong => Follows(f, ty, v, known),
         also => ~wrong /\ known
  PROVE  Told(f, ty, v, also, FALSE, wrong)
<1>1. ~wrong => RangesFollow(f, ty, v, known)
  BY FollowsRanges
<1> QED
  BY <1>1 DEF Told, Follows, RangesFollow

\* And one that makes a range.
LEMMA RangesFollowTold ==
  ASSUME NEW ty \in Types, NEW f, NEW v \in ValuesOf(ty), NEW known, NEW wrong \in BOOLEAN, NEW also,
         ~wrong => RangesFollow(f, ty, v, known) /\ MadeOfRanges(f, ty),
         also => ~wrong /\ known
  PROVE  Told(f, ty, v, also, FromRange(f, ty), wrong)
<1>1. ~wrong => RangesTrue(f, ty, v) /\ (known => Singletons(f))
  BY DEF RangesFollow
<1>2. ~wrong /\ ~FromRange(f, ty) => BitsTrue(f, ty, v)
  BY <1>1, RangesGiveBits
<1>3. also => ~FromRange(f, ty)
  BY <1>1 DEF FromRange, Singletons
<1> QED
  BY <1>1, <1>2, <1>3 DEF Told

\* An integer operator's value is one of its type, whatever is known.
LEMMA ValuesOfOperators ==
  ASSUME NEW ty \in Integral, NEW l \in ValuesOf(ty)
  PROVE  /\ Wrap(ty, -l) \in ValuesOf(ty) /\ Wrap(ty, -l - 1) \in ValuesOf(ty)
         /\ \A to \in Integral : Wrap(to, l) \in ValuesOf(to)
         /\ \A r \in ValuesOf(ty), op \in Arithmetics \cup Bitwises : Arith(op, ty, l, r) \in ValuesOf(ty)
         /\ \A r \in ValuesOf(ty), op \in Comparisons : Bit(Compare(op, l, r)) \in ValuesOf("bool")
         /\ \A n \in Nat, op \in {"<<", ">>"} : Arith(op, ty, l, n) \in ValuesOf(ty)
<1>1. ty \in Types /\ l \in Int
  BY Values DEF Types
<1>2. -l \in Int /\ -l - 1 \in Int
  BY <1>1
<1>3. Wrap(ty, -l) \in ValuesOf(ty) /\ Wrap(ty, -l - 1) \in ValuesOf(ty)
  BY <1>2, Wrapped
<1>4. \A to \in Integral : Wrap(to, l) \in ValuesOf(to)
  BY <1>1, Wrapped
<1>5. ASSUME NEW r \in ValuesOf(ty), NEW op \in Arithmetics PROVE Arith(op, ty, l, r) \in ValuesOf(ty)
  <2>1. r \in Int
    BY <1>1, Values
  <2>2. Arith(op, ty, l, r) = Wrap(ty, exact_arithmetic(l, r, op)) /\ exact_arithmetic(l, r, op) \in Int
    BY <1>1, <2>1, ArithmeticIsExact DEF Arithmetics
  <2> QED
    BY <2>2, Wrapped
<1>6. ASSUME NEW r \in ValuesOf(ty), NEW op \in Bitwises PROVE Arith(op, ty, l, r) \in ValuesOf(ty)
  <2> DEFINE f == full_facts(scalar_type(ty))
  <2>1. BitsTrue(f, ty, l) /\ BitsTrue(f, ty, r)
    BY <1>1, FullFacts
  <2> HIDE DEF f
  <2>2. Follows(binary_facts(f, op, f, ty), ty, Arith(op, ty, l, r), is_singleton(f.u) /\ is_singleton(f.u))
    BY <2>1, BitwiseKeepsBits DEF Bitwises
  <2> QED
    BY <2>2 DEF Follows
<1>7. ASSUME NEW r \in ValuesOf(ty), NEW op \in Comparisons
      PROVE  Bit(Compare(op, l, r)) \in ValuesOf("bool")
  <2> DEFINE f == full_facts(scalar_type(ty))
             x == Bit(Compare(op, l, r))
  <2>1. RangesTrue(f, ty, l) /\ RangesTrue(f, ty, r)
    BY <1>1, FullFacts, BitsGiveRanges
  <2> HIDE DEF f
  <2>2. Follows(binary_facts(f, op, f, ty), "bool", x, Singletons(f) /\ Singletons(f))
    BY <2>1, ComparisonKeepsFacts
  <2> HIDE DEF x
  <2>3. x \in ValuesOf("bool")
    BY <2>2 DEF Follows
  <2> QED
    BY <2>3 DEF x
<1>8. ASSUME NEW n \in Nat, NEW op \in {"<<", ">>"} PROVE Arith(op, ty, l, n) \in ValuesOf(ty)
  <2>1. ShiftLeft(ty, l, n) \in Int /\ ShiftRight(l, n) \in Int
    BY BitsOfLeft, BitsOfRight
  <2>2. CASE op = "<<"
    <3>1. Arith("<<", ty, l, n) = Wrap(ty, ShiftLeft(ty, l, n))
      BY DEF Arith
    <3> QED
      BY <2>1, <2>2, <3>1, Wrapped
  <2>3. CASE op = ">>"
    <3>1. Arith(">>", ty, l, n) = Wrap(ty, ShiftRight(l, n))
      BY DEF Arith
    <3> QED
      BY <2>1, <2>3, <3>1, Wrapped
  <2> QED
    BY <2>2, <2>3
<1> QED
  BY <1>3, <1>4, <1>5, <1>6, <1>7, <1>8

LEMMA UnaryTold ==
  ASSUME Inv, NEW op \in {"neg", "~", "!"}, ApplyUnary(op)
  PROVE  Inv'
<1>1. /\ mix \in Mixes /\ t \in Types /\ (t # "bool" => t \in Integral /\ t \in mix.types)
      /\ exact \in BOOLEAN /\ derived \in BOOLEAN /\ misled \in BOOLEAN
      /\ value \in ValuesOf(t)
      /\ ~misled => RangesTrue(facts, t, value)
      /\ ~misled /\ ~derived => BitsTrue(facts, t, value)
      /\ exact => ~misled /\ ~derived /\ Singletons(facts)
  BY StateTold
<1>2. t \in Integral /\ t \in mix.types /\ mix' = mix /\ exact' = exact
  BY <1>1 DEF ApplyUnary
<1>3. exact => ~misled /\ ~derived /\ is_singleton(facts.u)
  BY <1>1 DEF Singletons
<1>4. Wrap(t, -value) \in ValuesOf(t) /\ Wrap(t, -value - 1) \in ValuesOf(t)
  BY <1>1, <1>2, ValuesOfOperators
<1>5. SUFFICES /\ t' \in mix.types \cup {"bool"} /\ derived' \in BOOLEAN /\ misled' \in BOOLEAN
               /\ Told(facts', t', value', exact, derived', misled')
  BY <1>1, <1>2 DEF Inv
<1>6. CASE op = "neg"
  <2> DEFINE f == unary_facts("-", facts, t)
             x == Wrap(t, -value)
  <2>1. t' = t /\ value' = x /\ facts' = f /\ derived' = FromRange(f, t) /\ misled' = misled
    BY <1>1, <1>6 DEF ApplyUnary, FromRange
  <2>2. ~misled => RangesFollow(f, t, x, is_singleton(facts.u)) /\ MadeOfRanges(f, t)
    BY <1>1, <1>2, NegateKeepsRanges, NegationMadeOfRanges
  <2>3. x \in ValuesOf(t)
    BY <1>4
  <2> HIDE DEF f, x
  <2>4. Told(f, t, x, exact, FromRange(f, t), misled)
    BY <1>1, <1>3, <2>2, <2>3, RangesFollowTold
  <2> QED
    BY <1>1, <1>2, <2>1, <2>4 DEF FromRange
<1>7. CASE op = "~"
  <2> DEFINE f == unary_facts("~", facts, t)
             x == Wrap(t, -value - 1)
             wrong == misled \/ derived
  <2>1. t' = t /\ value' = x /\ facts' = f /\ derived' = FALSE /\ misled' = wrong
    BY <1>7 DEF ApplyUnary
  <2>2. ~wrong => Follows(f, t, x, is_singleton(facts.u))
    BY <1>1, <1>2, NotKeepsBits
  <2>3. x \in ValuesOf(t) /\ wrong \in BOOLEAN /\ (exact => ~wrong /\ is_singleton(facts.u))
    BY <1>3, <1>4
  <2> HIDE DEF f, x, wrong
  <2>4. Told(f, t, x, exact, FALSE, wrong)
    BY <1>1, <2>2, <2>3, FollowsTold
  <2> QED
    BY <1>2, <2>1, <2>3, <2>4
<1>8. CASE op = "!"
  <2> DEFINE f == unary_facts("!", facts, t)
             x == Bit(value = 0)
  <2>1. t' = "bool" /\ value' = x /\ facts' = f /\ derived' = FALSE /\ misled' = misled
    BY <1>1, <1>8 DEF ApplyUnary
  <2>2. ~misled => Follows(f, "bool", x, is_singleton(facts.u))
    BY <1>1, <1>2, NotKeepsFacts
  <2>3. x \in ValuesOf("bool") /\ "bool" \in Types
    BY BoolFact DEF Types
  <2> HIDE DEF f, x
  <2>4. Told(f, "bool", x, exact, FALSE, misled)
    BY <1>1, <1>3, <2>2, <2>3, FollowsTold
  <2> QED
    BY <1>1, <2>1, <2>4
<1> QED
  BY <1>6, <1>7, <1>8

LEMMA BinaryTold ==
  ASSUME Inv, NEW op \in Arithmetics \cup Bitwises \cup Comparisons, ApplyBinary(op)
  PROVE  Inv'
<1>1. /\ mix \in Mixes /\ t \in Types /\ (t # "bool" => t \in Integral /\ t \in mix.types)
      /\ exact \in BOOLEAN /\ derived \in BOOLEAN /\ misled \in BOOLEAN
      /\ value \in ValuesOf(t)
      /\ ~misled => RangesTrue(facts, t, value)
      /\ ~misled /\ ~derived => BitsTrue(facts, t, value)
      /\ exact => ~misled /\ ~derived /\ Singletons(facts)
  BY StateTold
<1>2. t \in Integral /\ t \in mix.types /\ mix' = mix
  BY <1>1 DEF ApplyBinary
<1>3. PICK leaf \in Leaves(t) : \E v \in leaf.values :
        /\ value' = IF op \in Comparisons THEN Bit(Compare(op, value, v)) ELSE Arith(op, t, value, v)
        /\ facts' = binary_facts(facts, op, leaf.facts, t)
        /\ exact' = (exact /\ IsExact(leaf.facts))
        /\ misled' = (misled \/ (op \in Bitwises /\ (derived \/ leaf.derived)))
  BY DEF ApplyBinary
<1>4. PICK v \in leaf.values :
        /\ value' = IF op \in Comparisons THEN Bit(Compare(op, value, v)) ELSE Arith(op, t, value, v)
        /\ facts' = binary_facts(facts, op, leaf.facts, t)
        /\ exact' = (exact /\ IsExact(leaf.facts))
        /\ misled' = (misled \/ (op \in Bitwises /\ (derived \/ leaf.derived)))
  BY <1>3
<1> DEFINE g == leaf.facts
           d == leaf.derived
           f == binary_facts(facts, op, g, t)
           also == exact /\ IsExact(g)
           known == Singletons(facts) /\ Singletons(g)
<1>5. Told(g, t, v, IsExact(g), d, FALSE) /\ d \in BOOLEAN
  BY <1>1, LeavesAreTold
<1> HIDE DEF g, d
<1>6. v \in ValuesOf(t) /\ RangesTrue(g, t, v) /\ (~d => BitsTrue(g, t, v))
      /\ (IsExact(g) => ~d /\ Singletons(g))
  BY <1>5 DEF Told
<1>7. facts' = f /\ exact' = also /\ also \in BOOLEAN
      /\ misled' = (misled \/ (op \in Bitwises /\ (derived \/ d)))
  BY <1>1, <1>4 DEF g, d, IsExact, is_singleton
<1>8. also => ~misled /\ ~derived /\ ~d /\ known
  BY <1>1, <1>6
<1> HIDE DEF also
<1>9. SUFFICES /\ t' \in mix.types \cup {"bool"} /\ derived' \in BOOLEAN /\ misled' \in BOOLEAN
               /\ Told(f, t', value', also, derived', misled')
  BY <1>1, <1>2, <1>7 DEF Inv
<1>10. CASE op \in Comparisons
  <2> DEFINE x == Bit(Compare(op, value, v))
  <2>1. t' = "bool" /\ value' = x /\ derived' = FALSE /\ misled' = misled
    BY <1>1, <1>4, <1>7, <1>10 DEF ApplyBinary, Comparisons, Arithmetics, Bitwises
  <2>2. ~misled => Follows(f, "bool", x, known)
    BY <1>1, <1>2, <1>6, <1>10, ComparisonKeepsFacts
  <2>3. x \in ValuesOf("bool") /\ "bool" \in Types
    BY <1>1, <1>2, <1>6, <1>10, ValuesOfOperators DEF Types
  <2> HIDE DEF f, x, known
  <2>4. Told(f, "bool", x, also, FALSE, misled)
    BY <1>1, <1>8, <2>2, <2>3, FollowsTold
  <2> QED
    BY <1>1, <2>1, <2>4
<1>11. CASE op \in Bitwises
  <2> DEFINE x == Arith(op, t, value, v)
             wrong == misled \/ derived \/ d
             both == is_singleton(facts.u) /\ is_singleton(g.u)
  <2>1. t' = t /\ value' = x /\ derived' = FALSE /\ misled' = wrong
    BY <1>4, <1>7, <1>11 DEF ApplyBinary, Comparisons, Arithmetics, Bitwises
  <2>2. ~wrong => Follows(f, t, x, both)
    <3>1. ~wrong => BitsTrue(facts, t, value) /\ BitsTrue(g, t, v)
      BY <1>1, <1>6
    <3> QED
      BY <1>1, <1>2, <1>6, <1>11, <3>1, BitwiseKeepsBits DEF Bitwises
  <2>3. x \in ValuesOf(t)
    BY <1>1, <1>2, <1>6, <1>11, ValuesOfOperators
  <2>4. wrong \in BOOLEAN /\ (also => ~wrong /\ both)
    BY <1>1, <1>5, <1>8 DEF Singletons
  <2> HIDE DEF f, x, wrong, both
  <2>5. Told(f, t, x, also, FALSE, wrong)
    BY <1>1, <2>2, <2>3, <2>4, FollowsTold
  <2> QED
    BY <1>2, <2>1, <2>4, <2>5
<1>12. CASE op \in Arithmetics
  <2> DEFINE x == Arith(op, t, value, v)
  <2>1. t' = t /\ value' = x /\ derived' = FromRange(f, t) /\ misled' = misled
    BY <1>1, <1>4, <1>7, <1>12 DEF ApplyBinary, Comparisons, Arithmetics, Bitwises, FromRange
  <2>2. ~misled => RangesFollow(f, t, x, known)
    BY <1>1, <1>2, <1>6, <1>12, ArithmeticKeepsRanges DEF Arithmetics
  <2>3. ~misled => MadeOfRanges(f, t)
    BY <1>1, <1>2, <1>6, <1>12, ArithmeticMadeOfRanges
  <2>4. x \in ValuesOf(t)
    BY <1>1, <1>2, <1>6, <1>12, ValuesOfOperators
  <2> HIDE DEF f, x, known
  <2>5. Told(f, t, x, also, FromRange(f, t), misled)
    BY <1>1, <1>8, <2>2, <2>3, <2>4, RangesFollowTold
  <2> QED
    BY <1>1, <1>2, <2>1, <2>5 DEF FromRange
<1> QED
  BY <1>10, <1>11, <1>12

LEMMA LogicalTold ==
  ASSUME Inv, NEW op \in {"&&", "||"}, ApplyLogical(op)
  PROVE  Inv'
<1>1. /\ mix \in Mixes /\ t \in Types
      /\ exact \in BOOLEAN /\ derived \in BOOLEAN /\ misled \in BOOLEAN
      /\ value \in ValuesOf(t)
      /\ ~misled => RangesTrue(facts, t, value)
      /\ exact => ~misled /\ Singletons(facts)
  BY StateTold
<1>2. t = "bool" /\ t' = "bool" /\ mix' = mix /\ derived' = FALSE /\ misled' = misled
  BY DEF ApplyLogical
<1>3. PICK leaf \in Leaves(t) : \E v \in leaf.values :
        /\ value' = CASE op = "&&" -> value * v [] op = "||" -> Bit(value + v > 0)
        /\ facts' = binary_facts(facts, op, leaf.facts, t)
        /\ exact' = (exact /\ IsExact(leaf.facts))
  BY Zenon DEF ApplyLogical
<1>4. PICK v \in leaf.values :
        /\ value' = CASE op = "&&" -> value * v [] op = "||" -> Bit(value + v > 0)
        /\ facts' = binary_facts(facts, op, leaf.facts, t)
        /\ exact' = (exact /\ IsExact(leaf.facts))
  BY <1>3
<1> DEFINE g == leaf.facts
           f == binary_facts(facts, op, g, "bool")
           x == CASE op = "&&" -> value * v [] op = "||" -> Bit(value + v > 0)
           full == full_facts(scalar_type("bool"))
           also == exact /\ IsExact(g)
           both == is_singleton(facts.u) /\ is_singleton(g.u)
<1>5. Told(g, t, v, IsExact(g), leaf.derived, FALSE)
  BY <1>1, LeavesAreTold
<1>6. v \in ValuesOf(t) /\ RangesTrue(g, t, v) /\ (IsExact(g) => Singletons(g))
  BY <1>5 DEF Told
<1>7. facts' = f /\ value' = x /\ exact' = also
  BY <1>2, <1>4
<1>8. ~misled => Follows(f, "bool", x, both)
  <2> HIDE DEF g
  <2> QED
    BY <1>1, <1>2, <1>6, LogicalKeepsFacts
<1>9. x \in ValuesOf("bool")
  <2>1. RangesTrue(full, "bool", value) /\ RangesTrue(full, "bool", v)
    BY <1>1, <1>2, <1>6, FullFacts, BitsGiveRanges DEF Types
  <2> HIDE DEF full
  <2>2. Follows(binary_facts(full, op, full, "bool"), "bool",
                CASE op = "&&" -> value * v [] op = "||" -> Bit(value + v > 0),
                is_singleton(full.u) /\ is_singleton(full.u))
    BY <1>1, <1>2, <1>6, <2>1, LogicalKeepsFacts
  <2> QED
    BY <2>2 DEF Follows
<1>10. also \in BOOLEAN /\ (also => ~misled /\ both)
  BY <1>1, <1>6 DEF Singletons, IsExact, is_singleton
<1> HIDE DEF g, f, x, also, both
<1>11. Told(f, "bool", x, also, FALSE, misled)
  BY <1>1, <1>2, <1>8, <1>9, <1>10, FollowsTold
<1> QED
  BY <1>1, <1>2, <1>7, <1>10, <1>11 DEF Inv

LEMMA ShiftTold ==
  ASSUME Inv, NEW op \in {"<<", ">>"}, ApplyShift(op)
  PROVE  Inv'
<1>1. /\ mix \in Mixes /\ t \in Types /\ (t # "bool" => t \in Integral /\ t \in mix.types)
      /\ exact \in BOOLEAN /\ derived \in BOOLEAN /\ misled \in BOOLEAN
      /\ value \in ValuesOf(t)
      /\ ~misled /\ ~derived => BitsTrue(facts, t, value)
      /\ exact => ~misled /\ ~derived /\ Singletons(facts)
  BY StateTold
<1>2. t \in Integral /\ t \in mix.types /\ t' = t /\ mix' = mix /\ derived' = FALSE
  BY <1>1 DEF ApplyShift
<1>3. PICK c \in IF op = "<<" THEN LeftCounts ELSE RightCounts : \E n \in c.u.min .. c.u.max :
        /\ value' = Arith(op, t, value, n)
        /\ facts' = binary_facts(facts, op, c, t)
        /\ exact' = (exact /\ IsExact(c))
        /\ misled' = (misled \/ derived \/ OneOfSeveral(op, c))
  BY DEF ApplyShift
<1>4. PICK n \in c.u.min .. c.u.max :
        /\ value' = Arith(op, t, value, n)
        /\ facts' = binary_facts(facts, op, c, t)
        /\ exact' = (exact /\ IsExact(c))
        /\ misled' = (misled \/ derived \/ OneOfSeveral(op, c))
  BY <1>3
<1> DEFINE f == binary_facts(facts, op, c, t)
           x == Arith(op, t, value, n)
           wrong == misled \/ derived \/ OneOfSeveral(op, c)
           both == is_singleton(facts.u) /\ is_singleton(c.u)
           also == exact /\ IsExact(c)
<1>5. c \in LeftCounts \cup RightCounts /\ (op = "<<" => c \in LeftCounts) /\ (op = ">>" => c \in RightCounts)
  BY <1>3
<1>6. c.u.min \in Nat /\ c.u.max \in Nat
  BY <1>5, CountShape
<1>7. n \in Nat
  BY <1>4, <1>6
<1>8. ~wrong => Follows(f, t, x, both)
  <2> SUFFICES ASSUME ~wrong PROVE Follows(f, t, x, both)
    OBVIOUS
  <2>1. BitsTrue(facts, t, value)
    BY <1>1
  <2>2. CASE op = "<<"
    <3>1. Bits(t) = W(t) /\ W(t) \in Nat
      BY <1>2, Widths
    <3>2. is_singleton(c.u) \/ c.u.max >= W(t)
      BY <1>6, <2>2, <3>1 DEF OneOfSeveral
    <3>3. Follows(binary_facts(facts, "<<", c, t), t, Arith("<<", t, value, n), both)
      BY <1>1, <1>2, <1>4, <1>5, <2>1, <2>2, <3>2, LeftShiftKeepsBits
    <3> QED
      BY <2>2, <3>3
  <2>3. CASE op = ">>"
    <3>1. Follows(binary_facts(facts, ">>", c, t), t, Arith(">>", t, value, n), both)
      BY <1>1, <1>2, <1>4, <1>5, <2>1, <2>3, RightShiftKeepsBits
    <3> QED
      BY <2>3, <3>1
  <2> QED
    BY <2>2, <2>3
<1>9. x \in ValuesOf(t)
  BY <1>1, <1>2, <1>7, ValuesOfOperators
<1>10. facts' = f /\ value' = x /\ exact' = also /\ misled' = wrong
  BY <1>4
<1>11. wrong \in BOOLEAN /\ also \in BOOLEAN
  BY <1>1 DEF OneOfSeveral, IsExact, is_singleton
<1>12. also => ~wrong /\ both
  BY <1>1 DEF OneOfSeveral, IsExact, Singletons
<1> HIDE DEF f, x, wrong, both, also
<1>13. Told(f, t, x, also, FALSE, wrong)
  BY <1>1, <1>8, <1>9, <1>11, <1>12, FollowsTold
<1> QED
  BY <1>1, <1>2, <1>10, <1>11, <1>13 DEF Inv

LEMMA CastTold ==
  ASSUME Inv, NEW ty \in mix.types, ApplyCast(ty)
  PROVE  Inv'
<1>1. /\ mix \in Mixes /\ t \in Types
      /\ exact \in BOOLEAN /\ derived \in BOOLEAN /\ misled \in BOOLEAN
      /\ value \in ValuesOf(t)
      /\ ~misled /\ ~derived => BitsTrue(facts, t, value)
      /\ exact => ~misled /\ ~derived /\ Singletons(facts)
  BY StateTold
<1> DEFINE f == cast_facts(facts, ty)
           x == Wrap(ty, value)
           wrong == misled \/ derived
<1>2. /\ t' = ty /\ value' = x /\ facts' = f /\ mix' = mix /\ exact' = exact
      /\ derived' = FALSE /\ misled' = wrong
  BY DEF ApplyCast
<1>3. ty \in Integral /\ ty \in Types
  BY <1>1, TypesOfMixes
<1>4. ~wrong => Follows(f, ty, x, is_singleton(facts.u))
  BY <1>1, <1>3, CastKeepsBits
<1>5. x \in ValuesOf(ty)
  <2>1. value \in Int
    BY <1>1, Values
  <2> QED
    BY <1>3, <2>1, Wrapped
<1>6. wrong \in BOOLEAN /\ (exact => ~wrong /\ is_singleton(facts.u))
  BY <1>1 DEF Singletons
<1> HIDE DEF f, x, wrong
<1>7. Told(f, ty, x, exact, FALSE, wrong)
  BY <1>1, <1>3, <1>4, <1>5, <1>6, FollowsTold
<1> QED
  BY <1>1, <1>2, <1>6, <1>7 DEF Inv

LEMMA StepTold ==
  ASSUME Inv, [Next]_vars
  PROVE  Inv'
<1>1. CASE \E op \in mix.operators \cap {"neg", "~", "!"} : ApplyUnary(op)
  BY <1>1, UnaryTold
<1>2. CASE \E op \in mix.operators \cap (Arithmetics \cup Bitwises \cup Comparisons) : ApplyBinary(op)
  BY <1>2, BinaryTold
<1>3. CASE \E op \in mix.operators \cap {"&&", "||"} : ApplyLogical(op)
  BY <1>3, LogicalTold
<1>4. CASE \E op \in mix.operators \cap {"<<", ">>"} : ApplyShift(op)
  BY <1>4, ShiftTold
<1>5. CASE "cast" \in mix.operators /\ \E ty \in mix.types : ApplyCast(ty)
  BY <1>5, CastTold
<1>6. CASE UNCHANGED vars
  BY <1>6 DEF Inv, Told, vars
<1> QED
  BY <1>1, <1>2, <1>3, <1>4, <1>5, <1>6 DEF Next

\* What is known of an expression is true of its value at every step, short of
\* what derived and misled say of it, and neither of those befalls an expression
\* of literals alone: it is known as one number, unsigned and signed.
THEOREM ExpressionsAreTold == Spec => []Inv
<1>1. Init => Inv
  BY InitTold
<1>2. Inv /\ [Next]_vars => Inv'
  BY StepTold
<1> QED
  BY <1>1, <1>2, PTL DEF Spec

LEMMA BitsAreTrue ==
  ASSUME Inv, ~misled, ~derived
  PROVE  BitsHold(facts, t, value)
<1>1. t \in Types /\ value \in ValuesOf(t) /\ BitsTrue(facts, t, value)
  BY StateTold
<1>2. facts.o \subseteq BitsOf(value, W(t)) /\ facts.z \subseteq (0 .. W(t) - 1) \ BitsOf(value, W(t))
  BY <1>1 DEF BitsTrue
<1>3. facts.w = W(t)
  BY <1>1, BitsGiveRanges
<1>4. BitsOf(Unread(t, value), facts.w) = BitsOf(value, W(t))
  BY <1>1, <1>3, BitsOfUnread
<1> QED
  BY <1>2, <1>4 DEF BitsHold

\* Everything src/tbir/range.rs says of an expression is true of its value,
\* whatever the types, the leaves, the operators and the depth, up to the first
\* operator that reads the bits of a range or shifts left by one of several counts.
THEOREM FactsAreTrue == Spec => []FactsHold
<1>1. Inv => FactsHold
  <2>1. ASSUME Inv, ~misled
        PROVE  Holds(facts.u, Unread(t, value)) /\ Holds(facts.s, AsSigned(t, value))
    BY <2>1, StateTold DEF RangesTrue
  <2> QED
    BY <2>1, BitsAreTrue DEF FactsHold
<1> QED
  BY <1>1, ExpressionsAreTold, PTL

\* Folding loses nothing that literals fix, and gets it right: whatever the
\* operators, the facts of such an expression are its value.
THEOREM LiteralsAreExact == Spec => []LiteralsStayExact
<1>1. Inv => LiteralsStayExact
  <2> SUFFICES ASSUME Inv, exact PROVE IsExact(facts) /\ facts.u.min = Unread(t, value)
    BY DEF LiteralsStayExact
  <2>1. /\ t \in Types /\ value \in ValuesOf(t)
        /\ RangesTrue(facts, t, value) /\ is_singleton(facts.u)
    BY StateTold DEF Singletons
  <2>2. 2 ^ W(t) \in Nat
    BY <2>1, WidthOfType
  <2>3. Unread(t, value) \in Int
    BY <2>1, <2>2, Values
  <2> QED
    BY <2>1, <2>3 DEF IsExact, is_singleton, RangesTrue, Shaped, Holds
<1> QED
  BY <1>1, ExpressionsAreTold, PTL

\* What the peephole asks of a mask (mask_proof) is answered truly where the
\* bits it reads are not a range's and nothing misled them: the mask may be
\* dropped, or the masked value taken for zero, when the proof says so.
THEOREM MaskProofsAreTrue == Spec => []MaskProofsHold
<1>1. Inv => MaskProofsHold
  <2> SUFFICES ASSUME Inv, ~misled, ~derived, t # "bool", NEW mask \in SUBSET mask_for_width(facts.w)
               PROVE  LET p == mask_proof(facts, mask)
                          ones == BitsOf(Unread(t, value), facts.w)
                      IN  /\ p.proves_zero => ones \cap mask = {}
                          /\ p.proves_identity => ones \subseteq mask
                          /\ BitsHold(p.result, t, ValueOf(ones \cap mask))
    BY Zenon DEF MaskProofsHold
  <2>1. t \in Types /\ t \in Integral /\ value \in ValuesOf(t) /\ BitsTrue(facts, t, value)
    BY StateTold
  <2> DEFINE w == W(t)
             z == facts.z
             o == facts.o
             ones == BitsOf(Unread(t, value), facts.w)
             outside == mask_for_width(facts.w) \ mask
             p == mask_proof(facts, mask)
             aligned == {i \in mask_for_width(facts.w) : 0 .. i \subseteq z}
             made == facts_from_known_bits(Scalar(facts.w, facts.sg), z \cup outside, o \cap mask)
  <2>2. facts.w = w /\ w \in Nat
    BY <2>1, BitsGiveRanges, WidthOfType
  <2>3. ones = BitsOf(value, w)
    BY <2>1, <2>2, BitsOfUnread
  <2>4. o \subseteq ones /\ z \subseteq (0 .. w - 1) \ ones /\ ones \subseteq 0 .. w - 1
    BY <2>1, <2>3, KnownBitsOfType
  <2>5. outside = (0 .. w - 1) \ mask /\ mask \subseteq 0 .. w - 1
    BY <2>2 DEF mask_for_width
  <2>6. p.proves_zero => mask \subseteq z \/ mask \subseteq aligned
    BY DEF mask_proof
  <2>7. aligned \subseteq z
    <3> SUFFICES ASSUME NEW i \in aligned PROVE i \in z
      OBVIOUS
    <3>1. i \in 0 .. w - 1 /\ 0 .. i \subseteq z
      BY <2>2 DEF mask_for_width
    <3>2. i \in 0 .. i
      BY <3>1
    <3> QED
      BY <3>1, <3>2
  <2>8. p.proves_zero => ones \cap mask = {}
    BY <2>4, <2>6, <2>7
  <2>9. p.proves_identity => ones \subseteq mask
    <3>1. p.proves_identity => outside \subseteq z
      BY DEF mask_proof
    <3> QED
      BY <2>4, <2>5, <3>1
  <2>10. p.result = made
    BY DEF mask_proof
  <2>11. /\ made.w = w
         /\ made.o = Low(o \cap mask, w)
         /\ made.z = Low(z \cup outside, w) \ Low(o \cap mask, w)
    BY <2>2 DEF facts_from_known_bits, Scalar
  <2> HIDE DEF made, ones, p, outside
  <2>12. made.o \subseteq ones \cap mask /\ made.z \cap (ones \cap mask) = {}
    BY <2>4, <2>5, <2>11 DEF Low
  <2> DEFINE s == ones \cap mask
  <2>13. s \in SUBSET (0 .. w - 1)
    BY <2>4
  <2> HIDE DEF s
  <2>14. ValueOf(s) \in 0 .. 2 ^ w - 1 /\ BitsOf(ValueOf(s), w) = s
    BY <2>2, <2>13, ValueOfRange, BitsOfValue
  <2>15. Unread(t, ValueOf(s)) = ValueOf(s)
    <3>1. Unread(t, ValueOf(s)) = ValueOf(s) % 2 ^ w
      BY <2>1, Widths DEF Unread, Raw
    <3>2. 2 ^ w \in Nat \ {0} /\ ValueOf(s) \in Int
      BY <2>2, <2>14, PowerDoubles
    <3> QED
      BY <2>14, <3>1, <3>2, RemainderOfRange
  <2>16. BitsHold(p.result, t, ValueOf(s))
    BY <2>10, <2>11, <2>12, <2>14, <2>15 DEF BitsHold, s
  <2> QED
    BY <2>8, <2>9, <2>16 DEF s, ones, p
<1> QED
  BY <1>1, ExpressionsAreTold, PTL

===============================================================================

----------------------------- MODULE Ops64Proofs -----------------------------
(***************************************************************************)
(* What the entries of rounding.cpp, compare.cpp and classify.cpp return,  *)
(* for every format and every operand.                                     *)
(***************************************************************************)
EXTENDS Ops64, Rounding64Proofs

---------------------------------------------------------------------------
(* Words without their sign, and the magnitudes they stand for.            *)
LastWord == ExpMax * ImplicitBit + (ImplicitBit - 1)

(* A word is its exponent field above its fraction field.                  *)
LEMMA WordFields ==
  ASSUME NEW s \in {0, 1}, NEW l \in 0..LastWord
  PROVE  /\ WithLow(s, l) \in Values
         /\ Low(WithLow(s, l)) = l
         /\ WithLow(s, l).s = s
         /\ WithLow(s, l).e = l \div ImplicitBit /\ WithLow(s, l).f = l % ImplicitBit
<1>. DEFINE I == ImplicitBit
            e == l \div I
            f == l % I
<1>1. I \in Nat /\ I >= 1 /\ ExpMax \in Nat
  BY Fields, GuardPowers
<1>2. l \in Nat /\ l < ExpMax * I + I
  BY <1>1, Z3 DEF LastWord
<1>3. e \in Nat /\ f \in Nat /\ f < I /\ l = e * I + f
  BY <1>1, <1>2, Split
<1>4. e <= ExpMax
  <2>. HIDE DEF e, f, I
  <2>. SUFFICES ASSUME e > ExpMax PROVE FALSE
    BY <1>1, <1>3
  <2>1. (e - ExpMax - 1) * I >= 0
    BY <1>1, <1>3, Z3
  <2>2. e * I >= ExpMax * I + I
    BY <1>1, <1>3, <2>1, Z3
  <2>. QED BY <1>1, <1>2, <1>3, <2>2, Z3
<1>5. WithLow(s, l) = [s |-> s, e |-> e, f |-> f]
  BY DEF WithLow
<1>6. e \in 0..ExpMax /\ f \in 0..(I - 1)
  <2>. HIDE DEF e, f, I
  <2>. QED BY <1>1, <1>3, <1>4
<1>7. WithLow(s, l) \in Values
  <2>. HIDE DEF e, f
  <2>. QED BY <1>5, <1>6 DEF Values
<1>8. Low(WithLow(s, l)) = e * I + f
  BY <1>5 DEF Low
<1>. QED BY <1>3, <1>5, <1>7, <1>8

(* Two values with one sign and one word are one.                          *)
LEMMA SameWord ==
  ASSUME NEW a \in Values, NEW b \in Values, Low(a) = Low(b), a.s = b.s
  PROVE  a = b
<1>. DEFINE I == ImplicitBit
<1>1. I \in Nat /\ I >= 1
  BY GuardPowers
<1>2. /\ a.e \in Nat /\ a.f \in Nat /\ a.f < I
      /\ b.e \in Nat /\ b.f \in Nat /\ b.f < I
  BY <1>1, Fields DEF Values
<1>3. \A k, r \in Nat : r < I => (k * I + r) \div I = k /\ (k * I + r) % I = r
  BY <1>1, Join
<1>4. a.e * I + a.f = b.e * I + b.f
  BY DEF Low
<1>5. a.e = b.e /\ a.f = b.f
  <2>. HIDE DEF I
  <2>1. /\ (a.e * I + a.f) \div I = a.e /\ (a.e * I + a.f) % I = a.f
    BY <1>2, <1>3, Zenon
  <2>2. /\ (b.e * I + b.f) \div I = b.e /\ (b.e * I + b.f) % I = b.f
    BY <1>2, <1>3, Zenon
  <2>. QED BY <1>4, <2>1, <2>2, Zenon
<1>6. /\ a = [s |-> a.s, e |-> a.e, f |-> a.f]
      /\ b = [s |-> b.s, e |-> b.e, f |-> b.f]
  BY DEF Values
<1>. QED BY <1>5, <1>6

(* The word of a value that is no NaN is the index of its magnitude.       *)
LEMMA WordIndex ==
  ASSUME NEW v \in Values, ~ IsNaN(v)
  PROVE  /\ Low(v) \in 0..(ExpMax * ImplicitBit) /\ Low(v) \in 0..LastWord
         /\ Ref!Mag(v) = Ref!Magnitude[Low(v)]
         /\ IsZero(v) <=> Low(v) = 0
         /\ IsInf(v) <=> Low(v) = ExpMax * ImplicitBit
<1>. DEFINE I == ImplicitBit
<1>1. I \in Nat /\ I >= 1 /\ ExpMax \in Nat /\ ExpMax >= 3
  BY Fields, GuardPowers
<1>2. v.e \in Nat /\ v.f \in Nat /\ v.f < I /\ v.e <= ExpMax /\ (v.e = ExpMax => v.f = 0)
  BY <1>1 DEF Values, IsNaN
<1>. DEFINE e == v.e
            f == v.f
<1>3. Low(v) = e * I + f
  BY DEF Low
<1>4. /\ e * I + f \in Nat
      /\ e * I + f = 0 <=> e = 0 /\ f = 0
  <2>. HIDE DEF e, f, I
  <2>1. e * I \in Nat /\ (e >= 1 => e * I >= 1)
    BY <1>1, <1>2, Z3 DEF e, f, I
  <2>2. e * I = 0 <=> e = 0
    BY <1>1, <1>2, Z3 DEF e, f, I
  <2>. QED BY <1>1, <1>2, <2>1, <2>2 DEF e, f
<1>5. e < ExpMax => e * I + f < ExpMax * I
  <2>. SUFFICES ASSUME e < ExpMax PROVE e * I + f < ExpMax * I
    OBVIOUS
  <2>. HIDE DEF e, f, I
  <2>1. (ExpMax - e - 1) * I >= 0
    BY <1>1, <1>2, Z3 DEF e, f, I
  <2>. QED BY <1>1, <1>2, <2>1, Z3 DEF e, f, I
<1>6. ExpMax * I \in Nat /\ LastWord >= ExpMax * I /\ LastWord \in Nat
  BY <1>1, Z3 DEF LastWord
<1>7. e = ExpMax => e * I + f = ExpMax * I
  BY <1>2, <1>6
<1>8. Ref!Mag(v) = Ref!Magnitude[Low(v)]
  BY SameFormat DEF Ref!Mag, Low
<1>. QED
  <2>. HIDE DEF e, f, I
  <2>1. e * I + f <= ExpMax * I
    BY <1>1, <1>2, <1>4, <1>5, <1>6, <1>7 DEF e, f
  <2>2. IsInf(v) <=> e = ExpMax
    BY <1>2 DEF IsInf, e
  <2>3. IsZero(v) <=> (e = 0 /\ f = 0)
    BY DEF IsZero, e, f
  <2>. DEFINE w == e * I + f
              M == ExpMax * I
  <2>4. e = ExpMax <=> w = M
    <3>1. /\ w \in Nat /\ M \in Nat /\ e \in Nat /\ e <= ExpMax
          /\ e < ExpMax => w < M
          /\ e = ExpMax => w = M
      BY <1>2, <1>4, <1>5, <1>6, <1>7 DEF e
    <3>. HIDE DEF w, M
    <3>. QED BY <1>1, <3>1
  <2>5. w \in 0..M /\ w \in 0..LastWord
    <3>1. w \in Nat /\ w <= M /\ M \in Nat /\ M <= LastWord /\ LastWord \in Nat
      BY <1>4, <1>6, <2>1
    <3>. HIDE DEF w, M
    <3>. QED BY <3>1
  <2>. QED BY <1>3, <1>4, <1>8, <2>2, <2>3, <2>4, <2>5 DEF I

(* Values in the order of their words are in the order of their magnitudes.*)
LEMMA WordOrder ==
  ASSUME NEW a \in Values, ~ IsNaN(a), NEW b \in Values, ~ IsNaN(b)
  PROVE  /\ Ref!Mag(a) \in Nat /\ Ref!Mag(b) \in Nat
         /\ Ref!Mag(a) < Ref!Mag(b) <=> Low(a) < Low(b)
         /\ Ref!Mag(a) = Ref!Mag(b) <=> Low(a) = Low(b)
<1>. DEFINE M == ExpMax * ImplicitBit
<1>1. M \in Nat /\ M >= 1
  BY Fields, GuardPowers, Z3
<1>2. /\ Low(a) \in 0..M /\ Ref!Mag(a) = Ref!Magnitude[Low(a)]
      /\ Low(b) \in 0..M /\ Ref!Mag(b) = Ref!Magnitude[Low(b)]
  BY WordIndex
<1>3. \A i, j \in 0..M : i < j => /\ Ref!Magnitude[i] \in Nat /\ Ref!Magnitude[j] \in Nat
                                  /\ Ref!Magnitude[i] < Ref!Magnitude[j]
  BY Climbs
<1>4. \A i \in 0..M : Ref!Magnitude[i] \in Nat
  <2>. TAKE i \in 0..M
  <2>1. CASE i < M
    <3>1. M \in 0..M
      BY <1>1
    <3>. QED BY <1>3, <2>1, <3>1
  <2>2. CASE i = M
    <3>1. 0 \in 0..M /\ 0 < M
      BY <1>1
    <3>. QED BY <1>3, <2>2, <3>1
  <2>. HIDE DEF M
  <2>. QED BY <1>1, <2>1, <2>2
<1>. DEFINE k == Low(a)
            l == Low(b)
<1>5. /\ k < l => Ref!Magnitude[k] < Ref!Magnitude[l]
      /\ l < k => Ref!Magnitude[l] < Ref!Magnitude[k]
      /\ Ref!Magnitude[k] \in Nat /\ Ref!Magnitude[l] \in Nat
      /\ k \in Int /\ l \in Int
  BY <1>1, <1>2, <1>3, <1>4
<1>. HIDE DEF k, l, M
<1>. QED BY <1>2, <1>5 DEF k, l

---------------------------------------------------------------------------
(* compare.cpp: the order of the words is the order of the values.         *)

(* Zero has magnitude zero and every other value a positive one.           *)
LEMMA ZeroMagnitude ==
  ASSUME NEW v \in Values, ~ IsNaN(v)
  PROVE  /\ Low(v) \in Nat /\ Ref!Mag(v) \in Nat
         /\ IsZero(v) <=> Ref!Mag(v) = 0
         /\ IsZero(v) <=> Low(v) = 0
<1>1. SignedZero(0) \in Values /\ ~ IsNaN(SignedZero(0)) /\ IsZero(SignedZero(0))
  BY SpecialResults DEF SignedZero, IsZero, IsNaN
<1>2. Low(SignedZero(0)) = 0
  BY <1>1, WordIndex
<1>3. Ref!Mag(SignedZero(0)) = 0
  <2>1. SignedZero(0).e < ExpMax /\ SignedZero(0).s = 0
    BY Fields DEF SignedZero
  <2>2. Ref!Signed(SignedZero(0)) = 0
    BY <1>1, <2>1, SignedFacts
  <2>. QED BY <2>1, <2>2 DEF Ref!Signed
<1>4. IsZero(v) <=> Low(v) = 0
  BY WordIndex
<1>5. /\ Ref!Mag(v) = 0 <=> Low(v) = 0
      /\ Ref!Mag(v) \in Nat
  <2>. DEFINE z == SignedZero(0)
  <2>. HIDE DEF z
  <2>1. z \in Values /\ ~ IsNaN(z) /\ Ref!Mag(z) = 0 /\ Low(z) = 0
    BY <1>1, <1>2, <1>3 DEF z
  <2>. QED BY <2>1, WordOrder
<1>6. Low(v) \in Nat
  <2>. DEFINE M == ExpMax * ImplicitBit
  <2>1. M \in Nat /\ Low(v) \in 0..M
    BY Fields, GuardPowers, WordIndex, Z3
  <2>. HIDE DEF M
  <2>. QED BY <2>1
<1>. QED BY <1>4, <1>5, <1>6

(* The integers both files compare sort like the values, -0 below +0.      *)
LEMMA KeyOrder ==
  ASSUME NEW a \in Values, ~ IsNaN(a), NEW b \in Values, ~ IsNaN(b)
  PROVE  /\ SortKey(a) \in Int /\ SortKey(b) \in Int
         /\ Ref!Signed(a) \in Int /\ Ref!Signed(b) \in Int
         /\ BitLess(a, b) <=> \/ Ref!Signed(a) < Ref!Signed(b)
                              \/ Ref!Signed(a) = Ref!Signed(b) /\ a.s > b.s
         /\ OrderedLt(a, b) <=> Ref!Signed(a) < Ref!Signed(b)
         /\ OrderedEq(a, b) <=> Ref!Signed(a) = Ref!Signed(b)
<1>. DEFINE k == Low(a)
            l == Low(b)
            m == Ref!Mag(a)
            n == Ref!Mag(b)
<1>1. /\ k \in Nat /\ m \in Nat /\ (IsZero(a) <=> m = 0) /\ (IsZero(a) <=> k = 0)
      /\ l \in Nat /\ n \in Nat /\ (IsZero(b) <=> n = 0) /\ (IsZero(b) <=> l = 0)
      /\ m < n <=> k < l
      /\ m = n <=> k = l
  BY ZeroMagnitude, WordOrder
<1>2. a.s \in {0, 1} /\ b.s \in {0, 1}
  BY DEF Values
<1>3. /\ SortKey(a) = IF a.s = 1 THEN -1 - k ELSE k
      /\ SortKey(b) = IF b.s = 1 THEN -1 - l ELSE l
      /\ Ref!Signed(a) = IF a.s = 0 THEN m ELSE -m
      /\ Ref!Signed(b) = IF b.s = 0 THEN n ELSE -n
  BY DEF SortKey, Ref!Signed
<1>4. a = b <=> k = l /\ a.s = b.s
  BY SameWord
<1>5. /\ BitLess(a, b) <=> SortKey(a) < SortKey(b)
      /\ OrderedLt(a, b) <=> ~(IsZero(a) /\ IsZero(b)) /\ SortKey(a) < SortKey(b)
      /\ OrderedEq(a, b) <=> a = b \/ (IsZero(a) /\ IsZero(b))
  BY DEF BitLess, OrderedLt, OrderedEq
<1>. DEFINE x == a.s
            y == b.s
<1>. HIDE DEF k, l, m, n
<1>6. /\ SortKey(a) \in Int /\ SortKey(b) \in Int
      /\ Ref!Signed(a) \in Int /\ Ref!Signed(b) \in Int
  BY <1>1, <1>2, <1>3
<1>7. CASE a.s = 0 /\ b.s = 0
  BY <1>1, <1>3, <1>4, <1>5, <1>7
<1>8. CASE a.s = 0 /\ b.s = 1
  BY <1>1, <1>3, <1>4, <1>5, <1>8
<1>9. CASE a.s = 1 /\ b.s = 0
  BY <1>1, <1>3, <1>4, <1>5, <1>9
<1>10. CASE a.s = 1 /\ b.s = 1
  BY <1>1, <1>3, <1>4, <1>5, <1>10
<1>. QED BY <1>2, <1>7, <1>8, <1>9, <1>10

(* The order of the magnitudes, which maxmag, minmag and hypot ask for.    *)
LEMMA AbsoluteOrder ==
  ASSUME NEW a \in Values, ~ IsNaN(a), NEW b \in Values, ~ IsNaN(b)
  PROVE  /\ Ref!Mag(a) \in Nat /\ Ref!Mag(b) \in Nat
         /\ BitLess(Fabs(a), Fabs(b)) <=> Ref!Mag(a) < Ref!Mag(b)
<1>1. /\ Fabs(a).s = 0 /\ Fabs(a).e = a.e /\ Fabs(a).f = a.f
      /\ Fabs(b).s = 0 /\ Fabs(b).e = b.e /\ Fabs(b).f = b.f
  BY DEF Fabs, Values
<1>2. Low(Fabs(a)) = Low(a) /\ Low(Fabs(b)) = Low(b)
  BY <1>1 DEF Low
<1>3. BitLess(Fabs(a), Fabs(b)) <=> Low(a) < Low(b)
  BY <1>1, <1>2 DEF BitLess, SortKey
<1>. QED BY <1>3, WordOrder

---------------------------------------------------------------------------
(* fcmp                                                                    *)
LEMMA LowPowers ==
  /\ Pow2[0] = 1 /\ Pow2[1] = 2 /\ Pow2[2] = 4 /\ Pow2[3] = 8
  /\ 3 <= MaxShift
<1>1. MaxShift \in Nat /\ 3 <= MaxShift
  BY Widths
<1>2. Pow2[0] = 1 /\ Pow2[0 + 1] = 2 * Pow2[0] /\ Pow2[1 + 1] = 2 * Pow2[1] /\ Pow2[2 + 1] = 2 * Pow2[2]
  BY <1>1, Pow2Step
<1>. QED BY <1>1, <1>2

(* The bits of the sixteen predicates.                                     *)
LEMMA PredicateBits ==
  ASSUME NEW p \in 0..15
  PROVE  /\ BitSet(p, 0) <=> p \in {1, 3, 5, 7, 9, 11, 13, 15}
         /\ BitSet(p, 1) <=> p \in {2, 3, 6, 7, 10, 11, 14, 15}
         /\ BitSet(p, 2) <=> p \in {4, 5, 6, 7, 12, 13, 14, 15}
         /\ BitSet(p, 3) <=> p \in 8..15
<1>1. BitSet(p, 0) <=> p \in {1, 3, 5, 7, 9, 11, 13, 15}
  BY LowPowers DEF BitSet
<1>2. BitSet(p, 1) <=> p \in {2, 3, 6, 7, 10, 11, 14, 15}
  BY LowPowers DEF BitSet
<1>3. BitSet(p, 2) <=> p \in {4, 5, 6, 7, 12, 13, 14, 15}
  BY LowPowers DEF BitSet
<1>4. BitSet(p, 3) <=> p \in 8..15
  BY LowPowers DEF BitSet
<1>. QED BY <1>1, <1>2, <1>3, <1>4

(* Which of the ordered relations a predicate below 8 accepts.             *)
LEMMA RelationBits ==
  ASSUME NEW a \in Values, ~ IsNaN(a), NEW b \in Values, ~ IsNaN(b), NEW p \in 0..7
  PROVE  /\ Relates(a, b) \in {0, 1, 2}
         /\ Relation(p, a, b) <=> BitSet(p, Relates(a, b))
<1>. DEFINE x == Ref!Signed(a)
            y == Ref!Signed(b)
<1>1. x \in Int /\ y \in Int
  BY KeyOrder
<1>2. PICK lt, gt, eq \in BOOLEAN :
        /\ lt <=> OrderedLt(a, b)
        /\ gt <=> OrderedLt(b, a)
        /\ eq <=> OrderedEq(a, b)
  BY Zenon
<1>3. (lt <=> x < y) /\ (gt <=> y < x) /\ (eq <=> x = y)
  BY <1>2, KeyOrder
<1>4. Relates(a, b) = IF x < y THEN 2 ELSE IF x > y THEN 1 ELSE 0
  BY <1>1 DEF Relates
<1>5. \/ lt /\ ~ gt /\ ~ eq /\ Relates(a, b) = 2
      \/ ~ lt /\ gt /\ ~ eq /\ Relates(a, b) = 1
      \/ ~ lt /\ ~ gt /\ eq /\ Relates(a, b) = 0
  <2>. HIDE DEF x, y
  <2>. QED BY <1>1, <1>3, <1>4
<1>6. Relation(p, a, b) <=> \/ p \in {1, 3, 5, 7} /\ eq
                            \/ p \in {2, 3, 6, 7} /\ gt
                            \/ p \in {4, 5, 6, 7} /\ lt
  <2>1. /\ p = 0 => ~ Relation(p, a, b)
        /\ p = 1 => (Relation(p, a, b) <=> eq)
        /\ p = 2 => (Relation(p, a, b) <=> gt)
        /\ p = 3 => (Relation(p, a, b) <=> ~ lt)
        /\ p = 4 => (Relation(p, a, b) <=> lt)
        /\ p = 5 => (Relation(p, a, b) <=> ~ gt)
        /\ p = 6 => (Relation(p, a, b) <=> ~ eq)
        /\ p = 7 => Relation(p, a, b)
    <3>1. p = 0 => ~ Relation(p, a, b)
      BY DEF Relation
    <3>2. p = 1 => (Relation(p, a, b) <=> eq)
      BY <1>2 DEF Relation
    <3>3. p = 2 => (Relation(p, a, b) <=> gt)
      BY <1>2 DEF Relation
    <3>4. p = 3 => (Relation(p, a, b) <=> ~ lt)
      BY <1>2 DEF Relation
    <3>5. p = 4 => (Relation(p, a, b) <=> lt)
      BY <1>2 DEF Relation
    <3>6. p = 5 => (Relation(p, a, b) <=> ~ gt)
      BY <1>2 DEF Relation
    <3>7. p = 6 => (Relation(p, a, b) <=> ~ eq)
      BY <1>2 DEF Relation
    <3>8. p = 7 => Relation(p, a, b)
      BY DEF Relation
    <3>. QED BY <3>1, <3>2, <3>3, <3>4, <3>5, <3>6, <3>7, <3>8, Zenon
  <2>2. p \in {0, 1, 2, 3, 4, 5, 6, 7}
    OBVIOUS
  <2>. QED BY <1>5, <2>1, <2>2
<1>7. p \in 0..15
  OBVIOUS
<1>8. /\ BitSet(p, 0) <=> p \in {1, 3, 5, 7}
      /\ BitSet(p, 1) <=> p \in {2, 3, 6, 7}
      /\ BitSet(p, 2) <=> p \in {4, 5, 6, 7}
  BY <1>7, PredicateBits
<1>. DEFINE r == Relates(a, b)
<1>9. CASE r = 2
  BY <1>5, <1>6, <1>8, <1>9
<1>10. CASE r = 1
  BY <1>5, <1>6, <1>8, <1>10
<1>11. CASE r = 0
  BY <1>5, <1>6, <1>8, <1>11
<1>. QED BY <1>5, <1>9, <1>10, <1>11

LEMMA PredicateIs ==
  ASSUME NEW a \in Values, NEW b \in Values, NEW p \in Predicates
  PROVE  Fcmp(p, a, b) <=> p < 16 /\ BitSet(p, Relates(a, b))
<1>0. p \in 0..16
  BY DEF Predicates
<1>1. CASE p = 16
  BY <1>1 DEF Fcmp
<1>2. CASE p \in 0..15 /\ Unordered(a, b)
  <2>1. Relates(a, b) = 3
    BY <1>2 DEF Relates, Unordered
  <2>2. BitSet(p, 3) <=> p \in 8..15
    BY <1>2, PredicateBits
  <2>3. Fcmp(p, a, b) <=> p \in 8..15
    BY <1>2 DEF Fcmp
  <2>4. p < 16
    BY <1>2
  <2>. QED BY <2>1, <2>2, <2>3, <2>4, Zenon
<1>3. CASE p \in 0..7 /\ ~ Unordered(a, b)
  <2>1. Fcmp(p, a, b) <=> Relation(p, a, b)
    BY <1>3 DEF Fcmp
  <2>. QED BY <1>3, <2>1, RelationBits DEF Unordered
<1>4. CASE p \in 8..15 /\ ~ Unordered(a, b)
  <2>. DEFINE q == p - 8
              r == Relates(a, b)
  <2>1. q \in 0..7 /\ q \in 0..15 /\ p \in 0..15
    BY <1>4
  <2>2. Fcmp(p, a, b) <=> Relation(q, a, b)
    BY <1>4 DEF Fcmp
  <2>3. r \in {0, 1, 2} /\ (Relation(q, a, b) <=> BitSet(q, r))
    BY <1>4, <2>1, RelationBits DEF Unordered
  <2>4. \A i \in {0, 1, 2} : BitSet(q, i) <=> BitSet(p, i)
    <3>1. /\ BitSet(q, 0) <=> q \in {1, 3, 5, 7, 9, 11, 13, 15}
          /\ BitSet(q, 1) <=> q \in {2, 3, 6, 7, 10, 11, 14, 15}
          /\ BitSet(q, 2) <=> q \in {4, 5, 6, 7, 12, 13, 14, 15}
      BY <2>1, PredicateBits
    <3>2. /\ BitSet(p, 0) <=> p \in {1, 3, 5, 7, 9, 11, 13, 15}
          /\ BitSet(p, 1) <=> p \in {2, 3, 6, 7, 10, 11, 14, 15}
          /\ BitSet(p, 2) <=> p \in {4, 5, 6, 7, 12, 13, 14, 15}
      BY <2>1, PredicateBits
    <3>. QED BY <1>4, <3>1, <3>2
  <2>. HIDE DEF q, r
  <2>5. p < 16
    BY <1>4
  <2>6. BitSet(q, r) <=> BitSet(p, r)
    BY <2>3, <2>4
  <2>. QED BY <2>2, <2>3, <2>5, <2>6 DEF r
<1>. QED BY <1>0, <1>1, <1>2, <1>3, <1>4

---------------------------------------------------------------------------
(* The minima and maxima.                                                  *)
LEMMA ZeroIs ==
  ASSUME NEW v \in Values, IsZero(v)
  PROVE  v = SignedZero(v.s)
BY DEF Values, IsZero, SignedZero

(* How two operands compare, for the definitions that follow.              *)
LEMMA Comparison ==
  ASSUME NEW a \in Values, NEW b \in Values, ~ Unordered(a, b)
  PROVE  /\ AtMost(a, b) <=> ~ BitLess(b, a)
         /\ AtMost(a, b) \in BOOLEAN
         /\ ~ AtMost(a, b) => BitLess(b, a) /\ ~ BitLess(a, b)
         /\ (AtMost(a, b) /\ ~ BitLess(a, b)) => a = b
         /\ ~ (IsZero(a) /\ IsZero(b)) => (OrderedLt(a, b) <=> BitLess(a, b))
         /\ (IsZero(a) /\ IsZero(b)) => (AtMost(a, b) <=> a.s >= b.s)
         /\ a.s \in {0, 1} /\ b.s \in {0, 1}
<1>1. ~ IsNaN(a) /\ ~ IsNaN(b)
  BY DEF Unordered
<1>. DEFINE x == Ref!Signed(a)
            y == Ref!Signed(b)
<1>2. /\ x \in Int /\ y \in Int
      /\ BitLess(a, b) <=> x < y \/ (x = y /\ a.s > b.s)
      /\ BitLess(b, a) <=> y < x \/ (y = x /\ b.s > a.s)
      /\ OrderedEq(a, b) <=> x = y
  BY <1>1, KeyOrder
<1>3. AtMost(a, b) <=> x < y \/ (x = y /\ a.s >= b.s)
  BY DEF AtMost
<1>4. a.s \in {0, 1} /\ b.s \in {0, 1}
  BY DEF Values
<1>5. OrderedEq(a, b) <=> a = b \/ (IsZero(a) /\ IsZero(b))
  BY DEF OrderedEq
<1>6. (IsZero(a) /\ IsZero(b) /\ a.s = b.s) => a = b
  <2>1. (IsZero(a) /\ IsZero(b)) => (a = SignedZero(a.s) /\ b = SignedZero(b.s))
    BY ZeroIs
  <2>. QED BY <2>1
<1>7. AtMost(a, b) \in BOOLEAN
  BY DEF AtMost
<1>8. ~ (IsZero(a) /\ IsZero(b)) => (OrderedLt(a, b) <=> BitLess(a, b))
  BY DEF OrderedLt, BitLess
<1>. HIDE DEF x, y
<1>9. /\ AtMost(a, b) <=> ~ BitLess(b, a)
      /\ ~ AtMost(a, b) => BitLess(b, a) /\ ~ BitLess(a, b)
  BY <1>2, <1>3, <1>4
<1>10. (AtMost(a, b) /\ ~ BitLess(a, b)) => a = b
  BY <1>2, <1>3, <1>4, <1>5, <1>6
<1>11. (IsZero(a) /\ IsZero(b)) => (AtMost(a, b) <=> a.s >= b.s)
  BY <1>2, <1>3, <1>4, <1>5
<1>. QED BY <1>4, <1>7, <1>8, <1>9, <1>10, <1>11

LEMMA MinimumIs ==
  ASSUME NEW a \in Values, NEW b \in Values, ~ Unordered(a, b)
  PROVE  Fmin(a, b) = Smallest(a, b) /\ FminPrecise(a, b) = Smallest(a, b)
<1>1. CASE IsZero(a) /\ IsZero(b)
  <2>1. /\ a = SignedZero(a.s) /\ b = SignedZero(b.s)
        /\ a.s \in {0, 1} /\ b.s \in {0, 1}
    BY <1>1, ZeroIs, Comparison
  <2>2. Fmin(a, b) = IF a.s = 0 /\ b.s = 1 THEN b ELSE a
    BY <1>1 DEF Fmin, Unordered
  <2>3. FminPrecise(a, b) = SignedZero(IF a.s = 1 \/ b.s = 1 THEN 1 ELSE 0)
    BY <1>1 DEF FminPrecise, Unordered
  <2>4. Smallest(a, b) = IF a.s >= b.s THEN a ELSE b
    BY <1>1, Comparison DEF Smallest
  <2>. QED BY <2>1, <2>2, <2>3, <2>4
<1>2. CASE ~ (IsZero(a) /\ IsZero(b))
  <2>1. Fmin(a, b) = IF BitLess(a, b) THEN a ELSE b
    BY <1>2 DEF Fmin, Unordered
  <2>2. FminPrecise(a, b) = IF BitLess(a, b) THEN a ELSE b
    BY <1>2, Comparison DEF FminPrecise, Unordered
  <2>3. CASE AtMost(a, b)
    BY <2>1, <2>2, <2>3, Comparison DEF Smallest
  <2>4. CASE ~ AtMost(a, b)
    BY <2>1, <2>2, <2>4, Comparison DEF Smallest
  <2>. QED BY <2>3, <2>4
<1>. QED BY <1>1, <1>2

LEMMA MaximumIs ==
  ASSUME NEW a \in Values, NEW b \in Values, ~ Unordered(a, b)
  PROVE  Fmax(a, b) = Greatest(a, b) /\ FmaxPrecise(a, b) = Greatest(a, b)
<1>1. CASE IsZero(a) /\ IsZero(b)
  <2>1. /\ a = SignedZero(a.s) /\ b = SignedZero(b.s)
        /\ a.s \in {0, 1} /\ b.s \in {0, 1}
    BY <1>1, ZeroIs, Comparison
  <2>2. Fmax(a, b) = IF a.s = 0 THEN a ELSE b
    BY <1>1 DEF Fmax, Unordered
  <2>3. FmaxPrecise(a, b) = SignedZero(IF a.s = 0 \/ b.s = 0 THEN 0 ELSE 1)
    BY <1>1 DEF FmaxPrecise, Unordered
  <2>4. Greatest(a, b) = IF a.s >= b.s THEN b ELSE a
    BY <1>1, Comparison DEF Greatest
  <2>. QED BY <2>1, <2>2, <2>3, <2>4
<1>2. CASE ~ (IsZero(a) /\ IsZero(b))
  <2>1. Fmax(a, b) = IF BitLess(a, b) THEN b ELSE a
    BY <1>2 DEF Fmax, Unordered
  <2>2. FmaxPrecise(a, b) = IF BitLess(a, b) THEN b ELSE a
    BY <1>2, Comparison DEF FmaxPrecise, Unordered
  <2>3. CASE AtMost(a, b)
    BY <2>1, <2>2, <2>3, Comparison DEF Greatest
  <2>4. CASE ~ AtMost(a, b)
    BY <2>1, <2>2, <2>4, Comparison DEF Greatest
  <2>. QED BY <2>3, <2>4
<1>. QED BY <1>1, <1>2

LEMMA ByMagnitude ==
  ASSUME NEW a \in Values, NEW b \in Values, ~ Unordered(a, b)
  PROVE  /\ Minmag(a, b) = IF Ref!Mag(a) = Ref!Mag(b) THEN Smallest(a, b)
                           ELSE IF Ref!Mag(a) < Ref!Mag(b) THEN a ELSE b
         /\ Maxmag(a, b) = IF Ref!Mag(a) = Ref!Mag(b) THEN Greatest(a, b)
                           ELSE IF Ref!Mag(a) > Ref!Mag(b) THEN a ELSE b
<1>. DEFINE m == Ref!Mag(a)
            n == Ref!Mag(b)
<1>1. /\ m \in Nat /\ n \in Nat
      /\ BitLess(Fabs(a), Fabs(b)) <=> m < n
      /\ BitLess(Fabs(b), Fabs(a)) <=> n < m
  BY AbsoluteOrder DEF Unordered
<1>. HIDE DEF m, n
<1>2. Minmag(a, b) = IF m < n THEN a ELSE IF n < m THEN b ELSE Fmin(a, b)
  BY <1>1 DEF Minmag, Unordered
<1>3. Maxmag(a, b) = IF n < m THEN a ELSE IF m < n THEN b ELSE Fmax(a, b)
  BY <1>1 DEF Maxmag, Unordered
<1>4. Fmin(a, b) = Smallest(a, b) /\ Fmax(a, b) = Greatest(a, b)
  BY MinimumIs, MaximumIs
<1>. QED BY <1>1, <1>2, <1>3, <1>4 DEF m, n

(* With a NaN, one family returns the other operand, the other the NaN.    *)
LEMMA QuietIsNaN ==
  ASSUME NEW v \in Values, IsNaN(v)
  PROVE  IsNaN(Quiet(v))
<1>1. QuietNaNBit \in Nat /\ v.f \in Nat
  BY Fields, SpecialResults DEF CanonicalNaN, Values
<1>2. Quiet(v).e = v.e /\ Quiet(v).f = (IF v.f < QuietNaNBit THEN v.f + QuietNaNBit ELSE v.f)
  BY DEF Quiet, Values
<1>. QED BY <1>1, <1>2 DEF IsNaN

LEMMA MinMaxOfNaN ==
  ASSUME NEW a, NEW b, Unordered(a, b)
  PROVE  /\ Fmin(a, b) = IF IsNaN(a) THEN b ELSE a
         /\ Fmax(a, b) = IF IsNaN(a) THEN b ELSE a
         /\ Minmag(a, b) = IF IsNaN(a) THEN b ELSE a
         /\ Maxmag(a, b) = IF IsNaN(a) THEN b ELSE a
         /\ FminPrecise(a, b) = PropagateNaN(a, b)
         /\ FmaxPrecise(a, b) = PropagateNaN(a, b)
BY DEF Unordered, Fmin, Fmax, Minmag, Maxmag, FminPrecise, FmaxPrecise

---------------------------------------------------------------------------
(* nextafter                                                               *)
Between(u, v, w) == \/ Ref!Signed(u) < Ref!Signed(v) /\ Ref!Signed(v) < Ref!Signed(w)
                    \/ Ref!Signed(w) < Ref!Signed(v) /\ Ref!Signed(v) < Ref!Signed(u)

(* Values by their word with the sign put back: in the order of the values.*)
Rank(v) == IF v.s = 0 THEN Low(v) ELSE -Low(v)

LEMMA RankOrder ==
  ASSUME NEW a \in Values, ~ IsNaN(a), NEW b \in Values, ~ IsNaN(b)
  PROVE  /\ Rank(a) \in Int /\ Rank(b) \in Int
         /\ Ref!Signed(a) < Ref!Signed(b) <=> Rank(a) < Rank(b)
         /\ Ref!Signed(a) = Ref!Signed(b) <=> Rank(a) = Rank(b)
<1>. DEFINE k == Low(a)
            l == Low(b)
            m == Ref!Mag(a)
            n == Ref!Mag(b)
<1>1. /\ k \in Nat /\ m \in Nat /\ (k = 0 <=> m = 0)
      /\ l \in Nat /\ n \in Nat /\ (l = 0 <=> n = 0)
      /\ m < n <=> k < l
      /\ m = n <=> k = l
  BY ZeroMagnitude, WordOrder
<1>2. a.s \in {0, 1} /\ b.s \in {0, 1}
  BY DEF Values
<1>3. /\ Rank(a) = IF a.s = 0 THEN k ELSE -k
      /\ Rank(b) = IF b.s = 0 THEN l ELSE -l
      /\ Ref!Signed(a) = IF a.s = 0 THEN m ELSE -m
      /\ Ref!Signed(b) = IF b.s = 0 THEN n ELSE -n
  BY DEF Rank, Ref!Signed
<1>. HIDE DEF k, l, m, n
<1>. QED BY <1>1, <1>2, <1>3

(* One step toward y: the word moves by one, and the rank by one.          *)
LEMMA StepOfOne ==
  ASSUME NEW x \in Values, NEW y \in Values, ~ Unordered(x, y), Relates(x, y) # 0
  PROVE  /\ Nextafter(x, y) \in Values /\ ~ IsNaN(Nextafter(x, y))
         /\ Rank(x) < Rank(y) => Rank(Nextafter(x, y)) = Rank(x) + 1
         /\ Rank(y) < Rank(x) => Rank(Nextafter(x, y)) = Rank(x) - 1
         /\ Rank(x) # Rank(y) /\ Rank(x) \in Int /\ Rank(y) \in Int
         /\ IsZero(Nextafter(x, y)) => Nextafter(x, y).s = x.s
<1>. DEFINE k == Low(x)
            l == Low(y)
            M == ExpMax * ImplicitBit
<1>1. ~ IsNaN(x) /\ ~ IsNaN(y)
  BY DEF Unordered
<1>2. /\ k \in Nat /\ (IsZero(x) <=> k = 0)
      /\ l \in Nat /\ (IsZero(y) <=> l = 0)
  BY <1>1, ZeroMagnitude
<1>3. M \in Nat /\ M >= 1 /\ M <= LastWord /\ LastWord \in Nat
  BY Fields, GuardPowers, Z3 DEF LastWord
<1>4. k <= M /\ l <= M
  <2>1. k \in 0..M /\ l \in 0..M
    BY <1>1, WordIndex
  <2>. HIDE DEF k, l, M
  <2>. QED BY <1>2, <1>3, <2>1
<1>5. x.s \in {0, 1} /\ y.s \in {0, 1}
  BY DEF Values
<1>6. /\ Rank(x) = IF x.s = 0 THEN k ELSE -k
      /\ Rank(y) = IF y.s = 0 THEN l ELSE -l
  BY DEF Rank
<1>7. /\ Ref!Signed(x) < Ref!Signed(y) <=> Rank(x) < Rank(y)
      /\ Ref!Signed(x) = Ref!Signed(y) <=> Rank(x) = Rank(y)
      /\ Ref!Signed(x) \in Int /\ Ref!Signed(y) \in Int
  BY <1>1, RankOrder, KeyOrder
<1>8. Rank(x) # Rank(y)
  <2>1. Relates(x, y) = IF Ref!Signed(x) < Ref!Signed(y) THEN 2
                        ELSE IF Ref!Signed(x) > Ref!Signed(y) THEN 1 ELSE 0
    BY <1>1 DEF Relates
  <2>2. Ref!Signed(x) = Ref!Signed(y) => Relates(x, y) = 0
    BY <1>7, <2>1
  <2>. QED BY <1>7, <2>2
<1>9. BitLess(x, y) <=> Rank(x) < Rank(y)
  BY <1>1, <1>7, <1>8, KeyOrder
<1>10. x # y /\ ~ (IsZero(x) /\ IsZero(y))
  <2>1. x # y
    BY <1>8
  <2>. HIDE DEF k, l
  <2>2. ~ (k = 0 /\ l = 0)
    BY <1>5, <1>6, <1>8
  <2>. QED BY <1>2, <2>1, <2>2
<1>11. \A s \in {0, 1}, w \in 0..LastWord :
         w <= M => /\ WithLow(s, w) \in Values /\ ~ IsNaN(WithLow(s, w))
                   /\ Rank(WithLow(s, w)) = IF s = 0 THEN w ELSE -w
                   /\ IsZero(WithLow(s, w)) <=> w = 0
                   /\ WithLow(s, w).s = s
  <2>. SUFFICES ASSUME NEW s \in {0, 1}, NEW w \in 0..LastWord, w <= M
                PROVE  /\ WithLow(s, w) \in Values /\ ~ IsNaN(WithLow(s, w))
                       /\ Rank(WithLow(s, w)) = IF s = 0 THEN w ELSE -w
                       /\ IsZero(WithLow(s, w)) <=> w = 0
                       /\ WithLow(s, w).s = s
    OBVIOUS
  <2>. DEFINE r == WithLow(s, w)
  <2>1. r \in Values /\ Low(r) = w /\ r.s = s
    BY WordFields
  <2>. HIDE DEF r
  <2>2. ~ IsNaN(r)
    <3>. SUFFICES ASSUME IsNaN(r) PROVE FALSE
      OBVIOUS
    <3>1. r.e = ExpMax /\ r.f >= 1 /\ r.f \in Nat
      BY <2>1 DEF IsNaN, Values
    <3>2. w = M + r.f
      BY <2>1, <3>1 DEF Low
    <3>. HIDE DEF M
    <3>. QED BY <1>3, <3>1, <3>2
  <2>3. Rank(r) = IF s = 0 THEN w ELSE -w
    BY <2>1 DEF Rank
  <2>4. IsZero(r) <=> w = 0
    BY <2>1, <2>2, ZeroMagnitude
  <2>. QED BY <2>1, <2>2, <2>3, <2>4 DEF r
<1>12. CASE IsZero(x)
  <2>1. Nextafter(x, y) = WithLow(y.s, 1)
    BY <1>10, <1>12 DEF Nextafter, Unordered
  <2>2. 1 \in 0..LastWord /\ 1 <= M
    BY <1>3
  <2>3. /\ Nextafter(x, y) \in Values /\ ~ IsNaN(Nextafter(x, y))
        /\ Rank(Nextafter(x, y)) = IF y.s = 0 THEN 1 ELSE -1
        /\ ~ IsZero(Nextafter(x, y))
    BY <1>5, <1>11, <2>1, <2>2
  <2>. HIDE DEF k, l, M
  <2>4. k = 0 /\ l # 0
    BY <1>2, <1>10, <1>12
  <2>. QED BY <1>2, <1>5, <1>6, <1>8, <2>3, <2>4
<1>13. CASE ~ IsZero(x)
  <2>. DEFINE w == IF (x.s = 0) = BitLess(x, y) THEN k + 1 ELSE k - 1
  <2>1. Nextafter(x, y) = WithLow(x.s, w)
    BY <1>10, <1>13 DEF Nextafter, Unordered
  <2>. HIDE DEF k, l, M
  <2>2. BitLess(x, y) \in BOOLEAN
    BY DEF BitLess
  <2>3. /\ x.s = 0 /\ Rank(x) < Rank(y) => w = k + 1
        /\ x.s = 0 /\ ~ (Rank(x) < Rank(y)) => w = k - 1
        /\ x.s = 1 /\ Rank(x) < Rank(y) => w = k - 1
        /\ x.s = 1 /\ ~ (Rank(x) < Rank(y)) => w = k + 1
    BY <1>9, <2>2
  <2>4. k >= 1
    BY <1>2, <1>13
  <2>. HIDE DEF w
  <2>5. w \in Nat /\ w <= M
    BY <1>2, <1>3, <1>4, <1>5, <1>6, <1>8, <2>3, <2>4
  <2>6. w \in 0..LastWord
    BY <1>3, <2>5
  <2>7. /\ Nextafter(x, y) \in Values /\ ~ IsNaN(Nextafter(x, y))
        /\ Rank(Nextafter(x, y)) = IF x.s = 0 THEN w ELSE -w
        /\ Nextafter(x, y).s = x.s
    BY <1>5, <1>11, <2>1, <2>5, <2>6
  <2>. QED BY <1>2, <1>5, <1>6, <1>8, <2>3, <2>5, <2>7
<1>. QED BY <1>12, <1>13

LEMMA AdjacentIs ==
  ASSUME NEW x \in Values, NEW y \in Values, ~ Unordered(x, y), NEW r, r = Nextafter(x, y)
  PROVE  IF Relates(x, y) = 0 THEN r = y
         ELSE /\ Ref!Signed(r) = Ref!Signed(y) \/ Between(x, r, y)
              /\ \A v \in Values : ~ IsNaN(v) => ~ Between(x, v, r)
              /\ IsZero(r) => r.s = x.s
<1>1. ~ IsNaN(x) /\ ~ IsNaN(y)
  BY DEF Unordered
<1>2. CASE Relates(x, y) = 0
  <2>1. Ref!Signed(x) = Ref!Signed(y)
    <3>1. Ref!Signed(x) \in Int /\ Ref!Signed(y) \in Int
      BY <1>1, KeyOrder
    <3>. QED BY <1>1, <1>2, <3>1 DEF Relates
  <2>2. x = y \/ (IsZero(x) /\ IsZero(y))
    BY <1>1, <2>1, KeyOrder DEF OrderedEq
  <2>3. Nextafter(x, y) = y
    BY <2>2 DEF Nextafter, Unordered
  <2>. QED BY <1>2, <2>3
<1>3. CASE Relates(x, y) # 0
  <2>1. /\ r \in Values /\ ~ IsNaN(r)
        /\ Rank(x) < Rank(y) => Rank(r) = Rank(x) + 1
        /\ Rank(y) < Rank(x) => Rank(r) = Rank(x) - 1
        /\ Rank(x) # Rank(y) /\ Rank(x) \in Int /\ Rank(y) \in Int
        /\ IsZero(r) => r.s = x.s
    BY <1>3, StepOfOne
  <2>2. /\ Ref!Signed(x) < Ref!Signed(r) <=> Rank(x) < Rank(r)
        /\ Ref!Signed(r) < Ref!Signed(x) <=> Rank(r) < Rank(x)
        /\ Ref!Signed(r) < Ref!Signed(y) <=> Rank(r) < Rank(y)
        /\ Ref!Signed(y) < Ref!Signed(r) <=> Rank(y) < Rank(r)
        /\ Ref!Signed(r) = Ref!Signed(y) <=> Rank(r) = Rank(y)
    BY <1>1, <2>1, RankOrder
  <2>3. Ref!Signed(r) = Ref!Signed(y) \/ Between(x, r, y)
    BY <2>1, <2>2 DEF Between
  <2>4. ASSUME NEW v \in Values, ~ IsNaN(v) PROVE ~ Between(x, v, r)
    <3>1. /\ Ref!Signed(x) < Ref!Signed(v) <=> Rank(x) < Rank(v)
          /\ Ref!Signed(v) < Ref!Signed(x) <=> Rank(v) < Rank(x)
          /\ Ref!Signed(r) < Ref!Signed(v) <=> Rank(r) < Rank(v)
          /\ Ref!Signed(v) < Ref!Signed(r) <=> Rank(v) < Rank(r)
          /\ Rank(v) \in Int
      BY <1>1, <2>1, <2>4, RankOrder
    <3>. QED BY <2>1, <3>1 DEF Between
  <2>. QED BY <1>3, <2>1, <2>3, <2>4
<1>. QED BY <1>2, <1>3

---------------------------------------------------------------------------
(* rounding.cpp: a nonzero finite value is 1.f times a power of two.       *)

(* The significand the scaling functions start from, and its place: one    *)
(* unit of it is Over(n) / Under(n) units of the least subnormal number.   *)
LEMMA Renormal ==
  ASSUME NEW v \in Values, v.e < ExpMax, ~ IsZero(v), NEW n, n = TrueExponent(v) + (Bias - 1)
  PROVE  /\ NormalFraction(v) \in Nat /\ NormalFraction(v) < ImplicitBit
         /\ TrueExponent(v) \in Int /\ n \in Int /\ -FracBits <= n /\ n <= ExpMax - 2
         /\ v.e = 0 => n < 0
         /\ v.e > 0 => n = v.e - 1
         /\ Ref!Mag(v) * Under(n) = (ImplicitBit + NormalFraction(v)) * Over(n)
<1>. DEFINE I == ImplicitBit
            M == Ref!Mag(v)
<1>1. /\ I \in Nat /\ I >= 1 /\ I = Pow2[FracBits] /\ FracBits \in Nat /\ FracBits <= MaxShift
      /\ MaxShift \in Nat /\ 2 * FracBits <= MaxShift /\ FracBits < MaxShift
      /\ Bias \in Nat /\ ExpMax = 2 * Bias + 1 /\ ExpMax >= 3
  BY Fields, GuardPowers, Widths
<1>2. v.e \in Nat /\ v.f \in Nat /\ v.f < I
  BY <1>1 DEF Values
<1>3. M = Whole(v) * Unit(Binade(v.e))
  BY ValueAt
<1>4. CASE v.e > 0
  <2>1. NormalFraction(v) = v.f /\ TrueExponent(v) = v.e - Bias
    BY <1>4 DEF NormalFraction, TrueExponent, Unbiased
  <2>2. n = v.e - 1
    BY <1>1, <1>2, <2>1
  <2>3. Over(n) = Unit(v.e) /\ Under(n) = 1
    BY <1>2, <1>4, <2>2 DEF Over, Under, Unit
  <2>4. Whole(v) = v.f + I /\ Binade(v.e) = v.e
    BY <1>4 DEF Whole, Binade
  <2>5. Unit(v.e) \in Nat
    <3>1. v.e \in 1..ExpMax
      BY <1>1, <1>2, <1>4
    <3>. QED BY <3>1, UnitFacts
  <2>6. M * 1 = (I + v.f) * Unit(v.e)
    <3>. DEFINE U == Unit(v.e)
    <3>. HIDE DEF U, I, M
    <3>1. M = (v.f + I) * U
      BY <1>3, <2>4 DEF U
    <3>. QED BY <1>1, <1>2, <2>5, <3>1, Z3 DEF U
  <2>. QED BY <1>1, <1>2, <1>4, <2>1, <2>2, <2>3, <2>6
<1>5. CASE v.e = 0
  <2>. DEFINE f == v.f
              k == NormaliseShift(f)
              x == f * Pow2[k]
  <2>1. f > 0 /\ f < Pow2[FracBits] /\ f \in Nat
    BY <1>1, <1>2, <1>5 DEF IsZero
  <2>2. PICK h \in 0..(FracBits - 1) : k = FracBits - h /\ Pow2[h] <= f /\ f < Pow2[h + 1]
    BY <2>1, SubnormalHighest
  <2>3. SubnormalShift(v) = k
    BY DEF SubnormalShift, NormaliseShift
  <2>4. x \in Nat /\ I <= x /\ x < 2 * I
    <3>1. h \in Nat /\ h <= FracBits
      BY <1>1, <2>2
    <3>2. /\ f * Pow2[FracBits - h] \in Nat
          /\ Pow2[FracBits] <= f * Pow2[FracBits - h]
          /\ f * Pow2[FracBits - h] < Pow2[FracBits + 1]
      BY <1>1, <2>1, <2>2, <3>1, ShiftToTop
    <3>3. Pow2[FracBits + 1] = 2 * I
      BY <1>1, Pow2Step
    <3>. QED BY <1>1, <2>2, <3>2, <3>3
  <2>5. NormalFraction(v) = x % I /\ TrueExponent(v) = 1 - Bias - k
    BY <1>5, <2>3 DEF NormalFraction, TrueExponent
  <2>6. x % I = x - I
    <3>1. x = 1 * I + (x - I) /\ x - I \in Nat /\ x - I < I
      <4>. HIDE DEF x, I
      <4>. QED BY <1>1, <2>4
    <3>. DEFINE r == x - I
    <3>2. (1 * I + r) % I = r
      <4>1. r \in Nat /\ r < I
        BY <3>1
      <4>. HIDE DEF r
      <4>. QED BY <1>1, <4>1, Join
    <3>. QED BY <3>1, <3>2
  <2>7. n = -k /\ k \in Nat /\ k >= 1 /\ k <= FracBits
    <3>. HIDE DEF k
    <3>. QED BY <1>1, <2>2, <2>5
  <2>8. Over(n) = 1 /\ Under(n) = Pow2[k]
    <3>. HIDE DEF k
    <3>1. ~ (n >= 0) /\ -n = k
      BY <2>7
    <3>. QED BY <3>1 DEF Over, Under
  <2>9. M = f
    <3>1. Whole(v) = f /\ Binade(v.e) = 1
      BY <1>5 DEF Whole, Binade
    <3>2. Unit(1) = 1
      BY <1>1, UnitFacts
    <3>. QED BY <1>3, <2>1, <3>1, <3>2
  <2>10. M * Pow2[k] = (I + (x - I)) * 1
    <3>1. M * Pow2[k] = x
      BY <2>9
    <3>. HIDE DEF x, I
    <3>. QED BY <1>1, <2>4, <3>1
  <2>. HIDE DEF x, k, I, M
  <2>11. NormalFraction(v) \in Nat /\ NormalFraction(v) < I
    BY <1>1, <2>4, <2>5, <2>6
  <2>12. TrueExponent(v) \in Int /\ n \in Int /\ -FracBits <= n /\ n <= ExpMax - 2 /\ n < 0
    BY <1>1, <2>5, <2>7
  <2>13. M * Under(n) = (I + NormalFraction(v)) * Over(n)
    BY <2>5, <2>6, <2>8, <2>10
  <2>. QED BY <1>5, <2>11, <2>12, <2>13 DEF I, M
<1>. QED BY <1>2, <1>4, <1>5

---------------------------------------------------------------------------
(* internal_classify.h: the header's copies.                               *)
LEMMA CopiedFormat ==
  /\ Copy!ExpMax = ExpMax /\ Copy!ImplicitBit = ImplicitBit /\ Copy!Bias = Bias
  /\ Copy!WordBits = WordBits /\ Copy!CanonicalNaN = CanonicalNaN
  /\ \A s : Copy!SignedZero(s) = SignedZero(s) /\ Copy!SignedInf(s) = SignedInf(s)
  /\ \A x : Copy!Clz(x) = Clz(x)
  /\ \A v : /\ Copy!IsNaN(v) <=> IsNaN(v)
            /\ Copy!IsInf(v) <=> IsInf(v)
            /\ Copy!IsZero(v) <=> IsZero(v)
            /\ Copy!Quiet(v) = Quiet(v)
BY Zenon DEF Copy!ExpMax, ExpMax, Copy!ImplicitBit, ImplicitBit, Copy!Bias, Bias,
       Copy!WordBits, WordBits, Copy!CanonicalNaN, CanonicalNaN,
       Copy!QuietNaNBit, QuietNaNBit, Copy!SignedZero, SignedZero, Copy!SignedInf, SignedInf,
       Copy!Clz, Clz, Copy!IsNaN, IsNaN, Copy!IsInf, IsInf, Copy!IsZero, IsZero,
       Copy!Quiet, Quiet

LEMMA TruncCopied ==
  ASSUME NEW v \in Values
  PROVE  Copy!InternalTrunc(v) = TruncBits(v)
<1>. DEFINE u == v.e - Bias
<1>1. /\ Unbiased(v) = u
      /\ Copy!InternalTrunc(v) = IF v.e = ExpMax \/ u >= FracBits THEN v
                                 ELSE IF u < 0 THEN SignedZero(v.s)
                                 ELSE [v EXCEPT !.f = (v.f \div Pow2[FracBits - u]) * Pow2[FracBits - u]]
  BY CopiedFormat, Zenon DEF Copy!InternalTrunc, Unbiased
<1>2. TruncBits(v) = IF v.e = ExpMax \/ u >= FracBits THEN v
                     ELSE IF u < 0 THEN SignedZero(v.s)
                     ELSE [v EXCEPT !.f = v.f - (v.f % Pow2[FracBits - u])]
  BY <1>1, Zenon DEF TruncBits, OneUlp
<1>3. CASE v.e = ExpMax \/ u >= FracBits \/ u < 0
  <2>. HIDE DEF u
  <2>. QED BY <1>1, <1>2, <1>3
<1>4. CASE ~ (v.e = ExpMax \/ u >= FracBits \/ u < 0)
  <2>. DEFINE k == FracBits - u
  <2>1. k \in 0..MaxShift
    BY <1>4, Widths, Fields DEF Values
  <2>2. Pow2[k] \in Nat /\ Pow2[k] >= 1
    BY <2>1, Pow2Positive
  <2>3. v.f \in Nat
    BY Fields, GuardPowers DEF Values
  <2>4. (v.f \div Pow2[k]) * Pow2[k] = v.f - (v.f % Pow2[k])
    <3>. DEFINE f == v.f
                d == Pow2[k]
    <3>1. f \in Nat /\ d \in Nat /\ d >= 1
      BY <2>2, <2>3
    <3>. HIDE DEF f, d
    <3>. DEFINE q == f \div d
                r == f % d
    <3>2. q \in Nat /\ r \in Nat /\ f = q * d + r
      BY <3>1, Split
    <3>3. q * d \in Nat
      BY <3>1, <3>2, Z3
    <3>. HIDE DEF q, r
    <3>4. q * d = f - r
      BY <3>1, <3>2, <3>3
    <3>. QED BY <3>4 DEF q, r, f, d
  <2>. QED BY <1>1, <1>2, <1>4, <2>4
<1>. QED BY <1>3, <1>4

LEMMA RenormalCopied ==
  ASSUME NEW v
  PROVE  /\ Copy!Renormalised(v).frac = NormalFraction(v)
         /\ Copy!Renormalised(v).exp = TrueExponent(v)
<1>1. CASE v.e = 0
  BY <1>1, CopiedFormat DEF Copy!Renormalised, NormalFraction, TrueExponent, SubnormalShift
<1>2. CASE v.e # 0
  BY <1>2, CopiedFormat DEF Copy!Renormalised, NormalFraction, TrueExponent, Unbiased
<1>. QED BY <1>1, <1>2

(* Both ways of rounding what is shifted out to nearest even.              *)
LEMMA RetainedCopied ==
  ASSUME NEW m \in Nat, NEW n \in Nat, n >= 1, n <= MaxShift
  PROVE  /\ Copy!NearestEven(m \div Pow2[n], m % Pow2[n], Pow2[n - 1]) = Retained(m, n)
         /\ Retained(m, n) \in Nat
<1>1. Pow2[n] = 2 * Pow2[n - 1] /\ Pow2[n - 1] \in Nat /\ Pow2[n - 1] >= 1
  <2>1. n - 1 \in Nat /\ (n - 1) + 1 <= MaxShift /\ n - 1 \in 0..MaxShift /\ (n - 1) + 1 = n
    BY Widths
  <2>2. Pow2[(n - 1) + 1] = 2 * Pow2[n - 1]
    BY <2>1, Pow2Step
  <2>. QED BY <2>1, <2>2, Pow2Positive
<1>. DEFINE H == Pow2[n - 1]
<1>2. PICK k \in Nat, r \in Nat :
           /\ k = m \div (2 * H) /\ r < 2 * H /\ m = k * (2 * H) + r
           /\ (m \div H) % 2 = 1 <=> H <= r
           /\ (m % H) # 0 <=> r # 0 /\ r # H
  BY <1>1, CutAtHalf
<1>3. m % (2 * H) = r
  <2>1. 2 * H \in Nat
    BY <1>1
  <2>. HIDE DEF H
  <2>. DEFINE D == 2 * H
  <2>2. D \in Nat /\ r < D /\ m = k * D + r
    BY <1>2, <2>1
  <2>. HIDE DEF D
  <2>3. m % D = r
    BY <2>2, Join
  <2>. QED BY <2>3 DEF D
<1>4. m \div Pow2[n] = k /\ m % Pow2[n] = r
  BY <1>1, <1>2, <1>3
<1>5. Retained(m, n) = IF H <= r /\ ((r # 0 /\ r # H) \/ k % 2 = 1) THEN k + 1 ELSE k
  <2>1. BitSet(m, n - 1) <=> H <= r
    BY <1>2 DEF BitSet
  <2>2. m % Pow2[n - 1] # 0 <=> r # 0 /\ r # H
    BY <1>2
  <2>. HIDE DEF H
  <2>. QED BY <1>4, <2>1, <2>2 DEF Retained
<1>6. Copy!NearestEven(k, r, H) = IF r > H \/ (r = H /\ k % 2 = 1) THEN k + 1 ELSE k
  BY Zenon DEF Copy!NearestEven
<1>7. H \in Nat /\ H >= 1
  BY <1>1
<1>8. Copy!NearestEven(k, r, H) = Retained(m, n) /\ Retained(m, n) \in Nat
  <2>. HIDE DEF H
  <2>1. CASE r > H
    BY <1>2, <1>5, <1>6, <1>7, <2>1
  <2>2. CASE r = H
    BY <1>2, <1>5, <1>6, <1>7, <2>2
  <2>3. CASE r < H
    BY <1>2, <1>5, <1>6, <1>7, <2>3
  <2>. QED BY <1>2, <1>7, <2>1, <2>2, <2>3
<1>. QED BY <1>4, <1>8

LEMMA LdexpCopied ==
  ASSUME NEW v \in Values, NEW n \in Int
  PROVE  Copy!InternalLdexp(v, n) = Ldexp(v, n)
<1>1. CASE IsNaN(v)
  <2>1. ~ IsInf(v) /\ ~ IsZero(v)
    BY <1>1 DEF IsNaN, IsInf, IsZero
  <2>. QED BY <1>1, <2>1, CopiedFormat DEF Copy!InternalLdexp, Ldexp
<1>2. CASE ~ IsNaN(v) /\ (IsInf(v) \/ IsZero(v))
  BY <1>2, CopiedFormat DEF Copy!InternalLdexp, Ldexp
<1>3. CASE ~ IsNaN(v) /\ ~ IsInf(v) /\ ~ IsZero(v)
  <2>. DEFINE exp == TrueExponent(v) + Clamped(n)
              frac == NormalFraction(v)
              right == 1 - Bias - exp
              mant == ImplicitBit + frac
  <2>1. Copy!ScaleClamped(n) = Clamped(n)
    BY Zenon DEF Copy!ScaleClamped, Clamped
  <2>2. Copy!InternalLdexp(v, n) = Copy!Scaled(v.s, frac, exp)
    BY <1>3, <2>1, CopiedFormat, RenormalCopied DEF Copy!InternalLdexp
  <2>3. Ldexp(v, n) = IF exp > Bias THEN SignedInf(v.s)
                      ELSE IF right <= 0 THEN [s |-> v.s, e |-> exp + Bias, f |-> frac]
                      ELSE IF right >= WordBits THEN SignedZero(v.s)
                      ELSE WithLow(v.s, Retained(mant, right))
    BY <1>3 DEF Ldexp
  <2>4. /\ v.e < ExpMax /\ Bias \in Nat /\ exp \in Int /\ frac \in Nat
        /\ mant \in Nat /\ WordBits \in Nat /\ WordBits <= MaxShift /\ MaxShift \in Nat
    <3>1. v.e < ExpMax
      BY <1>3, Fields DEF IsNaN, IsInf, Values
    <3>2. TrueExponent(v) \in Int /\ frac \in Nat
      BY <1>3, <3>1, Renormal
    <3>3. Clamped(n) \in Int
      BY IntegralAssumption DEF Clamped
    <3>. QED BY <3>1, <3>2, <3>3, Fields, GuardPowers, Widths
  <2>5. Copy!Scaled(v.s, frac, exp) =
          IF exp > Bias THEN SignedInf(v.s)
          ELSE IF exp > -Bias THEN [s |-> v.s, e |-> exp + Bias, f |-> frac]
          ELSE WithLow(v.s, Copy!SubnormalMant(mant, right))
    BY CopiedFormat, Zenon DEF Copy!Scaled, WithLow
  <2>6. Copy!SubnormalMant(mant, right) =
          IF right >= WordBits THEN 0
          ELSE Copy!NearestEven(mant \div Pow2[right], mant % Pow2[right], Pow2[right - 1])
    BY CopiedFormat, Zenon DEF Copy!SubnormalMant
  <2>. HIDE DEF exp, frac
  <2>7. right \in Int /\ (exp > -Bias <=> right <= 0)
    BY <2>4
  <2>. HIDE DEF mant, right
  <2>8. CASE exp > Bias
    BY <2>2, <2>3, <2>5, <2>8
  <2>9. CASE ~ (exp > Bias) /\ right <= 0
    BY <2>2, <2>3, <2>5, <2>7, <2>9
  <2>10. CASE ~ (exp > Bias) /\ ~ (right <= 0) /\ right >= WordBits
    <3>1. WithLow(v.s, 0) = SignedZero(v.s)
      <4>1. ImplicitBit \in Nat /\ ImplicitBit >= 1
        BY GuardPowers
      <4>2. (0 * ImplicitBit + 0) \div ImplicitBit = 0 /\ (0 * ImplicitBit + 0) % ImplicitBit = 0
        BY <4>1, Join
      <4>3. 0 * ImplicitBit + 0 = 0
        BY <4>1
      <4>. QED BY <4>2, <4>3 DEF WithLow, SignedZero
    <3>. QED BY <2>2, <2>3, <2>5, <2>6, <2>7, <2>10, <3>1
  <2>11. CASE ~ (exp > Bias) /\ ~ (right <= 0) /\ ~ (right >= WordBits)
    <3>1. right \in Nat /\ right >= 1 /\ right <= MaxShift
      BY <2>4, <2>7, <2>11
    <3>2. Copy!SubnormalMant(mant, right) = Retained(mant, right)
      BY <2>4, <2>6, <2>11, <3>1, RetainedCopied
    <3>. QED BY <2>2, <2>3, <2>5, <2>7, <2>11, <3>2
  <2>. QED BY <2>8, <2>9, <2>10, <2>11
<1>. QED BY <1>1, <1>2, <1>3

LEMMA FrexpCopied ==
  ASSUME NEW v
  PROVE  Copy!InternalFrexp(v) = Frexp(v)
<1>1. CASE IsNaN(v)
  <2>1. ~ IsInf(v) /\ ~ IsZero(v)
    BY <1>1 DEF IsNaN, IsInf, IsZero
  <2>. QED BY <1>1, <2>1, CopiedFormat DEF Copy!InternalFrexp, Frexp
<1>2. CASE ~ IsNaN(v) /\ (IsInf(v) \/ IsZero(v))
  BY <1>2, CopiedFormat DEF Copy!InternalFrexp, Frexp
<1>3. CASE ~ IsNaN(v) /\ ~ IsInf(v) /\ ~ IsZero(v)
  BY <1>3, CopiedFormat, RenormalCopied DEF Copy!InternalFrexp, Frexp
<1>. QED BY <1>1, <1>2, <1>3

(* The seven relations of the copy, one by one.                            *)
RelatedFor(nan, lt, gt, eq) ==
  /\ ~ Copy!Related(0, nan, lt, gt, eq)
  /\ Copy!Related(1, nan, lt, gt, eq) <=> ~ nan /\ eq
  /\ Copy!Related(2, nan, lt, gt, eq) <=> ~ nan /\ gt
  /\ Copy!Related(3, nan, lt, gt, eq) <=> ~ nan /\ ~ lt
  /\ Copy!Related(4, nan, lt, gt, eq) <=> ~ nan /\ lt
  /\ Copy!Related(5, nan, lt, gt, eq) <=> ~ nan /\ ~ gt
  /\ Copy!Related(6, nan, lt, gt, eq) <=> ~ nan /\ ~ eq
  /\ Copy!Related(7, nan, lt, gt, eq) <=> ~ nan /\ TRUE
  /\ Copy!Related(8, nan, lt, gt, eq) <=> nan
  /\ Copy!Related(9, nan, lt, gt, eq) <=> nan \/ eq
  /\ Copy!Related(10, nan, lt, gt, eq) <=> nan \/ gt
  /\ Copy!Related(11, nan, lt, gt, eq) <=> nan \/ ~ lt
  /\ Copy!Related(12, nan, lt, gt, eq) <=> nan \/ lt
  /\ Copy!Related(13, nan, lt, gt, eq) <=> nan \/ ~ gt
  /\ Copy!Related(14, nan, lt, gt, eq) <=> nan \/ ~ eq
  /\ Copy!Related(15, nan, lt, gt, eq) <=> nan \/ TRUE
  /\ ~ Copy!Related(16, nan, lt, gt, eq)

LEMMA RelatedIs ==
  ASSUME NEW nan \in BOOLEAN, NEW lt \in BOOLEAN, NEW gt \in BOOLEAN, NEW eq \in BOOLEAN
  PROVE  RelatedFor(nan, lt, gt, eq)
<1>. DEFINE relation == <<eq, gt, ~ lt, lt, ~ gt, ~ eq, TRUE>>
<1>1. relation[1] <=> eq
  OBVIOUS
<1>2. relation[2] <=> gt
  OBVIOUS
<1>3. relation[3] <=> ~ lt
  OBVIOUS
<1>4. relation[4] <=> lt
  OBVIOUS
<1>5. relation[5] <=> ~ gt
  OBVIOUS
<1>6. relation[6] <=> ~ eq
  OBVIOUS
<1>7. relation[7] <=> TRUE
  OBVIOUS
<1>8. \A p \in 1..7 : Copy!Related(p, nan, lt, gt, eq) <=> ~ nan /\ relation[p]
  BY DEF Copy!Related
<1>26. \A p \in 9..15 : Copy!Related(p, nan, lt, gt, eq) <=> nan \/ relation[p - 8]
  BY DEF Copy!Related
<1>27. Copy!Related(8, nan, lt, gt, eq) <=> nan
  BY DEF Copy!Related
<1>28. ~ Copy!Related(0, nan, lt, gt, eq) /\ ~ Copy!Related(16, nan, lt, gt, eq)
  BY DEF Copy!Related
<1>. HIDE DEF relation
<1>9. ~ Copy!Related(0, nan, lt, gt, eq)
  BY <1>28
<1>10. Copy!Related(1, nan, lt, gt, eq) <=> ~ nan /\ eq
  BY <1>8, <1>1
<1>11. Copy!Related(2, nan, lt, gt, eq) <=> ~ nan /\ gt
  BY <1>8, <1>2
<1>12. Copy!Related(3, nan, lt, gt, eq) <=> ~ nan /\ ~ lt
  BY <1>8, <1>3
<1>13. Copy!Related(4, nan, lt, gt, eq) <=> ~ nan /\ lt
  BY <1>8, <1>4
<1>14. Copy!Related(5, nan, lt, gt, eq) <=> ~ nan /\ ~ gt
  BY <1>8, <1>5
<1>15. Copy!Related(6, nan, lt, gt, eq) <=> ~ nan /\ ~ eq
  BY <1>8, <1>6
<1>16. Copy!Related(7, nan, lt, gt, eq) <=> ~ nan /\ TRUE
  BY <1>8, <1>7
<1>17. Copy!Related(8, nan, lt, gt, eq) <=> nan
  BY <1>27
<1>18. Copy!Related(9, nan, lt, gt, eq) <=> nan \/ eq
  BY <1>26, <1>1
<1>19. Copy!Related(10, nan, lt, gt, eq) <=> nan \/ gt
  BY <1>26, <1>2
<1>20. Copy!Related(11, nan, lt, gt, eq) <=> nan \/ ~ lt
  BY <1>26, <1>3
<1>21. Copy!Related(12, nan, lt, gt, eq) <=> nan \/ lt
  BY <1>26, <1>4
<1>22. Copy!Related(13, nan, lt, gt, eq) <=> nan \/ ~ gt
  BY <1>26, <1>5
<1>23. Copy!Related(14, nan, lt, gt, eq) <=> nan \/ ~ eq
  BY <1>26, <1>6
<1>24. Copy!Related(15, nan, lt, gt, eq) <=> nan \/ TRUE
  BY <1>26, <1>7
<1>25. ~ Copy!Related(16, nan, lt, gt, eq)
  BY <1>28
<1>. QED BY <1>9, <1>10, <1>11, <1>12, <1>13, <1>14, <1>15, <1>16, <1>17, <1>18, <1>19, <1>20, <1>21, <1>22, <1>23, <1>24, <1>25 DEF RelatedFor

LEMMA FcmpCopied ==
  ASSUME NEW a \in Values, NEW b \in Values, NEW p \in Predicates
  PROVE  Copy!InternalFcmp(p, a, b) <=> Fcmp(p, a, b)
<1>1. /\ Copy!InternalLt(a, b) <=> OrderedLt(a, b)
      /\ Copy!InternalLt(b, a) <=> OrderedLt(b, a)
      /\ Copy!InternalEq(a, b) <=> OrderedEq(a, b)
  <2>1. \A x, y \in Values : Copy!InternalLt(x, y) <=> OrderedLt(x, y)
    <3>. SUFFICES ASSUME NEW x \in Values, NEW y \in Values
                  PROVE  Copy!InternalLt(x, y) <=> OrderedLt(x, y)
      OBVIOUS
    <3>. DEFINE k == x.e * ImplicitBit + x.f
                l == y.e * ImplicitBit + y.f
    <3>1. Copy!InternalLt(x, y) <=> /\ ~ (IsZero(x) /\ IsZero(y))
                                    /\ (IF x.s = 1 THEN -(k + 1) ELSE k)
                                         < (IF y.s = 1 THEN -(l + 1) ELSE l)
      BY CopiedFormat, Zenon DEF Copy!InternalLt
    <3>2. OrderedLt(x, y) <=> /\ ~ (IsZero(x) /\ IsZero(y))
                              /\ (IF x.s = 1 THEN -1 - k ELSE k) < (IF y.s = 1 THEN -1 - l ELSE l)
      BY Zenon DEF OrderedLt, SortKey, Low
    <3>3. k \in Int /\ l \in Int
      BY Fields, GuardPowers DEF Values
    <3>. HIDE DEF k, l
    <3>4. -(k + 1) = -1 - k /\ -(l + 1) = -1 - l
      BY <3>3
    <3>. QED BY <3>1, <3>2, <3>4
  <2>2. Copy!InternalEq(a, b) <=> OrderedEq(a, b)
    BY CopiedFormat, Zenon DEF Copy!InternalEq, OrderedEq
  <2>. QED BY <2>1, <2>2
<1>2. PICK lt, gt, eq, nan \in BOOLEAN :
        /\ lt = OrderedLt(a, b)
        /\ gt = OrderedLt(b, a)
        /\ eq = OrderedEq(a, b)
        /\ nan = Unordered(a, b)
  <2>1. /\ OrderedLt(a, b) \in BOOLEAN /\ OrderedLt(b, a) \in BOOLEAN
        /\ OrderedEq(a, b) \in BOOLEAN /\ Unordered(a, b) \in BOOLEAN
    BY DEF OrderedLt, OrderedEq, Unordered
  <2>. QED BY <2>1, Zenon
<1>3. Copy!InternalFcmp(p, a, b) = Copy!Related(p, nan, lt, gt, eq)
  <2>1. /\ Copy!InternalLt(a, b) = lt
        /\ Copy!InternalLt(b, a) = gt
        /\ Copy!InternalEq(a, b) = eq
        /\ (Copy!IsNaN(a) \/ Copy!IsNaN(b)) = nan
    <3>1. /\ Copy!InternalLt(a, b) \in BOOLEAN /\ Copy!InternalLt(b, a) \in BOOLEAN
          /\ Copy!InternalEq(a, b) \in BOOLEAN
      BY DEF Copy!InternalLt, Copy!InternalEq
    <3>. QED BY <1>1, <1>2, <3>1, CopiedFormat, Zenon DEF Unordered
  <2>. QED BY <2>1, Zenon DEF Copy!InternalFcmp
<1>22. /\ ~ Copy!Related(0, nan, lt, gt, eq)
       /\ Copy!Related(1, nan, lt, gt, eq) <=> ~ nan /\ eq
       /\ Copy!Related(2, nan, lt, gt, eq) <=> ~ nan /\ gt
       /\ Copy!Related(3, nan, lt, gt, eq) <=> ~ nan /\ ~ lt
       /\ Copy!Related(4, nan, lt, gt, eq) <=> ~ nan /\ lt
       /\ Copy!Related(5, nan, lt, gt, eq) <=> ~ nan /\ ~ gt
       /\ Copy!Related(6, nan, lt, gt, eq) <=> ~ nan /\ ~ eq
       /\ Copy!Related(7, nan, lt, gt, eq) <=> ~ nan /\ TRUE
       /\ Copy!Related(8, nan, lt, gt, eq) <=> nan
       /\ Copy!Related(9, nan, lt, gt, eq) <=> nan \/ eq
       /\ Copy!Related(10, nan, lt, gt, eq) <=> nan \/ gt
       /\ Copy!Related(11, nan, lt, gt, eq) <=> nan \/ ~ lt
       /\ Copy!Related(12, nan, lt, gt, eq) <=> nan \/ lt
       /\ Copy!Related(13, nan, lt, gt, eq) <=> nan \/ ~ gt
       /\ Copy!Related(14, nan, lt, gt, eq) <=> nan \/ ~ eq
       /\ Copy!Related(15, nan, lt, gt, eq) <=> nan \/ TRUE
       /\ ~ Copy!Related(16, nan, lt, gt, eq)
  <2>1. RelatedFor(nan, lt, gt, eq)
    BY RelatedIs, Zenon
  <2>. QED BY <2>1, Zenon DEF RelatedFor
<1>4. CASE p = 0
  <2>1. ~ Relation(0, a, b)
    BY <1>2 DEF Relation
  <2>2. Fcmp(p, a, b) <=> ~ nan /\ Relation(0, a, b)
    BY <1>2, <1>4 DEF Fcmp
  <2>3. Copy!Related(p, nan, lt, gt, eq) <=> FALSE
    BY <1>4, <1>22
  <2>. QED BY <1>3, <2>1, <2>2, <2>3, Zenon
<1>5. CASE p = 1
  <2>1. Relation(1, a, b) <=> eq
    BY <1>2 DEF Relation
  <2>2. Fcmp(p, a, b) <=> ~ nan /\ Relation(1, a, b)
    BY <1>2, <1>5 DEF Fcmp
  <2>3. Copy!Related(p, nan, lt, gt, eq) <=> ~ nan /\ eq
    BY <1>5, <1>22
  <2>. QED BY <1>3, <2>1, <2>2, <2>3, Zenon
<1>6. CASE p = 2
  <2>1. Relation(2, a, b) <=> gt
    BY <1>2 DEF Relation
  <2>2. Fcmp(p, a, b) <=> ~ nan /\ Relation(2, a, b)
    BY <1>2, <1>6 DEF Fcmp
  <2>3. Copy!Related(p, nan, lt, gt, eq) <=> ~ nan /\ gt
    BY <1>6, <1>22
  <2>. QED BY <1>3, <2>1, <2>2, <2>3, Zenon
<1>7. CASE p = 3
  <2>1. Relation(3, a, b) <=> ~ lt
    BY <1>2 DEF Relation
  <2>2. Fcmp(p, a, b) <=> ~ nan /\ Relation(3, a, b)
    BY <1>2, <1>7 DEF Fcmp
  <2>3. Copy!Related(p, nan, lt, gt, eq) <=> ~ nan /\ ~ lt
    BY <1>7, <1>22
  <2>. QED BY <1>3, <2>1, <2>2, <2>3, Zenon
<1>8. CASE p = 4
  <2>1. Relation(4, a, b) <=> lt
    BY <1>2 DEF Relation
  <2>2. Fcmp(p, a, b) <=> ~ nan /\ Relation(4, a, b)
    BY <1>2, <1>8 DEF Fcmp
  <2>3. Copy!Related(p, nan, lt, gt, eq) <=> ~ nan /\ lt
    BY <1>8, <1>22
  <2>. QED BY <1>3, <2>1, <2>2, <2>3, Zenon
<1>9. CASE p = 5
  <2>1. Relation(5, a, b) <=> ~ gt
    BY <1>2 DEF Relation
  <2>2. Fcmp(p, a, b) <=> ~ nan /\ Relation(5, a, b)
    BY <1>2, <1>9 DEF Fcmp
  <2>3. Copy!Related(p, nan, lt, gt, eq) <=> ~ nan /\ ~ gt
    BY <1>9, <1>22
  <2>. QED BY <1>3, <2>1, <2>2, <2>3, Zenon
<1>10. CASE p = 6
  <2>1. Relation(6, a, b) <=> ~ eq
    BY <1>2 DEF Relation
  <2>2. Fcmp(p, a, b) <=> ~ nan /\ Relation(6, a, b)
    BY <1>2, <1>10 DEF Fcmp
  <2>3. Copy!Related(p, nan, lt, gt, eq) <=> ~ nan /\ ~ eq
    BY <1>10, <1>22
  <2>. QED BY <1>3, <2>1, <2>2, <2>3, Zenon
<1>11. CASE p = 7
  <2>1. Relation(7, a, b)
    BY <1>2 DEF Relation
  <2>2. Fcmp(p, a, b) <=> ~ nan /\ Relation(7, a, b)
    BY <1>2, <1>11 DEF Fcmp
  <2>3. Copy!Related(p, nan, lt, gt, eq) <=> ~ nan /\ TRUE
    BY <1>11, <1>22
  <2>. QED BY <1>3, <2>1, <2>2, <2>3, Zenon
<1>12. CASE p = 8
  <2>1. ~ Relation(0, a, b)
    BY <1>2 DEF Relation
  <2>2. Fcmp(p, a, b) <=> nan \/ Relation(0, a, b)
    BY <1>2, <1>12 DEF Fcmp
  <2>3. Copy!Related(p, nan, lt, gt, eq) <=> nan
    BY <1>12, <1>22
  <2>. QED BY <1>3, <2>1, <2>2, <2>3, Zenon
<1>13. CASE p = 9
  <2>1. Relation(1, a, b) <=> eq
    BY <1>2 DEF Relation
  <2>2. Fcmp(p, a, b) <=> nan \/ Relation(1, a, b)
    BY <1>2, <1>13 DEF Fcmp
  <2>3. Copy!Related(p, nan, lt, gt, eq) <=> nan \/ eq
    BY <1>13, <1>22
  <2>. QED BY <1>3, <2>1, <2>2, <2>3, Zenon
<1>14. CASE p = 10
  <2>1. Relation(2, a, b) <=> gt
    BY <1>2 DEF Relation
  <2>2. Fcmp(p, a, b) <=> nan \/ Relation(2, a, b)
    BY <1>2, <1>14 DEF Fcmp
  <2>3. Copy!Related(p, nan, lt, gt, eq) <=> nan \/ gt
    BY <1>14, <1>22
  <2>. QED BY <1>3, <2>1, <2>2, <2>3, Zenon
<1>15. CASE p = 11
  <2>1. Relation(3, a, b) <=> ~ lt
    BY <1>2 DEF Relation
  <2>2. Fcmp(p, a, b) <=> nan \/ Relation(3, a, b)
    BY <1>2, <1>15 DEF Fcmp
  <2>3. Copy!Related(p, nan, lt, gt, eq) <=> nan \/ ~ lt
    BY <1>15, <1>22
  <2>. QED BY <1>3, <2>1, <2>2, <2>3, Zenon
<1>16. CASE p = 12
  <2>1. Relation(4, a, b) <=> lt
    BY <1>2 DEF Relation
  <2>2. Fcmp(p, a, b) <=> nan \/ Relation(4, a, b)
    BY <1>2, <1>16 DEF Fcmp
  <2>3. Copy!Related(p, nan, lt, gt, eq) <=> nan \/ lt
    BY <1>16, <1>22
  <2>. QED BY <1>3, <2>1, <2>2, <2>3, Zenon
<1>17. CASE p = 13
  <2>1. Relation(5, a, b) <=> ~ gt
    BY <1>2 DEF Relation
  <2>2. Fcmp(p, a, b) <=> nan \/ Relation(5, a, b)
    BY <1>2, <1>17 DEF Fcmp
  <2>3. Copy!Related(p, nan, lt, gt, eq) <=> nan \/ ~ gt
    BY <1>17, <1>22
  <2>. QED BY <1>3, <2>1, <2>2, <2>3, Zenon
<1>18. CASE p = 14
  <2>1. Relation(6, a, b) <=> ~ eq
    BY <1>2 DEF Relation
  <2>2. Fcmp(p, a, b) <=> nan \/ Relation(6, a, b)
    BY <1>2, <1>18 DEF Fcmp
  <2>3. Copy!Related(p, nan, lt, gt, eq) <=> nan \/ ~ eq
    BY <1>18, <1>22
  <2>. QED BY <1>3, <2>1, <2>2, <2>3, Zenon
<1>19. CASE p = 15
  <2>1. Relation(7, a, b)
    BY <1>2 DEF Relation
  <2>2. Fcmp(p, a, b) <=> nan \/ Relation(7, a, b)
    BY <1>2, <1>19 DEF Fcmp
  <2>3. Copy!Related(p, nan, lt, gt, eq) <=> nan \/ TRUE
    BY <1>19, <1>22
  <2>. QED BY <1>3, <2>1, <2>2, <2>3, Zenon
<1>20. CASE p = 16
  <2>1. ~ Fcmp(p, a, b)
    BY <1>20 DEF Fcmp
  <2>2. ~ Copy!Related(p, nan, lt, gt, eq)
    BY <1>20, <1>22
  <2>. QED BY <1>3, <2>1, <2>2, Zenon
<1>21. p \in 0..16
  BY DEF Predicates
<1>. QED BY <1>21, <1>4, <1>5, <1>6, <1>7, <1>8, <1>9, <1>10, <1>11, <1>12, <1>13, <1>14, <1>15, <1>16, <1>17, <1>18, <1>19, <1>20

---------------------------------------------------------------------------
(* internal_arith.h: the sum of two numbers, rounded once to nearest even. *)
LEMMA Places ==
  /\ ImplicitAt \in Nat /\ ImplicitAt > 0 /\ ImplicitAt < WordBits
  /\ Pow2[ImplicitAt] \in Nat /\ Pow2[ImplicitAt] >= 1
  /\ Pow2[ImplicitAt + 1] = 2 * Pow2[ImplicitAt]
  /\ Pow2[ImplicitAt + 2] = 4 * Pow2[ImplicitAt]
  /\ Pow2[ImplicitAt + 2] <= Pow2[WordBits] /\ Pow2[WordBits] \in Nat
<1>1. /\ ImplicitAt \in Nat /\ ImplicitAt > 0 /\ WordBits = ImplicitAt + 3
      /\ ImplicitAt + 3 <= MaxShift /\ MaxShift \in Nat
  BY Widths
<1>2. /\ Pow2[ImplicitAt + 1] = 2 * Pow2[ImplicitAt]
      /\ Pow2[(ImplicitAt + 1) + 1] = 2 * Pow2[ImplicitAt + 1]
  BY <1>1, Pow2Step
<1>3. (ImplicitAt + 1) + 1 = ImplicitAt + 2
  BY <1>1
<1>4. ImplicitAt + 2 \in Nat /\ WordBits \in Nat /\ ImplicitAt + 2 <= WordBits /\ WordBits <= MaxShift
  BY <1>1
<1>5. Pow2[ImplicitAt + 2] <= Pow2[WordBits]
  BY <1>4, Pow2Monotone
<1>6. ImplicitAt \in 0..MaxShift /\ WordBits \in 0..MaxShift
  BY <1>1
<1>7. Pow2[ImplicitAt] \in Nat /\ Pow2[ImplicitAt] >= 1 /\ Pow2[WordBits] \in Nat
  BY <1>6, Pow2Positive
<1>. QED BY <1>1, <1>2, <1>3, <1>5, <1>7

(* What the copy packs is the rounding of the number it stands for.        *)
LEMMA PackedRne ==
  ASSUME NEW s \in {0, 1}, NEW exp, Scalable(exp), NEW sig \in Nat,
         Pow2[ImplicitAt] <= sig, sig < Pow2[ImplicitAt + 1],
         NEW num \in Nat, StandsFor(exp, sig, num, 1, Half)
  PROVE  Rne!RoundAndPackRne(s, exp, sig) = Ref!Round(s, num, 1, "RNE")
<1>1. exp \in Int
  BY DEF Scalable
<1>2. Rne!RoundAndPackRne(s, exp, sig) = RoundAndPack(s, exp, sig, "RNE")
  BY <1>1, CopiedRoundAndPack
<1>3. "RNE" \in Modes /\ 1 \in Nat /\ 1 >= 1
  BY DEF Modes
<1>4. RoundAndPack(s, exp, sig, "RNE") = Ref!Round(s, num, 1, "RNE")
  BY <1>3, RoundsCorrectly
<1>. QED BY <1>2, <1>4

(* An unpacked operand: its exponent, its significand, and the significand *)
(* moved to a larger exponent.                                             *)
LEMMA Operand ==
  ASSUME NEW v \in Values, v.e < ExpMax, ~ IsZero(v), NEW a, a = Unpack(v).exp,
         NEW X, X = Unpack(v).sig
  PROVE  /\ a \in Int /\ a <= ExpMax /\ X \in Nat
         /\ Pow2[ImplicitAt] <= X /\ X < Pow2[ImplicitAt + 1]
         /\ ShiftRightJamming(X, 0) = X
         /\ \A n \in Nat : /\ ShiftRightJamming(X, n) \in Nat
                           /\ ShiftRightJamming(X, n) < Pow2[ImplicitAt + 1]
                           /\ n > 0 => ShiftRightJamming(X, n) < Pow2[ImplicitAt]
<1>1. X \in Nat /\ Pow2[ImplicitAt] <= X /\ X < Pow2[ImplicitAt + 1]
  BY UnpackedSig
<1>2. a \in Int /\ a <= ExpMax
  BY UnpackNormalises, Widths, Fields
<1>3. ShiftRightJamming(X, 0) = X
  BY <1>1, JamZero
<1>4. ASSUME NEW n \in Nat
      PROVE  /\ ShiftRightJamming(X, n) \in Nat
             /\ ShiftRightJamming(X, n) < Pow2[ImplicitAt + 1]
             /\ n > 0 => ShiftRightJamming(X, n) < Pow2[ImplicitAt]
  <2>1. CASE n = 0
    BY <1>1, <1>3, <2>1
  <2>2. CASE n > 0
    <3>1. n \in Nat \ {0}
      BY <2>2
    <3>2. ShiftRightJamming(X, n) \in Nat /\ ShiftRightJamming(X, n) < Pow2[ImplicitAt]
      BY <1>1, <3>1, Places, JamHalf
    <3>. QED BY <3>2, Places
  <2>. QED BY <2>1, <2>2
<1>. QED BY <1>1, <1>2, <1>3, <1>4

(* A sum of aligned significands is packed after at most one shift.        *)
LEMMA SumPacked ==
  ASSUME NEW s \in {0, 1}, NEW exp \in Int, Scalable(exp), exp <= ExpMax, NEW sum \in Nat,
         Pow2[ImplicitAt] <= sum, sum < Pow2[ImplicitAt + 2],
         NEW num \in Nat, StandsFor(exp, sum, num, 1, Half)
  PROVE  Rne!CarryAndPackRne(s, exp, sum) = Ref!Round(s, num, 1, "RNE")
<1>1. (Rne!BitSet(sum, Rne!ImplicitAt + 1) <=> BitSet(sum, ImplicitAt + 1))
      /\ Rne!ShiftRightJamming(sum, 1) = ShiftRightJamming(sum, 1)
  BY SameHelpers, SameJamming
<1>2. ImplicitAt + 1 \in Nat /\ ImplicitAt + 1 < MaxShift /\ (ImplicitAt + 1) + 1 = ImplicitAt + 2
  BY Widths
<1>3. BitSet(sum, ImplicitAt + 1) <=> Pow2[ImplicitAt + 1] <= sum
  BY <1>2, TopBit
<1>4. CASE Pow2[ImplicitAt + 1] <= sum
  <2>1. Rne!CarryAndPackRne(s, exp, sum) = Rne!RoundAndPackRne(s, exp + 1, ShiftRightJamming(sum, 1))
    BY <1>1, <1>3, <1>4, Zenon DEF Rne!CarryAndPackRne
  <2>2. /\ ShiftRightJamming(sum, 1) \in Nat
        /\ Pow2[ImplicitAt] <= ShiftRightJamming(sum, 1)
        /\ ShiftRightJamming(sum, 1) < Pow2[ImplicitAt + 1]
    <3>. DEFINE t == ImplicitAt + 1
    <3>1. /\ 1 \in Nat \ {0} /\ t \in Nat /\ t > 0 /\ t < WordBits /\ sum < Pow2[t + 1]
          /\ t - 1 = ImplicitAt /\ Pow2[t] <= sum
      BY <1>4, Widths
    <3>. HIDE DEF t
    <3>2. /\ ShiftRightJamming(sum, 1) \in Nat
          /\ ShiftRightJamming(sum, 1) < Pow2[t]
          /\ Pow2[t - 1] <= ShiftRightJamming(sum, 1)
      BY <3>1, JamHalf
    <3>. QED BY <3>1, <3>2 DEF t
  <2>3. Scalable(exp + 1) /\ 1 \in Nat /\ 1 <= MaxShift
    BY Fields, Widths DEF Scalable
  <2>4. PICK q \in Nat : Half = 4 * q /\ Half \in Nat
    BY GuardPowers
  <2>. DEFINE h == 2 * q
              T == Half
  <2>5. h \in Nat /\ T \in Nat /\ T = 2 * h /\ StandsFor(exp, sum, num, 1, T)
    BY <2>4
  <2>6. sum < Pow2[WordBits]
    BY Places
  <2>. HIDE DEF h, T
  <2>7. StandsFor(exp + 1, ShiftRightJamming(sum, 1), num, 1, T)
    BY <2>3, <2>5, <2>6, JamStands
  <2>8. StandsFor(exp + 1, ShiftRightJamming(sum, 1), num, 1, Half)
    BY <2>7 DEF T
  <2>. QED BY <2>1, <2>2, <2>3, <2>8, PackedRne
<1>5. CASE ~ (Pow2[ImplicitAt + 1] <= sum)
  <2>1. Rne!CarryAndPackRne(s, exp, sum) = Rne!RoundAndPackRne(s, exp, sum)
    BY <1>1, <1>3, <1>5, Zenon DEF Rne!CarryAndPackRne
  <2>2. sum < Pow2[ImplicitAt + 1]
    BY <1>5, Places
  <2>. QED BY <2>1, <2>2, PackedRne
<1>. QED BY <1>4, <1>5

(* The magnitudes of the operands are added.                               *)
LEMMA SumOrdered ==
  ASSUME NEW s \in {0, 1},
         NEW v \in Values, v.e < ExpMax, ~ IsZero(v),
         NEW w \in Values, w.e < ExpMax, ~ IsZero(w),
         NEW a, a = Unpack(v).exp, NEW b, b = Unpack(w).exp, b <= a,
         NEW sum, sum = Unpack(v).sig + ShiftRightJamming(Unpack(w).sig, a - b)
  PROVE  Rne!CarryAndPackRne(s, a, sum) = Ref!Round(s, Ref!Mag(v) + Ref!Mag(w), 1, "RNE")
<1>1. PICK q \in Nat : Half = 4 * q /\ Guard = 2 * Half /\ Half \in Nat
  BY GuardPowers
<1>. DEFINE h == 2 * q
            T == Half
<1>2. h \in Nat /\ T \in Nat /\ T = 2 * h /\ 2 \in Nat /\ Guard = T * 2
  BY <1>1
<1>. HIDE DEF h, T
<1>3. /\ a \in Int /\ b \in Int /\ Scalable(a)
      /\ StandsFor(a, sum, Ref!Mag(v) + Ref!Mag(w), 1, T)
  BY <1>2, OperandsStand
<1>4. StandsFor(a, sum, Ref!Mag(v) + Ref!Mag(w), 1, Half)
  BY <1>3 DEF T
<1>. DEFINE X == Unpack(v).sig
            Y == ShiftRightJamming(Unpack(w).sig, a - b)
<1>5. /\ X \in Nat /\ Pow2[ImplicitAt] <= X /\ X < Pow2[ImplicitAt + 1] /\ a <= ExpMax
      /\ Y \in Nat /\ Y < Pow2[ImplicitAt + 1]
  <2>1. a - b \in Nat
    BY <1>3
  <2>. QED BY <2>1, Operand
<1>6. sum = X + Y
  OBVIOUS
<1>7. sum \in Nat /\ Pow2[ImplicitAt] <= sum /\ sum < Pow2[ImplicitAt + 2]
  <2>. HIDE DEF X, Y
  <2>. QED BY <1>5, <1>6, Places
<1>8. Ref!Mag(v) + Ref!Mag(w) \in Nat
  <2>1. Ref!Mag(v) \in Nat /\ Ref!Mag(w) \in Nat
    BY OperandMagnitude
  <2>. QED BY <2>1
<1>. DEFINE num == Ref!Mag(v) + Ref!Mag(w)
<1>9. num \in Nat /\ StandsFor(a, sum, num, 1, Half)
  BY <1>4, <1>8
<1>. HIDE DEF num
<1>10. Rne!CarryAndPackRne(s, a, sum) = Ref!Round(s, num, 1, "RNE")
  BY <1>3, <1>5, <1>7, <1>9, SumPacked
<1>. QED BY <1>10 DEF num

LEMMA MagnitudesAdded ==
  ASSUME NEW s \in {0, 1},
         NEW v \in Values, v.e < ExpMax, ~ IsZero(v),
         NEW w \in Values, w.e < ExpMax, ~ IsZero(w)
  PROVE  Rne!AddUnpackedRne(s, Unpack(v), Unpack(w)) =
           Ref!Round(s, Ref!Mag(v) + Ref!Mag(w), 1, "RNE")
<1>. DEFINE x == Unpack(v)
            y == Unpack(w)
            a == x.exp
            b == y.exp
            X == x.sig
            Y == y.sig
<1>1. /\ a \in Int /\ b \in Int /\ X \in Nat /\ Y \in Nat
      /\ ShiftRightJamming(X, 0) = X /\ ShiftRightJamming(Y, 0) = Y
      /\ \A n \in Nat : ShiftRightJamming(X, n) \in Nat
      /\ \A n \in Nat : ShiftRightJamming(Y, n) \in Nat
  BY Operand
<1>2. \A u, e : Rne!Aligned(u, e) = ShiftRightJamming(u.sig, e - u.exp)
  BY SameJamming, Zenon DEF Rne!Aligned
<1>3. Rne!AddUnpackedRne(s, x, y) =
        Rne!CarryAndPackRne(s, Rne!CommonExp(x, y),
                            ShiftRightJamming(X, Rne!CommonExp(x, y) - a)
                              + ShiftRightJamming(Y, Rne!CommonExp(x, y) - b))
  BY <1>2, Zenon DEF Rne!AddUnpackedRne
<1>4. CASE b <= a
  <2>1. Rne!CommonExp(x, y) = a /\ a - a = 0
    BY <1>1, <1>4 DEF Rne!CommonExp
  <2>2. Rne!AddUnpackedRne(s, x, y) = Rne!CarryAndPackRne(s, a, X + ShiftRightJamming(Y, a - b))
    BY <1>1, <1>3, <2>1
  <2>3. Rne!CarryAndPackRne(s, a, X + ShiftRightJamming(Y, a - b)) =
          Ref!Round(s, Ref!Mag(v) + Ref!Mag(w), 1, "RNE")
    BY <1>4, SumOrdered
  <2>. QED BY <2>2, <2>3
<1>5. CASE ~ (b <= a)
  <2>1. Rne!CommonExp(x, y) = b /\ b - b = 0 /\ a <= b /\ b - a \in Nat
    BY <1>1, <1>5 DEF Rne!CommonExp
  <2>. DEFINE J == ShiftRightJamming(X, b - a)
  <2>2. J \in Nat
    BY <1>1, <2>1
  <2>3. Rne!AddUnpackedRne(s, x, y) = Rne!CarryAndPackRne(s, b, J + Y)
    BY <1>1, <1>3, <2>1
  <2>4. J + Y = Y + J
    <3>. HIDE DEF J, Y
    <3>. QED BY <1>1, <2>2
  <2>5. Rne!CarryAndPackRne(s, b, Y + J) = Ref!Round(s, Ref!Mag(w) + Ref!Mag(v), 1, "RNE")
    BY <2>1, SumOrdered
  <2>6. Ref!Mag(w) + Ref!Mag(v) = Ref!Mag(v) + Ref!Mag(w)
    <3>1. Ref!Mag(w) \in Nat /\ Ref!Mag(v) \in Nat
      BY OperandMagnitude
    <3>. QED BY <3>1
  <2>. QED BY <2>3, <2>4, <2>5, <2>6
<1>. QED BY <1>4, <1>5

(* The difference of a larger significand and a smaller one.               *)
LEMMA DifferenceOrdered ==
  ASSUME NEW s \in {0, 1},
         NEW v \in Values, v.e < ExpMax, ~ IsZero(v),
         NEW w \in Values, w.e < ExpMax, ~ IsZero(w),
         NEW a, a = Unpack(v).exp, NEW b, b = Unpack(w).exp,
         b < a \/ (b = a /\ Unpack(w).sig <= Unpack(v).sig),
         NEW diff, diff = Unpack(v).sig - ShiftRightJamming(Unpack(w).sig, a - b)
  PROVE  /\ diff \in Nat
         /\ diff = 0 <=> Ref!Mag(v) = Ref!Mag(w)
         /\ diff # 0 => /\ Ref!Mag(w) < Ref!Mag(v)
                        /\ Rne!NormalizeAndPackRne(s, a, diff, Rne!Clz(diff) - 2) =
                             Ref!Round(s, Ref!Mag(v) - Ref!Mag(w), 1, "RNE")
<1>. DEFINE X == Unpack(v).sig
            Z == Unpack(w).sig
            Y == ShiftRightJamming(Z, a - b)
<1>1. /\ a \in Int /\ b \in Int
      /\ X \in Nat /\ Pow2[ImplicitAt] <= X /\ X < Pow2[ImplicitAt + 1]
      /\ Z \in Nat /\ ShiftRightJamming(Z, 0) = Z
      /\ \A n \in Nat : /\ ShiftRightJamming(Z, n) \in Nat
                        /\ n > 0 => ShiftRightJamming(Z, n) < Pow2[ImplicitAt]
  BY Operand
<1>2. Y \in Nat /\ Y <= X /\ b <= a /\ a - b \in Nat
  <2>1. CASE b = a
    <3>1. a - b = 0
      BY <1>1, <2>1
    <3>2. Y = Z
      BY <1>1, <3>1
    <3>. QED BY <1>1, <2>1, <3>1, <3>2
  <2>2. CASE b < a
    <3>1. a - b \in Nat /\ a - b > 0 /\ b <= a
      BY <1>1, <2>2
    <3>2. Y \in Nat /\ Y < Pow2[ImplicitAt]
      BY <1>1, <3>1
    <3>. HIDE DEF Y, X
    <3>. QED BY <1>1, <3>1, <3>2, Places
  <2>. QED BY <1>1, <2>1, <2>2
<1>3. diff = X - Y
  OBVIOUS
<1>4. diff \in Nat /\ diff < Pow2[ImplicitAt + 1]
  <2>. HIDE DEF X, Y
  <2>. QED BY <1>1, <1>2, <1>3, Places
<1>5. /\ diff = 0 <=> Ref!Mag(v) = Ref!Mag(w)
      /\ diff > 0 => Ref!Mag(v) - Ref!Mag(w) >= 1
      /\ \A h \in 0..ImplicitAt :
           Pow2[h] <= diff /\ diff < Pow2[h + 1] =>
             /\ Scalable(a - (ImplicitAt - h))
             /\ StandsFor(a - (ImplicitAt - h), diff * Pow2[ImplicitAt - h],
                          Ref!Mag(v) - Ref!Mag(w), 1, Half)
  BY <1>2, <1>4, DifferenceStands
<1>6. CASE diff # 0
  <2>. DEFINE num == Ref!Mag(v) - Ref!Mag(w)
              n == Rne!Clz(diff) - 2
  <2>1. diff > 0 /\ diff < Pow2[WordBits]
    BY <1>4, <1>6, Places
  <2>2. PICK h \in 0..(WordBits - 1) :
           Clz(diff) = WordBits - (h + 1) /\ Pow2[h] <= diff /\ diff < Pow2[h + 1]
    BY <1>4, <2>1, ClzWord
  <2>3. h <= ImplicitAt
    <3>1. SUFFICES ASSUME ImplicitAt + 1 <= h PROVE FALSE
      BY <2>2, Widths
    <3>2. h \in Nat /\ h <= MaxShift /\ h \in 0..MaxShift /\ ImplicitAt + 1 \in Nat
      BY Widths
    <3>3. Pow2[ImplicitAt + 1] <= Pow2[h] /\ Pow2[h] \in Nat
      BY <3>1, <3>2, Pow2Monotone, Pow2Step
    <3>. QED BY <1>4, <2>2, <3>3, Places
  <2>4. n = ImplicitAt - h /\ h \in 0..ImplicitAt /\ ImplicitAt \in Nat /\ ImplicitAt < MaxShift
    <3>1. Rne!Clz(diff) = Clz(diff)
      BY SameHelpers
    <3>. QED BY <2>2, <2>3, <3>1, Widths
  <2>5. /\ Ref!Mag(v) \in Nat /\ Ref!Mag(w) \in Nat
    BY OperandMagnitude
  <2>6. num \in Nat /\ Ref!Mag(w) < Ref!Mag(v)
    <3>1. num >= 1
      BY <1>5, <2>1
    <3>. QED BY <2>5, <3>1
  <2>7. Rne!NormalizeAndPackRne(s, a, diff, n) = Rne!RoundAndPackRne(s, a - n, diff * Pow2[n])
    BY Zenon DEF Rne!NormalizeAndPackRne
  <2>8. Scalable(a - n) /\ StandsFor(a - n, diff * Pow2[n], num, 1, Half)
    <3>. HIDE DEF n
    <3>. QED BY <1>5, <2>2, <2>4
  <2>9. /\ diff * Pow2[ImplicitAt - h] \in Nat
        /\ Pow2[ImplicitAt] <= diff * Pow2[ImplicitAt - h]
        /\ diff * Pow2[ImplicitAt - h] < Pow2[ImplicitAt + 1]
    <3>1. h \in Nat /\ h <= ImplicitAt
      BY <2>4
    <3>. QED BY <1>4, <2>2, <2>4, <3>1, ShiftToTop
  <2>. HIDE DEF num, n
  <2>. DEFINE sig == diff * Pow2[n]
  <2>10. /\ sig \in Nat /\ Pow2[ImplicitAt] <= sig /\ sig < Pow2[ImplicitAt + 1]
         /\ StandsFor(a - n, sig, num, 1, Half)
    BY <2>4, <2>8, <2>9
  <2>. HIDE DEF sig
  <2>11. Rne!RoundAndPackRne(s, a - n, sig) = Ref!Round(s, num, 1, "RNE")
    BY <2>6, <2>8, <2>10, PackedRne
  <2>. QED BY <1>4, <1>5, <2>6, <2>7, <2>11 DEF sig, num, n
<1>. QED BY <1>4, <1>5, <1>6

(* The exact difference, or +0: what subtracting magnitudes returns.       *)
Difference(s, v, w) ==
  IF Ref!Mag(v) = Ref!Mag(w) THEN [res |-> SignedZero(0), fe |-> {}]
  ELSE IF Ref!Mag(w) < Ref!Mag(v) THEN Ref!Round(s, Ref!Mag(v) - Ref!Mag(w), 1, "RNE")
  ELSE Ref!Round(1 - s, Ref!Mag(w) - Ref!Mag(v), 1, "RNE")

LEMMA MagnitudesSubtracted ==
  ASSUME NEW s \in {0, 1},
         NEW v \in Values, v.e < ExpMax, ~ IsZero(v),
         NEW w \in Values, w.e < ExpMax, ~ IsZero(w)
  PROVE  Rne!SubUnpackedRne(s, Unpack(v), Unpack(w)) = Difference(s, v, w)
<1>. DEFINE x == Unpack(v)
            y == Unpack(w)
            a == x.exp
            b == y.exp
            X == x.sig
            Y == y.sig
            Sub == Rne!SubUnpackedRne(s, x, y)
<1>. SUFFICES Sub = Difference(s, v, w)
  OBVIOUS
<1>1. /\ a \in Int /\ b \in Int /\ X \in Nat /\ Y \in Nat
      /\ ShiftRightJamming(X, 0) = X /\ ShiftRightJamming(Y, 0) = Y
      /\ \A n \in Nat : ShiftRightJamming(X, n) \in Nat
      /\ \A n \in Nat : ShiftRightJamming(Y, n) \in Nat
  BY Operand
<1>2. \A u, e : Rne!Aligned(u, e) = ShiftRightJamming(u.sig, e - u.exp)
  BY SameJamming, Zenon DEF Rne!Aligned
<1>3. Sub =
        Rne!DifferenceRne(s, Rne!CommonExp(x, y),
                          ShiftRightJamming(X, Rne!CommonExp(x, y) - a)
                            - ShiftRightJamming(Y, Rne!CommonExp(x, y) - b))
  BY <1>2, Zenon DEF Rne!SubUnpackedRne
<1>4. Rne!SignedZero(0) = SignedZero(0) /\ \A u : Rne!Quietly(u) = [res |-> u, fe |-> {}]
  BY SameFormat, SameHelpers, Zenon DEF Rne!Quietly, Rne!Outcome
<1>5. Ref!Mag(v) \in Nat /\ Ref!Mag(w) \in Nat
  BY OperandMagnitude
<1>6. CASE b < a \/ (b = a /\ Y <= X)
  <2>. DEFINE diff == X - ShiftRightJamming(Y, a - b)
  <2>1. /\ diff \in Nat
        /\ diff = 0 <=> Ref!Mag(v) = Ref!Mag(w)
        /\ diff # 0 => /\ Ref!Mag(w) < Ref!Mag(v)
                       /\ Rne!NormalizeAndPackRne(s, a, diff, Rne!Clz(diff) - 2) =
                            Ref!Round(s, Ref!Mag(v) - Ref!Mag(w), 1, "RNE")
    BY <1>6, DifferenceOrdered
  <2>2. Rne!CommonExp(x, y) = a /\ a - a = 0
    BY <1>1, <1>6 DEF Rne!CommonExp
  <2>3. Sub = Rne!DifferenceRne(s, a, diff)
    BY <1>1, <1>3, <2>2
  <2>. HIDE DEF diff, a, x, Sub
  <2>4. CASE diff = 0
    BY <1>4, <2>1, <2>3, <2>4 DEF Rne!DifferenceRne, Difference
  <2>5. CASE diff # 0
    <3>1. ~ (diff < 0) /\ ~ (Ref!Mag(v) = Ref!Mag(w)) /\ Ref!Mag(w) < Ref!Mag(v)
      BY <2>1, <2>5
    <3>2. Rne!DifferenceRne(s, a, diff) = Rne!NormalizeAndPackRne(s, a, diff, Rne!Clz(diff) - 2)
      BY <2>5, <3>1, Zenon DEF Rne!DifferenceRne
    <3>. QED BY <2>1, <2>3, <2>5, <3>1, <3>2 DEF Difference
  <2>. QED BY <2>4, <2>5
<1>7. CASE ~ (b < a \/ (b = a /\ Y <= X))
  <2>. DEFINE t == 1 - s
              diff == Y - ShiftRightJamming(X, b - a)
  <2>1. t \in {0, 1}
    OBVIOUS
  <2>2. (a < b \/ (a = b /\ X <= Y)) /\ b - a \in Nat
    BY <1>1, <1>7
  <2>. HIDE DEF t
  <2>3. /\ diff \in Nat
        /\ diff = 0 <=> Ref!Mag(w) = Ref!Mag(v)
        /\ diff # 0 => /\ Ref!Mag(v) < Ref!Mag(w)
                       /\ Rne!NormalizeAndPackRne(t, b, diff, Rne!Clz(diff) - 2) =
                            Ref!Round(t, Ref!Mag(w) - Ref!Mag(v), 1, "RNE")
    BY <2>1, <2>2, DifferenceOrdered
  <2>4. Rne!CommonExp(x, y) = b /\ b - b = 0
    BY <1>1, <1>7 DEF Rne!CommonExp
  <2>. DEFINE J == ShiftRightJamming(X, b - a)
              neg == J - Y
  <2>5. J \in Nat
    BY <1>1, <2>2
  <2>6. Sub = Rne!DifferenceRne(s, b, neg)
    BY <1>1, <1>3, <2>4
  <2>7. diff = Y - J
    OBVIOUS
  <2>8. neg \in Int /\ neg <= 0 /\ -neg = diff
    <3>. HIDE DEF J, diff, Y
    <3>. QED BY <1>1, <2>3, <2>5, <2>7
  <2>. HIDE DEF neg, diff, b, x, y, Sub
  <2>9. CASE diff = 0
    <3>1. neg = 0
      BY <2>8, <2>9
    <3>. QED BY <1>4, <2>3, <2>6, <2>9, <3>1 DEF Rne!DifferenceRne, Difference
  <2>10. CASE diff # 0
    <3>1. /\ neg < 0 /\ neg # 0 /\ ~ (Ref!Mag(v) = Ref!Mag(w))
          /\ ~ (Ref!Mag(w) < Ref!Mag(v))
      BY <1>5, <2>3, <2>8, <2>10
    <3>2. Rne!DifferenceRne(s, b, neg) = Rne!NormalizeAndPackRne(1 - s, b, -neg, Rne!Clz(-neg) - 2)
      BY <3>1, Zenon DEF Rne!DifferenceRne
    <3>3. Difference(s, v, w) = Ref!Round(1 - s, Ref!Mag(w) - Ref!Mag(v), 1, "RNE")
      BY <3>1, Zenon DEF Difference
    <3>. QED BY <2>3, <2>6, <2>8, <2>10, <3>2, <3>3 DEF t
  <2>. QED BY <2>9, <2>10
<1>. QED BY <1>6, <1>7

LEMMA FiniteClasses ==
  ASSUME NEW v \in Values, v.e < ExpMax
  PROVE  /\ ~ IsNaN(v) /\ ~ IsInf(v) /\ ~ Rne!IsNaN(v) /\ ~ Rne!IsInf(v) /\ ~ Rne!IsSNaN(v)
         /\ ~ Ref!IsNaN(v) /\ ~ Ref!IsInf(v)
         /\ Rne!IsZero(v) <=> IsZero(v)
         /\ v.s \in {0, 1} /\ Ref!Signed(v) \in Int /\ Ref!Mag(v) \in Nat
<1>1. ExpMax \in Nat /\ v.e \in Nat /\ v.s \in {0, 1}
  BY Fields DEF Values
<1>2. v.e # ExpMax
  BY <1>1
<1>3. ~ IsNaN(v) /\ ~ IsInf(v) /\ ~ IsSNaN(v)
  BY <1>2 DEF IsNaN, IsInf, IsSNaN
<1>4. Ref!Mag(v) \in Nat
  BY <1>3, ZeroMagnitude
<1>5. Ref!Signed(v) \in Int
  BY <1>4 DEF Ref!Signed
<1>. QED BY <1>1, <1>3, <1>4, <1>5, SameClasses, CopiedClasses

LEMMA FiniteSum ==
  ASSUME NEW a \in Values, a.e < ExpMax, NEW b \in Values, b.e < ExpMax,
         NEW x, x = Ref!Signed(a) + Ref!Signed(b)
  PROVE  /\ x = 0 => Ref!Add(a, b, "RNE") =
                       [res |-> SignedZero(IF a.s = b.s THEN a.s ELSE 0), fe |-> {}]
         /\ x # 0 => Ref!Add(a, b, "RNE") = Ref!RoundInteger(x, "RNE")
<1>1. ~ Ref!IsNaN(a) /\ ~ Ref!IsInf(a) /\ ~ Ref!IsNaN(b) /\ ~ Ref!IsInf(b)
  BY FiniteClasses
<1>2. x = 0 => Ref!Add(a, b, "RNE") = Ref!Result(Ref!ZeroSum(a.s, b.s, "RNE"), {})
  BY <1>1 DEF Ref!Add
<1>3. Ref!ZeroSum(a.s, b.s, "RNE") = SignedZero(IF a.s = b.s THEN a.s ELSE 0)
  BY SameFormat DEF Ref!ZeroSum
<1>4. x # 0 => Ref!Add(a, b, "RNE") = Ref!RoundInteger(x, "RNE")
  BY <1>1 DEF Ref!Add
<1>. QED BY <1>2, <1>3, <1>4 DEF Ref!Result

(* The exact value, unless it is zero, is its own rounding.                *)
LEMMA RoundedToItself ==
  ASSUME NEW v \in Values, v.e < ExpMax, ~ IsZero(v), NEW x, x = Ref!Signed(v)
  PROVE  x # 0 /\ Ref!RoundInteger(x, "RNE") = [res |-> v, fe |-> {}]
<1>. DEFINE n == Ref!Mag(v)
<1>1. n \in Nat /\ n >= 1 /\ x = (IF v.s = 0 THEN n ELSE -n) /\ v.s \in {0, 1}
  BY SignedFacts, FiniteClasses
<1>2. Ref!Round(v.s, n, 1, "RNE") = [res |-> v, fe |-> {}]
  BY ExactValue DEF Modes
<1>. HIDE DEF n
<1>3. x # 0 /\ Ref!RoundInteger(x, "RNE") = Ref!Round(v.s, n, 1, "RNE")
  BY <1>1, IntegerRounds
<1>. QED BY <1>2, <1>3

(* The copy of addition returns the rounded sum of two finite operands.    *)
LEMMA AddFinite ==
  ASSUME NEW a \in Values, a.e < ExpMax, NEW b \in Values, b.e < ExpMax
  PROVE  Rne!AddRne(a, b) = Ref!Add(a, b, "RNE")
<1>. DEFINE x == Ref!Signed(a) + Ref!Signed(b)
            M == Ref!Mag(a)
            N == Ref!Mag(b)
<1>1. /\ ~ Rne!IsNaN(a) /\ ~ Rne!IsInf(a) /\ (Rne!IsZero(a) <=> IsZero(a))
      /\ ~ Rne!IsNaN(b) /\ ~ Rne!IsInf(b) /\ (Rne!IsZero(b) <=> IsZero(b))
      /\ a.s \in {0, 1} /\ b.s \in {0, 1}
  BY FiniteClasses
<1>2. ~ Rne!AnyNaN(a, b) /\ (\A u : Rne!Quietly(u) = [res |-> u, fe |-> {}])
      /\ \A s : Rne!SignedZero(s) = SignedZero(s)
  BY <1>1, SameHelpers DEF Rne!AnyNaN, Rne!Quietly, Rne!Outcome
<1>3. /\ x = 0 => Ref!Add(a, b, "RNE") =
                    [res |-> SignedZero(IF a.s = b.s THEN a.s ELSE 0), fe |-> {}]
      /\ x # 0 => Ref!Add(a, b, "RNE") = Ref!RoundInteger(x, "RNE")
  BY FiniteSum
<1>4. /\ IsZero(a) => Ref!Signed(a) = 0
      /\ IsZero(b) => Ref!Signed(b) = 0
      /\ Ref!Signed(a) \in Int /\ Ref!Signed(b) \in Int
      /\ ~ IsZero(a) => /\ M \in Nat /\ M >= 1
                        /\ a.s = 0 => Ref!Signed(a) = M
                        /\ a.s = 1 => Ref!Signed(a) = -M
      /\ ~ IsZero(b) => /\ N \in Nat /\ N >= 1
                        /\ b.s = 0 => Ref!Signed(b) = N
                        /\ b.s = 1 => Ref!Signed(b) = -N
  BY SignedFacts, FiniteClasses
<1>5. CASE IsZero(a) /\ IsZero(b)
  <2>1. x = 0
    BY <1>4, <1>5
  <2>2. Rne!AddRne(a, b) = [res |-> SignedZero(IF a.s = b.s THEN a.s ELSE 0), fe |-> {}]
    BY <1>1, <1>2, <1>5 DEF Rne!AddRne
  <2>. QED BY <1>3, <2>1, <2>2
<1>6. CASE IsZero(a) /\ ~ IsZero(b)
  <2>1. x = Ref!Signed(b)
    BY <1>4, <1>6
  <2>. HIDE DEF x
  <2>2. x # 0 /\ Ref!RoundInteger(x, "RNE") = [res |-> b, fe |-> {}]
    BY <1>6, <2>1, RoundedToItself
  <2>3. Rne!AddRne(a, b) = [res |-> b, fe |-> {}]
    BY <1>1, <1>2, <1>6 DEF Rne!AddRne
  <2>. QED BY <1>3, <2>2, <2>3
<1>7. CASE ~ IsZero(a) /\ IsZero(b)
  <2>1. x = Ref!Signed(a)
    BY <1>4, <1>7
  <2>. HIDE DEF x
  <2>2. x # 0 /\ Ref!RoundInteger(x, "RNE") = [res |-> a, fe |-> {}]
    BY <1>7, <2>1, RoundedToItself
  <2>3. Rne!AddRne(a, b) = [res |-> a, fe |-> {}]
    BY <1>1, <1>2, <1>7 DEF Rne!AddRne
  <2>. QED BY <1>3, <2>2, <2>3
<1>8. CASE ~ IsZero(a) /\ ~ IsZero(b)
  <2>1. Rne!Unpack(a) = Unpack(a) /\ Rne!Unpack(b) = Unpack(b)
    BY <1>8, CopiedUnpack
  <2>2. CASE a.s = b.s
    <3>. DEFINE n == M + N
    <3>1. Rne!AddRne(a, b) = Rne!AddUnpackedRne(a.s, Unpack(a), Unpack(b))
      BY <1>1, <1>2, <1>8, <2>1, <2>2, Zenon DEF Rne!AddRne, Rne!AddMagnitudesRne
    <3>2. Rne!AddUnpackedRne(a.s, Unpack(a), Unpack(b)) = Ref!Round(a.s, n, 1, "RNE")
      BY <1>1, <1>8, MagnitudesAdded
    <3>3. n \in Nat /\ n >= 1 /\ x = (IF a.s = 0 THEN n ELSE -n)
      <4>. HIDE DEF M, N
      <4>. QED BY <1>1, <1>4, <1>8, <2>2
    <3>. HIDE DEF n, x
    <3>4. x # 0 /\ Ref!RoundInteger(x, "RNE") = Ref!Round(a.s, n, 1, "RNE")
      BY <1>1, <3>3, IntegerRounds
    <3>. QED BY <1>3, <3>1, <3>2, <3>4
  <2>3. CASE a.s # b.s
    <3>1. Rne!AddRne(a, b) = Rne!SubUnpackedRne(a.s, Unpack(a), Unpack(b))
      BY <1>1, <1>2, <1>8, <2>1, <2>3, Zenon DEF Rne!AddRne, Rne!SubMagnitudesRne
    <3>2. Rne!AddRne(a, b) = Difference(a.s, a, b)
      BY <1>1, <1>8, <3>1, MagnitudesSubtracted
    <3>3. M \in Nat /\ N \in Nat /\ x = (IF a.s = 0 THEN M - N ELSE N - M)
      <4>. HIDE DEF M, N
      <4>. QED BY <1>1, <1>4, <1>8, <2>3
    <3>4. Difference(a.s, a, b) =
            IF M = N THEN [res |-> SignedZero(0), fe |-> {}]
            ELSE IF N < M THEN Ref!Round(a.s, M - N, 1, "RNE")
            ELSE Ref!Round(1 - a.s, N - M, 1, "RNE")
      BY Zenon DEF Difference
    <3>. HIDE DEF x, M, N
    <3>5. CASE M = N
      <4>1. x = 0
        BY <3>3, <3>5
      <4>. QED BY <1>3, <2>3, <3>2, <3>4, <3>5, <4>1
    <3>6. CASE N < M
      <4>. DEFINE n == M - N
      <4>1. n \in Nat /\ n >= 1 /\ x = (IF a.s = 0 THEN n ELSE -n) /\ M # N
        BY <1>1, <3>3, <3>6
      <4>. HIDE DEF n
      <4>2. x # 0 /\ Ref!RoundInteger(x, "RNE") = Ref!Round(a.s, n, 1, "RNE")
        BY <1>1, <4>1, IntegerRounds
      <4>. QED BY <1>3, <3>2, <3>4, <3>6, <4>1, <4>2 DEF n
    <3>7. CASE M < N
      <4>. DEFINE n == N - M
                  t == 1 - a.s
      <4>1. n \in Nat /\ n >= 1 /\ t \in {0, 1} /\ x = (IF t = 0 THEN n ELSE -n)
            /\ M # N /\ ~ (N < M)
        BY <1>1, <3>3, <3>7
      <4>. HIDE DEF n, t
      <4>2. x # 0 /\ Ref!RoundInteger(x, "RNE") = Ref!Round(t, n, 1, "RNE")
        BY <4>1, IntegerRounds
      <4>. QED BY <1>3, <3>2, <3>4, <4>1, <4>2 DEF n, t
    <3>. QED BY <3>3, <3>5, <3>6, <3>7
  <2>. QED BY <2>2, <2>3
<1>. QED BY <1>5, <1>6, <1>7, <1>8

(* With the infinities, but for NaN: the copy of addition is addition.     *)
LEMMA AddIs ==
  ASSUME NEW a \in Values, ~ IsNaN(a), NEW b \in Values, ~ IsNaN(b)
  PROVE  Rne!AddRne(a, b) = Ref!Add(a, b, "RNE")
<1>1. /\ ~ Rne!IsNaN(a) /\ ~ Rne!IsNaN(b) /\ ~ Ref!IsNaN(a) /\ ~ Ref!IsNaN(b)
      /\ (Rne!IsInf(a) <=> IsInf(a)) /\ (Rne!IsInf(b) <=> IsInf(b))
      /\ (Ref!IsInf(a) <=> IsInf(a)) /\ (Ref!IsInf(b) <=> IsInf(b))
  BY SameClasses, CopiedClasses
<1>2. /\ ~ Rne!AnyNaN(a, b) /\ (\A u : Rne!Quietly(u) = [res |-> u, fe |-> {}])
      /\ \A s : Rne!SignedInf(s) = SignedInf(s)
      /\ Rne!Invalid = [res |-> CanonicalNaN, fe |-> {"invalid"}]
      /\ Ref!Invalid = [res |-> CanonicalNaN, fe |-> {"invalid"}]
      /\ \A u, f : Ref!Result(u, f) = [res |-> u, fe |-> f]
  BY <1>1, SameHelpers, SameFormat
     DEF Rne!AnyNaN, Rne!Quietly, Rne!Outcome, Rne!Invalid, Ref!Invalid, Ref!Result
<1>3. \A v \in Values : IsInf(v) => v = SignedInf(v.s)
  BY DEF Values, IsInf, SignedInf
<1>4. CASE IsInf(a) /\ IsInf(b) /\ a.s # b.s
  BY <1>1, <1>2, <1>4 DEF Rne!AddRne, Ref!Add
<1>5. CASE IsInf(a) /\ ~ (IsInf(b) /\ a.s # b.s)
  <2>1. Rne!AddRne(a, b) = [res |-> SignedInf(a.s), fe |-> {}]
    BY <1>1, <1>2, <1>5 DEF Rne!AddRne
  <2>2. Ref!Add(a, b, "RNE") = [res |-> a, fe |-> {}]
    BY <1>1, <1>2, <1>5 DEF Ref!Add
  <2>. QED BY <1>3, <1>5, <2>1, <2>2
<1>6. CASE ~ IsInf(a) /\ IsInf(b)
  <2>1. Rne!AddRne(a, b) = [res |-> SignedInf(b.s), fe |-> {}]
    BY <1>1, <1>2, <1>6 DEF Rne!AddRne
  <2>2. Ref!Add(a, b, "RNE") = [res |-> b, fe |-> {}]
    BY <1>1, <1>2, <1>6 DEF Ref!Add
  <2>. QED BY <1>3, <1>6, <2>1, <2>2
<1>7. CASE ~ IsInf(a) /\ ~ IsInf(b)
  <2>1. a.e # ExpMax /\ b.e # ExpMax
    BY <1>7 DEF IsNaN, IsInf
  <2>2. a.e < ExpMax /\ b.e < ExpMax
    BY <2>1, Fields DEF Values
  <2>. QED BY <2>2, AddFinite
<1>. QED BY <1>4, <1>5, <1>6, <1>7

LEMMA SubtractIs ==
  ASSUME NEW a \in Values, ~ IsNaN(a), NEW b \in Values, ~ IsNaN(b)
  PROVE  /\ Subtract(a, b) = Ref!Subtract(a, b, "RNE")
         /\ Subtract(a, b) = Ref!Add(a, Neg(b), "RNE")
<1>1. Neg(b) \in Values /\ ~ IsNaN(Neg(b))
  <2>1. Neg(b).e = b.e /\ Neg(b).f = b.f
    BY DEF Neg, Values
  <2>. QED BY <2>1, SpecialResults DEF IsNaN
<1>2. Rne!Neg(b) = Neg(b) /\ Ref!Neg(b) = Neg(b)
  BY SameClasses, CopiedClasses
<1>3. Subtract(a, b) = Rne!AddRne(a, Neg(b))
  BY <1>2 DEF Subtract, Rne!SubRne
<1>4. Ref!Subtract(a, b, "RNE") = Ref!Add(a, Neg(b), "RNE")
  BY <1>2, SameClasses DEF Ref!Subtract
<1>. QED BY <1>1, <1>3, <1>4, AddIs

LEMMA FdimIs ==
  ASSUME NEW a \in Values, NEW b \in Values, ~ Unordered(a, b)
  PROVE  Fdim(a, b) = IF Relates(a, b) = 1 THEN Ref!Subtract(a, b, "RNE")
                      ELSE [res |-> SignedZero(0), fe |-> {}]
<1>1. ~ IsNaN(a) /\ ~ IsNaN(b)
  BY DEF Unordered
<1>. DEFINE x == Ref!Signed(a)
            y == Ref!Signed(b)
<1>2. /\ x \in Int /\ y \in Int
      /\ BitLess(b, a) <=> \/ y < x
                           \/ y = x /\ b.s > a.s
  BY <1>1, KeyOrder
<1>3. Subtract(a, b) = Ref!Subtract(a, b, "RNE")
  BY <1>1, SubtractIs
<1>4. Fdim(a, b) = IF BitLess(b, a) THEN Ref!Subtract(a, b, "RNE")
                   ELSE [res |-> SignedZero(0), fe |-> {}]
  BY <1>3 DEF Fdim, Quietly
<1>5. Relates(a, b) = 1 <=> y < x
  BY <1>1, <1>2 DEF Relates
<1>6. CASE y < x \/ ~ BitLess(b, a)
  BY <1>2, <1>4, <1>5, <1>6
<1>7. CASE y = x /\ b.s > a.s
  <2>1. a.s \in {0, 1} /\ b.s \in {0, 1}
    BY DEF Values
  <2>2. a.s = 0 /\ b.s = 1
    BY <1>7, <2>1
  <2>3. PICK m \in Nat, n \in Nat : m = Ref!Mag(a) /\ n = Ref!Mag(b)
    BY <1>1, ZeroMagnitude
  <2>4. x = m /\ y = -n
    BY <2>2, <2>3 DEF Ref!Signed
  <2>5. m = 0 /\ n = 0
    BY <1>7, <2>3, <2>4
  <2>6. IsZero(a) /\ IsZero(b)
    BY <1>1, <2>3, <2>5, ZeroMagnitude
  <2>7. a = SignedZero(0) /\ b = SignedZero(1)
    BY <2>2, <2>6, ZeroIs
  <2>8. Neg(b) = SignedZero(0)
    BY <2>7 DEF Neg, SignedZero
  <2>9. Subtract(a, b) = Ref!Add(SignedZero(0), SignedZero(0), "RNE")
    BY <1>1, <2>7, <2>8, SubtractIs
  <2>10. SignedZero(0) \in Values /\ SignedZero(0).e < ExpMax /\ IsZero(SignedZero(0))
    BY SpecialResults, Fields DEF SignedZero, IsZero
  <2>11. Ref!Signed(SignedZero(0)) = 0
    BY <2>10, SignedFacts
  <2>12. Ref!Add(SignedZero(0), SignedZero(0), "RNE") = [res |-> SignedZero(0), fe |-> {}]
    <3>1. SignedZero(0).s = 0 /\ Ref!Signed(SignedZero(0)) + Ref!Signed(SignedZero(0)) = 0
      BY <2>11 DEF SignedZero
    <3>. QED BY <2>10, <3>1, FiniteSum
  <2>13. ~ (y < x)
    BY <1>2, <1>7
  <2>. QED BY <1>3, <1>4, <1>5, <2>9, <2>12, <2>13
<1>. QED BY <1>2, <1>6, <1>7

(* What a rounding, a sum or a difference returns has the two fields.      *)
IsOutcome(r) == r = [res |-> r.res, fe |-> r.fe]

LEMMA ResultOutcome ==
  ASSUME NEW v, NEW flags
  PROVE  IsOutcome(Ref!Result(v, flags))
BY DEF IsOutcome, Ref!Result

LEMMA RoundOutcome ==
  ASSUME NEW s, NEW num, NEW den, NEW mode
  PROVE  IsOutcome(Ref!Round(s, num, den, mode))
<1>1. IsOutcome(Ref!Overflows(s, mode))
  BY ResultOutcome, Zenon DEF Ref!Overflows
<1>2. Ref!Round(s, num, den, mode) = Ref!Overflows(s, mode)
      \/ \E v, flags : Ref!Round(s, num, den, mode) = Ref!Result(v, flags)
  BY Zenon DEF Ref!Round
<1>. QED BY <1>1, <1>2, ResultOutcome

LEMMA DifferenceOutcome ==
  ASSUME NEW a \in Values, ~ IsNaN(a), NEW b \in Values, ~ IsNaN(b)
  PROVE  IsOutcome(Ref!Subtract(a, b, "RNE"))
<1>. DEFINE c == Ref!Neg(b)
            x == Ref!Signed(a) + Ref!Signed(c)
<1>1. ~ Ref!IsNaN(a) /\ ~ Ref!IsNaN(b)
  BY SameClasses
<1>2. Ref!Subtract(a, b, "RNE") = Ref!Add(a, c, "RNE")
  BY <1>1 DEF Ref!Subtract
<1>3. ~ Ref!IsNaN(c)
  <2>1. c.e = b.e /\ c.f = b.f
    BY DEF Ref!Neg, Values
  <2>. QED BY <1>1, <2>1, SameFormat DEF Ref!IsNaN
<1>. HIDE DEF c
<1>4. \/ Ref!Add(a, c, "RNE") = Ref!Invalid
      \/ \E v, flags : Ref!Add(a, c, "RNE") = Ref!Result(v, flags)
      \/ Ref!Add(a, c, "RNE") = Ref!RoundInteger(x, "RNE")
  BY <1>1, <1>3, Zenon DEF Ref!Add
<1>5. IsOutcome(Ref!RoundInteger(x, "RNE"))
  BY RoundOutcome, Zenon DEF Ref!RoundInteger
<1>6. IsOutcome(Ref!Invalid)
  BY ResultOutcome, Zenon DEF Ref!Invalid
<1>. QED BY <1>2, <1>4, <1>5, <1>6, ResultOutcome

---------------------------------------------------------------------------
(* The invariant: every entry but hypot has stored what its function is.   *)
Calls == Integrals \cup RoundedIntegrals \cup Splits \cup Scalings \cup Comparisons \cup Pairs

IntegralsComputed ==
  /\ call.op = "floor" => res = Floor(call.v)
  /\ call.op = "ceil" => res = Ceil(call.v)
  /\ call.op = "trunc" => res = TruncBits(call.v)
  /\ call.op = "round" => res = RoundAway(call.v)
  /\ call.op = "rint" => res = Rint(call.v)
  /\ call.op = "rint_r" => res = RintInMode(call.mode, call.v)
  /\ call.op = "fract" => Outcome = [res |-> Fract(call.v).res, fe |-> Fract(call.v).fe]
  /\ call.op = "modf" => res = Modf(call.v).res /\ part = Modf(call.v).part /\ fe = Modf(call.v).fe

ScalingsComputed ==
  /\ call.op = "frexp" => res = Frexp(call.v).res /\ part = Frexp(call.v).part
  /\ call.op = "ldexp" => res = Ldexp(call.v, call.n)
  /\ call.op = "ilogb" => res = Ilogb(call.v)
  /\ call.op = "logb" => res = Logb(call.v)

PairsComputed ==
  /\ call.op = "fcmp" => res = (IF Fcmp(call.pred, call.a, call.b) THEN 1 ELSE 0)
  /\ call.op = "fmin_precise" => res = FminPrecise(call.a, call.b)
  /\ call.op = "fmax_precise" => res = FmaxPrecise(call.a, call.b)
  /\ call.op = "fmin" => res = Fmin(call.a, call.b)
  /\ call.op = "fmax" => res = Fmax(call.a, call.b)
  /\ call.op = "maxmag" => res = Maxmag(call.a, call.b)
  /\ call.op = "minmag" => res = Minmag(call.a, call.b)
  /\ call.op = "nextafter" => res = Nextafter(call.a, call.b)
  /\ call.op = "fdim" => Outcome = [res |-> Fdim(call.a, call.b).res, fe |-> Fdim(call.a, call.b).fe]

Computed == IntegralsComputed /\ ScalingsComputed /\ PairsComputed

IInv ==
  /\ call \in Calls
  /\ pc \in {"enter", "ratio", "square", "sum", "root", "done"}
  /\ pc \notin {"enter", "done"} => call.op = "hypot"
  /\ pc = "done" => Computed

LEMMA CallTypes ==
  ASSUME call \in Calls
  PROVE  /\ call.op \in {"floor", "ceil", "trunc", "round", "rint", "rint_r", "fract", "modf",
                         "frexp", "ilogb", "logb", "ldexp"} => call.v \in Values
         /\ call.op = "rint_r" => call.mode \in Modes
         /\ call.op = "ldexp" => call.n \in Scales
         /\ call.op \in {"fcmp", "fmin", "fmax", "fmin_precise", "fmax_precise", "maxmag",
                         "minmag", "fdim", "nextafter", "hypot", "copysign"} =>
              call.a \in Values /\ call.b \in Values
         /\ call.op = "fcmp" => call.pred \in Predicates
<1>1. CASE call \in Integrals
  BY <1>1 DEF Integrals
<1>2. CASE call \in RoundedIntegrals
  BY <1>2 DEF RoundedIntegrals
<1>3. CASE call \in Splits
  BY <1>3 DEF Splits
<1>4. CASE call \in Scalings
  BY <1>4 DEF Scalings
<1>5. CASE call \in Comparisons
  BY <1>5 DEF Comparisons
<1>6. CASE call \in Pairs
  BY <1>6 DEF Pairs
<1>. QED BY <1>1, <1>2, <1>3, <1>4, <1>5, <1>6 DEF Calls

LEMMA InvInit == Init => IInv
  BY DEF Init, IInv, Calls

LEMMA InvInductive == IInv /\ [Next]_vars => IInv'
<1>. SUFFICES ASSUME IInv, [Next]_vars PROVE IInv'
  OBVIOUS
<1>. USE DEF Entering, Return, ReturnAll
<1>1. CASE UNCHANGED vars
  BY <1>1 DEF vars, IInv, Computed, IntegralsComputed, ScalingsComputed, PairsComputed, Outcome
<1>2. ASSUME call' = call, pc' = "done", Computed' PROVE IInv'
  BY <1>2 DEF IInv
<1>3. CASE sf64_floor \/ sf64_ceil \/ sf64_trunc \/ sf64_round \/ sf64_rint \/ sf64_rint_r
  <2>1. /\ call' = call /\ pc' = "done"
        /\ call.op \in {"floor", "ceil", "trunc", "round", "rint", "rint_r"}
    BY <1>3 DEF sf64_floor, sf64_ceil, sf64_trunc, sf64_round, sf64_rint, sf64_rint_r
  <2>2. IntegralsComputed'
    BY <1>3, <2>1 DEF sf64_floor, sf64_ceil, sf64_trunc, sf64_round, sf64_rint, sf64_rint_r,
                      IntegralsComputed
  <2>3. ScalingsComputed' /\ PairsComputed'
    BY <2>1 DEF ScalingsComputed, PairsComputed
  <2>. QED BY <1>2, <2>1, <2>2, <2>3 DEF Computed
<1>4. CASE sf64_fract \/ sf64_modf
  <2>1. call' = call /\ pc' = "done" /\ call.op \in {"fract", "modf"}
    BY <1>4 DEF sf64_fract, sf64_modf
  <2>2. IntegralsComputed'
    BY <1>4, <2>1 DEF sf64_fract, sf64_modf, IntegralsComputed, Outcome
  <2>3. ScalingsComputed' /\ PairsComputed'
    BY <2>1 DEF ScalingsComputed, PairsComputed
  <2>. QED BY <1>2, <2>1, <2>2, <2>3 DEF Computed
<1>5. CASE sf64_frexp \/ sf64_ldexp \/ sf64_ilogb \/ sf64_logb
  <2>1. call' = call /\ pc' = "done" /\ call.op \in {"frexp", "ldexp", "ilogb", "logb"}
    BY <1>5 DEF sf64_frexp, sf64_ldexp, sf64_ilogb, sf64_logb
  <2>2. ScalingsComputed'
    BY <1>5, <2>1 DEF sf64_frexp, sf64_ldexp, sf64_ilogb, sf64_logb, ScalingsComputed
  <2>3. IntegralsComputed' /\ PairsComputed'
    BY <2>1 DEF IntegralsComputed, PairsComputed
  <2>. QED BY <1>2, <2>1, <2>2, <2>3 DEF Computed
<1>6. CASE \/ sf64_fcmp \/ sf64_fmin_precise \/ sf64_fmax_precise \/ sf64_fmin \/ sf64_fmax
           \/ sf64_maxmag \/ sf64_minmag \/ sf64_copysign \/ sf64_nextafter \/ sf64_fdim
  <2>. USE DEF sf64_fcmp, sf64_fmin_precise, sf64_fmax_precise, sf64_fmin, sf64_fmax,
               sf64_maxmag, sf64_minmag, sf64_copysign, sf64_nextafter, sf64_fdim
  <2>1. /\ call' = call /\ pc' = "done"
        /\ call.op \in {"fcmp", "fmin_precise", "fmax_precise", "fmin", "fmax", "maxmag",
                        "minmag", "copysign", "nextafter", "fdim"}
    BY <1>6
  <2>2. PairsComputed'
    BY <1>6, <2>1 DEF PairsComputed, Outcome
  <2>3. IntegralsComputed' /\ ScalingsComputed'
    BY <2>1 DEF IntegralsComputed, ScalingsComputed
  <2>. QED BY <1>2, <2>1, <2>2, <2>3 DEF Computed
<1>7. CASE HypotSpecial \/ HypotScale
  <2>1. call' = call /\ pc' = "done" /\ call.op = "hypot"
    BY <1>7 DEF HypotSpecial, HypotScale, IInv
  <2>2. Computed'
    BY <2>1 DEF Computed, IntegralsComputed, ScalingsComputed, PairsComputed
  <2>. QED BY <1>2, <2>1, <2>2
<1>8. CASE HypotRatio \/ HypotSquare \/ HypotSum \/ HypotRoot
  BY <1>8 DEF HypotRatio, HypotSquare, HypotSum, HypotRoot, HypotStep, IInv
<1>. QED BY <1>1, <1>3, <1>4, <1>5, <1>6, <1>7, <1>8 DEF Next

---------------------------------------------------------------------------
(* compare.cpp and classify.cpp, for every format: each of the sixteen     *)
(* predicates holds of exactly the relations it asks for, minima and       *)
(* maxima are those of the order with -0 below +0, and fdim is the rounded *)
(* difference of what is greater.                                          *)
THEOREM OrderedByValueAlways == Spec => []OrderedByValue
<1>1. IInv => OrderedByValue
  <2>. SUFFICES ASSUME IInv, pc = "done" PROVE OrderedByValue
    BY DEF OrderedByValue, Returned
  <2>. DEFINE a == call.a
              b == call.b
  <2>1. PairsComputed
    BY DEF IInv, Computed
  <2>2. call.op \in {"fcmp", "fmin", "fmax", "fmin_precise", "fmax_precise", "maxmag", "minmag",
                     "fdim"} => a \in Values /\ b \in Values
    BY CallTypes DEF IInv
  <2>3. Returned({"fcmp"}) =>
          (res = 1 <=> call.pred < 16 /\ BitSet(call.pred, Relates(a, b)))
    <3>. SUFFICES ASSUME call.op = "fcmp"
                  PROVE  res = 1 <=> call.pred < 16 /\ BitSet(call.pred, Relates(a, b))
      BY DEF Returned
    <3>1. call.pred \in Predicates /\ a \in Values /\ b \in Values
      BY <2>2, CallTypes DEF IInv
    <3>2. res = (IF Fcmp(call.pred, a, b) THEN 1 ELSE 0)
      BY <2>1 DEF PairsComputed
    <3>3. Fcmp(call.pred, a, b) <=> call.pred < 16 /\ BitSet(call.pred, Relates(a, b))
      BY <3>1, PredicateIs
    <3>. QED BY <3>2, <3>3
  <2>4. (Returned({"fmin", "fmax", "minmag", "maxmag"}) /\ Unordered(a, b)) =>
          IF IsNaN(a) /\ IsNaN(b) THEN IsNaN(res)
          ELSE res = IF IsNaN(a) THEN b ELSE a
    <3>1. (Returned({"fmin", "fmax", "minmag", "maxmag"}) /\ Unordered(a, b)) =>
            res = IF IsNaN(a) THEN b ELSE a
      BY <2>1, MinMaxOfNaN DEF Returned, PairsComputed
    <3>. QED BY <3>1
  <2>5. (Returned({"fmin_precise", "fmax_precise"}) /\ Unordered(a, b)) => IsNaN(res)
    <3>. SUFFICES ASSUME Returned({"fmin_precise", "fmax_precise"}), Unordered(a, b)
                  PROVE  IsNaN(res)
      OBVIOUS
    <3>1. a \in Values /\ b \in Values
      BY <2>2 DEF Returned
    <3>2. res = PropagateNaN(a, b)
      BY <2>1, MinMaxOfNaN DEF Returned, PairsComputed
    <3>. QED BY <3>1, <3>2, QuietIsNaN DEF PropagateNaN, Unordered
  <2>6. (Returned({"fmin", "fmin_precise"}) /\ ~Unordered(a, b)) => res = Smallest(a, b)
    BY <2>1, <2>2, MinimumIs DEF Returned, PairsComputed
  <2>7. (Returned({"fmax", "fmax_precise"}) /\ ~Unordered(a, b)) => res = Greatest(a, b)
    BY <2>1, <2>2, MaximumIs DEF Returned, PairsComputed
  <2>8. (Returned({"minmag"}) /\ ~Unordered(a, b)) =>
          res = IF Ref!Mag(a) = Ref!Mag(b) THEN Smallest(a, b)
                ELSE IF Ref!Mag(a) < Ref!Mag(b) THEN a ELSE b
    BY <2>1, <2>2, ByMagnitude DEF Returned, PairsComputed
  <2>9. (Returned({"maxmag"}) /\ ~Unordered(a, b)) =>
          res = IF Ref!Mag(a) = Ref!Mag(b) THEN Greatest(a, b)
                ELSE IF Ref!Mag(a) > Ref!Mag(b) THEN a ELSE b
    BY <2>1, <2>2, ByMagnitude DEF Returned, PairsComputed
  <2>10. (Returned({"fdim"}) /\ ~Unordered(a, b)) =>
           Outcome = IF Relates(a, b) = 1 THEN Ref!Subtract(a, b, "RNE")
                     ELSE [res |-> SignedZero(0), fe |-> {}]
    <3>. SUFFICES ASSUME call.op = "fdim", ~ Unordered(a, b)
                  PROVE  Outcome = IF Relates(a, b) = 1 THEN Ref!Subtract(a, b, "RNE")
                                   ELSE [res |-> SignedZero(0), fe |-> {}]
      BY Zenon DEF Returned
    <3>1. Fdim(a, b) = IF Relates(a, b) = 1 THEN Ref!Subtract(a, b, "RNE")
                       ELSE [res |-> SignedZero(0), fe |-> {}]
      BY <2>2, FdimIs
    <3>2. Outcome = [res |-> Fdim(a, b).res, fe |-> Fdim(a, b).fe]
      BY <2>1 DEF PairsComputed
    <3>3. Ref!Subtract(a, b, "RNE") = [res |-> Ref!Subtract(a, b, "RNE").res,
                                       fe |-> Ref!Subtract(a, b, "RNE").fe]
      BY <2>2, DifferenceOutcome DEF IsOutcome, Unordered
    <3>. QED BY <3>1, <3>2, <3>3
  <2>. HIDE DEF a, b
  <2>. QED BY <2>3, <2>4, <2>5, <2>6, <2>7, <2>8, <2>9, <2>10, Zenon DEF OrderedByValue, a, b
<1>. QED BY <1>1, InvInit, InvInductive, PTL DEF Spec

(* nextafter, for every format: it moves toward its second operand, skips  *)
(* no value between them, and keeps the sign of a zero it reaches.         *)
THEOREM AdjacentAlways == Spec => []Adjacent
<1>1. IInv => Adjacent
  <2>. SUFFICES ASSUME IInv, pc = "done", call.op = "nextafter", ~ Unordered(call.a, call.b)
                PROVE  Adjacent
    BY DEF Adjacent, Returned
  <2>1. res = Nextafter(call.a, call.b)
    BY DEF IInv, Computed, PairsComputed
  <2>2. call.a \in Values /\ call.b \in Values
    BY CallTypes DEF IInv
  <2>3. IF Relates(call.a, call.b) = 0 THEN res = call.b
        ELSE /\ Ref!Signed(res) = Ref!Signed(call.b) \/ Between(call.a, res, call.b)
             /\ \A v \in Values : ~ IsNaN(v) => ~ Between(call.a, v, res)
             /\ IsZero(res) => res.s = call.a.s
    BY <2>1, <2>2, AdjacentIs
  <2>. QED BY <2>3, Zenon DEF Adjacent, Between
<1>. QED BY <1>1, InvInit, InvInductive, PTL DEF Spec

(* soft_f64.h copies trunc, ldexp, frexp and fcmp so that they inline: for *)
(* every format the copies return what the entries return.                 *)
THEOREM CopiesIdenticalAlways == Spec => []CopiesIdentical
<1>1. IInv => CopiesIdentical
  <2>. SUFFICES ASSUME IInv, pc = "done" PROVE CopiesIdentical
    BY DEF CopiesIdentical
  <2>1. IntegralsComputed /\ ScalingsComputed /\ PairsComputed
    BY DEF IInv, Computed
  <2>2. CASE call.op = "trunc"
    <3>1. call.v \in Values /\ res = TruncBits(call.v)
      BY <2>1, <2>2, CallTypes DEF IInv, IntegralsComputed
    <3>. QED BY <2>2, <3>1, TruncCopied DEF CopiesIdentical
  <2>3. CASE call.op = "ldexp"
    <3>1. call.v \in Values /\ call.n \in Int /\ res = Ldexp(call.v, call.n)
      BY <2>1, <2>3, CallTypes, IntegralAssumption DEF IInv, ScalingsComputed, Scales
    <3>. QED BY <2>3, <3>1, LdexpCopied DEF CopiesIdentical
  <2>4. CASE call.op = "frexp"
    <3>1. Frexp(call.v) = [res |-> Frexp(call.v).res, part |-> Frexp(call.v).part]
      BY DEF Frexp
    <3>2. res = Frexp(call.v).res /\ part = Frexp(call.v).part
      BY <2>1, <2>4 DEF ScalingsComputed
    <3>3. [res |-> res, part |-> part] = Copy!InternalFrexp(call.v)
      BY <3>1, <3>2, FrexpCopied
    <3>. QED BY <2>4, <3>3 DEF CopiesIdentical
  <2>5. CASE call.op = "fcmp"
    <3>1. call.a \in Values /\ call.b \in Values /\ call.pred \in Predicates
      BY <2>5, CallTypes DEF IInv
    <3>2. res = (IF Fcmp(call.pred, call.a, call.b) THEN 1 ELSE 0)
      BY <2>1, <2>5 DEF PairsComputed
    <3>3. Copy!InternalFcmp(call.pred, call.a, call.b) <=> Fcmp(call.pred, call.a, call.b)
      BY <3>1, FcmpCopied
    <3>4. res = 1 <=> Copy!InternalFcmp(call.pred, call.a, call.b)
      BY <3>2, <3>3
    <3>. QED BY <2>5, <3>4 DEF CopiesIdentical
  <2>6. CASE call.op \notin {"trunc", "ldexp", "frexp", "fcmp"}
    BY <2>6 DEF CopiesIdentical
  <2>. QED BY <2>2, <2>3, <2>4, <2>5, <2>6
<1>. QED BY <1>1, InvInit, InvInductive, PTL DEF Spec

---------------------------------------------------------------------------
(* Rounding to an integral value.                                          *)
LEMMA BiasFacts ==
  /\ Bias \in Nat /\ Bias >= 2 /\ FracBits <= Bias /\ FracBits \in Nat /\ FracBits >= 2
  /\ ExpMax = 2 * Bias + 1 /\ ExpMax \in Nat /\ ExpMax < MaxShift /\ MaxShift \in Nat
  /\ FracBits + Bias - 1 \in Nat /\ FracBits + Bias - 1 <= MaxShift
  /\ RefOne = Pow2[FracBits + Bias - 1] /\ RefOne \in Nat /\ RefOne >= 1
  /\ RefOne = ImplicitBit * Unit(Bias)
<1>1. /\ Bias \in Nat /\ FracBits <= Bias /\ FracBits \in Nat /\ FracBits >= 2
      /\ ExpMax = 2 * Bias + 1 /\ ExpMax + FracBits < MaxShift /\ MaxShift \in Nat
  BY Fields, Widths, IntegralAssumption
<1>2. FracBits + Bias - 1 \in 0..MaxShift /\ Bias - 1 \in Nat
      /\ FracBits + (Bias - 1) = FracBits + Bias - 1
  BY <1>1
<1>3. RefOne = Pow2[FracBits + Bias - 1]
  BY SameFormat DEF RefOne
<1>4. Pow2[FracBits + (Bias - 1)] = Pow2[FracBits] * Pow2[Bias - 1]
  BY <1>1, <1>2, Pow2Sum
<1>. QED BY <1>1, <1>2, <1>3, <1>4, Pow2Positive, Fields DEF Unit

(* The weights within a number of the binades whose unit is below one.     *)
UlpsOf(v, u, T, H, U, P) ==
  /\ u \in Nat /\ T \in Nat /\ H \in Nat /\ U \in Nat /\ P \in Nat
  /\ H >= 1 /\ U >= 1 /\ P >= 1
  /\ T = 2 * H /\ ImplicitBit = P * T /\ RefOne = T * U
  /\ Ref!Mag(v) = (ImplicitBit + v.f) * U
  /\ u = 0 => P = 1
  /\ u > 0 => P % 2 = 0

LEMMA UlpFacts ==
  ASSUME NEW v \in Values, v.e < ExpMax, NEW u, u = Unbiased(v), 0 <= u, u < FracBits
  PROVE  /\ UlpsOf(v, u, OneUlp(v), Pow2[FracBits - u - 1], Unit(v.e), Pow2[u])
         /\ v.e \in 1..(ExpMax - 1) /\ v.e + 1 < ExpMax /\ Binade(v.e) = v.e
         /\ Unbiased(v) = u /\ OneUlp(v) = Pow2[FracBits - u]
<1>1. v.e \in Nat /\ u = v.e - Bias
  BY Fields DEF Values, Unbiased
<1>2. /\ u \in Nat /\ v.e \in 1..(ExpMax - 1) /\ v.e + 1 < ExpMax /\ v.e # 0
      /\ FracBits - u - 1 \in Nat /\ FracBits - u - 1 <= MaxShift
      /\ (FracBits - u - 1) + 1 = FracBits - u /\ FracBits - u \in Nat
      /\ FracBits - u <= MaxShift
      /\ u + (FracBits - u) = FracBits /\ FracBits <= MaxShift /\ u <= MaxShift
      /\ (FracBits - u) + (v.e - 1) = FracBits + Bias - 1 /\ v.e - 1 \in Nat
  BY <1>1, BiasFacts
<1>3. Binade(v.e) = v.e /\ Whole(v) = ImplicitBit + v.f
  <2>1. ImplicitBit \in Nat /\ v.f \in Nat
    BY Fields DEF Values
  <2>. QED BY <1>2, <2>1 DEF Binade, Whole
<1>4. Ref!Mag(v) = (ImplicitBit + v.f) * Unit(v.e)
  BY <1>3, ValueAt
<1>5. OneUlp(v) = Pow2[FracBits - u]
  BY DEF OneUlp
<1>6. Pow2[FracBits - u] = 2 * Pow2[FracBits - u - 1]
  BY <1>2, Pow2Step
<1>7. ImplicitBit = Pow2[u] * Pow2[FracBits - u]
  <2>1. Pow2[u + (FracBits - u)] = Pow2[u] * Pow2[FracBits - u]
    BY <1>2, Pow2Sum, Zenon
  <2>. QED BY <1>2, <2>1, Fields
<1>8. RefOne = Pow2[FracBits - u] * Unit(v.e)
  <2>. DEFINE p == FracBits - u
              q == v.e - 1
  <2>1. p \in Nat /\ q \in Nat /\ p + q = FracBits + Bias - 1 /\ p + q <= MaxShift
    BY <1>2, BiasFacts
  <2>. HIDE DEF p, q
  <2>2. Pow2[p + q] = Pow2[p] * Pow2[q]
    BY <2>1, Pow2Sum
  <2>. QED BY <2>1, <2>2, BiasFacts DEF Unit, p, q
<1>9. /\ Pow2[FracBits - u] \in Nat /\ Pow2[FracBits - u - 1] \in Nat
      /\ Pow2[FracBits - u - 1] >= 1 /\ Unit(v.e) \in Nat /\ Unit(v.e) >= 1
      /\ Pow2[u] \in Nat /\ Pow2[u] >= 1
  <2>1. v.e - 1 \in 0..MaxShift /\ FracBits - u - 1 \in 0..MaxShift /\ FracBits - u \in 0..MaxShift
        /\ u \in 0..MaxShift
    BY <1>2, BiasFacts
  <2>. QED BY <2>1, Pow2Positive DEF Unit
<1>10. u = 0 => Pow2[u] = 1
  BY Pow2Step
<1>11. u > 0 => Pow2[u] % 2 = 0
  <2>. SUFFICES ASSUME u > 0 PROVE Pow2[u] % 2 = 0
    OBVIOUS
  <2>1. u - 1 \in Nat /\ (u - 1) + 1 = u /\ u - 1 \in 0..MaxShift
    BY <1>2, BiasFacts
  <2>2. Pow2[u] = 2 * Pow2[u - 1] /\ Pow2[u - 1] \in Nat
    BY <1>2, <2>1, Pow2Step
  <2>. QED BY <2>2
<1>. QED BY <1>2, <1>3, <1>4, <1>5, <1>6, <1>7, <1>8, <1>9, <1>10, <1>11 DEF UlpsOf

(* Where num lies between k and k + 1 times den.                           *)
CutOf(num, den, k, lost, half, tie) ==
  /\ k \in Nat /\ k * den <= num /\ num < (k + 1) * den
  /\ lost <=> num # k * den
  /\ half <=> 2 * num >= (2 * k + 1) * den
  /\ tie <=> 2 * num = (2 * k + 1) * den

LEMMA FractionParts ==
  ASSUME NEW f \in Nat, NEW P \in Nat, NEW T \in Nat, T >= 1, f < P * T
  PROVE  /\ (f \div T) \in Nat /\ (f % T) \in Nat /\ (f % T) < T
         /\ f = (f \div T) * T + (f % T) /\ (f \div T) + 1 <= P
<1>. DEFINE q == f \div T
            r == f % T
<1>1. q \in Nat /\ r \in Nat /\ r < T /\ f = q * T + r
  BY Split
<1>. HIDE DEF q, r
<1>2. q + 1 <= P
  <2>1. SUFFICES ASSUME q >= P PROVE FALSE
    BY <1>1
  <2>2. (q - P) * T >= 0
    BY <1>1, <2>1, Z3
  <2>. QED BY <1>1, <2>2, Z3
<1>. QED BY <1>1, <1>2 DEF q, r

LEMMA FractionCut ==
  ASSUME NEW f \in Nat, NEW P \in Nat, NEW T \in Nat, NEW H \in Nat, NEW U \in Nat,
         H >= 1, U >= 1, P >= 1, 2 * H = T, f < P * T
  PROVE  CutOf((P * T + f) * U, T * U, P + (f \div T), (f % T) # 0, H <= (f % T), (f % T) = H)
<1>. DEFINE q == f \div T
            r == f % T
<1>1. q \in Nat /\ r \in Nat /\ r < T /\ f = q * T + r /\ q + 1 <= P
  BY FractionParts
<1>. HIDE DEF q, r
<1>. DEFINE n == (P * T + f) * U
            D == T * U
            k == P + q
<1>2. n = k * D + r * U
  BY <1>1, Z3
<1>3. D = 2 * (H * U) /\ D \in Nat /\ H * U \in Nat /\ H * U >= 1
  BY Z3
<1>4. r * U \in Nat /\ r * U < D
  <2>1. (T - r - 1) * U >= 0
    BY <1>1, Z3
  <2>. QED BY <1>1, <2>1, Z3
<1>5. r # 0 <=> r * U # 0
  BY <1>1, Z3
<1>6. H <= r <=> H * U <= r * U
  <2>1. H <= r => (r - H) * U >= 0
    BY <1>1, Z3
  <2>2. ~ (H <= r) => (H - r) * U >= 1
    BY <1>1, Z3
  <2>. QED BY <1>1, <2>1, <2>2, Z3
<1>7. r = H <=> r * U = H * U
  BY <1>1, Z3
<1>9. k \in Nat /\ n \in Nat /\ k * D \in Nat
  BY <1>1, Z3
<1>. DEFINE K == k * D
            R == r * U
            J == H * U
<1>10. /\ (k + 1) * D = K + D
       /\ (2 * k + 1) * D = 2 * K + D
  BY <1>9, Z3
<1>11. n = K + R /\ K \in Nat /\ R \in Nat /\ D = 2 * J /\ J \in Nat /\ J >= 1 /\ R < D
  BY <1>2, <1>3, <1>4, <1>9
<1>. HIDE DEF n, D, k, K, R, J
<1>12. CutOf(n, D, k, r # 0, H <= r, r = H)
  <2>1. K <= n /\ n < K + D
    BY <1>11
  <2>2. R # 0 <=> n # K
    BY <1>11
  <2>3. J <= R <=> 2 * n >= 2 * K + D
    BY <1>11
  <2>4. R = J <=> 2 * n = 2 * K + D
    BY <1>11
  <2>5. K = k * D
    BY DEF K
  <2>6. (r # 0 <=> R # 0) /\ (H <= r <=> J <= R) /\ (r = H <=> R = J)
    BY <1>5, <1>6, <1>7 DEF R, J
  <2>. QED BY <1>9, <1>10, <2>1, <2>2, <2>3, <2>4, <2>5, <2>6 DEF CutOf
<1>. QED BY <1>12 DEF n, D, k, q, r

(* What an operand is cut off to, and the next integer away from zero.     *)
Toward(v) == TruncBits(v)
Away(v) == NextIntegerAway(TruncBits(v), v.s)

IntegerAt(w, s, k) ==
  /\ w \in Values /\ w.s = s /\ w.e < ExpMax
  /\ Ref!Mag(w) = k * RefOne

LEMMA TowardIs ==
  ASSUME NEW v \in Values, v.e < ExpMax, NEW u, u = Unbiased(v), 0 <= u, u < FracBits
  PROVE  /\ Toward(v) = [s |-> v.s, e |-> v.e, f |-> v.f - (v.f % OneUlp(v))]
         /\ IntegerAt(Toward(v), v.s, Pow2[u] + (v.f \div OneUlp(v)))
         /\ Toward(v).e >= 1
<1>. DEFINE T == OneUlp(v)
            H == Pow2[FracBits - u - 1]
            U == Unit(v.e)
            P == Pow2[u]
            r == v.f % T
            q == v.f \div T
            t == [s |-> v.s, e |-> v.e, f |-> v.f - r]
<1>1. /\ UlpsOf(v, u, T, H, U, P)
      /\ v.e \in 1..(ExpMax - 1) /\ Binade(v.e) = v.e
  BY UlpFacts
<1>2. v.s \in {0, 1} /\ v.e \in Nat /\ v.f \in Nat /\ v.f < ImplicitBit /\ ImplicitBit \in Nat
      /\ ExpMax \in Nat
  BY Fields DEF Values
<1>3. /\ u \in Nat /\ T \in Nat /\ H \in Nat /\ U \in Nat /\ P \in Nat
      /\ H >= 1 /\ U >= 1 /\ P >= 1 /\ T = 2 * H /\ ImplicitBit = P * T /\ RefOne = T * U
  BY <1>1 DEF UlpsOf
<1>. HIDE DEF T, H, U, P
<1>4. q \in Nat /\ r \in Nat /\ r < T /\ v.f = q * T + r /\ q + 1 <= P
  <2>. DEFINE f == v.f
  <2>1. f \in Nat /\ f < P * T
    BY <1>2, <1>3
  <2>2. T \in Nat /\ T >= 1 /\ P \in Nat
    BY <1>3
  <2>. HIDE DEF f
  <2>3. /\ (f \div T) \in Nat /\ (f % T) \in Nat /\ (f % T) < T
        /\ f = (f \div T) * T + (f % T) /\ (f \div T) + 1 <= P
    BY <2>1, <2>2, FractionParts
  <2>. QED BY <2>3 DEF f
<1>5. TruncBits(v) = t
  <2>1. v.e # ExpMax /\ ~ (Unbiased(v) >= FracBits) /\ ~ (Unbiased(v) < 0)
    BY <1>2, <1>3, BiasFacts
  <2>2. TruncBits(v) = [v EXCEPT !.f = v.f - (v.f % OneUlp(v))]
    BY <2>1 DEF TruncBits
  <2>. QED BY <2>2 DEF Values, T
<1>. HIDE DEF q, r
<1>6. v.f - r = q * T /\ v.f - r \in 0..(ImplicitBit - 1)
  <2>1. q * T \in Nat
    BY <1>3, <1>4
  <2>. QED BY <1>2, <1>4, <2>1
<1>7. t \in Values /\ t.e < ExpMax /\ t.e >= 1 /\ t.s = v.s /\ t.e = v.e /\ t.f = q * T
  BY <1>1, <1>2, <1>6 DEF Values
<1>. HIDE DEF t
<1>8. Ref!Mag(t) = (P + q) * RefOne
  <2>1. Ref!Mag(t) = Whole(t) * Unit(Binade(t.e))
    BY <1>7, ValueAt
  <2>2. t.e # 0 /\ Whole(t) = q * T + ImplicitBit
    BY <1>7 DEF Whole
  <2>3. Binade(t.e) = v.e
    BY <1>1, <1>7
  <2>4. Ref!Mag(t) = (q * T + P * T) * U
    BY <1>3, <2>1, <2>2, <2>3 DEF U
  <2>5. (q * T + P * T) * U = (P + q) * (T * U)
    BY <1>3, <1>4, Z3
  <2>. QED BY <1>3, <2>4, <2>5
<1>. QED BY <1>5, <1>7, <1>8 DEF Toward, IntegerAt, t, P, q, r, T

LEMMA AwayIs ==
  ASSUME NEW v \in Values, v.e < ExpMax, NEW u, u = Unbiased(v), 0 <= u, u < FracBits
  PROVE  IntegerAt(Away(v), v.s, (Pow2[u] + (v.f \div OneUlp(v))) + 1)
<1>. DEFINE T == OneUlp(v)
            H == Pow2[FracBits - u - 1]
            U == Unit(v.e)
            P == Pow2[u]
            I == ImplicitBit
            e == v.e
            f == v.f
            r == f % T
            q == f \div T
            t == TruncBits(v)
            l == Low(t) + T
            m == I + (q * T + T)
            w == WithLow(v.s, l)
<1>1. /\ UlpsOf(v, u, T, H, U, P)
      /\ e \in 1..(ExpMax - 1) /\ e + 1 < ExpMax
      /\ Unbiased(v) = u
  BY UlpFacts
<1>2. v.s \in {0, 1} /\ f \in Nat /\ f < I /\ I \in Nat /\ I >= 4 /\ ExpMax \in Nat
  BY Fields, GuardPowers DEF Values
<1>3. t = [s |-> v.s, e |-> e, f |-> f - r] /\ t.e >= 1
  BY TowardIs DEF Toward
<1>4. t.s = v.s /\ t.e = e /\ t.f = f - r /\ ~ IsZero(t)
  <2>1. t.s = v.s /\ t.e = e /\ t.f = f - r
    BY <1>3
  <2>2. t.e # 0
    BY <1>3
  <2>. QED BY <2>1, <2>2 DEF IsZero
<1>5. OneUlp(t) = T
  BY <1>4 DEF OneUlp, Unbiased
<1>6. Away(v) = w
  BY <1>4, <1>5 DEF Away, NextIntegerAway
<1>. HIDE DEF t
<1>7. Low(t) = e * I + (f - r)
  BY <1>4 DEF Low
<1>. HIDE DEF T, H, U, P, e, f
<1>8. /\ u \in Nat /\ T \in Nat /\ H \in Nat /\ U \in Nat /\ P \in Nat
      /\ H >= 1 /\ U >= 1 /\ P >= 1 /\ T = 2 * H /\ I = P * T /\ RefOne = T * U
  BY <1>1 DEF UlpsOf
<1>. HIDE DEF I
<1>9. q \in Nat /\ r \in Nat /\ r < T /\ f = q * T + r /\ q + 1 <= P
  <2>1. f < P * T /\ f \in Nat /\ T \in Nat /\ T >= 1 /\ P \in Nat
    BY <1>2, <1>8
  <2>2. /\ (f \div T) \in Nat /\ (f % T) \in Nat /\ (f % T) < T
        /\ f = (f \div T) * T + (f % T) /\ (f \div T) + 1 <= P
    BY <2>1, FractionParts
  <2>. QED BY <2>2
<1>. HIDE DEF q, r
<1>10. q * T \in Nat /\ q * T + T <= I
  <2>1. q * T \in Nat /\ (P - q - 1) * T >= 0
    BY <1>8, <1>9, Z3
  <2>. QED BY <1>8, <1>9, <2>1, Z3
<1>11. m \in Nat /\ m <= 2 * I /\ I <= m /\ InBinade(e, m)
  <2>1. m \in Nat /\ m <= 2 * I /\ I <= m
    <3>. DEFINE p == q * T
    <3>1. p \in Nat /\ p + T <= I /\ T \in Nat /\ m = I + (p + T)
      BY <1>8, <1>10
    <3>. HIDE DEF p, m
    <3>. QED BY <1>2, <3>1
  <2>. QED BY <2>1 DEF InBinade, I
<1>12. l = IndexOf(e, m)
  <2>1. f - r = q * T
    BY <1>9, <1>10
  <2>2. l = (e * I + q * T) + T
    BY <1>7, <2>1
  <2>3. IndexOf(e, m) = (e - 1) * I + (I + (q * T + T))
    BY DEF IndexOf, I
  <2>4. (e - 1) * I + (I + (q * T + T)) = (e * I + q * T) + T
    BY <1>1, <1>2, <1>8, <1>9, Z3
  <2>. QED BY <2>2, <2>3, <2>4
<1>. HIDE DEF l, m
<1>13. l \in 0..(ExpMax * I) /\ Ref!Magnitude[l] = m * U
  <2>1. IndexOf(e, m) \in 0..(ExpMax * I) /\ Ref!Magnitude[IndexOf(e, m)] = m * U
    BY <1>1, <1>11, MagnitudeAt DEF U, I, e
  <2>. QED BY <1>12, <2>1
<1>14. l \in 0..LastWord
  <2>1. ExpMax * I \in Nat
    BY <1>2
  <2>2. LastWord = ExpMax * I + (I - 1)
    BY DEF LastWord, I
  <2>. QED BY <1>2, <1>13, <2>1, <2>2
<1>15. w \in Values /\ Low(w) = l /\ w.s = v.s /\ w.e = l \div I
  BY <1>2, <1>14, WordFields DEF I
<1>16. w.e < ExpMax
  <2>. DEFINE d == l \div I
  <2>1. d \in Nat /\ l = d * I + (l % I) /\ (l % I) \in Nat /\ l \in Nat
    BY <1>2, <1>13, Split
  <2>. HIDE DEF d
  <2>2. l <= (e + 1) * I
    <3>1. l = (e - 1) * I + m
      BY <1>12 DEF IndexOf, I
    <3>2. (e - 1) * I + 2 * I = (e + 1) * I
      BY <1>1, <1>2, Z3
    <3>3. (e - 1) * I \in Int
      BY <1>1, <1>2
    <3>. QED BY <1>2, <1>11, <3>1, <3>2, <3>3
  <2>3. d < ExpMax
    <3>1. SUFFICES ASSUME d >= ExpMax PROVE FALSE
      BY <1>2, <2>1
    <3>2. (d - (e + 1) - 1) * I >= 0
      BY <1>1, <1>2, <2>1, <3>1, Z3
    <3>3. d * I >= (e + 1) * I + I
      BY <1>1, <1>2, <2>1, <3>2, Z3
    <3>4. d * I \in Int /\ (e + 1) * I \in Int
      BY <1>1, <1>2, <2>1
    <3>. QED BY <1>2, <2>1, <2>2, <3>3, <3>4
  <2>. QED BY <1>15, <2>3 DEF d
<1>17. Ref!Mag(w) = m * U
  <2>1. ~ IsNaN(w)
    BY <1>15, <1>16, FiniteClasses
  <2>. QED BY <1>13, <1>15, <2>1, WordIndex
<1>18. m * U = ((P + q) + 1) * RefOne
  <2>1. m * U = (P * T + (q * T + T)) * U
    BY <1>8 DEF m
  <2>2. (P * T + (q * T + T)) * U = ((P + q) + 1) * (T * U)
    BY <1>8, <1>9, Z3
  <2>. QED BY <1>8, <2>1, <2>2
<1>. QED BY <1>6, <1>15, <1>16, <1>17, <1>18 DEF IntegerAt, P, q, f, T

(* What each entry makes of the four things it looks at.                   *)
Entries(v, k, lost, half, tie) ==
  /\ IntegerAt(Toward(v), v.s, k)
  /\ lost => IntegerAt(Away(v), v.s, k + 1)
  /\ HasFractionalPart(v) <=> lost
  /\ RoundAway(v) = (IF half THEN Away(v) ELSE Toward(v))
  /\ Rint(v) = (IF half /\ (~ tie \/ k % 2 = 1) THEN Away(v) ELSE Toward(v))

Cut(v) ==
  \E k \in Nat, lost \in BOOLEAN, half \in BOOLEAN, tie \in BOOLEAN :
    /\ CutOf(Ref!Mag(v), RefOne, k, lost, half, tie)
    /\ Entries(v, k, lost, half, tie)

LEMMA CutWithin ==
  ASSUME NEW v \in Values, v.e < ExpMax, NEW u, u = Unbiased(v), 0 <= u, u < FracBits
  PROVE  Cut(v)
<1>. DEFINE T == OneUlp(v)
            H == Pow2[FracBits - u - 1]
            U == Unit(v.e)
            P == Pow2[u]
            f == v.f
            q == f \div T
            r == f % T
            k == P + q
            t == TruncBits(v)
<1>1. /\ UlpsOf(v, u, T, H, U, P)
      /\ Unbiased(v) = u /\ T = Pow2[FracBits - u]
  BY UlpFacts
<1>2. /\ v.s \in {0, 1} /\ v.e \in Nat /\ f \in Nat /\ f < ImplicitBit /\ ImplicitBit \in Nat
      /\ ExpMax \in Nat /\ FracBits \in Nat /\ v.e # ExpMax
  BY Fields, Widths DEF Values
<1>3. /\ Toward(v) = [s |-> v.s, e |-> v.e, f |-> f - r]
      /\ IntegerAt(Toward(v), v.s, k)
      /\ IntegerAt(Away(v), v.s, k + 1)
  BY TowardIs, AwayIs
<1>. DEFINE half == HalfSet(v)
            below == BelowHalfSet(v)
            odd == Odd(t)
            frac == HasFractionalPart(v)
<1>4. /\ half <=> (f \div H) % 2 = 1
      /\ below <=> (f % H) # 0
      /\ odd <=> u = 0 \/ ((f - r) \div T) % 2 = 1
      /\ frac <=> r # 0
  <2>1. half <=> (f \div H) % 2 = 1
    BY <1>1 DEF HalfSet, BitSet
  <2>2. below <=> (f % H) # 0
    BY <1>1 DEF BelowHalfSet
  <2>3. t.f = f - r /\ Unbiased(t) = u
    BY <1>1, <1>3 DEF Toward, Unbiased
  <2>4. odd <=> u = 0 \/ ((f - r) \div T) % 2 = 1
    BY <1>1, <2>3 DEF Odd, BitSet
  <2>5. ~ (u < 0) /\ u < FracBits /\ v.e # ExpMax
    BY <1>1, <1>2 DEF UlpsOf
  <2>6. frac <=> r # 0
    BY <1>1, <2>5 DEF HasFractionalPart
  <2>. QED BY <2>1, <2>2, <2>4, <2>6
<1>5. /\ RoundAway(v) = (IF ~ frac THEN v ELSE IF half THEN Away(v) ELSE Toward(v))
      /\ Rint(v) = (IF ~ frac THEN v
                    ELSE IF half /\ (below \/ odd) THEN Away(v) ELSE Toward(v))
  <2>1. ~ (Unbiased(v) < 0) /\ v.e # ExpMax
    BY <1>1, <1>2 DEF UlpsOf
  <2>2. RoundAway(v) = (IF ~ frac THEN v ELSE IF half THEN Away(v) ELSE Toward(v))
    BY <2>1, Zenon DEF RoundAway, Away, Toward
  <2>3. Rint(v) = (IF ~ frac THEN v
                   ELSE IF half /\ (below \/ odd) THEN Away(v) ELSE Toward(v))
    BY <2>1, Zenon DEF Rint, Away, Toward
  <2>. QED BY <2>2, <2>3
<1>. HIDE DEF half, below, odd, frac, t
<1>6. r = 0 => Toward(v) = v
  <2>. SUFFICES ASSUME r = 0 PROVE Toward(v) = v
    OBVIOUS
  <2>1. Toward(v) = [s |-> v.s, e |-> v.e, f |-> v.f]
    BY <1>2, <1>3
  <2>. QED BY <2>1 DEF Values
<1>. HIDE DEF T, H, U, P, f
<1>7. /\ u \in Nat /\ T \in Nat /\ H \in Nat /\ U \in Nat /\ P \in Nat
      /\ H >= 1 /\ U >= 1 /\ P >= 1 /\ 2 * H = T /\ ImplicitBit = P * T /\ RefOne = T * U
      /\ Ref!Mag(v) = (P * T + f) * U
      /\ u = 0 => P = 1
      /\ u > 0 => P % 2 = 0
  BY <1>1 DEF UlpsOf, f
<1>8. f < P * T /\ T >= 1 /\ f \in Nat
  BY <1>2, <1>7
<1>9. CutOf(Ref!Mag(v), RefOne, k, r # 0, H <= r, r = H)
  <2>1. CutOf((P * T + f) * U, T * U, k, r # 0, H <= r, r = H)
    BY <1>7, <1>8, FractionCut
  <2>. QED BY <1>7, <2>1
<1>10. q \in Nat /\ r \in Nat /\ r < T /\ f = q * T + r /\ q + 1 <= P
  BY <1>7, <1>8, FractionParts
<1>11. /\ half <=> H <= r
       /\ below <=> r # 0 /\ r # H
  <2>1. PICK m \in Nat, x \in Nat :
           /\ m = f \div (2 * H) /\ x < 2 * H /\ f = m * (2 * H) + x
           /\ (f \div H) % 2 = 1 <=> H <= x
           /\ (f % H) # 0 <=> x # 0 /\ x # H
    BY <1>7, <1>8, CutAtHalf
  <2>2. x = r
    <3>1. (m * T + x) % T = x
      BY <1>7, <2>1, Join
    <3>. QED BY <1>7, <2>1, <3>1
  <2>. QED BY <1>4, <2>1, <2>2
<1>. HIDE DEF q, r
<1>12. odd <=> k % 2 = 1
  <2>1. f - r = q * T + 0
    <3>1. q * T \in Nat
      BY <1>7, <1>10
    <3>. QED BY <1>10, <3>1
  <2>2. (q * T + 0) \div T = q
    BY <1>7, <1>8, <1>10, Join
  <2>3. odd <=> u = 0 \/ q % 2 = 1
    BY <1>4, <2>1, <2>2
  <2>4. CASE u = 0
    <3>1. P = 1 /\ q = 0
      BY <1>7, <1>10, <2>4
    <3>. QED BY <2>3, <2>4, <3>1
  <2>5. CASE u > 0
    <3>1. P % 2 = 0
      BY <1>7, <2>5
    <3>2. (P + q) % 2 = 1 <=> q % 2 = 1
      BY <1>7, <1>10, <3>1
    <3>. QED BY <2>3, <2>5, <3>2
  <2>. QED BY <1>7, <2>4, <2>5
<1>. DEFINE lost == r # 0
            up == H <= r
            tie == r = H
<1>13. k \in Nat /\ lost \in BOOLEAN /\ up \in BOOLEAN /\ tie \in BOOLEAN
  BY <1>7, <1>10
<1>14. /\ ~ lost => ~ up
       /\ tie => up
       /\ (half <=> up) /\ (below <=> lost /\ ~ tie) /\ (frac <=> lost)
       /\ ~ lost => Toward(v) = v
  BY <1>4, <1>6, <1>7, <1>10, <1>11
<1>15. CutOf(Ref!Mag(v), RefOne, k, lost, up, tie)
  BY <1>9
<1>. HIDE DEF k, lost, up, tie
<1>16. Entries(v, k, lost, up, tie)
  BY <1>3, <1>5, <1>12, <1>14, Zenon DEF Entries, k, frac
<1>. QED BY <1>13, <1>15, <1>16 DEF Cut

(* Below one.                                                              *)
LEMMA PowersOfTwo ==
  ASSUME NEW e \in {Bias - 1, Bias}, NEW s \in {0, 1}, NEW w, w = [s |-> s, e |-> e, f |-> 0]
  PROVE  /\ w \in Values /\ ~ IsNaN(w) /\ w.e < ExpMax /\ Low(w) = e * ImplicitBit
         /\ e = Bias => Ref!Mag(w) = RefOne
         /\ e = Bias - 1 => 2 * Ref!Mag(w) = RefOne
<1>1. /\ e \in Nat /\ e >= 1 /\ e < ExpMax /\ e \in 0..ExpMax /\ ImplicitBit \in Nat
      /\ ImplicitBit >= 4 /\ Bias \in 1..ExpMax /\ Bias - 1 \in 1..ExpMax /\ Bias - 1 < ExpMax
      /\ (Bias - 1) + 1 = Bias /\ e # ExpMax /\ e # 0
  BY BiasFacts, GuardPowers
<1>2. w \in Values
  BY <1>1 DEF Values
<1>3. w.s = s /\ w.e = e /\ w.f = 0
  OBVIOUS
<1>. HIDE DEF Values
<1>4. ~ IsNaN(w) /\ Low(w) = e * ImplicitBit
  BY <1>1, <1>3 DEF IsNaN, Low
<1>5. Ref!Mag(w) = ImplicitBit * Unit(e)
  <2>1. Ref!Mag(w) = Whole(w) * Unit(Binade(w.e))
    BY <1>1, <1>2, <1>3, ValueAt
  <2>2. Whole(w) = ImplicitBit /\ Binade(w.e) = e
    BY <1>1, <1>3 DEF Whole, Binade
  <2>. QED BY <2>1, <2>2
<1>6. Unit(Bias) = 2 * Unit(Bias - 1) /\ Unit(Bias - 1) \in Nat
  BY <1>1, UnitFacts
<1>7. 2 * (ImplicitBit * Unit(Bias - 1)) = ImplicitBit * (2 * Unit(Bias - 1))
  BY <1>1, <1>6, Z3
<1>. QED BY <1>1, <1>2, <1>3, <1>4, <1>5, <1>6, <1>7, BiasFacts

LEMMA CutBelow ==
  ASSUME NEW v \in Values, v.e < ExpMax, Unbiased(v) < 0
  PROVE  Cut(v)
<1>. DEFINE s == v.s
            e == v.e
            f == v.f
            I == ImplicitBit
            M == Ref!Mag(v)
            t == SignedZero(s)
<1>1. /\ s \in {0, 1} /\ e \in Nat /\ f \in Nat /\ f < I /\ I \in Nat /\ I >= 4
      /\ Bias \in Nat /\ Bias >= 2 /\ e < Bias /\ e # ExpMax /\ ~ IsNaN(v) /\ M \in Nat
      /\ Unbiased(v) = e - Bias /\ ~ (Unbiased(v) >= FracBits) /\ RefOne \in Nat
  BY FiniteClasses, BiasFacts, GuardPowers, Fields DEF Values, Unbiased
<1>2. TruncBits(v) = t /\ IsZero(t) /\ Toward(v) = t
  BY <1>1 DEF TruncBits, SignedZero, IsZero, Toward
<1>3. Away(v) = One(s)
  BY <1>2 DEF Away, NextIntegerAway
<1>4. IntegerAt(Toward(v), s, 0)
  <2>1. t \in Values /\ t.s = s /\ t.e = 0
    BY <1>1, SpecialResults DEF SignedZero
  <2>2. t.e < ExpMax
    BY <2>1, BiasFacts
  <2>3. Ref!Mag(t) = 0
    BY <1>2, <2>1, <2>2, FiniteClasses, ZeroMagnitude
  <2>. QED BY <1>1, <1>2, <2>1, <2>2, <2>3 DEF IntegerAt
<1>5. IntegerAt(Away(v), s, 0 + 1)
  <2>. DEFINE w == One(s)
  <2>1. w = [s |-> s, e |-> Bias, f |-> 0] /\ w.s = s
    BY DEF One
  <2>2. w \in Values /\ w.e < ExpMax /\ Ref!Mag(w) = RefOne
    BY <1>1, <2>1, PowersOfTwo
  <2>. QED BY <1>1, <1>3, <2>1, <2>2 DEF IntegerAt
<1>. DEFINE one == [s |-> 0, e |-> Bias, f |-> 0]
            two == [s |-> 0, e |-> Bias - 1, f |-> 0]
<1>6. /\ one \in Values /\ ~ IsNaN(one) /\ Low(one) = Bias * I /\ Ref!Mag(one) = RefOne
      /\ two \in Values /\ ~ IsNaN(two) /\ Low(two) = (Bias - 1) * I /\ 2 * Ref!Mag(two) = RefOne
  <2>1. 0 \in {0, 1} /\ Bias \in {Bias - 1, Bias} /\ Bias - 1 \in {Bias - 1, Bias}
    OBVIOUS
  <2>. HIDE DEF one, two
  <2>2. /\ one \in Values /\ ~ IsNaN(one) /\ Low(one) = Bias * I /\ Ref!Mag(one) = RefOne
    BY <2>1, PowersOfTwo DEF one
  <2>3. two \in Values /\ ~ IsNaN(two) /\ Low(two) = (Bias - 1) * I /\ 2 * Ref!Mag(two) = RefOne
    BY <2>1, PowersOfTwo DEF two
  <2>. QED BY <2>2, <2>3
<1>. HIDE DEF one, two
<1>7. Low(v) = e * I + f
  BY DEF Low
<1>8. Low(v) < Low(one)
  <2>1. (Bias - e - 1) * I >= 0
    BY <1>1, Z3
  <2>. QED BY <1>1, <1>6, <1>7, <2>1, Z3
<1>9. Low(v) < Low(two) <=> e # Bias - 1
  <2>1. CASE e = Bias - 1
    <3>1. (Bias - 1) * I \in Int
      BY <1>1
    <3>. QED BY <1>1, <1>6, <1>7, <2>1, <3>1
  <2>2. CASE e # Bias - 1
    <3>1. (Bias - 1 - e - 1) * I >= 0
      BY <1>1, <2>2, Z3
    <3>. QED BY <1>1, <1>6, <1>7, <2>2, <3>1, Z3
  <2>. QED BY <2>1, <2>2
<1>10. Low(v) = Low(two) <=> e = Bias - 1 /\ f = 0
  <2>1. CASE e = Bias - 1
    <3>1. (Bias - 1) * I \in Int
      BY <1>1
    <3>. QED BY <1>1, <1>6, <1>7, <2>1, <3>1
  <2>2. CASE e # Bias - 1
    <3>1. Low(v) < Low(two)
      BY <1>9, <2>2
    <3>2. Low(v) \in Int
      BY <1>1, <1>7
    <3>. QED BY <2>2, <3>1, <3>2
  <2>. QED BY <2>1, <2>2
<1>. DEFINE lost == ~ IsZero(v)
            half == e = Bias - 1
            tie == e = Bias - 1 /\ f = 0
            Q == Ref!Mag(two)
<1>11. /\ M < RefOne
       /\ M < Q <=> ~ half
       /\ M = Q <=> tie
       /\ Q \in Nat /\ 2 * Q = RefOne
  <2>1. M < RefOne
    BY <1>1, <1>6, <1>8, WordOrder
  <2>2. M < Q <=> Low(v) < Low(two)
    BY <1>1, <1>6, WordOrder
  <2>3. (M = Q <=> Low(v) = Low(two)) /\ Q \in Nat
    BY <1>1, <1>6, WordOrder
  <2>. QED BY <1>6, <1>9, <1>10, <2>1, <2>2, <2>3
<1>12. lost <=> M # 0
  BY <1>1, ZeroMagnitude
<1>13. half <=> Unbiased(v) = -1
  BY <1>1
<1>14. HasFractionalPart(v) <=> lost
  <2>1. v.e # ExpMax /\ Unbiased(v) < FracBits /\ Unbiased(v) < 0
    BY <1>1, BiasFacts
  <2>. QED BY <2>1 DEF HasFractionalPart
<1>15. RoundAway(v) = (IF ~ lost THEN v ELSE IF half THEN Away(v) ELSE Toward(v))
  BY <1>1, <1>2, <1>3, <1>13, <1>14 DEF RoundAway
<1>16. Rint(v) = (IF ~ lost THEN v ELSE IF half /\ f # 0 THEN Away(v) ELSE Toward(v))
  BY <1>1, <1>2, <1>3, <1>13, <1>14 DEF Rint
<1>17. ~ lost => v = Toward(v) /\ ~ half
  <2>. SUFFICES ASSUME IsZero(v) PROVE v = Toward(v) /\ ~ half
    OBVIOUS
  <2>1. v = Toward(v)
    BY <1>2, ZeroIs
  <2>2. e = 0
    BY DEF IsZero
  <2>. QED BY <1>1, <2>1, <2>2
<1>. HIDE DEF M, Q
<1>18. CutOf(M, RefOne, 0, lost, half, tie)
  <2>. HIDE DEF lost, half, tie
  <2>1. 0 * RefOne = 0 /\ (0 + 1) * RefOne = RefOne /\ (2 * 0 + 1) * RefOne = RefOne
    BY <1>1
  <2>. QED BY <1>1, <1>11, <1>12, <2>1 DEF CutOf
<1>19. Entries(v, 0, lost, half, tie)
  <2>1. RoundAway(v) = (IF half THEN Away(v) ELSE Toward(v))
    BY <1>15, <1>17
  <2>2. Rint(v) = (IF half /\ (~ tie \/ 0 % 2 = 1) THEN Away(v) ELSE Toward(v))
    <3>1. 0 % 2 # 1
      OBVIOUS
    <3>. QED BY <1>16, <1>17, <3>1
  <2>. HIDE DEF lost, half, tie
  <2>. QED BY <1>4, <1>5, <1>14, <2>1, <2>2 DEF Entries
<1>20. lost \in BOOLEAN /\ half \in BOOLEAN /\ tie \in BOOLEAN /\ 0 \in Nat
  BY DEF IsZero
<1>. HIDE DEF lost, half, tie
<1>. QED BY <1>18, <1>19, <1>20 DEF Cut, M

(* Where every number is an integer.                                       *)
LEMMA CutAbove ==
  ASSUME NEW v \in Values, v.e < ExpMax, Unbiased(v) >= FracBits
  PROVE  Cut(v)
<1>. DEFINE e == v.e
            d == e - (FracBits + Bias)
            m == ImplicitBit + v.f
            k == m * Pow2[d]
            M == Ref!Mag(v)
<1>1. /\ e \in Nat /\ v.f \in Nat /\ ImplicitBit \in Nat /\ m \in Nat /\ e # 0 /\ e # ExpMax
      /\ Bias \in Nat /\ FracBits \in Nat /\ MaxShift \in Nat
      /\ FracBits + Bias - 1 \in Nat /\ d \in Nat
      /\ (FracBits + Bias - 1) + d = e - 1 /\ e - 1 <= MaxShift /\ d <= MaxShift
  BY BiasFacts, Fields DEF Values, Unbiased
<1>2. M = m * Unit(e)
  <2>1. M = Whole(v) * Unit(Binade(e))
    BY ValueAt
  <2>2. Whole(v) = m /\ Binade(e) = e
    BY <1>1 DEF Whole, Binade
  <2>. QED BY <2>1, <2>2
<1>3. Unit(e) = RefOne * Pow2[d]
  <2>. DEFINE p == FracBits + Bias - 1
  <2>1. p \in Nat /\ p + d = e - 1 /\ p + d <= MaxShift
    BY <1>1
  <2>. HIDE DEF p, d
  <2>2. Pow2[p + d] = Pow2[p] * Pow2[d]
    BY <1>1, <2>1, Pow2Sum
  <2>3. RefOne = Pow2[p]
    BY BiasFacts DEF p
  <2>. QED BY <2>1, <2>2, <2>3 DEF Unit
<1>4. Pow2[d] \in Nat /\ RefOne \in Nat /\ RefOne >= 1
  <2>1. d \in 0..MaxShift
    BY <1>1
  <2>. QED BY <2>1, Pow2Positive, BiasFacts
<1>. HIDE DEF m, d, M
<1>5. M = k * RefOne /\ k \in Nat
  <2>1. m * (RefOne * Pow2[d]) = (m * Pow2[d]) * RefOne
    BY <1>1, <1>4, Z3
  <2>2. k \in Nat
    BY <1>1, <1>4
  <2>. QED BY <1>2, <1>3, <2>1, <2>2
<1>. HIDE DEF k
<1>6. CutOf(M, RefOne, k, FALSE, FALSE, FALSE)
  <2>. DEFINE K == k * RefOne
  <2>1. K \in Nat /\ (k + 1) * RefOne = K + RefOne /\ (2 * k + 1) * RefOne = 2 * K + RefOne
    BY <1>4, <1>5, Z3
  <2>2. M = K
    BY <1>5
  <2>. HIDE DEF K
  <2>3. /\ K <= M /\ M < K + RefOne /\ ~ (M # K)
        /\ ~ (2 * M >= 2 * K + RefOne) /\ ~ (2 * M = 2 * K + RefOne)
    BY <1>4, <2>1, <2>2
  <2>4. /\ k * RefOne <= M /\ M < (k + 1) * RefOne /\ ~ (M # k * RefOne)
        /\ ~ (2 * M >= (2 * k + 1) * RefOne) /\ ~ (2 * M = (2 * k + 1) * RefOne)
    BY <2>1, <2>3 DEF K
  <2>. QED BY <1>5, <2>4, Zenon DEF CutOf
<1>7. Toward(v) = v
  BY DEF Toward, TruncBits
<1>8. ~ HasFractionalPart(v)
  <2>1. ~ (Unbiased(v) < FracBits)
    BY <1>1 DEF Unbiased
  <2>. QED BY <2>1 DEF HasFractionalPart
<1>9. RoundAway(v) = v /\ Rint(v) = v
  BY <1>8 DEF RoundAway, Rint
<1>10. IntegerAt(v, v.s, k)
  BY <1>5 DEF IntegerAt, M
<1>11. Entries(v, k, FALSE, FALSE, FALSE)
  BY <1>7, <1>8, <1>9, <1>10, Zenon DEF Entries
<1>. QED BY <1>5, <1>6, <1>11 DEF Cut, M

LEMMA EveryCut ==
  ASSUME NEW v \in Values, v.e < ExpMax
  PROVE  Cut(v)
<1>1. Unbiased(v) \in Int /\ FracBits \in Nat
  BY BiasFacts, Fields DEF Unbiased, Values
<1>. QED BY <1>1, CutBelow, CutWithin, CutAbove

(* Each entry goes up exactly when its direction says so.                  *)
LEMMA RintInModeIs ==
  ASSUME NEW v \in Values, v.e < ExpMax, NEW mode \in Modes
  PROVE  /\ RintInMode(mode, v).s = v.s /\ RintInMode(mode, v).e < ExpMax
         /\ RintInMode(mode, v) \in Values
         /\ Ref!Mag(RintInMode(mode, v)) = Integral(mode, v)
<1>1. PICK k \in Nat, lost \in BOOLEAN, half \in BOOLEAN, tie \in BOOLEAN :
         /\ CutOf(Ref!Mag(v), RefOne, k, lost, half, tie)
         /\ Entries(v, k, lost, half, tie)
  BY EveryCut DEF Cut
<1>. DEFINE M == Ref!Mag(v)
            s == v.s
            up == Upwards(s, k, lost, half, tie, mode)
<1>2. s \in {0, 1} /\ M \in Nat /\ RefOne \in Nat /\ RefOne >= 1
  BY FiniteClasses, BiasFacts
<1>3. half => lost
  <2>. DEFINE K == k * RefOne
  <2>1. K \in Nat /\ (2 * k + 1) * RefOne = 2 * K + RefOne
    BY <1>2, Z3
  <2>2. (lost <=> M # K) /\ (half <=> 2 * M >= 2 * K + RefOne)
    BY <1>1, <2>1 DEF CutOf
  <2>. HIDE DEF K, M
  <2>. QED BY <1>2, <2>1, <2>2
<1>4. RintInMode(mode, v) = (IF up THEN Away(v) ELSE Toward(v))
  <2>1. /\ HasFractionalPart(v) <=> lost
        /\ RoundAway(v) = (IF half THEN Away(v) ELSE Toward(v))
        /\ Rint(v) = (IF half /\ (~ tie \/ k % 2 = 1) THEN Away(v) ELSE Toward(v))
    BY <1>1 DEF Entries
  <2>2. CASE mode = "RTZ"
    BY <2>2 DEF RintInMode, Upwards, Toward
  <2>3. CASE mode = "RUP"
    <3>1. RintInMode(mode, v) = Ceil(v)
      BY <2>3 DEF RintInMode
    <3>2. up <=> s = 0 /\ lost
      BY <2>3 DEF Upwards
    <3>3. Ceil(v) = (IF lost /\ s = 0 THEN Away(v) ELSE Toward(v))
      BY <2>1 DEF Ceil, Away, Toward
    <3>. QED BY <3>1, <3>2, <3>3
  <2>4. CASE mode = "RDN"
    <3>1. RintInMode(mode, v) = Floor(v)
      BY <2>4 DEF RintInMode
    <3>2. up <=> s = 1 /\ lost
      BY <2>4 DEF Upwards
    <3>3. Floor(v) = (IF lost /\ s = 1 THEN Away(v) ELSE Toward(v))
      BY <2>1 DEF Floor, Away, Toward
    <3>. QED BY <3>1, <3>2, <3>3
  <2>5. CASE mode = "RNA"
    BY <2>1, <2>5 DEF RintInMode, Upwards
  <2>6. CASE mode = "RNE"
    BY <2>1, <2>6 DEF RintInMode, Upwards
  <2>. QED BY <2>2, <2>3, <2>4, <2>5, <2>6 DEF Modes
<1>5. up => lost
  BY <1>3 DEF Upwards, Modes
<1>6. Ref!NearestInteger(s, M, RefOne, mode) = (IF up THEN k + 1 ELSE k)
  <2>1. k * RefOne <= M /\ M < (k + 1) * RefOne
    BY <1>1 DEF CutOf
  <2>2. /\ lost <=> M # k * RefOne
        /\ half <=> 2 * M >= (2 * k + 1) * RefOne
        /\ tie <=> 2 * M = (2 * k + 1) * RefOne
    BY <1>1 DEF CutOf
  <2>. DEFINE vp == Upwards(s, k, M # k * RefOne, 2 * M >= (2 * k + 1) * RefOne,
                            2 * M = (2 * k + 1) * RefOne, mode)
  <2>3. Ref!NearestInteger(s, M, RefOne, mode) = (IF vp THEN k + 1 ELSE k)
    <3>. HIDE DEF M
    <3>. QED BY <1>2, <2>1, NearestAt
  <2>4. vp <=> up
    <3>. DEFINE l == M # k * RefOne
                h == 2 * M >= (2 * k + 1) * RefOne
                c == 2 * M = (2 * k + 1) * RefOne
    <3>1. (lost <=> l) /\ (half <=> h) /\ (tie <=> c)
      BY <2>2
    <3>. HIDE DEF l, h, c
    <3>2. Upwards(s, k, l, h, c, mode) <=> Upwards(s, k, lost, half, tie, mode)
      BY <3>1 DEF Upwards, Modes
    <3>. QED BY <3>2 DEF l, h, c
  <2>. HIDE DEF vp, up
  <2>. QED BY <2>3, <2>4
<1>7. Integral(mode, v) = (IF up THEN k + 1 ELSE k) * RefOne
  BY <1>6 DEF Integral
<1>8. IntegerAt(Toward(v), s, k) /\ (lost => IntegerAt(Away(v), s, k + 1))
  BY <1>1 DEF Entries
<1>. HIDE DEF up
<1>9. CASE up
  <2>1. RintInMode(mode, v) = Away(v) /\ IntegerAt(Away(v), s, k + 1)
    BY <1>4, <1>5, <1>8, <1>9
  <2>. QED BY <1>7, <1>9, <2>1 DEF IntegerAt
<1>10. CASE ~ up
  <2>1. RintInMode(mode, v) = Toward(v) /\ IntegerAt(Toward(v), s, k)
    BY <1>4, <1>8, <1>10
  <2>. QED BY <1>7, <1>10, <2>1 DEF IntegerAt
<1>. QED BY <1>9, <1>10

---------------------------------------------------------------------------
(* modf and fract: the difference of a value and an integral value.        *)
LEMMA Representable ==
  ASSUME NEW s \in {0, 1}, NEW e \in 1..(ExpMax - 1), NEW r \in Nat, r < 2 * ImplicitBit
  PROVE  \E w \in Values : w.s = s /\ w.e < ExpMax /\ Ref!Mag(w) = r * Unit(e)
<1>. DEFINE I == ImplicitBit
            Found(d, n) == \E w \in Values : w.s = s /\ w.e < ExpMax /\ Ref!Mag(w) = n * Unit(d)
            T == {d \in 1..(ExpMax - 1) : \E n \in Nat : n < 2 * I /\ ~ Found(d, n)}
<1>1. I \in Nat /\ I >= 4 /\ ExpMax \in Nat
  BY Fields, GuardPowers
<1>2. SUFFICES T = {}
  OBVIOUS
<1>3. SUFFICES ASSUME T # {} PROVE FALSE
  OBVIOUS
<1>4. T \subseteq Nat
  OBVIOUS
<1>. HIDE DEF T
<1>5. PICK d \in T : \A y \in T : d <= y
  BY <1>3, <1>4, Least
<1>. HIDE DEF Found
<1>6. PICK n \in Nat : d \in 1..(ExpMax - 1) /\ n < 2 * I /\ ~ Found(d, n)
  BY <1>5 DEF T
<1>7. CASE d = 1 \/ I <= n
  <2>. DEFINE l == IndexOf(d, n)
              w == WithLow(s, l)
  <2>1. InBinade(d, n)
    BY <1>1, <1>6, <1>7 DEF InBinade
  <2>2. l \in 0..(ExpMax * I) /\ Ref!Magnitude[l] = n * Unit(d)
    BY <1>6, <2>1, MagnitudeAt
  <2>3. l < ExpMax * I
    <3>1. l = (d - 1) * I + n
      BY DEF IndexOf
    <3>2. (ExpMax - 1 - d) * I >= 0
      BY <1>1, <1>6, Z3
    <3>. HIDE DEF l
    <3>. QED BY <1>1, <1>6, <3>1, <3>2, Z3
  <2>. HIDE DEF l
  <2>4. l \in 0..LastWord /\ l \in Nat
    <3>1. ExpMax * I \in Nat
      BY <1>1
    <3>2. LastWord = ExpMax * I + (I - 1)
      BY DEF LastWord
    <3>. QED BY <1>1, <2>2, <3>1, <3>2
  <2>5. w \in Values /\ Low(w) = l /\ w.s = s /\ w.e = l \div I
    BY <2>4, WordFields
  <2>6. w.e < ExpMax
    <3>. DEFINE q == l \div I
    <3>1. q \in Nat /\ l = q * I + (l % I) /\ (l % I) \in Nat
      BY <1>1, <2>4, Split
    <3>. HIDE DEF q
    <3>2. q < ExpMax
      <4>1. SUFFICES ASSUME q >= ExpMax PROVE FALSE
        BY <1>1, <3>1
      <4>2. (q - ExpMax) * I >= 0
        BY <1>1, <3>1, <4>1, Z3
      <4>3. q * I >= ExpMax * I
        BY <1>1, <3>1, <4>2, Z3
      <4>4. q * I \in Int /\ ExpMax * I \in Int
        BY <1>1, <3>1
      <4>. QED BY <2>3, <2>4, <3>1, <4>3, <4>4
    <3>. QED BY <2>5, <3>2 DEF q
  <2>7. ~ IsNaN(w)
    BY <2>5, <2>6, FiniteClasses
  <2>8. Ref!Mag(w) = n * Unit(d)
    BY <2>2, <2>5, <2>7, WordIndex
  <2>. QED BY <1>6, <2>5, <2>6, <2>8 DEF Found
<1>8. CASE d # 1 /\ ~ (I <= n)
  <2>1. d - 1 \in 1..(ExpMax - 1) /\ d - 1 < d /\ (d - 1) + 1 = d /\ d - 1 \in 1..ExpMax
        /\ d - 1 < ExpMax
    BY <1>1, <1>6, <1>8
  <2>2. d - 1 \notin T
    <3>1. d \in Int
      BY <1>6
    <3>. QED BY <1>5, <2>1, <3>1
  <2>3. 2 * n \in Nat /\ 2 * n < 2 * I
    BY <1>1, <1>8
  <2>4. Found(d - 1, 2 * n)
    BY <2>1, <2>2, <2>3 DEF T
  <2>5. Unit(d) = 2 * Unit(d - 1) /\ Unit(d - 1) \in Nat
    <3>. DEFINE g == d - 1
    <3>1. g \in 1..ExpMax /\ g < ExpMax /\ g + 1 = d
      BY <2>1
    <3>. HIDE DEF g
    <3>2. Unit(g + 1) = 2 * Unit(g) /\ Unit(g) \in Nat
      BY <3>1, UnitFacts
    <3>. QED BY <3>1, <3>2 DEF g
  <2>6. (2 * n) * Unit(d - 1) = n * Unit(d)
    BY <2>5, Z3
  <2>. QED BY <1>6, <2>4, <2>6 DEF Found
<1>. QED BY <1>7, <1>8

LEMMA NegatedFacts ==
  ASSUME NEW b \in Values, b.e < ExpMax
  PROVE  /\ Neg(b) \in Values /\ Neg(b).e < ExpMax /\ Neg(b).s = 1 - b.s
         /\ Ref!Signed(Neg(b)) = -Ref!Signed(b)
<1>1. Neg(b).e = b.e /\ Neg(b).f = b.f /\ Neg(b).s = 1 - b.s /\ Neg(b) \in Values
  BY SpecialResults DEF Neg, Values
<1>2. Ref!Mag(Neg(b)) = Ref!Mag(b)
  BY <1>1 DEF Ref!Mag
<1>3. Ref!Mag(b) \in Nat /\ b.s \in {0, 1}
  BY FiniteClasses
<1>. DEFINE m == Ref!Mag(b)
<1>4. Ref!Signed(b) = (IF b.s = 0 THEN m ELSE -m)
      /\ Ref!Signed(Neg(b)) = (IF 1 - b.s = 0 THEN m ELSE -m)
  BY <1>1, <1>2 DEF Ref!Signed
<1>. HIDE DEF m
<1>5. m \in Nat
  BY <1>3 DEF m
<1>. QED BY <1>1, <1>3, <1>4, <1>5

(* A difference by its exact value.                                        *)
LEMMA DifferenceByValue ==
  ASSUME NEW a \in Values, a.e < ExpMax, NEW b \in Values, b.e < ExpMax, b.s = a.s,
         NEW x, x + Ref!Signed(b) = Ref!Signed(a), x \in Int
  PROVE  Subtract(a, b) = IF x = 0 THEN [res |-> SignedZero(0), fe |-> {}]
                          ELSE Ref!RoundInteger(x, "RNE")
<1>1. /\ Neg(b) \in Values /\ Neg(b).e < ExpMax /\ Neg(b).s = 1 - b.s
      /\ Ref!Signed(Neg(b)) = -Ref!Signed(b)
  BY NegatedFacts
<1>2. ~ IsNaN(a) /\ ~ IsNaN(b) /\ Ref!Signed(a) \in Int /\ Ref!Signed(b) \in Int /\ a.s \in {0, 1}
  BY FiniteClasses
<1>3. Subtract(a, b) = Ref!Add(a, Neg(b), "RNE")
  BY <1>2, SubtractIs
<1>4. x = Ref!Signed(a) + Ref!Signed(Neg(b))
  BY <1>1, <1>2
<1>5. a.s # Neg(b).s
  BY <1>1, <1>2
<1>6. x = 0 => Ref!Add(a, Neg(b), "RNE") = [res |-> SignedZero(0), fe |-> {}]
  BY <1>1, <1>4, <1>5, FiniteSum
<1>7. x # 0 => Ref!Add(a, Neg(b), "RNE") = Ref!RoundInteger(x, "RNE")
  BY <1>1, <1>4, FiniteSum
<1>. QED BY <1>3, <1>6, <1>7

(* What truncation leaves is a value of the format.                        *)
LEMMA RestRepresentable ==
  ASSUME NEW v \in Values, v.e < ExpMax
  PROVE  \E w \in Values : /\ w.s = v.s /\ w.e < ExpMax
                           /\ Ref!Mag(w) + Integral("RTZ", v) = Ref!Mag(v)
<1>1. /\ TruncBits(v) = RintInMode("RTZ", v)
      /\ Ref!Mag(TruncBits(v)) = Integral("RTZ", v)
      /\ v.s \in {0, 1} /\ Ref!Mag(v) \in Nat
  BY RintInModeIs, FiniteClasses DEF Modes, RintInMode
<1>. DEFINE u == Unbiased(v)
<1>2. u \in Int /\ FracBits \in Nat /\ v.e # ExpMax /\ ExpMax \in Nat
  BY BiasFacts, Fields DEF Unbiased, Values
<1>3. CASE u < 0
  <2>1. ~ (u >= FracBits)
    BY <1>2, <1>3
  <2>2. TruncBits(v) = SignedZero(v.s)
    BY <1>2, <1>3, <2>1 DEF TruncBits
  <2>3. SignedZero(v.s) \in Values /\ SignedZero(v.s).e < ExpMax /\ IsZero(SignedZero(v.s))
    BY <1>1, SpecialResults, BiasFacts DEF SignedZero, IsZero
  <2>4. Ref!Mag(SignedZero(v.s)) = 0
    BY <2>3, FiniteClasses, ZeroMagnitude
  <2>5. Ref!Mag(v) + Integral("RTZ", v) = Ref!Mag(v)
    BY <1>1, <2>2, <2>4
  <2>. QED BY <2>5
<1>4. CASE u >= FracBits
  <2>1. TruncBits(v) = v
    BY <1>4 DEF TruncBits
  <2>2. SignedZero(v.s) \in Values /\ SignedZero(v.s).e < ExpMax /\ IsZero(SignedZero(v.s))
        /\ SignedZero(v.s).s = v.s
    BY <1>1, SpecialResults, BiasFacts DEF SignedZero, IsZero
  <2>3. Ref!Mag(SignedZero(v.s)) = 0
    BY <2>2, FiniteClasses, ZeroMagnitude
  <2>4. Ref!Mag(SignedZero(v.s)) + Integral("RTZ", v) = Ref!Mag(v)
    BY <1>1, <2>1, <2>3
  <2>. QED BY <2>2, <2>4
<1>5. CASE 0 <= u /\ u < FracBits
  <2>. DEFINE T == OneUlp(v)
              H == Pow2[FracBits - u - 1]
              U == Unit(v.e)
              P == Pow2[u]
              f == v.f
              q == f \div T
              r == f % T
  <2>1. UlpsOf(v, u, T, H, U, P) /\ v.e \in 1..(ExpMax - 1)
    BY <1>5, UlpFacts
  <2>2. IntegerAt(Toward(v), v.s, P + q)
    BY <1>5, TowardIs
  <2>3. f \in Nat /\ f < ImplicitBit /\ ImplicitBit \in Nat
    BY Fields DEF Values
  <2>. HIDE DEF T, H, U, P, f, u
  <2>4. /\ T \in Nat /\ H \in Nat /\ U \in Nat /\ P \in Nat
        /\ H >= 1 /\ P >= 1 /\ T = 2 * H /\ ImplicitBit = P * T /\ RefOne = T * U
        /\ Ref!Mag(v) = (P * T + f) * U
    BY <2>1 DEF UlpsOf, f
  <2>5. T >= 1 /\ f < P * T /\ f \in Nat /\ T \in Nat /\ P \in Nat
    BY <2>3, <2>4
  <2>6. q \in Nat /\ r \in Nat /\ r < T /\ f = q * T + r /\ q + 1 <= P
    BY <2>5, FractionParts
  <2>7. Integral("RTZ", v) = (P + q) * (T * U)
    BY <1>1, <2>2, <2>4 DEF IntegerAt, Toward
  <2>. HIDE DEF q, r
  <2>8. r * U + (P + q) * (T * U) = (P * T + f) * U
    <3>1. r * U + (P + q) * (T * U) = (P * T + (q * T + r)) * U
      BY <2>4, <2>6, Z3
    <3>. QED BY <2>6, <3>1
  <2>9. r < 2 * ImplicitBit
    <3>1. (P - 1) * T >= 0
      BY <2>4, Z3
    <3>2. T <= P * T
      BY <2>4, <3>1, Z3
    <3>. QED BY <2>3, <2>4, <2>6, <3>2
  <2>10. PICK w \in Values : w.s = v.s /\ w.e < ExpMax /\ Ref!Mag(w) = r * U
    BY <1>1, <2>1, <2>6, <2>9, Representable DEF U
  <2>. QED BY <2>4, <2>7, <2>8, <2>10
<1>. QED BY <1>2, <1>3, <1>4, <1>5

LEMMA ModfIs ==
  ASSUME NEW v \in Values, v.e < ExpMax
  PROVE  LET r == Modf(v)
         IN  /\ r.res.s = v.s /\ r.part.s = v.s /\ r.fe = {}
             /\ Ref!Mag(r.part) = Integral("RTZ", v)
             /\ Ref!Mag(r.res) + Ref!Mag(r.part) = Ref!Mag(v)
<1>. DEFINE t == TruncBits(v)
            M == Ref!Mag(v)
            N == Integral("RTZ", v)
            r == Subtract(v, t)
<1>1. ~ IsNaN(v) /\ ~ IsInf(v) /\ v.s \in {0, 1} /\ M \in Nat
  BY FiniteClasses
<1>2. t \in Values /\ t.s = v.s /\ t.e < ExpMax /\ Ref!Mag(t) = N
  BY RintInModeIs DEF Modes, RintInMode
<1>3. N \in Nat
  BY <1>2, FiniteClasses
<1>4. PICK w \in Values : w.s = v.s /\ w.e < ExpMax /\ Ref!Mag(w) + N = M
  BY RestRepresentable
<1>. DEFINE x == Ref!Signed(w)
<1>5. ~ IsNaN(w) /\ Ref!Mag(w) \in Nat /\ x \in Int
  BY <1>4, FiniteClasses
<1>6. x + Ref!Signed(t) = Ref!Signed(v)
  <2>. DEFINE W == Ref!Mag(w)
  <2>1. /\ x = (IF v.s = 0 THEN W ELSE -W)
        /\ Ref!Signed(t) = (IF v.s = 0 THEN N ELSE -N)
        /\ Ref!Signed(v) = (IF v.s = 0 THEN M ELSE -M)
    BY <1>2, <1>4 DEF Ref!Signed
  <2>. HIDE DEF W, N, M, x
  <2>2. W \in Nat /\ W + N = M
    BY <1>4, <1>5 DEF W
  <2>. QED BY <1>1, <1>3, <2>1, <2>2
<1>7. r = IF x = 0 THEN [res |-> SignedZero(0), fe |-> {}] ELSE Ref!RoundInteger(x, "RNE")
  BY <1>2, <1>5, <1>6, DifferenceByValue
<1>. DEFINE y == IF IsZero(r.res) THEN SignedZero(v.s) ELSE r.res
<1>8. Modf(v) = [res |-> y, part |-> t, fe |-> r.fe]
  BY <1>1 DEF Modf
<1>9. r.fe = {} /\ y.s = v.s /\ Ref!Mag(y) = Ref!Mag(w)
  <2>1. CASE IsZero(w)
    <3>1. x = 0
      BY <1>4, <2>1, SignedFacts
    <3>2. r.fe = {} /\ r.res = SignedZero(0)
      BY <1>7, <3>1
    <3>3. IsZero(SignedZero(0))
      BY DEF IsZero, SignedZero
    <3>4. y = SignedZero(v.s)
      BY <3>2, <3>3
    <3>5. w = SignedZero(v.s)
      BY <1>4, <2>1, ZeroIs
    <3>. QED BY <1>4, <3>2, <3>4, <3>5
  <2>2. CASE ~ IsZero(w)
    <3>1. x # 0 /\ Ref!RoundInteger(x, "RNE") = [res |-> w, fe |-> {}]
      BY <1>4, <2>2, RoundedToItself
    <3>2. r = [res |-> w, fe |-> {}]
      BY <1>7, <3>1
    <3>3. y = w
      BY <2>2, <3>2
    <3>. QED BY <1>4, <3>2, <3>3
  <2>. QED BY <2>1, <2>2
<1>. HIDE DEF y, r, t, N, M
<1>. QED BY <1>2, <1>4, <1>8, <1>9 DEF N, M

(* A positive number never rounds to -0.                                   *)
LEMMA PositiveRounds ==
  ASSUME NEW n, NEW r, r = Ref!Round(0, n, 1, "RNE")
  PROVE  IsOutcome(r) /\ (IsZero(r.res) => r.res = SignedZero(0))
<1>1. IsOutcome(r)
  BY RoundOutcome
<1>2. \/ r.res = SignedInf(0) \/ r.res = MaxFinite(0)
      \/ \E j : r.res = Ref!OfIndex(0, j)
  <2>1. r = Ref!Overflows(0, "RNE") \/ \E j, flags : r = Ref!Result(Ref!OfIndex(0, j), flags)
    BY Zenon DEF Ref!Round
  <2>2. Ref!Overflows(0, "RNE").res \in {SignedInf(0), MaxFinite(0)}
    BY SameFormat DEF Ref!Overflows, Ref!Result, Ref!OverflowTo
  <2>3. \A j, flags : Ref!Result(Ref!OfIndex(0, j), flags).res = Ref!OfIndex(0, j)
    BY DEF Ref!Result
  <2>. QED BY <2>1, <2>2, <2>3
<1>3. CASE r.res = SignedInf(0) \/ r.res = MaxFinite(0)
  <2>1. ~ IsZero(SignedInf(0)) /\ ~ IsZero(MaxFinite(0))
    BY Fields DEF IsZero, SignedInf, MaxFinite
  <2>. QED BY <1>1, <1>3, <2>1
<1>4. CASE \E j : r.res = Ref!OfIndex(0, j)
  <2>1. PICK j : r.res = Ref!OfIndex(0, j)
    BY <1>4
  <2>2. IsZero(r.res) => r.res = SignedZero(0)
    BY <2>1 DEF Ref!OfIndex, IsZero, SignedZero
  <2>. QED BY <1>1, <2>2
<1>. QED BY <1>2, <1>3, <1>4

LEMMA JoinInt ==
  ASSUME NEW k \in Int, NEW r \in Nat, NEW d \in Nat, r < d
  PROVE  (k * d + r) % d = r
OBVIOUS

LEMMA SplitInt ==
  ASSUME NEW x \in Int, NEW d \in Nat, d >= 1
  PROVE  /\ (x \div d) \in Int /\ (x % d) \in Nat /\ (x % d) < d
         /\ x = (x \div d) * d + (x % d)
OBVIOUS

(* The greatest integral value not above the operand leaves the remainder. *)
LEMMA FloorLeaves ==
  ASSUME NEW v \in Values, v.e < ExpMax, NEW t, t = Floor(v)
  PROVE  /\ t \in Values /\ t.e < ExpMax /\ t.s = v.s
         /\ Ref!Signed(v) % RefOne \in Nat
         /\ (Ref!Signed(v) % RefOne) + Ref!Signed(t) = Ref!Signed(v)
<1>. DEFINE M == Ref!Mag(v)
            R == RefOne
            n == M \div R
            c == M % R
            N == Ref!NearestInteger(v.s, M, R, "RDN")
            up == v.s = 1 /\ c > 0
<1>1. t \in Values /\ t.s = v.s /\ t.e < ExpMax /\ Ref!Mag(t) = N * R
  <2>1. t = RintInMode("RDN", v)
    BY DEF RintInMode
  <2>. HIDE DEF Values
  <2>2. "RDN" \in Modes
    BY DEF Modes
  <2>3. /\ RintInMode("RDN", v).s = v.s /\ RintInMode("RDN", v).e < ExpMax
        /\ RintInMode("RDN", v) \in Values
        /\ Ref!Mag(RintInMode("RDN", v)) = Integral("RDN", v)
    BY <2>2, RintInModeIs
  <2>. QED BY <2>1, <2>3 DEF Integral
<1>2. v.s \in {0, 1} /\ M \in Nat /\ R \in Nat /\ R >= 1
  BY FiniteClasses, BiasFacts
<1>3. N = (IF up THEN n + 1 ELSE n)
  <2>1. (c > 0 /\ v.s = 1) <=> up
    OBVIOUS
  <2>. QED BY <2>1 DEF Ref!NearestInteger
<1>4. n \in Nat /\ c \in Nat /\ c < R /\ M = n * R + c
  BY <1>2, Split
<1>5. /\ Ref!Signed(v) = (IF v.s = 0 THEN M ELSE -M)
      /\ Ref!Signed(t) = (IF v.s = 0 THEN N * R ELSE -(N * R))
  BY <1>1 DEF Ref!Signed
<1>. HIDE DEF M, R, n, c, N
<1>6. CASE v.s = 0
  <2>1. N = n
    BY <1>3, <1>6
  <2>2. (n * R + c) % R = c
    BY <1>2, <1>4, Join
  <2>3. Ref!Signed(v) % R = c
    BY <1>4, <1>5, <1>6, <2>2
  <2>4. c + n * R = n * R + c
    BY <1>2, <1>4, Z3
  <2>. QED BY <1>1, <1>4, <1>5, <1>6, <2>1, <2>3, <2>4 DEF R
<1>7. CASE v.s = 1 /\ c = 0
  <2>1. N = n
    BY <1>3, <1>4, <1>7
  <2>2. -M = (-n) * R + 0
    BY <1>2, <1>4, <1>7, Z3
  <2>3. ((-n) * R + 0) % R = 0
    BY <1>2, <1>4, JoinInt
  <2>4. Ref!Signed(v) % R = 0
    BY <1>5, <1>7, <2>2, <2>3
  <2>5. 0 + -(n * R) = -M
    BY <1>2, <1>4, <1>7, Z3
  <2>. QED BY <1>1, <1>4, <1>5, <1>7, <2>1, <2>4, <2>5 DEF R
<1>8. CASE v.s = 1 /\ c > 0
  <2>1. N = n + 1
    BY <1>3, <1>8
  <2>. DEFINE k == -(n + 1)
              d == R - c
  <2>2. k \in Int /\ d \in Nat /\ d < R
    BY <1>2, <1>4, <1>8
  <2>3. -M = k * R + d
    BY <1>2, <1>4, Z3
  <2>. HIDE DEF k, d
  <2>4. (k * R + d) % R = d
    BY <1>2, <2>2, JoinInt
  <2>5. Ref!Signed(v) % R = d
    BY <1>5, <1>8, <2>3, <2>4
  <2>6. d + -((n + 1) * R) = -M
    BY <1>2, <1>4, Z3 DEF d
  <2>. QED BY <1>1, <1>5, <1>8, <2>1, <2>2, <2>5, <2>6 DEF R
<1>. QED BY <1>2, <1>4, <1>6, <1>7, <1>8

LEMMA FractIs ==
  ASSUME NEW v \in Values, v.e < ExpMax
  PROVE  [res |-> Fract(v).res, fe |-> Fract(v).fe] =
           LET rest == Ref!Signed(v) % RefOne
           IN  IF rest = 0 THEN [res |-> SignedZero(0), fe |-> {}]
               ELSE Ref!Round(0, rest, 1, "RNE")
<1>. DEFINE t == Floor(v)
            x == Ref!Signed(v) % RefOne
            r == Subtract(v, t)
<1>1. /\ t \in Values /\ t.e < ExpMax /\ t.s = v.s /\ x \in Nat
      /\ x + Ref!Signed(t) = Ref!Signed(v)
  BY FloorLeaves
<1>2. /\ ~ IsNaN(v) /\ ~ IsInf(v) /\ ~ IsNaN(t) /\ v.s \in {0, 1}
      /\ Ref!Signed(v) \in Int /\ Ref!Signed(t) \in Int
      /\ Ref!Mag(v) \in Nat /\ Ref!Mag(t) \in Nat
  BY <1>1, FiniteClasses
<1>3. Fract(v) = IF t = v THEN [res |-> SignedZero(0), fe |-> {}]
                 ELSE [r EXCEPT !.res = IF IsZero(@) THEN SignedZero(0) ELSE @]
  BY <1>2 DEF Fract, Quietly
<1>4. r = IF x = 0 THEN [res |-> SignedZero(0), fe |-> {}] ELSE Ref!RoundInteger(x, "RNE")
  BY <1>1, DifferenceByValue
<1>. HIDE DEF x, r, t
<1>5. CASE x = 0
  <2>1. Ref!Signed(t) = Ref!Signed(v)
    BY <1>1, <1>2, <1>5
  <2>2. Ref!Mag(t) = Ref!Mag(v)
    BY <1>1, <1>2, <2>1 DEF Ref!Signed
  <2>3. Low(t) = Low(v)
    BY <1>1, <1>2, <2>2, WordOrder
  <2>4. t = v
    BY <1>1, <2>3, SameWord
  <2>. QED BY <1>3, <1>5, <2>4 DEF x
<1>6. CASE x # 0
  <2>1. t # v
    <3>1. SUFFICES ASSUME t = v PROVE FALSE
      OBVIOUS
    <3>2. x + Ref!Signed(v) = Ref!Signed(v)
      BY <1>1, <3>1
    <3>. QED BY <1>1, <1>2, <1>6, <3>2
  <2>2. x >= 1 /\ x = (IF 0 = 0 THEN x ELSE -x)
    BY <1>1, <1>6
  <2>3. Ref!RoundInteger(x, "RNE") = Ref!Round(0, x, 1, "RNE")
    BY <1>1, <2>2, IntegerRounds
  <2>4. r = Ref!Round(0, x, 1, "RNE")
    BY <1>4, <1>6, <2>3
  <2>5. r = [res |-> r.res, fe |-> r.fe] /\ (IsZero(r.res) => r.res = SignedZero(0))
    BY <2>4, PositiveRounds DEF IsOutcome
  <2>6. Fract(v) = [r EXCEPT !.res = IF IsZero(@) THEN SignedZero(0) ELSE @]
    BY <1>3, <2>1
  <2>. DEFINE y == IF IsZero(r.res) THEN SignedZero(0) ELSE r.res
  <2>7. y = r.res
    BY <2>5
  <2>8. Fract(v) = [r EXCEPT !.res = y]
    BY <2>6
  <2>. HIDE DEF y
  <2>9. Fract(v).res = r.res /\ Fract(v).fe = r.fe
    BY <2>5, <2>7, <2>8
  <2>. QED BY <1>6, <2>4, <2>5, <2>9 DEF x
<1>. QED BY <1>5, <1>6

(* rounding.cpp, for every format and every operand: floor, ceil, trunc,   *)
(* round, rint and rint_r return the integral value next to the operand in *)
(* their direction, and its sign, and a NaN for a NaN; modf splits the     *)
(* operand exactly, without a flag; fract is x - floor(x) rounded once,    *)
(* where that is less than one, and raises nothing where that is exact.    *)
THEOREM CorrectIntegralAlways == Spec => []CorrectIntegral
<1>1. IInv => CorrectIntegral
  <2>. SUFFICES ASSUME IInv, pc = "done" PROVE CorrectIntegral
    BY DEF CorrectIntegral, Returned
  <2>. DEFINE v == call.v
              ops == {"floor", "ceil", "trunc", "round", "rint", "rint_r"}
  <2>1. IntegralsComputed
    BY DEF IInv, Computed
  <2>2. call.op \in ops \cup {"modf", "fract"} => v \in Values
    BY CallTypes DEF IInv
  <2>3. ASSUME call.op \in ops
        PROVE  IF IsNaN(v) THEN IsNaN(res)
               ELSE IF IsInf(v) THEN res = v
               ELSE /\ res.s = v.s /\ res.e < ExpMax
                    /\ Ref!Mag(res) = Integral(ModeOf, v)
    <3>1. ModeOf \in Modes /\ res = RintInMode(ModeOf, v)
      <4>1. CASE call.op = "rint_r"
        <5>1. ModeOf = call.mode /\ call.mode \in Modes
          BY <4>1, CallTypes DEF ModeOf, IInv
        <5>. QED BY <2>1, <4>1, <5>1 DEF IntegralsComputed
      <4>2. CASE call.op = "floor"
        BY <2>1, <4>2 DEF ModeOf, IntegralsComputed, RintInMode, Modes
      <4>3. CASE call.op = "ceil"
        BY <2>1, <4>3 DEF ModeOf, IntegralsComputed, RintInMode, Modes
      <4>4. CASE call.op = "trunc"
        BY <2>1, <4>4 DEF ModeOf, IntegralsComputed, RintInMode, Modes
      <4>5. CASE call.op = "round"
        BY <2>1, <4>5 DEF ModeOf, IntegralsComputed, RintInMode, Modes
      <4>6. CASE call.op = "rint"
        BY <2>1, <4>6 DEF ModeOf, IntegralsComputed, RintInMode, Modes
      <4>. QED BY <2>3, <4>1, <4>2, <4>3, <4>4, <4>5, <4>6
    <3>2. v \in Values
      BY <2>2, <2>3
    <3>. DEFINE mode == ModeOf
    <3>. HIDE DEF mode, v
    <3>3. CASE v.e = ExpMax
      <4>1. ~ HasFractionalPart(v) /\ TruncBits(v) = v
        BY <3>3 DEF HasFractionalPart, TruncBits
      <4>2. Floor(v) = v /\ Ceil(v) = v /\ RoundAway(v) = v /\ Rint(v) = v
        BY <3>3, <4>1, Zenon DEF Floor, Ceil, RoundAway, Rint
      <4>3. RintInMode(mode, v) = v
        BY <3>1, <4>1, <4>2 DEF RintInMode, Modes
      <4>4. IsNaN(v) \/ IsInf(v)
        BY <3>2, <3>3, Fields DEF IsNaN, IsInf
      <4>. QED BY <3>1, <4>3, <4>4 DEF mode
    <3>4. CASE v.e # ExpMax
      <4>1. v.e < ExpMax
        BY <3>2, <3>4, Fields DEF Values
      <4>2. /\ RintInMode(mode, v).s = v.s /\ RintInMode(mode, v).e < ExpMax
            /\ Ref!Mag(RintInMode(mode, v)) = Integral(mode, v)
        BY <3>1, <3>2, <4>1, RintInModeIs DEF mode
      <4>. QED BY <3>1, <3>4, <4>2 DEF mode, IsNaN, IsInf
    <3>. QED BY <3>3, <3>4 DEF v
  <2>4. ASSUME call.op = "modf", v.e < ExpMax
        PROVE  /\ res.s = v.s /\ part.s = v.s /\ fe = {}
               /\ Ref!Mag(part) = Integral("RTZ", v)
               /\ Ref!Mag(res) + Ref!Mag(part) = Ref!Mag(v)
    <3>1. res = Modf(v).res /\ part = Modf(v).part /\ fe = Modf(v).fe
      BY <2>1, <2>4 DEF IntegralsComputed
    <3>2. v \in Values
      BY <2>2, <2>4
    <3>. HIDE DEF v
    <3>. QED BY <2>4, <3>1, <3>2, ModfIs DEF v
  <2>5. ASSUME call.op = "fract", v.e < ExpMax
        PROVE  LET rest == Ref!Signed(v) % RefOne
                   once == IF rest = 0 THEN [res |-> SignedZero(0), fe |-> {}]
                           ELSE Ref!Round(0, rest, 1, "RNE")
               IN  /\ once.res # One(0) => res = once.res
                   /\ once.fe = {} => fe = {}
    <3>1. Outcome = [res |-> Fract(v).res, fe |-> Fract(v).fe]
      BY <2>1, <2>5 DEF IntegralsComputed
    <3>2. v \in Values
      BY <2>2, <2>5
    <3>. DEFINE rest == Ref!Signed(v) % RefOne
                once == IF rest = 0 THEN [res |-> SignedZero(0), fe |-> {}]
                        ELSE Ref!Round(0, rest, 1, "RNE")
    <3>3. Outcome = once
      BY <2>5, <3>1, <3>2, FractIs
    <3>4. res = once.res /\ fe = once.fe
      BY <3>3 DEF Outcome
    <3>. HIDE DEF once
    <3>5. (once.res # One(0) => res = once.res) /\ (once.fe = {} => fe = {})
      BY <3>4
    <3>. QED BY <3>5 DEF once
  <2>6. Returned(ops) =>
          IF IsNaN(v) THEN IsNaN(res)
          ELSE IF IsInf(v) THEN res = v
          ELSE /\ res.s = v.s /\ res.e < ExpMax
               /\ Ref!Mag(res) = Integral(ModeOf, v)
    BY <2>3, Zenon DEF Returned
  <2>7. (Returned({"modf"}) /\ v.e < ExpMax) =>
          /\ res.s = v.s /\ part.s = v.s /\ fe = {}
          /\ Ref!Mag(part) = Integral("RTZ", v)
          /\ Ref!Mag(res) + Ref!Mag(part) = Ref!Mag(v)
    BY <2>4, Zenon DEF Returned
  <2>8. (Returned({"fract"}) /\ v.e < ExpMax) =>
          LET rest == Ref!Signed(v) % RefOne
              once == IF rest = 0 THEN [res |-> SignedZero(0), fe |-> {}]
                      ELSE Ref!Round(0, rest, 1, "RNE")
          IN  /\ once.res # One(0) => res = once.res
              /\ once.fe = {} => fe = {}
    BY <2>5, Zenon DEF Returned
  <2>. QED BY <2>6, <2>7, <2>8, Zenon DEF CorrectIntegral
<1>. QED BY <1>1, InvInit, InvInductive, PTL DEF Spec

---------------------------------------------------------------------------
(* Scaling by powers of two: a fraction in its binade, and what it rounds  *)
(* to there.                                                               *)
LEMMA CancelFactor ==
  ASSUME NEW A \in Int, NEW B \in Int, NEW b \in Nat, b >= 1
  PROVE  /\ A * b = B * b => A = B
         /\ A * b < B * b => A < B
<1>1. A >= B => (A - B) * b >= 0
  BY Z3
<1>2. A > B => (A - B - 1) * b >= 0
  BY Z3
<1>3. A < B => (B - A - 1) * b >= 0
  BY Z3
<1>. QED BY <1>1, <1>2, <1>3, Z3

LEMMA ScaledIdentity ==
  ASSUME NEW m \in Nat, NEW M \in Nat, NEW q, NEW n, InTable(q), InTable(n), InTable(q + n),
         M * Under(q) = m * Over(q)
  PROVE  (M * Over(n)) * Under(q + n) = (m * Over(q + n)) * Under(n)
<1>. DEFINE a == Over(q)
            b == Under(q)
            c == Over(n)
            d == Under(n)
            x == Over(q + n)
            y == Under(q + n)
<1>1. a \in Nat /\ b \in Nat /\ b >= 1 /\ c \in Nat /\ d \in Nat /\ x \in Nat /\ y \in Nat
  BY OverUnder
<1>2. (a * c) * y = (b * d) * x
  BY ScaleSum DEF InTable
<1>3. M * b = m * a
  OBVIOUS
<1>. HIDE DEF a, b, c, d, x, y
<1>4. ((M * c) * y) * b = ((m * x) * d) * b
  <2>1. ((M * c) * y) * b = (M * b) * (c * y)
    BY <1>1, Z3
  <2>2. (m * a) * (c * y) = m * ((a * c) * y)
    BY <1>1, Z3
  <2>3. m * ((b * d) * x) = ((m * x) * d) * b
    BY <1>1, Z3
  <2>. QED BY <1>2, <1>3, <2>1, <2>2, <2>3
<1>5. (M * c) * y \in Int /\ (m * x) * d \in Int
  <2>1. M * c \in Nat /\ m * x \in Nat
    BY <1>1
  <2>. QED BY <1>1, <2>1
<1>6. (M * c) * y = (m * x) * d
  <2>. DEFINE A == (M * c) * y
              B == (m * x) * d
  <2>1. A \in Int /\ B \in Int /\ A * b = B * b
    BY <1>4, <1>5
  <2>. HIDE DEF A, B
  <2>2. A = B
    BY <1>1, <2>1, CancelFactor
  <2>. QED BY <2>2 DEF A, B
<1>. QED BY <1>6 DEF c, d, x, y

LEMMA RoundOfCut ==
  ASSUME NEW s \in {0, 1}, NEW num \in Nat, NEW den \in Nat, den >= 1,
         NEW e \in 1..(ExpMax - 1), NEW m, m < 2 * ImplicitBit, e = 1 \/ ImplicitBit <= m,
         NEW lost \in BOOLEAN, NEW half \in BOOLEAN, NEW tie \in BOOLEAN,
         CutOf(num, Unit(e) * den, m, lost, half, tie),
         NEW up \in BOOLEAN, up <=> half /\ (~ tie \/ m % 2 = 1)
  PROVE  Ref!Round(s, num, den, "RNE") = Neighbour(s, e, m, up, lost, "RNE")
<1>. DEFINE D == Unit(e) * den
<1>1. D \in Nat /\ D >= 1
  <2>1. e \in 1..ExpMax
    BY Fields
  <2>2. Unit(e) \in Nat /\ Unit(e) >= 1
    BY <2>1, UnitFacts
  <2>. QED BY <2>2, Z3
<1>. HIDE DEF D
<1>2. CutOf(num, D, m, lost, half, tie) /\ D = Unit(e) * den
  BY DEF D
<1>3. CutAt(s, m, num, D, up, lost, "RNE")
  <2>1. /\ m \in Nat /\ m * D <= num /\ num < (m + 1) * D
        /\ lost <=> num # m * D
        /\ half <=> 2 * num >= (2 * m + 1) * D
        /\ tie <=> 2 * num = (2 * m + 1) * D
    BY <1>2 DEF CutOf
  <2>. DEFINE l == num # m * D
              h == 2 * num >= (2 * m + 1) * D
              c == 2 * num = (2 * m + 1) * D
  <2>2. (lost <=> l) /\ (half <=> h) /\ (tie <=> c)
    BY <2>1
  <2>. HIDE DEF l, h, c
  <2>3. up <=> Upwards(s, m, l, h, c, "RNE")
    BY <2>2 DEF Upwards
  <2>. QED BY <1>1, <2>1, <2>3 DEF CutAt, l, h, c
<1>4. "RNE" \in Modes
  BY DEF Modes
<1>. QED BY <1>1, <1>2, <1>3, <1>4, RoundCut

LEMMA ExactCut ==
  ASSUME NEW m \in Nat, NEW D \in Nat, D >= 1, NEW num, num = m * D
  PROVE  num \in Nat /\ CutOf(num, D, m, FALSE, FALSE, FALSE)
<1>. DEFINE K == m * D
<1>1. K \in Nat /\ (m + 1) * D = K + D /\ (2 * m + 1) * D = 2 * K + D
  BY Z3
<1>. HIDE DEF K
<1>2. /\ K <= K /\ K < K + D /\ ~ (K # K)
      /\ ~ (2 * K >= 2 * K + D) /\ ~ (2 * K = 2 * K + D)
  BY <1>1
<1>. QED BY <1>1, <1>2, Zenon DEF CutOf, K

(* A number with a place in the format rounds to itself.                   *)
IsPlace(num, den, e, m) == num = m * (Unit(e) * den)

LEMMA ExactRound ==
  ASSUME NEW s \in {0, 1}, NEW e \in 1..(ExpMax - 1), NEW m \in Nat, m < 2 * ImplicitBit,
         e = 1 \/ ImplicitBit <= m, NEW den \in Nat, den >= 1,
         NEW num, IsPlace(num, den, e, m)
  PROVE  Ref!Round(s, num, den, "RNE") = [res |-> WithLow(s, IndexOf(e, m)), fe |-> {}]
<1>. DEFINE D == Unit(e) * den
<1>1. D \in Nat /\ D >= 1
  <2>1. e \in 1..ExpMax
    BY Fields
  <2>2. Unit(e) \in Nat /\ Unit(e) >= 1
    BY <2>1, UnitFacts
  <2>. QED BY <2>2, Z3
<1>2. num \in Nat /\ CutOf(num, D, m, FALSE, FALSE, FALSE)
  <2>. HIDE DEF D
  <2>1. num = m * D
    BY DEF IsPlace, D
  <2>. QED BY <1>1, <2>1, ExactCut
<1>. PICK F \in BOOLEAN : ~ F
  OBVIOUS
<1>3. CutOf(num, Unit(e) * den, m, F, F, F)
  <2>1. F = FALSE
    OBVIOUS
  <2>. QED BY <1>2, <2>1
<1>4. F <=> (F /\ (~ F \/ m % 2 = 1))
  OBVIOUS
<1>5. Ref!Round(s, num, den, "RNE") = Neighbour(s, e, m, F, F, "RNE")
  BY <1>2, <1>3, <1>4, RoundOfCut
<1>6. Neighbour(s, e, m, F, F, "RNE") = [res |-> WithLow(s, IndexOf(e, m)), fe |-> {}]
  BY DEF Neighbour, WithLow
<1>. QED BY <1>5, <1>6

LEMMA ExactScaled ==
  ASSUME NEW v \in Values, v.e < ExpMax, NEW den \in Nat, den >= 1
  PROVE  Ref!Round(v.s, Ref!Mag(v) * den, den, "RNE").res = v
<1>. DEFINE e == Binade(v.e)
            m == Whole(v)
            num == Ref!Mag(v) * den
<1>1. /\ e \in 1..(ExpMax - 1) /\ m \in Nat /\ m < 2 * ImplicitBit
      /\ e = 1 \/ ImplicitBit <= m
      /\ IndexOf(e, m) = v.e * ImplicitBit + v.f
      /\ Ref!Mag(v) = m * Unit(e)
  BY ValueAt
<1>2. v.s \in {0, 1} /\ v.f \in Nat /\ v.f < ImplicitBit /\ v.e \in Nat /\ ImplicitBit \in Nat
  BY Fields DEF Values
<1>3. Unit(e) \in Nat
  <2>1. e \in 1..ExpMax
    BY <1>1, Fields
  <2>. HIDE DEF e
  <2>. QED BY <2>1, UnitFacts
<1>. HIDE DEF e, m
<1>4. IsPlace(num, den, e, m)
  <2>1. (m * Unit(e)) * den = m * (Unit(e) * den)
    BY <1>1, <1>3, Z3
  <2>. QED BY <1>1, <2>1 DEF IsPlace
<1>. HIDE DEF num
<1>5. Ref!Round(v.s, num, den, "RNE") = [res |-> WithLow(v.s, IndexOf(e, m)), fe |-> {}]
  <2>1. /\ e \in 1..(ExpMax - 1) /\ m \in Nat /\ m < 2 * ImplicitBit
        /\ e = 1 \/ ImplicitBit <= m
        /\ v.s \in {0, 1}
    BY <1>1, <1>2
  <2>2. PICK s \in {0, 1}, e1 \in 1..(ExpMax - 1), m1 \in Nat, n \in {num} :
                s = v.s /\ e1 = e /\ m1 = m
    BY <2>1, Zenon
  <2>3. m1 < 2 * ImplicitBit /\ (e1 = 1 \/ ImplicitBit <= m1) /\ IsPlace(n, den, e1, m1)
    BY <1>4, <2>1, <2>2
  <2>4. Ref!Round(s, n, den, "RNE") = [res |-> WithLow(s, IndexOf(e1, m1)), fe |-> {}]
    BY <2>3, ExactRound
  <2>. QED BY <2>2, <2>4
<1>6. WithLow(v.s, IndexOf(e, m)) = v
  <2>1. (v.e * ImplicitBit + v.f) \div ImplicitBit = v.e /\ (v.e * ImplicitBit + v.f) % ImplicitBit = v.f
    BY <1>2, Join
  <2>. QED BY <1>1, <2>1 DEF WithLow, Values
<1>. QED BY <1>5, <1>6 DEF num
(* num / den is the significand m times the power of two with exponent x.  *)
ScaledBy(num, den, m, x) ==
  /\ num \in Nat /\ den \in Nat /\ den >= 1 /\ InTable(x)
  /\ m \in Nat /\ ImplicitBit <= m /\ m < 2 * ImplicitBit
  /\ num * Under(x) = (m * Over(x)) * den

LEMMA ScaledUp ==
  ASSUME NEW num, NEW den, NEW m, NEW x, ScaledBy(num, den, m, x), x >= 0
  PROVE  num = m * (Pow2[x] * den) /\ Pow2[x] \in Nat
<1>1. Over(x) = Pow2[x] /\ Under(x) = 1 /\ Over(x) \in Nat
  BY OverUnder DEF Over, Under, ScaledBy
<1>. DEFINE P == Pow2[x]
<1>2. num * 1 = (m * P) * den /\ P \in Nat
  BY <1>1 DEF ScaledBy
<1>. HIDE DEF P
<1>3. (m * P) * den = m * (P * den)
  BY <1>2, Z3 DEF ScaledBy
<1>4. num = m * (P * den)
  BY <1>2, <1>3 DEF ScaledBy
<1>. QED BY <1>2, <1>4 DEF P

LEMMA RoundsHuge ==
  ASSUME NEW s \in {0, 1}, NEW num, NEW den, NEW m, NEW x, ScaledBy(num, den, m, x),
         x >= 2 * Bias
  PROVE  Ref!Round(s, num, den, "RNE").res = SignedInf(s)
<1>1. num = m * (Pow2[x] * den) /\ Pow2[x] \in Nat /\ den \in Nat /\ m \in Nat
      /\ ImplicitBit <= m /\ x \in Int /\ x <= MaxShift
  <2>1. x >= 0
    BY Fields DEF ScaledBy, InTable
  <2>. QED BY <2>1, ScaledUp DEF ScaledBy, InTable
<1>2. Unit(ExpMax) \in Nat /\ Unit(ExpMax) <= Pow2[x]
  <2>1. ExpMax - 1 \in Nat /\ ExpMax - 1 <= x /\ x \in Nat
    BY <1>1, Fields
  <2>2. PICK k \in Nat : k = ExpMax - 1
    BY <2>1
  <2>3. k <= x /\ x <= MaxShift /\ x \in Nat /\ k \in 0..MaxShift
    BY <1>1, <2>1, <2>2, Widths
  <2>4. Pow2[k] <= Pow2[x] /\ Pow2[k] \in Nat
    BY <2>3, Pow2Monotone, Pow2Positive
  <2>. QED BY <2>2, <2>4 DEF Unit
<1>3. Ref!Magnitude[Ref!InfIndex] = ImplicitBit * Unit(ExpMax)
  BY InfMagnitude, SameFormat
<1>4. num >= Ref!Magnitude[Ref!InfIndex] * den
  <2>. DEFINE U == Unit(ExpMax)
              P == Pow2[x]
  <2>1. U \in Nat /\ P \in Nat /\ U <= P /\ ImplicitBit \in Nat
    BY <1>1, <1>2, Fields
  <2>. HIDE DEF U, P
  <2>2. ImplicitBit * U <= m * P
    BY <1>1, <2>1, Z3
  <2>3. (ImplicitBit * U) * den <= (m * P) * den
    <3>. DEFINE A == ImplicitBit * U
                B == m * P
    <3>1. A \in Nat /\ B \in Nat /\ A <= B
      BY <1>1, <2>1, <2>2
    <3>. HIDE DEF A, B
    <3>2. A * den <= B * den
      BY <1>1, <3>1, Z3
    <3>. QED BY <3>2 DEF A, B
  <2>4. (m * P) * den = m * (P * den)
    BY <1>1, <2>1, Z3
  <2>. QED BY <1>1, <1>3, <2>3, <2>4 DEF U, P
<1>5. Ref!Round(s, num, den, "RNE") = Ref!Overflows(s, "RNE")
  BY <1>4, Zenon DEF Ref!Round
<1>6. "RNE" \in Modes
  BY DEF Modes
<1>7. Overflow(s, "RNE").res = SignedInf(s)
  BY DEF Overflow, OverflowResult
<1>. QED BY <1>5, <1>6, <1>7, SameOverflow

LEMMA RoundsNormal ==
  ASSUME NEW s \in {0, 1}, NEW num, NEW den, NEW m, NEW x, ScaledBy(num, den, m, x),
         0 <= x, x < 2 * Bias
  PROVE  Ref!Round(s, num, den, "RNE").res = [s |-> s, e |-> x + 1, f |-> m - ImplicitBit]
<1>1. num = m * (Pow2[x] * den) /\ den \in Nat /\ den >= 1 /\ m \in Nat
      /\ ImplicitBit <= m /\ m < 2 * ImplicitBit /\ x \in Int
  BY ScaledUp DEF ScaledBy, InTable
<1>2. x + 1 \in 1..(ExpMax - 1)
  BY <1>1, Fields
<1>. PICK e \in 1..(ExpMax - 1) : e = x + 1
  BY <1>2
<1>3. IsPlace(num, den, e, m)
  BY <1>1 DEF IsPlace, Unit
<1>4. Ref!Round(s, num, den, "RNE") = [res |-> WithLow(s, IndexOf(e, m)), fe |-> {}]
  <2>1. PICK n \in Nat, d \in Nat, z \in {num} : n = m /\ d = den
    BY <1>1
  <2>2. n < 2 * ImplicitBit /\ ImplicitBit <= n /\ IsPlace(z, d, e, n) /\ d >= 1
    BY <1>1, <1>3, <2>1
  <2>3. Ref!Round(s, z, d, "RNE") = [res |-> WithLow(s, IndexOf(e, n)), fe |-> {}]
    BY <2>2, ExactRound
  <2>. QED BY <2>1, <2>3
<1>5. IndexOf(e, m) \div ImplicitBit = e /\ IndexOf(e, m) % ImplicitBit = m - ImplicitBit
  <2>1. IndexOf(e, m) = e * ImplicitBit + (m - ImplicitBit)
    <3>1. (e - 1) * ImplicitBit = e * ImplicitBit - ImplicitBit
      BY Fields, Z3
    <3>2. e * ImplicitBit \in Int /\ ImplicitBit \in Int
      BY Fields
    <3>. QED BY <1>1, <3>1, <3>2 DEF IndexOf
  <2>2. m - ImplicitBit \in Nat /\ ImplicitBit \in Nat /\ e \in Nat
    BY <1>1, Fields
  <2>3. PICK r \in Nat : r = m - ImplicitBit
    BY <2>2
  <2>4. r < ImplicitBit
    BY <1>1, <2>2, <2>3
  <2>5. (e * ImplicitBit + r) \div ImplicitBit = e /\ (e * ImplicitBit + r) % ImplicitBit = r
    BY <2>2, <2>4, Join
  <2>. QED BY <2>1, <2>3, <2>5
<1>. QED BY <1>4, <1>5 DEF WithLow

LEMMA SameSign ==
  ASSUME NEW a \in Int, NEW b \in Int, NEW p \in Nat, p >= 1, NEW q \in Nat, q >= 1,
         a * p = b * q
  PROVE  (a < 0 <=> b < 0) /\ (a = 0 <=> b = 0)
<1>1. (a < 0 => a * p < 0) /\ (a = 0 => a * p = 0) /\ (a > 0 => a * p > 0)
  BY Z3
<1>2. (b < 0 => b * q < 0) /\ (b = 0 => b * q = 0) /\ (b > 0 => b * q > 0)
  BY Z3
<1>. QED BY <1>1, <1>2, Z3

(* A significand cut at bit h, and the fraction it stands for.             *)
CutsAt(num, den, k, r, H, lost, half, tie) ==
  /\ num \in Nat /\ den \in Nat /\ den >= 1 /\ k \in Nat /\ r \in Nat
  /\ H \in Nat /\ H >= 1 /\ r < 2 * H /\ num * (2 * H) = (k * (2 * H) + r) * den
  /\ lost \in BOOLEAN /\ half \in BOOLEAN /\ tie \in BOOLEAN
  /\ lost <=> r # 0
  /\ half <=> H <= r
  /\ tie <=> r = H

LEMMA CutScaled ==
  ASSUME NEW num, NEW den, NEW k, NEW r, NEW H, NEW lost, NEW half, NEW tie,
         CutsAt(num, den, k, r, H, lost, half, tie)
  PROVE  CutOf(num, den, k, lost, half, tie)
<1>0. /\ num \in Nat /\ den \in Nat /\ den >= 1 /\ k \in Nat /\ r \in Nat
      /\ H \in Nat /\ H >= 1 /\ r < 2 * H /\ num * (2 * H) = (k * (2 * H) + r) * den
  BY DEF CutsAt
<1>a. /\ lost <=> r # 0
      /\ half <=> H <= r
      /\ tie <=> r = H
  BY DEF CutsAt
<1>. DEFINE K == k * den
            d == num - K
            T == 2 * H
<1>1. K \in Nat /\ d \in Int /\ num = K + d /\ T \in Nat /\ T >= 1 /\ T = 2 * H
  <2>1. K \in Nat
    BY <1>0, Z3
  <2>. HIDE DEF K
  <2>. QED BY <1>0, <2>1
<1>2. (k + 1) * den = K + den /\ (2 * k + 1) * den = 2 * K + den
  BY <1>0, Z3
<1>3. d * T = r * den
  <2>1. num * T = (k * T + r) * den
    BY <1>0
  <2>. HIDE DEF T
  <2>2. (num - k * den) * T = num * T - k * den * T
    BY <1>0, <1>1, Z3
  <2>3. (k * T + r) * den = k * den * T + r * den
    BY <1>0, <1>1, Z3
  <2>4. k * den * T \in Int /\ r * den \in Int /\ num * T \in Int
    <3>1. k * den \in Int
      BY <1>0, Z3
    <3>. QED BY <1>0, <1>1, <3>1, Z3
  <2>. QED BY <1>0, <2>1, <2>2, <2>3, <2>4
<1>. HIDE DEF K, d, T
<1>4. (d < 0 <=> r < 0) /\ (d = 0 <=> r = 0)
  BY <1>1, <1>3, <1>0, SameSign
<1>5. d < den
  <2>. DEFINE a == den - d
              b == T - r
  <2>1. a \in Int /\ b \in Int /\ b > 0 /\ a = den - d /\ b = T - r
    BY <1>0, <1>1
  <2>2. a * T = b * den
    <3>1. (den - d) * T = den * T - d * T
      BY <1>0, <1>1, Z3
    <3>2. (T - r) * den = den * T - r * den
      BY <1>0, <1>1, Z3
    <3>. QED BY <1>0, <1>3, <3>1, <3>2
  <2>. HIDE DEF a, b
  <2>3. (a < 0 <=> b < 0) /\ (a = 0 <=> b = 0)
    BY <1>1, <2>1, <2>2, <1>0, SameSign
  <2>. QED BY <1>0, <1>1, <2>1, <2>3
<1>6. (2 * d < den <=> r < H) /\ (2 * d = den <=> r = H)
  <2>. DEFINE a == 2 * d - den
              b == r - H
  <2>1. a \in Int /\ b \in Int /\ a = 2 * d - den /\ b = r - H
    BY <1>0, <1>1
  <2>2. a * H = b * den
    <3>1. (2 * d - den) * H = d * (2 * H) - den * H
      BY <1>0, <1>1, Z3
    <3>2. (r - H) * den = r * den - den * H
      BY <1>0, <1>1, Z3
    <3>. QED BY <1>0, <1>1, <1>3, <3>1, <3>2
  <2>. HIDE DEF a, b
  <2>3. (a < 0 <=> b < 0) /\ (a = 0 <=> b = 0)
    BY <2>1, <2>2, <1>0, SameSign
  <2>. QED BY <1>0, <1>1, <2>1, <2>3
<1>7. /\ K <= num /\ num < K + den
      /\ lost <=> num # K
      /\ half <=> 2 * num >= 2 * K + den
      /\ tie <=> 2 * num = 2 * K + den
  BY <1>0, <1>a, <1>1, <1>4, <1>5, <1>6
<1>. QED BY <1>0, <1>2, <1>7 DEF CutOf, K

LEMMA RetainedIs ==
  ASSUME NEW m \in Nat, NEW h \in Nat, h >= 1, h <= MaxShift
  PROVE  \E k \in Nat, r \in Nat, H \in Nat :
           /\ H = Pow2[h - 1] /\ H >= 1 /\ Pow2[h] = 2 * H
           /\ r < 2 * H /\ m = k * (2 * H) + r
           /\ Retained(m, h) = IF H <= r /\ (r # H \/ k % 2 = 1) THEN k + 1 ELSE k
<1>1. Pow2[h - 1] \in Nat /\ Pow2[h - 1] >= 1 /\ Pow2[h] = 2 * Pow2[h - 1]
  <2>1. PICK g \in Nat : h = g + 1
    <3>1. h - 1 \in Nat /\ h = (h - 1) + 1
      OBVIOUS
    <3>. QED BY <3>1
  <2>2. g \in 0..MaxShift /\ g + 1 <= MaxShift /\ h - 1 = g
    BY <2>1, Widths
  <2>3. Pow2[g + 1] = 2 * Pow2[g] /\ Pow2[g] \in Nat /\ Pow2[g] >= 1
    BY <2>2, Pow2Step, Pow2Positive
  <2>. QED BY <2>1, <2>2, <2>3
<1>. PICK H \in Nat : H = Pow2[h - 1]
  BY <1>1
<1>2. Retained(m, h) = IF (m \div H) % 2 = 1 /\ ((m % H) # 0 \/ (m \div Pow2[h]) % 2 = 1)
                       THEN m \div Pow2[h] + 1 ELSE m \div Pow2[h]
  BY Zenon DEF Retained, BitSet
<1>3. PICK k \in Nat, r \in Nat :
           /\ k = m \div (2 * H) /\ r < 2 * H /\ m = k * (2 * H) + r
           /\ (m \div H) % 2 = 1 <=> H <= r
           /\ (m % H) # 0 <=> r # 0 /\ r # H
  BY <1>1, CutAtHalf
<1>4. Retained(m, h) = IF H <= r /\ (r # H \/ k % 2 = 1) THEN k + 1 ELSE k
  <2>1. m \div Pow2[h] = k
    BY <1>1, <1>3
  <2>2. Retained(m, h) = IF (m \div H) % 2 = 1 /\ ((m % H) # 0 \/ k % 2 = 1)
                         THEN k + 1 ELSE k
    BY <1>2, <2>1
  <2>3. H <= r => r # 0
    BY <1>1
  <2>. QED BY <1>3, <2>2, <2>3, Zenon
<1>5. /\ H = Pow2[h - 1] /\ H >= 1 /\ Pow2[h] = 2 * H
      /\ r < 2 * H /\ m = k * (2 * H) + r
  BY <1>1, <1>3
<1>. QED BY <1>4, <1>5, Zenon

LEMMA CutPacked ==
  ASSUME NEW s \in {0, 1}, NEW num \in Nat, NEW den \in Nat, den >= 1,
         NEW k \in Nat, k < ImplicitBit,
         NEW lost \in BOOLEAN, NEW half \in BOOLEAN, NEW tie \in BOOLEAN,
         CutOf(num, den, k, lost, half, tie),
         NEW up \in BOOLEAN, up <=> half /\ (~ tie \/ k % 2 = 1)
  PROVE  Ref!Round(s, num, den, "RNE").res = WithLow(s, IF up THEN k + 1 ELSE k)
<1>. PICK e \in 1..(ExpMax - 1) : e = 1
  BY Fields
<1>1. Unit(e) * den = den
  <2>1. Unit(1) = 1
    <3>1. 1 \in 1..ExpMax
      BY Fields
    <3>. QED BY <3>1, UnitFacts
  <2>. QED BY <2>1
<1>2. Ref!Round(s, num, den, "RNE") = Neighbour(s, e, k, up, lost, "RNE")
  <2>1. CutOf(num, Unit(e) * den, k, lost, half, tie)
    BY <1>1
  <2>2. k < 2 * ImplicitBit
    BY Fields
  <2>. QED BY <2>1, <2>2, RoundOfCut
<1>3. Neighbour(s, e, k, up, lost, "RNE").res = WithLow(s, IF up THEN k + 1 ELSE k)
  <2>. DEFINE n == IF up THEN k + 1 ELSE k
  <2>1. n \in Nat /\ n <= ImplicitBit
    BY Fields
  <2>. HIDE DEF n
  <2>2. IndexOf(e, n) = n
    <3>1. (e - 1) * ImplicitBit = 0
      BY Fields, Z3
    <3>. QED BY <2>1, <3>1 DEF IndexOf
  <2>3. n # ExpMax * ImplicitBit
    <3>1. ExpMax * ImplicitBit >= 3 * ImplicitBit /\ ImplicitBit >= 1 /\ ImplicitBit \in Nat
      BY Fields, GuardPowers, Z3
    <3>2. ExpMax * ImplicitBit \in Int
      BY Fields
    <3>. QED BY <2>1, <3>1, <3>2
  <2>4. Neighbour(s, e, k, up, lost, "RNE").res =
          [s |-> s, e |-> n \div ImplicitBit, f |-> n % ImplicitBit]
    BY <2>2, <2>3 DEF Neighbour, n
  <2>. QED BY <2>4 DEF WithLow, n
<1>. QED BY <1>2, <1>3

LEMMA RoundsBelow ==
  ASSUME NEW s \in {0, 1}, NEW num, NEW den, NEW m, NEW h \in Nat, h >= 1,
         ScaledBy(num, den, m, -h)
  PROVE  Ref!Round(s, num, den, "RNE").res = WithLow(s, Retained(m, h))
<1>1. /\ num \in Nat /\ den \in Nat /\ den >= 1 /\ h <= MaxShift
      /\ m \in Nat /\ ImplicitBit <= m /\ m < 2 * ImplicitBit
      /\ num * Under(-h) = (m * Over(-h)) * den
  BY Widths DEF ScaledBy, InTable
<1>2. Under(-h) = Pow2[h] /\ Over(-h) = 1
  <2>1. -(-h) = h /\ ~ (-h >= 0)
    OBVIOUS
  <2>. QED BY <2>1 DEF Under, Over
<1>3. PICK k \in Nat, r \in Nat, H \in Nat :
           /\ H = Pow2[h - 1] /\ H >= 1 /\ Pow2[h] = 2 * H
           /\ r < 2 * H /\ m = k * (2 * H) + r
           /\ Retained(m, h) = IF H <= r /\ (r # H \/ k % 2 = 1) THEN k + 1 ELSE k
  BY <1>1, RetainedIs
<1>4. num * (2 * H) = (k * (2 * H) + r) * den
  <2>1. num * (2 * H) = (m * 1) * den
    BY <1>1, <1>2, <1>3
  <2>2. m * 1 = m
    BY <1>1
  <2>. QED BY <1>3, <2>1, <2>2
<1>5. PICK lost \in BOOLEAN, half \in BOOLEAN, tie \in BOOLEAN :
           (lost <=> r # 0) /\ (half <=> H <= r) /\ (tie <=> r = H)
  OBVIOUS
<1>6. PICK up \in BOOLEAN : up <=> half /\ (~ tie \/ k % 2 = 1)
  OBVIOUS
<1>7. PICK n \in Nat, d \in Nat : n = num /\ d = den
  BY <1>1
<1>8. CutOf(n, d, k, lost, half, tie)
  <2>1. d >= 1 /\ r < 2 * H /\ H >= 1 /\ n * (2 * H) = (k * (2 * H) + r) * d
    BY <1>1, <1>3, <1>4, <1>7
  <2>2. CutsAt(n, d, k, r, H, lost, half, tie)
    BY <1>5, <2>1 DEF CutsAt
  <2>. QED BY <2>2, CutScaled
<1>9. k < ImplicitBit
  <2>1. k * (2 * H) >= k * 2
    BY <1>3, Z3
  <2>2. k * (2 * H) \in Int
    BY Z3
  <2>. QED BY <1>1, <1>3, <2>1, <2>2, Fields
<1>10. Ref!Round(s, n, d, "RNE").res = WithLow(s, IF up THEN k + 1 ELSE k)
  <2>1. d >= 1
    BY <1>1, <1>7
  <2>. QED BY <1>6, <1>8, <1>9, <2>1, CutPacked
<1>11. Retained(m, h) = IF up THEN k + 1 ELSE k
  BY <1>3, <1>5, <1>6
<1>. QED BY <1>7, <1>10, <1>11

LEMMA RetainsNothing ==
  ASSUME NEW m \in Nat, m < 2 * ImplicitBit, NEW h \in Nat, h >= FracBits + 2, h <= MaxShift
  PROVE  Retained(m, h) = 0
<1>1. h >= 1
  BY Widths
<1>2. PICK k \in Nat, r \in Nat, H \in Nat :
           /\ H = Pow2[h - 1] /\ H >= 1 /\ Pow2[h] = 2 * H
           /\ r < 2 * H /\ m = k * (2 * H) + r
           /\ Retained(m, h) = IF H <= r /\ (r # H \/ k % 2 = 1) THEN k + 1 ELSE k
  BY <1>1, RetainedIs
<1>3. m < H
  <2>1. PICK g \in Nat : g = FracBits + 1
    BY Widths
  <2>2. PICK i \in Nat : i = h - 1
    BY <1>1
  <2>3. g <= i /\ i <= MaxShift
    BY <2>1, <2>2, Widths
  <2>4. Pow2[g] <= Pow2[i]
    BY <2>3, Pow2Monotone
  <2>5. Pow2[g] = 2 * ImplicitBit
    <3>1. FracBits \in Nat /\ FracBits + 1 <= MaxShift
      BY <2>1, <2>3, Widths
    <3>. QED BY <2>1, <3>1, Pow2Step DEF ImplicitBit
  <2>6. H \in Nat /\ ImplicitBit \in Nat /\ 2 * ImplicitBit <= H
    BY <1>2, <2>2, <2>4, <2>5, Fields
  <2>. QED BY <2>6
<1>4. k = 0
  <2>1. k >= 1 => k * (2 * H) >= H
    BY <1>2, Z3
  <2>2. k * (2 * H) \in Int
    BY Z3
  <2>. QED BY <1>2, <1>3, <2>1, <2>2
<1>5. r = m
  <2>1. 0 * (2 * H) = 0
    BY Z3
  <2>. QED BY <1>2, <1>4, <2>1
<1>. QED BY <1>2, <1>3, <1>4, <1>5

LEMMA WordOfZero ==
  \A s : WithLow(s, 0) = SignedZero(s)
<1>1. 0 \div ImplicitBit = 0 /\ 0 % ImplicitBit = 0
  <2>1. ImplicitBit \in Nat /\ ImplicitBit >= 1
    BY GuardPowers
  <2>2. 0 < ImplicitBit /\ 0 * ImplicitBit + 0 = 0
    BY <2>1
  <2>. QED BY <2>1, <2>2
<1>. QED BY <1>1 DEF WithLow, SignedZero

---------------------------------------------------------------------------
(* The four ways an exponent can lie, as written and as clamped.           *)
LEMMA ClampedIs ==
  ASSUME NEW n \in Scales, NEW q \in Int, -FracBits <= q, q <= ExpMax - 2,
         NEW x, x = q + n, NEW y, y = q + Clamped(n)
  PROVE  /\ InTable(x) /\ InTable(n) /\ x \in Int /\ y \in Int
         /\ \/ x >= 2 * Bias /\ y >= 2 * Bias
            \/ x = y /\ 0 <= x /\ x < 2 * Bias
            \/ x = y /\ x < 0 /\ x >= -(FracBits + 1)
            \/ x <= -(FracBits + 2) /\ y <= -(FracBits + 2)
<1>1. /\ FracBits \in Nat /\ Bias \in Nat /\ ExpMax = 2 * Bias + 1 /\ MaxShift \in Nat
      /\ ScaleClamp \in Nat /\ ScaleClamp > 2 * Bias + FracBits
      /\ MaxShift >= ScaleClamp + 1 + ExpMax + FracBits
  BY Widths, Fields, IntegralAssumption, ScalesAssumption
<1>2. n \in Int /\ -(ScaleClamp + 1) <= n /\ n <= ScaleClamp + 1
  BY <1>1 DEF Scales
<1>3. Clamped(n) = IF n > ScaleClamp THEN ScaleClamp ELSE IF n < -ScaleClamp THEN -ScaleClamp ELSE n
  BY DEF Clamped
<1>4. InTable(x) /\ InTable(n) /\ x \in Int /\ y \in Int
  BY <1>1, <1>2, <1>3 DEF InTable
<1>5. CASE n > ScaleClamp
  BY <1>1, <1>2, <1>3, <1>4, <1>5
<1>6. CASE n < -ScaleClamp
  BY <1>1, <1>2, <1>3, <1>4, <1>6
<1>7. CASE ~ (n > ScaleClamp) /\ ~ (n < -ScaleClamp)
  BY <1>1, <1>2, <1>3, <1>4, <1>7
<1>. QED BY <1>5, <1>6, <1>7

LEMMA LdexpWord ==
  ASSUME NEW v \in Values, v.e < ExpMax, ~ IsZero(v), NEW n \in Int,
         NEW q \in Int, q = TrueExponent(v) + (Bias - 1), NEW y \in Int, y = q + Clamped(n)
  PROVE  /\ y >= 2 * Bias => Ldexp(v, n) = SignedInf(v.s)
         /\ (y < 2 * Bias /\ y >= 0) =>
              Ldexp(v, n) = [s |-> v.s, e |-> y + 1, f |-> NormalFraction(v)]
         /\ y < 0 => Ldexp(v, n) = IF -y >= WordBits THEN SignedZero(v.s)
                                   ELSE WithLow(v.s, Retained(ImplicitBit + NormalFraction(v), -y))
<1>1. Bias \in Nat /\ ~ IsNaN(v) /\ ~ IsInf(v)
  BY Fields, FiniteClasses
<1>2. TrueExponent(v) \in Int
  BY Renormal
<1>. DEFINE exp == TrueExponent(v) + Clamped(n)
            right == 1 - Bias - exp
            T == TrueExponent(v)
            C == Clamped(n)
<1>3. /\ Ldexp(v, n) = IF exp > Bias THEN SignedInf(v.s)
                       ELSE IF right <= 0 THEN [s |-> v.s, e |-> exp + Bias, f |-> NormalFraction(v)]
                       ELSE IF right >= WordBits THEN SignedZero(v.s)
                       ELSE WithLow(v.s, Retained(ImplicitBit + NormalFraction(v), right))
  BY <1>1, Zenon DEF Ldexp
<1>4. T \in Int /\ y = T + (Bias - 1) + C /\ exp = T + C /\ right = 1 - Bias - exp
  BY <1>2
<1>5. C \in Int
  BY IntegralAssumption DEF Clamped
<1>. HIDE DEF T, C
<1>. QED BY <1>1, <1>3, <1>4, <1>5

LEMMA LdexpRounds ==
  ASSUME NEW v \in Values, v.e < ExpMax, ~ IsZero(v), NEW n \in Scales,
         NEW M, M = Ref!Mag(v)
  PROVE  Ldexp(v, n) = Ref!Round(v.s, M * Over(n), Under(n), "RNE").res
<1>. DEFINE q == TrueExponent(v) + (Bias - 1)
            m == ImplicitBit + NormalFraction(v)
            x == q + n
            y == q + Clamped(n)
            num == M * Over(n)
            den == Under(n)
<1>1. /\ NormalFraction(v) \in Nat /\ NormalFraction(v) < ImplicitBit
      /\ q \in Int /\ -FracBits <= q /\ q <= ExpMax - 2
      /\ M * Under(q) = m * Over(q) /\ M \in Nat /\ v.s \in {0, 1} /\ ImplicitBit \in Nat
  BY Renormal, FiniteClasses, Fields
<1>2. m \in Nat /\ ImplicitBit <= m /\ m < 2 * ImplicitBit /\ m - ImplicitBit = NormalFraction(v)
  BY <1>1
<1>. HIDE DEF q
<1>3. /\ InTable(x) /\ InTable(n) /\ x \in Int /\ y \in Int
      /\ \/ x >= 2 * Bias /\ y >= 2 * Bias
         \/ x = y /\ 0 <= x /\ x < 2 * Bias
         \/ x = y /\ x < 0 /\ x >= -(FracBits + 1)
         \/ x <= -(FracBits + 2) /\ y <= -(FracBits + 2)
  BY <1>1, ClampedIs
<1>4. /\ y >= 2 * Bias => Ldexp(v, n) = SignedInf(v.s)
      /\ (y < 2 * Bias /\ y >= 0) =>
           Ldexp(v, n) = [s |-> v.s, e |-> y + 1, f |-> NormalFraction(v)]
      /\ y < 0 => Ldexp(v, n) = IF -y >= WordBits THEN SignedZero(v.s)
                                ELSE WithLow(v.s, Retained(m, -y))
  BY <1>1, <1>3, LdexpWord DEF q, InTable
<1>. HIDE DEF m
<1>5. ScaledBy(num, den, m, x)
  <2>1. InTable(q)
    BY <1>1, Widths, Fields DEF InTable
  <2>2. num * Under(x) = (m * Over(x)) * den
    BY <1>1, <1>2, <1>3, <2>1, ScaledIdentity
  <2>3. Over(n) \in Nat /\ den \in Nat /\ den >= 1
    BY <1>3, OverUnder
  <2>. HIDE DEF x, den
  <2>4. num \in Nat
    BY <1>1, <2>3
  <2>. HIDE DEF num
  <2>. QED BY <1>2, <1>3, <2>2, <2>3, <2>4 DEF ScaledBy
<1>. HIDE DEF x, y, num, den
<1>6. Bias \in Nat /\ FracBits \in Nat /\ WordBits \in Nat /\ FracBits + 2 <= WordBits
  BY Fields, Widths
<1>7. CASE x >= 2 * Bias /\ y >= 2 * Bias
  BY <1>1, <1>4, <1>5, <1>7, RoundsHuge DEF num, den
<1>8. CASE x = y /\ 0 <= x /\ x < 2 * Bias
  BY <1>1, <1>2, <1>4, <1>5, <1>8, RoundsNormal DEF num, den
<1>9. CASE x < 0 /\ (x = y \/ (x <= -(FracBits + 2) /\ y <= -(FracBits + 2)))
  <2>1. PICK h \in Nat : x = -h /\ h >= 1
    <3>1. -x \in Nat /\ x = -(-x) /\ -x >= 1
      BY <1>3, <1>9
    <3>. QED BY <3>1
  <2>2. Ref!Round(v.s, num, den, "RNE").res = WithLow(v.s, Retained(m, h)) /\ h <= MaxShift
    <3>1. ScaledBy(num, den, m, -h)
      BY <1>5, <2>1
    <3>2. h <= MaxShift
      BY <1>3, <2>1, Widths DEF InTable
    <3>. QED BY <1>1, <2>1, <3>1, <3>2, RoundsBelow
  <2>3. CASE x = y /\ h < FracBits + 2
    BY <1>3, <1>4, <1>6, <2>1, <2>2, <2>3 DEF num, den
  <2>4. CASE h >= FracBits + 2 /\ y <= -(FracBits + 2)
    <3>1. Ref!Round(v.s, num, den, "RNE").res = SignedZero(v.s)
      BY <1>2, <2>2, <2>4, RetainsNothing, WordOfZero
    <3>2. Ldexp(v, n) = SignedZero(v.s)
      <4>1. y < 0
        BY <1>3, <1>6, <2>4
      <4>2. CASE -y >= WordBits
        BY <1>4, <4>1, <4>2
      <4>3. CASE ~ (-y >= WordBits)
        <5>1. PICK g \in Nat : g = -y
          <6>1. -y \in Nat
            BY <1>3, <4>1
          <6>. QED BY <6>1
        <5>2. g >= FracBits + 2 /\ g <= MaxShift
          BY <1>3, <1>6, <2>4, <4>3, <5>1, Widths
        <5>3. Retained(m, g) = 0
          BY <1>2, <5>2, RetainsNothing
        <5>. QED BY <1>4, <4>1, <4>3, <5>1, <5>3, WordOfZero
      <4>. QED BY <4>2, <4>3
    <3>. QED BY <3>1, <3>2 DEF num, den
  <2>. QED BY <1>3, <1>6, <1>9, <2>1, <2>3, <2>4
<1>. QED BY <1>3, <1>6, <1>7, <1>8, <1>9
---------------------------------------------------------------------------
(* A magnitude, brought to the binade of 2^b.                              *)
LEMMA BroughtTo ==
  ASSUME NEW M \in Nat, NEW m \in Nat, NEW q \in Int, NEW b \in Nat, NEW j \in Int, q = b + j,
         InTable(q), InTable(b), InTable(j), M * Under(q) = m * Over(q)
  PROVE  (m * Pow2[b]) * Over(j) = M * Under(j)
<1>. DEFINE x == Over(q)
            y == Under(q)
            P == Pow2[b]
            c == Over(j)
            d == Under(j)
<1>1. x \in Nat /\ y \in Nat /\ y >= 1 /\ c \in Nat /\ d \in Nat
  BY OverUnder
<1>2. P \in Nat /\ (P * c) * y = (1 * d) * x
  <2>1. (Over(b) * Over(j)) * Under(b + j) = (Under(b) * Under(j)) * Over(b + j)
    BY ScaleSum DEF InTable
  <2>2. Over(b) = P /\ Under(b) = 1 /\ P \in Nat
    BY OverUnder DEF Over, Under
  <2>. QED BY <2>1, <2>2
<1>3. M * y = m * x
  OBVIOUS
<1>. HIDE DEF x, y, P, c, d
<1>4. ((m * P) * c) * y = (M * d) * y
  <2>1. ((m * P) * c) * y = m * ((P * c) * y)
    BY <1>1, <1>2, Z3
  <2>2. m * ((1 * d) * x) = (m * x) * d
    BY <1>1, <1>2, Z3
  <2>3. (M * y) * d = (M * d) * y
    BY <1>1, <1>2, Z3
  <2>. QED BY <1>2, <1>3, <2>1, <2>2, <2>3
<1>5. (m * P) * c = M * d
  <2>. DEFINE A == (m * P) * c
              B == M * d
  <2>1. A \in Int /\ B \in Int
    <3>1. m * P \in Int
      BY <1>2
    <3>. QED BY <1>1, <3>1
  <2>2. A * y = B * y
    BY <1>4
  <2>. HIDE DEF A, B
  <2>3. A = B
    BY <1>1, <2>1, <2>2, CancelFactor
  <2>. QED BY <2>3 DEF A, B
<1>. QED BY <1>5 DEF P, c, d

(* Where a magnitude lies, from its exponent.                              *)
LEMMA BinadeOf ==
  ASSUME NEW v \in Values, v.e < ExpMax, ~ IsZero(v),
         NEW m, m = ImplicitBit + NormalFraction(v), NEW b \in {Bias - 2, Bias - 1},
         NEW j, j = TrueExponent(v) + (Bias - 1) - b
  PROVE  /\ m \in Nat /\ ImplicitBit <= m /\ m < 2 * ImplicitBit
         /\ NormalFraction(v) \in Nat /\ NormalFraction(v) < ImplicitBit
         /\ b \in Nat /\ Pow2[b] \in Nat /\ Pow2[b] >= 1
         /\ j \in Scales /\ InTable(j) /\ j \in Int /\ TrueExponent(v) \in Int
         /\ TrueExponent(v) <= Bias /\ -(Bias + FracBits) <= TrueExponent(v)
         /\ (m * Pow2[b]) * Over(j) = Ref!Mag(v) * Under(j)
<1>. DEFINE q == TrueExponent(v) + (Bias - 1)
            M == Ref!Mag(v)
<1>1. /\ NormalFraction(v) \in Nat /\ NormalFraction(v) < ImplicitBit
      /\ q \in Int /\ -FracBits <= q /\ q <= ExpMax - 2 /\ TrueExponent(v) \in Int
      /\ M * Under(q) = m * Over(q) /\ M \in Nat /\ ImplicitBit \in Nat
  BY Renormal, FiniteClasses, Fields
<1>2. m \in Nat /\ ImplicitBit <= m /\ m < 2 * ImplicitBit
  BY <1>1
<1>3. TrueExponent(v) = q - (Bias - 1)
  BY <1>1, BiasFacts
<1>. HIDE DEF q, M
<1>4. /\ b \in Nat /\ b <= MaxShift /\ InTable(b) /\ InTable(q) /\ q = b + j
      /\ j \in Scales /\ InTable(j) /\ j \in Int
      /\ TrueExponent(v) <= Bias /\ -(Bias + FracBits) <= TrueExponent(v)
  BY <1>1, <1>3, BiasFacts, IntegralAssumption, ScalesAssumption DEF InTable, Scales
<1>5. Pow2[b] \in Nat /\ Pow2[b] >= 1
  BY <1>4, BiasFacts, Pow2Positive
<1>6. (m * Pow2[b]) * Over(j) = M * Under(j)
  BY <1>1, <1>2, <1>4, BroughtTo
<1>. QED BY <1>1, <1>2, <1>4, <1>5, <1>6 DEF M

LEMMA OneIs ==
  /\ RefOne = ImplicitBit * Pow2[Bias - 1]
  /\ RefOne = 2 * (ImplicitBit * Pow2[Bias - 2])
  /\ ImplicitBit \in Nat /\ ImplicitBit >= 1
<1>1. RefOne = ImplicitBit * Pow2[Bias - 1]
  BY BiasFacts DEF Unit
<1>2. PICK b \in Nat : b = Bias - 2 /\ b + 1 <= MaxShift
  BY BiasFacts
<1>3. Pow2[b + 1] = 2 * Pow2[b] /\ Pow2[b] \in Nat
  BY <1>2, Pow2Step, BiasFacts
<1>4. b + 1 = Bias - 1
  BY <1>2, BiasFacts
<1>5. ImplicitBit \in Nat /\ ImplicitBit >= 1
  BY GuardPowers
<1>6. ImplicitBit * (2 * Pow2[b]) = 2 * (ImplicitBit * Pow2[b])
  BY <1>3, <1>5, Z3
<1>. QED BY <1>1, <1>2, <1>3, <1>4, <1>5, <1>6

LEMMA FrexpIs ==
  ASSUME NEW v \in Values, v.e < ExpMax, ~ IsZero(v),
         NEW r, r = Frexp(v).res, NEW j, j = Frexp(v).part
  PROVE  /\ RefOne <= 2 * Ref!Mag(r) /\ Ref!Mag(r) < RefOne
         /\ Ref!Signed(r) * Over(j) = Ref!Signed(v) * Under(j)
         /\ Ldexp(r, j) = v /\ j \in Int
<1>. DEFINE m == ImplicitBit + NormalFraction(v)
            b == Bias - 2
            M == Ref!Mag(v)
            P == Pow2[b]
            R == Ref!Mag(r)
<1>1. r = [s |-> v.s, e |-> Bias - 1, f |-> NormalFraction(v)] /\ j = TrueExponent(v) + 1
  BY FiniteClasses, Zenon DEF Frexp
<1>2. /\ m \in Nat /\ ImplicitBit <= m /\ m < 2 * ImplicitBit
      /\ NormalFraction(v) \in Nat /\ NormalFraction(v) < ImplicitBit
      /\ P \in Nat /\ P >= 1
      /\ j \in Scales /\ InTable(j) /\ j \in Int
      /\ (m * P) * Over(j) = M * Under(j)
  <2>1. j = TrueExponent(v) + (Bias - 1) - b
    <3>1. TrueExponent(v) \in Int /\ Bias \in Int
      BY Renormal, BiasFacts
    <3>. QED BY <1>1, <3>1
  <2>. QED BY <2>1, BinadeOf
<1>3. /\ r \in Values /\ r.e = Bias - 1 /\ r.f = NormalFraction(v) /\ r.s = v.s
      /\ r.e < ExpMax /\ ~ IsZero(r) /\ v.s \in {0, 1}
  <2>1. v.s \in {0, 1} /\ Bias - 1 \in 0..ExpMax /\ Bias - 1 < ExpMax /\ Bias - 1 # 0
        /\ NormalFraction(v) \in 0..(ImplicitBit - 1)
    BY <1>2, FiniteClasses, BiasFacts, Fields
  <2>. QED BY <1>1, <2>1 DEF Values, IsZero
<1>4. R = m * P
  <2>1. Ref!Mag(r) = Whole(r) * Unit(Binade(r.e))
    BY <1>3, ValueAt
  <2>2. Binade(r.e) = Bias - 1 /\ r.e # 0 /\ (Bias - 1) - 1 = Bias - 2
    BY <1>3, BiasFacts DEF Binade
  <2>3. Whole(r) = m
    BY <1>2, <1>3, <2>2, Fields DEF Whole
  <2>. QED BY <2>1, <2>2, <2>3 DEF Unit
<1>5. M \in Nat /\ ImplicitBit \in Nat /\ RefOne = 2 * (ImplicitBit * P)
  BY FiniteClasses, OneIs
<1>6. Over(j) \in Nat /\ Under(j) \in Nat /\ Under(j) >= 1
  BY <1>2, OverUnder
<1>. HIDE DEF m, P
<1>7. RefOne <= 2 * R /\ R < RefOne
  <2>1. ImplicitBit * P <= m * P
    BY <1>2, <1>5, Z3
  <2>2. m * P < (2 * ImplicitBit) * P /\ (2 * ImplicitBit) * P = 2 * (ImplicitBit * P)
    BY <1>2, <1>5, Z3
  <2>3. m * P \in Nat /\ ImplicitBit * P \in Nat
    BY <1>2, <1>5
  <2>. QED BY <1>4, <1>5, <2>1, <2>2, <2>3
<1>8. R * Over(j) = M * Under(j)
  BY <1>2, <1>4
<1>9. Ref!Signed(r) * Over(j) = Ref!Signed(v) * Under(j)
  <2>1. Ref!Signed(r) = (IF v.s = 0 THEN R ELSE -R) /\ Ref!Signed(v) = (IF v.s = 0 THEN M ELSE -M)
    BY <1>3, Zenon DEF Ref!Signed
  <2>2. R \in Nat
    BY <1>3, FiniteClasses
  <2>. DEFINE o == Over(j)
              u == Under(j)
  <2>. HIDE DEF R, M, o, u
  <2>3. o \in Nat /\ u \in Nat
    BY <1>6 DEF o, u
  <2>4. R * o = M * u
    BY <1>8 DEF o, u
  <2>5. (-R) * o = -(R * o) /\ (-M) * u = -(M * u)
    BY <1>5, <2>2, <2>3, Z3
  <2>. QED BY <2>1, <2>4, <2>5 DEF o, u
<1>10. Ldexp(r, j) = v
  <2>1. Ldexp(r, j) = Ref!Round(r.s, R * Over(j), Under(j), "RNE").res
    BY <1>2, <1>3, LdexpRounds
  <2>2. Ref!Round(v.s, M * Under(j), Under(j), "RNE").res = v
    BY <1>6, ExactScaled
  <2>. QED BY <1>3, <1>8, <2>1, <2>2
<1>. QED BY <1>2, <1>7, <1>9, <1>10

LEMMA IlogbIs ==
  ASSUME NEW v \in Values, v.e < ExpMax, ~ IsZero(v), NEW j, j = Ilogb(v)
  PROVE  /\ j \in Int
         /\ RefOne * Over(j) <= Ref!Mag(v) * Under(j)
         /\ Ref!Mag(v) * Under(j) < 2 * (RefOne * Over(j))
<1>. DEFINE m == ImplicitBit + NormalFraction(v)
            b == Bias - 1
            P == Pow2[b]
            o == Over(j)
<1>1. j = TrueExponent(v)
  <2>1. v.e # ExpMax
    BY Fields DEF Values
  <2>. QED BY <2>1, Zenon DEF Ilogb
<1>2. /\ m \in Nat /\ ImplicitBit <= m /\ m < 2 * ImplicitBit
      /\ P \in Nat /\ P >= 1 /\ InTable(j) /\ j \in Int
      /\ (m * P) * Over(j) = Ref!Mag(v) * Under(j)
  <2>1. j = TrueExponent(v) + (Bias - 1) - b
    <3>1. TrueExponent(v) \in Int /\ Bias \in Int
      BY Renormal, BiasFacts
    <3>. QED BY <1>1, <3>1
  <2>. QED BY <2>1, BinadeOf
<1>3. RefOne = ImplicitBit * P /\ ImplicitBit \in Nat /\ ImplicitBit >= 1
  BY OneIs
<1>4. o \in Nat /\ o >= 1
  BY <1>2, OverUnder
<1>. HIDE DEF m, P, o
<1>5. (ImplicitBit * P) * o <= (m * P) * o /\ (m * P) * o < 2 * ((ImplicitBit * P) * o)
  <2>. DEFINE k == P * o
  <2>1. k \in Nat /\ k >= 1
    BY <1>2, <1>4, Z3
  <2>2. (ImplicitBit * P) * o = ImplicitBit * k /\ (m * P) * o = m * k
    BY <1>2, <1>3, <1>4, Z3
  <2>. HIDE DEF k
  <2>3. ImplicitBit * k <= m * k
    BY <1>2, <1>3, <2>1, Z3
  <2>4. m * k < (2 * ImplicitBit) * k /\ (2 * ImplicitBit) * k = 2 * (ImplicitBit * k)
    BY <1>2, <1>3, <2>1, Z3
  <2>. QED BY <2>2, <2>3, <2>4
<1>. QED BY <1>2, <1>3, <1>5 DEF o
(* 2^n is above n.                                                         *)
LEMMA PowerAbove == \A n \in 0..MaxShift : Pow2[n] \in Nat /\ Pow2[n] >= n + 1
<1>. DEFINE T == {n \in 0..MaxShift : ~ (Pow2[n] >= n + 1)}
<1>1. SUFFICES ASSUME T # {} PROVE FALSE
  BY Pow2Step
<1>2. T \subseteq Nat
  OBVIOUS
<1>. HIDE DEF T
<1>3. PICK x \in T : \A y \in T : x <= y
  BY <1>1, <1>2, Least
<1>4. x \in 0..MaxShift /\ ~ (Pow2[x] >= x + 1)
  BY <1>3 DEF T
<1>5. x # 0
  BY <1>4, Pow2Step
<1>6. x - 1 \in 0..MaxShift /\ x - 1 \notin T
  BY <1>3, <1>4, <1>5, Widths
<1>7. Pow2[x - 1] >= (x - 1) + 1
  BY <1>6 DEF T
<1>8. Pow2[(x - 1) + 1] = 2 * Pow2[x - 1] /\ (x - 1) + 1 = x
  BY <1>4, <1>5, Pow2Step, Widths
<1>. QED BY <1>4, <1>6, <1>7, <1>8, Pow2Step

(* An integer of at most F + 1 bits, or 2^(F + 1), shifted to the place of *)
(* a significand without a loss.                                           *)
LEMMA ShiftedExactly ==
  ASSUME NEW g \in Nat, g >= 1, g <= Bias + FracBits
  PROVE  \E h \in Nat :
           /\ WordBits - 1 - Clz(g) = h /\ h <= Bias
           /\ \E w \in Nat :
                /\ (g * Pow2[FracBits]) \div Pow2[h] = w
                /\ w * Pow2[h] = g * Pow2[FracBits]
                /\ ImplicitBit <= w /\ w < 2 * ImplicitBit
<1>. DEFINE F == FracBits
<1>1. g <= Pow2[F + 1] /\ F \in Nat /\ F + 1 <= WordBits /\ F + 2 <= WordBits
      /\ WordBits <= MaxShift /\ WordBits \in Nat /\ MaxShift \in Nat
  <2>1. Bias + F <= Pow2[F + 1]
    BY IntegralAssumption
  <2>2. /\ F \in Nat /\ F + 1 <= WordBits /\ F + 2 <= WordBits
        /\ WordBits <= MaxShift /\ WordBits \in Nat /\ MaxShift \in Nat
    BY Widths
  <2>3. Pow2[F + 1] \in Nat
    BY <2>2, Pow2Step
  <2>. QED BY <2>1, <2>2, <2>3, BiasFacts
<1>2. Pow2[F] \in Nat /\ Pow2[F] >= 1 /\ Pow2[F + 1] = 2 * Pow2[F] /\ Pow2[F] = ImplicitBit
  BY <1>1, Pow2Step, Pow2Positive DEF ImplicitBit
<1>3. g < Pow2[WordBits] /\ Pow2[WordBits] \in Nat
  <2>1. PICK a \in Nat : a = F + 1
    BY <1>1
  <2>2. a < WordBits /\ a <= WordBits
    BY <1>1, <2>1
  <2>3. 2 * Pow2[a] <= Pow2[WordBits] /\ Pow2[WordBits] \in Nat /\ Pow2[a] \in Nat
    BY <1>1, <2>2, Pow2Monotone, Pow2Step
  <2>. QED BY <1>1, <1>2, <2>1, <2>3
<1>4. PICK h \in 0..(WordBits - 1) :
            Clz(g) = WordBits - (h + 1) /\ Pow2[h] <= g /\ g < Pow2[h + 1]
  BY <1>3, ClzWord
<1>5. h \in Nat /\ h <= MaxShift /\ WordBits - 1 - Clz(g) = h
  BY <1>1, <1>4
<1>6. Pow2[h] \in Nat /\ Pow2[h] >= 1
  BY <1>5, Pow2Positive
<1>7. h <= Bias
  <2>1. SUFFICES ASSUME h > Bias PROVE FALSE
    BY <1>5, BiasFacts
  <2>2. PICK B \in Nat : B = Bias /\ B + 1 <= h /\ B + 1 <= MaxShift /\ B \in 0..MaxShift
    BY <1>5, <2>1, BiasFacts
  <2>3. PICK c \in Nat : c = B + 1
    OBVIOUS
  <2>4. Pow2[c] <= Pow2[h]
    BY <1>5, <2>2, <2>3, Pow2Monotone
  <2>5. Pow2[c] = 2 * Pow2[B] /\ Pow2[B] \in Nat /\ Pow2[B] >= B + 1
    BY <2>2, <2>3, Pow2Step, PowerAbove
  <2>. QED BY <1>4, <1>6, <2>2, <2>4, <2>5, BiasFacts
<1>8. \E w \in Nat : w * Pow2[h] = g * Pow2[F] /\ ImplicitBit <= w /\ w < 2 * ImplicitBit
  <2>1. CASE h <= F
    <3>1. F < MaxShift
      BY <1>1
    <3>2. /\ g * Pow2[F - h] \in Nat /\ Pow2[F] <= g * Pow2[F - h]
          /\ g * Pow2[F - h] < Pow2[F + 1]
      BY <1>1, <1>4, <1>5, <2>1, <3>1, ShiftToTop
    <3>3. PICK d \in Nat : d = F - h
      BY <1>1, <1>5, <2>1
    <3>4. Pow2[d + h] = Pow2[d] * Pow2[h] /\ Pow2[d] \in Nat /\ d + h = F
      <4>1. d + h = F /\ F <= MaxShift /\ d \in 0..MaxShift
        BY <1>1, <1>5, <2>1, <3>3
      <4>. QED BY <1>5, <4>1, Pow2Sum, Pow2Step
    <3>. DEFINE A == Pow2[d]
                H == Pow2[h]
    <3>5. A \in Nat /\ H \in Nat /\ Pow2[F] = A * H
      BY <1>6, <3>4
    <3>. HIDE DEF A, H
    <3>6. (g * A) * H = g * (A * H)
      BY <3>5, Z3
    <3>7. g * A \in Nat /\ ImplicitBit <= g * A /\ g * A < 2 * ImplicitBit
      BY <1>2, <3>2, <3>3 DEF A
    <3>. QED BY <3>5, <3>6, <3>7 DEF H
  <2>2. CASE h > F
    <3>1. PICK a \in Nat : a = F + 1
      BY <1>1
    <3>2. a <= h
      BY <1>1, <1>5, <2>2, <3>1
    <3>3. Pow2[a] <= Pow2[h] /\ Pow2[a] \in Nat
      BY <1>1, <1>5, <3>1, <3>2, Pow2Monotone, Pow2Step
    <3>4. g = Pow2[h]
      BY <1>1, <1>4, <1>6, <3>1, <3>3
    <3>5. ImplicitBit * Pow2[h] = g * Pow2[F]
      BY <1>2, <1>6, <3>4, Z3
    <3>6. ImplicitBit \in Nat /\ ImplicitBit < 2 * ImplicitBit
      BY <1>2
    <3>. QED BY <3>5, <3>6
  <2>. QED BY <1>1, <1>5, <2>1, <2>2
<1>9. PICK w \in Nat : w * Pow2[h] = g * Pow2[F] /\ ImplicitBit <= w /\ w < 2 * ImplicitBit
  BY <1>8
<1>10. (g * Pow2[F]) \div Pow2[h] = w
  <2>. DEFINE H == Pow2[h]
  <2>1. H \in Nat /\ 0 < H
    BY <1>6
  <2>. HIDE DEF H
  <2>2. (w * H + 0) \div H = w
    BY <2>1, Join
  <2>3. w * H + 0 = g * Pow2[F]
    <3>1. w * H \in Int
      BY <2>1
    <3>. QED BY <1>9, <3>1 DEF H
  <2>. QED BY <2>2, <2>3 DEF H
<1>. QED BY <1>5, <1>7, <1>9, <1>10

LEMMA IntegerIs ==
  ASSUME NEW n \in Int, -(Bias + FracBits) <= n, n <= Bias
  PROVE  Ref!Signed(FromI32(n)) = n * RefOne
<1>1. Bias \in Nat /\ FracBits \in Nat /\ RefOne \in Nat /\ ImplicitBit \in Nat /\ ImplicitBit >= 1
  BY BiasFacts, GuardPowers
<1>2. CASE n = 0
  <2>1. FromI32(n) = SignedZero(0)
    BY <1>2, Zenon DEF FromI32
  <2>2. SignedZero(0) \in Values /\ SignedZero(0).e < ExpMax /\ IsZero(SignedZero(0))
    BY SpecialResults, BiasFacts DEF SignedZero, IsZero
  <2>3. Ref!Signed(SignedZero(0)) = 0
    BY <2>2, SignedFacts
  <2>4. 0 * RefOne = 0
    BY <1>1
  <2>. QED BY <1>2, <2>1, <2>3, <2>4
<1>3. CASE n # 0
  <2>. DEFINE g == IF n < 0 THEN -n ELSE n
              s == IF n < 0 THEN 1 ELSE 0
  <2>1. g \in Nat /\ g >= 1 /\ g <= Bias + FracBits /\ s \in {0, 1}
    BY <1>1, <1>3
  <2>2. n * RefOne = (IF s = 0 THEN g * RefOne ELSE -(g * RefOne))
    BY <1>1, Z3
  <2>3. FromI32(n) = [s |-> s, e |-> (WordBits - 1 - Clz(g)) + Bias,
                      f |-> ((g * Pow2[FracBits]) \div Pow2[WordBits - 1 - Clz(g)]) % ImplicitBit]
    BY <1>3, Zenon DEF FromI32
  <2>. HIDE DEF g, s
  <2>4. PICK h \in Nat, w \in Nat :
           /\ WordBits - 1 - Clz(g) = h /\ h <= Bias
           /\ (g * Pow2[FracBits]) \div Pow2[h] = w
           /\ w * Pow2[h] = g * Pow2[FracBits]
           /\ ImplicitBit <= w /\ w < 2 * ImplicitBit
    BY <2>1, ShiftedExactly
  <2>5. w % ImplicitBit = w - ImplicitBit
    <3>1. PICK r \in Nat : r = w - ImplicitBit /\ r < ImplicitBit
      BY <1>1, <2>4
    <3>2. (1 * ImplicitBit + r) % ImplicitBit = r
      BY <1>1, <3>1, Join
    <3>3. 1 * ImplicitBit + r = w
      BY <1>1, <3>1
    <3>. QED BY <3>1, <3>2, <3>3
  <2>. DEFINE v == [s |-> s, e |-> h + Bias, f |-> w - ImplicitBit]
  <2>6. FromI32(n) = v
    BY <2>3, <2>4, <2>5
  <2>7. v \in Values /\ v.e = h + Bias /\ v.e < ExpMax /\ v.f = w - ImplicitBit /\ v.s = s
    <3>1. h + Bias \in 0..ExpMax /\ h + Bias < ExpMax /\ w - ImplicitBit \in 0..(ImplicitBit - 1)
      BY <1>1, <2>4, BiasFacts
    <3>. QED BY <2>1, <3>1 DEF Values
  <2>. HIDE DEF v
  <2>8. Ref!Mag(v) = w * Pow2[h + Bias - 1]
    <3>1. Ref!Mag(v) = Whole(v) * Unit(Binade(v.e))
      BY <2>7, ValueAt
    <3>2. v.e # 0 /\ Binade(v.e) = h + Bias
      BY <2>7, BiasFacts DEF Binade
    <3>3. Whole(v) = w
      BY <1>1, <2>7, <3>2 DEF Whole
    <3>4. Unit(h + Bias) = Pow2[h + Bias - 1]
      BY <1>1 DEF Unit
    <3>5. Ref!Mag(v) = w * Unit(h + Bias)
      BY <3>1, <3>2, <3>3, Zenon
    <3>. QED BY <3>4, <3>5, Zenon
  <2>9. w * Pow2[h + Bias - 1] = g * RefOne
    <3>1. PICK c \in Nat : c = Bias - 1 /\ h + c = h + Bias - 1 /\ h + c <= MaxShift
      BY <2>4, BiasFacts
    <3>2. Pow2[h + c] = Pow2[h] * Pow2[c] /\ Pow2[h] \in Nat /\ Pow2[c] \in Nat
      BY <3>1, Pow2Sum, Pow2Step, BiasFacts
    <3>3. RefOne = Pow2[FracBits] * Pow2[c] /\ Pow2[FracBits] \in Nat
      BY <1>1, <3>1, OneIs DEF ImplicitBit
    <3>. DEFINE H == Pow2[h]
                C == Pow2[c]
                I == Pow2[FracBits]
    <3>4. H \in Nat /\ C \in Nat /\ I \in Nat /\ w * H = g * I
          /\ Pow2[h + Bias - 1] = H * C /\ RefOne = I * C
      BY <2>4, <3>1, <3>2, <3>3
    <3>. HIDE DEF H, C, I
    <3>5. w * (H * C) = (w * H) * C /\ g * (I * C) = (g * I) * C
      BY <2>1, <3>4, Z3
    <3>. QED BY <3>4, <3>5
  <2>10. Ref!Signed(v) = IF s = 0 THEN Ref!Mag(v) ELSE -Ref!Mag(v)
    BY <2>7, Zenon DEF Ref!Signed
  <2>. QED BY <2>2, <2>6, <2>8, <2>9, <2>10 DEF g, s
<1>. QED BY <1>2, <1>3

(* ScaledOnce: ldexp rounds once, from and to subnormal numbers and beyond *)
(* its clamp; frexp's parts are the operand, which ldexp finds again;      *)
(* ilogb and logb tell the binade.                                         *)
THEOREM ScaledOnceAlways == Spec => []ScaledOnce
<1>1. IInv => ScaledOnce
  <2>. SUFFICES ASSUME IInv, pc = "done" PROVE ScaledOnce
    BY DEF ScaledOnce, Returned
  <2>. DEFINE v == call.v
              nonzero == ~ IsZero(v) /\ v.e < ExpMax
              times(n) == IF n >= 0 THEN <<Pow2[n], 1>> ELSE <<1, Pow2[-n]>>
  <2>1. ScalingsComputed
    BY DEF IInv, Computed
  <2>2. call.op \in {"ldexp", "frexp", "ilogb", "logb"} => v \in Values
    BY CallTypes DEF IInv
  <2>3. \A n \in Int : times(n)[1] = Over(n) /\ times(n)[2] = Under(n)
    BY DEF Over, Under
  <2>. HIDE DEF v, times
  <2>4. ASSUME call.op = "ldexp", nonzero
        PROVE  res = Ref!Round(v.s, Ref!Mag(v) * times(call.n)[1], times(call.n)[2], "RNE").res
    <3>1. v \in Values /\ call.n \in Scales /\ call.n \in Int /\ res = Ldexp(v, call.n)
      <4>1. call.n \in Scales
        BY <2>4, CallTypes DEF IInv
      <4>2. call.n \in Int
        BY <4>1, IntegralAssumption DEF Scales
      <4>. QED BY <2>1, <2>2, <2>4, <4>1, <4>2 DEF ScalingsComputed, v
    <3>2. Ldexp(v, call.n) = Ref!Round(v.s, Ref!Mag(v) * Over(call.n), Under(call.n), "RNE").res
      BY <2>4, <3>1, LdexpRounds
    <3>. QED BY <2>3, <3>1, <3>2
  <2>5. ASSUME call.op = "frexp", nonzero
        PROVE  /\ RefOne <= 2 * Ref!Mag(res) /\ Ref!Mag(res) < RefOne
               /\ Ref!Signed(res) * times(part)[1] = Ref!Signed(v) * times(part)[2]
               /\ Ldexp(res, part) = v
    <3>1. v \in Values /\ res = Frexp(v).res /\ part = Frexp(v).part
      BY <2>1, <2>2, <2>5 DEF ScalingsComputed, v
    <3>2. /\ RefOne <= 2 * Ref!Mag(res) /\ Ref!Mag(res) < RefOne
          /\ Ref!Signed(res) * Over(part) = Ref!Signed(v) * Under(part)
          /\ Ldexp(res, part) = v /\ part \in Int
      BY <2>5, <3>1, FrexpIs
    <3>. QED BY <2>3, <3>2
  <2>6. ASSUME call.op = "ilogb", nonzero
        PROVE  LET one == RefOne * times(res)[1]
                   mag == Ref!Mag(v) * times(res)[2]
               IN  one <= mag /\ mag < 2 * one
    <3>1. v \in Values /\ res = Ilogb(v)
      BY <2>1, <2>2, <2>6 DEF ScalingsComputed, v
    <3>2. /\ res \in Int
          /\ RefOne * Over(res) <= Ref!Mag(v) * Under(res)
          /\ Ref!Mag(v) * Under(res) < 2 * (RefOne * Over(res))
      BY <2>6, <3>1, IlogbIs
    <3>. QED BY <2>3, <3>2
  <2>7. ASSUME call.op = "logb", nonzero
        PROVE  Ref!Signed(res) = Ilogb(v) * RefOne
    <3>1. v \in Values /\ res = Logb(v)
      BY <2>1, <2>2, <2>7 DEF ScalingsComputed, v
    <3>2. Logb(v) = FromI32(Ilogb(v)) /\ Ilogb(v) = TrueExponent(v)
      <4>1. ~ IsNaN(v) /\ ~ IsInf(v) /\ v.e # ExpMax
        BY <2>7, <3>1, FiniteClasses, Fields DEF Values
      <4>. QED BY <2>7, <4>1, Zenon DEF Logb, Ilogb
    <3>3. TrueExponent(v) \in Int /\ TrueExponent(v) <= Bias
          /\ -(Bias + FracBits) <= TrueExponent(v)
      BY <2>7, <3>1, BinadeOf, BiasFacts
    <3>. QED BY <3>1, <3>2, <3>3, IntegerIs
  <2>8. /\ (Returned({"ldexp"}) /\ nonzero) =>
             res = Ref!Round(v.s, Ref!Mag(v) * times(call.n)[1], times(call.n)[2], "RNE").res
        /\ (Returned({"frexp"}) /\ nonzero) =>
             /\ RefOne <= 2 * Ref!Mag(res) /\ Ref!Mag(res) < RefOne
             /\ Ref!Signed(res) * times(part)[1] = Ref!Signed(v) * times(part)[2]
             /\ Ldexp(res, part) = v
        /\ (Returned({"ilogb"}) /\ nonzero) =>
             LET one == RefOne * times(res)[1]
                 mag == Ref!Mag(v) * times(res)[2]
             IN  one <= mag /\ mag < 2 * one
        /\ (Returned({"logb"}) /\ nonzero) => Ref!Signed(res) = Ilogb(v) * RefOne
    BY <2>4, <2>5, <2>6, <2>7, Zenon DEF Returned
  <2>. QED BY <2>8, Zenon DEF ScaledOnce, v, times
<1>. QED BY <1>1, InvInit, InvInductive, PTL DEF Spec
=============================================================================

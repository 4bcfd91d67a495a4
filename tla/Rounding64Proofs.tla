-------------------------- MODULE Rounding64Proofs --------------------------
(***************************************************************************)
(* Facts about Format64 and Pack64 for every format: first the word        *)
(* arithmetic - powers of two, leading zeros, jamming shifts - and then    *)
(* that round_and_pack rounds correctly: what it computes from a           *)
(* normalised significand is what IEEE 754 prescribes for every number     *)
(* that significand stands for.  Inductions are the least-element          *)
(* principle of the natural numbers: a statement that fails for some       *)
(* number fails for a least one.                                           *)
(***************************************************************************)
EXTENDS Pack64, Reference64, WellFoundedInduction, TLAPS

Less == {ss \in Nat \X Nat : ss[1] < ss[2]}

(* Every non-empty set of natural numbers has a least element.             *)
LEMMA Least ==
  ASSUME NEW T, T \subseteq Nat, T # {}
  PROVE  \E x \in T : \A y \in T : x <= y
<1>1. IsWellFoundedOn(Less, Nat)
  BY NatLessThanWellFounded, Zenon DEF OpToRel, Less
<1>2. PICK x \in T : \A y \in T : ~ (<<y, x>> \in Less)
  BY <1>1, WFMin, Zenon
<1>3. ASSUME NEW y \in T PROVE x <= y
  <2>1. ~ (y < x)
    BY <1>2 DEF Less
  <2>. QED BY <2>1
<1>. QED BY <1>3

(* The widths are natural numbers, and a double-width word is within the   *)
(* table of powers.                                                        *)
LEMMA Widths ==
  /\ FracBits \in Nat /\ GuardBits \in Nat /\ ExpBits \in Nat /\ MaxShift \in Nat
  /\ WordBits \in Nat /\ ImplicitAt \in Nat
  /\ GuardBits >= 3 /\ FracBits >= 2 /\ ExpBits >= 2
  /\ ImplicitAt = FracBits + GuardBits /\ WordBits = ImplicitAt + 3
  /\ 2 * WordBits <= MaxShift
  BY FormatAssumption DEF FormatAssumption, WordBits, ImplicitAt

(* A power of two is a positive number, twice the one before.              *)
LEMMA Pow2Step ==
  /\ \A n \in 0..MaxShift : Pow2[n] \in Nat
  /\ Pow2[0] = 1
  /\ \A n \in Nat : n + 1 <= MaxShift => Pow2[n + 1] = 2 * Pow2[n]
<1>1. \A n \in Nat : n + 1 <= MaxShift => n \in 0..(MaxShift - 1)
  BY Widths
<1>. QED BY <1>1, Pow2Assumption DEF Pow2Assumption

LEMMA Pow2Positive == \A n \in 0..MaxShift : Pow2[n] \in Nat /\ Pow2[n] >= 1
<1>. DEFINE T == {n \in 0..MaxShift : ~ (Pow2[n] >= 1)}
<1>1. SUFFICES ASSUME T # {} PROVE FALSE
  BY Pow2Step
<1>2. T \subseteq Nat
  OBVIOUS
<1>. HIDE DEF T
<1>3. PICK x \in T : \A y \in T : x <= y
  BY <1>1, <1>2, Least
<1>4. x \in 0..MaxShift /\ ~ (Pow2[x] >= 1)
  BY <1>3 DEF T
<1>5. x # 0
  BY <1>4, Pow2Step
<1>6. x - 1 \in 0..MaxShift /\ x - 1 \notin T
  BY <1>3, <1>4, <1>5, Widths
<1>7. Pow2[x - 1] >= 1
  BY <1>6 DEF T
<1>8. Pow2[(x - 1) + 1] = 2 * Pow2[x - 1] /\ (x - 1) + 1 = x
  BY <1>4, <1>5, Pow2Step, Widths
<1>. QED BY <1>4, <1>6, <1>7, <1>8, Pow2Step

(* 2^(m+n) = 2^m * 2^n                                                     *)
LEMMA Pow2Sum ==
  ASSUME NEW m \in Nat, NEW n \in Nat, m + n <= MaxShift
  PROVE  Pow2[m + n] = Pow2[m] * Pow2[n]
<1>. DEFINE T == {i \in Nat : m + i <= MaxShift /\ Pow2[m + i] # Pow2[m] * Pow2[i]}
<1>1. SUFFICES ASSUME T # {} PROVE FALSE
  OBVIOUS
<1>2. T \subseteq Nat
  OBVIOUS
<1>. HIDE DEF T
<1>3. PICK x \in T : \A y \in T : x <= y
  BY <1>1, <1>2, Least
<1>4. x \in Nat /\ m + x <= MaxShift /\ Pow2[m + x] # Pow2[m] * Pow2[x]
  BY <1>3 DEF T
<1>5. x # 0
  BY <1>4, Pow2Step, Widths
<1>6. x - 1 \in Nat /\ m + (x - 1) <= MaxShift /\ x - 1 \notin T
  BY <1>3, <1>4, <1>5, Widths
<1>7. Pow2[m + (x - 1)] = Pow2[m] * Pow2[x - 1]
  BY <1>6 DEF T
<1>8. Pow2[x] = 2 * Pow2[x - 1]
  <2>1. (x - 1) + 1 <= MaxShift /\ (x - 1) + 1 = x
    BY <1>4, <1>5, Widths
  <2>. QED BY <2>1, <1>6, Pow2Step
<1>9. Pow2[m + x] = 2 * Pow2[m + (x - 1)]
  <2>1. m + (x - 1) \in Nat /\ (m + (x - 1)) + 1 <= MaxShift /\ (m + (x - 1)) + 1 = m + x
    BY <1>4, <1>5, <1>6, Widths
  <2>. QED BY <2>1, Pow2Step
<1>10. Pow2[m] \in Nat /\ Pow2[x - 1] \in Nat
  BY <1>4, <1>6, Pow2Step, Widths
<1>11. Pow2[m] * (2 * Pow2[x - 1]) = 2 * (Pow2[m] * Pow2[x - 1])
  BY <1>10
<1>. QED BY <1>4, <1>7, <1>8, <1>9, <1>11

LEMMA Pow2Monotone ==
  ASSUME NEW m \in Nat, NEW n \in Nat, m <= n, n <= MaxShift
  PROVE  Pow2[m] <= Pow2[n] /\ (m < n => 2 * Pow2[m] <= Pow2[n])
<1>1. Pow2[n] = Pow2[m] * Pow2[n - m]
  <2>1. n - m \in Nat /\ m + (n - m) = n
    OBVIOUS
  <2>. QED BY <2>1, Pow2Sum
<1>2. m \in 0..MaxShift /\ n - m \in 0..MaxShift
  BY Widths
<1>3. Pow2[m] \in Nat /\ Pow2[n - m] \in Nat /\ Pow2[n - m] >= 1
  BY <1>2, Pow2Positive
<1>4. Pow2[m] <= Pow2[n]
  BY <1>1, <1>3
<1>5. ASSUME m < n PROVE 2 * Pow2[m] <= Pow2[n]
  <2>1. n - m - 1 \in 0..MaxShift /\ (n - m - 1) + 1 = n - m
    BY <1>2, <1>5, Widths
  <2>2. Pow2[n - m] = 2 * Pow2[n - m - 1] /\ Pow2[n - m - 1] \in Nat /\ Pow2[n - m - 1] >= 1
    <3>1. n - m - 1 \in Nat /\ (n - m - 1) + 1 <= MaxShift
      BY <2>1, <1>2, Widths
    <3>2. Pow2[(n - m - 1) + 1] = 2 * Pow2[n - m - 1]
      BY <3>1, Pow2Step
    <3>. QED BY <2>1, <3>2, Pow2Positive
  <2>3. Pow2[n - m] >= 2
    BY <2>2
  <2>. QED BY <1>1, <1>3, <2>3
<1>. QED BY <1>4, <1>5

---------------------------------------------------------------------------
(* A positive word has a highest bit, and Clz counts the zeros above it.   *)
LEMMA ClzWord ==
  ASSUME NEW x \in Nat, x > 0, x < Pow2[WordBits]
  PROVE  \E h \in 0..(WordBits - 1) :
            Clz(x) = WordBits - (h + 1) /\ Pow2[h] <= x /\ x < Pow2[h + 1]
<1>. DEFINE Above == {n \in 0..WordBits : x < Pow2[n]}
            Is(n) == x < Pow2[n] /\ (n > 0 => Pow2[n - 1] <= x)
<1>1. Above \subseteq Nat /\ WordBits \in Above
  BY Widths
<1>2. PICK n \in Above : \A y \in Above : n <= y
  <2>. HIDE DEF Above
  <2>. QED BY <1>1, Least
<1>3. n \in 0..WordBits /\ x < Pow2[n]
  BY <1>2
<1>4. n # 0
  BY <1>3, Pow2Step
<1>5. Pow2[n - 1] <= x
  <2>1. n - 1 \in 0..WordBits /\ n - 1 \notin Above
    BY <1>2, <1>3, <1>4, Widths
  <2>2. Pow2[n - 1] \in Nat
    BY <2>1, Pow2Step, Widths
  <2>. QED BY <2>1, <2>2
<1>6. \E c \in 0..WordBits : Is(c)
  BY <1>3, <1>5
<1>. DEFINE c == CHOOSE i \in 0..WordBits : Is(i)
<1>7. c \in 0..WordBits /\ Is(c)
  <2>. HIDE DEF Is
  <2>. QED BY <1>6
<1>8. Clz(x) = WordBits - c
  BY DEF Clz
<1>. HIDE DEF c
<1>9. c # 0
  BY <1>7, Pow2Step
<1>10. c - 1 \in 0..(WordBits - 1) /\ (c - 1) + 1 = c
  BY <1>7, <1>9, Widths
<1>11. c > 0 /\ Pow2[c - 1] <= x /\ x < Pow2[(c - 1) + 1]
  BY <1>7, <1>9, <1>10
<1>. QED BY <1>8, <1>10, <1>11

(* Shifting a word until its highest bit is at bit t.                      *)
LEMMA ShiftToTop ==
  ASSUME NEW h \in Nat, NEW t \in Nat, h <= t, t < MaxShift,
         NEW x \in Nat, Pow2[h] <= x, x < Pow2[h + 1]
  PROVE  /\ x * Pow2[t - h] \in Nat
         /\ Pow2[t] <= x * Pow2[t - h]
         /\ x * Pow2[t - h] < Pow2[t + 1]
<1>1. t - h \in Nat /\ h + (t - h) = t /\ (h + 1) + (t - h) = t + 1
  OBVIOUS
<1>2. Pow2[t] = Pow2[h] * Pow2[t - h] /\ Pow2[t + 1] = Pow2[h + 1] * Pow2[t - h]
  <2>1. Pow2[h + (t - h)] = Pow2[h] * Pow2[t - h]
    BY <1>1, Widths, Pow2Sum
  <2>2. Pow2[(h + 1) + (t - h)] = Pow2[h + 1] * Pow2[t - h]
    BY <1>1, Widths, Pow2Sum
  <2>. QED BY <1>1, <2>1, <2>2
<1>3. Pow2[t - h] \in Nat /\ Pow2[t - h] >= 1 /\ Pow2[h] \in Nat /\ Pow2[h + 1] \in Nat
  BY <1>1, Widths, Pow2Positive
<1>4. x * Pow2[t - h] \in Nat
  BY <1>3
<1>5. Pow2[h] * Pow2[t - h] <= x * Pow2[t - h]
  BY <1>3
<1>6. x * Pow2[t - h] < Pow2[h + 1] * Pow2[t - h]
  BY <1>3
<1>. QED BY <1>2, <1>4, <1>5, <1>6

(* Jamming keeps a number below a power of two it was below.               *)
LEMMA StickyBound ==
  ASSUME NEW x \in Nat, NEW lost \in BOOLEAN
  PROVE  /\ OrSticky(x, lost) \in Nat
         /\ x <= OrSticky(x, lost)
         /\ \A n \in Nat : x < 2 * n => OrSticky(x, lost) < 2 * n
<1>1. CASE lost /\ x % 2 = 0
  <2>1. OrSticky(x, lost) = x + 1
    BY <1>1 DEF OrSticky
  <2>2. \A n \in Nat : x < 2 * n => x + 1 < 2 * n
    BY <1>1
  <2>. QED BY <2>1, <2>2
<1>2. CASE ~ (lost /\ x % 2 = 0)
  BY <1>2 DEF OrSticky
<1>. QED BY <1>1, <1>2

LEMMA JamBound ==
  ASSUME NEW x \in Nat, NEW n \in Nat, NEW b \in 1..WordBits, x < Pow2[b]
  PROVE  ShiftRightJamming(x, n) \in Nat /\ ShiftRightJamming(x, n) < Pow2[b]
<1>1. b - 1 \in Nat /\ b <= MaxShift /\ Pow2[b] = 2 * Pow2[b - 1] /\ Pow2[b - 1] \in Nat
  <2>1. b - 1 \in Nat /\ (b - 1) + 1 <= MaxShift /\ (b - 1) + 1 = b /\ b - 1 \in 0..MaxShift
    BY Widths
  <2>. QED BY <2>1, Pow2Step
<1>2. CASE n >= WordBits
  <2>1. 0 < 2 * Pow2[b - 1]
    BY <1>1
  <2>2. ShiftRightJamming(x, n) = OrSticky(0, x # 0) /\ (x # 0) \in BOOLEAN
    BY <1>2 DEF ShiftRightJamming
  <2>. QED BY <1>1, <2>1, <2>2, StickyBound
<1>3. CASE ~ (n >= WordBits)
  <2>1. n \in 0..MaxShift
    BY <1>3, Widths
  <2>2. Pow2[n] \in Nat /\ Pow2[n] >= 1
    BY <2>1, Pow2Positive
  <2>3. x \div Pow2[n] \in Nat /\ x \div Pow2[n] <= x
    BY <2>2
  <2>4. ShiftRightJamming(x, n) = OrSticky(x \div Pow2[n], (x % Pow2[n]) # 0)
    BY <1>3 DEF ShiftRightJamming
  <2>5. x \div Pow2[n] < 2 * Pow2[b - 1]
    BY <1>1, <2>3
  <2>6. ((x % Pow2[n]) # 0) \in BOOLEAN
    OBVIOUS
  <2>. QED BY <1>1, <2>3, <2>4, <2>5, <2>6, StickyBound
<1>. QED BY <1>2, <1>3

(* The top bit of a number is set exactly if it reaches that power of two. *)
LEMMA TopBit ==
  ASSUME NEW x \in Nat, NEW n \in Nat, n < MaxShift, x < Pow2[n + 1]
  PROVE  BitSet(x, n) <=> Pow2[n] <= x
<1>1. Pow2[n] \in Nat /\ Pow2[n] >= 1 /\ Pow2[n + 1] = 2 * Pow2[n]
  <2>1. n \in 0..MaxShift /\ n + 1 <= MaxShift
    BY Widths
  <2>. QED BY <2>1, Pow2Positive, Pow2Step
<1>2. CASE Pow2[n] <= x
  <2>1. x \div Pow2[n] = 1
    BY <1>1, <1>2
  <2>. QED BY <1>2, <2>1 DEF BitSet
<1>3. CASE x < Pow2[n]
  <2>1. x \div Pow2[n] = 0
    BY <1>1, <1>3
  <2>. QED BY <1>1, <1>3, <2>1 DEF BitSet
<1>. QED BY <1>1, <1>2, <1>3
---------------------------------------------------------------------------
(* The width of a field and the values of its contents.                    *)
LEMMA Fields ==
  /\ ExpMax \in Nat /\ ExpMax >= 3 /\ ExpMax + FracBits < MaxShift
  /\ ImplicitBit \in Nat /\ ImplicitBit = Pow2[FracBits]
  /\ Bias \in Nat /\ ExpMax = 2 * Bias + 1
<1>1. ExpBits - 1 \in Nat /\ (ExpBits - 1) + 1 = ExpBits /\ 1 <= ExpBits - 1
  BY Widths
<1>2. ExpBits <= MaxShift
  BY FormatAssumption, Widths DEF FormatAssumption
<1>3. Pow2[ExpBits] = 2 * Pow2[ExpBits - 1] /\ Pow2[ExpBits - 1] \in Nat /\ Pow2[1] = 2
  <2>1. ExpBits - 1 \in 0..MaxShift /\ 0 + 1 <= MaxShift /\ 0 \in Nat
    BY <1>1, <1>2, Widths
  <2>2. Pow2[0 + 1] = 2 * Pow2[0]
    BY <2>1, Pow2Step
  <2>. QED BY <1>1, <1>2, <2>1, <2>2, Pow2Step
<1>4. Pow2[1] <= Pow2[ExpBits - 1]
  BY <1>1, <1>2, Pow2Monotone, Widths
<1>5. FracBits \in 0..MaxShift
  BY Widths
<1>6. Pow2[FracBits] \in Nat
  BY <1>5, Pow2Step
<1>7. Pow2[ExpBits] + FracBits <= MaxShift
  BY Pow2Assumption DEF Pow2Assumption
<1>. QED BY <1>3, <1>4, <1>6, <1>7, Widths DEF ExpMax, ImplicitBit, Bias

(* A subnormal fraction has its highest bit below the implicit bit.        *)
LEMMA SubnormalHighest ==
  ASSUME NEW f \in Nat, f > 0, f < Pow2[FracBits]
  PROVE  \E h \in 0..(FracBits - 1) :
            NormaliseShift(f) = FracBits - h /\ Pow2[h] <= f /\ f < Pow2[h + 1]
<1>1. Pow2[FracBits] \in Nat
  <2>1. FracBits \in 0..MaxShift
    BY Widths
  <2>. QED BY <2>1, Pow2Step
<1>2. f < Pow2[WordBits]
  <2>1. Pow2[FracBits] <= Pow2[WordBits]
    BY Pow2Monotone, Widths
  <2>2. WordBits \in 0..MaxShift
    BY Widths
  <2>3. Pow2[WordBits] \in Nat
    BY <2>2, Pow2Step
  <2>. QED BY <1>1, <2>1, <2>3
<1>3. PICK h \in 0..(WordBits - 1) :
         Clz(f) = WordBits - (h + 1) /\ Pow2[h] <= f /\ f < Pow2[h + 1]
  BY <1>2, ClzWord
<1>4. h < FracBits
  <2>1. SUFFICES ASSUME FracBits <= h PROVE FALSE
    BY Widths
  <2>2. h \in Nat /\ h <= MaxShift
    BY Widths
  <2>3. Pow2[FracBits] <= Pow2[h]
    BY <2>1, <2>2, Pow2Monotone, Widths
  <2>4. Pow2[h] \in Nat
    BY <2>2, Pow2Step, Widths
  <2>. QED BY <1>1, <1>3, <2>3, <2>4
<1>5. NormaliseShift(f) = FracBits - h
  BY <1>3, Widths DEF NormaliseShift
<1>6. h \in 0..(FracBits - 1)
  BY <1>4, Widths
<1>. QED BY <1>3, <1>5, <1>6

(* unpack_finite_nonzero normalises every value it is called with.         *)
LEMMA UnpackNormalises ==
  ASSUME NEW v \in Values, v.e < ExpMax, ~ IsZero(v)
  PROVE  /\ Unpack(v).exp \in (1 - FracBits)..(ExpMax - 1)
         /\ \E m \in Nat : /\ Pow2[FracBits] <= m /\ m < Pow2[FracBits + 1]
                           /\ Unpack(v).sig = m * Pow2[GuardBits]
<1>1. v.e \in 0..ExpMax /\ v.f \in Nat /\ v.f < Pow2[FracBits] /\ v.s \in {0, 1}
  BY Fields DEF Values
<1>2. Pow2[FracBits] \in Nat /\ Pow2[FracBits + 1] = 2 * Pow2[FracBits]
  <2>1. FracBits + 1 <= MaxShift /\ FracBits \in 0..MaxShift /\ FracBits \in Nat
    BY Widths
  <2>. QED BY <2>1, Pow2Step
<1>3. CASE v.e = 0
  <2>1. v.f > 0
    BY <1>1, <1>3 DEF IsZero
  <2>2. PICK h \in 0..(FracBits - 1) :
           NormaliseShift(v.f) = FracBits - h /\ Pow2[h] <= v.f /\ v.f < Pow2[h + 1]
    BY <1>1, <2>1, SubnormalHighest
  <2>. DEFINE m == v.f * Pow2[FracBits - h]
  <2>3. m \in Nat /\ Pow2[FracBits] <= m /\ m < Pow2[FracBits + 1]
    <3>1. h \in Nat /\ h <= FracBits /\ FracBits < MaxShift
      BY Widths
    <3>. QED BY <3>1, <1>1, <2>2, ShiftToTop, Widths
  <2>4. Unpack(v) = [exp |-> 1 - (FracBits - h), sig |-> m * Pow2[GuardBits]]
    BY <1>3, <2>2 DEF Unpack
  <2>5. Unpack(v).exp = 1 - (FracBits - h) /\ Unpack(v).sig = m * Pow2[GuardBits]
    BY <2>4
  <2>. HIDE DEF m
  <2>6. Unpack(v).exp \in (1 - FracBits)..(ExpMax - 1)
    BY <2>5, Widths, Fields
  <2>. QED BY <2>3, <2>5, <2>6
<1>4. CASE v.e # 0
  <2>. DEFINE m == v.f + ImplicitBit
  <2>1. m \in Nat /\ Pow2[FracBits] <= m /\ m < Pow2[FracBits + 1]
    BY <1>1, <1>2, Fields
  <2>2. Unpack(v) = [exp |-> v.e, sig |-> m * Pow2[GuardBits]]
    BY <1>4 DEF Unpack
  <2>3. Unpack(v).exp = v.e /\ Unpack(v).sig = m * Pow2[GuardBits]
    BY <2>2
  <2>4. v.e \in (1 - FracBits)..(ExpMax - 1)
    BY <1>1, <1>4, Widths, Fields
  <2>. HIDE DEF m
  <2>. QED BY <2>1, <2>3, <2>4
<1>. QED BY <1>3, <1>4

(* The implicit bit of an unpacked significand is at ImplicitAt.           *)
LEMMA UnpackedSig ==
  ASSUME NEW v \in Values, v.e < ExpMax, ~ IsZero(v)
  PROVE  /\ Unpack(v).sig \in Nat
         /\ Pow2[ImplicitAt] <= Unpack(v).sig
         /\ Unpack(v).sig < Pow2[ImplicitAt + 1]
<1>1. PICK m \in Nat : /\ Pow2[FracBits] <= m /\ m < Pow2[FracBits + 1]
                       /\ Unpack(v).sig = m * Pow2[GuardBits]
  BY UnpackNormalises
<1>2. ImplicitAt - FracBits = GuardBits /\ FracBits <= ImplicitAt /\ ImplicitAt < MaxShift
  BY Widths
<1>3. FracBits \in Nat /\ ImplicitAt \in Nat
  BY Widths
<1>4. /\ m * Pow2[ImplicitAt - FracBits] \in Nat
      /\ Pow2[ImplicitAt] <= m * Pow2[ImplicitAt - FracBits]
      /\ m * Pow2[ImplicitAt - FracBits] < Pow2[ImplicitAt + 1]
  BY <1>1, <1>2, <1>3, ShiftToTop
<1>. QED BY <1>1, <1>2, <1>4

(* An unpacked significand without its guard bits.                         *)
LEMMA Significand ==
  ASSUME NEW v \in Values, v.e < ExpMax, ~ IsZero(v)
  PROVE  /\ Unpack(v).sig \div Pow2[GuardBits] \in Nat
         /\ Pow2[FracBits] <= Unpack(v).sig \div Pow2[GuardBits]
         /\ Unpack(v).sig \div Pow2[GuardBits] < Pow2[FracBits + 1]
<1>1. PICK m \in Nat : /\ Pow2[FracBits] <= m /\ m < Pow2[FracBits + 1]
                       /\ Unpack(v).sig = m * Pow2[GuardBits]
  BY UnpackNormalises
<1>2. Pow2[GuardBits] \in Nat /\ Pow2[GuardBits] >= 1
  <2>1. GuardBits \in 0..MaxShift
    BY Widths
  <2>. QED BY <2>1, Pow2Positive
<1>3. (m * Pow2[GuardBits]) \div Pow2[GuardBits] = m
  BY <1>2
<1>. QED BY <1>1, <1>3

(* What is returned for a magnitude beyond the format.                     *)
LEMMA OverflowType ==
  ASSUME NEW sign \in {0, 1}, NEW mode \in Modes
  PROVE  /\ Overflow(sign, mode).res \in Values
         /\ Overflow(sign, mode).fe \subseteq FlagSet
<1>1. ImplicitBit >= 1
  <2>1. FracBits \in 0..MaxShift
    BY Widths
  <2>. QED BY <2>1, Pow2Positive, Fields
<1>2. \A s \in {0, 1} : SignedInf(s) \in Values /\ MaxFinite(s) \in Values
  BY <1>1, Fields DEF SignedInf, MaxFinite, Values
<1>3. OverflowResult(sign, mode) \in Values
  BY <1>2 DEF OverflowResult, Modes
<1>. QED BY <1>3 DEF Overflow, FlagSet

(* round_and_pack returns a value of the format, whatever it is given: the *)
(* exponent field never overflows into the sign.                           *)
LEMMA RoundAndPackType ==
  ASSUME NEW sign \in {0, 1}, NEW exp \in Int, NEW sig \in Nat, NEW mode \in Modes
  PROVE  /\ RoundAndPack(sign, exp, sig, mode).res \in Values
         /\ RoundAndPack(sign, exp, sig, mode).fe \subseteq FlagSet
<1>1. /\ Overflow(sign, mode).res \in Values
      /\ Overflow(sign, mode).fe \subseteq FlagSet
  BY OverflowType
<1>2. ASSUME NEW e \in 0..(ExpMax - 1), NEW x \in Nat
      PROVE  Pack(sign, e, x, mode).res \in Values /\ Pack(sign, e, x, mode).fe \subseteq FlagSet
  <2>. DEFINE r == Rounded(sign, x, mode)
              carry == BitSet(r, ImplicitAt + 1)
              rsig == IF carry THEN ShiftRightJamming(r, 1) ELSE r
              rexp == IF carry THEN e + 1 ELSE e
              mantissa == Fraction(rsig)
              finalExp == IF rexp = 0 THEN (IF BitSet(rsig, ImplicitAt) THEN 1 ELSE 0)
                          ELSE IF ~BitSet(rsig, ImplicitAt) /\ mantissa = 0 THEN 0 ELSE rexp
              flags == IF ~Inexact(x) THEN {}
                       ELSE {"inexact"} \cup (IF e = 0 THEN {"underflow"} ELSE {})
  <2>1. Pow2[GuardBits] \in Nat /\ Pow2[GuardBits] >= 1 /\ Pow2[1] \in Nat /\ Pow2[1] >= 1
    <3>1. GuardBits \in 0..MaxShift /\ 1 \in 0..MaxShift
      BY Widths
    <3>. QED BY <3>1, Pow2Positive
  <2>2. r \in Nat
    BY <2>1 DEF Rounded
  <2>3. ShiftRightJamming(r, 1) \in Nat
    <3>1. r \div Pow2[1] \in Nat
      BY <2>1, <2>2
    <3>2. ShiftRightJamming(r, 1) = OrSticky(r \div Pow2[1], (r % Pow2[1]) # 0)
      BY Widths DEF ShiftRightJamming
    <3>3. ((r % Pow2[1]) # 0) \in BOOLEAN
      OBVIOUS
    <3>. QED BY <3>1, <3>2, <3>3, StickyBound
  <2>4. rsig \in Nat
    BY <2>2, <2>3
  <2>5. mantissa \in 0..(ImplicitBit - 1)
    <3>. HIDE DEF rsig
    <3>1. ImplicitBit \in Nat /\ ImplicitBit >= 1
      <4>1. FracBits \in 0..MaxShift
        BY Widths
      <4>. QED BY <4>1, Pow2Positive, Fields
    <3>2. rsig \div Pow2[GuardBits] \in Nat
      BY <2>1, <2>4
    <3>. QED BY <3>1, <3>2 DEF Fraction
  <2>6. Pack(sign, e, x, mode) =
          IF carry /\ rexp >= ExpMax THEN Overflow(sign, mode)
          ELSE [res |-> [s |-> sign, e |-> finalExp, f |-> mantissa], fe |-> flags]
    BY DEF Pack
  <2>7. flags \subseteq FlagSet
    BY DEF FlagSet
  <2>8. ASSUME ~ (carry /\ rexp >= ExpMax) PROVE finalExp \in 0..ExpMax
    <3>. HIDE DEF carry, mantissa, rsig
    <3>. QED BY <2>8, Fields
  <2>. HIDE DEF carry, rexp, finalExp, mantissa, flags
  <2>9. CASE carry /\ rexp >= ExpMax
    BY <1>1, <2>6, <2>9
  <2>10. CASE ~ (carry /\ rexp >= ExpMax)
    <3>1. [s |-> sign, e |-> finalExp, f |-> mantissa] \in Values
      BY <2>5, <2>8, <2>10 DEF Values
    <3>. QED BY <2>6, <2>7, <2>10, <3>1
  <2>. QED BY <2>9, <2>10
<1>3. CASE exp >= ExpMax
  BY <1>1, <1>3 DEF RoundAndPack
<1>4. CASE exp < ExpMax /\ exp <= 0
  <2>1. ShiftRightJamming(sig, 1 - exp) \in Nat
    <3>1. CASE 1 - exp >= WordBits
      BY <3>1, StickyBound DEF ShiftRightJamming
    <3>2. CASE 1 - exp < WordBits
      <4>1. 1 - exp \in 0..MaxShift
        BY <1>4, <3>2, Widths
      <4>2. Pow2[1 - exp] \in Nat /\ Pow2[1 - exp] >= 1
        BY <4>1, Pow2Positive
      <4>3. sig \div Pow2[1 - exp] \in Nat /\ ((sig % Pow2[1 - exp]) # 0) \in BOOLEAN
        BY <4>2
      <4>4. ShiftRightJamming(sig, 1 - exp)
               = OrSticky(sig \div Pow2[1 - exp], (sig % Pow2[1 - exp]) # 0)
        BY <3>2, Widths DEF ShiftRightJamming
      <4>. QED BY <4>3, <4>4, StickyBound
    <3>. QED BY <3>1, <3>2, Widths
  <2>2. 0 \in 0..(ExpMax - 1)
    BY Fields
  <2>3. RoundAndPack(sign, exp, sig, mode) = Pack(sign, 0, ShiftRightJamming(sig, 1 - exp), mode)
    BY <1>4, Fields DEF RoundAndPack
  <2>. QED BY <1>2, <2>1, <2>2, <2>3
<1>5. CASE exp < ExpMax /\ exp > 0
  <2>1. exp \in 0..(ExpMax - 1)
    BY <1>5, Fields
  <2>2. RoundAndPack(sign, exp, sig, mode) = Pack(sign, exp, sig, mode)
    BY <1>5, Fields DEF RoundAndPack
  <2>. QED BY <1>2, <2>1, <2>2
<1>. QED BY <1>3, <1>4, <1>5, Fields

(* Results that are built without rounding.                                *)
LEMMA SpecialResults ==
  /\ CanonicalNaN \in Values
  /\ \A s \in {0, 1} : SignedZero(s) \in Values /\ SignedInf(s) \in Values
  /\ \A v \in Values : Neg(v) \in Values
  /\ \A v, w \in Values : PropagateNaN(v, w) \in Values
<1>1. ImplicitBit = 2 * QuietNaNBit /\ QuietNaNBit \in Nat /\ QuietNaNBit >= 1
  <2>1. FracBits - 1 \in 0..MaxShift /\ FracBits - 1 \in Nat /\ (FracBits - 1) + 1 = FracBits
        /\ (FracBits - 1) + 1 <= MaxShift
    BY Widths
  <2>2. Pow2[(FracBits - 1) + 1] = 2 * Pow2[FracBits - 1]
    BY <2>1, Pow2Step
  <2>. QED BY <2>1, <2>2, Pow2Positive DEF QuietNaNBit, ImplicitBit
<1>2. \A v \in Values : Quiet(v) \in Values
  <2>. SUFFICES ASSUME NEW v \in Values PROVE Quiet(v) \in Values
    OBVIOUS
  <2>. DEFINE q == IF v.f < QuietNaNBit THEN v.f + QuietNaNBit ELSE v.f
  <2>1. v.f \in 0..(ImplicitBit - 1)
    BY DEF Values
  <2>2. q \in 0..(ImplicitBit - 1)
    BY <1>1, <2>1
  <2>3. Quiet(v) = [v EXCEPT !.f = q]
    BY DEF Quiet
  <2>. HIDE DEF q
  <2>. QED BY <2>2, <2>3 DEF Values
<1>3. CanonicalNaN \in Values
  BY <1>1, Fields DEF CanonicalNaN, Values
<1>4. \A s \in {0, 1} : SignedZero(s) \in Values /\ SignedInf(s) \in Values
  BY <1>1, Fields DEF SignedZero, SignedInf, Values
<1>5. \A v \in Values : Neg(v) \in Values
  BY DEF Neg, Values
<1>. QED BY <1>2, <1>3, <1>4, <1>5 DEF PropagateNaN

---------------------------------------------------------------------------
(* Shifting by nothing loses nothing; by one, less than half.              *)
LEMMA JamZero ==
  ASSUME NEW x \in Nat
  PROVE  ShiftRightJamming(x, 0) = x
<1>1. Pow2[0] = 1 /\ ~ (0 >= WordBits)
  BY Pow2Step, Widths
<1>2. x \div 1 = x /\ x % 1 = 0
  OBVIOUS
<1>. QED BY <1>1, <1>2 DEF ShiftRightJamming, OrSticky

LEMMA JamHalf ==
  ASSUME NEW x \in Nat, NEW n \in Nat \ {0}, NEW t \in Nat, t > 0, t < WordBits, x < Pow2[t + 1]
  PROVE  /\ ShiftRightJamming(x, n) \in Nat
         /\ ShiftRightJamming(x, n) < Pow2[t]
         /\ (n = 1 /\ Pow2[t] <= x) => Pow2[t - 1] <= ShiftRightJamming(x, n)
<1>1. /\ t - 1 \in Nat /\ Pow2[t + 1] = 2 * Pow2[t] /\ Pow2[t] = 2 * Pow2[t - 1]
      /\ Pow2[t - 1] \in Nat /\ Pow2[t - 1] >= 1
  <2>1. /\ t - 1 \in Nat /\ (t - 1) + 1 = t /\ (t - 1) + 1 <= MaxShift /\ t + 1 <= MaxShift
        /\ t - 1 \in 0..MaxShift
    BY Widths
  <2>2. Pow2[(t - 1) + 1] = 2 * Pow2[t - 1]
    BY <2>1, Pow2Step
  <2>3. Pow2[t + 1] = 2 * Pow2[t]
    BY <2>1, Pow2Step
  <2>. QED BY <2>1, <2>2, <2>3, Pow2Positive
<1>2. CASE n >= WordBits
  <2>1. ShiftRightJamming(x, n) = OrSticky(0, x # 0) /\ (x # 0) \in BOOLEAN
    BY <1>2 DEF ShiftRightJamming
  <2>2. n # 1
    BY <1>2, Widths
  <2>3. 0 < 2 * Pow2[t - 1]
    BY <1>1
  <2>. QED BY <1>1, <2>1, <2>2, <2>3, StickyBound
<1>3. CASE n < WordBits
  <2>1. n \in 0..MaxShift /\ n - 1 \in 0..MaxShift /\ n - 1 \in Nat /\ (n - 1) + 1 = n
        /\ (n - 1) + 1 <= MaxShift
    BY <1>3, Widths
  <2>2. Pow2[n] = 2 * Pow2[n - 1] /\ Pow2[n - 1] \in Nat /\ Pow2[n - 1] >= 1
    <3>1. Pow2[(n - 1) + 1] = 2 * Pow2[n - 1]
      BY <2>1, Pow2Step
    <3>. QED BY <2>1, <3>1, Pow2Positive
  <2>3. Pow2[n] \in Nat /\ Pow2[n] >= 2
    BY <2>2
  <2>. DEFINE y == x \div Pow2[n]
  <2>4. y \in Nat /\ 2 * y <= x
    BY <2>3
  <2>5. ShiftRightJamming(x, n) = OrSticky(y, (x % Pow2[n]) # 0) /\ ((x % Pow2[n]) # 0) \in BOOLEAN
    BY <1>3, Widths DEF ShiftRightJamming
  <2>6. (n = 1 /\ Pow2[t] <= x) => Pow2[t - 1] <= y
    <3>1. Pow2[1] = 2
      <4>1. 0 \in Nat /\ 0 + 1 <= MaxShift
        BY Widths
      <4>2. Pow2[0 + 1] = 2 * Pow2[0]
        BY <4>1, Pow2Step
      <4>. QED BY <4>2, Pow2Step
    <3>. QED BY <1>1, <3>1
  <2>. HIDE DEF y
  <2>7. y < 2 * Pow2[t - 1]
    BY <1>1, <2>4
  <2>8. /\ OrSticky(y, (x % Pow2[n]) # 0) \in Nat
        /\ y <= OrSticky(y, (x % Pow2[n]) # 0)
        /\ OrSticky(y, (x % Pow2[n]) # 0) < 2 * Pow2[t - 1]
    BY <1>1, <2>4, <2>5, <2>7, StickyBound
  <2>. QED BY <1>1, <2>4, <2>5, <2>6, <2>8
<1>. QED BY <1>2, <1>3, Widths

(* Dividing by a power of two moves the highest bit down.                  *)
LEMMA DivideRange ==
  ASSUME NEW x \in Nat, NEW p \in Nat, NEW q \in Nat, (p + q) + 1 <= MaxShift,
         Pow2[p + q] <= x, x < Pow2[(p + q) + 1]
  PROVE  /\ x \div Pow2[q] \in Nat
         /\ Pow2[p] <= x \div Pow2[q]
         /\ x \div Pow2[q] < 2 * Pow2[p]
<1>1. /\ p \in 0..MaxShift /\ q \in 0..MaxShift /\ p + q \in Nat /\ p + q <= MaxShift
  BY Widths
<1>2. Pow2[p] \in Nat /\ Pow2[q] \in Nat /\ Pow2[q] >= 1 /\ Pow2[p + q] = Pow2[p] * Pow2[q]
  BY <1>1, Pow2Positive, Pow2Sum
<1>3. Pow2[(p + q) + 1] = 2 * Pow2[p + q]
  BY <1>1, Pow2Step
<1>. DEFINE P == Pow2[p]
            Q == Pow2[q]
            y == x \div Q
<1>4. /\ P \in Nat /\ Q \in Nat /\ Q >= 1
      /\ P * Q <= x /\ x < (2 * P) * Q
  BY <1>2, <1>3
<1>5. y \in Nat /\ y * Q <= x /\ x < (y + 1) * Q
  <2>. HIDE DEF P, Q
  <2>. QED BY <1>4
<1>6. P <= y /\ y < 2 * P
  <2>. HIDE DEF P, Q, y
  <2>1. P * Q < (y + 1) * Q /\ y * Q < (2 * P) * Q
    BY <1>4, <1>5
  <2>2. P < y + 1
    BY <1>4, <1>5, <2>1
  <2>3. y < 2 * P
    BY <1>4, <1>5, <2>1
  <2>. QED BY <1>4, <1>5, <2>2, <2>3
<1>. QED BY <1>5, <1>6

---------------------------------------------------------------------------
(* One digit of the root: what stays true of the consumed part when two    *)
(* more bits of it are taken.                                              *)
LEMMA DigitKept ==
  ASSUME NEW c \in Nat, NEW r \in Nat, NEW q \in Nat, NEW p \in Nat,
         r <= 2 * q, c = q * q + r, p < 4,
         NEW e, e = 4 * r + p, NEW t, t = 4 * q + 1,
         NEW r1, NEW q1,
         \/ e >= t /\ r1 = e - t /\ q1 = 2 * q + 1
         \/ e < t /\ r1 = e /\ q1 = 2 * q
  PROVE  /\ r1 \in Nat /\ q1 \in Nat /\ r1 <= 2 * q1
         /\ 4 * c + p = q1 * q1 + r1 /\ q1 * q1 + r1 \in Nat
<1>1. CASE e >= t /\ r1 = e - t /\ q1 = 2 * q + 1
  <2>1. q1 * q1 = 4 * (q * q) + 4 * q + 1
    BY <1>1
  <2>. QED BY <1>1, <2>1
<1>2. CASE e < t /\ r1 = e /\ q1 = 2 * q
  <2>1. q1 * q1 = 4 * (q * q)
    BY <1>2
  <2>. QED BY <1>2, <2>1
<1>. QED BY <1>1, <1>2

---------------------------------------------------------------------------
(* The format the reference speaks of is the format of the code.           *)
LEMMA SameFormat ==
  /\ Ref!ExpMax = ExpMax /\ Ref!ImplicitBit = ImplicitBit /\ Ref!Bias = Bias
  /\ Ref!InfIndex = ExpMax * ImplicitBit
  /\ Ref!LogOne = FracBits + Bias - 1
  /\ Ref!CanonicalNaN = CanonicalNaN
  /\ \A s : /\ Ref!SignedZero(s) = SignedZero(s) /\ Ref!SignedInf(s) = SignedInf(s)
            /\ Ref!MaxFinite(s) = MaxFinite(s)
BY DEF Ref!ExpMax, Ref!ImplicitBit, Ref!Bias, Ref!InfIndex, ExpMax, ImplicitBit, Bias, Ref!LogOne,
       Ref!SignedZero, Ref!SignedInf, Ref!MaxFinite, SignedZero, SignedInf, MaxFinite,
       Ref!CanonicalNaN, CanonicalNaN, Ref!QuietNaNBit, QuietNaNBit

LEMMA SameClasses ==
  ASSUME NEW v
  PROVE  /\ Ref!IsNaN(v) <=> IsNaN(v)
         /\ Ref!IsSNaN(v) <=> IsSNaN(v)
         /\ Ref!IsInf(v) <=> IsInf(v)
         /\ Ref!IsZero(v) <=> IsZero(v)
         /\ Ref!Quiet(v) = Quiet(v) /\ Ref!Neg(v) = Neg(v)
BY SameFormat, Zenon DEF Ref!IsNaN, Ref!IsSNaN, Ref!IsInf, Ref!IsZero, Ref!Quiet, Ref!Neg,
       IsNaN, IsSNaN, IsInf, IsZero, Quiet, Neg, Ref!QuietNaNBit, QuietNaNBit

---------------------------------------------------------------------------
(* Division with remainder.                                                *)
LEMMA Split ==
  ASSUME NEW x \in Nat, NEW d \in Nat, d >= 1
  PROVE  /\ x \div d \in Nat /\ x % d \in Nat /\ x % d < d
         /\ x = (x \div d) * d + (x % d)
<1>1. x \div d \in Nat /\ x % d \in 0..(d - 1)
  OBVIOUS
<1>2. x = d * (x \div d) + (x % d)
  OBVIOUS
<1>. QED BY <1>1, <1>2

LEMMA Join ==
  ASSUME NEW k \in Nat, NEW r \in Nat, NEW d \in Nat, r < d
  PROVE  (k * d + r) \div d = k /\ (k * d + r) % d = r
OBVIOUS

(* The guard bits: their half, and a whole word, as products.              *)
Guard == Pow2[GuardBits]
Half == Pow2[GuardBits - 1]

LEMMA GuardPowers ==
  /\ Guard \in Nat /\ Half \in Nat /\ Guard = 2 * Half /\ Half >= 4
  /\ \E q \in Nat : Half = 4 * q
  /\ ImplicitBit \in Nat /\ ImplicitBit >= 4 /\ ImplicitBit % 2 = 0
  /\ Pow2[ImplicitAt] = ImplicitBit * Guard
  /\ Pow2[ImplicitAt + 1] = 2 * (ImplicitBit * Guard)
  /\ Pow2[ImplicitAt + 2] = 4 * (ImplicitBit * Guard)
<1>1. /\ GuardBits \in Nat /\ GuardBits - 1 \in Nat /\ GuardBits - 3 \in Nat /\ FracBits \in Nat
      /\ (GuardBits - 1) + 1 = GuardBits /\ GuardBits <= MaxShift /\ GuardBits - 1 <= MaxShift
      /\ (GuardBits - 3) + 2 = GuardBits - 1 /\ FracBits + GuardBits = ImplicitAt
      /\ ImplicitAt \in Nat /\ ImplicitAt + 1 \in Nat /\ ImplicitAt + 1 <= MaxShift
      /\ (ImplicitAt + 1) + 1 <= MaxShift /\ (ImplicitAt + 1) + 1 = ImplicitAt + 2
      /\ 2 <= FracBits /\ FracBits <= MaxShift /\ (FracBits - 1) + 1 = FracBits
      /\ FracBits - 1 \in Nat /\ ImplicitAt <= MaxShift
      /\ 0 + 1 <= MaxShift /\ 1 + 1 <= MaxShift /\ 0 \in Nat /\ 1 \in Nat /\ 2 \in Nat
      /\ 0 \in 0..MaxShift /\ GuardBits - 3 \in 0..MaxShift /\ FracBits - 1 \in 0..MaxShift
  BY Widths
<1>2. Pow2[1] = 2 /\ Pow2[2] = 4
  <2>1. Pow2[0 + 1] = 2 * Pow2[0]
    BY <1>1, Pow2Step
  <2>2. Pow2[1 + 1] = 2 * Pow2[1]
    BY <1>1, Pow2Step
  <2>. QED BY <2>1, <2>2, Pow2Step
<1>3. Half = Pow2[GuardBits - 3] * 4 /\ Pow2[GuardBits - 3] \in Nat /\ Pow2[GuardBits - 3] >= 1
  <2>1. Pow2[(GuardBits - 3) + 2] = Pow2[GuardBits - 3] * Pow2[2]
    BY <1>1, Pow2Sum
  <2>. QED BY <1>1, <1>2, <2>1, Pow2Positive DEF Half
<1>4. Guard = 2 * Half
  <2>1. Pow2[(GuardBits - 1) + 1] = 2 * Pow2[GuardBits - 1]
    BY <1>1, Pow2Step
  <2>. QED BY <1>1, <2>1 DEF Guard, Half
<1>5. ImplicitBit >= 4 /\ ImplicitBit \in Nat
  <2>1. Pow2[2] <= Pow2[FracBits]
    BY <1>1, Pow2Monotone
  <2>. QED BY <1>2, <2>1, Fields
<1>6. ImplicitBit % 2 = 0
  <2>1. Pow2[(FracBits - 1) + 1] = 2 * Pow2[FracBits - 1] /\ Pow2[FracBits - 1] \in Nat
    BY <1>1, Pow2Step
  <2>. QED BY <1>1, <2>1, Fields
<1>7. Pow2[ImplicitAt] = ImplicitBit * Guard
  <2>1. Pow2[FracBits + GuardBits] = Pow2[FracBits] * Pow2[GuardBits]
    BY <1>1, Pow2Sum
  <2>. QED BY <1>1, <2>1, Fields DEF Guard
<1>8. Pow2[ImplicitAt + 1] = 2 * Pow2[ImplicitAt]
  BY <1>1, Pow2Step
<1>9. Pow2[(ImplicitAt + 1) + 1] = 2 * Pow2[ImplicitAt + 1]
  BY <1>1, Pow2Step
<1>10. Guard \in Nat /\ Half \in Nat
  BY <1>3, <1>4
<1>11. ImplicitBit * Guard \in Nat
  BY <1>5, <1>10
<1>. QED
  <2>. DEFINE q == Pow2[GuardBits - 3]
              w == ImplicitBit * Guard
  <2>1. q \in Nat /\ Half = 4 * q /\ q >= 1 /\ w \in Nat /\ Pow2[ImplicitAt] = w
    BY <1>3, <1>11, <1>7
  <2>2. Pow2[ImplicitAt + 1] = 2 * w /\ Pow2[ImplicitAt + 2] = 4 * w
    <3>. HIDE DEF w
    <3>. QED BY <1>1, <1>8, <1>9, <2>1
  <2>. HIDE DEF q, w
  <2>3. Half >= 4
    BY <2>1
  <2>. QED BY <1>4, <1>5, <1>6, <1>10, <2>1, <2>2, <2>3 DEF w

---------------------------------------------------------------------------
(* The magnitudes.  In the binade of exponent e, m units are m * 2^(e-1)   *)
(* units of the least subnormal; the subnormals share the first binade,    *)
(* and the last of a binade is followed by the first of the next.          *)
Unit(e) == Pow2[e - 1]
IndexOf(e, m) == (e - 1) * ImplicitBit + m
InBinade(e, m) == m \in Nat /\ m <= 2 * ImplicitBit /\ (e = 1 \/ ImplicitBit <= m)

LEMMA UnitFacts ==
  ASSUME NEW e \in 1..ExpMax
  PROVE  /\ Unit(e) \in Nat /\ Unit(e) >= 1 /\ Unit(1) = 1
         /\ e < ExpMax => Unit(e + 1) = 2 * Unit(e)
<1>1. e - 1 \in 0..MaxShift /\ e - 1 \in Nat /\ (e - 1) + 1 <= MaxShift /\ (e + 1) - 1 = (e - 1) + 1
  BY Fields, Widths
<1>2. Pow2[(e - 1) + 1] = 2 * Pow2[e - 1]
  BY <1>1, Pow2Step
<1>3. Pow2[1 - 1] = 1
  BY Pow2Step
<1>. QED BY <1>1, <1>2, <1>3, Pow2Positive DEF Unit

LEMMA MagnitudeAt ==
  ASSUME NEW e \in 1..(ExpMax - 1), NEW m, InBinade(e, m)
  PROVE  /\ IndexOf(e, m) \in 0..(ExpMax * ImplicitBit)
         /\ Ref!Magnitude[IndexOf(e, m)] = m * Unit(e)
<1>. DEFINE I == ImplicitBit
            i == IndexOf(e, m)
<1>1. I \in Nat /\ I >= 4 /\ e \in Nat /\ e >= 1 /\ e + 1 <= ExpMax /\ ExpMax \in Nat
  BY GuardPowers, Fields
<1>2. m \in Nat /\ m <= 2 * I /\ (e = 1 \/ I <= m)
  BY DEF InBinade
<1>3. i \in 0..(ExpMax * I)
  <2>1. (e - 1) * I \in Nat /\ (e + 1) * I = (e - 1) * I + 2 * I /\ (e + 1) * I <= ExpMax * I
    <3>. HIDE DEF I
    <3>. QED BY <1>1
  <2>2. ExpMax * I \in Nat
    BY <1>1
  <2>. HIDE DEF I
  <2>. QED BY <1>1, <1>2, <2>1, <2>2 DEF I, IndexOf
<1>4. Ref!Magnitude[i] = IF i \div I = 0 THEN i % I ELSE (I + (i % I)) * Pow2[(i \div I) - 1]
  BY <1>3, SameFormat, Zenon DEF Ref!Magnitude
<1>5. ASSUME NEW k \in Nat, NEW r \in Nat, r < I
      PROVE  (k * I + r) \div I = k /\ (k * I + r) % I = r
  <2>. HIDE DEF I
  <2>. QED BY <1>1, <1>5
<1>6. Unit(e) \in Nat /\ Unit(e) >= 1 /\ Unit(1) = 1 /\ Unit(e + 1) = 2 * Unit(e)
  BY <1>1, UnitFacts
<1>7. CASE m < I
  <2>1. e = 1 /\ i = 0 * I + m
    BY <1>1, <1>2, <1>7 DEF IndexOf
  <2>2. i \div I = 0 /\ i % I = m
    BY <1>1, <1>2, <1>5, <1>7, <2>1
  <2>. QED BY <1>2, <1>3, <1>4, <1>6, <2>1, <2>2
<1>8. CASE I <= m /\ m < 2 * I
  <2>1. i = e * I + (m - I) /\ m - I \in Nat /\ m - I < I
    <3>1. (e - 1) * I = e * I - I
      BY <1>1
    <3>. QED BY <1>1, <1>2, <1>8, <3>1 DEF IndexOf
  <2>2. i \div I = e /\ i % I = m - I
    BY <1>1, <1>5, <2>1
  <2>. HIDE DEF i
  <2>3. Ref!Magnitude[i] = (I + (m - I)) * Pow2[e - 1]
    BY <1>1, <1>4, <2>2
  <2>4. I + (m - I) = m
    BY <1>1, <1>2
  <2>. QED BY <1>3, <2>3, <2>4 DEF Unit, i
<1>9. CASE m = 2 * I
  <2>1. i = (e + 1) * I + 0
    <3>1. (e - 1) * I + 2 * I = (e + 1) * I
      BY <1>1
    <3>. QED BY <1>1, <1>9, <3>1 DEF IndexOf
  <2>2. i \div I = e + 1 /\ i % I = 0
    BY <1>1, <1>5, <2>1
  <2>. HIDE DEF i
  <2>3. Ref!Magnitude[i] = (I + 0) * Pow2[(e + 1) - 1]
    BY <1>1, <1>4, <2>2
  <2>4. Ref!Magnitude[i] = I * (2 * Unit(e))
    BY <1>1, <1>6, <2>3 DEF Unit
  <2>5. I * (2 * Unit(e)) = m * Unit(e)
    BY <1>1, <1>6, <1>9
  <2>. QED BY <1>3, <2>4, <2>5 DEF i
<1>. QED BY <1>1, <1>2, <1>7, <1>8, <1>9

(* Every pattern below the infinity is one of a binade, and the next one   *)
(* is a unit larger.                                                       *)
LEMMA IndexSplit ==
  ASSUME NEW i \in 0..(ExpMax * ImplicitBit - 1)
  PROVE  \E e \in 1..(ExpMax - 1), m \in Nat :
            /\ m < 2 * ImplicitBit /\ InBinade(e, m) /\ InBinade(e, m + 1)
            /\ i = IndexOf(e, m) /\ i + 1 = IndexOf(e, m + 1)
<1>. DEFINE I == ImplicitBit
            k == i \div I
            r == i % I
<1>1. I \in Nat /\ I >= 4 /\ ExpMax \in Nat /\ ExpMax >= 3
  BY GuardPowers, Fields
<1>2. ExpMax * I \in Nat
  BY <1>1
<1>3. i \in Nat /\ i < ExpMax * I
  <2>. HIDE DEF I
  <2>. QED BY <1>2 DEF I
<1>4. k \in Nat /\ r \in Nat /\ r < I /\ i = k * I + r
  <2>. HIDE DEF I
  <2>. QED BY <1>1, <1>3
<1>. HIDE DEF k, r
<1>5. k < ExpMax
  <2>1. SUFFICES ASSUME ExpMax <= k PROVE FALSE
    BY <1>1, <1>4
  <2>2. ExpMax * I <= k * I
    <3>. HIDE DEF I
    <3>. QED BY <1>1, <1>4, <2>1
  <2>3. k * I \in Nat
    BY <1>1, <1>4
  <2>. HIDE DEF I
  <2>. QED BY <1>2, <1>3, <1>4, <2>2, <2>3
<1>6. CASE k = 0
  <2>1. i = r /\ IndexOf(1, i) = i /\ IndexOf(1, i + 1) = i + 1
    BY <1>1, <1>4, <1>6 DEF IndexOf
  <2>2. 1 \in 1..(ExpMax - 1) /\ i < 2 * I /\ InBinade(1, i) /\ InBinade(1, i + 1)
    BY <1>1, <1>4, <2>1 DEF InBinade
  <2>. QED BY <1>3, <2>1, <2>2
<1>7. CASE k # 0
  <2>1. k \in 1..(ExpMax - 1)
    BY <1>1, <1>4, <1>5, <1>7
  <2>2. (k - 1) * I + (I + r) = k * I + r
    <3>. HIDE DEF I
    <3>. QED BY <1>1, <1>4
  <2>3. i = IndexOf(k, I + r) /\ i + 1 = IndexOf(k, (I + r) + 1)
    <3>1. (k - 1) * I \in Int
      BY <1>1, <1>4
    <3>. QED BY <1>1, <1>4, <2>2, <3>1 DEF IndexOf
  <2>4. I + r \in Nat /\ I + r < 2 * I /\ InBinade(k, I + r) /\ InBinade(k, (I + r) + 1)
    BY <1>1, <1>4 DEF InBinade
  <2>. QED BY <2>1, <2>3, <2>4
<1>. QED BY <1>6, <1>7

(* So that a larger pattern is a larger magnitude.                         *)
LEMMA Climbs ==
  ASSUME NEW i \in 0..(ExpMax * ImplicitBit), NEW j \in 0..(ExpMax * ImplicitBit), i < j
  PROVE  /\ Ref!Magnitude[i] \in Nat /\ Ref!Magnitude[j] \in Nat
         /\ Ref!Magnitude[i] < Ref!Magnitude[j]
<1>. DEFINE I == ImplicitBit
<1>1. I \in Nat /\ I >= 4 /\ ExpMax \in Nat /\ ExpMax >= 3 /\ ExpMax * I \in Nat
  BY GuardPowers, Fields
<1>2. i \in 0..(ExpMax * I - 1) /\ j - 1 \in 0..(ExpMax * I - 1) /\ i <= j - 1
  <2>. HIDE DEF I
  <2>. QED BY <1>1 DEF I
<1>3. PICK e \in 1..(ExpMax - 1), m \in Nat :
         m < 2 * I /\ InBinade(e, m) /\ i = IndexOf(e, m)
  BY <1>2, IndexSplit
<1>4. PICK d \in 1..(ExpMax - 1), n \in Nat :
         n < 2 * I /\ InBinade(d, n) /\ InBinade(d, n + 1) /\ j - 1 = IndexOf(d, n)
           /\ (j - 1) + 1 = IndexOf(d, n + 1)
  BY <1>2, IndexSplit
<1>5. Ref!Magnitude[i] = m * Unit(e)
  BY <1>3, MagnitudeAt
<1>6. Ref!Magnitude[j] = (n + 1) * Unit(d)
  <2>1. (j - 1) + 1 = j
    BY <1>1
  <2>. QED BY <1>4, <2>1, MagnitudeAt
<1>7. /\ e \in Nat /\ d \in Nat /\ e >= 1 /\ d >= 1 /\ e <= ExpMax /\ d <= ExpMax
      /\ Unit(e) \in Nat /\ Unit(e) >= 1 /\ Unit(d) \in Nat /\ Unit(d) >= 1
  BY <1>1, UnitFacts
<1>8. (e - 1) * I + m <= (d - 1) * I + n
  BY <1>2, <1>3, <1>4 DEF IndexOf
<1>. HIDE DEF I
<1>9. m * Unit(e) \in Nat /\ n * Unit(d) \in Nat /\ (n + 1) * Unit(d) = n * Unit(d) + Unit(d)
  BY <1>7
<1>10. m * Unit(e) <= n * Unit(d)
  <2>1. CASE e = d
    <3>1. m <= n
      <4>1. (e - 1) * I \in Nat
        BY <1>1, <1>7
      <4>. QED BY <1>8, <2>1, <4>1
    <3>. QED BY <1>7, <2>1, <3>1
  <2>2. CASE e < d
    <3>1. 2 * Unit(e) <= Unit(d)
      <4>1. /\ e - 1 \in Nat /\ d - 1 \in Nat /\ e - 1 <= d - 1 /\ e - 1 < d - 1
            /\ d - 1 <= MaxShift
        BY <1>1, <1>7, <2>2, Fields, Widths
      <4>2. 2 * Pow2[e - 1] <= Pow2[d - 1]
        BY <4>1, Pow2Monotone
      <4>. QED BY <4>2 DEF Unit
    <3>2. I <= n
      BY <1>4, <1>7, <2>2 DEF InBinade, I
    <3>3. m * Unit(e) <= (2 * I) * Unit(e)
      BY <1>1, <1>3, <1>7
    <3>4. (2 * I) * Unit(e) = I * (2 * Unit(e))
      BY <1>1, <1>7
    <3>5. I * (2 * Unit(e)) <= I * Unit(d)
      BY <1>1, <1>7, <3>1
    <3>6. I * Unit(d) <= n * Unit(d)
      BY <1>1, <1>7, <3>2
    <3>7. I * (2 * Unit(e)) \in Nat /\ I * Unit(d) \in Nat
      BY <1>1, <1>7
    <3>. QED BY <1>9, <3>3, <3>4, <3>5, <3>6, <3>7
  <2>3. CASE d < e
    <3>1. I <= m
      BY <1>3, <1>7, <2>3 DEF InBinade, I
    <3>2. d * I <= (e - 1) * I
      <4>1. d <= e - 1 /\ e - 1 \in Nat
        BY <1>7, <2>3
      <4>. QED BY <1>1, <1>7, <4>1
    <3>3. (d - 1) * I = d * I - I /\ d * I \in Nat /\ (e - 1) * I \in Nat
      BY <1>1, <1>7
    <3>. QED BY <1>1, <1>4, <1>8, <3>1, <3>2, <3>3
  <2>. QED BY <1>7, <2>1, <2>2, <2>3
<1>. QED BY <1>5, <1>6, <1>7, <1>9, <1>10

(* The largest magnitude not above a fraction is the one FloorIndex finds. *)
LEMMA FloorFound ==
  ASSUME NEW i \in 0..(ExpMax * ImplicitBit - 1), NEW num \in Nat, NEW den \in Nat, den >= 1,
         Ref!Magnitude[i] * den <= num, num < Ref!Magnitude[i + 1] * den
  PROVE  Ref!FloorIndex(num, den) = i
<1>. DEFINE I == ImplicitBit
            Inf == ExpMax * I
            M(x) == Ref!Magnitude[x]
            e == i \div I
            In(x, y) == Ref!Between(x, num, den, y)
<1>1. I \in Nat /\ I >= 4 /\ ExpMax \in Nat /\ ExpMax >= 3 /\ Inf \in Nat
  BY GuardPowers, Fields
<1>2. /\ i \in Nat /\ i + 1 <= Inf /\ i \in 0..Inf /\ i + 1 \in 0..Inf
  <2>. HIDE DEF Inf
  <2>. QED BY <1>1 DEF Inf
<1>3. e \in Nat /\ e * I <= i /\ i + 1 <= (e + 1) * I
  <2>. HIDE DEF I
  <2>. QED BY <1>1, <1>2
<1>. HIDE DEF e
<1>4. e \in 0..(ExpMax - 1)
  <2>1. SUFFICES ASSUME ExpMax <= e PROVE FALSE
    BY <1>1, <1>3
  <2>2. ExpMax * I <= e * I /\ e * I \in Nat
    <3>. HIDE DEF I
    <3>. QED BY <1>1, <1>3, <2>1
  <2>. QED BY <1>1, <1>2, <1>3, <2>2
<1>5. \A x, y \in 0..Inf : In(x, y) <=> M(x) * den <= num /\ num < M(y) * den
  BY DEF Ref!Between
<1>6. \A k \in 0..(ExpMax - 1) : k * I \in 0..Inf /\ (k + 1) * I \in 0..Inf
  <2>. SUFFICES ASSUME NEW k \in 0..(ExpMax - 1) PROVE k * I \in 0..Inf /\ (k + 1) * I \in 0..Inf
    OBVIOUS
  <2>1. k * I \in Nat /\ (k + 1) * I \in Nat /\ k * I <= (k + 1) * I /\ (k + 1) * I <= ExpMax * I
    <3>. HIDE DEF I
    <3>. QED BY <1>1
  <2>. QED BY <1>1, <2>1
<1>7. \A x, y \in 0..Inf : x <= y => M(x) * den <= M(y) * den /\ M(x) * den \in Nat /\ M(y) * den \in Nat
  <2>. SUFFICES ASSUME NEW x \in 0..Inf, NEW y \in 0..Inf, x <= y
                PROVE M(x) * den <= M(y) * den /\ M(x) * den \in Nat /\ M(y) * den \in Nat
    OBVIOUS
  <2>1. M(x) \in Nat /\ M(y) \in Nat /\ M(x) <= M(y)
    <3>1. CASE x < y
      BY <3>1, Climbs
    <3>2. CASE x = y /\ x < Inf
      <4>1. x + 1 \in 0..Inf /\ x < x + 1
        <5>. HIDE DEF Inf
        <5>. QED BY <1>1, <3>2
      <4>. QED BY <3>2, <4>1, Climbs
    <3>3. CASE x = y /\ x = Inf
      <4>1. 0 \in 0..Inf /\ 0 < x
        <5>1. 3 * 4 <= ExpMax * I
          <6>. HIDE DEF I
          <6>. QED BY <1>1
        <5>. QED BY <1>1, <3>3, <5>1
      <4>. QED BY <3>3, <4>1, Climbs
    <3>. HIDE DEF Inf
    <3>. QED BY <1>1, <3>1, <3>2, <3>3
  <2>. HIDE DEF M
  <2>. QED BY <2>1
<1>. HIDE DEF In, M, Inf
<1>8. M(i) * den <= num /\ num < M(i + 1) * den
  BY DEF M
<1>9. In(e * I, (e + 1) * I)
  <2>1. e * I \in 0..Inf /\ (e + 1) * I \in 0..Inf
    BY <1>4, <1>6
  <2>2. M(e * I) * den <= M(i) * den /\ M(e * I) * den \in Nat /\ M(i) * den \in Nat
    BY <1>2, <1>3, <1>7, <2>1
  <2>3. M(i + 1) * den <= M((e + 1) * I) * den /\ M((e + 1) * I) * den \in Nat
        /\ M(i + 1) * den \in Nat
    BY <1>2, <1>3, <1>7, <2>1
  <2>. QED BY <1>5, <1>8, <2>1, <2>2, <2>3
(* No pattern before i or after i + 1 is between.                          *)
<1>10. ASSUME NEW x \in 0..Inf, NEW y \in 0..Inf, In(x, y)
       PROVE  x <= i /\ i + 1 <= y
  <2>1. M(x) * den <= num /\ num < M(y) * den
    BY <1>5, <1>10
  <2>2. ASSUME i + 1 <= x PROVE FALSE
    <3>1. M(i + 1) * den <= M(x) * den /\ M(i + 1) * den \in Nat /\ M(x) * den \in Nat
      BY <1>2, <1>7, <2>2
    <3>. QED BY <1>8, <2>1, <3>1
  <2>3. ASSUME y <= i PROVE FALSE
    <3>1. M(y) * den <= M(i) * den /\ M(y) * den \in Nat /\ M(i) * den \in Nat
      BY <1>2, <1>7, <2>3
    <3>. QED BY <1>8, <2>1, <3>1
  <2>. QED BY <1>1, <1>2, <2>2, <2>3
<1>11. ASSUME NEW k \in 0..(ExpMax - 1), In(k * I, (k + 1) * I)
       PROVE  k = e
  <2>1. k * I <= i /\ i + 1 <= (k + 1) * I
    BY <1>6, <1>10, <1>11
  <2>2. k \in Nat
    BY <1>1
  <2>. HIDE DEF I
  <2>3. ASSUME k < e PROVE FALSE
    <3>1. (k + 1) * I <= e * I
      BY <1>1, <1>3, <2>2, <2>3
    <3>2. (k + 1) * I \in Nat /\ e * I \in Nat
      BY <1>1, <1>3, <2>2
    <3>. QED BY <1>2, <1>3, <2>1, <3>1, <3>2
  <2>4. ASSUME e < k PROVE FALSE
    <3>1. (e + 1) * I <= k * I
      BY <1>1, <1>3, <2>2, <2>4
    <3>2. (e + 1) * I \in Nat /\ k * I \in Nat
      BY <1>1, <1>3, <2>2
    <3>. QED BY <1>2, <1>3, <2>1, <3>1, <3>2
  <2>. QED BY <1>3, <2>2, <2>3, <2>4
<1>12. e = CHOOSE k \in 0..(ExpMax - 1) : In(k * I, (k + 1) * I)
  BY <1>4, <1>9, <1>11
<1>13. In(i, i + 1)
  BY <1>2, <1>5, <1>8
<1>14. i = CHOOSE x \in (e * I)..((e + 1) * I - 1) : In(x, x + 1)
  <2>1. e * I \in 0..Inf /\ (e + 1) * I \in 0..Inf
    BY <1>4, <1>6
  <2>2. i \in (e * I)..((e + 1) * I - 1)
    <3>1. e * I \in Nat /\ (e + 1) * I \in Nat
      BY <2>1, <1>1
    <3>. HIDE DEF I
    <3>. QED BY <1>2, <1>3, <3>1
  <2>3. ASSUME NEW x \in (e * I)..((e + 1) * I - 1), In(x, x + 1) PROVE x = i
    <3>1. x \in 0..Inf /\ x + 1 \in 0..Inf /\ x \in Nat
      <4>. DEFINE lo == e * I
                  hi == (e + 1) * I
      <4>1. lo \in Nat /\ hi \in Nat /\ hi <= Inf /\ x \in lo..(hi - 1)
        BY <1>1, <2>1
      <4>. HIDE DEF lo, hi
      <4>. QED BY <1>1, <4>1
    <3>2. x <= i /\ i + 1 <= x + 1
      BY <1>10, <2>3, <3>1
    <3>. QED BY <1>2, <3>1, <3>2
  <2>. QED BY <1>13, <2>2, <2>3
<1>. QED
  <2>1. Ref!FloorIndex(num, den) =
          LET k == CHOOSE k \in 0..(ExpMax - 1) : In(k * I, (k + 1) * I)
          IN  CHOOSE x \in (k * I)..((k + 1) * I - 1) : In(x, x + 1)
    BY SameFormat DEF Ref!FloorIndex, In
  <2>. QED BY <1>12, <1>14, <2>1

---------------------------------------------------------------------------
(* Rounding to one of two neighbours.  Of a number between m and m + 1     *)
(* units it matters whether a part of a unit is lost, whether that is half *)
(* a unit or more, and whether it is just half.                            *)
Upwards(s, m, lost, half, tie, mode) ==
  CASE mode = "RTZ" -> FALSE
    [] mode = "RUP" -> s = 0 /\ lost
    [] mode = "RDN" -> s = 1 /\ lost
    [] mode = "RNA" -> half
    [] mode = "RNE" -> half /\ (~ tie \/ m % 2 = 1)

(* The value and flags for m units, or one more, in the binade of e.       *)
Neighbour(s, e, m, up, lost, mode) ==
  LET i == IndexOf(e, IF up THEN m + 1 ELSE m)
  IN  IF up /\ i = ExpMax * ImplicitBit THEN Overflow(s, mode)
      ELSE [res |-> [s |-> s, e |-> i \div ImplicitBit, f |-> i % ImplicitBit],
            fe |-> IF ~ lost THEN {}
                   ELSE {"inexact"} \cup (IF e = 1 /\ m < ImplicitBit THEN {"underflow"} ELSE {})]

LEMMA SameOverflow ==
  ASSUME NEW s \in {0, 1}, NEW mode \in Modes
  PROVE  Ref!Overflows(s, mode) = Overflow(s, mode)
<1>1. Ref!OverflowTo(s, mode) = OverflowResult(s, mode)
  <2>1. /\ Ref!SignedInf(0) = SignedInf(0) /\ Ref!SignedInf(1) = SignedInf(1)
        /\ Ref!SignedInf(s) = SignedInf(s)
        /\ Ref!MaxFinite(0) = MaxFinite(0) /\ Ref!MaxFinite(1) = MaxFinite(1)
        /\ Ref!MaxFinite(s) = MaxFinite(s)
    BY SameFormat
  <2>2. mode = "RNE" \/ mode = "RTZ" \/ mode = "RUP" \/ mode = "RDN" \/ mode = "RNA"
    BY DEF Modes
  <2>. QED BY <2>1, <2>2 DEF Ref!OverflowTo, OverflowResult
<1>. QED BY <1>1 DEF Ref!Overflows, Ref!Result, Overflow

(* What IEEE 754 prescribes for a fraction between m and m + 1 units.      *)
LEMMA RoundAt ==
  ASSUME NEW s \in {0, 1}, NEW mode \in Modes, NEW e \in 1..(ExpMax - 1), NEW m \in Nat,
         m < 2 * ImplicitBit, e = 1 \/ ImplicitBit <= m,
         NEW num \in Nat, NEW den \in Nat, den >= 1, NEW D, D = Unit(e) * den,
         m * D <= num, num < (m + 1) * D
  PROVE  Ref!Round(s, num, den, mode) =
           Neighbour(s, e, m,
                     Upwards(s, m, num # m * D, 2 * num >= (2 * m + 1) * D,
                             2 * num = (2 * m + 1) * D, mode),
                     num # m * D, mode)
<1>. DEFINE I == ImplicitBit
            i == IndexOf(e, m)
            Inf == ExpMax * I
            M(x) == Ref!Magnitude[x]
            exact == num = m * D
            half == 2 * num >= (2 * m + 1) * D
            tie == 2 * num = (2 * m + 1) * D
            up == Upwards(s, m, ~ exact, half, tie, mode)
<1>1. I \in Nat /\ I >= 4 /\ I % 2 = 0 /\ ExpMax \in Nat /\ ExpMax >= 3 /\ e \in Nat /\ Inf \in Nat
  BY GuardPowers, Fields
<1>2. Unit(e) \in Nat /\ Unit(e) >= 1 /\ Unit(1) = 1
  BY <1>1, UnitFacts
<1>3. D \in Nat /\ D >= 1 /\ m * D \in Nat /\ (m + 1) * D = m * D + D
      /\ (2 * m + 1) * D = 2 * (m * D) + D
  <2>1. D \in Nat /\ D >= 1
    BY <1>2
  <2>. QED BY <2>1
<1>4. InBinade(e, m) /\ InBinade(e, m + 1) /\ IndexOf(e, m + 1) = i + 1
  <2>1. (e - 1) * I \in Nat
    BY <1>1
  <2>. QED BY <1>1, <2>1 DEF InBinade, IndexOf
<1>5. i \in 0..Inf /\ i + 1 \in 0..Inf /\ M(i) = m * Unit(e) /\ M(i + 1) = (m + 1) * Unit(e)
  <2>1. i \in 0..Inf /\ M(i) = m * Unit(e)
    BY <1>4, MagnitudeAt
  <2>2. IndexOf(e, m + 1) \in 0..Inf /\ M(IndexOf(e, m + 1)) = (m + 1) * Unit(e)
    BY <1>4, MagnitudeAt
  <2>. HIDE DEF M, Inf, i
  <2>. QED BY <1>4, <2>1, <2>2
<1>6. i \in 0..(Inf - 1)
  <2>. HIDE DEF Inf, i
  <2>. QED BY <1>1, <1>5
<1>7. M(i) * den = m * D /\ M(i + 1) * den = (m + 1) * D
      /\ (M(i) + M(i + 1)) * den = (2 * m + 1) * D
  <2>. HIDE DEF M
  <2>1. (m * Unit(e)) * den = m * D /\ ((m + 1) * Unit(e)) * den = (m + 1) * D
    BY <1>2
  <2>2. (M(i) + M(i + 1)) * den = M(i) * den + M(i + 1) * den
    BY <1>2, <1>5
  <2>. QED BY <1>3, <1>5, <2>1, <2>2
<1>8. Ref!FloorIndex(num, den) = i
  <2>. HIDE DEF i
  <2>. QED BY <1>6, <1>7, FloorFound
<1>9. num < Ref!Magnitude[Inf] * den
  <2>. HIDE DEF i
  <2>1. Inf \in 0..Inf
    BY <1>1
  <2>2. M(i + 1) * den <= M(Inf) * den /\ M(i + 1) * den \in Nat /\ M(Inf) * den \in Nat
    <3>1. CASE i + 1 = Inf
      <4>1. M(i + 1) \in Nat
        BY <1>2, <1>5
      <4>. HIDE DEF M
      <4>. QED BY <3>1, <4>1
    <3>2. CASE i + 1 < Inf
      <4>1. M(i + 1) \in Nat /\ M(Inf) \in Nat /\ M(i + 1) < M(Inf)
        BY <1>5, <2>1, <3>2, Climbs
      <4>. HIDE DEF M
      <4>. QED BY <4>1
    <3>. HIDE DEF Inf
    <3>. QED BY <1>1, <1>5, <3>1, <3>2
  <2>. QED BY <1>7, <2>2
<1>10. i % 2 = m % 2
  <2>1. PICK q \in Nat : I = 2 * q
    <3>. HIDE DEF I
    <3>1. I \div 2 \in Nat /\ I = 2 * (I \div 2)
      BY <1>1
    <3>. QED BY <3>1
  <2>2. i = 2 * ((e - 1) * q) + m /\ (e - 1) * q \in Nat
    <3>. HIDE DEF I
    <3>1. (e - 1) * I = 2 * ((e - 1) * q) /\ (e - 1) * q \in Nat
      BY <1>1, <2>1
    <3>. QED BY <3>1 DEF IndexOf, I
  <2>. HIDE DEF i
  <2>. QED BY <2>2
<1>11. (~ exact /\ Ref!GoesUp(s, i, num, den, mode)) <=> up
  <2>1. Ref!GoesUp(s, i, num, den, mode) =
           (CASE mode = "RTZ" -> FALSE
              [] mode = "RUP" -> s = 0
              [] mode = "RDN" -> s = 1
              [] mode = "RNA" -> half
              [] mode = "RNE" -> 2 * num > (2 * m + 1) * D \/ (tie /\ i % 2 = 1))
    <3>. HIDE DEF i, M
    <3>. QED BY <1>7, Zenon DEF Ref!GoesUp, M
  <2>2. exact => ~ half /\ ~ tie
    BY <1>3
  <2>3. 2 * num > (2 * m + 1) * D <=> half /\ ~ tie
    <3>. DEFINE middle == (2 * m + 1) * D
                twice == 2 * num
    <3>1. middle \in Int /\ twice \in Int
      BY <1>3
    <3>. HIDE DEF middle, twice
    <3>2. twice > middle <=> twice >= middle /\ twice # middle
      BY <3>1
    <3>. QED BY <3>2 DEF middle, twice
  <2>4. half \in BOOLEAN /\ tie \in BOOLEAN /\ exact \in BOOLEAN
    OBVIOUS
  <2>5. mode = "RNE" \/ mode = "RTZ" \/ mode = "RUP" \/ mode = "RDN" \/ mode = "RNA"
    BY DEF Modes
  <2>. DEFINE above == 2 * num > (2 * m + 1) * D
              odd == i % 2 = 1
              goes == Ref!GoesUp(s, i, num, den, mode)
  <2>6. odd <=> m % 2 = 1
    BY <1>10
  <2>7. above \in BOOLEAN /\ odd \in BOOLEAN
    OBVIOUS
  <2>. HIDE DEF exact, half, tie, above, odd, goes
  <2>8. CASE mode = "RTZ"
    BY <2>1, <2>8 DEF Upwards, goes
  <2>9. CASE mode = "RUP"
    BY <2>1, <2>4, <2>9 DEF Upwards, goes
  <2>10. CASE mode = "RDN"
    BY <2>1, <2>4, <2>10 DEF Upwards, goes
  <2>11. CASE mode = "RNA"
    BY <2>1, <2>2, <2>4, <2>11 DEF Upwards, goes
  <2>12. CASE mode = "RNE"
    <3>1. goes <=> above \/ (tie /\ odd)
      BY <2>1, <2>12 DEF goes, above, odd
    <3>2. up <=> half /\ (~ tie \/ m % 2 = 1)
      BY <2>4, <2>12 DEF Upwards
    <3>3. above <=> half /\ ~ tie
      BY <2>3 DEF above
    <3>4. tie => half
      BY <1>3 DEF tie, half
    <3>. HIDE DEF up
    <3>5. ~ exact /\ goes <=> up
      BY <2>2, <2>4, <2>6, <2>7, <3>1, <3>2, <3>3, <3>4, Zenon
    <3>. QED BY <3>5 DEF goes
  <2>. QED BY <2>5, <2>8, <2>9, <2>10, <2>11, <2>12
<1>12. ~ exact => (num < I * den <=> e = 1 /\ m < I)
  <2>1. CASE e = 1 /\ m < I
    <3>1. D = den /\ (m + 1) * den <= I * den /\ I * den \in Nat
      BY <1>1, <1>2, <2>1
    <3>. QED BY <1>3, <2>1, <3>1
  <2>2. CASE ~ (e = 1 /\ m < I)
    <3>1. I <= m
      BY <1>1, <2>2
    <3>2. I * den <= I * D
      <4>1. den <= D
        BY <1>2
      <4>. QED BY <1>1, <1>3, <4>1
    <3>3. I * D <= m * D
      BY <1>1, <1>3, <3>1
    <3>4. I * den \in Nat /\ I * D \in Nat
      BY <1>1, <1>3
    <3>. QED BY <1>3, <2>2, <3>2, <3>3, <3>4
  <2>. QED BY <2>1, <2>2
<1>. DEFINE j == IF up THEN i + 1 ELSE i
            flags == IF exact THEN {}
                     ELSE {"inexact"} \cup (IF num < I * den THEN {"underflow"} ELSE {})
<1>13. Ref!Round(s, num, den, mode) =
         IF j = Inf THEN Overflow(s, mode)
         ELSE [res |-> [s |-> s, e |-> j \div I, f |-> j % I], fe |-> flags]
  <2>1. ~ (num >= Ref!Magnitude[Inf] * den)
    <3>1. Ref!Magnitude[Inf] * den \in Nat
      <4>1. Inf \in 0..Inf /\ i \in 0..Inf /\ i < Inf
        <5>. HIDE DEF Inf, i
        <5>. QED BY <1>1, <1>6
      <4>2. Ref!Magnitude[Inf] \in Nat
        BY <4>1, Climbs
      <4>. QED BY <4>2
    <3>. QED BY <1>9, <3>1
  <2>2. (M(i) * den = num) <=> exact
    <3>. HIDE DEF M, i
    <3>. QED BY <1>7
  <2>. HIDE DEF i, Inf
  <2>3. Ref!InfIndex = Inf /\ Ref!ImplicitBit = I
    BY SameFormat DEF Inf
  <2>4. Ref!Round(s, num, den, mode) =
          IF (IF ~ exact /\ Ref!GoesUp(s, i, num, den, mode) THEN i + 1 ELSE i) = Inf
          THEN Ref!Overflows(s, mode)
          ELSE Ref!Result(Ref!OfIndex(s, IF ~ exact /\ Ref!GoesUp(s, i, num, den, mode)
                                         THEN i + 1 ELSE i), flags)
    <3>. HIDE DEF exact
    <3>. QED BY <1>8, <2>1, <2>2, <2>3, Zenon DEF Ref!Round, M
  <2>5. j = IF ~ exact /\ Ref!GoesUp(s, i, num, den, mode) THEN i + 1 ELSE i
    <3>. HIDE DEF exact, up
    <3>. QED BY <1>11
  <2>. HIDE DEF exact, up, j
  <2>. QED BY <2>3, <2>4, <2>5, SameOverflow, Zenon DEF Ref!Result, Ref!OfIndex
<1>14. j = Inf => up
  <2>. HIDE DEF Inf, i, up
  <2>. QED BY <1>1, <1>6
<1>15. j = IndexOf(e, IF up THEN m + 1 ELSE m)
  <2>. HIDE DEF up
  <2>. QED BY <1>4
<1>16. flags = IF exact THEN {}
               ELSE {"inexact"} \cup (IF e = 1 /\ m < I THEN {"underflow"} ELSE {})
  <2>. HIDE DEF exact
  <2>. QED BY <1>12
<1>. HIDE DEF j, flags, up, exact
<1>17. Ref!Round(s, num, den, mode) = Neighbour(s, e, m, up, ~ exact, mode)
  BY <1>13, <1>14, <1>15, <1>16, Zenon DEF Neighbour
<1>. QED BY <1>17 DEF up, exact

---------------------------------------------------------------------------
(* Pack.  The guard bits say what is lost, and the fraction above them how *)
(* many units there are.                                                   *)
Units(sig) == sig \div Guard
Rest(sig) == sig % Guard

LEMMA Parts ==
  ASSUME NEW sig \in Nat
  PROVE  /\ Units(sig) \in Nat /\ Rest(sig) \in Nat /\ Rest(sig) < Guard
         /\ sig = Units(sig) * Guard + Rest(sig)
         /\ RoundBit(sig) <=> Half <= Rest(sig)
         /\ StickyBits(sig) <=> Rest(sig) # 0 /\ Rest(sig) # Half
         /\ Lsb(sig) <=> Units(sig) % 2 = 1
         /\ Inexact(sig) <=> Rest(sig) # 0
<1>. DEFINE G == Guard
            H == Half
            m == Units(sig)
            r == Rest(sig)
<1>1. G \in Nat /\ H \in Nat /\ G = 2 * H /\ H >= 4
  BY GuardPowers
<1>2. m = sig \div G /\ r = sig % G
  BY DEF Units, Rest
<1>3. m \in Nat /\ r \in Nat /\ r < G /\ sig = m * G + r
  <2>. HIDE DEF G, H, m, r
  <2>1. G >= 1
    BY <1>1
  <2>2. /\ sig \div G \in Nat /\ sig % G \in Nat /\ sig % G < G
        /\ sig = (sig \div G) * G + (sig % G)
    BY <1>1, <2>1, Split
  <2>. QED BY <1>2, <2>2
<1>4. RoundBit(sig) <=> (sig \div H) % 2 = 1
  BY DEF RoundBit, BitSet, Half
<1>5. StickyBits(sig) <=> (sig % H) # 0
  BY DEF StickyBits, Half
<1>6. Lsb(sig) <=> m % 2 = 1
  BY DEF Lsb, BitSet, Units, Guard
<1>. HIDE DEF G, H, m, r
<1>7. CASE r < H
  <2>1. sig = (2 * m) * H + r
    BY <1>1, <1>3
  <2>2. sig \div H = 2 * m /\ sig % H = r
    <3>1. 2 * m \in Nat
      BY <1>3
    <3>. QED BY <1>1, <1>3, <1>7, <2>1, <3>1, Join
  <2>3. (2 * m) % 2 = 0
    BY <1>3
  <2>4. ~ (H <= r) /\ r # H
    BY <1>1, <1>3, <1>7
  <2>5. ~ RoundBit(sig) /\ (StickyBits(sig) <=> r # 0)
    BY <1>4, <1>5, <2>2, <2>3
  <2>. QED BY <1>3, <1>6, <2>4, <2>5 DEF Inexact, G, H, m, r
<1>8. CASE H <= r
  <2>1. sig = (2 * m + 1) * H + (r - H)
    BY <1>1, <1>3
  <2>2. sig \div H = 2 * m + 1 /\ sig % H = r - H
    <3>1. 2 * m + 1 \in Nat /\ r - H \in Nat /\ r - H < H
      BY <1>1, <1>3, <1>8
    <3>. QED BY <1>1, <2>1, <3>1, Join
  <2>3. (2 * m + 1) % 2 = 1
    BY <1>3
  <2>4. r # 0 /\ (r - H # 0 <=> r # H)
    BY <1>1, <1>3, <1>8
  <2>5. RoundBit(sig) /\ (StickyBits(sig) <=> r # H)
    BY <1>4, <1>5, <2>2, <2>3, <2>4
  <2>. QED BY <1>3, <1>6, <1>8, <2>4, <2>5 DEF Inexact, G, H, m, r
<1>. QED BY <1>1, <1>3, <1>7, <1>8

(* The direction should_round_up decides.                                  *)
SigUp(s, sig, mode) ==
  Upwards(s, Units(sig), Rest(sig) # 0, Half <= Rest(sig), Rest(sig) = Half, mode)

LEMMA RoundsUp ==
  ASSUME NEW s \in {0, 1}, NEW sig \in Nat, NEW mode \in Modes
  PROVE  Rounded(s, sig, mode) = (IF SigUp(s, sig, mode) THEN sig + Guard ELSE sig)
<1>1. /\ RoundBit(sig) <=> Half <= Rest(sig)
      /\ StickyBits(sig) <=> Rest(sig) # 0 /\ Rest(sig) # Half
      /\ Lsb(sig) <=> Units(sig) % 2 = 1
      /\ Half >= 4 /\ Half \in Nat
      /\ Rest(sig) \in Nat
  BY Parts, GuardPowers
<1>2. ShouldRoundUp(s, RoundBit(sig), StickyBits(sig), Lsb(sig), mode) <=> SigUp(s, sig, mode)
  <2>1. mode = "RNE" \/ mode = "RTZ" \/ mode = "RUP" \/ mode = "RDN" \/ mode = "RNA"
    BY DEF Modes
  <2>2. RoundBit(sig) \in BOOLEAN /\ StickyBits(sig) \in BOOLEAN /\ Lsb(sig) \in BOOLEAN
    BY DEF RoundBit, StickyBits, Lsb, BitSet
  <2>3. CASE mode = "RTZ"
    BY <2>3 DEF ShouldRoundUp, SigUp, Upwards
  <2>4. CASE mode = "RUP"
    BY <1>1, <2>2, <2>4 DEF ShouldRoundUp, SigUp, Upwards
  <2>5. CASE mode = "RDN"
    BY <1>1, <2>2, <2>5 DEF ShouldRoundUp, SigUp, Upwards
  <2>6. CASE mode = "RNA"
    BY <1>1, <2>2, <2>6 DEF ShouldRoundUp, SigUp, Upwards
  <2>7. CASE mode = "RNE"
    BY <1>1, <2>2, <2>7 DEF ShouldRoundUp, SigUp, Upwards
  <2>. QED BY <2>1, <2>3, <2>4, <2>5, <2>6, <2>7
<1>. QED BY <1>2, Zenon DEF Rounded, Guard

(* The value in the binade of e with m units, 0 <= e, when the code has    *)
(* masked the implicit bit off and picked the exponent field.              *)
LEMMA FieldsOf ==
  ASSUME NEW e \in 1..ExpMax, NEW m \in Nat, m < 2 * ImplicitBit, e = 1 \/ ImplicitBit <= m
  PROVE  /\ m < ImplicitBit => IndexOf(e, m) \div ImplicitBit = 0
         /\ ImplicitBit <= m => IndexOf(e, m) \div ImplicitBit = e
         /\ IndexOf(e, m) % ImplicitBit = m % ImplicitBit
<1>. DEFINE I == ImplicitBit
<1>1. I \in Nat /\ I >= 4 /\ e \in Nat /\ e >= 1
  BY GuardPowers, Fields
<1>2. ASSUME NEW k \in Nat, NEW r \in Nat, r < I
      PROVE  (k * I + r) \div I = k /\ (k * I + r) % I = r
  <2>. HIDE DEF I
  <2>. QED BY <1>1, <1>2
<1>3. CASE m < I
  <2>1. IndexOf(e, m) = 0 * I + m /\ m = 0 * I + m
    BY <1>1, <1>3 DEF IndexOf
  <2>2. (0 * I + m) \div I = 0 /\ (0 * I + m) % I = m
    BY <1>1, <1>2, <1>3
  <2>. QED BY <1>1, <1>3, <2>1, <2>2
<1>4. CASE I <= m
  <2>1. m - I \in Nat /\ m - I < I /\ m = 1 * I + (m - I)
    BY <1>1, <1>4
  <2>2. IndexOf(e, m) = e * I + (m - I)
    <3>1. (e - 1) * I = e * I - I /\ e * I \in Int
      BY <1>1
    <3>. QED BY <1>1, <3>1 DEF IndexOf
  <2>3. (e * I + (m - I)) \div I = e /\ (e * I + (m - I)) % I = m - I
    BY <1>1, <1>2, <2>1
  <2>4. (1 * I + (m - I)) % I = m - I
    BY <1>2, <2>1
  <2>. QED BY <1>1, <1>4, <2>1, <2>2, <2>3, <2>4
<1>. QED BY <1>1, <1>3, <1>4

(* The exponent from which Pack counts: subnormals share the first binade. *)
Binade(exp) == IF exp = 0 THEN 1 ELSE exp

(* A significand at the place Pack expects it.                             *)
Placed(exp, sig) ==
  \/ exp = 0 /\ sig < Pow2[ImplicitAt]
  \/ exp > 0 /\ Pow2[ImplicitAt] <= sig /\ sig < Pow2[ImplicitAt + 1]

LEMMA PlacedUnits ==
  ASSUME NEW exp \in 0..(ExpMax - 1), NEW sig \in Nat, Placed(exp, sig)
  PROVE  /\ Units(sig) < 2 * ImplicitBit
         /\ exp = 0 <=> Units(sig) < ImplicitBit
<1>. DEFINE I == ImplicitBit
            G == Guard
            m == Units(sig)
<1>1. I \in Nat /\ G \in Nat /\ G >= 1 /\ Pow2[ImplicitAt] = I * G
      /\ Pow2[ImplicitAt + 1] = 2 * (I * G) /\ I * G \in Nat
  BY GuardPowers
<1>2. m \in Nat /\ m * G <= sig /\ sig < (m + 1) * G /\ m * G \in Nat /\ (m + 1) * G \in Nat
  <2>1. m \in Nat /\ Rest(sig) \in Nat /\ Rest(sig) < G /\ sig = m * G + Rest(sig)
    BY Parts
  <2>2. (m + 1) * G = m * G + G /\ m * G \in Nat
    BY <1>1, <2>1
  <2>. HIDE DEF m, G
  <2>. QED BY <1>1, <2>1, <2>2
<1>3. sig < I * G => m < I
  <2>. HIDE DEF I, G, m
  <2>1. I <= m => I * G <= m * G
    BY <1>1, <1>2
  <2>. QED BY <1>1, <1>2, <2>1
<1>4. I * G <= sig => I <= m
  <2>. HIDE DEF I, G, m
  <2>1. m + 1 <= I => (m + 1) * G <= I * G
    BY <1>1, <1>2
  <2>. QED BY <1>1, <1>2, <2>1
<1>5. sig < 2 * (I * G) => m < 2 * I
  <2>. HIDE DEF I, G, m
  <2>1. 2 * I <= m => (2 * I) * G <= m * G
    BY <1>1, <1>2
  <2>2. (2 * I) * G = 2 * (I * G)
    BY <1>1
  <2>. QED BY <1>1, <1>2, <2>1, <2>2
<1>. HIDE DEF I, G, m
<1>6. CASE exp = 0 /\ sig < Pow2[ImplicitAt]
  BY <1>1, <1>2, <1>3, <1>6 DEF I, m
<1>7. CASE exp > 0 /\ Pow2[ImplicitAt] <= sig /\ sig < Pow2[ImplicitAt + 1]
  BY <1>1, <1>2, <1>4, <1>5, <1>7 DEF I, m
<1>. QED BY <1>6, <1>7 DEF Placed

(* The rounding of Pack goes to the neighbour should_round_up decides on,  *)
(* also when its carry moves into the next binade, or leaves the format.   *)
LEMMA PackIs ==
  ASSUME NEW s \in {0, 1}, NEW mode \in Modes, NEW exp \in 0..(ExpMax - 1), NEW sig \in Nat,
         Placed(exp, sig)
  PROVE  Pack(s, exp, sig, mode) =
           Neighbour(s, Binade(exp), Units(sig), SigUp(s, sig, mode), Rest(sig) # 0, mode)
<1>. DEFINE I == ImplicitBit
            G == Guard
            m == Units(sig)
            r == Rest(sig)
            up == SigUp(s, sig, mode)
            e == Binade(exp)
            n == IF up THEN m + 1 ELSE m
            raised == Rounded(s, sig, mode)
            i == IndexOf(e, n)
            flags == IF r = 0 THEN {}
                     ELSE {"inexact"} \cup (IF exp = 0 THEN {"underflow"} ELSE {})
<1>1. /\ I \in Nat /\ I >= 4 /\ G \in Nat /\ G >= 8 /\ G % 2 = 0
      /\ Pow2[ImplicitAt] = I * G /\ Pow2[ImplicitAt + 1] = 2 * (I * G)
      /\ Pow2[ImplicitAt + 2] = 4 * (I * G) /\ I * G \in Nat
  BY GuardPowers
<1>2. m \in Nat /\ r \in Nat /\ r < G /\ sig = m * G + r
  BY Parts
<1>3. m < 2 * I /\ (exp = 0 <=> m < I)
  BY PlacedUnits
<1>4. /\ e \in 1..(ExpMax - 1) /\ exp \in Nat /\ exp < ExpMax /\ ExpMax \in Nat
      /\ e = 1 \/ I <= m
      /\ exp # 0 => e = exp
      /\ exp = 0 => e = 1
  BY <1>1, <1>2, <1>3, Fields DEF Binade
<1>5. n \in Nat /\ n <= 2 * I /\ raised = n * G + r /\ raised \in Nat
      /\ (n < I => exp = 0) /\ (exp # 0 => I <= n) /\ (exp = 0 => n <= I)
  <2>1. raised = IF up THEN sig + G ELSE sig
    BY RoundsUp
  <2>2. (m + 1) * G = m * G + G /\ m * G \in Nat /\ n * G \in Nat
    BY <1>1, <1>2
  <2>. HIDE DEF up, raised, m, r, G, I
  <2>. QED BY <1>1, <1>2, <1>3, <2>1, <2>2
<1>. HIDE DEF up, raised, m, r
<1>6. (n * G + r) \div G = n
  BY <1>1, <1>2, <1>5, Join
<1>7. Inexact(sig) <=> r # 0
  BY Parts DEF r
<1>8. BitSet(raised, ImplicitAt + 1) <=> n = 2 * I
  <2>1. ImplicitAt + 1 \in Nat /\ ImplicitAt + 1 < MaxShift /\ (ImplicitAt + 1) + 1 = ImplicitAt + 2
    BY Widths
  <2>2. n * G <= (2 * I) * G /\ (2 * I) * G = 2 * (I * G) /\ n * G \in Nat /\ G <= I * G
    <3>. HIDE DEF n, I, G
    <3>. QED BY <1>1, <1>5
  <2>3. raised < Pow2[(ImplicitAt + 1) + 1]
    <3>. HIDE DEF n, I, G
    <3>. QED BY <1>1, <1>2, <1>5, <2>1, <2>2
  <2>4. BitSet(raised, ImplicitAt + 1) <=> 2 * (I * G) <= raised
    <3>. HIDE DEF n, I, G
    <3>. QED BY <1>1, <1>5, <2>1, <2>3, TopBit
  <2>5. n < 2 * I => raised < 2 * (I * G)
    <3>. HIDE DEF n, I, G
    <3>1. n < 2 * I => (n + 1) * G <= (2 * I) * G
      BY <1>1, <1>5
    <3>2. (n + 1) * G = n * G + G
      BY <1>1, <1>5
    <3>. QED BY <1>1, <1>2, <1>5, <2>2, <3>1, <3>2
  <2>6. n = 2 * I => 2 * (I * G) <= raised
    <3>. HIDE DEF n, I, G
    <3>1. n = 2 * I => n * G = (2 * I) * G
      OBVIOUS
    <3>. QED BY <1>1, <1>2, <1>5, <2>2, <3>1
  <2>. HIDE DEF n, I, G
  <2>. QED BY <1>1, <1>5, <2>4, <2>5, <2>6
<1>. DEFINE value(rexp, rsig) ==
              [s |-> s,
               e |-> IF rexp = 0 THEN (IF BitSet(rsig, ImplicitAt) THEN 1 ELSE 0)
                     ELSE IF ~ BitSet(rsig, ImplicitAt) /\ Fraction(rsig) = 0 THEN 0 ELSE rexp,
               f |-> Fraction(rsig)]
<1>9. Pack(s, exp, sig, mode) =
        IF BitSet(raised, ImplicitAt + 1)
        THEN IF exp + 1 >= ExpMax THEN Overflow(s, mode)
             ELSE [res |-> value(exp + 1, ShiftRightJamming(raised, 1)), fe |-> flags]
        ELSE [res |-> value(exp, raised), fe |-> flags]
  <2>1. flags = IF ~ Inexact(sig) THEN {}
                ELSE {"inexact"} \cup (IF exp = 0 THEN {"underflow"} ELSE {})
    BY <1>7
  <2>. HIDE DEF flags
  <2>. QED BY <2>1, Zenon DEF Pack, raised
<1>10. Neighbour(s, e, m, up, r # 0, mode) =
         IF up /\ i = ExpMax * I THEN Overflow(s, mode)
         ELSE [res |-> [s |-> s, e |-> i \div I, f |-> i % I], fe |-> flags]
  <2>1. (e = 1 /\ m < I) <=> exp = 0
    BY <1>1, <1>2, <1>3, <1>4
  <2>. HIDE DEF e, I
  <2>. QED BY <2>1, Zenon DEF Neighbour, I
<1>. HIDE DEF flags
<1>11. CASE n = 2 * I
  <2>. DEFINE sig1 == ShiftRightJamming(raised, 1)
  <2>1. up /\ exp # 0 /\ e = exp
    <3>. HIDE DEF e, I
    <3>. QED BY <1>1, <1>3, <1>4, <1>5, <1>11
  <2>2. i = (exp + 1) * I + 0 /\ (exp + 1) * I \in Nat
    <3>1. (exp - 1) * I + 2 * I = (exp + 1) * I /\ (exp + 1) * I \in Nat
      BY <1>1, <1>4
    <3>. HIDE DEF n, e
    <3>. QED BY <1>11, <2>1, <3>1 DEF IndexOf
  <2>3. i \div I = exp + 1 /\ i % I = 0
    <3>1. exp + 1 \in Nat /\ 0 \in Nat /\ 0 < I
      BY <1>1, <1>4
    <3>. HIDE DEF i, I
    <3>2. ((exp + 1) * I + 0) \div I = exp + 1 /\ ((exp + 1) * I + 0) % I = 0
      BY <1>1, <3>1, Join
    <3>. QED BY <2>2, <3>2, Zenon
  <2>4. i = ExpMax * I <=> exp + 1 >= ExpMax
    <3>1. exp + 1 < ExpMax => (exp + 1) * I < ExpMax * I
      <4>. HIDE DEF I
      <4>. QED BY <1>1, <1>4
    <3>2. exp + 1 >= ExpMax => exp + 1 = ExpMax
      BY <1>4
    <3>3. ExpMax * I \in Nat
      BY <1>1, <1>4
    <3>. HIDE DEF i, I
    <3>. QED BY <1>4, <2>2, <3>1, <3>2, <3>3
  <2>5. \E t \in Nat : t < G /\ sig1 = I * G + t
    <3>1. Pow2[1] = 2 /\ ~ (1 >= WordBits)
      <4>1. 0 \in Nat /\ 0 + 1 <= MaxShift
        BY Widths
      <4>2. Pow2[0 + 1] = 2 * Pow2[0]
        BY <4>1, Pow2Step
      <4>. QED BY <4>2, Pow2Step, Widths
    <3>2. raised = 2 * (I * G) + r
      <4>1. n * G = 2 * (I * G)
        BY <1>1, <1>11
      <4>. HIDE DEF n
      <4>. QED BY <1>5, <4>1
    <3>. DEFINE w == I * G
    <3>3. raised \div 2 = w + (r \div 2) /\ r \div 2 \in Nat /\ (r \div 2) + 1 < G
      <4>1. w \in Nat
        BY <1>1
      <4>. HIDE DEF w, I, G
      <4>. QED BY <1>1, <1>2, <3>2, <4>1 DEF w
    <3>4. sig1 = OrSticky(raised \div 2, (raised % 2) # 0)
      BY <3>1, Zenon DEF ShiftRightJamming
    <3>5. sig1 = w + (r \div 2) \/ sig1 = w + ((r \div 2) + 1)
      <4>1. w \in Nat
        BY <1>1
      <4>. HIDE DEF w, sig1
      <4>. QED BY <3>3, <3>4, <4>1 DEF OrSticky
    <3>6. r \div 2 < G
      <4>. HIDE DEF G
      <4>. QED BY <1>1, <3>3
    <3>. HIDE DEF sig1, G, I
    <3>. QED BY <3>3, <3>5, <3>6 DEF w
  <2>6. sig1 \in Nat /\ Fraction(sig1) = 0 /\ BitSet(sig1, ImplicitAt)
    <3>1. PICK t \in Nat : t < G /\ sig1 = I * G + t
      BY <2>5
    <3>. HIDE DEF sig1
    <3>2. sig1 \div G = I
      BY <1>1, <3>1, Join
    <3>3. Fraction(sig1) = I % I
      BY <3>2 DEF Fraction, Guard
    <3>4. I % I = 0
      <4>1. (1 * I + 0) % I = 0
        BY <1>1, Join
      <4>. QED BY <1>1, <4>1
    <3>5. I * G <= sig1 /\ sig1 < 2 * (I * G)
      <4>1. G <= I * G
        <5>. HIDE DEF I, G
        <5>. QED BY <1>1
      <4>. HIDE DEF I, G
      <4>. QED BY <1>1, <3>1, <4>1
    <3>6. ImplicitAt \in Nat /\ ImplicitAt < MaxShift /\ sig1 \in Nat
      BY <1>1, <3>1, Widths
    <3>7. BitSet(sig1, ImplicitAt)
      <4>. HIDE DEF I, G
      <4>. QED BY <1>1, <3>5, <3>6, TopBit
    <3>. QED BY <3>3, <3>4, <3>6, <3>7
  <2>7. value(exp + 1, sig1) = [s |-> s, e |-> exp + 1, f |-> 0]
    <3>. HIDE DEF sig1
    <3>. QED BY <1>4, <2>6
  <2>. HIDE DEF value, i, e, sig1
  <2>8. Pack(s, exp, sig, mode) =
          IF exp + 1 >= ExpMax THEN Overflow(s, mode)
          ELSE [res |-> [s |-> s, e |-> exp + 1, f |-> 0], fe |-> flags]
    BY <1>8, <1>9, <1>11, <2>7 DEF sig1
  <2>9. Neighbour(s, e, m, up, r # 0, mode) =
          IF exp + 1 >= ExpMax THEN Overflow(s, mode)
          ELSE [res |-> [s |-> s, e |-> exp + 1, f |-> 0], fe |-> flags]
    BY <1>10, <2>1, <2>3, <2>4
  <2>. QED BY <2>8, <2>9 DEF e, m, r, up
<1>12. CASE n < 2 * I
  <2>1. Fraction(raised) = n % I
    <3>. HIDE DEF n
    <3>. QED BY <1>5, <1>6 DEF Fraction, Guard
  <2>2. BitSet(raised, ImplicitAt) <=> I <= n
    <3>1. ImplicitAt \in Nat /\ ImplicitAt < MaxShift
      BY Widths
    <3>. HIDE DEF I, G, n
    <3>2. (n + 1) * G <= (2 * I) * G /\ (n + 1) * G = n * G + G /\ (2 * I) * G = 2 * (I * G)
          /\ n * G \in Nat
      BY <1>1, <1>5, <1>12
    <3>3. raised < Pow2[ImplicitAt + 1]
      BY <1>1, <1>2, <1>5, <3>2
    <3>4. BitSet(raised, ImplicitAt) <=> I * G <= raised
      BY <1>1, <1>5, <3>1, <3>3, TopBit
    <3>5. I <= n => I * G <= n * G
      BY <1>1, <1>5
    <3>6. n + 1 <= I => (n + 1) * G <= I * G
      BY <1>1, <1>5
    <3>. QED BY <1>1, <1>2, <1>5, <3>2, <3>4, <3>5, <3>6
  <2>3. /\ n < I => i \div I = 0
        /\ I <= n => i \div I = e
        /\ i % I = n % I
    <3>1. e \in 1..ExpMax /\ (e = 1 \/ I <= n)
      <4>. HIDE DEF n, e
      <4>. QED BY <1>4, <1>5
    <3>. HIDE DEF n, e
    <3>. QED BY <1>5, <1>12, <3>1, FieldsOf
  <2>4. i # ExpMax * I
    <3>1. (e - 1) * I + 2 * I = (e + 1) * I /\ (e + 1) * I <= ExpMax * I /\ (e - 1) * I \in Nat
          /\ ExpMax * I \in Nat /\ (e + 1) * I \in Nat
      <4>1. e \in Nat /\ e >= 1 /\ e + 1 <= ExpMax
        BY <1>4
      <4>. HIDE DEF e, I
      <4>. QED BY <1>1, <1>4, <4>1
    <3>. HIDE DEF n, e
    <3>. QED BY <1>1, <1>5, <1>12, <3>1 DEF IndexOf
  <2>5. value(exp, raised) = [s |-> s, e |-> i \div I, f |-> i % I]
    <3>1. CASE n < I
      <4>1. exp = 0 /\ ~ (I <= n)
        <5>. HIDE DEF n
        <5>. QED BY <1>1, <1>5, <3>1
      <4>. HIDE DEF i, n
      <4>. QED BY <2>1, <2>2, <2>3, <3>1, <4>1
    <3>2. CASE I <= n
      <4>1. (IF exp = 0 THEN 1 ELSE exp) = e
        BY DEF Binade
      <4>. HIDE DEF i, n, e
      <4>. QED BY <2>1, <2>2, <2>3, <3>2, <4>1
    <3>. HIDE DEF n
    <3>. QED BY <1>1, <1>5, <3>1, <3>2
  <2>6. ~ BitSet(raised, ImplicitAt + 1)
    <3>. HIDE DEF n
    <3>. QED BY <1>1, <1>5, <1>8, <1>12
  <2>. HIDE DEF value, i, e, n
  <2>. QED BY <1>9, <1>10, <2>4, <2>5, <2>6 DEF e, m, r, up
<1>. HIDE DEF n
<1>. QED BY <1>1, <1>5, <1>11, <1>12

---------------------------------------------------------------------------
(* What a jammed significand still says of the number P / Q it stands for: *)
(* on which side of every multiple of T the number is.                     *)
Stands(sig, P, Q, T) ==
  \A y \in Int : /\ sig < T * y <=> P < (T * y) * Q
                 /\ sig = T * y <=> P = (T * y) * Q

(* So Pack rounds that number correctly: the neighbours and the middle     *)
(* between them are multiples of half a unit.                              *)
LEMMA PackRounds ==
  ASSUME NEW s \in {0, 1}, NEW mode \in Modes, NEW exp \in 0..(ExpMax - 1), NEW sig \in Nat,
         Placed(exp, sig), NEW num \in Nat, NEW den \in Nat, den >= 1,
         Stands(sig, num * Guard, den * Unit(Binade(exp)), Half)
  PROVE  Pack(s, exp, sig, mode) = Ref!Round(s, num, den, mode)
<1>. DEFINE I == ImplicitBit
            G == Guard
            H == Half
            m == Units(sig)
            r == Rest(sig)
            e == Binade(exp)
            D == Unit(e) * den
<1>1. G \in Nat /\ H \in Nat /\ G = 2 * H /\ H >= 4 /\ I \in Nat /\ I >= 4
  BY GuardPowers
<1>2. m \in Nat /\ r \in Nat /\ r < G /\ sig = m * G + r
  BY Parts
<1>3. m < 2 * I /\ (exp = 0 <=> m < I)
  BY PlacedUnits
<1>4. /\ e \in 1..(ExpMax - 1) /\ e \in 1..ExpMax
      /\ e = 1 \/ I <= m
  BY <1>1, <1>2, <1>3, Fields DEF Binade
<1>5. D \in Nat /\ D >= 1 /\ den * Unit(e) = D
  <2>1. Unit(e) \in Nat /\ Unit(e) >= 1
    BY <1>4, UnitFacts
  <2>. HIDE DEF e
  <2>. QED BY <2>1
<1>6. ASSUME NEW y \in Nat
      PROVE  /\ sig < H * y <=> 2 * num < y * D
             /\ sig = H * y <=> 2 * num = y * D
  <2>1. /\ sig < H * y <=> num * G < (H * y) * D
        /\ sig = H * y <=> num * G = (H * y) * D
    <3>. HIDE DEF e, D
    <3>1. y \in Int
      OBVIOUS
    <3>. QED BY <1>5, <3>1 DEF Stands, e
  <2>. HIDE DEF D, H, G
  <2>2. num * G = H * (2 * num) /\ (H * y) * D = H * (y * D) /\ y * D \in Nat /\ 2 * num \in Nat
    BY <1>1, <1>5
  <2>. DEFINE a == 2 * num
              b == y * D
  <2>3. a \in Nat /\ b \in Nat
    BY <2>2
  <2>4. (H * a < H * b <=> a < b) /\ (H * a = H * b <=> a = b)
    <3>. HIDE DEF a, b
    <3>. QED BY <1>1, <2>3
  <2>. QED BY <2>1, <2>2, <2>4
<1>. HIDE DEF D, m, r, e
<1>7. H * (2 * m) = m * G /\ H * (2 * m + 2) = (m + 1) * G /\ H * (2 * m + 1) = m * G + H
      /\ (m + 1) * G = m * G + G /\ m * G \in Nat
  <2>. HIDE DEF H, G
  <2>. QED BY <1>1, <1>2
<1>8. (2 * m) * D = 2 * (m * D) /\ (2 * m + 2) * D = 2 * ((m + 1) * D) /\ m * D \in Nat
      /\ (m + 1) * D \in Nat /\ (2 * m + 1) * D \in Nat
  BY <1>2, <1>5
<1>. HIDE DEF H, G
<1>9. (r # 0 <=> num # m * D) /\ m * D <= num
  <2>1. 2 * m \in Nat
    BY <1>2
  <2>2. /\ sig < H * (2 * m) <=> 2 * num < (2 * m) * D
        /\ sig = H * (2 * m) <=> 2 * num = (2 * m) * D
    BY <1>6, <2>1
  <2>. QED BY <1>2, <1>7, <1>8, <2>2
<1>10. num < (m + 1) * D
  <2>1. 2 * m + 2 \in Nat
    BY <1>2
  <2>2. sig < H * (2 * m + 2) <=> 2 * num < (2 * m + 2) * D
    BY <1>6, <2>1
  <2>3. sig < H * (2 * m + 2)
    BY <1>1, <1>2, <1>7
  <2>4. 2 * num < 2 * ((m + 1) * D)
    BY <1>8, <2>2, <2>3
  <2>. DEFINE w == (m + 1) * D
  <2>5. w \in Nat /\ 2 * num < 2 * w
    BY <1>8, <2>4
  <2>. HIDE DEF w
  <2>6. num < w
    BY <2>5
  <2>. QED BY <2>6 DEF w
<1>11. (H <= r <=> 2 * num >= (2 * m + 1) * D) /\ (r = H <=> 2 * num = (2 * m + 1) * D)
  <2>1. 2 * m + 1 \in Nat
    BY <1>2
  <2>2. /\ sig < H * (2 * m + 1) <=> 2 * num < (2 * m + 1) * D
        /\ sig = H * (2 * m + 1) <=> 2 * num = (2 * m + 1) * D
    BY <1>6, <2>1
  <2>. QED BY <1>1, <1>2, <1>7, <1>8, <2>2
<1>12. SigUp(s, sig, mode) =
         Upwards(s, m, num # m * D, 2 * num >= (2 * m + 1) * D, 2 * num = (2 * m + 1) * D, mode)
  <2>1. SigUp(s, sig, mode) = Upwards(s, m, r # 0, H <= r, r = H, mode)
    BY DEF SigUp, m, r, H
  <2>2. ((r # 0) = (num # m * D)) /\ ((H <= r) = (2 * num >= (2 * m + 1) * D))
        /\ ((r = H) = (2 * num = (2 * m + 1) * D))
    BY <1>9, <1>11
  <2>. QED BY <2>1, <2>2, Zenon
<1>13. Pack(s, exp, sig, mode) = Neighbour(s, e, m, SigUp(s, sig, mode), r # 0, mode)
  BY PackIs DEF e, m, r
<1>14. Ref!Round(s, num, den, mode) =
         Neighbour(s, e, m,
                   Upwards(s, m, num # m * D, 2 * num >= (2 * m + 1) * D,
                           2 * num = (2 * m + 1) * D, mode),
                   num # m * D, mode)
  <2>1. D = Unit(e) * den
    BY DEF D
  <2>. HIDE DEF I
  <2>2. m < 2 * ImplicitBit /\ (e = 1 \/ ImplicitBit <= m)
    BY <1>3, <1>4 DEF I
  <2>. QED BY <1>2, <1>4, <1>9, <1>10, <2>1, <2>2, RoundAt
<1>15. (r # 0) = (num # m * D)
  BY <1>9
<1>. QED BY <1>12, <1>13, <1>14, <1>15, Zenon

---------------------------------------------------------------------------
(* Shifting with jamming keeps the side of every even multiple.            *)
LEMMA StickySide ==
  ASSUME NEW q \in Nat, NEW lost \in BOOLEAN, NEW z \in Int
  PROVE  /\ OrSticky(q, lost) < 2 * z <=> q < 2 * z
         /\ OrSticky(q, lost) = 2 * z <=> q = 2 * z /\ ~ lost
<1>1. CASE lost /\ q % 2 = 0
  <2>1. OrSticky(q, lost) = q + 1
    BY <1>1 DEF OrSticky
  <2>2. (q + 1 < 2 * z <=> q < 2 * z) /\ q + 1 # 2 * z
    BY <1>1
  <2>. QED BY <1>1, <2>1, <2>2
<1>2. CASE lost /\ q % 2 # 0
  <2>1. OrSticky(q, lost) = q /\ q # 2 * z
    BY <1>2 DEF OrSticky
  <2>. QED BY <1>2, <2>1
<1>3. CASE ~ lost
  BY <1>3 DEF OrSticky
<1>. QED BY <1>1, <1>2, <1>3

(* The side of a multiple of d is decided by the quotient.                 *)
LEMMA QuotientSide ==
  ASSUME NEW x \in Nat, NEW d \in Nat, d >= 1, NEW z \in Int
  PROVE  /\ x \div d < z <=> x < z * d
         /\ (x \div d = z /\ x % d = 0) <=> x = z * d
<1>. DEFINE q == x \div d
            r == x % d
<1>1. q \in Nat /\ r \in Nat /\ r < d /\ x = q * d + r
  BY Split
<1>. HIDE DEF q, r
<1>2. q < z => (q + 1) * d <= z * d
  BY <1>1
<1>3. z <= q => z * d <= q * d
  BY <1>1
<1>4. (q + 1) * d = q * d + d /\ q * d \in Nat /\ z * d \in Int
  BY <1>1
<1>5. q < z <=> x < z * d
  BY <1>1, <1>2, <1>3, <1>4
<1>6. (q = z /\ r = 0) <=> x = z * d
  <2>1. q = z /\ r = 0 => x = z * d
    BY <1>1
  <2>2. ASSUME x = z * d PROVE q = z /\ r = 0
    <3>1. ~ (q < z)
      BY <1>4, <1>5, <2>2
    <3>2. z < q => (z + 1) * d <= q * d
      BY <1>1
    <3>3. (z + 1) * d = z * d + d
      OBVIOUS
    <3>4. q = z
      BY <1>1, <1>4, <2>2, <3>1, <3>2, <3>3
    <3>. QED BY <1>1, <1>4, <2>2, <3>4
  <2>. QED BY <2>1, <2>2
<1>. QED BY <1>5, <1>6 DEF q, r

LEMMA JamSide ==
  ASSUME NEW x \in Nat, NEW n \in Nat, n <= MaxShift, x < Pow2[WordBits], NEW z \in Int
  PROVE  /\ ShiftRightJamming(x, n) < 2 * z <=> x < (2 * z) * Pow2[n]
         /\ ShiftRightJamming(x, n) = 2 * z <=> x = (2 * z) * Pow2[n]
<1>1. Pow2[n] \in Nat /\ Pow2[n] >= 1
  <2>1. n \in 0..MaxShift
    BY Widths
  <2>. QED BY <2>1, Pow2Positive
<1>. DEFINE d == Pow2[n]
<1>2. CASE n >= WordBits
  <2>1. x < d
    <3>1. Pow2[WordBits] <= Pow2[n]
      BY <1>2, Widths, Pow2Monotone
    <3>2. WordBits \in 0..MaxShift
      BY Widths
    <3>3. Pow2[WordBits] \in Nat
      BY <3>2, Pow2Step
    <3>. QED BY <1>1, <3>1, <3>3
  <2>2. ShiftRightJamming(x, n) = OrSticky(0, x # 0)
    BY <1>2 DEF ShiftRightJamming
  <2>3. /\ OrSticky(0, x # 0) < 2 * z <=> 0 < 2 * z
        /\ OrSticky(0, x # 0) = 2 * z <=> 0 = 2 * z /\ ~ (x # 0)
    <3>1. (x # 0) \in BOOLEAN /\ 0 \in Nat
      OBVIOUS
    <3>. QED BY <3>1, StickySide
  <2>. HIDE DEF d
  <2>4. z >= 1 => d <= (2 * z) * d
    BY <1>1 DEF d
  <2>5. z <= 0 => (2 * z) * d <= 0 /\ (z # 0 => (2 * z) * d < 0)
    BY <1>1 DEF d
  <2>6. (2 * z) * d \in Int /\ (z = 0 => (2 * z) * d = 0)
    BY <1>1 DEF d
  <2>7. d \in Nat /\ d >= 1
    BY <1>1 DEF d
  <2>8. x < (2 * z) * d <=> 0 < 2 * z
    BY <2>1, <2>4, <2>5, <2>6, <2>7
  <2>9. x = (2 * z) * d <=> 0 = 2 * z /\ x = 0
    BY <2>1, <2>4, <2>5, <2>6, <2>7
  <2>. QED BY <2>2, <2>3, <2>8, <2>9 DEF d
<1>3. CASE ~ (n >= WordBits)
  <2>1. ShiftRightJamming(x, n) = OrSticky(x \div d, (x % d) # 0)
    BY <1>3 DEF ShiftRightJamming
  <2>2. x \div d \in Nat /\ ((x % d) # 0) \in BOOLEAN
    BY <1>1, Split
  <2>3. /\ OrSticky(x \div d, (x % d) # 0) < 2 * z <=> x \div d < 2 * z
        /\ OrSticky(x \div d, (x % d) # 0) = 2 * z <=> x \div d = 2 * z /\ ~ ((x % d) # 0)
    <3>. HIDE DEF d
    <3>. QED BY <2>2, StickySide
  <2>4. /\ x \div d < 2 * z <=> x < (2 * z) * d
        /\ (x \div d = 2 * z /\ x % d = 0) <=> x = (2 * z) * d
    <3>. DEFINE c == 2 * z
    <3>1. c \in Int /\ d \in Nat /\ d >= 1
      BY <1>1
    <3>. HIDE DEF c, d
    <3>2. /\ x \div d < c <=> x < c * d
          /\ (x \div d = c /\ x % d = 0) <=> x = c * d
      BY <3>1, QuotientSide
    <3>. QED BY <3>2 DEF c
  <2>. HIDE DEF d
  <2>. QED BY <2>1, <2>3, <2>4 DEF d
<1>. QED BY <1>2, <1>3

---------------------------------------------------------------------------
(* A working exponent e scales num / den by Up(e) / Down(e).               *)
Up(e) == IF e >= 1 THEN Guard ELSE Guard * Pow2[1 - e]
Down(e) == IF e >= 1 THEN Pow2[e - 1] ELSE 1

(* sig, at the working exponent e, stands for num / den.                   *)
StandsFor(e, sig, num, den, T) == Stands(sig, num * Up(e), den * Down(e), T)

Scalable(e) == e \in Int /\ e - 1 <= MaxShift /\ 1 - e <= MaxShift

LEMMA ScaleFacts ==
  ASSUME NEW e, Scalable(e)
  PROVE  /\ Up(e) \in Nat /\ Up(e) >= 1 /\ Down(e) \in Nat /\ Down(e) >= 1
         /\ e >= 1 => Down(e) = Unit(e)
<1>1. e \in Int /\ e - 1 <= MaxShift /\ 1 - e <= MaxShift /\ Guard \in Nat /\ Guard >= 8
  BY GuardPowers DEF Scalable
<1>2. CASE e >= 1
  <2>1. e - 1 \in 0..MaxShift
    BY <1>1, <1>2, Widths
  <2>2. Pow2[e - 1] \in Nat /\ Pow2[e - 1] >= 1
    BY <2>1, Pow2Positive
  <2>. QED BY <1>1, <1>2, <2>2 DEF Up, Down, Unit
<1>3. CASE ~ (e >= 1)
  <2>1. 1 - e \in 0..MaxShift
    BY <1>1, <1>3, Widths
  <2>2. Pow2[1 - e] \in Nat /\ Pow2[1 - e] >= 1
    BY <2>1, Pow2Positive
  <2>3. Guard * Pow2[1 - e] \in Nat /\ Guard * Pow2[1 - e] >= 1
    <3>. DEFINE p == Pow2[1 - e]
    <3>1. p \in Nat /\ p >= 1
      BY <2>2
    <3>. HIDE DEF p
    <3>2. Guard * p \in Nat /\ Guard * p >= 1
      BY <1>1, <3>1
    <3>. QED BY <3>2 DEF p
  <2>. QED BY <1>3, <2>3 DEF Up, Down
<1>. QED BY <1>2, <1>3

(* The magnitude of the infinity.                                          *)
LEMMA InfMagnitude ==
  Ref!Magnitude[ExpMax * ImplicitBit] = ImplicitBit * Unit(ExpMax)
<1>. DEFINE I == ImplicitBit
            e == ExpMax - 1
<1>1. I \in Nat /\ I >= 4 /\ ExpMax \in Nat /\ ExpMax >= 3 /\ e \in 1..(ExpMax - 1) /\ e \in 1..ExpMax
      /\ e < ExpMax /\ e + 1 = ExpMax
  BY GuardPowers, Fields
<1>2. InBinade(e, 2 * I)
  BY <1>1 DEF InBinade
<1>3. IndexOf(e, 2 * I) = ExpMax * I
  <2>1. (e - 1) * I + 2 * I = (e + 1) * I
    <3>. HIDE DEF e, I
    <3>. QED BY <1>1
  <2>. HIDE DEF e
  <2>. QED BY <1>1, <2>1 DEF IndexOf
<1>4. Ref!Magnitude[IndexOf(e, 2 * I)] = (2 * I) * Unit(e)
  BY <1>1, <1>2, MagnitudeAt
<1>5. Unit(e) \in Nat /\ Unit(e + 1) = 2 * Unit(e)
  BY <1>1, UnitFacts
<1>6. (2 * I) * Unit(e) = I * (2 * Unit(e))
  BY <1>1, <1>5
<1>. QED BY <1>1, <1>3, <1>4, <1>5, <1>6

(* round_and_pack is correct rounding: of every number a normalised        *)
(* significand stands for it delivers the value and the flags IEEE 754     *)
(* prescribes, through the one shift and the one rounding of the code.     *)
LEMMA RoundsCorrectly ==
  ASSUME NEW s \in {0, 1}, NEW mode \in Modes, NEW exp, Scalable(exp), NEW sig \in Nat,
         Pow2[ImplicitAt] <= sig, sig < Pow2[ImplicitAt + 1],
         NEW num \in Nat, NEW den \in Nat, den >= 1,
         StandsFor(exp, sig, num, den, Half)
  PROVE  RoundAndPack(s, exp, sig, mode) = Ref!Round(s, num, den, mode)
<1>. DEFINE I == ImplicitBit
            G == Guard
            H == Half
<1>1. G \in Nat /\ H \in Nat /\ G = 2 * H /\ H >= 4 /\ I \in Nat /\ I >= 4
      /\ Pow2[ImplicitAt] = I * G
      /\ \E q \in Nat : H = 4 * q
  BY GuardPowers
<1>2. exp \in Int /\ exp - 1 <= MaxShift /\ 1 - exp <= MaxShift /\ ExpMax \in Nat /\ ExpMax >= 3
  BY Fields DEF Scalable
<1>3. Stands(sig, num * Up(exp), den * Down(exp), H)
  BY DEF StandsFor
<1>4. CASE exp >= ExpMax
  <2>. DEFINE p == Pow2[exp - 1]
              u == Unit(ExpMax)
  <2>1. /\ exp - 1 \in 0..MaxShift /\ ExpMax - 1 \in Nat /\ exp - 1 \in Nat
        /\ ExpMax - 1 <= exp - 1 /\ exp - 1 <= MaxShift
    BY <1>2, <1>4
  <2>2. p \in Nat /\ p >= 1 /\ u \in Nat /\ u <= p
    <3>1. Pow2[ExpMax - 1] <= Pow2[exp - 1]
      BY <2>1, Pow2Monotone
    <3>2. ExpMax \in 1..ExpMax
      BY <1>2
    <3>. QED BY <2>1, <3>1, <3>2, Pow2Positive, UnitFacts DEF Unit
  <2>3. Up(exp) = G /\ Down(exp) = p
    BY <1>2, <1>4 DEF Up, Down
  <2>4. ~ (num * G < (H * (2 * I)) * (den * p))
    <3>1. 2 * I \in Int /\ ~ (sig < H * (2 * I))
      <4>1. H * (2 * I) = I * G
        <5>. HIDE DEF H, G, I
        <5>. QED BY <1>1
      <4>2. I * G \in Nat
        BY <1>1
      <4>. QED BY <1>1, <4>1, <4>2
    <3>2. sig < H * (2 * I) <=> num * G < (H * (2 * I)) * (den * p)
      <4>. HIDE DEF H, G, I, p
      <4>. QED BY <1>3, <2>3, <3>1 DEF Stands
    <3>. QED BY <3>1, <3>2
  <2>. HIDE DEF p, u, G, H, I
  <2>5. num >= I * (den * p)
    <3>. DEFINE b == I * (den * p)
    <3>1. (H * (2 * I)) * (den * p) = b * G /\ b \in Nat
      <4>. DEFINE c == den * p
      <4>1. c \in Nat
        BY <2>2
      <4>. HIDE DEF c
      <4>2. H * (2 * I) = I * G
        BY <1>1
      <4>3. (I * G) * c = (I * c) * G /\ I * c \in Nat
        BY <1>1, <4>1
      <4>. QED BY <4>2, <4>3 DEF c
    <3>. HIDE DEF b
    <3>2. ~ (num * G < b * G)
      BY <2>4, <3>1
    <3>3. num < b => num * G < b * G
      BY <1>1, <3>1
    <3>. QED BY <3>1, <3>2, <3>3 DEF b
  <2>6. num >= (I * u) * den
    <3>1. I * (den * u) <= I * (den * p)
      <4>1. den * u <= den * p /\ den * u \in Nat /\ den * p \in Nat
        BY <2>2
      <4>. QED BY <1>1, <4>1
    <3>2. (I * u) * den = I * (den * u) /\ I * (den * u) \in Nat /\ I * (den * p) \in Nat
      BY <1>1, <2>2
    <3>. QED BY <2>5, <3>1, <3>2
  <2>7. num >= Ref!Magnitude[Ref!InfIndex] * den
    BY <2>6, InfMagnitude, SameFormat DEF I, u
  <2>8. Ref!Round(s, num, den, mode) = Ref!Overflows(s, mode)
    BY <2>7, Zenon DEF Ref!Round
  <2>9. RoundAndPack(s, exp, sig, mode) = Overflow(s, mode)
    BY <1>4 DEF RoundAndPack
  <2>. QED BY <2>8, <2>9, SameOverflow
<1>5. CASE 1 <= exp /\ exp < ExpMax
  <2>1. RoundAndPack(s, exp, sig, mode) = Pack(s, exp, sig, mode)
    BY <1>2, <1>5 DEF RoundAndPack
  <2>2. exp \in 0..(ExpMax - 1) /\ Binade(exp) = exp /\ Placed(exp, sig)
    BY <1>2, <1>5 DEF Binade, Placed
  <2>3. Stands(sig, num * G, den * Unit(Binade(exp)), H)
    <3>1. Up(exp) = G /\ Down(exp) = Unit(exp)
      BY <1>5 DEF Up, Down, Unit
    <3>. QED BY <1>3, <2>2, <3>1
  <2>. QED BY <2>1, <2>2, <2>3, PackRounds
<1>6. CASE exp <= 0
  <2>. DEFINE n == 1 - exp
              p == Pow2[n]
              jam == ShiftRightJamming(sig, n)
  <2>1. n \in Nat \ {0} /\ n \in Nat /\ n <= MaxShift /\ n \in 0..MaxShift
    BY <1>2, <1>6
  <2>2. p \in Nat /\ p >= 1
    BY <2>1, Pow2Positive
  <2>3. jam \in Nat /\ jam < Pow2[ImplicitAt]
    <3>1. ImplicitAt \in Nat /\ ImplicitAt > 0 /\ ImplicitAt < WordBits
      BY Widths
    <3>. HIDE DEF n
    <3>. QED BY <2>1, <3>1, JamHalf
  <2>4. sig < Pow2[WordBits]
    <3>1. ImplicitAt + 1 \in Nat /\ WordBits \in Nat /\ ImplicitAt + 1 <= WordBits
          /\ WordBits <= MaxShift /\ ImplicitAt + 1 \in 0..MaxShift /\ WordBits \in 0..MaxShift
      BY Widths
    <3>2. Pow2[ImplicitAt + 1] <= Pow2[WordBits]
      BY <3>1, Pow2Monotone
    <3>. QED BY <3>1, <3>2, Pow2Step
  <2>5. Up(exp) = G * p /\ Down(exp) = 1
    BY <1>2, <1>6 DEF Up, Down
  <2>6. Stands(jam, num * G, den * Unit(Binade(0)), H)
    <3>1. Unit(Binade(0)) = 1
      <4>1. 1 \in 1..ExpMax
        BY <1>2
      <4>. QED BY <4>1, UnitFacts DEF Binade
    <3>. SUFFICES ASSUME NEW y \in Int
                  PROVE  /\ jam < H * y <=> num * G < (H * y) * den
                         /\ jam = H * y <=> num * G = (H * y) * den
      <4>1. den * Unit(Binade(0)) = den
        BY <3>1
      <4>. HIDE DEF jam, G, H
      <4>. QED BY <4>1 DEF Stands
    <3>2. PICK h \in Nat : H = 2 * h
      <4>1. PICK q \in Nat : H = 4 * q
        BY <1>1
      <4>2. 2 * q \in Nat /\ H = 2 * (2 * q)
        BY <4>1
      <4>. QED BY <4>2
    <3>. HIDE DEF n, p, jam, G, H
    <3>. DEFINE z == h * y
                k == y * p
    <3>3. z \in Int /\ k \in Int /\ H * y = 2 * z /\ (2 * z) * p = H * k
      <4>1. (2 * (h * y)) * p = (2 * h) * (y * p)
        BY <2>2, <3>2
      <4>. QED BY <2>2, <3>2, <4>1
    <3>4. /\ jam < 2 * z <=> sig < (2 * z) * p
          /\ jam = 2 * z <=> sig = (2 * z) * p
      <4>. HIDE DEF z
      <4>. QED BY <2>1, <2>4, <3>3, JamSide DEF jam, p
    <3>5. /\ sig < H * k <=> num * (G * p) < (H * k) * (den * 1)
          /\ sig = H * k <=> num * (G * p) = (H * k) * (den * 1)
      <4>. HIDE DEF k
      <4>. QED BY <1>3, <2>5, <3>3 DEF Stands
    <3>6. num * (G * p) = (num * G) * p /\ (H * k) * (den * 1) = ((H * y) * den) * p
      <4>1. G \in Nat /\ H \in Nat
        BY <1>1
      <4>2. (H * (y * p)) * (den * 1) = ((H * y) * den) * p
        <5>. DEFINE a == H * y
        <5>1. a \in Int /\ H * (y * p) = a * p
          BY <2>2, <4>1
        <5>. HIDE DEF a
        <5>2. (a * p) * (den * 1) = (a * den) * p
          BY <2>2, <5>1
        <5>. QED BY <5>1, <5>2 DEF a
      <4>. QED BY <2>2, <4>1, <4>2
    <3>. DEFINE a == num * G
                b == (H * y) * den
    <3>7. a \in Nat /\ b \in Int
      <4>1. H * y \in Int
        BY <1>1
      <4>. QED BY <1>1, <4>1
    <3>8. (a * p < b * p <=> a < b) /\ (a * p = b * p <=> a = b)
      <4>. HIDE DEF a, b
      <4>. QED BY <2>2, <3>7
    <3>. HIDE DEF z, k
    <3>. QED BY <3>3, <3>4, <3>5, <3>6, <3>8
  <2>7. RoundAndPack(s, exp, sig, mode) = Pack(s, 0, jam, mode)
    BY <1>2, <1>6 DEF RoundAndPack
  <2>8. 0 \in 0..(ExpMax - 1) /\ Placed(0, jam)
    BY <1>2, <2>3 DEF Placed
  <2>. HIDE DEF jam
  <2>. QED BY <2>3, <2>6, <2>7, <2>8, PackRounds
<1>. QED BY <1>2, <1>4, <1>5, <1>6

---------------------------------------------------------------------------
(* Working exponents.  One less doubles what a significand counts.         *)
LEMMA Rescale ==
  ASSUME NEW e, Scalable(e), NEW n \in Nat, n <= MaxShift, Scalable(e - n)
  PROVE  /\ Pow2[n] \in Nat /\ Pow2[n] >= 1
         /\ Up(e - n) * Down(e) = (Up(e) * Down(e - n)) * Pow2[n]
<1>1. /\ e \in Int /\ e - 1 <= MaxShift /\ 1 - e <= MaxShift /\ (e - n) - 1 <= MaxShift
      /\ 1 - (e - n) <= MaxShift /\ Guard \in Nat
  BY GuardPowers DEF Scalable
<1>2. n \in 0..MaxShift
  BY <1>1, Widths
<1>3. Pow2[n] \in Nat /\ Pow2[n] >= 1
  BY <1>2, Pow2Positive
<1>4. CASE e - n >= 1
  <2>. DEFINE k == (e - n) - 1
  <2>1. k \in Nat /\ k + n = e - 1 /\ k \in 0..MaxShift
    BY <1>1, <1>4
  <2>2. Pow2[e - 1] = Pow2[k] * Pow2[n] /\ Pow2[k] \in Nat
    <3>. HIDE DEF k
    <3>1. Pow2[k + n] = Pow2[k] * Pow2[n]
      BY <1>1, <2>1, Pow2Sum
    <3>. QED BY <2>1, <3>1, Pow2Step
  <2>3. Up(e - n) = Guard /\ Up(e) = Guard /\ Down(e) = Pow2[e - 1] /\ Down(e - n) = Pow2[k]
    BY <1>1, <1>4 DEF Up, Down
  <2>4. Guard * (Pow2[k] * Pow2[n]) = (Guard * Pow2[k]) * Pow2[n]
    <3>. HIDE DEF k
    <3>. QED BY <1>1, <1>3, <2>2
  <2>. QED BY <1>3, <2>2, <2>3, <2>4
<1>5. CASE e >= 1 /\ ~ (e - n >= 1)
  <2>. DEFINE k == 1 - (e - n)
              j == e - 1
  <2>1. k \in Nat /\ j \in Nat /\ k + j = n /\ k \in 0..MaxShift /\ j \in 0..MaxShift
    BY <1>1, <1>5
  <2>2. Pow2[n] = Pow2[k] * Pow2[j] /\ Pow2[k] \in Nat /\ Pow2[j] \in Nat
    <3>. HIDE DEF k, j
    <3>1. Pow2[k + j] = Pow2[k] * Pow2[j]
      BY <1>2, <2>1, Pow2Sum
    <3>. QED BY <2>1, <3>1, Pow2Step
  <2>3. Up(e - n) = Guard * Pow2[k] /\ Up(e) = Guard /\ Down(e) = Pow2[j] /\ Down(e - n) = 1
    BY <1>1, <1>5 DEF Up, Down
  <2>4. (Guard * Pow2[k]) * Pow2[j] = (Guard * 1) * (Pow2[k] * Pow2[j])
    <3>. HIDE DEF k, j
    <3>. QED BY <1>1, <2>2
  <2>. QED BY <1>3, <2>2, <2>3, <2>4
<1>6. CASE ~ (e >= 1)
  <2>. DEFINE k == 1 - e
  <2>1. k \in Nat /\ k + n = 1 - (e - n) /\ k \in 0..MaxShift /\ ~ (e - n >= 1)
    BY <1>1, <1>6
  <2>2. Pow2[1 - (e - n)] = Pow2[k] * Pow2[n] /\ Pow2[k] \in Nat
    <3>. HIDE DEF k
    <3>1. Pow2[k + n] = Pow2[k] * Pow2[n]
      BY <1>1, <2>1, Pow2Sum
    <3>. QED BY <2>1, <3>1, Pow2Step
  <2>3. Up(e - n) = Guard * Pow2[1 - (e - n)] /\ Up(e) = Guard * Pow2[k] /\ Down(e) = 1
        /\ Down(e - n) = 1
    BY <1>1, <1>6, <2>1 DEF Up, Down
  <2>4. (Guard * (Pow2[k] * Pow2[n])) * 1 = ((Guard * Pow2[k]) * 1) * Pow2[n]
    <3>. HIDE DEF k
    <3>. QED BY <1>1, <1>3, <2>2
  <2>. QED BY <1>3, <2>2, <2>3, <2>4
<1>. QED BY <1>1, <1>3, <1>4, <1>5, <1>6

(* Comparing at one exponent is comparing at the other.                    *)
LEMMA Cancel ==
  ASSUME NEW a \in Int, NEW b \in Int, NEW u \in Nat, NEW d \in Nat, NEW v \in Nat, NEW w \in Nat,
         NEW p \in Nat, d >= 1, w >= 1, p >= 1, u * w = (v * d) * p
  PROVE  /\ a * u < (b * p) * d <=> a * v < b * w
         /\ a * u = (b * p) * d <=> a * v = b * w
<1>1. (a * u) * w = (a * v) * (d * p)
  <2>1. (a * u) * w = a * (u * w) /\ a * ((v * d) * p) = (a * v) * (d * p)
    <3>1. (a * u) * w = a * (u * w)
      OBVIOUS
    <3>2. a * ((v * d) * p) = (a * v) * (d * p)
      <4>1. (v * d) * p = v * (d * p)
        OBVIOUS
      <4>2. a * (v * (d * p)) = (a * v) * (d * p)
        <5>. DEFINE c == d * p
        <5>1. c \in Nat
          OBVIOUS
        <5>. HIDE DEF c
        <5>2. a * (v * c) = (a * v) * c
          BY <5>1
        <5>. QED BY <5>2 DEF c
      <4>. QED BY <4>1, <4>2
    <3>. QED BY <3>1, <3>2
  <2>. QED BY <2>1
<1>2. ((b * p) * d) * w = (b * w) * (d * p)
  OBVIOUS
<1>. DEFINE x == a * u
            y == (b * p) * d
            x1 == a * v
            y1 == b * w
            c == d * p
<1>3. x \in Int /\ y \in Int /\ x1 \in Int /\ y1 \in Int /\ c \in Nat /\ c >= 1
  <2>1. c >= 1
    <3>1. d * p >= 1 * p
      OBVIOUS
    <3>. QED BY <3>1
  <2>2. (b * p) \in Int
    OBVIOUS
  <2>. QED BY <2>1, <2>2
<1>4. x * w = x1 * c /\ y * w = y1 * c
  BY <1>1, <1>2
<1>5. (x < y <=> x * w < y * w) /\ (x = y <=> x * w = y * w)
  <2>. HIDE DEF x, y
  <2>. QED BY <1>3
<1>6. (x1 < y1 <=> x1 * c < y1 * c) /\ (x1 = y1 <=> x1 * c = y1 * c)
  <2>. HIDE DEF x1, y1, c
  <2>. QED BY <1>3
<1>. QED BY <1>4, <1>5, <1>6

(* A number stood for in units of one T is in units of its multiples.      *)
LEMMA Coarser ==
  ASSUME NEW sig, NEW P, NEW Q, NEW T \in Int, NEW k \in Int, Stands(sig, P, Q, T)
  PROVE  Stands(sig, P, Q, T * k)
<1>. SUFFICES ASSUME NEW y \in Int
              PROVE  /\ sig < (T * k) * y <=> P < ((T * k) * y) * Q
                     /\ sig = (T * k) * y <=> P = ((T * k) * y) * Q
  BY DEF Stands
<1>1. k * y \in Int /\ (T * k) * y = T * (k * y)
  OBVIOUS
<1>2. /\ sig < T * (k * y) <=> P < (T * (k * y)) * Q
      /\ sig = T * (k * y) <=> P = (T * (k * y)) * Q
  BY <1>1 DEF Stands
<1>. QED BY <1>1, <1>2

(* Shifting right with jamming, and raising the exponent.                  *)
LEMMA JamStands ==
  ASSUME NEW e, Scalable(e), NEW n \in Nat, n <= MaxShift, Scalable(e + n),
         NEW sig \in Nat, sig < Pow2[WordBits], NEW num \in Int, NEW den \in Nat,
         NEW T \in Nat, NEW h \in Nat, T = 2 * h, StandsFor(e, sig, num, den, T)
  PROVE  StandsFor(e + n, ShiftRightJamming(sig, n), num, den, T)
<1>. DEFINE p == Pow2[n]
            jam == ShiftRightJamming(sig, n)
<1>1. e \in Int /\ (e + n) - n = e
  BY DEF Scalable
<1>2. p \in Nat /\ p >= 1 /\ Up(e) * Down(e + n) = (Up(e + n) * Down(e)) * p
  BY <1>1, Rescale
<1>3. /\ Up(e) \in Nat /\ Down(e) \in Nat /\ Down(e) >= 1
      /\ Up(e + n) \in Nat /\ Down(e + n) \in Nat /\ Down(e + n) >= 1
  BY ScaleFacts
<1>. SUFFICES ASSUME NEW y \in Int
              PROVE  /\ jam < T * y <=> num * Up(e + n) < (T * y) * (den * Down(e + n))
                     /\ jam = T * y <=> num * Up(e + n) = (T * y) * (den * Down(e + n))
  BY DEF StandsFor, Stands
<1>. DEFINE z == h * y
            b == (T * y) * den
<1>4. z \in Int /\ T * y = 2 * z /\ b \in Int
  <2>1. T * y \in Int
    OBVIOUS
  <2>. QED BY <2>1
<1>5. /\ jam < 2 * z <=> sig < (2 * z) * p
      /\ jam = 2 * z <=> sig = (2 * z) * p
  <2>. HIDE DEF z
  <2>. QED BY <1>4, JamSide
<1>6. y * p \in Int /\ (2 * z) * p = T * (y * p)
  BY <1>2
<1>7. /\ sig < T * (y * p) <=> num * Up(e) < (T * (y * p)) * (den * Down(e))
      /\ sig = T * (y * p) <=> num * Up(e) = (T * (y * p)) * (den * Down(e))
  <2>. HIDE DEF p
  <2>. QED BY <1>6 DEF StandsFor, Stands
<1>8. (T * (y * p)) * (den * Down(e)) = (b * p) * Down(e)
      /\ (T * y) * (den * Down(e + n)) = b * Down(e + n)
  <2>. DEFINE t == T * y
  <2>1. t \in Int /\ T * (y * p) = t * p
    BY <1>2
  <2>. HIDE DEF t, p
  <2>2. (t * p) * (den * Down(e)) = ((t * den) * p) * Down(e)
    <3>. DEFINE d == Down(e)
    <3>1. d \in Nat
      BY <1>3
    <3>. HIDE DEF d
    <3>2. (t * p) * (den * d) = ((t * den) * p) * d
      BY <1>2, <2>1, <3>1
    <3>. QED BY <3>2 DEF d
  <2>3. t * (den * Down(e + n)) = (t * den) * Down(e + n)
    BY <1>3, <2>1
  <2>. QED BY <2>1, <2>2, <2>3 DEF t
<1>. HIDE DEF p, b, z, jam
<1>9. /\ num * Up(e) < (b * p) * Down(e) <=> num * Up(e + n) < b * Down(e + n)
      /\ num * Up(e) = (b * p) * Down(e) <=> num * Up(e + n) = b * Down(e + n)
  <2>. DEFINE u == Up(e)
              d == Down(e)
              v == Up(e + n)
              w == Down(e + n)
  <2>1. /\ u \in Nat /\ d \in Nat /\ v \in Nat /\ w \in Nat /\ d >= 1 /\ w >= 1
        /\ p \in Nat /\ p >= 1 /\ b \in Int /\ u * w = (v * d) * p
    BY <1>2, <1>3, <1>4
  <2>. HIDE DEF u, d, v, w
  <2>2. /\ num * u < (b * p) * d <=> num * v < b * w
        /\ num * u = (b * p) * d <=> num * v = b * w
    BY <2>1, Cancel
  <2>. QED BY <2>2 DEF u, d, v, w
<1>. QED BY <1>4, <1>5, <1>6, <1>7, <1>8, <1>9

(* Shifting left, and lowering the exponent: multiples grow with it.       *)
LEMMA LiftStands ==
  ASSUME NEW e, Scalable(e), NEW n \in Nat, n <= MaxShift, Scalable(e - n),
         NEW sig \in Nat, NEW num \in Int, NEW den \in Nat,
         NEW T \in Nat, StandsFor(e, sig, num, den, T)
  PROVE  StandsFor(e - n, sig * Pow2[n], num, den, T * Pow2[n])
<1>. DEFINE p == Pow2[n]
<1>1. p \in Nat /\ p >= 1 /\ Up(e - n) * Down(e) = (Up(e) * Down(e - n)) * p
  BY Rescale
<1>2. /\ Up(e) \in Nat /\ Down(e) \in Nat /\ Down(e) >= 1
      /\ Up(e - n) \in Nat /\ Down(e - n) \in Nat /\ Down(e - n) >= 1
  BY ScaleFacts
<1>. SUFFICES ASSUME NEW y \in Int
       PROVE /\ sig * p < (T * p) * y <=> num * Up(e - n) < ((T * p) * y) * (den * Down(e - n))
             /\ sig * p = (T * p) * y <=> num * Up(e - n) = ((T * p) * y) * (den * Down(e - n))
  BY DEF StandsFor, Stands
<1>. DEFINE t == T * y
            b == t * den
<1>3. t \in Int /\ b \in Int /\ (T * p) * y = t * p
  <2>1. t \in Int /\ (T * p) * y = t * p
    BY <1>1
  <2>. HIDE DEF t
  <2>. QED BY <2>1
<1>4. /\ sig < t <=> num * Up(e) < t * (den * Down(e))
      /\ sig = t <=> num * Up(e) = t * (den * Down(e))
  BY DEF StandsFor, Stands
<1>. HIDE DEF p, t
<1>5. (sig * p < t * p <=> sig < t) /\ (sig * p = t * p <=> sig = t)
  BY <1>1, <1>3
<1>6. t * (den * Down(e)) = b * Down(e) /\ (t * p) * (den * Down(e - n)) = (b * p) * Down(e - n)
  <2>1. t * (den * Down(e)) = (t * den) * Down(e)
    BY <1>2, <1>3
  <2>2. (t * p) * (den * Down(e - n)) = ((t * den) * p) * Down(e - n)
    <3>. DEFINE d == Down(e - n)
    <3>1. d \in Nat
      BY <1>2
    <3>. HIDE DEF d
    <3>2. (t * p) * (den * d) = ((t * den) * p) * d
      BY <1>1, <1>3, <3>1
    <3>. QED BY <3>2 DEF d
  <2>. QED BY <2>1, <2>2
<1>. HIDE DEF b
<1>7. /\ num * Up(e - n) < (b * p) * Down(e - n) <=> num * Up(e) < b * Down(e)
      /\ num * Up(e - n) = (b * p) * Down(e - n) <=> num * Up(e) = b * Down(e)
  <2>. DEFINE u == Up(e - n)
              d == Down(e - n)
              v == Up(e)
              w == Down(e)
  <2>1. /\ u \in Nat /\ d \in Nat /\ v \in Nat /\ w \in Nat /\ d >= 1 /\ w >= 1
        /\ p \in Nat /\ p >= 1 /\ b \in Int /\ u * w = (v * d) * p
    BY <1>1, <1>2, <1>3
  <2>. HIDE DEF u, d, v, w
  <2>2. /\ num * u < (b * p) * d <=> num * v < b * w
        /\ num * u = (b * p) * d <=> num * v = b * w
    BY <2>1, Cancel
  <2>. QED BY <2>2 DEF u, d, v, w
<1>. QED BY <1>3, <1>4, <1>5, <1>6, <1>7

(* Two fractions of the same value are stood for by the same significands. *)
LEMMA SameRatio ==
  ASSUME NEW sig, NEW X \in Int, NEW Y \in Nat, Y >= 1, NEW P \in Int, NEW Q \in Nat, Q >= 1,
         X * Q = P * Y, NEW T \in Nat, Stands(sig, X, Y, T)
  PROVE  Stands(sig, P, Q, T)
<1>. SUFFICES ASSUME NEW y \in Int
              PROVE  /\ sig < T * y <=> P < (T * y) * Q
                     /\ sig = T * y <=> P = (T * y) * Q
  BY DEF Stands
<1>. DEFINE k == T * y
<1>1. k \in Int
  OBVIOUS
<1>2. (sig < k <=> X < k * Y) /\ (sig = k <=> X = k * Y)
  BY DEF Stands
<1>. HIDE DEF k
<1>3. (X < k * Y <=> X * Q < (k * Y) * Q) /\ (X = k * Y <=> X * Q = (k * Y) * Q)
  <2>. DEFINE b == k * Y
  <2>1. b \in Int
    BY <1>1
  <2>. HIDE DEF b
  <2>2. (X < b <=> X * Q < b * Q) /\ (X = b <=> X * Q = b * Q)
    BY <2>1
  <2>. QED BY <2>2 DEF b
<1>4. (P < k * Q <=> P * Y < (k * Q) * Y) /\ (P = k * Q <=> P * Y = (k * Q) * Y)
  <2>. DEFINE b == k * Q
  <2>1. b \in Int
    BY <1>1
  <2>. HIDE DEF b
  <2>2. (P < b <=> P * Y < b * Y) /\ (P = b <=> P * Y = b * Y)
    BY <2>1
  <2>. QED BY <2>2 DEF b
<1>5. (k * Y) * Q = (k * Q) * Y
  BY <1>1
<1>6. (P < k * Q <=> X < k * Y) /\ (P = k * Q <=> X = k * Y)
  BY <1>3, <1>4, <1>5
<1>. QED BY <1>2, <1>6 DEF k

(* A significand that is the fraction stands for it in any units.          *)
LEMMA ExactStands ==
  ASSUME NEW sig \in Int, NEW P \in Int, NEW Q \in Nat, Q >= 1, sig * Q = P, NEW T \in Nat
  PROVE  Stands(sig, P, Q, T)
<1>. SUFFICES ASSUME NEW y \in Int
              PROVE  /\ sig < T * y <=> P < (T * y) * Q
                     /\ sig = T * y <=> P = (T * y) * Q
  BY DEF Stands
<1>. DEFINE k == T * y
<1>1. k \in Int
  OBVIOUS
<1>. HIDE DEF k
<1>2. (sig < k <=> sig * Q < k * Q) /\ (sig = k <=> sig * Q = k * Q)
  BY <1>1
<1>3. (sig < k <=> P < k * Q) /\ (sig = k <=> P = k * Q)
  BY <1>2
<1>. QED BY <1>3 DEF k

---------------------------------------------------------------------------
(* Powers of two of any sign, as fractions.                                *)
Over(k) == IF k >= 0 THEN Pow2[k] ELSE 1
Under(k) == IF k >= 0 THEN 1 ELSE Pow2[-k]
InTable(k) == k \in Int /\ k <= MaxShift /\ -k <= MaxShift

LEMMA OverUnder ==
  ASSUME NEW k, InTable(k)
  PROVE  Over(k) \in Nat /\ Over(k) >= 1 /\ Under(k) \in Nat /\ Under(k) >= 1
<1>1. k \in Int /\ (k >= 0 => k \in 0..MaxShift) /\ (~ (k >= 0) => -k \in 0..MaxShift)
  BY Widths DEF InTable
<1>2. CASE k >= 0
  BY <1>1, <1>2, Pow2Positive DEF Over, Under
<1>3. CASE ~ (k >= 0)
  BY <1>1, <1>3, Pow2Positive DEF Over, Under
<1>. QED BY <1>2, <1>3

(* Halves of an exponent sum, up to signs.                                 *)
LEMMA OverSum ==
  ASSUME NEW j \in Int, NEW k \in Nat, InTable(j), InTable(k), InTable(j + k)
  PROVE  (Over(j) * Pow2[k]) * Under(j + k) = Under(j) * Over(j + k)
<1>. DEFINE p == Pow2[k]
<1>1. k \in 0..MaxShift /\ p \in Nat /\ p >= 1
  <2>1. k \in 0..MaxShift
    BY DEF InTable
  <2>. QED BY <2>1, Pow2Positive
<1>2. CASE j >= 0
  <2>1. Pow2[j + k] = Pow2[j] * Pow2[k] /\ Pow2[j] \in Nat /\ Pow2[j + k] \in Nat
    <3>1. j \in Nat /\ j \in 0..MaxShift /\ j + k <= MaxShift /\ j + k \in 0..MaxShift
      BY <1>2 DEF InTable
    <3>. QED BY <3>1, Pow2Sum, Pow2Step
  <2>2. /\ Over(j) = Pow2[j] /\ Under(j) = 1 /\ Over(j + k) = Pow2[j + k]
        /\ Under(j + k) = 1
    BY <1>2 DEF Over, Under
  <2>. QED BY <1>1, <2>1, <2>2
<1>3. CASE j < 0 /\ j + k >= 0
  <2>. DEFINE i == -j
              s == j + k
  <2>1. i \in Nat /\ s \in Nat /\ i + s = k /\ i + s <= MaxShift /\ i \in 0..MaxShift /\ s \in 0..MaxShift
    BY <1>3 DEF InTable
  <2>2. Pow2[k] = Pow2[i] * Pow2[s] /\ Pow2[i] \in Nat /\ Pow2[s] \in Nat
    <3>. HIDE DEF i, s
    <3>1. Pow2[i + s] = Pow2[i] * Pow2[s]
      BY <1>1, <2>1, Pow2Sum
    <3>. QED BY <2>1, <3>1, Pow2Step
  <2>3. Over(j) = 1 /\ Under(j) = Pow2[i] /\ Over(j + k) = Pow2[s] /\ Under(j + k) = 1
    BY <1>3 DEF Over, Under
  <2>4. (1 * Pow2[k]) * 1 = Pow2[i] * Pow2[s]
    <3>. HIDE DEF i, s
    <3>. QED BY <1>1, <2>2
  <2>. QED BY <2>3, <2>4
<1>4. CASE j < 0 /\ j + k < 0
  <2>. DEFINE i == -j
              s == -(j + k)
  <2>1. i \in Nat /\ s \in Nat /\ k + s = i /\ k + s <= MaxShift /\ i \in 0..MaxShift /\ s \in 0..MaxShift
    BY <1>4 DEF InTable
  <2>2. Pow2[i] = Pow2[k] * Pow2[s] /\ Pow2[i] \in Nat /\ Pow2[s] \in Nat
    <3>. HIDE DEF i, s
    <3>1. Pow2[k + s] = Pow2[k] * Pow2[s]
      BY <1>1, <2>1, Pow2Sum
    <3>. QED BY <2>1, <3>1, Pow2Step
  <2>3. Over(j) = 1 /\ Under(j) = Pow2[i] /\ Over(j + k) = 1 /\ Under(j + k) = Pow2[s]
    BY <1>4 DEF Over, Under
  <2>4. (1 * Pow2[k]) * Pow2[s] = Pow2[i] * 1
    <3>. HIDE DEF i, s
    <3>. QED BY <1>1, <2>2
  <2>. QED BY <2>3, <2>4
<1>. QED BY <1>2, <1>3, <1>4

LEMMA ScaleSum ==
  ASSUME NEW j \in Int, NEW k \in Int, InTable(j), InTable(k), InTable(j + k)
  PROVE  (Over(j) * Over(k)) * Under(j + k) = (Under(j) * Under(k)) * Over(j + k)
<1>1. /\ Over(j) \in Nat /\ Over(k) \in Nat /\ Over(j + k) \in Nat
      /\ Under(j) \in Nat /\ Under(k) \in Nat /\ Under(j + k) \in Nat
  BY OverUnder
<1>2. CASE k >= 0
  <2>1. (Over(j) * Pow2[k]) * Under(j + k) = Under(j) * Over(j + k)
    BY <1>2, OverSum
  <2>2. Over(k) = Pow2[k] /\ Under(k) = 1
    BY <1>2 DEF Over, Under
  <2>. QED BY <1>1, <2>1, <2>2
<1>3. CASE k < 0
  <2>. DEFINE i == j + k
              l == -k
  <2>1. i \in Int /\ l \in Nat /\ InTable(i) /\ InTable(l) /\ i + l = j /\ InTable(i + l)
    BY <1>3 DEF InTable
  <2>2. (Over(i) * Pow2[l]) * Under(j) = Under(i) * Over(j)
    <3>. HIDE DEF i, l
    <3>1. (Over(i) * Pow2[l]) * Under(i + l) = Under(i) * Over(i + l)
      BY <2>1, OverSum
    <3>. QED BY <2>1, <3>1
  <2>3. Over(k) = 1 /\ Under(k) = Pow2[l]
    BY <1>3 DEF Over, Under
  <2>. QED BY <1>1, <2>2, <2>3
<1>. QED BY <1>2, <1>3

(* The scale of a working exponent.                                        *)
LEMMA ScaleOf ==
  ASSUME NEW e \in Int
  PROVE  Up(e) = Guard * Under(e - 1) /\ Down(e) = Over(e - 1)
<1>1. Guard \in Nat
  BY GuardPowers
<1>2. CASE e >= 1
  BY <1>1, <1>2 DEF Up, Down, Over, Under
<1>3. CASE ~ (e >= 1)
  <2>1. 1 - e = -(e - 1) /\ ~ (e - 1 >= 0)
    BY <1>3
  <2>. QED BY <1>3, <2>1 DEF Up, Down, Over, Under
<1>. QED BY <1>2, <1>3

---------------------------------------------------------------------------
(* The magnitude of a finite value, and the value of a magnitude.          *)
Whole(v) == IF v.e = 0 THEN v.f ELSE v.f + ImplicitBit

LEMMA ValueAt ==
  ASSUME NEW v \in Values, v.e < ExpMax
  PROVE  /\ Binade(v.e) \in 1..(ExpMax - 1) /\ Whole(v) \in Nat /\ Whole(v) < 2 * ImplicitBit
         /\ Binade(v.e) = 1 \/ ImplicitBit <= Whole(v)
         /\ IndexOf(Binade(v.e), Whole(v)) = v.e * ImplicitBit + v.f
         /\ Ref!Mag(v) = Whole(v) * Unit(Binade(v.e))
<1>1. /\ v.e \in Nat /\ v.e < ExpMax /\ v.f \in Nat /\ v.f < ImplicitBit
      /\ ImplicitBit \in Nat /\ ExpMax \in Nat /\ ExpMax >= 3
  BY Fields DEF Values
<1>2. /\ Binade(v.e) \in 1..(ExpMax - 1) /\ Whole(v) \in Nat /\ Whole(v) < 2 * ImplicitBit
      /\ Binade(v.e) = 1 \/ ImplicitBit <= Whole(v)
  BY <1>1 DEF Binade, Whole
<1>3. IndexOf(Binade(v.e), Whole(v)) = v.e * ImplicitBit + v.f
  <2>. DEFINE I == ImplicitBit
              e == v.e
              f == v.f
  <2>1. I \in Nat /\ e \in Nat /\ f \in Nat
    BY <1>1
  <2>. HIDE DEF I, e, f
  <2>2. (1 - 1) * I + f = 0 * I + f /\ (e - 1) * I + (f + I) = e * I + f
    BY <2>1
  <2>3. CASE e = 0
    BY <2>2, <2>3 DEF IndexOf, Binade, Whole, I, e, f
  <2>4. CASE e # 0
    BY <2>2, <2>4 DEF IndexOf, Binade, Whole, I, e, f
  <2>. QED BY <2>3, <2>4
<1>4. InBinade(Binade(v.e), Whole(v))
  BY <1>1, <1>2 DEF InBinade
<1>5. Ref!Magnitude[IndexOf(Binade(v.e), Whole(v))] = Whole(v) * Unit(Binade(v.e))
  BY <1>2, <1>4, MagnitudeAt
<1>6. Ref!Mag(v) = Ref!Magnitude[v.e * ImplicitBit + v.f]
  BY SameFormat DEF Ref!Mag
<1>. QED BY <1>2, <1>3, <1>5, <1>6

(* A value of the format needs no rounding.                                *)
LEMMA ExactValue ==
  ASSUME NEW v \in Values, v.e < ExpMax, NEW mode \in Modes
  PROVE  Ref!Round(v.s, Ref!Mag(v), 1, mode) = [res |-> v, fe |-> {}]
<1>. DEFINE e == Binade(v.e)
            m == Whole(v)
            D == Unit(e)
            num == m * D
<1>1. /\ e \in 1..(ExpMax - 1) /\ m \in Nat /\ m < 2 * ImplicitBit /\ (e = 1 \/ ImplicitBit <= m)
      /\ IndexOf(e, m) = v.e * ImplicitBit + v.f /\ Ref!Mag(v) = m * D
  BY ValueAt
<1>2. v.s \in {0, 1} /\ v.e \in Nat /\ v.f \in Nat /\ v.f < ImplicitBit /\ ImplicitBit \in Nat
  BY Fields DEF Values
<1>3. D \in Nat /\ D >= 1 /\ e \in 1..ExpMax
  <2>1. e \in 1..ExpMax
    BY <1>1, Fields
  <2>. HIDE DEF e
  <2>. QED BY <2>1, UnitFacts
<1>4. D = Unit(e) * 1
  <2>. HIDE DEF e
  <2>1. Unit(e) \in Nat
    BY <1>3
  <2>. QED BY <2>1
<1>5. num \in Nat /\ m * D <= num /\ num < (m + 1) * D
  <2>. HIDE DEF m, D
  <2>. QED BY <1>1, <1>3
<1>6. ~ (2 * num >= (2 * m + 1) * D) /\ ~ (num # m * D)
  <2>. HIDE DEF m, D
  <2>. QED BY <1>1, <1>3
<1>. HIDE DEF e, m, D, num
<1>7. Ref!Round(v.s, num, 1, mode) =
         Neighbour(v.s, e, m,
                   Upwards(v.s, m, num # m * D, 2 * num >= (2 * m + 1) * D,
                           2 * num = (2 * m + 1) * D, mode),
                   num # m * D, mode)
  BY <1>1, <1>2, <1>3, <1>4, <1>5, RoundAt
<1>8. Upwards(v.s, m, num # m * D, 2 * num >= (2 * m + 1) * D, 2 * num = (2 * m + 1) * D, mode)
        = FALSE
  <2>1. \/ mode = "RNE" \/ mode = "RTZ" \/ mode = "RUP" \/ mode = "RDN" \/ mode = "RNA"
    BY DEF Modes
  <2>. DEFINE lost == num # m * D
              half == 2 * num >= (2 * m + 1) * D
              tie == 2 * num = (2 * m + 1) * D
  <2>2. lost = FALSE /\ half = FALSE
    BY <1>6
  <2>. HIDE DEF lost, half, tie
  <2>3. Upwards(v.s, m, FALSE, FALSE, tie, mode) = FALSE
    BY <2>1 DEF Upwards
  <2>4. Upwards(v.s, m, lost, half, tie, mode) = FALSE
    BY <2>2, <2>3
  <2>. QED BY <2>4 DEF lost, half, tie
<1>9. Neighbour(v.s, e, m, FALSE, num # m * D, mode) =
        [res |-> [s |-> v.s, e |-> IndexOf(e, m) \div ImplicitBit, f |-> IndexOf(e, m) % ImplicitBit],
         fe |-> {}]
  BY <1>6 DEF Neighbour
<1>10. IndexOf(e, m) \div ImplicitBit = v.e /\ IndexOf(e, m) % ImplicitBit = v.f
  <2>. DEFINE k == v.e
              r == v.f
              I == ImplicitBit
  <2>1. k \in Nat /\ r \in Nat /\ r < I /\ I \in Nat
    BY <1>2
  <2>. HIDE DEF k, r, I
  <2>2. (k * I + r) \div I = k /\ (k * I + r) % I = r
    BY <2>1, Join
  <2>. QED BY <1>1, <2>2 DEF k, r, I
<1>11. v = [s |-> v.s, e |-> v.e, f |-> v.f]
  BY DEF Values
<1>12. Ref!Mag(v) = num
  BY <1>1 DEF num
<1>. QED BY <1>7, <1>8, <1>9, <1>10, <1>11, <1>12

(* An operand taken apart is its magnitude, at its exponent.               *)
LEMMA OperandMagnitude ==
  ASSUME NEW v \in Values, v.e < ExpMax, ~ IsZero(v)
  PROVE  /\ Ref!Mag(v) \in Nat /\ Ref!Mag(v) >= 1
         /\ Scalable(Unpack(v).exp)
         /\ Unpack(v).sig * Down(Unpack(v).exp) = Ref!Mag(v) * Up(Unpack(v).exp)
<1>1. /\ v.e \in Nat /\ v.e < ExpMax /\ v.f \in Nat /\ v.f < ImplicitBit
      /\ ImplicitBit \in Nat /\ ImplicitBit = Pow2[FracBits] /\ Guard \in Nat
  BY Fields, GuardPowers DEF Values
<1>2. Ref!Mag(v) = Whole(v) * Unit(Binade(v.e)) /\ Binade(v.e) \in 1..ExpMax
  BY ValueAt, Fields
<1>3. Unit(Binade(v.e)) \in Nat /\ Unit(Binade(v.e)) >= 1
  BY <1>2, UnitFacts
<1>4. Whole(v) \in Nat /\ Whole(v) >= 1
  BY <1>1, GuardPowers DEF Whole, IsZero
<1>5. Ref!Mag(v) \in Nat /\ Ref!Mag(v) >= 1
  <2>. DEFINE D == Unit(Binade(v.e))
              m == Whole(v)
  <2>1. D \in Nat /\ D >= 1 /\ m \in Nat /\ m >= 1 /\ Ref!Mag(v) = m * D
    BY <1>2, <1>3, <1>4
  <2>. HIDE DEF D, m
  <2>. QED BY <2>1
<1>6. Scalable(Unpack(v).exp)
  <2>1. Unpack(v).exp \in (1 - FracBits)..(ExpMax - 1)
    BY UnpackNormalises
  <2>. QED BY <2>1, Widths, Fields DEF Scalable
<1>7. CASE v.e = 0
  <2>1. v.f > 0 /\ v.f < Pow2[FracBits]
    BY <1>1, <1>7 DEF IsZero
  <2>2. PICK h \in 0..(FracBits - 1) :
           NormaliseShift(v.f) = FracBits - h /\ Pow2[h] <= v.f /\ v.f < Pow2[h + 1]
    BY <1>1, <2>1, SubnormalHighest
  <2>. DEFINE n == FracBits - h
  <2>3. n \in Nat /\ n >= 1 /\ n <= MaxShift /\ n \in 0..MaxShift /\ n = NormaliseShift(v.f)
    BY <2>2, Widths
  <2>4. Unpack(v) = [exp |-> 1 - n, sig |-> v.f * Pow2[n] * Pow2[GuardBits]]
    BY <1>7, <2>3 DEF Unpack
  <2>. HIDE DEF n
  <2>5. Unpack(v).exp = 1 - n /\ Unpack(v).sig = (v.f * Pow2[n]) * Guard
    BY <2>4 DEF Guard
  <2>6. 1 - (1 - n) = n /\ ~ (1 - n >= 1)
    BY <2>3
  <2>7. Up(1 - n) = Guard * Pow2[n] /\ Down(1 - n) = 1
    BY <2>6 DEF Up, Down
  <2>8. Pow2[n] \in Nat
    BY <2>3, Pow2Step
  <2>9. Ref!Mag(v) = v.f
    <3>1. Whole(v) = v.f /\ Binade(v.e) = 1
      BY <1>7 DEF Whole, Binade
    <3>2. Unit(1) = 1
      <4>1. 1 \in 1..ExpMax
        BY Fields
      <4>. QED BY <4>1, UnitFacts
    <3>. QED BY <1>1, <1>2, <3>1, <3>2
  <2>10. ((v.f * Pow2[n]) * Guard) * 1 = v.f * (Guard * Pow2[n])
    <3>. DEFINE p == Pow2[n]
                f == v.f
    <3>1. p \in Nat /\ f \in Nat
      BY <1>1, <2>8
    <3>. HIDE DEF p, f
    <3>2. ((f * p) * Guard) * 1 = f * (Guard * p)
      BY <1>1, <3>1
    <3>. QED BY <3>2 DEF p, f
  <2>. QED BY <1>5, <1>6, <2>5, <2>7, <2>9, <2>10
<1>8. CASE v.e # 0
  <2>1. Unpack(v).exp = v.e /\ Unpack(v).sig = Whole(v) * Guard
    BY <1>8 DEF Unpack, Whole, Guard
  <2>2. v.e >= 1 /\ Binade(v.e) = v.e
    BY <1>1, <1>8 DEF Binade
  <2>3. Up(v.e) = Guard /\ Down(v.e) = Unit(v.e)
    BY <2>2 DEF Up, Down, Unit
  <2>4. (Whole(v) * Guard) * Unit(v.e) = (Whole(v) * Unit(v.e)) * Guard
    BY <1>1, <1>3, <1>4, <2>2
  <2>. QED BY <1>2, <1>5, <1>6, <2>1, <2>2, <2>3, <2>4
<1>. QED BY <1>7, <1>8

(* The signed magnitude of a finite operand.                               *)
LEMMA SignedFacts ==
  ASSUME NEW v \in Values, v.e < ExpMax
  PROVE  /\ IsZero(v) => Ref!Signed(v) = 0
         /\ ~ IsZero(v) => /\ Ref!Mag(v) \in Nat /\ Ref!Mag(v) >= 1
                           /\ v.s = 0 => Ref!Signed(v) = Ref!Mag(v)
                           /\ v.s = 1 => Ref!Signed(v) = -Ref!Mag(v)
<1>1. v.s \in {0, 1} /\ v.e \in Nat /\ v.f \in Nat
  BY Fields DEF Values
<1>2. CASE IsZero(v)
  <2>1. Whole(v) = 0 /\ Binade(v.e) = 1
    BY <1>2 DEF IsZero, Whole, Binade
  <2>2. Ref!Mag(v) = Whole(v) * Unit(Binade(v.e))
    BY ValueAt
  <2>3. Unit(1) = 1
    <3>1. 1 \in 1..ExpMax
      BY Fields
    <3>. QED BY <3>1, UnitFacts
  <2>4. Ref!Mag(v) = 0
    BY <2>1, <2>2, <2>3
  <2>5. Ref!Signed(v) = 0
    <3>1. Ref!Signed(v) = IF v.s = 0 THEN Ref!Mag(v) ELSE -Ref!Mag(v)
      BY DEF Ref!Signed
    <3>. DEFINE n == Ref!Mag(v)
    <3>2. n \in Int /\ n <= 0 /\ n >= 0
      BY <2>4
    <3>. HIDE DEF n
    <3>3. n = 0 /\ -n = 0
      BY <3>2
    <3>. QED BY <3>1, <3>3 DEF n
  <2>. QED BY <1>2, <2>5
<1>3. CASE ~ IsZero(v)
  <2>1. Ref!Mag(v) \in Nat /\ Ref!Mag(v) >= 1
    BY <1>3, OperandMagnitude
  <2>. QED BY <1>1, <1>3, <2>1 DEF Ref!Signed
<1>. QED BY <1>2, <1>3

(* The rounding of a signed integer.                                       *)
LEMMA IntegerRounds ==
  ASSUME NEW s \in {0, 1}, NEW n \in Nat, n >= 1, NEW x, x = (IF s = 0 THEN n ELSE -n), NEW mode
  PROVE  x \in Int /\ x # 0 /\ Ref!RoundInteger(x, mode) = Ref!Round(s, n, 1, mode)
<1>1. CASE s = 0
  <2>1. x = n /\ ~ (x < 0)
    BY <1>1
  <2>. QED BY <1>1, <2>1 DEF Ref!RoundInteger
<1>2. CASE s = 1
  <2>1. x = -n /\ x < 0 /\ -x = n
    BY <1>2
  <2>. QED BY <1>2, <2>1 DEF Ref!RoundInteger
<1>. QED BY <1>1, <1>2

---------------------------------------------------------------------------
(* Two operands at their exponents, the second aligned to the first with   *)
(* jamming: in even units of the first, sum and difference stand for the   *)
(* exact ones.                                                             *)
LEMMA AlignedCross ==
  ASSUME NEW X \in Nat, NEW Y \in Nat, NEW M \in Nat, NEW N \in Nat, NEW p \in Nat,
         NEW u \in Nat, NEW d \in Nat, NEW v \in Nat, NEW w \in Nat, w >= 1,
         X * d = M * u, Y * w = N * v, v * d = (u * w) * p
  PROVE  /\ (X * p + Y) * d = ((M + N) * u) * p
         /\ (X * p - Y) * d = ((M - N) * u) * p
<1>1. (X * p) * d = (M * u) * p
  BY Z3
<1>2. (Y * d) * w = ((N * u) * p) * w
  <2>1. (Y * d) * w = (Y * w) * d /\ (N * v) * d = N * (v * d)
    BY Z3
  <2>2. N * ((u * w) * p) = ((N * u) * p) * w
    BY Z3
  <2>. QED BY <2>1, <2>2
<1>3. Y * d = (N * u) * p
  <2>. DEFINE f == Y * d
              g == (N * u) * p
  <2>1. f \in Nat /\ g \in Nat /\ f * w = g * w
    BY <1>2
  <2>. HIDE DEF f, g
  <2>2. f = g
    BY <2>1
  <2>. QED BY <2>2 DEF f, g
<1>4. /\ (X * p + Y) * d = (X * p) * d + Y * d /\ (X * p - Y) * d = (X * p) * d - Y * d
      /\ ((M + N) * u) * p = (M * u) * p + (N * u) * p
      /\ ((M - N) * u) * p = (M * u) * p - (N * u) * p
  BY Z3
<1>. QED BY <1>1, <1>3, <1>4

LEMMA AlignedStands ==
  ASSUME NEW a, NEW b, Scalable(a), Scalable(b), b <= a, a - b <= MaxShift,
         NEW X \in Nat, NEW Y \in Nat, Y < Pow2[WordBits], NEW M \in Nat, NEW N \in Nat,
         X * Down(a) = M * Up(a), Y * Down(b) = N * Up(b),
         NEW T \in Nat, NEW h \in Nat, T = 2 * h, NEW k \in Nat, X = T * k
  PROVE  /\ StandsFor(a, X + ShiftRightJamming(Y, a - b), M + N, 1, T)
         /\ StandsFor(a, X - ShiftRightJamming(Y, a - b), M - N, 1, T)
<1>. DEFINE n == a - b
            p == Pow2[n]
            jam == ShiftRightJamming(Y, n)
            u == Up(a)
            d == Down(a)
            v == Up(b)
            w == Down(b)
            sum == X * p + Y
            dif == X * p - Y
<1>1. n \in Nat /\ n <= MaxShift /\ a - n = b /\ n \in 0..MaxShift
  BY Widths DEF Scalable
<1>2. /\ u \in Nat /\ d \in Nat /\ d >= 1 /\ v \in Nat /\ w \in Nat /\ w >= 1
  BY ScaleFacts
<1>3. p \in Nat /\ p >= 1 /\ v * d = (u * w) * p
  <2>. HIDE DEF n
  <2>1. Scalable(a - n)
    BY <1>1
  <2>2. Pow2[n] \in Nat /\ Pow2[n] >= 1 /\ Up(a - n) * Down(a) = (Up(a) * Down(a - n)) * Pow2[n]
    BY <1>1, <2>1, Rescale
  <2>. QED BY <1>1, <2>2
<1>4. jam \in Nat
  <2>. HIDE DEF n
  <2>1. Y < Pow2[WordBits] /\ WordBits \in 1..WordBits
    BY Widths
  <2>. QED BY <1>1, <2>1, JamBound
<1>5. \A y \in Int : /\ jam < T * y <=> Y < (T * y) * p
                     /\ jam = T * y <=> Y = (T * y) * p
  <2>. HIDE DEF n
  <2>1. SUFFICES ASSUME NEW y \in Int
                 PROVE  /\ ShiftRightJamming(Y, n) < T * y <=> Y < (T * y) * Pow2[n]
                        /\ ShiftRightJamming(Y, n) = T * y <=> Y = (T * y) * Pow2[n]
    OBVIOUS
  <2>. DEFINE z == h * y
  <2>2. z \in Int /\ T * y = 2 * z
    OBVIOUS
  <2>. HIDE DEF z
  <2>3. /\ ShiftRightJamming(Y, n) < 2 * z <=> Y < (2 * z) * Pow2[n]
        /\ ShiftRightJamming(Y, n) = 2 * z <=> Y = (2 * z) * Pow2[n]
    BY <1>1, <2>2, JamSide
  <2>. QED BY <2>2, <2>3
<1>. HIDE DEF n, p, jam, u, d, v, w
<1>6. X * d = M * u /\ Y * w = N * v
  BY DEF u, d, v, w
<1>7. sum * d = ((M + N) * u) * p /\ dif * d = ((M - N) * u) * p
  BY <1>2, <1>3, <1>6, AlignedCross
<1>8. Stands(X + jam, sum, p, T)
  <2>. SUFFICES ASSUME NEW y \in Int
                PROVE  /\ X + jam < T * y <=> sum < (T * y) * p
                       /\ X + jam = T * y <=> sum = (T * y) * p
    BY DEF Stands
  <2>1. y - k \in Int /\ T * (y - k) = T * y - X /\ T * y \in Int
    OBVIOUS
  <2>2. /\ jam < T * (y - k) <=> Y < (T * (y - k)) * p
        /\ jam = T * (y - k) <=> Y = (T * (y - k)) * p
    BY <1>5, <2>1
  <2>. DEFINE t == T * y
  <2>3. t \in Int /\ (jam < t - X <=> Y < (t - X) * p) /\ (jam = t - X <=> Y = (t - X) * p)
    BY <2>1, <2>2
  <2>. HIDE DEF t
  <2>4. (t - X) * p = t * p - X * p /\ t * p \in Int /\ X * p \in Int
    BY <1>3, <2>3
  <2>5. (X + jam < t <=> sum < t * p) /\ (X + jam = t <=> sum = t * p)
    <3>. DEFINE A == t * p
                B == X * p
                C == (t - X) * p
    <3>1. A \in Int /\ B \in Int /\ C = A - B
      BY <2>4
    <3>2. (jam < t - X <=> Y < C) /\ (jam = t - X <=> Y = C)
      BY <2>3
    <3>. HIDE DEF A, B, C
    <3>3. (X + jam < t <=> B + Y < A) /\ (X + jam = t <=> B + Y = A)
      BY <1>4, <2>3, <3>1, <3>2
    <3>. QED BY <3>3 DEF A, B, sum
  <2>. QED BY <2>5 DEF t
<1>9. Stands(X - jam, dif, p, T)
  <2>. SUFFICES ASSUME NEW y \in Int
                PROVE  /\ X - jam < T * y <=> dif < (T * y) * p
                       /\ X - jam = T * y <=> dif = (T * y) * p
    BY DEF Stands
  <2>1. k - y \in Int /\ T * (k - y) = X - T * y /\ T * y \in Int
    OBVIOUS
  <2>2. /\ jam < T * (k - y) <=> Y < (T * (k - y)) * p
        /\ jam = T * (k - y) <=> Y = (T * (k - y)) * p
    BY <1>5, <2>1
  <2>. DEFINE t == T * y
  <2>3. t \in Int /\ (jam < X - t <=> Y < (X - t) * p) /\ (jam = X - t <=> Y = (X - t) * p)
    BY <2>1, <2>2
  <2>. HIDE DEF t
  <2>4. (X - t) * p = X * p - t * p /\ t * p \in Int /\ X * p \in Int
    BY <1>3, <2>3
  <2>5. (X - jam < t <=> dif < t * p) /\ (X - jam = t <=> dif = t * p)
    <3>. DEFINE A == t * p
                B == X * p
                C == (X - t) * p
    <3>1. A \in Int /\ B \in Int /\ C = B - A
      BY <2>4
    <3>2. (jam < X - t <=> Y < C) /\ (jam = X - t <=> Y = C)
      BY <2>3
    <3>. HIDE DEF A, B, C
    <3>3. (X - jam < t <=> B - Y < A) /\ (X - jam = t <=> B - Y = A)
      BY <1>4, <2>3, <3>1, <3>2
    <3>. QED BY <3>3 DEF A, B, dif
  <2>. QED BY <2>5 DEF t
<1>10. /\ sum \in Int /\ dif \in Int /\ (M + N) * u \in Int /\ (M - N) * u \in Int
       /\ 1 * d = d
  BY <1>2, <1>3
<1>. HIDE DEF sum, dif
<1>11. Stands(X + jam, (M + N) * u, 1 * d, T)
  <2>. DEFINE P == (M + N) * u
  <2>1. P \in Int /\ sum * d = P * p
    BY <1>7, <1>10
  <2>. HIDE DEF P
  <2>2. Stands(X + jam, P, d, T)
    BY <1>2, <1>3, <1>8, <1>10, <2>1, SameRatio
  <2>. QED BY <1>10, <2>2 DEF P
<1>12. Stands(X - jam, (M - N) * u, 1 * d, T)
  <2>. DEFINE P == (M - N) * u
  <2>1. P \in Int /\ dif * d = P * p
    BY <1>7, <1>10
  <2>. HIDE DEF P
  <2>2. Stands(X - jam, P, d, T)
    BY <1>2, <1>3, <1>9, <1>10, <2>1, SameRatio
  <2>. QED BY <1>10, <2>2 DEF P
<1>. QED BY <1>11, <1>12 DEF StandsFor, jam, u, d, n

(* The sum and the difference of two operands, before normalisation.       *)
LEMMA OperandsStand ==
  ASSUME NEW v \in Values, v.e < ExpMax, ~ IsZero(v),
         NEW w \in Values, w.e < ExpMax, ~ IsZero(w),
         NEW a, a = Unpack(v).exp, NEW b, b = Unpack(w).exp, b <= a,
         NEW T \in Nat, NEW h \in Nat, T = 2 * h, NEW g \in Nat, Guard = T * g
  PROVE  /\ a \in Int /\ b \in Int /\ a - b <= MaxShift /\ Scalable(a) /\ Scalable(b)
         /\ StandsFor(a, Unpack(v).sig + ShiftRightJamming(Unpack(w).sig, a - b),
                      Ref!Mag(v) + Ref!Mag(w), 1, T)
         /\ StandsFor(a, Unpack(v).sig - ShiftRightJamming(Unpack(w).sig, a - b),
                      Ref!Mag(v) - Ref!Mag(w), 1, T)
<1>. DEFINE X == Unpack(v).sig
            Y == Unpack(w).sig
            M == Ref!Mag(v)
            N == Ref!Mag(w)
<1>1. /\ M \in Nat /\ Scalable(a) /\ X * Down(a) = M * Up(a)
      /\ N \in Nat /\ Scalable(b) /\ Y * Down(b) = N * Up(b)
  BY OperandMagnitude
<1>2. a \in (1 - FracBits)..(ExpMax - 1) /\ b \in (1 - FracBits)..(ExpMax - 1)
  BY UnpackNormalises
<1>3. a \in Int /\ b \in Int /\ a - b <= MaxShift
  BY <1>2, Widths, Fields
<1>4. PICK m \in Nat : X = m * Guard
  BY UnpackNormalises DEF Guard
<1>5. g * m \in Nat /\ X = T * (g * m)
  <2>. HIDE DEF X
  <2>1. X = m * (T * g)
    BY <1>4
  <2>. QED BY <2>1
<1>6. X \in Nat /\ Y \in Nat /\ Y < Pow2[WordBits]
  <2>1. X \in Nat /\ Y \in Nat /\ Y < Pow2[ImplicitAt + 1]
    BY UnpackedSig
  <2>2. Pow2[ImplicitAt + 1] <= Pow2[WordBits] /\ Pow2[ImplicitAt + 1] \in Nat /\ Pow2[WordBits] \in Nat
    <3>1. /\ ImplicitAt + 1 \in Nat /\ WordBits \in Nat /\ ImplicitAt + 1 <= WordBits
          /\ WordBits <= MaxShift /\ ImplicitAt + 1 \in 0..MaxShift /\ WordBits \in 0..MaxShift
      BY Widths
    <3>. QED BY <3>1, Pow2Monotone, Pow2Step
  <2>. QED BY <2>1, <2>2
<1>. HIDE DEF X, Y, M, N
<1>. DEFINE k == g * m
<1>7. k \in Nat /\ X = T * k
  BY <1>5
<1>. HIDE DEF k
<1>8. /\ StandsFor(a, X + ShiftRightJamming(Y, a - b), M + N, 1, T)
      /\ StandsFor(a, X - ShiftRightJamming(Y, a - b), M - N, 1, T)
  BY <1>1, <1>3, <1>6, <1>7, AlignedStands
<1>. QED BY <1>1, <1>3, <1>8 DEF X, Y, M, N

---------------------------------------------------------------------------
(* A difference is normalised by shifting it up.  When the operands are    *)
(* within one binade nothing was lost before, so that any shift is exact;  *)
(* when they are not, the shift is at most one place.                      *)
LEMMA AlignedExact ==
  ASSUME NEW m \in Nat, NEW Y, Y = m * Guard, NEW d \in {0, 1}
  PROVE  ShiftRightJamming(Y, d) * Pow2[d] = Y
<1>1. Guard = 2 * Half /\ Half \in Nat /\ Y \in Nat
  <2>1. Guard = 2 * Half /\ Half \in Nat
    BY GuardPowers
  <2>. QED BY <2>1
<1>2. Pow2[0] = 1 /\ Pow2[1] = 2
  <2>1. 0 \in Nat /\ 0 + 1 <= MaxShift /\ 0 + 1 = 1
    BY Widths
  <2>2. Pow2[0 + 1] = 2 * Pow2[0] /\ Pow2[0] = 1
    BY <2>1, Pow2Step
  <2>. QED BY <2>1, <2>2
<1>3. CASE d = 0
  <2>1. ShiftRightJamming(Y, 0) = Y
    BY <1>1, JamZero
  <2>. QED BY <1>1, <1>2, <1>3, <2>1
<1>4. CASE d = 1
  <2>. DEFINE k == m * Half
  <2>1. k \in Nat /\ Y = k * 2 + 0
    BY <1>1
  <2>. HIDE DEF k
  <2>2. (k * 2 + 0) \div 2 = k /\ (k * 2 + 0) % 2 = 0
    BY <2>1, Join
  <2>3. Y \div 2 = k /\ Y % 2 = 0
    BY <2>1, <2>2
  <2>4. ~ (1 >= WordBits)
    BY Widths
  <2>5. ShiftRightJamming(Y, 1) = OrSticky(Y \div 2, (Y % 2) # 0)
    BY <1>2, <2>4 DEF ShiftRightJamming
  <2>6. ShiftRightJamming(Y, 1) = k
    BY <2>3, <2>5 DEF OrSticky
  <2>. QED BY <1>2, <1>4, <2>1, <2>6
<1>. QED BY <1>3, <1>4

LEMMA LiftExact ==
  ASSUME NEW e, Scalable(e), NEW n \in Nat, n <= MaxShift, Scalable(e - n),
         NEW sig \in Int, NEW num \in Int, sig * Down(e) = num * Up(e), NEW T \in Nat
  PROVE  StandsFor(e - n, sig * Pow2[n], num, 1, T)
<1>. DEFINE u == Up(e - n)
            d == Down(e - n)
            v == Up(e)
            w == Down(e)
            p == Pow2[n]
<1>1. p \in Nat /\ p >= 1 /\ u * w = (v * d) * p
  BY Rescale
<1>2. /\ u \in Nat /\ d \in Nat /\ d >= 1 /\ v \in Nat /\ v >= 1 /\ w \in Nat
      /\ sig * w = num * v
  BY ScaleFacts
<1>. HIDE DEF u, d, v, w, p
<1>3. ((sig * p) * d) * v = (num * u) * v
  <2>1. ((sig * p) * d) * v = sig * ((v * d) * p)
    BY <1>1, <1>2
  <2>2. sig * (u * w) = (sig * w) * u
    BY <1>2
  <2>3. (num * v) * u = (num * u) * v
    BY <1>2
  <2>. QED BY <1>1, <1>2, <2>1, <2>2, <2>3
<1>4. (sig * p) * d = num * u
  <2>. DEFINE f == (sig * p) * d
              g == num * u
  <2>1. f \in Int /\ g \in Int /\ f * v = g * v
    BY <1>1, <1>2, <1>3
  <2>. HIDE DEF f, g
  <2>2. f = g
    BY <1>2, <2>1
  <2>. QED BY <2>2 DEF f, g
<1>5. Stands(sig * p, num * u, d, T)
  <2>. DEFINE s == sig * p
              P == num * u
  <2>1. s \in Int /\ P \in Int /\ s * d = P
    BY <1>1, <1>2, <1>4
  <2>. HIDE DEF s, P
  <2>2. Stands(s, P, d, T)
    BY <1>2, <2>1, ExactStands
  <2>. QED BY <2>2 DEF s, P
<1>6. 1 * d = d
  BY <1>2
<1>. QED BY <1>5, <1>6 DEF StandsFor, u, d, p

LEMMA DifferenceStands ==
  ASSUME NEW v \in Values, v.e < ExpMax, ~ IsZero(v),
         NEW w \in Values, w.e < ExpMax, ~ IsZero(w),
         NEW a, a = Unpack(v).exp, NEW b, b = Unpack(w).exp, b <= a,
         NEW diff \in Nat, diff = Unpack(v).sig - ShiftRightJamming(Unpack(w).sig, a - b)
  PROVE  /\ diff = 0 <=> Ref!Mag(v) = Ref!Mag(w)
         /\ diff > 0 => Ref!Mag(v) - Ref!Mag(w) >= 1
         /\ \A h \in 0..ImplicitAt :
              Pow2[h] <= diff /\ diff < Pow2[h + 1] =>
                /\ Scalable(a - (ImplicitAt - h))
                /\ StandsFor(a - (ImplicitAt - h), diff * Pow2[ImplicitAt - h],
                             Ref!Mag(v) - Ref!Mag(w), 1, Half)
<1>. DEFINE X == Unpack(v).sig
            Y == Unpack(w).sig
            M == Ref!Mag(v)
            N == Ref!Mag(w)
            num == M - N
            jam == ShiftRightJamming(Y, a - b)
<1>1. /\ M \in Nat /\ Scalable(a) /\ X * Down(a) = M * Up(a)
      /\ N \in Nat /\ Scalable(b) /\ Y * Down(b) = N * Up(b) /\ num \in Int
  BY OperandMagnitude
<1>2. a \in (1 - FracBits)..(ExpMax - 1) /\ b \in (1 - FracBits)..(ExpMax - 1)
  BY UnpackNormalises
<1>3. a \in Int /\ b \in Int /\ a - b <= MaxShift /\ a - b \in Nat /\ a - b \in 0..MaxShift
  BY <1>2, Widths, Fields
<1>4. PICK q \in Nat : Half = 4 * q /\ Guard = 2 * Half /\ Half \in Nat
  BY GuardPowers
<1>5. \A T \in Nat, h \in Nat, g \in Nat :
         T = 2 * h /\ Guard = T * g => StandsFor(a, diff, num, 1, T)
  BY OperandsStand
<1>6. StandsFor(a, diff, num, 1, Half) /\ StandsFor(a, diff, num, 1, 2 * q)
  <2>. HIDE DEF num
  <2>1. Half \in Nat /\ 2 * q \in Nat /\ Half = 2 * (2 * q) /\ Guard = Half * 2
        /\ Guard = (2 * q) * 4
    BY <1>4
  <2>. QED BY <1>5, <2>1
<1>7. /\ Up(a) \in Nat /\ Up(a) >= 1 /\ Down(a) \in Nat /\ Down(a) >= 1
      /\ Up(b) \in Nat /\ Down(b) \in Nat /\ Down(b) >= 1
  BY <1>1, ScaleFacts
<1>8. (diff < 0 <=> num < 0) /\ (diff = 0 <=> num = 0)
  <2>. HIDE DEF num
  <2>1. /\ diff < Half * 0 <=> num * Up(a) < (Half * 0) * (1 * Down(a))
        /\ diff = Half * 0 <=> num * Up(a) = (Half * 0) * (1 * Down(a))
    BY <1>6 DEF StandsFor, Stands
  <2>2. Half * 0 = 0 /\ (Half * 0) * (1 * Down(a)) = 0
    BY <1>4, <1>7
  <2>. DEFINE u == Up(a)
  <2>3. u \in Nat /\ u >= 1 /\ num \in Int
    BY <1>1, <1>7
  <2>. HIDE DEF u
  <2>4. (num * u < 0 <=> num < 0) /\ (num * u = 0 <=> num = 0)
    BY <2>3
  <2>. QED BY <2>1, <2>2, <2>4 DEF u
<1>9. (diff = 0 <=> M = N) /\ (diff > 0 => M - N >= 1)
  <2>. HIDE DEF M, N
  <2>. QED BY <1>1, <1>8
<1>10. ASSUME NEW h \in 0..ImplicitAt, Pow2[h] <= diff, diff < Pow2[h + 1]
       PROVE  /\ Scalable(a - (ImplicitAt - h))
              /\ StandsFor(a - (ImplicitAt - h), diff * Pow2[ImplicitAt - h], num, 1, Half)
  <2>. DEFINE n == ImplicitAt - h
  <2>1. n \in Nat /\ n <= ImplicitAt /\ n <= MaxShift /\ h = ImplicitAt - n
    BY Widths
  <2>2. Scalable(a - n)
    <3>. HIDE DEF n
    <3>. QED BY <1>2, <2>1, Widths, Fields DEF Scalable
  <2>3. CASE a - b <= 1
    <3>. DEFINE d == a - b
                p == Pow2[d]
    <3>1. d \in {0, 1} /\ d \in Nat /\ d \in 0..MaxShift /\ d <= MaxShift /\ a - d = b
      BY <1>3, <2>3
    <3>. HIDE DEF d
    <3>2. PICK m \in Nat : Y = m * Guard
      BY UnpackNormalises DEF Guard
    <3>3. ShiftRightJamming(Y, d) * Pow2[d] = Y
      <4>. HIDE DEF Y
      <4>. QED BY <3>1, <3>2, AlignedExact
    <3>4. jam * p = Y
      BY <3>3 DEF d
    <3>5. p \in Nat /\ p >= 1
      BY <3>1, Pow2Positive
    <3>6. X \in Nat /\ Y \in Nat /\ jam \in Nat
      <4>1. X \in Nat /\ Y \in Nat /\ Y < Pow2[ImplicitAt + 1] /\ ImplicitAt + 1 \in 1..WordBits
        BY UnpackedSig, Widths
      <4>. HIDE DEF Y
      <4>. QED BY <1>3, <4>1, JamBound
    <3>7. Up(b) * Down(a) = (Up(a) * Down(b)) * p
      <4>1. Scalable(a - d)
        BY <1>1, <3>1
      <4>2. Up(a - d) * Down(a) = (Up(a) * Down(a - d)) * Pow2[d]
        BY <1>1, <3>1, <4>1, Rescale
      <4>. QED BY <3>1, <4>2
    <3>8. diff * Down(a) = num * Up(a)
      <4>. DEFINE u == Up(a)
                  e == Down(a)
                  s == Up(b)
                  t == Down(b)
      <4>1. /\ u \in Nat /\ e \in Nat /\ s \in Nat /\ t \in Nat /\ t >= 1
            /\ X * e = M * u /\ Y * t = N * s /\ s * e = (u * t) * p
            /\ diff = X - jam
        BY <1>1, <1>7, <3>7
      <4>. HIDE DEF u, e, s, t, X, Y, M, N, p, jam
      <4>2. (X * p - Y) * e = ((M - N) * u) * p
        BY <1>1, <3>5, <3>6, <4>1, AlignedCross
      <4>3. X * p - Y = diff * p
        <5>1. (X - jam) * p = X * p - jam * p
          BY <3>5, <3>6
        <5>. QED BY <3>4, <4>1, <5>1
      <4>. DEFINE f == diff * e
                  g == (M - N) * u
      <4>4. f \in Int /\ g \in Int /\ f * p = g * p
        <5>1. (diff * p) * e = (diff * e) * p
          BY <3>5, <4>1
        <5>. QED BY <1>1, <4>1, <4>2, <4>3, <5>1
      <4>. HIDE DEF f, g
      <4>5. f = g
        BY <3>5, <4>4
      <4>. QED BY <4>5 DEF f, g, e, u
    <3>. HIDE DEF n, num
    <3>9. StandsFor(a - n, diff * Pow2[n], num, 1, Half)
      BY <1>1, <1>4, <2>1, <2>2, <3>8, LiftExact
    <3>. QED BY <2>2, <3>9 DEF n
  <2>4. CASE a - b >= 2
    <3>. DEFINE d == a - b
                I == Pow2[ImplicitAt - 1]
                z == Pow2[ImplicitAt - 2]
    <3>1. /\ I \in Nat /\ I = 2 * z /\ z \in Nat /\ Pow2[ImplicitAt] = 2 * I
          /\ Pow2[ImplicitAt + 1] = 4 * I /\ I >= 1
      <4>1. /\ ImplicitAt - 2 \in Nat /\ ImplicitAt - 2 \in 0..MaxShift
            /\ ImplicitAt - 1 \in Nat /\ ImplicitAt - 1 \in 0..MaxShift
            /\ (ImplicitAt - 2) + 1 = ImplicitAt - 1 /\ (ImplicitAt - 1) + 1 = ImplicitAt
            /\ ImplicitAt \in Nat /\ ImplicitAt + 1 <= MaxShift /\ ImplicitAt <= MaxShift
            /\ ImplicitAt - 1 <= MaxShift
        BY Widths
      <4>2. /\ Pow2[(ImplicitAt - 2) + 1] = 2 * Pow2[ImplicitAt - 2]
            /\ Pow2[(ImplicitAt - 1) + 1] = 2 * Pow2[ImplicitAt - 1]
            /\ Pow2[ImplicitAt + 1] = 2 * Pow2[ImplicitAt]
        BY <4>1, Pow2Step
      <4>3. I \in Nat /\ I >= 1 /\ z \in Nat
        BY <4>1, Pow2Positive
      <4>. QED BY <4>1, <4>2, <4>3
    <3>2. Pow2[d] \in Nat /\ 4 <= Pow2[d]
      <4>1. d \in Nat /\ 2 <= d /\ d <= MaxShift /\ d \in 0..MaxShift
        BY <1>3, <2>4
      <4>2. Pow2[0] = 1 /\ Pow2[1] = 2 /\ Pow2[2] = 4
        <5>1. 0 \in Nat /\ 1 \in Nat /\ 0 + 1 <= MaxShift /\ 1 + 1 <= MaxShift
          BY Widths
        <5>2. Pow2[0] = 1 /\ Pow2[0 + 1] = 2 * Pow2[0] /\ Pow2[1 + 1] = 2 * Pow2[1]
          BY <5>1, Pow2Step
        <5>3. 0 + 1 = 1 /\ 1 + 1 = 2
          OBVIOUS
        <5>. QED BY <5>2, <5>3
      <4>3. Pow2[2] <= Pow2[d]
        BY <4>1, Pow2Monotone
      <4>. HIDE DEF d
      <4>. QED BY <4>1, <4>2, <4>3, Pow2Step
    <3>3. /\ X \in Nat /\ Y \in Nat /\ Pow2[ImplicitAt] <= X /\ Y < Pow2[ImplicitAt + 1]
          /\ Y < Pow2[WordBits]
      <4>1. /\ X \in Nat /\ Y \in Nat /\ Pow2[ImplicitAt] <= X /\ Y < Pow2[ImplicitAt + 1]
        BY UnpackedSig
      <4>2. /\ ImplicitAt + 1 \in Nat /\ WordBits \in Nat /\ ImplicitAt + 1 <= WordBits
            /\ WordBits <= MaxShift /\ ImplicitAt + 1 \in 0..MaxShift /\ WordBits \in 0..MaxShift
        BY Widths
      <4>3. /\ Pow2[ImplicitAt + 1] <= Pow2[WordBits] /\ Pow2[ImplicitAt + 1] \in Nat
            /\ Pow2[WordBits] \in Nat
        BY <4>2, Pow2Monotone, Pow2Step
      <4>. HIDE DEF X, Y
      <4>. QED BY <4>1, <4>3
    <3>4. jam \in Nat /\ jam < I
      <4>1. d \in Nat /\ d <= MaxShift
        BY <1>3
      <4>2. ImplicitAt + 1 \in 1..WordBits
        BY Widths
      <4>. HIDE DEF Y, d, z, I
      <4>3. ShiftRightJamming(Y, d) \in Nat
        BY <3>3, <4>1, <4>2, JamBound
      <4>4. Y < (2 * z) * Pow2[d]
        <5>. DEFINE p == Pow2[d]
        <5>1. p \in Nat /\ 4 <= p /\ I \in Nat /\ Y < 4 * I
          BY <3>1, <3>2, <3>3
        <5>. HIDE DEF p
        <5>2. 4 * I <= I * p
          BY <5>1
        <5>3. I * p \in Nat
          BY <5>1
        <5>4. Y < I * p
          BY <3>3, <5>1, <5>2, <5>3
        <5>. QED BY <3>1, <5>4 DEF p
      <4>5. ShiftRightJamming(Y, d) < 2 * z
        BY <3>1, <3>3, <4>1, <4>4, JamSide
      <4>. QED BY <3>1, <4>3, <4>5 DEF d
    <3>. HIDE DEF I
    <3>5. diff = X - jam
      OBVIOUS
    <3>6. I < diff
      <4>. HIDE DEF X, jam
      <4>. QED BY <3>1, <3>3, <3>4, <3>5
    <3>7. n \in {0, 1}
      <4>1. SUFFICES ASSUME n >= 2 PROVE FALSE
        BY <2>1
      <4>2. h + 1 \in Nat /\ ImplicitAt - 1 \in Nat /\ h + 1 <= ImplicitAt - 1
            /\ ImplicitAt - 1 <= MaxShift /\ h + 1 \in 0..MaxShift
        BY <2>1, <4>1, Widths
      <4>3. Pow2[h + 1] <= I /\ Pow2[h + 1] \in Nat
        BY <4>2, Pow2Monotone, Pow2Step DEF I
      <4>. QED BY <1>10, <3>1, <3>6, <4>3
    <3>8. Pow2[0] = 1 /\ Pow2[1] = 2
      <4>1. 0 \in Nat /\ 0 + 1 <= MaxShift /\ 0 + 1 = 1
        BY Widths
      <4>2. Pow2[0 + 1] = 2 * Pow2[0] /\ Pow2[0] = 1
        BY <4>1, Pow2Step
      <4>. QED BY <4>1, <4>2
    <3>. HIDE DEF n, num
    <3>9. CASE n = 0
      <4>1. StandsFor(a - n, diff * Pow2[n], num, 1, Half * Pow2[n])
        BY <1>1, <1>4, <1>6, <2>1, <2>2, LiftStands
      <4>2. Half * Pow2[n] = Half
        BY <1>4, <3>8, <3>9
      <4>. QED BY <2>2, <4>1, <4>2 DEF n
    <3>10. CASE n = 1
      <4>. DEFINE T == 2 * q
      <4>1. T \in Nat /\ StandsFor(a, diff, num, 1, T)
        BY <1>6
      <4>2. T * Pow2[n] = Half
        BY <1>4, <3>8, <3>10
      <4>. HIDE DEF T
      <4>3. StandsFor(a - n, diff * Pow2[n], num, 1, T * Pow2[n])
        BY <1>1, <2>1, <2>2, <4>1, LiftStands
      <4>. QED BY <2>2, <4>2, <4>3 DEF n
    <3>. QED BY <3>7, <3>9, <3>10
  <2>. QED BY <1>3, <2>3, <2>4
<1>. QED BY <1>9, <1>10

---------------------------------------------------------------------------
(* Products and quotients.  Equations between fractions, cross-multiplied. *)
LEMMA Chain ==
  ASSUME NEW a \in Nat, NEW b \in Nat, NEW c \in Nat, NEW d \in Nat,
         NEW s \in Nat, NEW t \in Nat, s >= 1, t >= 1, a * s = b * t, c * t = d * s
  PROVE  a * c = b * d
<1>1. (a * c) * (s * t) = (b * d) * (s * t)
  <2>1. (a * c) * (s * t) = (a * s) * (c * t) /\ (b * d) * (s * t) = (b * t) * (d * s)
    BY Z3
  <2>. QED BY <2>1
<1>. DEFINE k == s * t
            x == a * c
            y == b * d
<1>2. k \in Nat /\ k >= 1 /\ x \in Nat /\ y \in Nat /\ x * k = y * k
  BY <1>1
<1>. HIDE DEF k, x, y
<1>3. x = y
  BY <1>2
<1>. QED BY <1>3 DEF x, y

(* 2^x = 2^(a + b + k - l), for exponents of any sign.                     *)
LEMMA Balance ==
  ASSUME NEW a \in Int, NEW b \in Int, NEW k \in Nat, NEW l \in Nat, NEW x,
         x = (a + (k - l)) + b,
         InTable(a), InTable(b), InTable(k), InTable(l), InTable(a + (k - l)), InTable(x)
  PROVE  ((Under(a) * Under(b)) * Over(x)) * Pow2[l] = ((Over(a) * Over(b)) * Under(x)) * Pow2[k]
<1>. DEFINE r == k - l
            s == a + r
<1>1. /\ r \in Int /\ InTable(r) /\ s \in Int /\ InTable(s) /\ r + l = k /\ x = s + b /\ x \in Int
      /\ InTable(s + b) /\ InTable(a + r) /\ InTable(r + l)
  <2>1. r \in Int /\ s \in Int /\ r + l = k /\ x = s + b /\ x \in Int
    OBVIOUS
  <2>2. InTable(r)
    BY Widths DEF InTable
  <2>. QED BY <2>1, <2>2
<1>. HIDE DEF r, s
<1>2. s = a + r
  BY DEF s
<1>3. (Over(r) * Pow2[l]) * Under(k) = Under(r) * Over(k)
  BY <1>1, OverSum
<1>4. (Over(a) * Over(r)) * Under(s) = (Under(a) * Under(r)) * Over(s)
  BY <1>1, <1>2, ScaleSum
<1>5. (Over(s) * Over(b)) * Under(x) = (Under(s) * Under(b)) * Over(x)
  BY <1>1, ScaleSum
<1>6. Under(k) = 1 /\ Over(k) = Pow2[k]
  BY DEF Over, Under
<1>. DEFINE oa == Over(a)
            ua == Under(a)
            ob == Over(b)
            ub == Under(b)
            or == Over(r)
            ur == Under(r)
            os == Over(s)
            us == Under(s)
            ox == Over(x)
            ux == Under(x)
            pk == Pow2[k]
            pl == Pow2[l]
<1>7. /\ oa \in Nat /\ oa >= 1 /\ ua \in Nat /\ ua >= 1 /\ ob \in Nat /\ ob >= 1
      /\ ub \in Nat /\ ub >= 1 /\ or \in Nat /\ or >= 1 /\ ur \in Nat /\ ur >= 1
      /\ os \in Nat /\ os >= 1 /\ us \in Nat /\ us >= 1
      /\ ox \in Nat /\ ox >= 1 /\ ux \in Nat /\ ux >= 1
  BY <1>1, OverUnder
<1>8. pk \in Nat /\ pk >= 1 /\ pl \in Nat /\ pl >= 1
  <2>1. k \in 0..MaxShift /\ l \in 0..MaxShift
    BY DEF InTable
  <2>. QED BY <2>1, Pow2Positive
<1>9. /\ (or * pl) * 1 = ur * pk
      /\ (oa * or) * us = (ua * ur) * os
      /\ (os * ob) * ux = (us * ub) * ox
  BY <1>3, <1>4, <1>5, <1>6
<1>. HIDE DEF oa, ua, ob, ub, or, ur, os, us, ox, ux, pk, pl
<1>10. (oa * or) * (ob * ux) = (ua * ur) * (ub * ox)
  <2>. DEFINE f == oa * or
              g == ua * ur
              m == ob * ux
              n == ub * ox
  <2>1. f \in Nat /\ g \in Nat /\ m \in Nat /\ n \in Nat
    BY <1>7
  <2>2. m * os = n * us
    <3>1. (ob * ux) * os = (os * ob) * ux /\ (ub * ox) * us = (us * ub) * ox
      BY <1>7, Z3
    <3>. QED BY <1>9, <3>1
  <2>3. f * us = g * os
    BY <1>9
  <2>. HIDE DEF f, g, m, n
  <2>4. f * m = g * n
    BY <1>7, <2>1, <2>2, <2>3, Chain
  <2>. QED BY <2>4 DEF f, g, m, n
<1>11. ((oa * ob) * ux) * pk = ((ua * ub) * ox) * pl
  <2>. DEFINE f == (oa * ob) * ux
              g == (ua * ub) * ox
  <2>1. f \in Nat /\ g \in Nat
    BY <1>7
  <2>2. f * or = g * ur
    <3>1. ((oa * ob) * ux) * or = (oa * or) * (ob * ux)
      BY <1>7, Z3
    <3>2. ((ua * ub) * ox) * ur = (ua * ur) * (ub * ox)
      BY <1>7, Z3
    <3>. QED BY <1>10, <3>1, <3>2
  <2>3. pk * ur = pl * or
    BY <1>7, <1>8, <1>9
  <2>. HIDE DEF f, g
  <2>4. f * pk = g * pl
    BY <1>7, <1>8, <2>1, <2>2, <2>3, Chain
  <2>. QED BY <2>4 DEF f, g
<1>. QED BY <1>11 DEF oa, ua, ob, ub, ox, ux, pk, pl

(* A number cut to fewer bits, the rest jammed into the last one.          *)
LEMMA CutStands ==
  ASSUME NEW x \in Nat, NEW d \in Nat, d >= 1, NEW T \in Nat, NEW h \in Nat, T = 2 * h
  PROVE  Stands(OrSticky(x \div d, (x % d) # 0), x, d, T)
<1>. DEFINE c == x \div d
            lost == (x % d) # 0
<1>1. c \in Nat /\ lost \in BOOLEAN
  BY Split
<1>. SUFFICES ASSUME NEW y \in Int
              PROVE  /\ OrSticky(c, lost) < T * y <=> x < (T * y) * d
                     /\ OrSticky(c, lost) = T * y <=> x = (T * y) * d
  BY DEF Stands
<1>. DEFINE z == h * y
            t == 2 * z
<1>2. z \in Int /\ t \in Int /\ T * y = t
  OBVIOUS
<1>. HIDE DEF z
<1>3. (x \div d < t <=> x < t * d) /\ (x \div d = t /\ x % d = 0 <=> x = t * d)
  <2>. HIDE DEF t
  <2>. QED BY <1>2, QuotientSide
<1>4. (c < t <=> x < t * d) /\ (c = t /\ ~ lost <=> x = t * d)
  BY <1>3
<1>. HIDE DEF c, lost
<1>5. /\ OrSticky(c, lost) < 2 * z <=> c < 2 * z
      /\ OrSticky(c, lost) = 2 * z <=> c = 2 * z /\ ~ lost
  BY <1>1, <1>2, StickySide
<1>. QED BY <1>2, <1>4, <1>5

(* An exact product over a power of two, at the scale of its exponent.     *)
LEMMA ProductCross ==
  ASSUME NEW p \in Nat, NEW q \in Nat, NEW g \in Nat, NEW a \in Nat, NEW b \in Nat,
         NEW u \in Nat, NEW v \in Nat, NEW m \in Nat, NEW n \in Nat,
         NEW num \in Nat, NEW den \in Nat, NEW l \in Nat, NEW s \in Nat, NEW x \in Nat, NEW y \in Nat,
         g >= 1, a >= 1, b >= 1, l >= 1,
         (p * g) * a = m * u, (q * g) * b = n * v, num * l = (m * n) * den,
         ((l * u) * v) * y = (((s * g) * g) * (a * b)) * x
  PROVE  (p * q) * (den * y) = (num * x) * s
<1>. DEFINE k == ((g * a) * (g * b)) * l
            f == (p * q) * (den * y)
            e == (num * x) * s
<1>1. f * k = (((p * g) * a) * ((q * g) * b)) * ((den * y) * l)
  BY Z3
<1>2. ((m * u) * (n * v)) * ((den * y) * l) = ((m * n) * den) * (((l * u) * v) * y)
  BY Z3
<1>3. (num * l) * ((((s * g) * g) * (a * b)) * x) = e * k
  BY Z3
<1>4. f * k = e * k
  BY <1>1, <1>2, <1>3
<1>5. k \in Nat /\ k >= 1 /\ f \in Nat /\ e \in Nat
  <2>1. g * a >= 1 /\ g * b >= 1 /\ g * a \in Nat /\ g * b \in Nat
    OBVIOUS
  <2>2. (g * a) * (g * b) >= 1 /\ (g * a) * (g * b) \in Nat
    <3>. DEFINE i == g * a
                j == g * b
    <3>. HIDE DEF i, j
    <3>1. i * j >= 1 /\ i * j \in Nat
      BY <2>1 DEF i, j
    <3>. QED BY <3>1 DEF i, j
  <2>. DEFINE i == (g * a) * (g * b)
  <2>. HIDE DEF i
  <2>3. i * l \in Nat /\ i * l >= 1
    BY <2>2 DEF i
  <2>. QED BY <2>3 DEF i
<1>. HIDE DEF k, f, e
<1>6. f = e
  BY <1>4, <1>5
<1>. QED BY <1>6 DEF f, e

(* A magnitude is an odd number times a power of two.                      *)
LEMMA MagnitudeBound ==
  ASSUME NEW v \in Values, v.e < ExpMax, ~ IsZero(v)
  PROVE  Ref!Mag(v) < Pow2[FracBits + (ExpMax - 1)]
<1>. DEFINE e == Binade(v.e)
            m == Whole(v)
            F == Pow2[FracBits]
            t == ExpMax - 2
<1>1. /\ e \in 1..(ExpMax - 1) /\ m \in Nat /\ m < 2 * ImplicitBit /\ Ref!Mag(v) = m * Unit(e)
      /\ ImplicitBit = F /\ F \in Nat
  BY ValueAt, Fields
<1>2. /\ t \in Nat /\ e - 1 \in Nat /\ e - 1 <= t /\ FracBits + 1 \in Nat
      /\ t <= MaxShift /\ FracBits + 1 <= MaxShift /\ (FracBits + 1) + t <= MaxShift
      /\ (FracBits + 1) + t = FracBits + (ExpMax - 1) /\ FracBits \in Nat
      /\ t \in 0..MaxShift
  <2>. HIDE DEF e
  <2>. QED BY <1>1, Widths, Fields
<1>3. Pow2[e - 1] <= Pow2[t]
  <2>. HIDE DEF e, t
  <2>. DEFINE i == e - 1
  <2>1. i \in Nat /\ i <= t
    BY <1>2
  <2>. HIDE DEF i
  <2>2. Pow2[i] <= Pow2[t]
    BY <1>2, <2>1, Pow2Monotone
  <2>. QED BY <2>2 DEF i
<1>4. Pow2[FracBits + 1] = 2 * F
  BY <1>2, Pow2Step
<1>5. Pow2[(FracBits + 1) + t] = Pow2[FracBits + 1] * Pow2[t]
  <2>. HIDE DEF t
  <2>. QED BY <1>2, Pow2Sum
<1>6. Pow2[t] \in Nat /\ Pow2[t] >= 1
  <2>. HIDE DEF t
  <2>. QED BY <1>2, Pow2Positive
<1>7. Unit(e) \in Nat /\ Unit(e) = Pow2[e - 1]
  <2>1. e \in 1..ExpMax
    BY <1>1, Fields
  <2>. HIDE DEF e
  <2>. QED BY <2>1, UnitFacts DEF Unit
<1>. DEFINE U == Unit(e)
            P == Pow2[t]
<1>8. U \in Nat /\ P \in Nat /\ P >= 1 /\ U <= P /\ m < 2 * F
  BY <1>1, <1>3, <1>6, <1>7
<1>. HIDE DEF e, m, F, U, P
<1>9. m * U < (2 * F) * P
  <2>1. m * U <= m * P
    BY <1>1, <1>8
  <2>2. m * P < (2 * F) * P
    BY <1>1, <1>8
  <2>. QED BY <1>1, <1>8, <2>1, <2>2
<1>. QED BY <1>1, <1>2, <1>4, <1>5, <1>9 DEF U, P

LEMMA OddTimesPower ==
  ASSUME NEW x \in Nat, x >= 1, NEW k \in Nat, k <= MaxShift, x < Pow2[k]
  PROVE  /\ Ref!Twos(x) \in Nat /\ Ref!Twos(x) < k
         /\ Ref!Odd(x) \in Nat /\ Ref!Odd(x) >= 1
         /\ x = Ref!Odd(x) * Pow2[Ref!Twos(x)]
<1>. DEFINE T == {n \in 0..MaxShift : (x % Pow2[n]) # 0}
            Is(n) == (x % Pow2[n]) = 0 /\ (x % Pow2[n + 1]) # 0
<1>1. MaxShift \in Nat /\ MaxShift \in 0..MaxShift /\ k \in 0..MaxShift
  BY Widths
<1>2. \A n \in 0..MaxShift : Pow2[n] \in Nat /\ Pow2[n] >= 1
  BY Pow2Positive
<1>3. \A d \in Nat : x < d => x % d = x
  <2>. SUFFICES ASSUME NEW d \in Nat, x < d PROVE x % d = x
    OBVIOUS
  <2>1. 0 \in Nat /\ 0 * d + x = x
    OBVIOUS
  <2>2. (0 * d + x) % d = x
    BY Join
  <2>. QED BY <2>1, <2>2
<1>4. x < Pow2[MaxShift]
  <2>1. Pow2[k] <= Pow2[MaxShift]
    BY <1>1, Pow2Monotone
  <2>. QED BY <1>1, <1>2, <2>1
<1>5. PICK t \in T : \A n \in T : t <= n
  <2>1. MaxShift \in T
    BY <1>1, <1>2, <1>3, <1>4
  <2>2. T \subseteq Nat /\ T # {}
    BY <2>1
  <2>. HIDE DEF T
  <2>. QED BY <2>2, Least
<1>6. t \in 0..MaxShift /\ (x % Pow2[t]) # 0 /\ t # 0
  <2>1. Pow2[0] = 1 /\ x % 1 = 0
    BY Pow2Step, Split
  <2>. QED BY <1>5, <2>1
<1>7. \E n \in 0..MaxShift : Is(n)
  <2>. HIDE DEF T
  <2>1. t - 1 \in 0..MaxShift /\ (t - 1) + 1 = t /\ ~ (t <= t - 1)
    BY <1>1, <1>6
  <2>. USE DEF T
  <2>2. (x % Pow2[t - 1]) = 0
    BY <1>5, <2>1
  <2>3. Is(t - 1)
    BY <1>6, <2>1, <2>2
  <2>. QED BY <2>1, <2>3
<1>8. Ref!Twos(x) \in 0..MaxShift /\ Is(Ref!Twos(x))
  <2>1. Ref!Twos(x) = CHOOSE n \in 0..MaxShift : Is(n)
    BY DEF Ref!Twos
  <2>. HIDE DEF Is
  <2>. QED BY <1>7, <2>1
<1>. DEFINE n == Ref!Twos(x)
            P == Pow2[n]
            o == x \div P
<1>9. n \in 0..MaxShift /\ P \in Nat /\ P >= 1 /\ (x % P) = 0
  BY <1>2, <1>8
<1>10. Ref!Odd(x) = o
  BY DEF Ref!Odd
<1>. HIDE DEF n, P
<1>11. o \in Nat /\ x = o * P
  <2>1. o \in Nat /\ x = o * P + (x % P)
    BY <1>9, Split
  <2>. HIDE DEF o
  <2>2. o * P \in Nat
    BY <1>9, <2>1
  <2>. QED BY <1>9, <2>1, <2>2
<1>. HIDE DEF o
<1>12. o >= 1 /\ P <= x
  <2>1. o # 0
    BY <1>9, <1>11
  <2>2. o >= 1
    BY <1>11, <2>1
  <2>. QED BY <1>9, <1>11, <2>2
<1>13. n < k
  <2>1. SUFFICES ASSUME k <= n PROVE FALSE
    BY <1>9
  <2>2. Pow2[k] <= Pow2[n]
    BY <1>1, <1>9, <2>1, Pow2Monotone
  <2>. QED BY <1>1, <1>2, <1>9, <1>12, <2>2 DEF P
<1>. QED BY <1>9, <1>10, <1>11, <1>12, <1>13 DEF n, P

(* The scaled rounding of the reference, as a fraction.                    *)
LEMMA ScaledIs ==
  ASSUME NEW s, NEW mode, NEW odd \in Nat, NEW den \in Nat, NEW n, InTable(n)
  PROVE  Ref!RoundScaled(s, odd, n, den, mode) =
           Ref!Round(s, odd * Over(n), den * Under(n), mode)
<1>1. CASE n >= 0
  <2>1. Over(n) = Pow2[n] /\ Under(n) = 1 /\ den * 1 = den
    BY <1>1 DEF Over, Under
  <2>2. Ref!RoundScaled(s, odd, n, den, mode) = Ref!Round(s, odd * Pow2[n], den, mode)
    BY <1>1, Zenon DEF Ref!RoundScaled
  <2>. QED BY <2>1, <2>2
<1>2. CASE ~ (n >= 0)
  <2>1. Over(n) = 1 /\ Under(n) = Pow2[-n] /\ odd * 1 = odd
    BY <1>2 DEF Over, Under
  <2>2. Ref!RoundScaled(s, odd, n, den, mode) = Ref!Round(s, odd, den * Pow2[-n], mode)
    BY <1>2, Zenon DEF Ref!RoundScaled
  <2>. QED BY <2>1, <2>2
<1>. QED BY <1>1, <1>2

(* The table that exact products and quotients need.                       *)
WideTable == MaxShift >= 2 * FracBits + 3 * Bias

LEMMA MagnitudeFactors ==
  ASSUME NEW v \in Values, v.e < ExpMax, ~ IsZero(v), NEW M, M = Ref!Mag(v)
  PROVE  /\ Ref!Twos(M) \in Nat /\ Ref!Twos(M) <= FracBits + 2 * Bias - 1
         /\ Ref!Odd(M) \in Nat /\ Ref!Odd(M) >= 1
         /\ M \in Nat /\ M >= 1 /\ M = Ref!Odd(M) * Pow2[Ref!Twos(M)]
<1>. DEFINE k == FracBits + (ExpMax - 1)
<1>1. k \in Nat /\ k <= MaxShift /\ k = FracBits + 2 * Bias
  BY Widths, Fields
<1>2. M < Pow2[k]
  BY MagnitudeBound
<1>3. M \in Nat /\ M >= 1
  BY OperandMagnitude
<1>. HIDE DEF k
<1>4. /\ Ref!Twos(M) \in Nat /\ Ref!Twos(M) < k
      /\ Ref!Odd(M) \in Nat /\ Ref!Odd(M) >= 1
      /\ M = Ref!Odd(M) * Pow2[Ref!Twos(M)]
  BY <1>1, <1>2, <1>3, OddTimesPower
<1>. QED BY <1>1, <1>3, <1>4, Widths, Fields

(* The exact product of two magnitudes, from their odd parts.              *)
LEMMA OddProduct ==
  ASSUME WideTable,
         NEW v \in Values, v.e < ExpMax, ~ IsZero(v), NEW M, M = Ref!Mag(v),
         NEW w \in Values, w.e < ExpMax, ~ IsZero(w), NEW N, N = Ref!Mag(w),
         NEW n, n = Ref!Twos(M) + Ref!Twos(N) - Ref!LogOne
  PROVE  /\ InTable(n) /\ Under(n) \in Nat /\ Under(n) >= 1
         /\ Ref!Odd(M) * Ref!Odd(N) \in Nat
         /\ (Ref!Odd(M) * Ref!Odd(N)) * Over(n) \in Nat
         /\ ((Ref!Odd(M) * Ref!Odd(N)) * Over(n)) * Pow2[Ref!LogOne] = (M * N) * Under(n)
<1>. DEFINE a == Ref!Twos(M)
            b == Ref!Twos(N)
            o == Ref!Odd(M)
            q == Ref!Odd(N)
            l == Ref!LogOne
<1>1. /\ a \in Nat /\ a <= FracBits + 2 * Bias - 1 /\ o \in Nat
      /\ M \in Nat /\ M = o * Pow2[a]
  BY MagnitudeFactors
<1>2. /\ b \in Nat /\ b <= FracBits + 2 * Bias - 1 /\ q \in Nat
      /\ N \in Nat /\ N = q * Pow2[b]
  BY MagnitudeFactors
<1>3. l = FracBits + Bias - 1
  BY SameFormat
<1>4. n = (a + (0 - l)) + b
  <2>1. n = a + b - l
    OBVIOUS
  <2>. HIDE DEF a, b, l
  <2>. QED BY <1>1, <1>2, <1>3, <2>1, Widths, Fields
<1>. HIDE DEF a, b, o, q, l
<1>5. /\ InTable(a) /\ InTable(b) /\ InTable(0) /\ InTable(l) /\ InTable(a + (0 - l)) /\ InTable(n)
      /\ l \in Nat /\ n \in Int
  BY <1>1, <1>2, <1>3, <1>4, Widths, Fields DEF InTable, WideTable
<1>6. ((Under(a) * Under(b)) * Over(n)) * Pow2[l] = ((Over(a) * Over(b)) * Under(n)) * Pow2[0]
  <2>1. 0 \in Nat /\ a \in Int /\ b \in Int
    BY <1>1, <1>2
  <2>. QED BY <1>4, <1>5, <2>1, Balance
<1>7. /\ Under(a) = 1 /\ Under(b) = 1 /\ Over(a) = Pow2[a] /\ Over(b) = Pow2[b] /\ Pow2[0] = 1
  BY <1>1, <1>2, Pow2Step DEF Over, Under
<1>8. /\ Pow2[a] \in Nat /\ Pow2[b] \in Nat /\ Pow2[l] \in Nat
      /\ Over(n) \in Nat /\ Under(n) \in Nat /\ Under(n) >= 1
  <2>1. a \in 0..MaxShift /\ b \in 0..MaxShift /\ l \in 0..MaxShift
    BY <1>1, <1>2, <1>5 DEF InTable
  <2>. QED BY <1>5, <2>1, Pow2Positive, OverUnder
<1>. DEFINE f == Pow2[a]
            g == Pow2[b]
            h == Pow2[l]
            x == Over(n)
            y == Under(n)
            c == o * q
<1>9. /\ f \in Nat /\ g \in Nat /\ h \in Nat /\ x \in Nat /\ y \in Nat /\ y >= 1
      /\ ((1 * 1) * x) * h = ((f * g) * y) * 1 /\ M = o * f /\ N = q * g
  BY <1>1, <1>2, <1>6, <1>7, <1>8
<1>10. c \in Nat
  BY <1>1, <1>2
<1>. HIDE DEF f, g, h, x, y
<1>11. x * h = (f * g) * y
  BY <1>9
<1>12. (c * x) * h = (M * N) * y
  <2>1. ((o * q) * x) * h = (o * q) * (x * h)
    BY <1>1, <1>2, <1>9, Z3
  <2>2. ((o * f) * (q * g)) * y = (o * q) * ((f * g) * y)
    BY <1>1, <1>2, <1>9, Z3
  <2>. QED BY <1>9, <1>11, <2>1, <2>2
<1>13. c * x \in Nat
  BY <1>9, <1>10
<1>. QED BY <1>5, <1>8, <1>10, <1>12, <1>13 DEF c, h, x, y, l, o, q

(* The exact product of two magnitudes, as the reference rounds it.        *)
LEMMA ExactProduct ==
  ASSUME WideTable, NEW s, NEW mode,
         NEW v \in Values, v.e < ExpMax, ~ IsZero(v), NEW M, M = Ref!Mag(v),
         NEW w \in Values, w.e < ExpMax, ~ IsZero(w), NEW N, N = Ref!Mag(w)
  PROVE  \E num \in Nat, den \in Nat :
           /\ den >= 1 /\ num * Pow2[Ref!LogOne] = (M * N) * den
           /\ Ref!RoundScaled(s, Ref!Odd(M) * Ref!Odd(N),
                              Ref!Twos(M) + Ref!Twos(N) - Ref!LogOne, 1, mode) =
                Ref!Round(s, num, den, mode)
<1>. DEFINE n == Ref!Twos(M) + Ref!Twos(N) - Ref!LogOne
            o == Ref!Odd(M) * Ref!Odd(N)
            l == Pow2[Ref!LogOne]
            num == o * Over(n)
            den == Under(n)
<1>1. InTable(n) /\ o \in Nat /\ num \in Nat /\ den \in Nat /\ den >= 1
      /\ num * l = (M * N) * den
  BY OddProduct
<1>2. Ref!RoundScaled(s, o, n, 1, mode) = Ref!Round(s, num, den, mode)
  <2>. HIDE DEF n, o
  <2>1. Ref!RoundScaled(s, o, n, 1, mode) = Ref!Round(s, o * Over(n), 1 * Under(n), mode)
    BY <1>1, ScaledIs
  <2>2. 1 * Under(n) = Under(n)
    BY <1>1
  <2>. QED BY <2>1, <2>2
<1>. HIDE DEF num, den, l
<1>. QED BY <1>1, <1>2 DEF l, n, o

(* Likewise the quotient.                                                  *)
LEMMA ExactQuotient ==
  ASSUME WideTable, NEW s, NEW mode,
         NEW v \in Values, v.e < ExpMax, ~ IsZero(v), NEW M, M = Ref!Mag(v),
         NEW w \in Values, w.e < ExpMax, ~ IsZero(w), NEW N, N = Ref!Mag(w)
  PROVE  \E num \in Nat, den \in Nat :
           /\ den >= 1 /\ num * N = (M * Pow2[Ref!LogOne]) * den
           /\ Ref!RoundScaled(s, Ref!Odd(M), Ref!Twos(M) - Ref!Twos(N) + Ref!LogOne,
                              Ref!Odd(N), mode) =
                Ref!Round(s, num, den, mode)
<1>. DEFINE a == Ref!Twos(M)
            t == Ref!Twos(N)
            b == -t
            o == Ref!Odd(M)
            q == Ref!Odd(N)
            l == Ref!LogOne
            n == (a + (l - 0)) + b
<1>1. /\ a \in Nat /\ a <= FracBits + 2 * Bias - 1 /\ o \in Nat
      /\ M \in Nat /\ M = o * Pow2[a]
  BY MagnitudeFactors
<1>2. /\ t \in Nat /\ t <= FracBits + 2 * Bias - 1 /\ q \in Nat /\ q >= 1
      /\ N \in Nat /\ N = q * Pow2[t]
  BY MagnitudeFactors
<1>3. l = FracBits + Bias - 1
  BY SameFormat
<1>4. Ref!RoundScaled(s, o, a - t + l, q, mode) = Ref!RoundScaled(s, o, n, q, mode)
  <2>1. a - t + l = n
    BY <1>1, <1>2, <1>3, Widths, Fields
  <2>. HIDE DEF a, t, b, o, q, l, n
  <2>. QED BY <2>1
<1>. HIDE DEF a, t, o, q, l
<1>5. /\ InTable(a) /\ InTable(b) /\ InTable(0) /\ InTable(l) /\ InTable(a + (l - 0)) /\ InTable(n)
      /\ l \in Nat /\ n \in Int /\ b \in Int
  BY <1>1, <1>2, <1>3, Widths, Fields DEF InTable, WideTable
<1>6. Under(b) = Pow2[t] /\ Over(b) = 1
  <2>1. CASE t = 0
    <3>1. t <= 0 /\ t >= 0
      BY <1>2, <2>1
    <3>2. b \in Int /\ b >= 0 /\ b <= 0
      BY <1>2, <3>1
    <3>. HIDE DEF b
    <3>3. b = 0
      BY <3>2
    <3>. QED BY <2>1, <3>3, Pow2Step DEF Over, Under
  <2>2. CASE t # 0
    <3>1. ~ (b >= 0) /\ -b = t
      BY <1>2, <2>2
    <3>. QED BY <3>1 DEF Over, Under
  <2>. QED BY <2>1, <2>2
<1>. HIDE DEF b
<1>7. ((Under(a) * Under(b)) * Over(n)) * Pow2[0] = ((Over(a) * Over(b)) * Under(n)) * Pow2[l]
  <2>1. n = (a + (l - 0)) + b
    OBVIOUS
  <2>2. 0 \in Nat /\ a \in Int
    BY <1>1
  <2>. HIDE DEF n
  <2>. QED BY <1>5, <2>1, <2>2, Balance
<1>. HIDE DEF n
<1>8. Under(a) = 1 /\ Over(a) = Pow2[a] /\ Pow2[0] = 1
  BY <1>1, Pow2Step DEF Over, Under
<1>9. /\ Pow2[a] \in Nat /\ Pow2[t] \in Nat /\ Pow2[l] \in Nat
      /\ Over(n) \in Nat /\ Under(n) \in Nat /\ Under(n) >= 1
  <2>1. a \in 0..MaxShift /\ t \in 0..MaxShift /\ l \in 0..MaxShift
    BY <1>1, <1>2, <1>3, Widths, Fields DEF WideTable
  <2>. QED BY <1>5, <2>1, Pow2Positive, OverUnder
<1>. DEFINE f == Pow2[a]
            g == Pow2[t]
            h == Pow2[l]
            x == Over(n)
            y == Under(n)
<1>10. /\ f \in Nat /\ g \in Nat /\ h \in Nat /\ x \in Nat /\ y \in Nat /\ y >= 1
       /\ ((1 * g) * x) * 1 = ((f * 1) * y) * h /\ M = o * f /\ N = q * g
  BY <1>1, <1>2, <1>6, <1>7, <1>8, <1>9
<1>11. Ref!RoundScaled(s, o, n, q, mode) = Ref!Round(s, o * x, q * y, mode)
  BY <1>1, <1>2, <1>5, ScaledIs
<1>. HIDE DEF f, g, h, x, y
<1>12. g * x = (f * y) * h
  BY <1>10
<1>13. (o * x) * N = (M * h) * (q * y)
  <2>1. (o * x) * (q * g) = (o * q) * (g * x)
    BY <1>1, <1>2, <1>10, Z3
  <2>2. ((o * f) * h) * (q * y) = (o * q) * ((f * y) * h)
    BY <1>1, <1>2, <1>10, Z3
  <2>. QED BY <1>10, <1>12, <2>1, <2>2
<1>14. o * x \in Nat /\ q * y \in Nat /\ q * y >= 1
  BY <1>1, <1>2, <1>10
<1>. DEFINE num == o * x
            den == q * y
<1>15. /\ num \in Nat /\ den \in Nat /\ den >= 1 /\ num * N = (M * Pow2[l]) * den
       /\ Ref!RoundScaled(s, o, a - t + l, q, mode) = Ref!Round(s, num, den, mode)
  BY <1>4, <1>11, <1>13, <1>14 DEF h
<1>. HIDE DEF num, den
<1>. QED BY <1>15 DEF a, t, o, q, l

(* The significand of an operand without its guard bits.                   *)
LEMMA UnpackedUnits ==
  ASSUME NEW v \in Values, v.e < ExpMax, ~ IsZero(v), NEW p, p = Unpack(v).sig \div Pow2[GuardBits]
  PROVE  /\ p \in Nat /\ p >= 1 /\ Unpack(v).sig = p * Guard
         /\ Pow2[FracBits] <= p /\ p < 2 * Pow2[FracBits]
<1>1. PICK m \in Nat : /\ Pow2[FracBits] <= m /\ m < Pow2[FracBits + 1]
                       /\ Unpack(v).sig = m * Pow2[GuardBits]
  BY UnpackNormalises
<1>2. p = m
  <2>. DEFINE d == Pow2[GuardBits]
  <2>1. d \in Nat /\ 0 < d
    BY Widths, Pow2Positive
  <2>. HIDE DEF d
  <2>2. (m * d + 0) \div d = m
    BY <2>1, Join
  <2>3. m * d + 0 = m * d
    BY <2>1
  <2>4. (m * d) \div d = m
    BY <2>2, <2>3
  <2>. QED BY <1>1, <2>4 DEF d
<1>3. Pow2[FracBits + 1] = 2 * Pow2[FracBits] /\ Pow2[FracBits] \in Nat /\ Pow2[FracBits] >= 1
  BY Widths, Pow2Step, Pow2Positive
<1>. QED BY <1>1, <1>2, <1>3 DEF Guard

(* Multiply cuts the product of the significands to the working layout.    *)
LEMMA ProductStands ==
  ASSUME WideTable,
         NEW v \in Values, v.e < ExpMax, ~ IsZero(v), NEW w \in Values, w.e < ExpMax, ~ IsZero(w),
         NEW c \in {0, 1}, NEW e, e = Unpack(v).exp + Unpack(w).exp - Bias + c,
         NEW p \in Nat, Unpack(v).sig = p * Guard, NEW q \in Nat, Unpack(w).sig = q * Guard,
         NEW S \in Nat, S >= 1, S * Guard = Pow2[FracBits + c],
         NEW num \in Nat, NEW den \in Nat, den >= 1,
         num * Pow2[Ref!LogOne] = (Ref!Mag(v) * Ref!Mag(w)) * den
  PROVE  /\ Scalable(e)
         /\ StandsFor(e, OrSticky((p * q) \div S, ((p * q) % S) # 0), num, den, Half)
<1>. DEFINE a == Unpack(v).exp
            b == Unpack(w).exp
            i == a - 1
            j == b - 1
            k == FracBits + c
            l == Ref!LogOne
            n == (i + (k - l)) + j
<1>1. a \in (1 - FracBits)..(ExpMax - 1) /\ b \in (1 - FracBits)..(ExpMax - 1)
  BY UnpackNormalises
<1>2. e = (a + b - Bias) + c /\ l = FracBits + Bias - 1
  BY SameFormat
<1>3. /\ Scalable(a) /\ Ref!Mag(v) \in Nat /\ Unpack(v).sig * Down(a) = Ref!Mag(v) * Up(a)
      /\ Scalable(b) /\ Ref!Mag(w) \in Nat /\ Unpack(w).sig * Down(b) = Ref!Mag(w) * Up(b)
      /\ num * Pow2[l] = (Ref!Mag(v) * Ref!Mag(w)) * den
  BY OperandMagnitude
<1>. HIDE DEF a, b, l
<1>4. /\ InTable(i) /\ InTable(j) /\ InTable(k) /\ InTable(l) /\ InTable(i + (k - l)) /\ InTable(n)
      /\ i \in Int /\ j \in Int /\ k \in Nat /\ l \in Nat /\ n = e - 1 /\ e \in Int /\ Scalable(e)
      /\ a \in Int /\ b \in Int
  BY <1>1, <1>2, Widths, Fields DEF InTable, Scalable, WideTable
<1>5. ((Under(i) * Under(j)) * Over(n)) * Pow2[l] = ((Over(i) * Over(j)) * Under(n)) * Pow2[k]
  <2>1. n = (i + (k - l)) + j
    OBVIOUS
  <2>. HIDE DEF n, i, j, k
  <2>. QED BY <1>4, <2>1, Balance
<1>6. /\ Up(a) = Guard * Under(i) /\ Down(a) = Over(i)
      /\ Up(b) = Guard * Under(j) /\ Down(b) = Over(j)
      /\ Up(e) = Guard * Under(n) /\ Down(e) = Over(n)
  BY <1>4, ScaleOf
<1>. DEFINE g == Guard
            ia == Under(i)
            ib == Under(j)
            oa == Over(i)
            ob == Over(j)
            ix == Under(n)
            ox == Over(n)
            pk == Pow2[k]
            pl == Pow2[l]
            M == Ref!Mag(v)
            N == Ref!Mag(w)
<1>9. /\ g \in Nat /\ g >= 1 /\ M \in Nat /\ N \in Nat
      /\ ia \in Nat /\ ia >= 1 /\ ib \in Nat /\ ib >= 1 /\ oa \in Nat /\ oa >= 1 /\ ob \in Nat /\ ob >= 1
      /\ ix \in Nat /\ ix >= 1 /\ ox \in Nat /\ ox >= 1
      /\ pk \in Nat /\ pl \in Nat /\ pl >= 1
  <2>1. k \in 0..MaxShift /\ l \in 0..MaxShift
    BY <1>4 DEF InTable
  <2>2. pk \in Nat /\ pl \in Nat /\ pl >= 1
    BY <2>1, Pow2Positive
  <2>3. g \in Nat /\ g >= 1
    BY GuardPowers
  <2>. QED BY <1>3, <1>4, <2>2, <2>3, OverUnder
<1>10. /\ ((ia * ib) * ox) * pl = ((oa * ob) * ix) * pk /\ S * g = pk
       /\ (p * g) * oa = M * (g * ia) /\ (q * g) * ob = N * (g * ib)
       /\ num * pl = (M * N) * den /\ Up(e) = g * ix /\ Down(e) = ox
  <2>1. ((ia * ib) * ox) * pl = ((oa * ob) * ix) * pk /\ S * g = pk
    BY <1>5
  <2>2. (p * g) * oa = M * (g * ia) /\ (q * g) * ob = N * (g * ib)
    BY <1>3, <1>6
  <2>3. num * pl = (M * N) * den /\ Up(e) = g * ix /\ Down(e) = ox
    BY <1>3, <1>6
  <2>. QED BY <2>1, <2>2, <2>3
<1>. HIDE DEF g, ia, ib, oa, ob, ix, ox, pk, pl, M, N
<1>11. ((pl * (g * ia)) * (g * ib)) * ox = (((S * g) * g) * (oa * ob)) * (g * ix)
  <2>1. ((pl * (g * ia)) * (g * ib)) * ox = (g * g) * (((ia * ib) * ox) * pl)
    BY <1>9, Z3
  <2>2. (((S * g) * g) * (oa * ob)) * (g * ix) = (g * g) * (((oa * ob) * ix) * (S * g))
    BY <1>9, Z3
  <2>. QED BY <1>10, <2>1, <2>2
<1>. DEFINE ua == g * ia
            ub == g * ib
            ux == g * ix
<1>12. /\ ua \in Nat /\ ub \in Nat /\ ux \in Nat /\ ux >= 1
       /\ (p * g) * oa = M * ua /\ (q * g) * ob = N * ub
       /\ ((pl * ua) * ub) * ox = (((S * g) * g) * (oa * ob)) * ux
  BY <1>9, <1>10, <1>11
<1>13. Up(e) = ux
  BY <1>10
<1>. HIDE DEF ua, ub, ux
<1>14. (p * q) * (den * ox) = (num * ux) * S
  BY <1>9, <1>10, <1>12, ProductCross
<1>. DEFINE X == p * q
            P == num * ux
            Q == den * ox
            sig == OrSticky(X \div S, (X % S) # 0)
<1>15. X \in Nat /\ P \in Int /\ Q \in Nat /\ Q >= 1 /\ X * Q = P * S
  BY <1>9, <1>12, <1>14
<1>. HIDE DEF P, Q, X
<1>16. Half \in Nat /\ \E h \in Nat : Half = 2 * h
  <2>1. PICK r \in Nat : Half = 4 * r
    BY GuardPowers
  <2>2. 2 * r \in Nat /\ Half = 2 * (2 * r)
    BY <2>1
  <2>. QED BY <2>2, GuardPowers
<1>17. Stands(sig, X, S, Half)
  <2>1. PICK h \in Nat : Half = 2 * h
    BY <1>16
  <2>. QED BY <1>15, <1>16, <2>1, CutStands
<1>. HIDE DEF sig
<1>18. Stands(sig, P, Q, Half)
  <2>1. X \in Int
    BY <1>15
  <2>. QED BY <1>15, <1>16, <1>17, <2>1, SameRatio
<1>19. StandsFor(e, sig, num, den, Half)
  BY <1>10, <1>13, <1>18 DEF StandsFor, P, Q
<1>. QED BY <1>4, <1>19 DEF sig, X

(* A quotient in units of a quarter of the guard bits, jammed.             *)
LEMMA QuotientCut ==
  ASSUME NEW x \in Nat, NEW d \in Nat, d >= 1, NEW W \in Nat, W >= 1
  PROVE  Stands(OrSticky((x \div d) * W, (x % d) # 0), x * W, d, 4 * W)
<1>. DEFINE c == x \div d
            lost == (x % d) # 0
<1>1. c \in Nat /\ lost \in BOOLEAN
  BY Split
<1>. SUFFICES ASSUME NEW y \in Int
              PROVE  /\ OrSticky(c * W, lost) < (4 * W) * y <=> x * W < ((4 * W) * y) * d
                     /\ OrSticky(c * W, lost) = (4 * W) * y <=> x * W = ((4 * W) * y) * d
  BY DEF Stands
<1>. DEFINE t == 4 * y
            z == (2 * W) * y
            k == t * d
            b == c * W
<1>2. /\ z \in Int /\ t \in Int /\ k \in Int /\ b \in Nat /\ (4 * W) * y = 2 * z
  BY <1>1
<1>3. (x \div d < t <=> x < t * d) /\ (x \div d = t /\ x % d = 0 <=> x = t * d)
  <2>. HIDE DEF t
  <2>. QED BY <1>2, QuotientSide
<1>4. (c < t <=> x < k) /\ (c = t /\ ~ lost <=> x = k)
  BY <1>3
<1>5. ((4 * W) * y) * d = k * W /\ 2 * z = t * W
  <2>1. 2 * ((2 * W) * y) = (4 * y) * W
    BY Z3
  <2>2. ((4 * W) * y) * d = ((4 * y) * d) * W
    BY Z3
  <2>. QED BY <2>1, <2>2
<1>. HIDE DEF c, lost, t, z, k, b
<1>6. /\ OrSticky(b, lost) < 2 * z <=> b < 2 * z
      /\ OrSticky(b, lost) = 2 * z <=> b = 2 * z /\ ~ lost
  BY <1>1, <1>2, StickySide
<1>7. (c * W < t * W <=> c < t) /\ (c * W = t * W <=> c = t)
  BY <1>1, <1>2
<1>8. (x * W < k * W <=> x < k) /\ (x * W = k * W <=> x = k)
  BY <1>2
<1>9. b = c * W
  BY DEF b
<1>. QED BY <1>2, <1>4, <1>5, <1>6, <1>7, <1>8, <1>9

LEMMA QuotientCross ==
  ASSUME NEW p \in Nat, NEW q \in Nat, NEW g \in Nat, NEW a \in Nat, NEW b \in Nat,
         NEW u \in Nat, NEW v \in Nat, NEW m \in Nat, NEW n \in Nat,
         NEW num \in Nat, NEW den \in Nat, NEW l \in Nat, NEW k \in Nat, NEW x \in Nat, NEW y \in Nat,
         a >= 1, n >= 1, v >= 1,
         (p * g) * a = m * (g * u), q * b = n * v, num * n = (m * l) * den,
         ((u * b) * y) * k = ((a * v) * x) * l
  PROVE  ((p * g) * k) * (den * y) = (num * (g * x)) * q
<1>. DEFINE r == a * (n * v)
            f == ((p * g) * k) * (den * y)
            e == (num * (g * x)) * q
<1>1. f * r = ((p * g) * a) * ((k * (den * y)) * (n * v))
  BY Z3
<1>2. (m * (g * u)) * ((k * (den * y)) * (q * b)) = ((m * g) * (den * q)) * (((u * b) * y) * k)
  BY Z3
<1>3. ((m * g) * (den * q)) * (((a * v) * x) * l) = ((m * l) * den) * (((g * x) * q) * (a * v))
  BY Z3
<1>4. (num * n) * (((g * x) * q) * (a * v)) = e * r
  BY Z3
<1>5. f * r = e * r
  BY <1>1, <1>2, <1>3, <1>4
<1>6. r \in Nat /\ r >= 1 /\ f \in Nat /\ e \in Nat
  <2>. DEFINE i == n * v
  <2>1. i \in Nat /\ i >= 1
    OBVIOUS
  <2>. HIDE DEF i
  <2>2. a * i \in Nat /\ a * i >= 1
    BY <2>1
  <2>. QED BY <2>2 DEF i
<1>. HIDE DEF r, f, e
<1>7. f = e
  BY <1>5, <1>6
<1>. QED BY <1>7 DEF f, e

(* Divide computes enough bits of the quotient and jams the rest.          *)
Quotes(v, w, c, e, p, q, R, W, num, den) ==
  /\ v \in Values /\ v.e < ExpMax /\ ~ IsZero(v)
  /\ w \in Values /\ w.e < ExpMax /\ ~ IsZero(w)
  /\ c \in {0, 1} /\ e = Unpack(v).exp - Unpack(w).exp + Bias - c
  /\ p \in Nat /\ Unpack(v).sig = p * Guard
  /\ q \in Nat /\ q >= 1 /\ Unpack(w).sig = q * Guard
  /\ R \in Nat /\ W \in Nat /\ W >= 1 /\ Half = 4 * W
  /\ R * W = (p * Guard) * Pow2[FracBits + c]
  /\ num \in Nat /\ den \in Nat /\ den >= 1
  /\ num * Ref!Mag(w) = (Ref!Mag(v) * Pow2[Ref!LogOne]) * den

LEMMA QuotientStands ==
  ASSUME WideTable, NEW v, NEW w, NEW c, NEW e, NEW p, NEW q, NEW R, NEW W, NEW num, NEW den,
         Quotes(v, w, c, e, p, q, R, W, num, den)
  PROVE  /\ Scalable(e)
         /\ StandsFor(e, OrSticky((R \div q) * W, (R % q) # 0), num, den, Half)
<1>. USE DEF Quotes
<1>. DEFINE a == Unpack(v).exp
            b == Unpack(w).exp
            i == a - 1
            h == b - 1
            j == -h
            k == Ref!LogOne
            l == FracBits + c
            n == (i + (k - l)) + j
<1>1. a \in (1 - FracBits)..(ExpMax - 1) /\ b \in (1 - FracBits)..(ExpMax - 1)
  BY UnpackNormalises
<1>2. e = (a - b) + (Bias - c) /\ k = FracBits + Bias - 1
  BY SameFormat
<1>3. /\ Scalable(a) /\ Ref!Mag(v) \in Nat /\ Unpack(v).sig * Down(a) = Ref!Mag(v) * Up(a)
      /\ Scalable(b) /\ Ref!Mag(w) \in Nat /\ Unpack(w).sig * Down(b) = Ref!Mag(w) * Up(b)
      /\ Ref!Mag(w) >= 1
      /\ num * Ref!Mag(w) = (Ref!Mag(v) * Pow2[k]) * den
  BY OperandMagnitude
<1>. HIDE DEF a, b, k
<1>4. /\ InTable(i) /\ InTable(j) /\ InTable(k) /\ InTable(l) /\ InTable(i + (k - l)) /\ InTable(n)
      /\ i \in Int /\ j \in Int /\ k \in Nat /\ l \in Nat /\ n = e - 1 /\ e \in Int /\ Scalable(e)
      /\ a \in Int /\ b \in Int /\ h \in Int /\ InTable(h)
  BY <1>1, <1>2, Widths, Fields DEF InTable, Scalable, WideTable
<1>5. ((Under(i) * Under(j)) * Over(n)) * Pow2[l] = ((Over(i) * Over(j)) * Under(n)) * Pow2[k]
  <2>1. n = (i + (k - l)) + j
    OBVIOUS
  <2>. HIDE DEF n, i, j, l
  <2>. QED BY <1>4, <2>1, Balance
<1>6. /\ Up(a) = Guard * Under(i) /\ Down(a) = Over(i)
      /\ Up(b) = Guard * Under(h) /\ Down(b) = Over(h)
      /\ Up(e) = Guard * Under(n) /\ Down(e) = Over(n)
  BY <1>4, ScaleOf
<1>7. Under(j) = Over(h) /\ Over(j) = Under(h)
  <2>1. h \in Int /\ j = -h
    BY <1>4
  <2>2. CASE h = 0
    <3>1. h <= 0 /\ h >= 0
      BY <2>2
    <3>2. j >= 0 /\ j <= 0 /\ j \in Int
      BY <2>1, <3>1
    <3>. HIDE DEF j
    <3>3. j = 0
      BY <3>2
    <3>. QED BY <2>2, <3>3, Pow2Step DEF Over, Under
  <2>3. CASE h # 0
    <3>. HIDE DEF j, h
    <3>1. (h >= 0 <=> ~ (j >= 0)) /\ -j = h
      BY <2>1, <2>3
    <3>. QED BY <2>1, <3>1 DEF Over, Under
  <2>. QED BY <2>2, <2>3
<1>. DEFINE g == Guard
            ia == Under(i)
            ib == Under(h)
            oa == Over(i)
            ob == Over(h)
            ix == Under(n)
            ox == Over(n)
            pk == Pow2[k]
            pl == Pow2[l]
            M == Ref!Mag(v)
            N == Ref!Mag(w)
<1>8. /\ g \in Nat /\ g >= 1 /\ M \in Nat /\ N \in Nat /\ N >= 1
      /\ ia \in Nat /\ ia >= 1 /\ ib \in Nat /\ ib >= 1 /\ oa \in Nat /\ oa >= 1 /\ ob \in Nat /\ ob >= 1
      /\ ix \in Nat /\ ix >= 1 /\ ox \in Nat /\ ox >= 1
      /\ pk \in Nat /\ pl \in Nat
  <2>1. k \in 0..MaxShift /\ l \in 0..MaxShift
    BY <1>4 DEF InTable
  <2>2. pk \in Nat /\ pl \in Nat
    BY <2>1, Pow2Positive
  <2>3. g \in Nat /\ g >= 1
    BY GuardPowers
  <2>. QED BY <1>3, <1>4, <2>2, <2>3, OverUnder
<1>9. /\ ((ia * ob) * ox) * pl = ((oa * ib) * ix) * pk /\ R * W = (p * g) * pl
      /\ (p * g) * oa = M * (g * ia) /\ (q * g) * ob = N * (g * ib)
      /\ num * N = (M * pk) * den /\ Up(e) = g * ix /\ Down(e) = ox
  <2>1. ((ia * ob) * ox) * pl = ((oa * ib) * ix) * pk /\ R * W = (p * g) * pl
    BY <1>5, <1>7
  <2>2. (p * g) * oa = M * (g * ia) /\ (q * g) * ob = N * (g * ib)
    BY <1>3, <1>6
  <2>3. num * N = (M * pk) * den /\ Up(e) = g * ix /\ Down(e) = ox
    BY <1>3, <1>6
  <2>. QED BY <2>1, <2>2, <2>3
<1>. HIDE DEF g, ia, ib, oa, ob, ix, ox, pk, pl, M, N
<1>10. q * ob = N * ib
  <2>. DEFINE f == q * ob
              r == N * ib
  <2>1. f \in Nat /\ r \in Nat
    BY <1>8
  <2>2. f * g = r * g
    <3>1. (q * ob) * g = (q * g) * ob /\ (N * ib) * g = N * (g * ib)
      BY <1>8, Z3
    <3>. QED BY <1>9, <3>1
  <2>. HIDE DEF f, r
  <2>3. f = r
    BY <1>8, <2>1, <2>2
  <2>. QED BY <2>3 DEF f, r
<1>11. ((p * g) * pl) * (den * ox) = (num * (g * ix)) * q
  BY <1>8, <1>9, <1>10, QuotientCross
<1>. DEFINE X == R * W
            P == num * (g * ix)
            Q == den * ox
            T == 4 * W
            sig == OrSticky((R \div q) * W, (R % q) # 0)
<1>12. X \in Int /\ P \in Int /\ Q \in Nat /\ Q >= 1 /\ X * Q = P * q
  <2>1. X = (p * g) * pl
    BY <1>9
  <2>2. X * Q = P * q
    BY <1>11, <2>1
  <2>3. X \in Int /\ P \in Int /\ Q \in Nat /\ Q >= 1
    BY <1>8
  <2>. QED BY <2>2, <2>3
<1>13. Stands(sig, X, q, T) /\ T \in Nat
  <2>1. Stands(sig, X, q, T)
    BY QuotientCut, Zenon
  <2>. QED BY <2>1
<1>. HIDE DEF P, Q, X, T, sig
<1>14. Stands(sig, P, Q, T)
  BY <1>12, <1>13, SameRatio
<1>15. StandsFor(e, sig, num, den, Half)
  <2>1. T = Half
    BY DEF T
  <2>. QED BY <1>9, <1>14, <2>1 DEF StandsFor, P, Q
<1>. QED BY <1>4, <1>15 DEF sig

---------------------------------------------------------------------------
(* The round-to-nearest-even copies of internal_arith.h.                   *)
LEMMA SameHelpers ==
  /\ Rne!ExpMax = ExpMax /\ Rne!ImplicitBit = ImplicitBit /\ Rne!Bias = Bias
  /\ Rne!ImplicitAt = ImplicitAt /\ Rne!WordBits = WordBits /\ Rne!CanonicalNaN = CanonicalNaN
  /\ \A s : Rne!SignedZero(s) = SignedZero(s) /\ Rne!SignedInf(s) = SignedInf(s)
  /\ \A x, lost : Rne!OrSticky(x, lost) = OrSticky(x, lost)
  /\ \A x, n : Rne!BitSet(x, n) <=> BitSet(x, n)
  /\ \A x : Rne!Clz(x) = Clz(x)
BY Zenon DEF Rne!ExpMax, ExpMax, Rne!ImplicitBit, ImplicitBit, Rne!Bias, Bias,
       Rne!ImplicitAt, ImplicitAt, Rne!WordBits, WordBits, Rne!CanonicalNaN, CanonicalNaN,
       Rne!QuietNaNBit, QuietNaNBit, Rne!SignedZero, SignedZero, Rne!SignedInf, SignedInf,
       Rne!OrSticky, OrSticky, Rne!BitSet, BitSet, Rne!Clz, Clz

LEMMA SameJamming ==
  ASSUME NEW x, NEW n
  PROVE  Rne!ShiftRightJamming(x, n) = ShiftRightJamming(x, n)
BY Zenon DEF Rne!ShiftRightJamming, ShiftRightJamming, Rne!OrSticky, OrSticky,
       Rne!WordBits, WordBits

LEMMA CopiedClasses ==
  ASSUME NEW v
  PROVE  /\ Rne!IsNaN(v) <=> IsNaN(v)
         /\ Rne!IsSNaN(v) <=> IsSNaN(v)
         /\ Rne!IsInf(v) <=> IsInf(v)
         /\ Rne!IsZero(v) <=> IsZero(v)
         /\ Rne!Quiet(v) = Quiet(v) /\ Rne!Neg(v) = Neg(v)
BY SameHelpers, Zenon DEF Rne!IsNaN, Rne!IsSNaN, Rne!IsInf, Rne!IsZero, Rne!Quiet, Rne!Neg,
       IsNaN, IsSNaN, IsInf, IsZero, Quiet, Neg, Rne!QuietNaNBit, QuietNaNBit

(* The copy takes a value apart like the original.                         *)
LEMMA CopiedUnpack ==
  ASSUME NEW v \in Values, v.e < ExpMax, ~ IsZero(v)
  PROVE  Rne!Unpack(v) = Unpack(v)
<1>1. /\ v.e \in Nat /\ v.f \in Nat /\ v.f < ImplicitBit /\ ImplicitBit \in Nat
      /\ ImplicitBit = Pow2[FracBits]
  BY Fields DEF Values
<1>2. CASE v.e # 0
  <2>1. ImplicitBit + v.f = v.f + ImplicitBit
    BY <1>1
  <2>. QED BY <1>2, <2>1, SameHelpers, Zenon DEF Rne!Unpack, Unpack
<1>3. CASE v.e = 0
  <2>. DEFINE n == NormaliseShift(v.f)
              m == Clz(v.f) - (WordBits - 1 - FracBits)
  <2>1. v.f > 0 /\ v.f < Pow2[FracBits]
    BY <1>1, <1>3 DEF IsZero
  <2>2. PICK h \in 0..(FracBits - 1) : n = FracBits - h
    BY <1>1, <2>1, SubnormalHighest
  <2>3. m = n
    BY DEF NormaliseShift
  <2>4. Rne!Unpack(v) = [exp |-> 1 - m, sig |-> v.f * Pow2[m + GuardBits]]
    BY <1>3, SameHelpers, Zenon DEF Rne!Unpack
  <2>5. Unpack(v) = [exp |-> 1 - n, sig |-> v.f * Pow2[n] * Pow2[GuardBits]]
    BY <1>3, Zenon DEF Unpack
  <2>. HIDE DEF n, m
  <2>6. n \in Nat /\ GuardBits \in Nat /\ n + GuardBits <= MaxShift
        /\ n \in 0..MaxShift /\ GuardBits \in 0..MaxShift
    BY <2>2, Widths
  <2>7. Pow2[n + GuardBits] = Pow2[n] * Pow2[GuardBits]
    BY <2>6, Pow2Sum
  <2>8. Pow2[n] \in Nat /\ Pow2[GuardBits] \in Nat
    BY <2>6, Pow2Positive
  <2>9. v.f * Pow2[n + GuardBits] = v.f * Pow2[n] * Pow2[GuardBits]
    <3>. DEFINE x == Pow2[n]
                y == Pow2[GuardBits]
                f == v.f
    <3>1. x \in Nat /\ y \in Nat /\ f \in Nat /\ Pow2[n + GuardBits] = x * y
      BY <1>1, <2>7, <2>8
    <3>. HIDE DEF x, y, f
    <3>2. f * (x * y) = (f * x) * y
      BY <3>1
    <3>. QED BY <3>1, <3>2 DEF x, y, f
  <2>. QED BY <2>3, <2>4, <2>5, <2>9
<1>. QED BY <1>2, <1>3

(* It rounds like the original in that mode.                               *)
LEMMA CopiedRounded ==
  ASSUME NEW s \in {0, 1}, NEW sig \in Nat
  PROVE  Rne!RoundedRne(sig, sig % Pow2[GuardBits]) = Rounded(s, sig, "RNE")
<1>. DEFINE r == Rest(sig)
<1>1. /\ r \in Nat /\ Half \in Nat /\ (Lsb(sig) <=> Units(sig) % 2 = 1)
  BY Parts, GuardPowers
<1>2. Rounded(s, sig, "RNE") = (IF SigUp(s, sig, "RNE") THEN sig + Guard ELSE sig)
  BY RoundsUp DEF Modes
<1>3. SigUp(s, sig, "RNE") <=> r > Half \/ (r = Half /\ Lsb(sig))
  <2>1. SigUp(s, sig, "RNE") <=> Half <= r /\ (~ (r = Half) \/ Units(sig) % 2 = 1)
    BY DEF SigUp, Upwards
  <2>. HIDE DEF r
  <2>. QED BY <1>1, <2>1
<1>4. Rne!RoundedRne(sig, r) = (IF r > Half \/ (r = Half /\ Lsb(sig)) THEN sig + Guard ELSE sig)
  BY SameHelpers, Zenon DEF Rne!RoundedRne, Half, Guard, Lsb
<1>5. r = sig % Pow2[GuardBits]
  BY DEF Rest, Guard
<1>. QED BY <1>2, <1>3, <1>4, <1>5

LEMMA CopiedPack ==
  ASSUME NEW s \in {0, 1}, NEW e \in Nat, NEW sig \in Nat, NEW tiny \in BOOLEAN, tiny <=> e = 0
  PROVE  Rne!ScaledRne(s, e, sig, tiny) = Pack(s, e, sig, "RNE")
<1>. DEFINE r == Rounded(s, sig, "RNE")
            carry == BitSet(r, ImplicitAt + 1)
            below == sig % Pow2[GuardBits]
            flags == IF below = 0 THEN {}
                     ELSE IF tiny THEN {"underflow", "inexact"} ELSE {"inexact"}
            fe == IF ~ Inexact(sig) THEN {}
                  ELSE {"inexact"} \cup (IF e = 0 THEN {"underflow"} ELSE {})
            FieldOf(x, y) == IF x = 0 THEN (IF BitSet(y, ImplicitAt) THEN 1 ELSE 0)
                          ELSE IF ~ BitSet(y, ImplicitAt) /\ Fraction(y) = 0 THEN 0 ELSE x
            Packed(x, y) == [s |-> s, e |-> FieldOf(x, y), f |-> Fraction(y)]
            j == ShiftRightJamming(r, 1)
            o == [res |-> SignedInf(s), fe |-> {"overflow", "inexact"}]
<1>1. Rne!ScaledRne(s, e, sig, tiny) = Rne!RoundRne(s, e, below, r, tiny)
  BY CopiedRounded DEF Rne!ScaledRne
<1>2. \A x, y, f : Rne!CarriedRne(s, x, y, f) = [res |-> Packed(x, y), fe |-> f]
  BY SameHelpers, Zenon
     DEF Rne!CarriedRne, Rne!PackRne, Rne!FieldRne, Rne!Outcome, Fraction
<1>3. Rne!OverflowRne(s) = o
  BY SameHelpers DEF Rne!OverflowRne, Rne!Outcome
<1>4. Overflow(s, "RNE") = o
  BY DEF Overflow, OverflowResult
<1>5. flags = fe
  <2>1. Inexact(sig) <=> below # 0
    BY Parts DEF Rest, Guard
  <2>. QED BY <2>1
<1>6. /\ ~ carry => Rne!RoundRne(s, e, below, r, tiny) = [res |-> Packed(e, r), fe |-> flags]
      /\ carry /\ e + 1 >= ExpMax => Rne!RoundRne(s, e, below, r, tiny) = o
      /\ carry /\ ~ (e + 1 >= ExpMax) =>
           Rne!RoundRne(s, e, below, r, tiny) = [res |-> Packed(e + 1, j), fe |-> flags]
  <2>1. Rne!ShiftRightJamming(r, 1) = j
    BY SameJamming
  <2>2. Rne!BitSet(r, Rne!ImplicitAt + 1) <=> carry
    BY SameHelpers
  <2>3. Rne!ExpMax = ExpMax
    BY SameHelpers
  <2>. HIDE DEF r, carry, j, below, o, Packed
  <2>4. CASE ~ carry
    <3>1. Rne!RoundRne(s, e, below, r, tiny) = Rne!CarriedRne(s, e, r, flags)
      BY <2>2, <2>4, Zenon DEF Rne!RoundRne
    <3>. HIDE DEF flags
    <3>2. Rne!RoundRne(s, e, below, r, tiny) = [res |-> Packed(e, r), fe |-> flags]
      BY <1>2, <3>1, Zenon
    <3>. QED BY <2>4, <3>2
  <2>5. CASE carry /\ e + 1 >= ExpMax
    <3>1. Rne!RoundRne(s, e, below, r, tiny) = Rne!OverflowRne(s)
      BY <2>2, <2>3, <2>5, Zenon DEF Rne!RoundRne
    <3>. QED BY <1>3, <2>5, <3>1
  <2>6. CASE carry /\ ~ (e + 1 >= ExpMax)
    <3>1. Rne!RoundRne(s, e, below, r, tiny) = Rne!CarriedRne(s, e + 1, j, flags)
      BY <2>1, <2>2, <2>3, <2>6, Zenon DEF Rne!RoundRne
    <3>. HIDE DEF flags
    <3>2. Rne!RoundRne(s, e, below, r, tiny) = [res |-> Packed(e + 1, j), fe |-> flags]
      BY <1>2, <3>1, Zenon
    <3>. QED BY <2>6, <3>2
  <2>. QED BY <2>4, <2>5, <2>6
<1>7. /\ ~ carry => Pack(s, e, sig, "RNE") = [res |-> Packed(e, r), fe |-> fe]
      /\ carry /\ e + 1 >= ExpMax => Pack(s, e, sig, "RNE") = o
      /\ carry /\ ~ (e + 1 >= ExpMax) =>
           Pack(s, e, sig, "RNE") = [res |-> Packed(e + 1, j), fe |-> fe]
  <2>. HIDE DEF o
  <2>1. CASE carry
    BY <1>4, <2>1, Zenon DEF Pack
  <2>2. CASE ~ carry
    BY <1>4, <2>2, Zenon DEF Pack
  <2>. QED BY <2>1, <2>2
<1>. QED BY <1>1, <1>5, <1>6, <1>7

LEMMA CopiedRoundAndPack ==
  ASSUME NEW s \in {0, 1}, NEW exp \in Int, NEW sig \in Nat, sig < Pow2[ImplicitAt + 1]
  PROVE  Rne!RoundAndPackRne(s, exp, sig) = RoundAndPack(s, exp, sig, "RNE")
<1>1. ExpMax \in Nat /\ ExpMax >= 3 /\ Rne!ExpMax = ExpMax
  BY Fields, SameHelpers
<1>2. CASE exp >= ExpMax
  <2>1. Rne!RoundAndPackRne(s, exp, sig) = [res |-> SignedInf(s), fe |-> {"overflow", "inexact"}]
    BY <1>1, <1>2, SameHelpers DEF Rne!RoundAndPackRne, Rne!OverflowRne, Rne!Outcome
  <2>2. RoundAndPack(s, exp, sig, "RNE") = Overflow(s, "RNE")
    BY <1>2 DEF RoundAndPack
  <2>. QED BY <2>1, <2>2 DEF Overflow, OverflowResult
<1>3. CASE ~ (exp >= ExpMax) /\ exp <= 0
  <2>. DEFINE j == ShiftRightJamming(sig, 1 - exp)
  <2>1. Rne!RoundAndPackRne(s, exp, sig) = Rne!ScaledRne(s, 0, j, TRUE)
    BY <1>1, <1>3, SameJamming, Zenon DEF Rne!RoundAndPackRne
  <2>2. RoundAndPack(s, exp, sig, "RNE") = Pack(s, 0, j, "RNE")
    BY <1>3, Zenon DEF RoundAndPack
  <2>3. j \in Nat
    <3>1. 1 - exp \in Nat /\ ImplicitAt + 1 \in 1..WordBits
      BY <1>3, Widths
    <3>. QED BY <3>1, JamBound
  <2>. HIDE DEF j
  <2>4. Rne!ScaledRne(s, 0, j, TRUE) = Pack(s, 0, j, "RNE")
    BY <2>3, CopiedPack
  <2>. QED BY <2>1, <2>2, <2>4
<1>4. CASE ~ (exp >= ExpMax) /\ ~ (exp <= 0)
  <2>1. Rne!RoundAndPackRne(s, exp, sig) = Rne!ScaledRne(s, exp, sig, FALSE)
    BY <1>1, <1>4, Zenon DEF Rne!RoundAndPackRne
  <2>2. RoundAndPack(s, exp, sig, "RNE") = Pack(s, exp, sig, "RNE")
    BY <1>4, Zenon DEF RoundAndPack
  <2>3. exp \in Nat /\ ~ (exp = 0)
    BY <1>4
  <2>4. Rne!ScaledRne(s, exp, sig, FALSE) = Pack(s, exp, sig, "RNE")
    BY <2>3, CopiedPack
  <2>. QED BY <2>1, <2>2, <2>4
<1>. QED BY <1>2, <1>3, <1>4

---------------------------------------------------------------------------
(* Rounding by the bit below the last place and the bits below that one.   *)
(* A number cut between two multiples of 2H: the bit of weight H, and      *)
(* whether anything below it is set.                                       *)
LEMMA CutAtHalf ==
  ASSUME NEW x \in Nat, NEW H \in Nat, H >= 1
  PROVE  \E m \in Nat, r \in Nat :
           /\ m = x \div (2 * H) /\ r < 2 * H /\ x = m * (2 * H) + r
           /\ (x \div H) % 2 = 1 <=> H <= r
           /\ (x % H) # 0 <=> r # 0 /\ r # H
<1>. DEFINE G == 2 * H
            m == x \div G
            r == x % G
<1>1. G \in Nat /\ G >= 1 /\ G = 2 * H
  OBVIOUS
<1>2. m \in Nat /\ r \in Nat /\ r < G /\ x = m * G + r /\ m = x \div (2 * H)
  <2>. HIDE DEF G
  <2>1. /\ x \div G \in Nat /\ x % G \in Nat /\ x % G < G
        /\ x = (x \div G) * G + (x % G)
    BY <1>1, Split
  <2>. QED BY <1>1, <2>1
<1>. HIDE DEF G, m, r
<1>3. ASSUME r < H
      PROVE  ~ ((x \div H) % 2 = 1) /\ ((x % H) # 0 <=> r # 0)
  <2>1. x = (2 * m) * H + r /\ 2 * m \in Nat
    <3>1. m * (2 * H) = (2 * m) * H
      BY <1>2, Z3
    <3>. QED BY <1>1, <1>2, <3>1
  <2>2. x \div H = 2 * m /\ x % H = r
    <3>1. r \in Nat /\ r < H /\ 2 * m \in Nat
      BY <1>2, <1>3, <2>1
    <3>. DEFINE j == 2 * m
    <3>. HIDE DEF j
    <3>2. j \in Nat /\ x = j * H + r
      BY <2>1 DEF j
    <3>3. x \div H = j /\ x % H = r
      BY <3>1, <3>2, Join
    <3>. QED BY <3>3 DEF j
  <2>3. (2 * m) % 2 = 0
    BY <1>2
  <2>. QED BY <2>2, <2>3
<1>4. ASSUME H <= r
      PROVE  (x \div H) % 2 = 1 /\ ((x % H) # 0 <=> r # H)
  <2>1. x = (2 * m + 1) * H + (r - H)
    <3>1. m * (2 * H) = (2 * m) * H /\ (2 * m + 1) * H = (2 * m) * H + H /\ (2 * m) * H \in Nat
      BY <1>2, Z3
    <3>. QED BY <1>1, <1>2, <3>1
  <2>2. 2 * m + 1 \in Nat /\ r - H \in Nat /\ r - H < H
    BY <1>1, <1>2, <1>4
  <2>3. x \div H = 2 * m + 1 /\ x % H = r - H
    BY <2>1, <2>2, Join
  <2>4. (2 * m + 1) % 2 = 1
    BY <1>2
  <2>5. r - H # 0 <=> r # H
    BY <1>2
  <2>. QED BY <2>3, <2>4, <2>5
<1>5. /\ (x \div H) % 2 = 1 <=> H <= r
      /\ (x % H) # 0 <=> r # 0 /\ r # H
  <2>1. r < H => r # H /\ ~ (H <= r)
    BY <1>2
  <2>2. H <= r => r # 0
    BY <1>2
  <2>3. r < H \/ H <= r
    BY <1>2
  <2>. QED BY <1>3, <1>4, <2>1, <2>2, <2>3
<1>6. r < 2 * H /\ x = m * (2 * H) + r
  BY <1>1, <1>2
<1>. QED BY <1>2, <1>5, <1>6

(* ShouldRoundUp takes the direction the exact number asks for.            *)
LEMMA SameDirection ==
  ASSUME NEW s \in {0, 1}, NEW md \in Modes, NEW m,
         NEW bit \in BOOLEAN, NEW sticky \in BOOLEAN,
         NEW lost \in BOOLEAN, NEW half \in BOOLEAN, NEW tie \in BOOLEAN,
         (bit \/ sticky) <=> lost, bit <=> half, sticky => ~ tie, bit /\ ~ sticky => tie
  PROVE  ShouldRoundUp(s, bit, sticky, m % 2 = 1, md) <=> Upwards(s, m, lost, half, tie, md)
<1>1. md = "RNE" \/ md = "RTZ" \/ md = "RUP" \/ md = "RDN" \/ md = "RNA"
  BY DEF Modes
<1>2. CASE md = "RTZ"
  BY <1>2 DEF ShouldRoundUp, Upwards
<1>3. CASE md = "RUP"
  BY <1>3 DEF ShouldRoundUp, Upwards
<1>4. CASE md = "RDN"
  BY <1>4 DEF ShouldRoundUp, Upwards
<1>5. CASE md = "RNA"
  BY <1>5 DEF ShouldRoundUp, Upwards
<1>6. CASE md = "RNE"
  BY <1>6 DEF ShouldRoundUp, Upwards
<1>. QED BY <1>1, <1>2, <1>3, <1>4, <1>5, <1>6

(* The integer next to num / den in the direction of the mode, when        *)
(* num / den is at least n and less than n + 1.                            *)
LEMMA NearestAt ==
  ASSUME NEW s \in {0, 1}, NEW mode \in Modes, NEW n \in Nat,
         NEW num \in Nat, NEW den \in Nat, n * den <= num, num < (n + 1) * den
  PROVE  /\ Ref!NearestInteger(s, num, den, mode) =
              (IF Upwards(s, n, num # n * den, 2 * num >= (2 * n + 1) * den,
                          2 * num = (2 * n + 1) * den, mode)
               THEN n + 1 ELSE n)
         /\ num % den = 0 <=> num = n * den
<1>. DEFINE X == n * den
            rest == num - X
            lost == num # n * den
            half == 2 * num >= (2 * n + 1) * den
            tie == 2 * num = (2 * n + 1) * den
<1>1. X \in Nat /\ (n + 1) * den = X + den /\ (2 * n + 1) * den = 2 * X + den
  <2>1. n * den \in Nat /\ (n + 1) * den = n * den + den /\ (2 * n + 1) * den = 2 * (n * den) + den
    BY Z3
  <2>. QED BY <2>1
<1>2. /\ rest \in Nat /\ rest < den /\ num = n * den + rest
      /\ lost <=> rest # 0
      /\ half <=> 2 * rest >= den
      /\ tie <=> 2 * rest = den
  <2>1. X <= num /\ num < X + den
    BY <1>1
  <2>2. (lost <=> num # X) /\ (half <=> 2 * num >= 2 * X + den) /\ (tie <=> 2 * num = 2 * X + den)
    BY <1>1
  <2>3. X = n * den
    OBVIOUS
  <2>. HIDE DEF X, lost, half, tie
  <2>. QED BY <1>1, <2>1, <2>2, <2>3
<1>3. num \div den = n /\ num % den = rest
  <2>. HIDE DEF rest, X, lost, half, tie
  <2>1. (n * den + rest) \div den = n /\ (n * den + rest) % den = rest
    BY <1>2, Join
  <2>. QED BY <1>2, <2>1
<1>4. Ref!NearestInteger(s, num, den, mode) =
        IF (CASE mode = "RTZ" -> FALSE
              [] mode = "RUP" -> rest > 0 /\ s = 0
              [] mode = "RDN" -> rest > 0 /\ s = 1
              [] mode = "RNA" -> 2 * rest >= den
              [] mode = "RNE" -> 2 * rest > den \/ (2 * rest = den /\ n % 2 = 1))
        THEN n + 1 ELSE n
  <2>. HIDE DEF rest
  <2>. QED BY <1>3, Zenon DEF Ref!NearestInteger
<1>5. /\ rest > 0 <=> lost
      /\ 2 * rest > den <=> half /\ ~ tie
      /\ lost \in BOOLEAN /\ half \in BOOLEAN /\ tie \in BOOLEAN
  <2>1. lost \in BOOLEAN /\ half \in BOOLEAN /\ tie \in BOOLEAN
    OBVIOUS
  <2>. HIDE DEF rest, lost, half, tie
  <2>. QED BY <1>2, <2>1
<1>6. mode = "RNE" \/ mode = "RTZ" \/ mode = "RUP" \/ mode = "RDN" \/ mode = "RNA"
  BY DEF Modes
<1>7. Ref!NearestInteger(s, num, den, mode) = (IF Upwards(s, n, lost, half, tie, mode) THEN n + 1 ELSE n)
  <2>. DEFINE odd == n % 2 = 1
              above == 2 * rest > den
              some == rest > 0
  <2>1. /\ some <=> lost
        /\ above <=> half /\ ~ tie
        /\ 2 * rest >= den <=> half
        /\ 2 * rest = den <=> tie
        /\ tie => half
    <3>1. 2 * rest = den => 2 * rest >= den
      BY <1>2
    <3>. QED BY <1>2, <1>5, <3>1
  <2>2. Ref!NearestInteger(s, num, den, mode) =
        IF (CASE mode = "RTZ" -> FALSE
              [] mode = "RUP" -> some /\ s = 0
              [] mode = "RDN" -> some /\ s = 1
              [] mode = "RNA" -> 2 * rest >= den
              [] mode = "RNE" -> above \/ (2 * rest = den /\ odd))
        THEN n + 1 ELSE n
    BY <1>4
  <2>3. Upwards(s, n, lost, half, tie, mode) =
          CASE mode = "RTZ" -> FALSE
            [] mode = "RUP" -> s = 0 /\ lost
            [] mode = "RDN" -> s = 1 /\ lost
            [] mode = "RNA" -> half
            [] mode = "RNE" -> half /\ (~ tie \/ odd)
    BY Zenon DEF Upwards
  <2>4. odd \in BOOLEAN /\ above \in BOOLEAN /\ some \in BOOLEAN
    OBVIOUS
  <2>. HIDE DEF rest, lost, half, tie, odd, above, some
  <2>5. CASE mode = "RTZ"
    BY <2>1, <2>2, <2>3, <2>5
  <2>6. CASE mode = "RUP"
    BY <2>1, <2>2, <2>3, <2>6
  <2>7. CASE mode = "RDN"
    BY <2>1, <2>2, <2>3, <2>7
  <2>8. CASE mode = "RNA"
    BY <2>1, <2>2, <2>3, <2>8
  <2>9. CASE mode = "RNE"
    BY <2>1, <2>2, <2>3, <2>9
  <2>. QED BY <1>6, <2>5, <2>6, <2>7, <2>8, <2>9
<1>8. num % den = 0 <=> num = n * den
  <2>. HIDE DEF rest
  <2>1. rest = 0 <=> num = n * den
    BY <1>2 DEF lost
  <2>. QED BY <1>3, <2>1
<1>. QED BY <1>7, <1>8

(* The fields of a neighbour.                                              *)
Flags(e, m, lost) ==
  IF ~ lost THEN {}
  ELSE {"inexact"} \cup (IF e = 1 /\ m < ImplicitBit THEN {"underflow"} ELSE {})

LEMMA NeighbourFields ==
  ASSUME NEW s, NEW e \in 1..(ExpMax - 1), NEW m \in Nat, m < 2 * ImplicitBit,
         e = 1 \/ ImplicitBit <= m, NEW up \in BOOLEAN, NEW lost, NEW mode,
         NEW n, n = (IF up THEN m + 1 ELSE m)
  PROVE  /\ n < ImplicitBit =>
              Neighbour(s, e, m, up, lost, mode) =
                [res |-> [s |-> s, e |-> 0, f |-> n], fe |-> Flags(e, m, lost)]
         /\ ImplicitBit <= n /\ n < 2 * ImplicitBit =>
              Neighbour(s, e, m, up, lost, mode) =
                [res |-> [s |-> s, e |-> e, f |-> n - ImplicitBit], fe |-> Flags(e, m, lost)]
         /\ n = 2 * ImplicitBit =>
              Neighbour(s, e, m, up, lost, mode) =
                IF e + 1 = ExpMax THEN Overflow(s, mode)
                ELSE [res |-> [s |-> s, e |-> e + 1, f |-> 0], fe |-> Flags(e, m, lost)]
<1>. DEFINE I == ImplicitBit
            i == IndexOf(e, n)
            inf == ExpMax * ImplicitBit
<1>1. I \in Nat /\ I >= 4 /\ ExpMax \in Nat /\ ExpMax >= 3 /\ e \in Nat /\ e >= 1 /\ e + 1 <= ExpMax
  BY GuardPowers, Fields
<1>2. n \in Nat /\ n <= 2 * I /\ (n = 2 * I => up) /\ (e = 1 \/ I <= n)
  <2>. HIDE DEF I
  <2>. QED BY <1>1 DEF I
<1>3. Neighbour(s, e, m, up, lost, mode) =
        IF up /\ i = inf THEN Overflow(s, mode)
        ELSE [res |-> [s |-> s, e |-> i \div I, f |-> i % I], fe |-> Flags(e, m, lost)]
  <2>1. i = IndexOf(e, IF up THEN m + 1 ELSE m)
    OBVIOUS
  <2>. HIDE DEF i
  <2>. QED BY <2>1, Zenon DEF Neighbour, Flags, I, inf
<1>4. i = (e - 1) * I + n
  BY DEF IndexOf
<1>. HIDE DEF I, i, inf
<1>5. (e - 1) * I \in Nat /\ e * I = (e - 1) * I + I /\ (e + 1) * I = (e - 1) * I + 2 * I
      /\ e * I \in Nat /\ (e + 1) * I \in Nat
  BY <1>1, Z3
<1>6. ASSUME n < I
      PROVE  i \div I = 0 /\ i % I = n /\ i # inf
  <2>1. e = 1
    BY <1>1, <1>2, <1>6
  <2>2. i = 0 * I + n
    BY <1>1, <1>2, <1>4, <2>1
  <2>3. (0 * I + n) \div I = 0 /\ (0 * I + n) % I = n
    BY <1>1, <1>2, <1>6, Join
  <2>4. I <= inf
    BY <1>1 DEF inf, I
  <2>5. inf \in Nat
    BY <1>1 DEF inf, I
  <2>. QED BY <1>1, <1>2, <1>6, <2>2, <2>3, <2>4, <2>5
<1>7. ASSUME I <= n, n < 2 * I
      PROVE  i \div I = e /\ i % I = n - I /\ i # inf
  <2>. DEFINE r == n - I
  <2>1. r \in Nat /\ r < I /\ i = e * I + r
    BY <1>1, <1>2, <1>4, <1>5, <1>7
  <2>. HIDE DEF r
  <2>2. (e * I + r) \div I = e /\ (e * I + r) % I = r
    BY <1>1, <2>1, Join
  <2>3. i < (e + 1) * I
    BY <1>1, <1>5, <2>1
  <2>4. (e + 1) * I <= ExpMax * I /\ ExpMax * I \in Nat
    BY <1>1, Z3
  <2>5. i # inf
    BY <1>5, <2>1, <2>3, <2>4 DEF inf, I
  <2>. QED BY <2>1, <2>2, <2>5 DEF r
<1>8. ASSUME n = 2 * I
      PROVE  i \div I = e + 1 /\ i % I = 0 /\ (i = inf <=> e + 1 = ExpMax)
  <2>. DEFINE k == e + 1
  <2>1. k \in Nat /\ i = k * I + 0
    BY <1>1, <1>4, <1>5, <1>8
  <2>2. k * I = ExpMax * I <=> k = ExpMax
    <3>. HIDE DEF k
    <3>1. k < ExpMax => k * I < ExpMax * I
      BY <1>1, <2>1, Z3
    <3>2. k > ExpMax => k * I > ExpMax * I
      BY <1>1, <2>1, Z3
    <3>3. k * I \in Nat /\ ExpMax * I \in Nat
      BY <1>1, <2>1
    <3>. QED BY <1>1, <2>1, <3>1, <3>2, <3>3
  <2>. HIDE DEF k
  <2>3. (k * I + 0) \div I = k /\ (k * I + 0) % I = 0
    BY <1>1, <2>1, Join
  <2>4. k * I + 0 = k * I
    BY <1>1, <2>1
  <2>5. i = inf <=> k = ExpMax
    BY <2>1, <2>2, <2>4 DEF inf, I
  <2>. QED BY <2>1, <2>3, <2>5 DEF k
<1>9. n < I \/ (I <= n /\ n < 2 * I) \/ n = 2 * I
  BY <1>1, <1>2
<1>10. n < I => Neighbour(s, e, m, up, lost, mode) =
                  [res |-> [s |-> s, e |-> 0, f |-> n], fe |-> Flags(e, m, lost)]
  BY <1>3, <1>6
<1>11. I <= n /\ n < 2 * I =>
         Neighbour(s, e, m, up, lost, mode) =
           [res |-> [s |-> s, e |-> e, f |-> n - I], fe |-> Flags(e, m, lost)]
  BY <1>3, <1>7
<1>12. n = 2 * I => Neighbour(s, e, m, up, lost, mode) =
                      IF e + 1 = ExpMax THEN Overflow(s, mode)
                      ELSE [res |-> [s |-> s, e |-> e + 1, f |-> 0], fe |-> Flags(e, m, lost)]
  BY <1>2, <1>3, <1>8
<1>. QED BY <1>10, <1>11, <1>12 DEF I

(* num lies at or after the m-th multiple of D and before the next, lost   *)
(* says whether it is after, up whether the mode takes the next.           *)
CutAt(s, m, num, D, up, lost, md) ==
  /\ m \in Nat /\ num \in Nat /\ D \in Nat /\ D >= 1
  /\ m * D <= num /\ num < (m + 1) * D
  /\ up \in BOOLEAN /\ lost \in BOOLEAN
  /\ lost <=> num # m * D
  /\ up <=> Upwards(s, m, num # m * D, 2 * num >= (2 * m + 1) * D,
                    2 * num = (2 * m + 1) * D, md)

(* The integer next to num / D.                                            *)
LEMMA NearestCut ==
  ASSUME NEW s \in {0, 1}, NEW md \in Modes, NEW m, NEW num, NEW D, NEW up, NEW ls,
         CutAt(s, m, num, D, up, ls, md)
  PROVE  /\ Ref!NearestInteger(s, num, D, md) = (IF up THEN m + 1 ELSE m)
         /\ num % D = 0 <=> ~ ls
<1>1. /\ m \in Nat /\ num \in Nat /\ D \in Nat
      /\ m * D <= num /\ num < (m + 1) * D
      /\ ls <=> num # m * D
      /\ up <=> Upwards(s, m, num # m * D, 2 * num >= (2 * m + 1) * D,
                        2 * num = (2 * m + 1) * D, md)
  BY DEF CutAt
<1>2. /\ Ref!NearestInteger(s, num, D, md) =
           (IF Upwards(s, m, num # m * D, 2 * num >= (2 * m + 1) * D,
                       2 * num = (2 * m + 1) * D, md)
            THEN m + 1 ELSE m)
      /\ num % D = 0 <=> num = m * D
  BY <1>1, NearestAt
<1>. QED BY <1>1, <1>2, Zenon

(* Rounding to the format where the number is cut at its unit.             *)
LEMMA RoundCut ==
  ASSUME NEW s \in {0, 1}, NEW md \in Modes, NEW m, NEW num, NEW D, NEW up, NEW ls,
         CutAt(s, m, num, D, up, ls, md),
         NEW e \in 1..(ExpMax - 1), m < 2 * ImplicitBit, e = 1 \/ ImplicitBit <= m,
         NEW den \in Nat, den >= 1, D = Unit(e) * den
  PROVE  Ref!Round(s, num, den, md) = Neighbour(s, e, m, up, ls, md)
<1>1. /\ m \in Nat /\ num \in Nat /\ D \in Nat
      /\ m * D <= num /\ num < (m + 1) * D
      /\ ls <=> num # m * D
      /\ up <=> Upwards(s, m, num # m * D, 2 * num >= (2 * m + 1) * D,
                        2 * num = (2 * m + 1) * D, md)
      /\ up \in BOOLEAN /\ ls \in BOOLEAN
  BY DEF CutAt
<1>2. Ref!Round(s, num, den, md) =
        Neighbour(s, e, m,
                  Upwards(s, m, num # m * D, 2 * num >= (2 * m + 1) * D,
                          2 * num = (2 * m + 1) * D, md),
                  num # m * D, md)
  BY <1>1, RoundAt
<1>. QED BY <1>1, <1>2, Zenon DEF Neighbour

(* A number below a power of two, shifted to the left or to the right.     *)
LEMMA ShiftedBelow ==
  ASSUME NEW mag \in Nat, NEW h \in Nat, h <= MaxShift, mag < Pow2[h],
         NEW k \in Nat, NEW top \in Nat, top <= MaxShift, h + k <= top
  PROVE  mag * Pow2[k] \in Nat /\ mag * Pow2[k] < Pow2[top] /\ mag <= mag * Pow2[k]
<1>1. h + k \in Nat /\ h + k <= MaxShift /\ h \in 0..MaxShift /\ k \in 0..MaxShift
      /\ h + k \in 0..MaxShift /\ top \in 0..MaxShift
  BY Widths
<1>2. Pow2[h + k] = Pow2[h] * Pow2[k] /\ Pow2[h + k] <= Pow2[top]
  BY <1>1, Pow2Sum, Pow2Monotone
<1>3. Pow2[h] \in Nat /\ Pow2[k] \in Nat /\ Pow2[k] >= 1 /\ Pow2[top] \in Nat /\ Pow2[h + k] \in Nat
  BY <1>1, Pow2Positive
<1>4. mag * Pow2[k] \in Nat /\ mag * Pow2[k] < Pow2[h] * Pow2[k]
  BY <1>3
<1>5. mag <= mag * Pow2[k]
  <2>1. mag * 1 <= mag * Pow2[k]
    BY <1>3
  <2>. QED BY <1>4, <2>1
<1>. DEFINE y == mag * Pow2[k]
<1>6. y \in Nat /\ y < Pow2[h + k] /\ mag <= y
  BY <1>2, <1>4, <1>5
<1>. HIDE DEF y
<1>7. y < Pow2[top]
  BY <1>2, <1>3, <1>6
<1>. QED BY <1>6, <1>7 DEF y

LEMMA QuotientBelow ==
  ASSUME NEW mag \in Nat, NEW h \in Nat, h <= MaxShift, mag < Pow2[h],
         NEW k \in Nat, k <= MaxShift, NEW top \in Nat, top <= MaxShift, h - k <= top
  PROVE  mag \div Pow2[k] \in Nat /\ mag \div Pow2[k] < Pow2[top]
<1>. DEFINE P == Pow2[k]
            y == mag \div P
<1>1. P \in Nat /\ P >= 1 /\ Pow2[h] \in Nat /\ Pow2[top] \in Nat /\ Pow2[top] >= 1
  <2>1. k \in 0..MaxShift /\ h \in 0..MaxShift /\ top \in 0..MaxShift
    BY Widths
  <2>. QED BY <2>1, Pow2Positive
<1>2. y \in Nat /\ mag = P * y + (mag % P) /\ mag % P \in 0..(P - 1)
  <2>. HIDE DEF P
  <2>. QED BY <1>1
<1>3. CASE h <= k
  <2>1. mag < P
    <3>1. Pow2[h] <= P
      BY <1>3, Pow2Monotone
    <3>. QED BY <1>1, <3>1
  <2>2. y = 0
    <3>. HIDE DEF P
    <3>. QED BY <1>1, <2>1
  <2>. QED BY <1>1, <2>2
<1>4. CASE k <= h
  <2>. DEFINE j == h - k
              Q == Pow2[j]
  <2>1. j \in Nat /\ j + k = h /\ j <= top /\ j \in 0..MaxShift /\ j + k <= MaxShift
    BY <1>4, Widths
  <2>2. Pow2[j + k] = Q * P
    BY <2>1, Pow2Sum
  <2>3. Q \in Nat /\ Q <= Pow2[top]
    BY <2>1, Pow2Positive, Pow2Monotone
  <2>4. mag < Q * P
    BY <2>1, <2>2
  <2>5. y < Q
    <3>. HIDE DEF Q, P
    <3>1. SUFFICES ASSUME Q <= y PROVE FALSE
      BY <1>2, <2>3
    <3>2. Q * P <= y * P /\ y * P = P * y /\ y * P \in Nat /\ Q * P \in Nat
      BY <1>1, <1>2, <2>3, <3>1
    <3>. HIDE DEF y
    <3>3. P * y <= mag
      BY <1>1, <1>2, <3>2
    <3>. QED BY <2>4, <3>2, <3>3
  <2>. HIDE DEF Q, y
  <2>. QED BY <1>1, <1>2, <2>3, <2>5
<1>. QED BY <1>3, <1>4

---------------------------------------------------------------------------
(* What a frame stands for.  Bit 0 of a frame has the weight 2^k units of  *)
(* the least subnormal number, so mag stands for num / den units when      *)
(* mag * 2^k * den = num.                                                  *)
LEMMA WeightGrows ==
  ASSUME NEW j, NEW k, InTable(j), InTable(k), j <= k
  PROVE  Over(j) * Under(k) <= Under(j) * Over(k)
<1>1. j \in Int /\ k \in Int /\ j <= MaxShift /\ -j <= MaxShift /\ k <= MaxShift /\ -k <= MaxShift
      /\ MaxShift \in Nat
  BY Widths DEF InTable
<1>2. Over(j) \in Nat /\ Over(k) \in Nat /\ Under(j) \in Nat /\ Under(k) \in Nat
      /\ Over(j) >= 1 /\ Over(k) >= 1 /\ Under(j) >= 1 /\ Under(k) >= 1
  BY OverUnder
<1>3. CASE j >= 0
  <2>1. j \in Nat /\ k \in Nat /\ Pow2[j] <= Pow2[k]
    BY <1>1, <1>3, Pow2Monotone
  <2>2. Over(j) = Pow2[j] /\ Over(k) = Pow2[k] /\ Under(j) = 1 /\ Under(k) = 1
    BY <1>1, <1>3 DEF Over, Under
  <2>. QED BY <1>2, <2>1, <2>2
<1>4. CASE j < 0 /\ k >= 0
  <2>1. Over(j) = 1 /\ Under(k) = 1
    BY <1>1, <1>4 DEF Over, Under
  <2>. DEFINE u == Under(j)
              o == Over(k)
  <2>2. u \in Nat /\ o \in Nat /\ u >= 1 /\ o >= 1
    BY <1>2
  <2>. HIDE DEF u, o
  <2>3. u * 1 <= u * o
    BY <2>2
  <2>4. 1 <= u * o
    BY <2>2, <2>3
  <2>. QED BY <2>1, <2>4 DEF u, o
<1>5. CASE k < 0
  <2>. DEFINE m == -k
              n == -j
  <2>1. m \in Nat /\ n \in Nat /\ m <= n /\ n <= MaxShift
    BY <1>1, <1>5
  <2>. HIDE DEF m, n
  <2>2. Pow2[m] <= Pow2[n]
    BY <2>1, Pow2Monotone
  <2>3. Over(j) = 1 /\ Over(k) = 1 /\ Under(j) = Pow2[n] /\ Under(k) = Pow2[m]
    BY <1>1, <1>5 DEF Over, Under, m, n
  <2>. QED BY <1>2, <2>2, <2>3
<1>. QED BY <1>1, <1>3, <1>4, <1>5

(* x times 2^k is num / den.                                               *)
Weighs(x, k, num, den) ==
  /\ x \in Nat /\ InTable(k) /\ num \in Nat /\ den \in Nat /\ den >= 1
  /\ x * (den * Over(k)) = num * Under(k)

(* The same number in a finer frame, in a coarser one, and far below one.  *)
LEMMA FinerFrame ==
  ASSUME NEW x, NEW k, NEW num, NEW den, Weighs(x, k, num, den),
         NEW n \in Nat, InTable(n), NEW f, InTable(f), k = f + n
  PROVE  /\ Pow2[n] \in Nat /\ Pow2[n] >= 1
         /\ Weighs(x * Pow2[n], f, num, den)
<1>. DEFINE ok == Over(k)
            uk == Under(k)
            of == Over(f)
            uf == Under(f)
            p == Pow2[n]
<1>1. x \in Nat /\ num \in Nat /\ den \in Nat /\ den >= 1 /\ InTable(k) /\ x * (den * ok) = num * uk
  BY DEF Weighs
<1>2. /\ ok \in Nat /\ uk \in Nat /\ uk >= 1 /\ of \in Nat /\ uf \in Nat
  BY <1>1, OverUnder
<1>3. p \in Nat /\ p >= 1
  <2>1. n \in 0..MaxShift
    BY Widths DEF InTable
  <2>. QED BY <2>1, Pow2Positive
<1>4. (of * p) * uk = uf * ok
  <2>1. InTable(f + n) /\ f \in Int
    BY <1>1 DEF InTable
  <2>2. (Over(f) * Pow2[n]) * Under(f + n) = Under(f) * Over(f + n)
    BY <2>1, OverSum
  <2>. QED BY <2>2
<1>. HIDE DEF ok, uk, of, uf, p
<1>5. ((x * p) * (den * of)) * uk = (x * den) * ((of * p) * uk)
  BY <1>1, <1>2, <1>3, Z3
<1>6. (x * den) * (uf * ok) = (x * (den * ok)) * uf
  BY <1>1, <1>2, Z3
<1>7. (num * uk) * uf = (num * uf) * uk
  BY <1>1, <1>2, Z3
<1>. DEFINE y == (x * p) * (den * of)
            w == num * uf
<1>8. y * uk = w * uk
  BY <1>1, <1>4, <1>5, <1>6, <1>7
<1>9. y \in Nat /\ w \in Nat /\ x * p \in Nat
  BY <1>1, <1>2, <1>3
<1>. HIDE DEF y, w
<1>10. y = w
  BY <1>2, <1>8, <1>9
<1>. QED BY <1>1, <1>3, <1>9, <1>10 DEF y, w, p, of, uf, Weighs

LEMMA CoarserFrame ==
  ASSUME NEW x, NEW k, NEW num, NEW den, Weighs(x, k, num, den),
         NEW n \in Nat, InTable(n), NEW f, InTable(f), f = k + n
  PROVE  /\ Pow2[n] \in Nat /\ Pow2[n] >= 1
         /\ x * (den * Over(f)) = (num * Under(f)) * Pow2[n]
<1>. DEFINE ok == Over(k)
            uk == Under(k)
            of == Over(f)
            uf == Under(f)
            p == Pow2[n]
<1>1. x \in Nat /\ num \in Nat /\ den \in Nat /\ InTable(k) /\ x * (den * ok) = num * uk
  BY DEF Weighs
<1>2. /\ ok \in Nat /\ uk \in Nat /\ uk >= 1 /\ of \in Nat /\ uf \in Nat
  BY <1>1, OverUnder
<1>3. p \in Nat /\ p >= 1
  <2>1. n \in 0..MaxShift
    BY Widths DEF InTable
  <2>. QED BY <2>1, Pow2Positive
<1>4. (ok * p) * uf = uk * of
  <2>1. InTable(k + n) /\ k \in Int
    BY <1>1 DEF InTable
  <2>2. (Over(k) * Pow2[n]) * Under(k + n) = Under(k) * Over(k + n)
    BY <1>1, <2>1, OverSum
  <2>. QED BY <2>2
<1>. HIDE DEF ok, uk, of, uf, p
<1>5. (x * (den * of)) * uk = (x * den) * (uk * of)
  BY <1>1, <1>2, Z3
<1>6. (x * den) * ((ok * p) * uf) = (x * (den * ok)) * (p * uf)
  BY <1>1, <1>2, <1>3, Z3
<1>7. (num * uk) * (p * uf) = ((num * uf) * p) * uk
  BY <1>1, <1>2, <1>3, Z3
<1>. DEFINE y == x * (den * of)
            w == (num * uf) * p
<1>8. y * uk = w * uk
  BY <1>1, <1>4, <1>5, <1>6, <1>7
<1>9. y \in Nat /\ w \in Nat
  BY <1>1, <1>2, <1>3
<1>. HIDE DEF y, w
<1>10. y = w
  BY <1>2, <1>8, <1>9
<1>. QED BY <1>3, <1>10 DEF y, w, p, of, uf

LEMMA BelowFrame ==
  ASSUME NEW x, NEW k, NEW num, NEW den, Weighs(x, k, num, den),
         NEW n \in Nat, InTable(n), x < Pow2[n], NEW f, InTable(f), k + n <= f, x >= 1
  PROVE  num * Under(f) \in Nat /\ num * Under(f) >= 1 /\ num * Under(f) < den * Over(f)
<1>. DEFINE g == f - n
            ok == Over(k)
            uk == Under(k)
            of == Over(f)
            uf == Under(f)
            og == Over(g)
            ug == Under(g)
            p == Pow2[n]
<1>1. x \in Nat /\ num \in Nat /\ den \in Nat /\ den >= 1 /\ InTable(k) /\ x * (den * ok) = num * uk
  BY DEF Weighs
<1>2. g \in Int /\ InTable(g) /\ k <= g /\ g + n = f
  BY <1>1, Widths DEF InTable
<1>. HIDE DEF g
<1>3. /\ ok \in Nat /\ ok >= 1 /\ uk \in Nat /\ uk >= 1 /\ of \in Nat /\ uf \in Nat /\ uf >= 1
      /\ og \in Nat /\ og >= 1 /\ ug \in Nat /\ ug >= 1
  BY <1>1, <1>2, OverUnder
<1>4. p \in Nat /\ p >= 1 /\ x < p
  <2>1. n \in 0..MaxShift
    BY Widths DEF InTable
  <2>. QED BY <2>1, Pow2Positive
<1>5. (og * p) * uf = ug * of
  <2>1. (Over(g) * Pow2[n]) * Under(g + n) = Under(g) * Over(g + n)
    BY <1>2, OverSum
  <2>. QED BY <1>2, <2>1
<1>6. ok * ug <= uk * og
  BY <1>1, <1>2, WeightGrows
<1>. HIDE DEF ok, uk, of, uf, og, ug, p
<1>. DEFINE l == (x * den) * uf
            m == (p * den) * uf
            u == ok * ug
            v == uk * og
<1>7. l \in Nat /\ m \in Nat /\ u \in Nat /\ v \in Nat /\ v >= 1 /\ u <= v
  <2>1. uk * og >= 1 * 1
    BY <1>3
  <2>. QED BY <1>1, <1>3, <1>4, <1>6, <2>1
<1>8. l < m
  <2>. DEFINE e == den * uf
  <2>1. e \in Nat /\ e >= 1
    <3>1. den * uf >= 1 * 1
      BY <1>1, <1>3
    <3>. QED BY <1>1, <1>3, <3>1
  <2>2. l = x * e /\ m = p * e
    BY <1>1, <1>3, <1>4
  <2>. HIDE DEF e, l, m
  <2>3. x * e < p * e
    BY <1>1, <1>4, <2>1
  <2>. QED BY <2>2, <2>3
<1>9. (num * uf) * (uk * ug) = l * u
  <2>1. (num * uf) * (uk * ug) = (num * uk) * (uf * ug)
    BY <1>1, <1>3, Z3
  <2>2. (x * (den * ok)) * (uf * ug) = l * u
    BY <1>1, <1>3, Z3
  <2>. QED BY <1>1, <2>1, <2>2
<1>10. (den * of) * (uk * ug) = m * v
  <2>1. (den * of) * (uk * ug) = (den * uk) * (ug * of)
    BY <1>1, <1>3, Z3
  <2>2. (den * uk) * ((og * p) * uf) = m * v
    BY <1>1, <1>3, <1>4, Z3
  <2>. QED BY <1>5, <2>1, <2>2
<1>11. l * u < m * v
  <2>. HIDE DEF l, m, u, v
  <2>1. l * u <= l * v
    BY <1>7
  <2>2. l * v < m * v
    BY <1>7, <1>8
  <2>. QED BY <1>7, <2>1, <2>2
<1>. DEFINE y == num * uf
            t == den * of
            w == uk * ug
<1>12. y \in Nat /\ t \in Nat /\ w \in Nat /\ y * w < t * w
  BY <1>1, <1>3, <1>9, <1>10, <1>11
<1>13. y >= 1
  <2>. DEFINE o == den * ok
  <2>1. o \in Nat /\ o >= 1
    <3>1. den * ok >= 1 * 1
      BY <1>1, <1>3
    <3>. QED BY <1>1, <1>3, <3>1
  <2>2. x * o = num * uk
    BY <1>1
  <2>. HIDE DEF o
  <2>3. x * o >= 1 * 1
    BY <1>1, <2>1
  <2>4. num # 0
    <3>1. 0 * uk = 0
      BY <1>3
    <3>. QED BY <2>2, <2>3, <3>1
  <2>5. num * uf >= 1 * 1
    BY <1>1, <1>3, <2>4
  <2>. QED BY <2>5
<1>. HIDE DEF y, t, w
<1>14. y < t
  <2>1. t <= y => t * w <= y * w
    BY <1>12
  <2>. QED BY <1>12, <2>1
<1>. QED BY <1>12, <1>13, <1>14 DEF y, t, of, uf

---------------------------------------------------------------------------
(* The factors, the exact product and the addend, in units.                *)
LEMMA WeighsTimes ==
  ASSUME NEW x, NEW k, NEW num, NEW den, Weighs(x, k, num, den), NEW d \in Nat, d >= 1
  PROVE  Weighs(x, k, num * d, den * d)
<1>. DEFINE o == Over(k)
            u == Under(k)
<1>1. x \in Nat /\ num \in Nat /\ den \in Nat /\ den >= 1 /\ InTable(k) /\ x * (den * o) = num * u
  BY DEF Weighs
<1>2. o \in Nat /\ u \in Nat
  BY <1>1, OverUnder
<1>. HIDE DEF o, u
<1>3. x * ((den * d) * o) = (x * (den * o)) * d /\ (num * u) * d = (num * d) * u
  BY <1>1, <1>2, Z3
<1>4. den * d >= 1 * 1 /\ den * d \in Nat /\ num * d \in Nat
  BY <1>1
<1>5. x * ((den * d) * o) = (num * d) * u
  BY <1>1, <1>3
<1>. QED BY <1>1, <1>4, <1>5 DEF o, u, Weighs

(* The sum and the differences of an exact even number and one that stands *)
(* for another.                                                            *)
EvenAndExact(p, P, Q) ==
  /\ p \in Nat /\ P \in Nat /\ Q \in Nat /\ Q >= 1
  /\ p * Q = P /\ \E y \in Nat : p = 2 * y

LEMMA SumStands ==
  ASSUME NEW p \in Nat, NEW q \in Nat, NEW P \in Nat, NEW R \in Nat, NEW Q \in Nat,
         EvenAndExact(p, P, Q), Stands(q, R, Q, 2)
  PROVE  /\ Stands(p + q, P + R, Q, 2)
         /\ Stands(p - q, P - R, Q, 2)
         /\ Stands(q - p, R - P, Q, 2)
         /\ p = q <=> P = R
         /\ p > q <=> P > R
<1>. PICK y \in Nat : p = 2 * y
  BY DEF EvenAndExact
<1>0. p \in Nat /\ P \in Nat /\ Q \in Nat /\ Q >= 1 /\ p * Q = P
  BY DEF EvenAndExact
<1>1. P = (2 * y) * Q
  BY <1>0
<1>2. ASSUME NEW x \in Int
      PROVE  /\ q < 2 * x <=> R < (2 * x) * Q
             /\ q = 2 * x <=> R = (2 * x) * Q
  BY <1>2 DEF Stands
<1>3. Stands(p + q, P + R, Q, 2)
  <2>. SUFFICES ASSUME NEW x \in Int
                PROVE  /\ p + q < 2 * x <=> P + R < (2 * x) * Q
                       /\ p + q = 2 * x <=> P + R = (2 * x) * Q
    BY DEF Stands
  <2>1. x - y \in Int
    OBVIOUS
  <2>2. /\ q < 2 * (x - y) <=> R < (2 * (x - y)) * Q
        /\ q = 2 * (x - y) <=> R = (2 * (x - y)) * Q
    BY <1>2, <2>1
  <2>3. (2 * (x - y)) * Q = (2 * x) * Q - (2 * y) * Q /\ (2 * x) * Q \in Int
    BY <1>0, Z3
  <2>4. p + q < 2 * x <=> q < 2 * (x - y)
    BY <1>0
  <2>5. p + q = 2 * x <=> q = 2 * (x - y)
    BY <1>0
  <2>. DEFINE m == (2 * x) * Q
              n == (2 * (x - y)) * Q
  <2>6. m \in Int /\ n = m - P
    BY <1>0, <1>1, <2>3
  <2>. HIDE DEF m, n
  <2>. QED BY <1>0, <2>2, <2>4, <2>5, <2>6 DEF m, n
<1>4. Stands(q - p, R - P, Q, 2)
  <2>. SUFFICES ASSUME NEW x \in Int
                PROVE  /\ q - p < 2 * x <=> R - P < (2 * x) * Q
                       /\ q - p = 2 * x <=> R - P = (2 * x) * Q
    BY DEF Stands
  <2>1. x + y \in Int
    OBVIOUS
  <2>2. /\ q < 2 * (x + y) <=> R < (2 * (x + y)) * Q
        /\ q = 2 * (x + y) <=> R = (2 * (x + y)) * Q
    BY <1>2, <2>1
  <2>3. (2 * (x + y)) * Q = (2 * x) * Q + (2 * y) * Q /\ (2 * x) * Q \in Int
    BY <1>0, Z3
  <2>4. q - p < 2 * x <=> q < 2 * (x + y)
    BY <1>0
  <2>5. q - p = 2 * x <=> q = 2 * (x + y)
    BY <1>0
  <2>. DEFINE m == (2 * x) * Q
              n == (2 * (x + y)) * Q
  <2>6. m \in Int /\ n = m + P
    BY <1>0, <1>1, <2>3
  <2>. HIDE DEF m, n
  <2>. QED BY <1>0, <2>2, <2>4, <2>5, <2>6 DEF m, n
<1>5. Stands(p - q, P - R, Q, 2)
  <2>. SUFFICES ASSUME NEW x \in Int
                PROVE  /\ p - q < 2 * x <=> P - R < (2 * x) * Q
                       /\ p - q = 2 * x <=> P - R = (2 * x) * Q
    BY DEF Stands
  <2>1. y - x \in Int
    OBVIOUS
  <2>2. /\ q < 2 * (y - x) <=> R < (2 * (y - x)) * Q
        /\ q = 2 * (y - x) <=> R = (2 * (y - x)) * Q
    BY <1>2, <2>1
  <2>3. (2 * (y - x)) * Q = (2 * y) * Q - (2 * x) * Q /\ (2 * x) * Q \in Int
    BY <1>0, Z3
  <2>4. p - q < 2 * x <=> ~ (q < 2 * (y - x)) /\ ~ (q = 2 * (y - x))
    BY <1>0
  <2>5. p - q = 2 * x <=> q = 2 * (y - x)
    BY <1>0
  <2>. DEFINE m == (2 * x) * Q
              n == (2 * (y - x)) * Q
  <2>6. m \in Int /\ n = P - m
    BY <1>0, <1>1, <2>3
  <2>. HIDE DEF m, n
  <2>. QED BY <1>0, <2>2, <2>4, <2>5, <2>6 DEF m, n
<1>6. (p = q <=> P = R) /\ (p > q <=> P > R)
  <2>1. /\ q < 2 * y <=> R < (2 * y) * Q
        /\ q = 2 * y <=> R = (2 * y) * Q
    BY <1>2
  <2>. QED BY <1>0, <1>1, <2>1
<1>. QED BY <1>3, <1>4, <1>5, <1>6

---------------------------------------------------------------------------
(* Correct rounding.  The result and the next larger value of the format   *)
(* enclose the root; which of them is nearer shows in the lowest digit and *)
(* the remainder.                                                          *)
LEMMA SquareOrder ==
  ASSUME NEW p \in Nat, NEW q \in Nat
  PROVE  /\ p <= q => p * p <= q * q
         /\ p < q => p * p < q * q
<1>1. ASSUME p <= q PROVE p * p <= q * q
  <2>1. p * p <= p * q /\ p * q <= q * q /\ p * p \in Nat /\ p * q \in Nat /\ q * q \in Nat
    BY <1>1
  <2>. QED BY <2>1
<1>2. ASSUME p < q PROVE p * p < q * q
  <2>1. p * p <= p * q /\ p * q < q * q /\ p * p \in Nat /\ p * q \in Nat /\ q * q \in Nat
    BY <1>2
  <2>. QED BY <2>1
<1>. QED BY <1>1, <1>2

(* The index the reference looks for is the only one of its kind.          *)
LEMMA RootFloorFound ==
  ASSUME NEW i \in 0..(ExpMax * ImplicitBit - 1), NEW square \in Nat,
         Ref!Magnitude[i] < Ref!RootLimit,
         Ref!Magnitude[i] * Ref!Magnitude[i] <= square,
         square < Ref!Magnitude[i + 1] * Ref!Magnitude[i + 1]
  PROVE  Ref!RootFloorIndex(square) = i
<1>. DEFINE Inf == ExpMax * ImplicitBit
            M(j) == Ref!Magnitude[j]
            Floor(j) == /\ M(j) < Ref!RootLimit
                        /\ M(j) * M(j) <= square
                        /\ square < M(j + 1) * M(j + 1)
<1>1. Inf \in Nat /\ Inf >= 12
  <2>1. ImplicitBit \in Nat /\ ImplicitBit >= 4 /\ ExpMax \in Nat /\ ExpMax >= 3
    BY GuardPowers, Fields
  <2>2. 3 * 4 <= ExpMax * ImplicitBit
    BY <2>1
  <2>. QED BY <2>1, <2>2
<1>2. ASSUME NEW j \in 0..(Inf - 1), NEW h \in 0..(Inf - 1), j < h,
             M(j) * M(j) <= square, square < M(j + 1) * M(j + 1), M(h) * M(h) <= square
      PROVE  FALSE
  <2>1. j + 1 \in 0..Inf /\ h \in 0..Inf /\ j + 1 <= h /\ j \in 0..Inf
    <3>. HIDE DEF Inf
    <3>. QED BY <1>1, <1>2
  <2>2. M(j + 1) \in Nat /\ M(h) \in Nat /\ M(j + 1) <= M(h)
    <3>1. CASE j + 1 < h
      BY <2>1, <3>1, Climbs
    <3>2. CASE j + 1 = h
      <4>1. j < j + 1 /\ M(j + 1) \in Nat
        <5>1. j < j + 1
          BY <2>1
        <5>. QED BY <2>1, <5>1, Climbs
      <4>. QED BY <3>2, <4>1
    <3>. QED BY <2>1, <3>1, <3>2
  <2>. HIDE DEF M
  <2>. DEFINE p == M(j + 1)
              q == M(h)
  <2>3. p * p <= q * q /\ p * p \in Nat /\ q * q \in Nat
    BY <2>2, SquareOrder
  <2>. QED BY <1>2, <2>3
<1>3. ASSUME NEW j \in 0..(Inf - 1), Floor(j) PROVE j = i
  <2>1. ~ (j < i)
    BY <1>2, <1>3
  <2>2. ~ (i < j)
    BY <1>2, <1>3
  <2>3. i \in Nat /\ j \in Nat
    OBVIOUS
  <2>. QED BY <2>1, <2>2, <2>3
<1>4. Floor(i)
  OBVIOUS
<1>5. i = CHOOSE j \in 0..(Inf - 1) : Floor(j)
  <2>. HIDE DEF Floor
  <2>. QED BY <1>3, <1>4
<1>6. Ref!RootFloorIndex(square) = CHOOSE j \in 0..(Inf - 1) : Floor(j)
  BY SameFormat, Zenon DEF Ref!RootFloorIndex
<1>. QED BY <1>5, <1>6

(* A root m followed by the digit g, and a remainder: which side of m, of  *)
(* m + 1 / 2 and of m + 1 the radicand R is on.  It is a multiple of four, *)
(* so that it is not in the middle.                                        *)
LEMMA LastDigit ==
  ASSUME NEW m \in Nat, NEW g \in {0, 1}, NEW r \in Nat, NEW q, q = 2 * m + g, r <= 2 * q,
         NEW R \in Nat, R = q * q + r, NEW y \in Nat, R = 4 * y,
         NEW V \in Nat, V >= 1, NEW S \in Nat, 4 * S = R * V
  PROVE  /\ (m * m) * V <= S
         /\ S < ((m + 1) * (m + 1)) * V
         /\ (m * m) * V = S <=> g = 0 /\ r = 0
         /\ 4 * S > ((2 * m + 1) * (2 * m + 1)) * V <=> g = 1 /\ r # 0
         /\ g = 1 => r # 0
<1>. DEFINE mm == m * m
            lo == 4 * mm
            mid == 4 * mm + 4 * m + 1
            hi == 4 * mm + 8 * m + 4
<1>1. /\ mm \in Nat /\ (m + 1) * (m + 1) = mm + 2 * m + 1
      /\ (2 * m + 1) * (2 * m + 1) = mid
  OBVIOUS
<1>2. /\ g = 0 => R = lo + r /\ r <= 4 * m
      /\ g = 1 => R = mid + r /\ r <= 4 * m + 2
  <2>1. CASE g = 0
    <3>1. q * q = lo /\ 2 * q = 4 * m
      BY <2>1
    <3>. QED BY <2>1, <3>1
  <2>2. CASE g = 1
    <3>1. q * q = mid /\ 2 * q = 4 * m + 2
      BY <2>2
    <3>. QED BY <2>2, <3>1
  <2>. QED BY <2>1, <2>2
<1>. HIDE DEF mm
<1>3. /\ lo <= R /\ R < hi /\ (R = lo <=> g = 0 /\ r = 0) /\ R # mid
      /\ (R > mid <=> g = 1 /\ r # 0) /\ (g = 1 => r # 0)
  BY <1>1, <1>2
<1>4. lo \in Nat /\ mid \in Nat /\ hi \in Nat
  BY <1>1
<1>5. ASSUME NEW h \in Nat
      PROVE  /\ h <= R <=> h * V <= R * V
             /\ h = R <=> h * V = R * V
             /\ h < R <=> h * V < R * V
             /\ R < h <=> R * V < h * V
  <2>1. h * V \in Nat /\ R * V \in Nat
    OBVIOUS
  <2>2. h < R => h * V < R * V
    OBVIOUS
  <2>3. R < h => R * V < h * V
    OBVIOUS
  <2>. DEFINE hV == h * V
              rV == R * V
  <2>4. h = R => hV = rV
    OBVIOUS
  <2>5. h < R \/ h = R \/ R < h
    OBVIOUS
  <2>6. (h < R => hV < rV) /\ (R < h => rV < hV)
    BY <2>2, <2>3
  <2>7. hV \in Nat /\ rV \in Nat
    BY <2>1
  <2>. HIDE DEF hV, rV
  <2>8. /\ h <= R <=> hV <= rV
        /\ h = R <=> hV = rV
        /\ h < R <=> hV < rV
        /\ R < h <=> rV < hV
    BY <2>4, <2>5, <2>6, <2>7
  <2>. QED BY <2>8 DEF hV, rV
<1>6. /\ lo * V = 4 * (mm * V) /\ hi * V = 4 * ((mm + 2 * m + 1) * V)
      /\ mm * V \in Nat /\ (mm + 2 * m + 1) * V \in Nat
  BY <1>1
<1>. DEFINE aV == mm * V
            bV == (mm + 2 * m + 1) * V
            mV == mid * V
            rV == R * V
<1>7. /\ lo <= R <=> 4 * aV <= rV
      /\ R = lo <=> 4 * aV = rV
      /\ R > mid <=> mV < rV
      /\ R < hi <=> rV < 4 * bV
  <2>1. /\ lo <= R <=> lo * V <= R * V
        /\ lo = R <=> lo * V = R * V
    BY <1>4, <1>5
  <2>2. mid < R <=> mid * V < R * V
    BY <1>4, <1>5
  <2>3. R < hi <=> R * V < hi * V
    BY <1>4, <1>5
  <2>4. R > mid <=> mid < R
    BY <1>4
  <2>. HIDE DEF lo, mid, hi
  <2>. QED BY <1>6, <2>1, <2>2, <2>3, <2>4
<1>8. aV \in Nat /\ bV \in Nat /\ mV \in Nat /\ rV \in Nat /\ 4 * S = rV
  BY <1>4, <1>6
<1>. HIDE DEF lo, mid, hi, aV, bV, mV, rV
<1>9. /\ aV <= S /\ S < bV /\ (aV = S <=> g = 0 /\ r = 0) /\ (4 * S > mV <=> g = 1 /\ r # 0)
  BY <1>3, <1>7, <1>8
<1>. QED BY <1>1, <1>3, <1>9 DEF mm, aV, bV, mV

---------------------------------------------------------------------------
(* Facts for any width: ratios and their neighbours, roots, flags, signs.  *)
LEMMA SmallPowers ==
  /\ Pow2[0] = 1 /\ Pow2[1] = 2 /\ Pow2[2] = 4
<1>1. 0 + 1 <= MaxShift /\ 1 + 1 <= MaxShift /\ 0 \in Nat /\ 1 \in Nat
  BY Widths
<1>2. Pow2[0 + 1] = 2 * Pow2[0] /\ Pow2[1 + 1] = 2 * Pow2[1]
  BY <1>1, Pow2Step
<1>. QED BY <1>2, Pow2Step

(* Two more bits of a number.                                              *)
LEMMA TwoBits ==
  ASSUME NEW x \in Nat, NEW n \in Nat, n + 2 <= MaxShift
  PROVE  /\ x \div Pow2[n + 2] \in Nat /\ x \div Pow2[n] \in Nat
         /\ (x \div Pow2[n]) % 4 \in 0..3
         /\ x \div Pow2[n] = 4 * (x \div Pow2[n + 2]) + ((x \div Pow2[n]) % 4)
<1>1. n \in 0..MaxShift /\ n + 2 \in 0..MaxShift
  BY Widths
<1>2. Pow2[n] \in Nat /\ Pow2[n] >= 1 /\ Pow2[n + 2] = 4 * Pow2[n]
  <2>1. Pow2[n + 2] = Pow2[n] * Pow2[2]
    BY Pow2Sum
  <2>. QED BY <1>1, <2>1, SmallPowers, Pow2Positive
<1>. DEFINE P == Pow2[n]
            y == x \div P
            u == y \div 4
            v == y % 4
            w == x % P
<1>3. P \in Nat /\ P >= 1
  BY <1>2
<1>4. y \in Nat /\ w \in 0..(P - 1) /\ x = P * y + w
  <2>. HIDE DEF P
  <2>. QED BY <1>3
<1>5. u \in Nat /\ v \in 0..3 /\ y = 4 * u + v
  <2>. HIDE DEF y
  <2>. QED BY <1>4
<1>6. x \div (4 * P) = u
  <2>. HIDE DEF P, u, v, w, y
  <2>1. x = (4 * P) * u + (P * v + w)
    <3>1. P * y = P * (4 * u) + P * v
      BY <1>3, <1>5
    <3>. QED BY <1>3, <1>4, <1>5, <3>1
  <2>2. P * v + w \in 0..(4 * P - 1)
    <3>1. P * v <= P * 3 /\ P * v \in Nat
      BY <1>3, <1>5
    <3>. QED BY <1>3, <1>4, <3>1
  <2>. DEFINE Q == 4 * P
              r == P * v + w
  <2>3. Q \in Nat /\ Q >= 1 /\ r \in 0..(Q - 1) /\ x = Q * u + r
    BY <1>3, <2>1, <2>2
  <2>4. x \div Q = u
    <3>. HIDE DEF Q, r
    <3>. QED BY <1>5, <2>3
  <2>. QED BY <2>4
<1>. QED BY <1>2, <1>4, <1>5, <1>6

(* The residue that the next digit is taken of, doubled if it is not the   *)
(* dividend itself, has the quotient and the remainder of what it stands   *)
(* for up to whole divisors.                                               *)
LEMMA ResidueOf ==
  ASSUME NEW x \in Nat, NEW s \in Nat, s >= 1, NEW d \in Nat, NEW m \in Nat, NEW bit \in {0, 1},
         NEW r1 \in Nat, r1 < s, x = s * (2 * d + bit) + r1
  PROVE  x % s = r1 /\ (x \div s) % 2 = bit
<1>. DEFINE k == 2 * d + bit
<1>1. k \in Nat /\ k % 2 = bit
  OBVIOUS
<1>. HIDE DEF k
<1>2. x % s = r1 /\ x \div s = k
  <2>1. x = s * k + r1
    BY DEF k
  <2>. QED BY <1>1, <2>1
<1>. QED BY <1>1, <1>2

(* pack_extended, and its copy in to_f64_impl: what is kept of the shifted *)
(* significand, whether it goes up, and the carry.                         *)
Lowest(bias, exponent) == IF exponent < 1 - bias THEN 1 - bias ELSE exponent

KeptUp(s, x, md) == Upwards(s, x \div 8, x % 8 # 0, 4 <= x % 8, x % 8 = 4, md)

KeptUnits(s, x, md) == IF KeptUp(s, x, md) THEN (x \div 8) + 1 ELSE x \div 8

Told(lost) == IF lost THEN {"inexact"} ELSE {}

ToldTiny(lost) == IF lost THEN {"inexact", "underflow"} ELSE {}

(* A magnitude that is the value, or is jammed but long enough.            *)
HoldsValue(mag, k, num, den) ==
  \/ Weighs(mag, k, num, den)
  \/ /\ mag \in Nat /\ Pow2[FracBits + 3] <= mag /\ InTable(k)
     /\ num \in Nat /\ den \in Nat /\ den >= 1
     /\ Stands(mag, num * Under(k), den * Over(k), 2)

LEMMA HoldsStands ==
  ASSUME NEW mag, NEW k, NEW num, NEW den, HoldsValue(mag, k, num, den)
  PROVE  /\ mag \in Nat /\ InTable(k) /\ k \in Int /\ num \in Nat /\ den \in Nat /\ den >= 1
         /\ num * Under(k) \in Nat /\ den * Over(k) \in Nat /\ den * Over(k) >= 1
         /\ Stands(mag, num * Under(k), den * Over(k), 2)
<1>1. mag \in Nat /\ InTable(k) /\ k \in Int /\ num \in Nat /\ den \in Nat /\ den >= 1
  BY DEF HoldsValue, Weighs, InTable
<1>. DEFINE O == Over(k)
            U == Under(k)
<1>2. O \in Nat /\ O >= 1 /\ U \in Nat /\ U >= 1
  BY <1>1, OverUnder
<1>. HIDE DEF O, U
<1>. DEFINE P == num * U
            Q == den * O
<1>3. P \in Nat /\ Q \in Nat /\ Q >= 1
  BY <1>1, <1>2
<1>4. CASE Weighs(mag, k, num, den)
  <2>1. mag * Q = P
    BY <1>4 DEF Weighs, O, U
  <2>. HIDE DEF P, Q
  <2>2. mag \in Int /\ P \in Int /\ 2 \in Nat
    BY <1>1, <1>3
  <2>3. Stands(mag, P, Q, 2)
    BY <2>1, <2>2, <1>3, ExactStands
  <2>. QED BY <1>1, <1>3, <2>3 DEF P, Q, O, U
<1>5. CASE ~ Weighs(mag, k, num, den)
  BY <1>1, <1>3, <1>5 DEF HoldsValue, P, Q, O, U
<1>. QED BY <1>4, <1>5

LEMMA TwiceAsCoarse ==
  ASSUME NEW sig, NEW P, NEW Q, Stands(sig, P, Q, 2)
  PROVE  Stands(sig, P, Q, 4)
<1>. SUFFICES ASSUME NEW y \in Int
     PROVE  /\ sig < 4 * y <=> P < (4 * y) * Q
            /\ sig = 4 * y <=> P = (4 * y) * Q
  BY DEF Stands
<1>. DEFINE w == 2 * y
<1>1. w \in Int /\ 2 * w = 4 * y
  OBVIOUS
<1>. HIDE DEF w
<1>2. /\ sig < 2 * w <=> P < (2 * w) * Q
      /\ sig = 2 * w <=> P = (2 * w) * Q
  BY <1>1 DEF Stands
<1>. QED BY <1>1, <1>2

(* Sums.                                                                   *)
LEMMA WeighsSum ==
  ASSUME NEW x, NEW y, NEW k, NEW m, NEW n, NEW den, Weighs(x, k, m, den), Weighs(y, k, n, den)
  PROVE  /\ Weighs(x + y, k, m + n, den)
         /\ x = y <=> m = n
         /\ x > y => m > n /\ Weighs(x - y, k, m - n, den)
         /\ y > x => n > m /\ Weighs(y - x, k, n - m, den)
<1>. DEFINE D == den * Over(k)
            U == Under(k)
<1>1. /\ x \in Nat /\ y \in Nat /\ InTable(k) /\ m \in Nat /\ n \in Nat /\ den \in Nat /\ den >= 1
      /\ x * D = m * U /\ y * D = n * U
  BY DEF Weighs
<1>2. U \in Nat /\ U >= 1 /\ Over(k) \in Nat /\ Over(k) >= 1
  BY <1>1, OverUnder
<1>3. D \in Nat /\ D >= 1
  BY <1>1, <1>2
<1>. HIDE DEF D, U
<1>4. /\ (x + y) * D = (m + n) * U
      /\ (x - y) * D = (m - n) * U
      /\ (y - x) * D = (n - m) * U
  BY <1>1, <1>2, <1>3, Z3
<1>5. ASSUME NEW a \in Int, NEW b \in Int, a * D = b * U
      PROVE  /\ a > 0 <=> b > 0
             /\ a = 0 <=> b = 0
  <2>1. a > 0 => a * D > 0
    BY <1>3
  <2>2. a <= 0 => a * D <= 0
    BY <1>3
  <2>3. b > 0 => b * U > 0
    BY <1>2
  <2>4. b <= 0 => b * U <= 0
    BY <1>2
  <2>5. a < 0 => a * D < 0
    BY <1>3
  <2>6. b < 0 => b * U < 0
    BY <1>2
  <2>7. a = 0 => a * D = 0
    BY <1>3
  <2>8. b = 0 => b * U = 0
    BY <1>2
  <2>. DEFINE l == a * D
              r == b * U
  <2>9. l \in Int /\ r \in Int /\ l = r
    BY <1>2, <1>3, <1>5
  <2>10. /\ a > 0 => l > 0
         /\ a <= 0 => l <= 0
         /\ a < 0 => l < 0
         /\ b > 0 => r > 0
         /\ b <= 0 => r <= 0
         /\ b < 0 => r < 0
         /\ a = 0 => l = 0
         /\ b = 0 => r = 0
    BY <2>1, <2>2, <2>3, <2>4, <2>5, <2>6, <2>7, <2>8
  <2>. HIDE DEF l, r
  <2>. QED BY <2>9, <2>10
<1>6. x - y > 0 <=> m - n > 0
  BY <1>1, <1>4, <1>5
<1>7. x - y = 0 <=> m - n = 0
  BY <1>1, <1>4, <1>5
<1>8. y - x > 0 <=> n - m > 0
  BY <1>1, <1>4, <1>5
<1>9. x + y \in Nat /\ m + n \in Nat /\ (x > y => x - y \in Nat) /\ (y > x => y - x \in Nat)
      /\ (m > n => m - n \in Nat) /\ (n > m => n - m \in Nat)
  BY <1>1
<1>10. (x > y <=> m > n) /\ (x = y <=> m = n) /\ (y > x <=> n > m)
  BY <1>1, <1>6, <1>7, <1>8
<1>11. Weighs(x + y, k, m + n, den)
  BY <1>1, <1>4, <1>9 DEF Weighs, D, U
<1>12. x > y => Weighs(x - y, k, m - n, den)
  BY <1>1, <1>4, <1>9, <1>10 DEF Weighs, D, U
<1>13. y > x => Weighs(y - x, k, n - m, den)
  BY <1>1, <1>4, <1>9, <1>10 DEF Weighs, D, U
<1>. QED BY <1>10, <1>11, <1>12, <1>13

(* Products.                                                               *)
LEMMA FactorsWeigh ==
  ASSUME NEW p, NEW i, NEW M, Weighs(p, i, M, 1), NEW q1, NEW j, NEW N, Weighs(q1, j, N, 1),
         NEW l \in Nat, InTable(l), InTable(i + (0 - l)),
         NEW k, k = (i + (0 - l)) + j, InTable(k),
         NEW num \in Nat, NEW den \in Nat, den >= 1, num * Pow2[l] = (M * N) * den
  PROVE  Weighs(p * q1, k, num, den)
<1>6. /\ i \in Int /\ j \in Int /\ 0 \in Nat /\ k \in Int
      /\ InTable(i) /\ InTable(j) /\ InTable(0)
  BY Widths DEF InTable, Weighs
<1>7. ((Under(i) * Under(j)) * Over(k)) * Pow2[l] = ((Over(i) * Over(j)) * Under(k)) * Pow2[0]
  BY <1>6, Balance
<1>. DEFINE ui == Under(i)
            uj == Under(j)
            uk == Under(k)
            oi == Over(i)
            oj == Over(j)
            ok == Over(k)
            h == Pow2[l]
<1>8. /\ ui \in Nat /\ uj \in Nat /\ uk \in Nat /\ oi \in Nat /\ oj \in Nat /\ ok \in Nat /\ h \in Nat
      /\ oi >= 1 /\ oj >= 1 /\ h >= 1
  <2>1. l \in 0..MaxShift
    BY Widths DEF InTable
  <2>. QED BY <1>6, <2>1, OverUnder, Pow2Positive
<1>9. ((ui * uj) * ok) * h = (oi * oj) * uk
  <2>1. Pow2[0] = 1
    BY Pow2Step
  <2>2. (oi * oj) * uk \in Nat
    BY <1>8
  <2>. QED BY <1>7, <2>1, <2>2
<1>10. /\ p \in Nat /\ q1 \in Nat /\ M \in Nat /\ N \in Nat /\ p * (1 * oi) = M * ui /\ q1 * (1 * oj) = N * uj
  BY DEF Weighs
<1>11. num * h = (M * N) * den
  OBVIOUS
<1>. HIDE DEF ui, uj, uk, oi, oj, ok, h
<1>12. p * oi = M * ui /\ q1 * oj = N * uj
  BY <1>8, <1>10
<1>13. (p * q1) * (den * ok) = num * uk
  <2>. DEFINE x == (p * q1) * (den * ok)
              y == num * uk
              w == (oi * oj) * h
  <2>1. x * w = ((p * oi) * (q1 * oj)) * ((den * ok) * h)
    BY <1>8, <1>10, Z3
  <2>2. ((M * ui) * (N * uj)) * ((den * ok) * h) = ((M * N) * den) * (((ui * uj) * ok) * h)
    BY <1>8, <1>10, Z3
  <2>3. (num * h) * ((oi * oj) * uk) = y * w
    BY <1>8, <1>10, Z3
  <2>4. x * w = y * w
    BY <1>9, <1>11, <1>12, <2>1, <2>2, <2>3
  <2>5. x \in Nat /\ y \in Nat /\ w \in Nat /\ w >= 1
    <3>1. oi * oj \in Nat /\ oi * oj >= 1
      <4>1. oi * oj >= 1 * 1
        BY <1>8
      <4>. QED BY <1>8, <4>1
    <3>. DEFINE t == oi * oj
    <3>. HIDE DEF t
    <3>2. t * h >= 1 * 1 /\ t * h \in Nat
      BY <1>8, <3>1 DEF t
    <3>. QED BY <1>8, <1>10, <3>2 DEF t
  <2>. HIDE DEF x, y, w
  <2>6. x = y
    BY <2>4, <2>5
  <2>. QED BY <2>6 DEF x, y
<1>14. p * q1 \in Nat
  BY <1>10
<1>. QED BY <1>13, <1>14 DEF ok, uk, Weighs

(* Distant operands.                                                       *)
Moved(v, n) ==
  LET word == v.e * ImplicitBit + v.f + n
  IN  [s |-> v.s, e |-> word \div ImplicitBit, f |-> word % ImplicitBit]

LEMMA NotMoved ==
  ASSUME NEW v \in Values
  PROVE  /\ v.e * ImplicitBit + v.f \in Nat
         /\ v = [s |-> v.s, e |-> (v.e * ImplicitBit + v.f) \div ImplicitBit,
                 f |-> (v.e * ImplicitBit + v.f) % ImplicitBit]
<1>1. /\ v.e \in Nat /\ v.f \in Nat /\ v.f < ImplicitBit /\ ImplicitBit \in Nat
      /\ v = [s |-> v.s, e |-> v.e, f |-> v.f]
  BY Fields DEF Values
<1>2. (v.e * ImplicitBit + v.f) \div ImplicitBit = v.e /\ (v.e * ImplicitBit + v.f) % ImplicitBit = v.f
  BY <1>1, Join
<1>3. v.e * ImplicitBit + v.f \in Nat
  BY <1>1
<1>. QED BY <1>1, <1>2, <1>3

(* What is nearer to a value than to the middle of its neighbours.         *)
LEMMA DirectedSteps ==
  ASSUME NEW s \in {0, 1}, NEW m, NEW md \in Modes
  PROVE  /\ Upwards(s, m, TRUE, FALSE, FALSE, md) <=> md = (IF s = 0 THEN "RUP" ELSE "RDN")
         /\ Upwards(s, m, TRUE, TRUE, FALSE, md)
              <=> ~ (md = "RTZ" \/ md = (IF s = 0 THEN "RDN" ELSE "RUP"))
<1>1. md = "RNE" \/ md = "RTZ" \/ md = "RUP" \/ md = "RDN" \/ md = "RNA"
  BY DEF Modes
<1>2. CASE md = "RTZ"
  BY <1>2 DEF Upwards
<1>3. CASE md = "RUP"
  BY <1>3 DEF Upwards
<1>4. CASE md = "RDN"
  BY <1>4 DEF Upwards
<1>5. CASE md = "RNA"
  BY <1>5 DEF Upwards
<1>6. CASE md = "RNE"
  BY <1>6 DEF Upwards
<1>. QED BY <1>1, <1>2, <1>3, <1>4, <1>5, <1>6

(* A quotient of significands, n bits longer, and the quotient of the      *)
(* values.                                                                 *)
LEMMA RatioWeighs ==
  ASSUME NEW p, NEW i, NEW M, Weighs(p, i, M, 1), NEW q1, NEW j, NEW N, Weighs(q1, j, N, 1),
         N >= 1, NEW l \in Nat, InTable(l), NEW n \in Nat, InTable(n), InTable(i + (l - n)),
         NEW k, k = (i + (l - n)) - j, InTable(k),
         NEW num \in Nat, NEW den \in Nat, den >= 1, num * N = (M * Pow2[l]) * den
  PROVE  (p * Pow2[n]) * (den * Over(k)) = (num * Under(k)) * q1
<1>1. /\ i \in Int /\ j \in Int /\ k \in Int /\ InTable(i) /\ InTable(j)
      /\ p \in Nat /\ q1 \in Nat /\ M \in Nat /\ N \in Nat
      /\ p * (1 * Over(i)) = M * Under(i) /\ q1 * (1 * Over(j)) = N * Under(j)
  BY DEF InTable, Weighs
<1>2. InTable(-j) /\ -j \in Int
  BY <1>1 DEF InTable
<1>3. Over(-j) = Under(j) /\ Under(-j) = Over(j)
  BY <1>1, SmallPowers DEF Over, Under
<1>4. ((Under(i) * Under(-j)) * Over(k)) * Pow2[n] = ((Over(i) * Over(-j)) * Under(k)) * Pow2[l]
  <2>1. k = (i + (l - n)) + (-j)
    BY <1>1
  <2>. QED BY <1>1, <1>2, <2>1, Balance
<1>. DEFINE ui == Under(i)
            uj == Under(j)
            uk == Under(k)
            oi == Over(i)
            oj == Over(j)
            ok == Over(k)
            h == Pow2[l]
            s == Pow2[n]
<1>5. /\ ui \in Nat /\ uj \in Nat /\ uk \in Nat /\ oi \in Nat /\ oj \in Nat /\ ok \in Nat /\ h \in Nat
      /\ oi >= 1 /\ oj >= 1 /\ h >= 1 /\ uj >= 1 /\ s \in Nat
  <2>1. l \in 0..MaxShift /\ n \in 0..MaxShift
    BY Widths DEF InTable
  <2>. QED BY <1>1, <2>1, OverUnder, Pow2Positive
<1>6. ((ui * oj) * ok) * s = ((oi * uj) * uk) * h
  BY <1>3, <1>4
<1>7. num * N = (M * h) * den
  OBVIOUS
<1>. HIDE DEF ui, uj, uk, oi, oj, ok, h, s
<1>8. (p * 1) * oi = M * (1 * ui) /\ q1 * oj = N * uj
  BY <1>1, <1>5 DEF ui, uj, oi, oj
<1>9. ((p * 1) * s) * (den * ok) = (num * (1 * uk)) * q1
  <2>1. 1 \in Nat /\ 1 >= 1
    OBVIOUS
  <2>. QED BY <1>1, <1>5, <1>6, <1>7, <1>8, <2>1, QuotientCross
<1>10. (p * 1) * s = p * s /\ num * (1 * uk) = num * uk
  BY <1>1, <1>5
<1>. QED BY <1>9, <1>10 DEF s, ok, uk

WithRest(d, r) == OrSticky(d, r # 0)

RootAndEven(d, r, t) ==
  d \in Nat /\ r \in Nat /\ r <= 2 * d /\ \E y \in Nat : t = 2 * y

(* The digits of a root with the sticky bit lie on the same side of an     *)
(* even number as the root itself.                                         *)
LEMMA RootOrder ==
  ASSUME NEW d, NEW r, NEW t, RootAndEven(d, r, t)
  PROVE  /\ WithRest(d, r) < t <=> d * d + r < t * t
         /\ WithRest(d, r) = t <=> d * d + r = t * t
<1>. PICK y \in Nat : t = 2 * y
  BY DEF RootAndEven
<1>0. d \in Nat /\ r \in Nat /\ r <= 2 * d
  BY DEF RootAndEven
<1>1. (r # 0) \in BOOLEAN /\ y \in Int /\ t \in Nat
  BY <1>0
<1>2. /\ WithRest(d, r) < t <=> d < t
      /\ WithRest(d, r) = t <=> d = t /\ r = 0
  <2>1. /\ OrSticky(d, r # 0) < 2 * y <=> d < 2 * y
        /\ OrSticky(d, r # 0) = 2 * y <=> d = 2 * y /\ ~ (r # 0)
    BY <1>0, <1>1, StickySide
  <2>. QED BY <2>1 DEF WithRest
<1>3. CASE d < t
  <2>1. d + 1 \in Nat /\ d + 1 <= t
    BY <1>0, <1>1, <1>3
  <2>2. (d + 1) * (d + 1) <= t * t
    BY <1>0, <1>1, <2>1, SquareOrder
  <2>3. (d + 1) * (d + 1) = d * d + 2 * d + 1
    BY <1>0, Z3
  <2>. DEFINE s == d * d
              u == t * t
  <2>4. s \in Nat /\ u \in Nat
    BY <1>0, <1>1
  <2>. HIDE DEF s, u
  <2>5. s + 2 * d + 1 <= u
    BY <2>2, <2>3 DEF s, u
  <2>6. s + r < u
    BY <1>0, <2>4, <2>5
  <2>7. d # t
    BY <1>0, <1>1, <1>3
  <2>. QED BY <1>0, <1>2, <1>3, <2>4, <2>6, <2>7 DEF s, u
<1>4. CASE d = t
  <2>. DEFINE s == d * d
              u == t * t
  <2>1. s \in Nat /\ u \in Nat /\ s = u
    BY <1>0, <1>1, <1>4
  <2>. HIDE DEF s, u
  <2>2. s + r < u <=> FALSE
    BY <1>0, <2>1
  <2>3. s + r = u <=> r = 0
    BY <1>0, <2>1
  <2>. QED BY <1>0, <1>1, <1>2, <1>4, <2>2, <2>3 DEF s, u
<1>5. CASE t < d
  <2>1. t * t < d * d
    BY <1>0, <1>1, <1>5, SquareOrder
  <2>. DEFINE s == d * d
              u == t * t
  <2>2. s \in Nat /\ u \in Nat /\ u < s
    BY <1>0, <1>1, <2>1
  <2>. HIDE DEF s, u
  <2>3. ~ (s + r < u) /\ s + r # u
    BY <1>0, <2>2
  <2>4. ~ (d < t) /\ d # t
    BY <1>0, <1>1, <1>5
  <2>. QED BY <1>0, <1>2, <2>3, <2>4 DEF s, u
<1>. QED BY <1>0, <1>1, <1>3, <1>4, <1>5

(* The magnitudes that a root can be are below the limit of the reference. *)
LEMMA BelowRootLimit ==
  ASSUME NEW e \in 1..(ExpMax - 1), 2 * e <= 3 * Bias, NEW m \in Nat, m < 2 * ImplicitBit
  PROVE  m * Unit(e) < Ref!RootLimit
<1>. DEFINE n == FracBits + ExpMax + Ref!LogOne
            t == n \div 2
            w == FracBits + e
            I == ImplicitBit
            U == Unit(e)
<1>1. n \in Nat /\ w \in Nat /\ 2 * w <= n /\ n <= 2 * MaxShift /\ e \in Nat /\ e >= 1
      /\ I \in Nat /\ I = Pow2[FracBits]
  BY SameFormat, Fields, Widths
<1>2. t \in Nat /\ w <= t /\ t <= MaxShift
  <2>. HIDE DEF n, w
  <2>. QED BY <1>1, Widths
<1>3. Pow2[w] <= Pow2[t] /\ Ref!RootLimit = Pow2[t]
  <2>1. Ref!RootLimit = Pow2[t]
    BY SameFormat DEF Ref!RootLimit
  <2>. HIDE DEF w, t
  <2>. QED BY <1>1, <1>2, <2>1, Pow2Monotone
<1>4. Pow2[w] = (2 * I) * U
  <2>1. /\ FracBits + 1 \in Nat /\ e - 1 \in Nat /\ (FracBits + 1) + (e - 1) = w /\ FracBits \in Nat
        /\ w <= MaxShift /\ FracBits + 1 <= MaxShift
    BY <1>1, <1>2, Widths
  <2>2. Pow2[(FracBits + 1) + (e - 1)] = Pow2[FracBits + 1] * Pow2[e - 1]
    <3>. HIDE DEF w
    <3>. QED BY <2>1, Pow2Sum
  <2>3. Pow2[FracBits + 1] = 2 * I
    BY <2>1, Pow2Step, Fields
  <2>. QED BY <2>1, <2>2, <2>3 DEF Unit
<1>5. U \in Nat /\ U >= 1
  <2>1. e \in 1..ExpMax
    BY Fields
  <2>. QED BY <2>1, UnitFacts
<1>6. m * U < (2 * I) * U
  <2>. HIDE DEF U, I
  <2>1. m < 2 * I
    BY DEF I
  <2>. QED BY <1>1, <1>5, <2>1
<1>7. Pow2[w] \in Nat /\ Pow2[t] \in Nat /\ m * U \in Nat
  <2>1. w \in 0..MaxShift /\ t \in 0..MaxShift
    <3>. HIDE DEF w, t
    <3>. QED BY <1>1, <1>2, Widths
  <2>. HIDE DEF U
  <2>. QED BY <1>5, <2>1, Pow2Positive
<1>. DEFINE low == m * U
            pw == Pow2[w]
            d == Pow2[t]
<1>8. low < pw /\ pw <= d /\ low \in Nat /\ pw \in Nat /\ d \in Nat
  BY <1>3, <1>4, <1>6, <1>7
<1>9. low < d
  <2>. HIDE DEF low, pw, d
  <2>. QED BY <1>8
<1>. QED BY <1>3, <1>9

OneFrame(x, y, k, m, n) == Weighs(x, k, m, 1) /\ Weighs(y, k, n, 1) /\ y >= 1

(* Numbers in one frame have the quotient of what they stand for, and      *)
(* their remainder stands for its remainder.                               *)
LEMMA SameQuotient ==
  ASSUME NEW x, NEW y, NEW k, NEW m, NEW n, OneFrame(x, y, k, m, n)
  PROVE  /\ n >= 1 /\ x \div y = m \div n /\ x \div y \in Nat
         /\ Weighs(x % y, k, m % n, 1) /\ x % y < y /\ m % n < n
<1>. DEFINE o == Over(k)
            u == Under(k)
            c == m \div n
            r == m % n
<1>1. /\ x \in Nat /\ y \in Nat /\ y >= 1 /\ m \in Nat /\ n \in Nat /\ InTable(k)
      /\ x * (1 * o) = m * u /\ y * (1 * o) = n * u
  BY DEF OneFrame, Weighs
<1>2. o \in Nat /\ o >= 1 /\ u \in Nat /\ u >= 1
  <2>1. k \in Int
    BY <1>1 DEF InTable
  <2>. QED BY <1>1, <2>1, OverUnder
<1>. HIDE DEF o, u
<1>3. x * o = m * u /\ y * o = n * u
  BY <1>1, <1>2
<1>4. n >= 1
  <2>1. y * o >= 1
    BY <1>1, <1>2
  <2>2. n = 0 => n * u = 0
    BY <1>2
  <2>. QED BY <1>1, <1>3, <2>1, <2>2
<1>5. c \in Nat /\ r \in Nat /\ r < n /\ m = c * n + r
  BY <1>1, <1>4, Split
<1>. HIDE DEF c, r
<1>. DEFINE w == x - c * y
<1>6. w \in Int /\ w * o = r * u
  <2>1. (x - c * y) * o = x * o - c * (y * o) /\ (c * n + r) * u = c * (n * u) + r * u
    BY <1>1, <1>2, <1>5
  <2>2. x * o = (c * n + r) * u
    BY <1>3, <1>5
  <2>. DEFINE a == c * (n * u)
              b == r * u
              d == x * o
  <2>3. a \in Nat /\ b \in Nat /\ d \in Nat /\ c * y \in Nat
    BY <1>1, <1>2, <1>5
  <2>4. w * o = d - a /\ d = a + b
    BY <1>3, <2>1, <2>2
  <2>. HIDE DEF a, b, d, w
  <2>5. w * o = b
    BY <2>3, <2>4
  <2>. QED BY <1>1, <2>3, <2>5 DEF b, w
<1>7. w \in Nat /\ w < y
  <2>. HIDE DEF w
  <2>. DEFINE b == r * u
              d == y * o
  <2>1. b \in Nat /\ b < d /\ w * o = b
    <3>1. r * u < n * u /\ r * u \in Nat
      BY <1>1, <1>2, <1>5
    <3>. QED BY <1>3, <1>6, <3>1
  <2>. HIDE DEF b
  <2>2. w < 0 => w * o < 0
    BY <1>2, <1>6
  <2>3. w >= y => w * o >= y * o
    BY <1>1, <1>2, <1>6
  <2>4. d \in Nat
    BY <1>1, <1>2
  <2>. HIDE DEF d
  <2>5. w >= y => b >= d
    BY <2>1, <2>3 DEF d
  <2>. QED BY <1>1, <1>6, <2>1, <2>2, <2>4, <2>5
<1>8. x = c * y + w
  <2>. DEFINE p == c * y
  <2>1. p \in Nat
    BY <1>1, <1>5
  <2>2. w = x - p
    OBVIOUS
  <2>. HIDE DEF p, w
  <2>3. x = p + w
    BY <1>1, <1>7, <2>1, <2>2
  <2>. QED BY <2>3 DEF p
<1>. HIDE DEF w
<1>9. x \div y = c /\ x % y = w
  BY <1>1, <1>5, <1>7, <1>8, Join
<1>10. Weighs(w, k, r, 1)
  <2>1. w * (1 * o) = r * u
    BY <1>2, <1>6, <1>7
  <2>. QED BY <1>1, <1>5, <1>7, <2>1 DEF Weighs, o, u
<1>. QED BY <1>4, <1>5, <1>7, <1>9, <1>10 DEF c, r

(* More than half of the divisor is left, or half of it and the quotient   *)
(* is odd.                                                                 *)
BeyondHalf(r, y, c) == 2 * r > y \/ (2 * r = y /\ c % 2 = 1)

LEMMA WeighsOrder ==
  ASSUME NEW x, NEW y, NEW k, NEW m, NEW n, NEW den, Weighs(x, k, m, den), Weighs(y, k, n, den)
  PROVE  /\ x = y <=> m = n
         /\ x > y => m > n
         /\ y > x => n > m
<1>. DEFINE o == den * Over(k)
            u == Under(k)
<1>1. /\ x \in Nat /\ y \in Nat /\ m \in Nat /\ n \in Nat /\ den \in Nat /\ den >= 1
      /\ x * o = m * u /\ y * o = n * u /\ InTable(k)
  BY DEF Weighs
<1>2. o \in Nat /\ o >= 1 /\ u \in Nat /\ u >= 1
  <2>1. k \in Int
    BY <1>1 DEF InTable
  <2>2. Over(k) \in Nat /\ Over(k) >= 1 /\ Under(k) \in Nat /\ Under(k) >= 1
    BY <1>1, <2>1, OverUnder
  <2>. QED BY <1>1, <2>2
<1>. HIDE DEF o, u
<1>3. /\ m < n => m * u < n * u
      /\ n < m => n * u < m * u
  BY <1>1, <1>2
<1>4. /\ x < y => x * o < y * o
      /\ y < x => y * o < x * o
  BY <1>1, <1>2
<1>. DEFINE a == x * o
            b == y * o
<1>5. a \in Nat /\ b \in Nat /\ a = m * u /\ b = n * u
  BY <1>1, <1>2
<1>6. /\ x = y => a = b
      /\ m = n => a = b
  BY <1>5
<1>7. /\ x < y => a < b
      /\ y < x => b < a
      /\ m < n => a < b
      /\ n < m => b < a
  BY <1>3, <1>4, <1>5
<1>. HIDE DEF a, b
<1>. QED BY <1>1, <1>5, <1>6, <1>7

LEMMA SameHalf ==
  ASSUME NEW r, NEW y, NEW k, NEW m, NEW n, Weighs(r, k, m, 1), Weighs(y, k, n, 1), NEW c
  PROVE  BeyondHalf(r, y, c) <=> BeyondHalf(m, n, c)
<1>1. r \in Nat /\ y \in Nat /\ m \in Nat /\ n \in Nat
  BY DEF Weighs
<1>2. Weighs(r + r, k, m + m, 1)
  BY WeighsSum
<1>. DEFINE d == r + r
            e == m + m
<1>3. Weighs(d, k, e, 1) /\ d \in Nat /\ e \in Nat /\ d = 2 * r /\ e = 2 * m
  BY <1>1, <1>2
<1>. HIDE DEF d, e
<1>4. d = y <=> e = n
  BY <1>3, WeighsOrder
<1>5. d > y => e > n
  BY <1>3, WeighsOrder
<1>6. y > d => n > e
  BY <1>3, WeighsOrder
<1>7. (2 * r > y <=> 2 * m > n) /\ (2 * r = y <=> 2 * m = n)
  BY <1>1, <1>3, <1>4, <1>5, <1>6
<1>. QED BY <1>7 DEF BeyondHalf

(* Integers next to a value.                                               *)
SameRatioAs(num, D, u, P, Q) ==
  /\ num \in Nat /\ D \in Nat /\ D >= 1 /\ u \in Nat /\ u >= 1
  /\ P = num * u /\ Q = D * u

LEMMA TimesOrder ==
  ASSUME NEW x \in Nat, NEW y \in Nat, NEW u \in Nat, u >= 1
  PROVE  /\ x * u \in Nat /\ y * u \in Nat
         /\ x * u <= y * u <=> x <= y
         /\ x * u = y * u <=> x = y
<1>1. x > y => (x - y) * u >= 1 /\ (x - y) * u = x * u - y * u
  BY Z3
<1>2. x < y => (y - x) * u >= 1 /\ (y - x) * u = y * u - x * u
  BY Z3
<1>3. x * u \in Nat /\ y * u \in Nat
  OBVIOUS
<1>. DEFINE xu == x * u
            yu == y * u
<1>4. xu \in Nat /\ yu \in Nat /\ (x = y => xu = yu)
  BY <1>3
<1>5. x > y => xu > yu
  <2>. SUFFICES ASSUME x > y PROVE xu > yu
    OBVIOUS
  <2>1. (x - y) * u >= 1 /\ (x - y) * u = xu - yu
    BY <1>1
  <2>. HIDE DEF xu, yu
  <2>. QED BY <1>4, <2>1
<1>6. x < y => xu < yu
  <2>. SUFFICES ASSUME x < y PROVE xu < yu
    OBVIOUS
  <2>1. (y - x) * u >= 1 /\ (y - x) * u = yu - xu
    BY <1>2
  <2>. HIDE DEF xu, yu
  <2>. QED BY <1>4, <2>1
<1>. HIDE DEF xu, yu
<1>7. xu \in Nat /\ yu \in Nat /\ (xu <= yu <=> x <= y) /\ (xu = yu <=> x = y)
  BY <1>4, <1>5, <1>6
<1>. QED BY <1>7 DEF xu, yu

LEMMA UpwardsAlike ==
  ASSUME NEW s, NEW m, NEW md, NEW l1 \in BOOLEAN, NEW h1 \in BOOLEAN, NEW t1 \in BOOLEAN,
         NEW l2 \in BOOLEAN, NEW h2 \in BOOLEAN, NEW t2 \in BOOLEAN,
         l1 <=> l2, h1 <=> h2, t1 <=> t2
  PROVE  Upwards(s, m, l1, h1, t1, md) = Upwards(s, m, l2, h2, t2, md)
<1>1. l1 = l2 /\ h1 = h2 /\ t1 = t2
  OBVIOUS
<1>. QED BY <1>1, Zenon

LEMMA CutRatio ==
  ASSUME NEW s, NEW m, NEW num, NEW D, NEW u, NEW P, NEW Q, NEW up, NEW ls, NEW md,
         SameRatioAs(num, D, u, P, Q)
  PROVE  CutAt(s, m, num, D, up, ls, md) <=> CutAt(s, m, P, Q, up, ls, md)
<1>1. /\ num \in Nat /\ D \in Nat /\ D >= 1 /\ u \in Nat /\ u >= 1 /\ P = num * u /\ Q = D * u
  BY DEF SameRatioAs
<1>. SUFFICES ASSUME m \in Nat
              PROVE  CutAt(s, m, num, D, up, ls, md) <=> CutAt(s, m, P, Q, up, ls, md)
  BY Zenon DEF CutAt
<1>2. /\ m * Q = (m * D) * u /\ (m + 1) * Q = ((m + 1) * D) * u
      /\ 2 * P = (2 * num) * u /\ (2 * m + 1) * Q = ((2 * m + 1) * D) * u
  BY <1>1, Z3
<1>. DEFINE x == m * D
            y == (m + 1) * D
            w == (2 * m + 1) * D
            twice == 2 * num
<1>3. x \in Nat /\ y \in Nat /\ w \in Nat /\ twice \in Nat
  BY <1>1
<1>4. P \in Nat /\ Q \in Nat /\ Q >= 1
  BY <1>1, Z3
<1>5. /\ m * Q <= P <=> m * D <= num
      /\ P < (m + 1) * Q <=> num < (m + 1) * D
      /\ P = m * Q <=> num = m * D
      /\ 2 * P >= (2 * m + 1) * Q <=> 2 * num >= (2 * m + 1) * D
      /\ 2 * P = (2 * m + 1) * Q <=> 2 * num = (2 * m + 1) * D
  <2>1. /\ x * u \in Nat /\ y * u \in Nat /\ w * u \in Nat /\ twice * u \in Nat /\ num * u \in Nat
        /\ x * u <= num * u <=> x <= num
        /\ y * u <= num * u <=> y <= num
        /\ x * u = num * u <=> x = num
        /\ w * u <= twice * u <=> w <= twice
        /\ w * u = twice * u <=> w = twice
    <3>. HIDE DEF x, y, w, twice
    <3>. QED BY <1>1, <1>3, TimesOrder
  <2>2. m * Q = x * u /\ (m + 1) * Q = y * u /\ 2 * P = twice * u /\ (2 * m + 1) * Q = w * u
        /\ P = num * u
    BY <1>1, <1>2
  <2>. DEFINE mQ == m * Q
              mQ1 == (m + 1) * Q
              mQ2 == (2 * m + 1) * Q
              PP == 2 * P
  <2>3. /\ mQ <= P <=> x <= num
        /\ P < mQ1 <=> num < y
        /\ P = mQ <=> num = x
        /\ PP >= mQ2 <=> twice >= w
        /\ PP = mQ2 <=> twice = w
    <3>1. mQ = x * u /\ mQ1 = y * u /\ PP = twice * u /\ mQ2 = w * u
      BY <2>2
    <3>. HIDE DEF mQ, mQ1, mQ2, PP, x, y, w, twice
    <3>. QED BY <1>1, <1>3, <2>1, <2>2, <3>1
  <2>. QED BY <2>3
<1>6. Upwards(s, m, P # m * Q, 2 * P >= (2 * m + 1) * Q, 2 * P = (2 * m + 1) * Q, md) =
      Upwards(s, m, num # m * D, 2 * num >= (2 * m + 1) * D, 2 * num = (2 * m + 1) * D, md)
  <2>. DEFINE l1 == P # m * Q
              h1 == 2 * P >= (2 * m + 1) * Q
              t1 == 2 * P = (2 * m + 1) * Q
              l2 == num # m * D
              h2 == 2 * num >= (2 * m + 1) * D
              t2 == 2 * num = (2 * m + 1) * D
  <2>1. (l1 <=> l2) /\ (h1 <=> h2) /\ (t1 <=> t2)
    BY <1>5
  <2>2. /\ l1 \in BOOLEAN /\ h1 \in BOOLEAN /\ t1 \in BOOLEAN
        /\ l2 \in BOOLEAN /\ h2 \in BOOLEAN /\ t2 \in BOOLEAN
    OBVIOUS
  <2>. HIDE DEF l1, h1, t1, l2, h2, t2
  <2>3. Upwards(s, m, l1, h1, t1, md) = Upwards(s, m, l2, h2, t2, md)
    BY <2>1, <2>2, UpwardsAlike
  <2>. QED BY <2>3 DEF l1, h1, t1, l2, h2, t2
<1>. QED BY <1>1, <1>4, <1>5, <1>6, Zenon DEF CutAt

(* A significand is cut where the value it stands for is.                  *)
CutShifted(x, n, k, num) ==
  /\ Weighs(x, k, num, 1) /\ n \in Nat /\ InTable(n) /\ InTable(k + n) /\ k + n >= 0

LEMMA CutCarried ==
  ASSUME NEW s, NEW md, NEW m, NEW up, NEW ls, NEW x, NEW n, NEW k, NEW num,
         CutShifted(x, n, k, num), CutAt(s, m, x, Pow2[n], up, ls, md)
  PROVE  CutAt(s, m, num, Pow2[k + n], up, ls, md)
<1>1. /\ x \in Nat /\ k \in Int /\ n \in Nat /\ num \in Nat /\ InTable(k) /\ InTable(n)
      /\ InTable(k + n) /\ k + n >= 0 /\ n \in 0..MaxShift /\ k + n \in 0..MaxShift
      /\ x * (1 * Over(k)) = num * Under(k)
  BY Widths DEF CutShifted, Weighs, InTable
<1>2. /\ Over(k) \in Nat /\ Over(k) >= 1 /\ Under(k) \in Nat /\ Under(k) >= 1
      /\ Pow2[n] \in Nat /\ Pow2[n] >= 1 /\ Pow2[k + n] \in Nat /\ Pow2[k + n] >= 1
      /\ Under(k + n) = 1 /\ Over(k + n) = Pow2[k + n]
  <2>1. Over(k) \in Nat /\ Over(k) >= 1 /\ Under(k) \in Nat /\ Under(k) >= 1
    BY <1>1, OverUnder
  <2>2. Under(k + n) = 1 /\ Over(k + n) = Pow2[k + n]
    BY <1>1 DEF Over, Under
  <2>. QED BY <1>1, <2>1, <2>2, Pow2Positive
<1>3. (Over(k) * Pow2[n]) * Under(k + n) = Under(k) * Over(k + n)
  BY <1>1, OverSum
<1>. DEFINE P == x * Over(k)
            Q == Pow2[n] * Over(k)
<1>4. P = num * Under(k) /\ Q = Pow2[k + n] * Under(k)
  BY <1>1, <1>2, <1>3, Z3
<1>5. SameRatioAs(x, Pow2[n], Over(k), P, Q)
  BY <1>1, <1>2 DEF SameRatioAs
<1>6. SameRatioAs(num, Pow2[k + n], Under(k), P, Q)
  BY <1>1, <1>2, <1>4 DEF SameRatioAs
<1>. HIDE DEF P, Q
<1>7. CutAt(s, m, P, Q, up, ls, md)
  BY <1>5, CutRatio, Zenon
<1>. QED BY <1>6, <1>7, CutRatio, Zenon
=============================================================================

--------------------------- MODULE Convert64Proofs ---------------------------
(***************************************************************************)
(* What src/src/convert.cpp returns, for every format, every narrower one  *)
(* and every set of integer widths: the rounded significand RoundOff cuts  *)
(* off is the neighbour that the rounding of the exact value picks.        *)
(***************************************************************************)
EXTENDS Convert64, Rounding64Proofs

(* What is proved of a format holds of the narrow one.                     *)
NR == INSTANCE Rounding64Proofs WITH FracBits <- NarrowFracBits, ExpBits <- NarrowExpBits

---------------------------------------------------------------------------
(* A number cut at a multiple of D = 2 * H * U, in units of U.             *)
LEMMA ScaledCut ==
  ASSUME NEW m \in Nat, NEW r \in Nat, NEW H \in Nat, H >= 1, r < 2 * H, NEW U \in Nat, U >= 1,
         NEW D, D = (2 * H) * U, NEW num, num = (m * (2 * H) + r) * U
  PROVE  /\ num \in Nat /\ D \in Nat /\ D >= 1
         /\ m * D <= num /\ num < (m + 1) * D
         /\ num = m * D <=> r = 0
         /\ 2 * num >= (2 * m + 1) * D <=> H <= r
         /\ 2 * num = (2 * m + 1) * D <=> r = H
<1>. DEFINE h == H * U
            q == r * U
            p == m * D
<1>1. h \in Nat /\ q \in Nat /\ h >= 1 /\ D = 2 * h
  <2>1. h \in Nat /\ q \in Nat /\ h >= 1
    BY Z3
  <2>2. D = 2 * h
    BY Z3
  <2>. QED BY <2>1, <2>2
<1>2. p \in Nat /\ num = p + q
  <2>1. p \in Nat
    BY <1>1
  <2>2. num = p + q
    BY Z3
  <2>. QED BY <2>1, <2>2
<1>3. (m + 1) * D = p + D /\ (2 * m + 1) * D = 2 * p + D
  BY <1>1, Z3
<1>4. /\ q < 2 * h
      /\ q = 0 <=> r = 0
      /\ h <= q <=> H <= r
      /\ h = q <=> r = H
  <2>1. q < 2 * h
    <3>1. (2 * H - r) * U >= 1
      BY Z3
    <3>. QED BY <3>1, Z3
  <2>2. q = 0 <=> r = 0
    BY Z3
  <2>3. r < H => q < h
    <3>1. r < H => (H - r) * U >= 1
      BY Z3
    <3>. QED BY <3>1, Z3
  <2>4. r > H => q > h
    <3>1. r > H => (r - H) * U >= 1
      BY Z3
    <3>. QED BY <3>1, Z3
  <2>5. r = H => q = h
    OBVIOUS
  <2>. HIDE DEF h, q
  <2>. QED BY <1>1, <2>1, <2>2, <2>3, <2>4, <2>5
<1>. HIDE DEF h, q, p
<1>5. p = m * D
  BY DEF p
<1>. QED BY <1>1, <1>2, <1>3, <1>4, <1>5

(* RoundOff rounds num = x * U to a multiple of D = 2^n * U.               *)
Scaled(x, n, U, D, num) == D = Pow2[n] * U /\ num = x * U

LEMMA RoundOffCut ==
  ASSUME NEW s \in {0, 1}, NEW md \in Modes, NEW x \in Nat, NEW n \in 1..MaxShift,
         NEW U \in Nat, U >= 1, NEW D, NEW num, Scaled(x, n, U, D, num)
  PROVE  \E m, up, ls :
           /\ m = x \div Pow2[n]
           /\ CutAt(s, m, num, D, up, ls, md)
           /\ RoundOff(x, n, s, md).int = (IF up THEN m + 1 ELSE m)
           /\ RoundOff(x, n, s, md).exact <=> ~ ls
<1>. DEFINE H == Pow2[n - 1]
<1>1. H \in Nat /\ H >= 1 /\ Pow2[n] = 2 * H
  <2>1. n - 1 \in 0..MaxShift /\ n - 1 \in Nat /\ (n - 1) + 1 = n
    BY Widths
  <2>2. Pow2[(n - 1) + 1] = 2 * Pow2[n - 1]
    BY <2>1, Pow2Step, Widths
  <2>. QED BY <2>1, <2>2, Pow2Positive
<1>. DEFINE m == x \div Pow2[n]
<1>. HIDE DEF H
<1>0. m = x \div (2 * H)
  BY <1>1
<1>. HIDE DEF m
<1>2. PICK r \in Nat :
        /\ m \in Nat
        /\ r < 2 * H /\ x = m * (2 * H) + r
        /\ (x \div H) % 2 = 1 <=> H <= r
        /\ (x % H) # 0 <=> r # 0 /\ r # H
  <2>1. PICK k \in Nat, r \in Nat :
           /\ k = x \div (2 * H) /\ r < 2 * H /\ x = k * (2 * H) + r
           /\ (x \div H) % 2 = 1 <=> H <= r
           /\ (x % H) # 0 <=> r # 0 /\ r # H
    BY <1>1, CutAtHalf
  <2>2. m = k
    BY <1>0, <2>1
  <2>. QED BY <2>1, <2>2, Zenon
<1>3. m \in Nat
  BY <1>2
<1>4. /\ num \in Nat /\ D \in Nat /\ D >= 1
      /\ m * D <= num /\ num < (m + 1) * D
      /\ num = m * D <=> r = 0
      /\ 2 * num >= (2 * m + 1) * D <=> H <= r
      /\ 2 * num = (2 * m + 1) * D <=> r = H
  <2>1. D = (2 * H) * U /\ num = (m * (2 * H) + r) * U
    BY <1>1, <1>2, Zenon DEF Scaled
  <2>2. r < 2 * H
    BY <1>2
  <2>. QED BY <1>1, <1>3, <2>1, <2>2, ScaledCut
<1>. DEFINE lost == num # m * D
            half == 2 * num >= (2 * m + 1) * D
            tie == 2 * num = (2 * m + 1) * D
<1>5. PICK bit \in BOOLEAN : bit <=> (x \div H) % 2 = 1
  OBVIOUS
<1>6. PICK sticky \in BOOLEAN : sticky <=> (x % H) # 0
  OBVIOUS
<1>7. /\ (bit \/ sticky) <=> lost
      /\ bit <=> half
      /\ sticky => ~ tie
      /\ bit /\ ~ sticky => tie
  <2>1. /\ lost <=> r # 0
        /\ half <=> H <= r
        /\ tie <=> r = H
    BY <1>4
  <2>. HIDE DEF lost, half, tie
  <2>. QED BY <1>1, <1>2, <1>5, <1>6, <2>1
<1>8. lost \in BOOLEAN /\ half \in BOOLEAN /\ tie \in BOOLEAN
  OBVIOUS
<1>. HIDE DEF lost, half, tie
<1>9. ShouldRoundUp(s, bit, sticky, m % 2 = 1, md) <=> Upwards(s, m, lost, half, tie, md)
  BY <1>7, <1>8, SameDirection
<1>10. PICK up \in BOOLEAN : up <=> ShouldRoundUp(s, bit, sticky, m % 2 = 1, md)
  OBVIOUS
<1>11. /\ RoundOff(x, n, s, md).int = (IF up THEN m + 1 ELSE m)
       /\ RoundOff(x, n, s, md).exact <=> ~ bit /\ ~ sticky
  <2>1. m = x \div Pow2[n] /\ (BitSet(x, n - 1) <=> bit) /\ ((x % Pow2[n - 1] # 0) <=> sticky)
    BY <1>1, <1>2, <1>5, <1>6 DEF BitSet, H, m
  <2>2. ShouldRoundUp(s, BitSet(x, n - 1), x % Pow2[n - 1] # 0, m % 2 = 1, md) <=> up
    BY <1>10, <2>1 DEF ShouldRoundUp
  <2>. QED BY <2>1, <2>2, Zenon DEF RoundOff
<1>12. RoundOff(x, n, s, md).exact <=> num = m * D
  BY <1>7, <1>11 DEF lost
<1>13. up <=> Upwards(s, m, num # m * D, 2 * num >= (2 * m + 1) * D, 2 * num = (2 * m + 1) * D, md)
  BY <1>9, <1>10 DEF lost, half, tie
<1>14. CutAt(s, m, num, D, up, lost, md)
  BY <1>3, <1>4, <1>8, <1>13 DEF CutAt, lost
<1>15. m = x \div Pow2[n] /\ (RoundOff(x, n, s, md).exact <=> ~ lost)
  BY <1>12 DEF lost, m
<1>. HIDE DEF lost, m
<1>. WITNESS m, up, lost
<1>. QED BY <1>11, <1>14, <1>15

---------------------------------------------------------------------------
(* binary64 to integer: the integer nearest to a finite number, and what   *)
(* each handler leaves for the clamp.                                      *)
One == Pow2[Ref!LogOne]
Nearest(v, md) == Ref!NearestInteger(v.s, Ref!Mag(v), One, md)

LEMMA Bounds ==
  /\ IntBits \in Nat /\ FracBits + 2 <= IntBits /\ IntBits <= Bias /\ Bias >= 4
  /\ ExpMax = 2 * Bias + 1 /\ ExpMax + FracBits < MaxShift
  /\ FracBits \in Nat /\ Bias \in Nat /\ MaxShift \in Nat
  /\ IntWidths \subseteq 1..IntBits
<1>1. Bias >= 4
  BY ConvertAssumption, Fields, Widths DEF ConvertAssumption
<1>. QED BY <1>1, ConvertAssumption, Fields, Widths DEF ConvertAssumption

LEMMA OneFacts ==
  /\ One = Pow2[FracBits + Bias - 1] /\ One \in Nat /\ One >= 1
  /\ One = ImplicitBit * Unit(Bias)
  /\ \A k \in 0..FracBits : Pow2[k] * Unit(Bias + (FracBits - k)) = One
  /\ \A k \in 0..(Bias - FracBits) : Unit(Bias + (FracBits + k)) = Pow2[k] * One
<1>1. One = Pow2[FracBits + Bias - 1]
  BY SameFormat DEF One
<1>2. FracBits + Bias - 1 \in 0..MaxShift
  BY Bounds
<1>3. One \in Nat /\ One >= 1
  BY <1>1, <1>2, Pow2Positive
<1>4. \A k \in 0..FracBits : Pow2[k] * Unit(Bias + (FracBits - k)) = One
  <2>. SUFFICES ASSUME NEW k \in 0..FracBits
                PROVE  Pow2[k] * Unit(Bias + (FracBits - k)) = One
    OBVIOUS
  <2>. DEFINE j == (Bias + (FracBits - k)) - 1
  <2>1. j \in Nat /\ k \in Nat /\ k + j = FracBits + Bias - 1 /\ k + j <= MaxShift
    BY Bounds
  <2>2. Unit(Bias + (FracBits - k)) = Pow2[j]
    BY DEF Unit
  <2>. HIDE DEF j
  <2>3. Pow2[k + j] = Pow2[k] * Pow2[j]
    BY <2>1, Pow2Sum
  <2>. QED BY <1>1, <2>1, <2>2, <2>3
<1>5. \A k \in 0..(Bias - FracBits) : Unit(Bias + (FracBits + k)) = Pow2[k] * One
  <2>. SUFFICES ASSUME NEW k \in 0..(Bias - FracBits)
                PROVE  Unit(Bias + (FracBits + k)) = Pow2[k] * One
    OBVIOUS
  <2>. DEFINE j == FracBits + Bias - 1
  <2>1. j \in Nat /\ k \in Nat /\ k + j = (Bias + (FracBits + k)) - 1 /\ k + j <= MaxShift
    BY Bounds
  <2>2. Unit(Bias + (FracBits + k)) = Pow2[k + j] /\ One = Pow2[j]
    BY <1>1, <2>1 DEF Unit
  <2>. HIDE DEF j
  <2>3. Pow2[k + j] = Pow2[k] * Pow2[j]
    BY <2>1, Pow2Sum
  <2>. QED BY <2>2, <2>3
<1>6. One = ImplicitBit * Unit(Bias)
  <2>1. FracBits \in 0..FracBits /\ Bias + (FracBits - FracBits) = Bias
    BY Bounds
  <2>. QED BY <1>4, <2>1 DEF ImplicitBit
<1>. QED BY <1>1, <1>3, <1>4, <1>5, <1>6, Bounds

(* A number below one half.                                                *)
LEMMA BelowHalfOne ==
  ASSUME NEW v \in Values, v.e < ExpMax, ~ IsZero(v), v.e = 0 \/ v.e - Bias < -1
  PROVE  Ref!Mag(v) \in Nat /\ Ref!Mag(v) >= 1 /\ 2 * Ref!Mag(v) < One
<1>. DEFINE b == Binade(v.e)
            w == Whole(v)
            M == Ref!Mag(v)
<1>1. b \in 1..(ExpMax - 1) /\ w \in Nat /\ M = w * Unit(b) /\ w < 2 * ImplicitBit
  BY ValueAt
<1>2. (v.e \in Nat /\ v.e <= Bias - 2) \/ v.e = 0
  BY Bounds DEF Values
<1>3. M \in Nat /\ M >= 1
  BY OperandMagnitude
<1>4. b <= Bias - 2
  BY <1>2, Bounds DEF Binade, Values
<1>5. /\ Unit(b) \in Nat /\ Unit(b) >= 1 /\ Unit(Bias) \in Nat
      /\ 4 * Unit(b) <= Unit(Bias)
  <2>1. Unit(Bias) = 2 * Unit(Bias - 1) /\ Unit(Bias - 1) = 2 * Unit(Bias - 2)
    <3>1. Bias - 2 \in 1..ExpMax /\ Bias - 1 \in 1..ExpMax /\ (Bias - 2) + 1 = Bias - 1 /\ (Bias - 1) + 1 = Bias
          /\ Bias - 2 < ExpMax /\ Bias - 1 < ExpMax
      BY Bounds
    <3>. QED BY <3>1, UnitFacts
  <2>2. Unit(b) <= Unit(Bias - 2)
    <3>1. b - 1 \in Nat /\ (Bias - 2) - 1 \in Nat /\ b - 1 <= (Bias - 2) - 1 /\ (Bias - 2) - 1 <= MaxShift
      BY <1>1, <1>4, Bounds
    <3>. QED BY <3>1, Pow2Monotone DEF Unit
  <2>3. Unit(b) \in Nat /\ Unit(b) >= 1
    <3>. HIDE DEF b
    <3>1. b \in 1..ExpMax
      BY <1>1, Bounds
    <3>. QED BY <3>1, UnitFacts
  <2>4. Unit(Bias - 2) \in Nat
    <3>1. Bias - 2 \in 1..ExpMax
      BY Bounds
    <3>. QED BY <3>1, UnitFacts
  <2>. QED BY <2>1, <2>2, <2>3, <2>4
<1>6. ImplicitBit \in Nat /\ ImplicitBit >= 4
  BY GuardPowers
<1>7. One = ImplicitBit * Unit(Bias)
  BY OneFacts
<1>. HIDE DEF b, w, M
<1>8. 2 * (w * Unit(b)) < 4 * (ImplicitBit * Unit(b))
  <2>1. (2 * ImplicitBit - w) * Unit(b) >= 1
    BY <1>1, <1>5, <1>6, Z3
  <2>. QED BY <1>1, <1>5, <1>6, <2>1, Z3
<1>9. ImplicitBit * (4 * Unit(b)) <= ImplicitBit * Unit(Bias)
  <2>1. ImplicitBit * (Unit(Bias) - 4 * Unit(b)) >= 0
    BY <1>5, <1>6, Z3
  <2>. QED BY <1>5, <1>6, <2>1, Z3
<1>10. ImplicitBit * (4 * Unit(b)) = 4 * (ImplicitBit * Unit(b))
  BY <1>5, <1>6, Z3
<1>11. 2 * M < One
  <2>1. w * Unit(b) \in Nat /\ ImplicitBit * Unit(b) \in Nat /\ ImplicitBit * Unit(Bias) \in Nat
    BY <1>1, <1>5, <1>6, Z3
  <2>. QED BY <1>1, <1>7, <1>8, <1>9, <1>10, <2>1
<1>. QED BY <1>3, <1>11 DEF M

(* The number nearest to what is below one half is 0, or 1 away from zero. *)
LEMMA NearestBelowHalf ==
  ASSUME NEW s \in {0, 1}, NEW md \in Modes, NEW num \in Nat, num >= 1, 2 * num < One
  PROVE  /\ Ref!NearestInteger(s, num, One, md) = (IF AwayFromZero(s, md) THEN 1 ELSE 0)
         /\ num % One # 0
<1>1. One \in Nat /\ One >= 1
  BY OneFacts
<1>2. 0 * One <= num /\ num < (0 + 1) * One
  BY <1>1
<1>3. /\ Ref!NearestInteger(s, num, One, md) =
           (IF Upwards(s, 0, num # 0 * One, 2 * num >= (2 * 0 + 1) * One,
                       2 * num = (2 * 0 + 1) * One, md)
            THEN 0 + 1 ELSE 0)
      /\ num % One = 0 <=> num = 0 * One
  BY <1>1, <1>2, NearestAt
<1>4. num # 0 * One /\ ~ (2 * num >= (2 * 0 + 1) * One) /\ ~ (2 * num = (2 * 0 + 1) * One)
  BY <1>1
<1>5. Upwards(s, 0, num # 0 * One, 2 * num >= (2 * 0 + 1) * One, 2 * num = (2 * 0 + 1) * One, md)
        <=> AwayFromZero(s, md)
  BY <1>4 DEF Upwards, AwayFromZero, Modes
<1>. QED BY <1>3, <1>4, <1>5

(* One half is a tie, and from there to one the nearer integer is 1.       *)
LEMMA HalfDirection ==
  ASSUME NEW s \in {0, 1}, NEW md \in Modes, NEW sticky \in BOOLEAN,
         NEW lost \in BOOLEAN, NEW half \in BOOLEAN, NEW tie \in BOOLEAN,
         lost, half, tie <=> ~ sticky
  PROVE  ShouldRoundUp(s, TRUE, sticky, FALSE, md) <=> Upwards(s, 0, lost, half, tie, md)
<1>1. ~ (0 % 2 = 1)
  OBVIOUS
<1>2. CASE md = "RTZ"
  BY <1>2 DEF ShouldRoundUp, Upwards
<1>3. CASE md = "RUP"
  BY <1>3 DEF ShouldRoundUp, Upwards
<1>4. CASE md = "RDN"
  BY <1>4 DEF ShouldRoundUp, Upwards
<1>5. CASE md = "RNA"
  BY <1>5 DEF ShouldRoundUp, Upwards
<1>6. CASE md = "RNE"
  BY <1>1, <1>6 DEF ShouldRoundUp, Upwards
<1>. QED BY <1>2, <1>3, <1>4, <1>5, <1>6 DEF Modes

(* From one half to one.                                                   *)
LEMMA NearestFromHalf ==
  ASSUME NEW v \in Values, v.e = Bias - 1, NEW md \in Modes
  PROVE  /\ Nearest(v, md) = (IF ShouldRoundUp(v.s, TRUE, v.f # 0, FALSE, md) THEN 1 ELSE 0)
         /\ Ref!Mag(v) % One # 0
<1>. DEFINE num == Ref!Mag(v)
            U == Unit(Bias - 1)
<1>1. v.s \in {0, 1} /\ v.f \in Nat /\ v.f < ImplicitBit /\ ImplicitBit \in Nat /\ ImplicitBit >= 4
  BY GuardPowers DEF Values
<1>2. num = (v.f + ImplicitBit) * U
  <2>1. Binade(v.e) = Bias - 1 /\ Whole(v) = v.f + ImplicitBit /\ v.e < ExpMax
    BY Bounds DEF Binade, Whole
  <2>. QED BY <2>1, ValueAt
<1>3. U \in Nat /\ U >= 1 /\ One = ImplicitBit * (2 * U)
  <2>1. Bias - 1 \in 1..ExpMax /\ Bias - 1 < ExpMax /\ (Bias - 1) + 1 = Bias
    BY Bounds
  <2>2. U \in Nat /\ U >= 1 /\ Unit(Bias) = 2 * U
    BY <2>1, UnitFacts
  <2>. QED BY <2>2, OneFacts
<1>. HIDE DEF num, U
<1>4. One = 2 * (ImplicitBit * U) /\ num = v.f * U + ImplicitBit * U
      /\ ImplicitBit * U \in Nat /\ v.f * U \in Nat
  <2>1. One = 2 * (ImplicitBit * U)
    BY <1>1, <1>3, Z3
  <2>2. num = v.f * U + ImplicitBit * U
    BY <1>1, <1>2, <1>3, Z3
  <2>3. ImplicitBit * U \in Nat /\ v.f * U \in Nat
    BY <1>1, <1>3, Z3
  <2>. QED BY <2>1, <2>2, <2>3
<1>5. /\ v.f * U < ImplicitBit * U /\ ImplicitBit * U >= 1
      /\ v.f * U = 0 <=> v.f = 0
  <2>1. (ImplicitBit - v.f) * U >= 1 /\ ImplicitBit * U >= 1
    BY <1>1, <1>3, Z3
  <2>2. v.f * U = 0 <=> v.f = 0
    BY <1>1, <1>3, Z3
  <2>3. (ImplicitBit - v.f) * U = ImplicitBit * U - v.f * U
    BY <1>1, <1>3, Z3
  <2>. QED BY <1>4, <2>1, <2>2, <2>3
<1>6. num \in Nat /\ One \in Nat /\ One >= 1 /\ 0 * One <= num /\ num < (0 + 1) * One
  BY <1>4, <1>5
<1>. DEFINE lost == num # 0 * One
            half == 2 * num >= (2 * 0 + 1) * One
            tie == 2 * num = (2 * 0 + 1) * One
<1>7. /\ Nearest(v, md) = (IF Upwards(v.s, 0, lost, half, tie, md) THEN 0 + 1 ELSE 0)
      /\ num % One = 0 <=> num = 0 * One
  BY <1>1, <1>6, NearestAt DEF Nearest, num
<1>8. lost /\ half /\ (tie <=> v.f = 0)
  BY <1>4, <1>5
<1>9. lost \in BOOLEAN /\ half \in BOOLEAN /\ tie \in BOOLEAN
  OBVIOUS
<1>. HIDE DEF lost, half, tie
<1>10. PICK sticky \in BOOLEAN : sticky <=> v.f # 0
  OBVIOUS
<1>11. ShouldRoundUp(v.s, TRUE, sticky, FALSE, md) <=> Upwards(v.s, 0, lost, half, tie, md)
  BY <1>1, <1>8, <1>9, <1>10, HalfDirection
<1>12. ShouldRoundUp(v.s, TRUE, v.f # 0, FALSE, md) <=> Upwards(v.s, 0, lost, half, tie, md)
  <2>1. (v.f # 0) = sticky
    BY <1>10
  <2>. QED BY <1>11, <2>1
<1>13. num # 0 * One
  BY <1>8 DEF lost
<1>14. Nearest(v, md) = (IF ShouldRoundUp(v.s, TRUE, v.f # 0, FALSE, md) THEN 1 ELSE 0)
  <2>1. 0 + 1 = 1
    OBVIOUS
  <2>. QED BY <1>7, <1>12, <2>1, Zenon
<1>. QED BY <1>7, <1>13, <1>14 DEF num

LEMMA NearestOfWhole ==
  ASSUME NEW s \in {0, 1}, NEW md \in Modes, NEW k \in Nat
  PROVE  Ref!NearestInteger(s, k * One, One, md) = k /\ (k * One) % One = 0
<1>1. One \in Nat /\ One >= 1
  BY OneFacts
<1>. DEFINE num == k * One
<1>2. k * One \in Nat /\ num = k * One /\ (k + 1) * One = k * One + One
  BY <1>1, Z3
<1>. HIDE DEF num
<1>3. num \in Nat /\ num = k * One /\ num < (k + 1) * One
      /\ (2 * k + 1) * One = 2 * (k * One) + One
  <2>1. (2 * k + 1) * One = 2 * (k * One) + One
    BY <1>1, Z3
  <2>. QED BY <1>1, <1>2, <2>1
<1>. DEFINE lost == num # k * One
            half == 2 * num >= (2 * k + 1) * One
            tie == 2 * num = (2 * k + 1) * One
<1>4. ~ lost /\ ~ half /\ ~ tie
  BY <1>1, <1>3
<1>. HIDE DEF lost, half, tie
<1>5. ~ Upwards(s, k, lost, half, tie, md)
  BY <1>4 DEF Upwards, Modes
<1>6. PICK no \in BOOLEAN : ~ no
  OBVIOUS
<1>7. CutAt(s, k, num, One, no, no, md)
  BY <1>1, <1>3, <1>4, <1>5, <1>6 DEF CutAt, lost, half, tie
<1>8. /\ Ref!NearestInteger(s, num, One, md) = (IF no THEN k + 1 ELSE k)
      /\ num % One = 0 <=> ~ no
  BY <1>7, NearestCut
<1>. QED BY <1>6, <1>8 DEF num

LEMMA WholeMagnitude ==
  ASSUME NEW v \in Values, v.e < ExpMax, NEW k \in Nat, v.e = Bias + (FracBits + k)
  PROVE  /\ (v.f + ImplicitBit) * Pow2[k] \in Nat
         /\ Pow2[FracBits + k] <= (v.f + ImplicitBit) * Pow2[k]
         /\ Ref!Mag(v) = ((v.f + ImplicitBit) * Pow2[k]) * One
<1>. DEFINE w == v.f + ImplicitBit
            p == Pow2[k]
<1>1. k \in 0..(Bias - FracBits) /\ k <= MaxShift /\ FracBits + k <= MaxShift
  BY Bounds DEF Values
<1>2. p \in Nat /\ p >= 1 /\ Pow2[FracBits + k] = ImplicitBit * p
  BY <1>1, Pow2Positive, Pow2Sum, Bounds DEF ImplicitBit
<1>3. w \in Nat /\ ImplicitBit <= w /\ ImplicitBit \in Nat
  BY GuardPowers DEF Values
<1>4. Ref!Mag(v) = w * (p * One)
  <2>1. Binade(v.e) = v.e /\ Whole(v) = w
    BY Bounds DEF Binade, Whole
  <2>2. Unit(v.e) = p * One
    BY <1>1, OneFacts
  <2>. QED BY <2>1, <2>2, ValueAt
<1>5. One \in Nat
  BY OneFacts
<1>. HIDE DEF w, p
<1>6. w * (p * One) = (w * p) * One /\ w * p \in Nat
  BY <1>2, <1>3, <1>5, Z3
<1>7. ImplicitBit * p <= w * p
  <2>1. (w - ImplicitBit) * p >= 0
    BY <1>2, <1>3, Z3
  <2>. QED BY <1>2, <1>3, <2>1, Z3
<1>8. /\ w * p \in Nat /\ Pow2[FracBits + k] <= w * p
      /\ Ref!Mag(v) = (w * p) * One
  BY <1>2, <1>4, <1>6, <1>7
<1>. QED BY <1>8 DEF w, p

LEMMA NearestWithFraction ==
  ASSUME NEW v \in Values, NEW n \in 1..FracBits, v.e = Bias + (FracBits - n), NEW md \in Modes
  PROVE  /\ RoundOff(v.f + ImplicitBit, n, v.s, md).int = Nearest(v, md)
         /\ RoundOff(v.f + ImplicitBit, n, v.s, md).exact <=> Ref!Mag(v) % One = 0
<1>. DEFINE w == v.f + ImplicitBit
            U == Unit(v.e)
            num == Ref!Mag(v)
            r == RoundOff(w, n, v.s, md)
<1>1. w \in Nat /\ v.s \in {0, 1} /\ n \in 1..MaxShift
  BY GuardPowers, Bounds DEF Values
<1>2. U \in Nat /\ U >= 1
  <2>1. v.e \in 1..ExpMax
    BY Bounds
  <2>. QED BY <2>1, UnitFacts
<1>3. One = Pow2[n] * U
  BY OneFacts
<1>4. num = w * U
  <2>1. Binade(v.e) = v.e /\ Whole(v) = w /\ v.e < ExpMax
    BY Bounds DEF Binade, Whole
  <2>. QED BY <2>1, ValueAt
<1>5. Scaled(w, n, U, One, num)
  BY <1>3, <1>4 DEF Scaled
<1>. HIDE DEF w, U, num, r
<1>6. PICK m, up, ls :
        /\ m = w \div Pow2[n]
        /\ CutAt(v.s, m, num, One, up, ls, md)
        /\ r.int = (IF up THEN m + 1 ELSE m)
        /\ r.exact <=> ~ ls
  BY <1>1, <1>2, <1>5, RoundOffCut DEF r
<1>7. /\ Ref!NearestInteger(v.s, num, One, md) = (IF up THEN m + 1 ELSE m)
      /\ num % One = 0 <=> ~ ls
  BY <1>1, <1>6, NearestCut
<1>8. Ref!NearestInteger(v.s, num, One, md) = r.int
  BY <1>6, <1>7, Zenon
<1>9. r.exact <=> num % One = 0
  BY <1>6, <1>7, Zenon
<1>. QED BY <1>8, <1>9 DEF Nearest, num, r, w

---------------------------------------------------------------------------
(* What the clamp finds: either the nearest integer, or that the number is *)
(* an integer beyond every type.                                           *)
ClampedTo(c, y, g) ==
  /\ c \in ToInts /\ ~ IsNaN(c.v)
  /\ IsInf(c.v) => y.large /\ g = {"invalid"}
  /\ ~ IsInf(c.v) =>
       /\ Nearest(c.v, c.mode) \in Nat
       /\ y.large => /\ Pow2[IntBits] <= Nearest(c.v, c.mode)
                     /\ Ref!Mag(c.v) % One = 0 /\ g = {"invalid"}
       /\ ~ y.large => /\ y.mag = Nearest(c.v, c.mode)
                       /\ g = Tells(Ref!Mag(c.v) % One = 0)
Clamped == ClampedTo(call, z, fe)

LEMMA ToIntCall ==
  ASSUME call \in ToInts
  PROVE  /\ call.v \in Values /\ call.v.s \in {0, 1} /\ call.mode \in Modes
         /\ call.width \in IntWidths /\ call.signed \in BOOLEAN /\ call.op = "toInt"
         /\ call.v.e < ExpMax => ~ IsNaN(call.v) /\ ~ IsInf(call.v)
<1>1. call.v \in Values /\ call.mode \in Modes /\ call.width \in IntWidths
      /\ call.signed \in BOOLEAN /\ call.op = "toInt"
  BY DEF ToInts
<1>2. call.v.s \in {0, 1}
  BY <1>1 DEF Values
<1>3. call.v.e < ExpMax => ~ IsNaN(call.v) /\ ~ IsInf(call.v)
  BY <1>1, Fields DEF IsNaN, IsInf, Values
<1>. QED BY <1>1, <1>2, <1>3

LEMMA ClampedBy ==
  ASSUME call \in ToInts, call.v.e < ExpMax, NEW mag, NEW large \in BOOLEAN, NEW flags,
         Clamp(mag, large, flags), Nearest(call.v, call.mode) \in Nat,
         \/ /\ ~ large /\ mag = Nearest(call.v, call.mode)
            /\ flags = Tells(Ref!Mag(call.v) % One = 0)
         \/ /\ large /\ Pow2[IntBits] <= Nearest(call.v, call.mode)
            /\ Ref!Mag(call.v) % One = 0 /\ flags = {"invalid"}
  PROVE  Clamped'
<1>1. ~ IsNaN(call.v) /\ ~ IsInf(call.v)
  BY ToIntCall
<1>2. call' = call /\ z' = [mag |-> mag, large |-> large] /\ fe' = flags
  BY DEF Clamp
<1>3. z'.mag = mag /\ z'.large = large
  BY <1>2
<1>4. ClampedTo(call, z', fe')
  BY <1>1, <1>2, <1>3 DEF ClampedTo
<1>. QED BY <1>2, <1>4 DEF Clamped

LEMMA NearestType ==
  ASSUME NEW v \in Values, v.e < ExpMax, NEW md \in Modes
  PROVE  Nearest(v, md) \in Nat
<1>1. Ref!Mag(v) \in Nat
  <2>1. /\ Binade(v.e) \in 1..(ExpMax - 1) /\ Whole(v) \in Nat
        /\ Ref!Mag(v) = Whole(v) * Unit(Binade(v.e))
    BY ValueAt
  <2>2. Binade(v.e) \in 1..ExpMax
    BY <2>1, Fields
  <2>3. Unit(Binade(v.e)) \in Nat
    BY <2>2, UnitFacts
  <2>. QED BY <2>1, <2>3, Z3
<1>2. One \in Nat /\ One >= 1
  BY OneFacts
<1>3. Ref!Mag(v) \div One \in Nat
  BY <1>1, <1>2, Split
<1>4. \/ Ref!NearestInteger(v.s, Ref!Mag(v), One, md) = Ref!Mag(v) \div One
      \/ Ref!NearestInteger(v.s, Ref!Mag(v), One, md) = Ref!Mag(v) \div One + 1
  BY Zenon DEF Ref!NearestInteger
<1>. QED BY <1>3, <1>4 DEF Nearest

LEMMA ZeroClamped ==
  ASSUME call \in ToInts, ToIntOfZero
  PROVE  Clamped'
<1>1. /\ call.v.e < ExpMax /\ call.v \in Values /\ call.v.s \in {0, 1} /\ call.mode \in Modes
      /\ Clamp(0, FALSE, {}) /\ IsZero(call.v)
  BY ToIntCall DEF ToIntOfZero, NumberToInt
<1>2. Ref!Mag(call.v) = 0
  <2>1. Binade(call.v.e) = 1 /\ Whole(call.v) = 0 /\ Unit(1) \in Nat
    BY <1>1, Fields, UnitFacts DEF Binade, Whole, IsZero
  <2>2. Ref!Mag(call.v) = 0 * Unit(1)
    BY <1>1, <2>1, ValueAt
  <2>. QED BY <2>1, <2>2
<1>3. 0 * One = 0
  BY OneFacts
<1>4. Nearest(call.v, call.mode) = 0 /\ Ref!Mag(call.v) % One = 0
  <2>1. Ref!NearestInteger(call.v.s, 0 * One, One, call.mode) = 0 /\ (0 * One) % One = 0
    BY <1>1, NearestOfWhole
  <2>. QED BY <1>2, <1>3, <2>1 DEF Nearest
<1>5. {} = Tells(Ref!Mag(call.v) % One = 0)
  BY <1>4 DEF Tells
<1>6. Nearest(call.v, call.mode) \in Nat
  BY <1>4
<1>. QED BY <1>1, <1>4, <1>5, <1>6, ClampedBy

LEMMA BelowHalfClamped ==
  ASSUME call \in ToInts, BelowHalf
  PROVE  Clamped'
<1>. DEFINE mag == IF AwayFromZero(call.v.s, call.mode) THEN 1 ELSE 0
<1>1. /\ call.v.e < ExpMax /\ call.v \in Values /\ call.v.s \in {0, 1} /\ call.mode \in Modes
      /\ Clamp(mag, FALSE, {"inexact"}) /\ ~ IsZero(call.v)
      /\ call.v.e = 0 \/ call.v.e - Bias < -1
  BY ToIntCall DEF BelowHalf, NumberToInt, E
<1>2. Ref!Mag(call.v) \in Nat /\ Ref!Mag(call.v) >= 1 /\ 2 * Ref!Mag(call.v) < One
  BY <1>1, BelowHalfOne
<1>3. Nearest(call.v, call.mode) = mag /\ Ref!Mag(call.v) % One # 0
  BY <1>1, <1>2, NearestBelowHalf DEF Nearest
<1>4. {"inexact"} = Tells(Ref!Mag(call.v) % One = 0)
  BY <1>3 DEF Tells
<1>5. mag \in Nat
  OBVIOUS
<1>. QED BY <1>1, <1>3, <1>4, <1>5, ClampedBy

LEMMA HalfClamped ==
  ASSUME call \in ToInts, HalfToOne
  PROVE  Clamped'
<1>. DEFINE mag == IF ShouldRoundUp(call.v.s, TRUE, call.v.f # 0, FALSE, call.mode) THEN 1 ELSE 0
<1>1. /\ call.v.e < ExpMax /\ call.v \in Values /\ call.v.s \in {0, 1} /\ call.mode \in Modes
      /\ Clamp(mag, FALSE, {"inexact"}) /\ call.v.e = Bias - 1
  <2>1. call.v.e - Bias = -1 /\ call.v.e \in Nat
    BY ToIntCall DEF HalfToOne, E, Values
  <2>2. call.v.e = Bias - 1
    BY <2>1, Bounds
  <2>. QED BY <2>2, ToIntCall DEF HalfToOne, NumberToInt
<1>2. Nearest(call.v, call.mode) = mag /\ Ref!Mag(call.v) % One # 0
  BY <1>1, NearestFromHalf
<1>3. {"inexact"} = Tells(Ref!Mag(call.v) % One = 0)
  BY <1>2 DEF Tells
<1>4. mag \in Nat
  OBVIOUS
<1>. QED BY <1>1, <1>2, <1>3, <1>4, ClampedBy

(* A number of at least 2^FracBits is an integer.                          *)
LEMMA NearestWhole ==
  ASSUME NEW v \in Values, v.e < ExpMax, NEW md \in Modes, FracBits <= v.e - Bias
  PROVE  /\ v.e - Bias - FracBits \in Nat
         /\ (v.f + ImplicitBit) * Pow2[v.e - Bias - FracBits] \in Nat
         /\ Nearest(v, md) = (v.f + ImplicitBit) * Pow2[v.e - Bias - FracBits]
         /\ Pow2[v.e - Bias] <= Nearest(v, md)
         /\ Ref!Mag(v) % One = 0
<1>. DEFINE k == v.e - Bias - FracBits
            x == (v.f + ImplicitBit) * Pow2[k]
<1>1. k \in Nat /\ v.e = Bias + (FracBits + k) /\ FracBits + k = v.e - Bias /\ v.s \in {0, 1}
  BY Bounds DEF Values
<1>. HIDE DEF k
<1>2. x \in Nat /\ Pow2[FracBits + k] <= x /\ Ref!Mag(v) = x * One
  BY <1>1, WholeMagnitude
<1>. HIDE DEF x
<1>3. Ref!NearestInteger(v.s, x * One, One, md) = x /\ (x * One) % One = 0
  BY <1>1, <1>2, NearestOfWhole
<1>4. Nearest(v, md) = x /\ Ref!Mag(v) % One = 0 /\ Pow2[v.e - Bias] <= x
  BY <1>1, <1>2, <1>3 DEF Nearest
<1>. QED BY <1>1, <1>2, <1>4 DEF x, k

LEMMA BeyondClamped ==
  ASSUME call \in ToInts, BeyondAnyInt
  PROVE  Clamped'
<1>1. /\ call.v.e < ExpMax /\ call.v \in Values /\ call.mode \in Modes
      /\ Clamp(Pow2[IntBits] - 1, TRUE, {"invalid"}) /\ call.v.e - Bias > IntBits - 1
  BY ToIntCall DEF BeyondAnyInt, NumberToInt, E
<1>2. FracBits <= call.v.e - Bias /\ IntBits <= call.v.e - Bias /\ call.v.e - Bias <= MaxShift
      /\ IntBits \in 0..MaxShift /\ call.v.e - Bias \in Nat
  BY <1>1, Bounds DEF Values
<1>3. Pow2[call.v.e - Bias] <= Nearest(call.v, call.mode) /\ Ref!Mag(call.v) % One = 0
  BY <1>1, <1>2, NearestWhole
<1>4. Pow2[IntBits] <= Pow2[call.v.e - Bias]
  BY <1>2, Pow2Monotone
<1>5. Nearest(call.v, call.mode) \in Nat
  BY <1>1, NearestType
<1>6. Pow2[IntBits] <= Nearest(call.v, call.mode)
  <2>1. Pow2[IntBits] \in Nat /\ Pow2[call.v.e - Bias] \in Nat
    BY <1>2, Pow2Positive
  <2>. QED BY <1>3, <1>4, <1>5, <2>1
<1>. QED BY <1>1, <1>3, <1>5, <1>6, ClampedBy

LEMMA WholeClamped ==
  ASSUME call \in ToInts, WholeNumber
  PROVE  Clamped'
<1>1. /\ call.v.e < ExpMax /\ call.v \in Values /\ call.mode \in Modes
      /\ Clamp((call.v.f + ImplicitBit) * Pow2[call.v.e - Bias - FracBits], FALSE, {})
      /\ FracBits <= call.v.e - Bias
  BY ToIntCall DEF WholeNumber, NumberToInt, E, Mant
<1>2. /\ Nearest(call.v, call.mode) = (call.v.f + ImplicitBit) * Pow2[call.v.e - Bias - FracBits]
      /\ Ref!Mag(call.v) % One = 0
  BY <1>1, NearestWhole
<1>3. {} = Tells(Ref!Mag(call.v) % One = 0)
  BY <1>2 DEF Tells
<1>4. Nearest(call.v, call.mode) \in Nat
  BY <1>1, NearestType
<1>. QED BY <1>1, <1>2, <1>3, <1>4, ClampedBy

LEMMA FractionClamped ==
  ASSUME call \in ToInts, WithFraction
  PROVE  Clamped'
<1>. DEFINE n == FracBits - (call.v.e - Bias)
            r == RoundOff(call.v.f + ImplicitBit, n, call.v.s, call.mode)
<1>1. /\ call.v.e < ExpMax /\ call.v \in Values /\ call.mode \in Modes
      /\ Clamp(r.int, FALSE, Tells(r.exact))
      /\ 0 <= call.v.e - Bias /\ call.v.e - Bias < FracBits
  BY ToIntCall DEF WithFraction, NumberToInt, E, Mant
<1>2. n \in 1..FracBits /\ call.v.e = Bias + (FracBits - n)
  BY <1>1, Bounds DEF Values
<1>. HIDE DEF n
<1>3. /\ r.int = Nearest(call.v, call.mode)
      /\ r.exact <=> Ref!Mag(call.v) % One = 0
  BY <1>1, <1>2, NearestWithFraction
<1>4. Tells(r.exact) = Tells(Ref!Mag(call.v) % One = 0)
  BY <1>3, Zenon DEF Tells
<1>5. Nearest(call.v, call.mode) \in Nat
  BY <1>1, NearestType
<1>. HIDE DEF r
<1>. QED BY <1>1, <1>3, <1>4, <1>5, ClampedBy

LEMMA InfClamped ==
  ASSUME call \in ToInts, ToIntOfInf
  PROVE  Clamped'
<1>1. /\ IsInf(call.v) /\ call' = call /\ z' = [mag |-> Pow2[IntBits] - 1, large |-> TRUE]
      /\ fe' = {"invalid"}
  BY DEF ToIntOfInf, Clamp
<1>2. z'.large /\ ~ IsNaN(call.v)
  BY <1>1 DEF IsInf, IsNaN
<1>3. ClampedTo(call, z', fe')
  BY <1>1, <1>2 DEF ClampedTo
<1>. QED BY <1>1, <1>3 DEF Clamped

---------------------------------------------------------------------------
(* The clamp itself.                                                       *)
LEMMA IntBounds ==
  ASSUME NEW w \in IntWidths, NEW signed \in BOOLEAN
  PROVE  /\ LeastInt(w, signed) \in Int /\ GreatestInt(w, signed) \in Nat
         /\ -LeastInt(w, signed) \in Nat
         /\ -LeastInt(w, signed) < Pow2[IntBits] /\ GreatestInt(w, signed) < Pow2[IntBits]
         /\ Pow2[IntBits] \in Nat
<1>1. w \in 1..IntBits /\ w \in 0..MaxShift /\ w - 1 \in 0..MaxShift /\ IntBits \in 0..MaxShift
      /\ w \in Nat /\ w - 1 \in Nat /\ w <= IntBits /\ w - 1 <= IntBits /\ IntBits <= MaxShift
  BY Bounds
<1>2. /\ Pow2[w] \in Nat /\ Pow2[w] >= 1 /\ Pow2[w - 1] \in Nat /\ Pow2[w - 1] >= 1
      /\ Pow2[IntBits] \in Nat
  BY <1>1, Pow2Positive
<1>3. Pow2[w] <= Pow2[IntBits]
  BY <1>1, Pow2Monotone
<1>4. Pow2[w] = 2 * Pow2[w - 1]
  <2>1. Pow2[(w - 1) + 1] = 2 * Pow2[w - 1]
    BY <1>1, Pow2Step
  <2>2. (w - 1) + 1 = w
    BY <1>1
  <2>. QED BY <2>1, <2>2
<1>. QED BY <1>2, <1>3, <1>4 DEF LeastInt, GreatestInt

(* Saturating the nearest integer n, seen as a number of sign s.           *)
LEMMA Saturated ==
  ASSUME NEW s \in {0, 1}, NEW lo \in Int, NEW hi \in Nat, -lo \in Nat, NEW n \in Nat,
         NEW b, b = (IF s = 1 THEN -lo ELSE hi), NEW beyond \in BOOLEAN, beyond <=> n > b,
         NEW mag, mag = (IF beyond THEN b ELSE n), NEW i, i = (IF s = 1 THEN -n ELSE n)
  PROVE  /\ (IF s = 1 THEN -mag ELSE mag) = (IF i < lo THEN lo ELSE IF i > hi THEN hi ELSE i)
         /\ beyond <=> i \notin lo..hi
<1>1. CASE s = 1 /\ beyond
  BY <1>1
<1>2. CASE s = 1 /\ ~ beyond
  BY <1>2
<1>3. CASE s = 0 /\ beyond
  BY <1>3
<1>4. CASE s = 0 /\ ~ beyond
  BY <1>4
<1>. QED BY <1>1, <1>2, <1>3, <1>4

IntegerResult(c, r, g) ==
  LET lo == LeastInt(c.width, c.signed)
      hi == GreatestInt(c.width, c.signed)
      i == ToInteger(c.v, c.mode)
  IN  IF IsNaN(c.v) THEN r = 0 /\ g = {"invalid"}
      ELSE IF IsInf(c.v)
      THEN r = (IF c.v.s = 1 THEN lo ELSE hi) /\ g = {"invalid"}
      ELSE /\ r = (IF i.int < lo THEN lo ELSE IF i.int > hi THEN hi ELSE i.int)
           /\ "invalid" \in g <=> i.int \notin lo..hi
           /\ "inexact" \in g <=> ~ i.exact
           /\ g \subseteq {"invalid", "inexact"}

LEMMA IntegerResultIs ==
  ASSUME IntegerResult(call, res, fe)
  PROVE  CorrectToInteger
BY Zenon DEF IntegerResult, CorrectToInteger, Outcome, Returned

LEMMA ToIntegerIs ==
  ASSUME NEW v, NEW md
  PROVE  /\ ToInteger(v, md).int = (IF v.s = 1 THEN -Nearest(v, md) ELSE Nearest(v, md))
         /\ ToInteger(v, md).exact <=> Ref!Mag(v) % One = 0
BY Zenon DEF ToInteger, Nearest, One

LEMMA SaturateCorrect ==
  ASSUME Clamped, Saturate
  PROVE  IntegerResult(call, res', fe')
<1>. DEFINE lo == LeastInt(call.width, call.signed)
            hi == GreatestInt(call.width, call.signed)
            b == Bound(call.v.s, call.width, call.signed)
            beyond == z.large \/ z.mag > b
            mag == IF beyond THEN b ELSE z.mag
            n == Nearest(call.v, call.mode)
            i == IF call.v.s = 1 THEN -n ELSE n
<1>1. /\ call \in ToInts /\ ~ IsNaN(call.v)
      /\ IsInf(call.v) => z.large /\ fe = {"invalid"}
      /\ ~ IsInf(call.v) =>
           /\ n \in Nat
           /\ z.large => Pow2[IntBits] <= n /\ Ref!Mag(call.v) % One = 0 /\ fe = {"invalid"}
           /\ ~ z.large => z.mag = n /\ fe = Tells(Ref!Mag(call.v) % One = 0)
  BY DEF Clamped, ClampedTo
<1>2. /\ res' = (IF call.v.s = 1 THEN -mag ELSE mag)
      /\ fe' = fe \cup (IF beyond THEN {"invalid"} ELSE {})
  BY DEF Saturate, Done
<1>3. /\ call.v.s \in {0, 1} /\ call.width \in IntWidths /\ call.signed \in BOOLEAN
  BY <1>1, ToIntCall
<1>4. lo \in Int /\ hi \in Nat /\ -lo \in Nat /\ -lo < Pow2[IntBits] /\ hi < Pow2[IntBits]
      /\ Pow2[IntBits] \in Nat
  BY <1>3, IntBounds
<1>5. b = (IF call.v.s = 1 THEN -lo ELSE hi)
  BY DEF Bound
<1>6. b \in Nat /\ b < Pow2[IntBits]
  BY <1>3, <1>4, <1>5
<1>7. beyond \in BOOLEAN
  OBVIOUS
<1>8. ToInteger(call.v, call.mode).int = i
      /\ (ToInteger(call.v, call.mode).exact <=> Ref!Mag(call.v) % One = 0)
  BY ToIntegerIs
<1>. HIDE DEF lo, hi, b, n
<1>9. CASE IsInf(call.v)
  <2>1. beyond /\ fe = {"invalid"}
    BY <1>1, <1>9
  <2>2. res' = (IF call.v.s = 1 THEN lo ELSE hi)
    <3>1. mag = b
      BY <2>1
    <3>. QED BY <1>2, <1>3, <1>4, <1>5, <3>1
  <2>3. fe' = {"invalid"}
    BY <1>2, <2>1
  <2>. QED BY <1>1, <1>9, <2>2, <2>3, Zenon DEF IntegerResult, lo, hi
<1>10. CASE ~ IsInf(call.v)
  <2>1. n \in Nat
    BY <1>1, <1>10
  <2>2. beyond <=> n > b
    <3>1. CASE z.large
      <4>1. Pow2[IntBits] <= n
        BY <1>1, <1>10, <3>1
      <4>2. n > b
        BY <1>4, <1>6, <2>1, <4>1
      <4>. QED BY <3>1, <4>2
    <3>2. CASE ~ z.large
      <4>1. z.mag = n
        BY <1>1, <1>10, <3>2
      <4>. QED BY <3>2, <4>1
    <3>. QED BY <3>1, <3>2
  <2>3. mag = (IF beyond THEN b ELSE n)
    BY <1>1, <1>10
  <2>. DEFINE over == beyond
              m == mag
  <2>4. over \in BOOLEAN /\ (over <=> n > b) /\ m = (IF over THEN b ELSE n)
    BY <1>7, <2>2, <2>3
  <2>5. /\ res' = (IF call.v.s = 1 THEN -m ELSE m)
        /\ fe' = fe \cup (IF over THEN {"invalid"} ELSE {})
    BY <1>2
  <2>6. over /\ z.large => fe = {"invalid"} /\ Ref!Mag(call.v) % One = 0
    BY <1>1, <1>10
  <2>7. z.large => over
    OBVIOUS
  <2>. HIDE DEF over, m
  <2>8. /\ (IF call.v.s = 1 THEN -m ELSE m) = (IF i < lo THEN lo ELSE IF i > hi THEN hi ELSE i)
        /\ over <=> i \notin lo..hi
    BY <1>3, <1>4, <1>5, <2>1, <2>4, Saturated
  <2>9. (fe = {"invalid"} /\ over /\ Ref!Mag(call.v) % One = 0)
          \/ fe = Tells(Ref!Mag(call.v) % One = 0)
    BY <1>1, <1>10, <2>6, <2>7
  <2>10. /\ "invalid" \in fe' <=> over
         /\ "inexact" \in fe' <=> ~ (Ref!Mag(call.v) % One = 0)
         /\ fe' \subseteq {"invalid", "inexact"}
    BY <2>5, <2>9 DEF Tells
  <2>11. res' = (IF i < lo THEN lo ELSE IF i > hi THEN hi ELSE i)
    BY <2>5, <2>8, Zenon
  <2>12. "invalid" \in fe' <=> i \notin lo..hi
    BY <2>8, <2>10, Zenon
  <2>. HIDE DEF i
  <2>. QED BY <1>1, <1>8, <1>10, <2>10, <2>11, <2>12, Zenon DEF IntegerResult, lo, hi
<1>. QED BY <1>9, <1>10

LEMMA NaNInteger ==
  ASSUME call \in ToInts, fe = {}, ToIntOfNaN
  PROVE  IntegerResult(call, res', fe')
<1>1. IsNaN(call.v) /\ res' = 0 /\ fe' = {"invalid"}
  BY DEF ToIntOfNaN, Done
<1>. QED BY <1>1, Zenon DEF IntegerResult

---------------------------------------------------------------------------
(* Integer to binary64: sign, magnitude and highest bit of the integer.    *)
LEMMA Msbs ==
  ASSUME NEW x \in Nat, x >= 1, NEW k \in 1..IntBits, x < Pow2[k]
  PROVE  Msb(x) \in 0..(k - 1) /\ Pow2[Msb(x)] <= x /\ x < Pow2[Msb(x) + 1]
<1>. DEFINE Top(n) == Pow2[n] <= x /\ x < Pow2[n + 1]
            T == {n \in 0..IntBits : x < Pow2[n]}
<1>1. IntBits \in Nat /\ IntBits <= MaxShift /\ MaxShift \in Nat
  BY Bounds
<1>2. PICK t \in T : \A y \in T : t <= y
  <2>1. k \in T /\ T \subseteq Nat
    BY <1>1
  <2>. QED BY <2>1, Least
<1>3. t # 0
  BY <1>2, Pow2Step
<1>4. t - 1 \in 0..(IntBits - 1) /\ Top(t - 1)
  <2>1. t - 1 \in 0..IntBits /\ t - 1 \notin T /\ (t - 1) + 1 = t
    BY <1>1, <1>2, <1>3
  <2>2. Pow2[t - 1] \in Nat
    BY <1>1, <2>1, Pow2Positive
  <2>. QED BY <1>1, <1>2, <2>1, <2>2
<1>5. Msb(x) = CHOOSE n \in 0..(IntBits - 1) : Top(n)
  BY DEF Msb
<1>6. Msb(x) \in 0..(IntBits - 1) /\ Top(Msb(x))
  <2>. HIDE DEF Top
  <2>. QED BY <1>4, <1>5
<1>7. Msb(x) <= k - 1
  <2>. DEFINE p == Msb(x)
  <2>1. p \in 0..(IntBits - 1) /\ Pow2[p] <= x
    BY <1>6
  <2>. HIDE DEF p
  <2>2. k <= p => Pow2[k] <= Pow2[p]
    BY <1>1, <2>1, Pow2Monotone
  <2>3. Pow2[k] \in Nat /\ Pow2[p] \in Nat
    BY <1>1, <2>1, Pow2Positive
  <2>4. ~ (k <= p)
    BY <2>1, <2>2, <2>3
  <2>5. p <= k - 1
    BY <1>1, <2>1, <2>4
  <2>. QED BY <2>5 DEF p
<1>. QED BY <1>6, <1>7

LEMMA NegativeWord ==
  ASSUME NEW x \in Int, NEW P \in Nat, -P <= x, x < 0
  PROVE  x % P = x + P
<1>1. P >= 1
  OBVIOUS
<1>2. x = P * (x \div P) + (x % P) /\ x \div P \in Int /\ x % P \in 0..(P - 1)
  BY <1>1, Z3
<1>. DEFINE q == x \div P
            y == x % P
<1>3. q \in Int /\ y \in Int /\ 0 <= y /\ y < P /\ x = P * q + y
  BY <1>2
<1>. HIDE DEF q, y
<1>4. q < 0
  <2>1. q >= 0 => P * q >= 0
    BY <1>1, <1>3, Z3
  <2>2. P * q \in Int
    BY <1>3
  <2>. QED BY <1>3, <2>1, <2>2
<1>5. q > -2
  <2>1. q <= -2 => P * q <= -2 * P
    <3>1. q <= -2 => P * (-2 - q) >= 0
      BY <1>1, <1>3, Z3
    <3>2. P * (-2 - q) = -2 * P - P * q
      BY <1>3, Z3
    <3>. QED BY <1>3, <3>1, <3>2
  <2>2. P * q \in Int
    BY <1>3
  <2>. QED BY <1>1, <1>3, <2>1, <2>2
<1>6. q = -1
  BY <1>3, <1>4, <1>5
<1>7. x = y - P
  BY <1>3, <1>6
<1>8. y = x + P
  BY <1>3, <1>7
<1>. QED BY <1>8 DEF y

LEMMA FromIntCall ==
  ASSUME call \in FromInts
  PROVE  /\ call.op = "fromInt" /\ call.mode = "RNE" /\ call.x \in Int
         /\ call.signed \in BOOLEAN
         /\ ~ call.signed => 0 <= call.x /\ call.x < Pow2[IntBits]
         /\ call.signed => -Pow2[IntBits - 1] <= call.x /\ call.x < Pow2[IntBits - 1]
<1>. DEFINE Ints(w, signed) == [op : {"fromInt"}, signed : {signed}, mode : {"RNE"},
                                x : LeastInt(w, signed)..GreatestInt(w, signed)]
<1>1. PICK w \in IntWidths, signed \in BOOLEAN : call \in Ints(w, signed)
  <2>1. call \in UNION {Ints(w, signed) : w \in IntWidths, signed \in BOOLEAN}
    BY DEF FromInts
  <2>. HIDE DEF Ints
  <2>. QED BY <2>1
<1>2. call.op = "fromInt" /\ call.mode = "RNE" /\ call.signed = signed
      /\ call.x \in LeastInt(w, signed)..GreatestInt(w, signed)
  BY <1>1
<1>3. LeastInt(w, signed) \in Int /\ GreatestInt(w, signed) \in Nat
  BY IntBounds
<1>4. call.x \in Int /\ LeastInt(w, signed) <= call.x /\ call.x <= GreatestInt(w, signed)
  BY <1>2, <1>3
<1>5. w \in Nat /\ w - 1 \in Nat /\ w <= IntBits /\ w - 1 <= IntBits - 1 /\ IntBits \in Nat
      /\ IntBits - 1 \in Nat /\ IntBits <= MaxShift /\ IntBits - 1 <= MaxShift /\ MaxShift \in Nat
      /\ w \in 0..MaxShift /\ w - 1 \in 0..MaxShift
  BY Bounds
<1>6. /\ Pow2[w] <= Pow2[IntBits] /\ Pow2[w - 1] <= Pow2[IntBits - 1]
      /\ Pow2[w] \in Nat /\ Pow2[w - 1] \in Nat
      /\ Pow2[IntBits] \in Nat /\ Pow2[IntBits - 1] \in Nat
  BY <1>5, Pow2Monotone, Pow2Positive
<1>7. ~ signed => 0 <= call.x /\ call.x < Pow2[IntBits]
  BY <1>4, <1>6 DEF LeastInt, GreatestInt
<1>8. signed => -Pow2[IntBits - 1] <= call.x /\ call.x < Pow2[IntBits - 1]
  BY <1>4, <1>6 DEF LeastInt, GreatestInt
<1>. QED BY <1>2, <1>4, <1>7, <1>8

(* The word and its negation give sign and magnitude of the integer.       *)
LEMMA IntMagnitude ==
  ASSUME call \in FromInts, call.x # 0
  PROVE  /\ SignBit = (IF call.x < 0 THEN 1 ELSE 0)
         /\ MagnitudeOfInt = (IF call.x < 0 THEN -call.x ELSE call.x)
         /\ MagnitudeOfInt \in Nat /\ MagnitudeOfInt >= 1 /\ MagnitudeOfInt < Pow2[IntBits]
<1>. DEFINE P == Pow2[IntBits]
            H == Pow2[IntBits - 1]
            x == call.x
<1>1. /\ x \in Int /\ call.signed \in BOOLEAN
      /\ ~ call.signed => 0 <= x /\ x < P
      /\ call.signed => -H <= x /\ x < H
  BY FromIntCall
<1>2. H \in Nat /\ H >= 1 /\ P = 2 * H /\ P \in Nat
  <2>1. IntBits - 1 \in Nat /\ (IntBits - 1) + 1 = IntBits /\ IntBits <= MaxShift
        /\ IntBits - 1 \in 0..MaxShift
    BY Bounds
  <2>2. Pow2[(IntBits - 1) + 1] = 2 * Pow2[IntBits - 1]
    BY <2>1, Pow2Step
  <2>. QED BY <2>1, <2>2, Pow2Positive
<1>3. /\ IntBits - 1 \in Nat /\ IntBits - 1 < MaxShift /\ (IntBits - 1) + 1 = IntBits
  BY Bounds
<1>4. Word = x % P
  BY DEF Word
<1>. HIDE DEF P, H, x
<1>5. CASE 0 <= x
  <2>1. x < P /\ x \in Nat
    BY <1>1, <1>2, <1>5
  <2>2. Word = x
    BY <1>2, <1>4, <2>1
  <2>3. BitSet(Word, IntBits - 1) <=> H <= x
    BY <1>3, <2>1, <2>2, TopBit DEF P, H
  <2>4. SignBit = 0
    BY <1>1, <1>2, <2>1, <2>3 DEF SignBit
  <2>5. MagnitudeOfInt = x
    BY <2>2, <2>4 DEF MagnitudeOfInt
  <2>6. x # 0 /\ ~ (x < 0)
    BY <1>5, <2>1 DEF x
  <2>. QED BY <1>1, <2>1, <2>4, <2>5, <2>6 DEF x, P
<1>6. CASE x < 0
  <2>1. call.signed /\ -H <= x /\ -P <= x
    BY <1>1, <1>2, <1>6
  <2>2. Word = x + P
    BY <1>1, <1>2, <1>4, <1>6, <2>1, NegativeWord
  <2>3. Word \in Nat /\ Word < P /\ H <= Word
    BY <1>1, <1>2, <1>6, <2>1, <2>2
  <2>4. BitSet(Word, IntBits - 1)
    BY <1>3, <2>3, TopBit DEF P, H
  <2>5. SignBit = 1
    BY <2>1, <2>4 DEF SignBit
  <2>6. MagnitudeOfInt = (P - Word) % P
    BY <2>5 DEF MagnitudeOfInt, P
  <2>7. P - Word = -x /\ -x \in Nat /\ -x < P /\ -x >= 1
    BY <1>1, <1>2, <1>6, <2>1, <2>2
  <2>8. (-x) % P = -x
    <3>. DEFINE y == -x
    <3>1. y \in Nat /\ y < P
      BY <2>7
    <3>. HIDE DEF y
    <3>2. y % P = y
      BY <1>2, <3>1
    <3>. QED BY <3>2 DEF y
  <2>9. MagnitudeOfInt = -x
    BY <2>6, <2>7, <2>8
  <2>. QED BY <1>6, <2>5, <2>7, <2>9 DEF x, P
<1>. QED BY <1>1, <1>5, <1>6

---------------------------------------------------------------------------
FromIntResult(c, r, g) ==
  LET a == IF c.x < 0 THEN -c.x ELSE c.x
      s == IF c.x < 0 THEN 1 ELSE 0
  IN  [res |-> r, fe |-> g] =
        IF c.x = 0 THEN [res |-> SignedZero(0), fe |-> {}] ELSE Ref!Round(s, a * One, 1, c.mode)

LEMMA FromIntResultIs ==
  ASSUME FromIntResult(call, res, fe)
  PROVE  CorrectFromInteger
BY Zenon DEF FromIntResult, CorrectFromInteger, Outcome, Returned, One

LEMMA FromZeroCorrect ==
  ASSUME fe = {}, FromZero
  PROVE  FromIntResult(call, res', fe')
<1>1. call.x = 0 /\ res' = SignedZero(0) /\ fe' = {}
  BY DEF FromZero, Done
<1>. QED BY <1>1, Zenon DEF FromIntResult

(* A significand of at most FracBits + 1 bits is kept.                     *)
LEMMA ShortInteger ==
  ASSUME NEW s \in {0, 1}, NEW md \in Modes, NEW a \in Nat, NEW h \in 0..FracBits,
         Pow2[h] <= a, a < Pow2[h + 1],
         NEW v, v = [s |-> s, e |-> h + Bias, f |-> (a * Pow2[FracBits - h]) % ImplicitBit]
  PROVE  Ref!Round(s, a * One, 1, md) = [res |-> v, fe |-> {}]
<1>. DEFINE p == Pow2[FracBits - h]
            w == a * p
            U == Unit(Bias + h)
<1>1. /\ h \in Nat /\ FracBits - h \in 0..MaxShift /\ FracBits \in Nat /\ h < MaxShift
      /\ h <= FracBits /\ FracBits < MaxShift
  BY Bounds
<1>2. p \in Nat /\ p >= 1
  BY <1>1, Pow2Positive
<1>3. w \in Nat /\ ImplicitBit <= w /\ w < 2 * ImplicitBit
  <2>1. w \in Nat /\ Pow2[FracBits] <= w /\ w < Pow2[FracBits + 1]
    BY <1>1, ShiftToTop
  <2>2. Pow2[FracBits + 1] = 2 * Pow2[FracBits]
    BY <1>1, Pow2Step, Bounds
  <2>. QED BY <2>1, <2>2 DEF ImplicitBit
<1>4. p * U = One
  <2>1. FracBits - h \in 0..FracBits /\ FracBits - (FracBits - h) = h
    BY <1>1
  <2>. QED BY <2>1, OneFacts
<1>5. U \in Nat /\ U >= 1
  <2>1. Bias + h \in 1..ExpMax
    BY <1>1, Bounds
  <2>. QED BY <2>1, UnitFacts
<1>6. ImplicitBit \in Nat
  BY GuardPowers
<1>7. v.s = s /\ v.e = h + Bias /\ v.f = w % ImplicitBit
  OBVIOUS
<1>8. a * One = w * U
  <2>. HIDE DEF p, U
  <2>1. a * (p * U) = (a * p) * U
    BY <1>2, <1>5, Z3
  <2>. QED BY <1>4, <2>1
<1>. HIDE DEF w, p, U
<1>9. w % ImplicitBit = w - ImplicitBit
  <2>1. (1 * ImplicitBit + (w - ImplicitBit)) % ImplicitBit = w - ImplicitBit
    <3>1. w - ImplicitBit \in Nat /\ w - ImplicitBit < ImplicitBit
      BY <1>3, <1>6
    <3>. QED BY <1>6, <3>1, Join
  <2>2. 1 * ImplicitBit + (w - ImplicitBit) = w
    BY <1>3, <1>6
  <2>. QED BY <2>1, <2>2
<1>10. v \in Values /\ v.e < ExpMax
  <2>1. v.e \in 0..ExpMax /\ v.e < ExpMax
    BY <1>1, <1>7, Bounds
  <2>2. v.f \in 0..(ImplicitBit - 1)
    BY <1>3, <1>6, <1>7, <1>9
  <2>. QED BY <2>1, <2>2 DEF Values
<1>11. Ref!Mag(v) = w * U
  <2>1. Binade(v.e) = Bias + h
    BY <1>1, <1>7, Bounds DEF Binade
  <2>2. Whole(v) = w
    <3>1. v.e # 0
      BY <1>1, <1>7, Bounds
    <3>2. v.f + ImplicitBit = w
      BY <1>3, <1>6, <1>7, <1>9
    <3>. QED BY <3>1, <3>2 DEF Whole
  <2>. QED BY <1>10, <2>1, <2>2, ValueAt DEF U
<1>. QED BY <1>7, <1>8, <1>10, <1>11, ExactValue

(* A longer one is rounded.                                                *)
LEMMA LongInteger ==
  ASSUME NEW s \in {0, 1}, NEW md \in Modes, NEW a \in Nat, NEW h \in (FracBits + 1)..(IntBits - 1),
         Pow2[h] <= a, a < Pow2[h + 1], NEW r, r = RoundOff(a, h - FracBits, s, md)
  PROVE  Ref!Round(s, a * One, 1, md) =
           [res |-> Value(s, ExponentAfter(h, r.int), CarriedFraction(r.int)),
            fe |-> Tells(r.exact)]
<1>. DEFINE n == h - FracBits
            num == a * One
            D == Unit(Bias + h)
            e == Bias + h
<1>1. /\ n \in 1..MaxShift /\ n \in 0..(Bias - FracBits) /\ n \in Nat /\ FracBits + n = h
      /\ (FracBits + n) + 1 <= MaxShift /\ FracBits \in Nat /\ h \in Nat
      /\ e \in 1..(ExpMax - 1) /\ e \in 1..ExpMax /\ e + 1 # ExpMax /\ e # 1 /\ e = h + Bias
  BY Bounds
<1>2. One \in Nat /\ One >= 1 /\ D = Pow2[n] * One
  <2>1. Unit(Bias + (FracBits + n)) = Pow2[n] * One
    BY <1>1, OneFacts
  <2>. QED BY <1>1, <2>1, OneFacts
<1>3. Scaled(a, n, One, D, num)
  BY <1>2 DEF Scaled
<1>. HIDE DEF n, num
<1>4. PICK m, up, ls :
        /\ m = a \div Pow2[n]
        /\ CutAt(s, m, num, D, up, ls, md)
        /\ RoundOff(a, n, s, md).int = (IF up THEN m + 1 ELSE m)
        /\ RoundOff(a, n, s, md).exact <=> ~ ls
  BY <1>1, <1>2, <1>3, RoundOffCut
<1>5. r = RoundOff(a, n, s, md)
  BY DEF n
<1>6. m \in Nat /\ ImplicitBit <= m /\ m < 2 * ImplicitBit /\ ImplicitBit \in Nat /\ ImplicitBit >= 4
  <2>1. Pow2[FracBits + n] <= a /\ a < Pow2[(FracBits + n) + 1]
    BY <1>1
  <2>2. a \div Pow2[n] \in Nat /\ Pow2[FracBits] <= a \div Pow2[n]
        /\ a \div Pow2[n] < 2 * Pow2[FracBits]
    BY <1>1, <2>1, DivideRange
  <2>. QED BY <1>4, <2>2, GuardPowers DEF ImplicitBit
<1>7. up \in BOOLEAN /\ ls \in BOOLEAN
  BY <1>4 DEF CutAt
<1>8. D = Unit(e) * 1
  <2>1. D \in Nat
    BY <1>1, UnitFacts
  <2>. QED BY <2>1
<1>. HIDE DEF D, e
<1>9. Ref!Round(s, num, 1, md) = Neighbour(s, e, m, up, ls, md)
  <2>1. 1 \in Nat /\ 1 >= 1
    OBVIOUS
  <2>. QED BY <1>1, <1>4, <1>6, <1>8, <2>1, RoundCut
<1>. DEFINE i == IF up THEN m + 1 ELSE m
<1>10. r.int = i /\ (r.exact <=> ~ ls)
  BY <1>4, <1>5, Zenon
<1>11. Flags(e, m, ls) = Tells(r.exact)
  BY <1>1, <1>10, <1>7 DEF Flags, Tells
<1>12. i \in Nat /\ ImplicitBit <= i /\ i <= 2 * ImplicitBit
  BY <1>6, <1>7
<1>13. /\ ImplicitBit <= i /\ i < 2 * ImplicitBit =>
            Neighbour(s, e, m, up, ls, md) =
              [res |-> [s |-> s, e |-> e, f |-> i - ImplicitBit], fe |-> Flags(e, m, ls)]
       /\ i = 2 * ImplicitBit =>
            Neighbour(s, e, m, up, ls, md) =
              IF e + 1 = ExpMax THEN Overflow(s, md)
              ELSE [res |-> [s |-> s, e |-> e + 1, f |-> 0], fe |-> Flags(e, m, ls)]
  BY <1>1, <1>6, <1>7, NeighbourFields
<1>. HIDE DEF i
<1>14. BitSet(i, FracBits + 1) <=> i = 2 * ImplicitBit
  <2>1. FracBits + 1 \in Nat /\ FracBits + 1 < MaxShift /\ FracBits + 1 <= MaxShift
        /\ (FracBits + 1) + 1 <= MaxShift
    BY Bounds
  <2>2. Pow2[FracBits + 1] = 2 * ImplicitBit /\ Pow2[(FracBits + 1) + 1] = 2 * Pow2[FracBits + 1]
    BY <1>1, <2>1, Pow2Step DEF ImplicitBit
  <2>3. i < Pow2[(FracBits + 1) + 1]
    BY <1>6, <1>12, <2>2
  <2>4. BitSet(i, FracBits + 1) <=> Pow2[FracBits + 1] <= i
    BY <1>12, <2>1, <2>3, TopBit
  <2>. QED BY <1>6, <1>12, <2>2, <2>4
<1>15. CASE i = 2 * ImplicitBit
  <2>1. ExponentAfter(h, i) = e + 1 /\ CarriedFraction(i) = 0
    BY <1>1, <1>14, <1>15 DEF ExponentAfter, CarriedFraction
  <2>2. Neighbour(s, e, m, up, ls, md) =
          [res |-> [s |-> s, e |-> e + 1, f |-> 0], fe |-> Flags(e, m, ls)]
    BY <1>1, <1>13, <1>15
  <2>. QED BY <1>9, <1>10, <1>11, <2>1, <2>2, Zenon DEF Value, num
<1>16. CASE i # 2 * ImplicitBit
  <2>1. i < 2 * ImplicitBit
    BY <1>6, <1>12, <1>16
  <2>2. i % ImplicitBit = i - ImplicitBit
    <3>1. (1 * ImplicitBit + (i - ImplicitBit)) % ImplicitBit = i - ImplicitBit
      <4>1. i - ImplicitBit \in Nat /\ i - ImplicitBit < ImplicitBit
        BY <1>6, <1>12, <2>1
      <4>. QED BY <1>6, <4>1, Join
    <3>2. 1 * ImplicitBit + (i - ImplicitBit) = i
      BY <1>6, <1>12
    <3>. QED BY <3>1, <3>2
  <2>3. ExponentAfter(h, i) = e /\ CarriedFraction(i) = i - ImplicitBit
    BY <1>1, <1>14, <1>16, <2>2 DEF ExponentAfter, CarriedFraction
  <2>4. Neighbour(s, e, m, up, ls, md) =
          [res |-> [s |-> s, e |-> e, f |-> i - ImplicitBit], fe |-> Flags(e, m, ls)]
    BY <1>12, <1>13, <2>1
  <2>. QED BY <1>9, <1>10, <1>11, <2>3, <2>4, Zenon DEF Value, num
<1>. QED BY <1>15, <1>16

LEMMA FromIntCorrect ==
  ASSUME call \in FromInts, fe = {}, FromShort \/ FromLong
  PROVE  FromIntResult(call, res', fe')
<1>. DEFINE a == MagnitudeOfInt
            s == SignBit
            h == Msb(a)
<1>1. call.mode = "RNE" /\ call.x # 0
  BY FromIntCall DEF FromShort, FromLong
<1>2. /\ s = (IF call.x < 0 THEN 1 ELSE 0) /\ a = (IF call.x < 0 THEN -call.x ELSE call.x)
      /\ a \in Nat /\ a >= 1 /\ a < Pow2[IntBits]
  BY <1>1, IntMagnitude
<1>3. h \in 0..(IntBits - 1) /\ Pow2[h] <= a /\ a < Pow2[h + 1]
  <2>1. IntBits \in 1..IntBits
    BY Bounds
  <2>. QED BY <1>2, <2>1, Msbs
<1>4. s \in {0, 1} /\ "RNE" \in Modes
  BY <1>2 DEF Modes
<1>5. Ref!Round(s, a * One, 1, "RNE") = [res |-> res', fe |-> fe']
  <2>1. CASE FromShort
    <3>1. h <= FracBits /\ fe' = {}
          /\ res' = [s |-> s, e |-> h + Bias, f |-> (a * Pow2[FracBits - h]) % ImplicitBit]
      BY <2>1 DEF FromShort, Done, Value
    <3>2. h \in 0..FracBits
      BY <1>3, <3>1, Bounds
    <3>. HIDE DEF a, s, h
    <3>3. Ref!Round(s, a * One, 1, "RNE") = [res |-> res', fe |-> {}]
      BY <1>2, <1>3, <1>4, <3>1, <3>2, ShortInteger
    <3>. QED BY <3>1, <3>3
  <2>2. CASE FromLong
    <3>. DEFINE r == RoundOff(a, h - FracBits, s, "RNE")
    <3>1. h > FracBits /\ fe' = Tells(r.exact)
          /\ res' = Value(s, ExponentAfter(h, r.int), CarriedFraction(r.int))
      BY <1>1, <2>2 DEF FromLong, Done
    <3>2. h \in (FracBits + 1)..(IntBits - 1)
      BY <1>3, <3>1, Bounds
    <3>. HIDE DEF a, s, h
    <3>3. Ref!Round(s, a * One, 1, "RNE") =
            [res |-> Value(s, ExponentAfter(h, r.int), CarriedFraction(r.int)),
             fe |-> Tells(r.exact)]
      BY <1>2, <1>3, <1>4, <3>2, LongInteger
    <3>. QED BY <3>1, <3>3, Zenon
  <2>. QED BY <2>1, <2>2
<1>. QED BY <1>1, <1>2, <1>5, Zenon DEF FromIntResult

---------------------------------------------------------------------------
(* The narrow format is one of those everything above holds of.            *)
LEMMA NarrowFormat == NR!FormatAssumption /\ NR!Pow2Assumption
<1>1. NR!WordBits = NarrowFracBits + GuardBits + 3
  BY DEF NR!WordBits, NR!ImplicitAt
<1>2. /\ NarrowExpBits \in Nat /\ NarrowFracBits \in Nat /\ NarrowExpBits >= 2
      /\ NarrowFracBits >= 2 /\ NarrowExpBits <= ExpBits /\ NarrowFracBits <= FracBits
      /\ NarrowExpBits <= Narrow!WordBits
  BY ConvertAssumption, Widths DEF ConvertAssumption
<1>3. Narrow!WordBits = NR!WordBits
  BY DEF Narrow!WordBits, NR!WordBits
<1>4. ExpBits <= MaxShift /\ MaxShift \in Nat /\ ExpBits \in Nat /\ WordBits = FracBits + GuardBits + 3
      /\ 2 * WordBits <= MaxShift /\ ExpBits <= WordBits /\ GuardBits \in Nat
  BY Widths, FormatAssumption
<1>5. Pow2[NarrowExpBits] + NarrowFracBits <= MaxShift
  <2>1. Pow2[NarrowExpBits] <= Pow2[ExpBits]
    BY <1>2, <1>4, Pow2Monotone, Widths
  <2>2. Pow2[NarrowExpBits] \in Nat /\ Pow2[ExpBits] \in Nat
    <3>1. NarrowExpBits \in 0..MaxShift /\ ExpBits \in 0..MaxShift
      BY <1>2, <1>4, Widths
    <3>. QED BY <3>1, Pow2Positive
  <2>3. Pow2[ExpBits] + FracBits <= MaxShift /\ FracBits \in Nat
    BY Pow2Assumption, Widths
  <2>. QED BY <1>2, <1>4, <2>1, <2>2, <2>3
<1>6. NR!FormatAssumption
  BY <1>1, <1>2, <1>3, <1>4, FormatAssumption, Widths DEF NR!FormatAssumption
<1>7. NR!Pow2Assumption
  BY <1>5, Pow2Assumption DEF NR!Pow2Assumption
<1>. QED BY <1>6, <1>7

LEMMA NarrowParts ==
  /\ Narrow!ExpMax = NR!ExpMax /\ Narrow!Bias = NR!Bias /\ Narrow!ImplicitBit = NR!ImplicitBit
  /\ Narrow!QuietNaNBit = NR!QuietNaNBit /\ Narrow!Values = NR!Values
  /\ NR!Modes = Modes
BY DEF Narrow!ExpMax, NR!ExpMax, Narrow!Bias, NR!Bias, Narrow!ImplicitBit, NR!ImplicitBit,
       Narrow!QuietNaNBit, NR!QuietNaNBit, Narrow!Values, NR!Values, NR!Modes, Modes

LEMMA NarrowMagnitude ==
  /\ NarrowRef!Magnitude = NR!Ref!Magnitude
  /\ NarrowRef!InfIndex = NR!Ref!InfIndex /\ NarrowRef!ImplicitBit = NR!Ref!ImplicitBit
BY DEF NarrowRef!Magnitude, NR!Ref!Magnitude, NarrowRef!ExpMax, NR!Ref!ExpMax,
       NarrowRef!ImplicitBit, NR!Ref!ImplicitBit, NarrowRef!InfIndex, NR!Ref!InfIndex

LEMMA NarrowRounding ==
  ASSUME NEW s, NEW num, NEW den, NEW md
  PROVE  NarrowRef!Round(s, num, den, md) = NR!Ref!Round(s, num, den, md)
<1>1. NarrowRef!FloorIndex(num, den) = NR!Ref!FloorIndex(num, den)
  BY NarrowMagnitude DEF NarrowRef!FloorIndex, NR!Ref!FloorIndex, NarrowRef!Between, NR!Ref!Between,
     NarrowRef!ExpMax, NR!Ref!ExpMax
<1>2. NarrowRef!Overflows(s, md) = NR!Ref!Overflows(s, md)
  BY DEF NarrowRef!Overflows, NR!Ref!Overflows, NarrowRef!OverflowTo, NR!Ref!OverflowTo,
     NarrowRef!Result, NR!Ref!Result, NarrowRef!SignedInf, NR!Ref!SignedInf, NarrowRef!MaxFinite,
     NR!Ref!MaxFinite, NarrowRef!ExpMax, NR!Ref!ExpMax, NarrowRef!ImplicitBit, NR!Ref!ImplicitBit
<1>3. \A i : NarrowRef!GoesUp(s, i, num, den, md) = NR!Ref!GoesUp(s, i, num, den, md)
  BY NarrowMagnitude, Zenon DEF NarrowRef!GoesUp, NR!Ref!GoesUp
<1>4. \A i : NarrowRef!OfIndex(s, i) = NR!Ref!OfIndex(s, i)
  BY NarrowMagnitude, Zenon DEF NarrowRef!OfIndex, NR!Ref!OfIndex
<1>. QED BY <1>1, <1>2, <1>3, <1>4, NarrowMagnitude, Zenon
         DEF NarrowRef!Round, NR!Ref!Round, NarrowRef!Result, NR!Ref!Result

LEMMA NarrowMag ==
  ASSUME NEW v
  PROVE  NarrowRef!Mag(v) = NR!Ref!Mag(v)
BY NarrowMagnitude, Zenon DEF NarrowRef!Mag, NR!Ref!Mag

(* The widths of both formats and the powers of two that relate them.      *)
LEMMA NarrowWidths ==
  /\ NarrowFracBits \in Nat /\ NarrowFracBits >= 2 /\ Widening \in Nat /\ Widening >= 2
  /\ NarrowFracBits + Widening = FracBits /\ Widening = FracBits - NarrowFracBits
  /\ NR!Bias \in Nat /\ NR!Bias >= 1 /\ NR!ExpMax = 2 * NR!Bias + 1
  /\ NR!Bias + NarrowFracBits < Bias
  /\ UnitDistance \in Nat /\ UnitDistance = (Bias - NR!Bias) + Widening
  /\ UnitDistance <= MaxShift /\ FracBits + 1 <= UnitDistance
<1>1. /\ NR!Bias \in Nat /\ NR!ExpMax = 2 * NR!Bias + 1 /\ NR!ExpMax >= 3
  BY NarrowFormat, NR!Fields
<1>2. /\ NarrowFracBits \in Nat /\ NarrowFracBits >= 2 /\ NarrowFracBits + 2 <= FracBits
      /\ NR!Bias + NarrowFracBits < Bias
  BY ConvertAssumption, NarrowParts DEF ConvertAssumption
<1>3. Widening = FracBits - NarrowFracBits
      /\ UnitDistance = (Bias + FracBits) - (NR!Bias + NarrowFracBits)
  BY NarrowParts DEF Widening, UnitDistance
<1>4. FracBits \in Nat /\ Bias \in Nat /\ MaxShift \in Nat /\ 2 * Bias + 1 + FracBits < MaxShift
  BY Bounds
<1>5. /\ NarrowFracBits \in Nat /\ NarrowFracBits >= 2 /\ Widening \in Nat /\ Widening >= 2
      /\ NarrowFracBits + Widening = FracBits
  BY <1>2, <1>3, <1>4
<1>6. NR!Bias >= 1
  BY <1>1
<1>7. UnitDistance \in Int /\ UnitDistance = (Bias - NR!Bias) + Widening
  BY <1>1, <1>3, <1>4, <1>5
<1>8. FracBits + 1 <= UnitDistance /\ UnitDistance <= MaxShift
  BY <1>1, <1>2, <1>4, <1>5, <1>7
<1>. QED BY <1>1, <1>2, <1>3, <1>4, <1>5, <1>6, <1>7, <1>8

LEMMA NarrowPowers ==
  /\ NR!ImplicitBit \in Nat /\ NR!ImplicitBit >= 4 /\ NR!ImplicitBit = Pow2[NarrowFracBits]
  /\ NR!QuietNaNBit \in Nat /\ NR!ImplicitBit = 2 * NR!QuietNaNBit
  /\ Pow2[Widening] \in Nat /\ Pow2[Widening] >= 1
  /\ ImplicitBit = NR!ImplicitBit * Pow2[Widening]
  /\ QuietNaNBit = NR!QuietNaNBit * Pow2[Widening]
  /\ ImplicitBit = 2 * QuietNaNBit /\ QuietNaNBit \in Nat
  /\ Pow2[UnitDistance] \in Nat /\ Pow2[UnitDistance] >= 1
  /\ Pow2[NarrowFracBits + 1] = 2 * NR!ImplicitBit
  /\ Pow2[NarrowFracBits + 2] = 4 * NR!ImplicitBit
<1>. DEFINE f == NarrowFracBits
            w == Widening
<1>1. /\ f \in Nat /\ f >= 2 /\ w \in Nat /\ f + w = FracBits /\ f + w <= MaxShift
      /\ (f - 1) + w = FracBits - 1 /\ (f - 1) + w <= MaxShift /\ f - 1 \in Nat
      /\ (f - 1) + 1 = f /\ f <= MaxShift /\ f + 1 <= MaxShift /\ f + 2 <= MaxShift
      /\ (f + 1) + 1 = f + 2 /\ (FracBits - 1) + 1 = FracBits /\ FracBits - 1 \in Nat
      /\ FracBits <= MaxShift
      /\ f \in 0..MaxShift /\ w \in 0..MaxShift /\ f - 1 \in 0..MaxShift
      /\ UnitDistance \in 0..MaxShift /\ FracBits - 1 \in 0..MaxShift
  BY NarrowWidths, Bounds
<1>2. NR!ImplicitBit \in Nat /\ NR!ImplicitBit >= 4
  BY NarrowFormat, NR!GuardPowers
<1>3. NR!ImplicitBit = Pow2[f] /\ NR!QuietNaNBit = Pow2[f - 1]
  BY DEF NR!ImplicitBit, NR!QuietNaNBit
<1>. HIDE DEF f, w
<1>4. /\ Pow2[f + w] = Pow2[f] * Pow2[w] /\ Pow2[(f - 1) + w] = Pow2[f - 1] * Pow2[w]
  BY <1>1, Pow2Sum
<1>5. /\ Pow2[(f - 1) + 1] = 2 * Pow2[f - 1] /\ Pow2[f + 1] = 2 * Pow2[f]
      /\ Pow2[(f + 1) + 1] = 2 * Pow2[f + 1] /\ Pow2[(FracBits - 1) + 1] = 2 * Pow2[FracBits - 1]
  BY <1>1, Pow2Step, Bounds
<1>6. /\ Pow2[w] \in Nat /\ Pow2[w] >= 1 /\ Pow2[f - 1] \in Nat /\ Pow2[FracBits - 1] \in Nat
      /\ Pow2[UnitDistance] \in Nat /\ Pow2[UnitDistance] >= 1
  BY <1>1, Pow2Positive
<1>7. ImplicitBit = Pow2[FracBits] /\ QuietNaNBit = Pow2[FracBits - 1]
  BY DEF ImplicitBit, QuietNaNBit
<1>8. Pow2[f + 2] = 4 * NR!ImplicitBit
  BY <1>1, <1>2, <1>3, <1>5
<1>9. /\ ImplicitBit = NR!ImplicitBit * Pow2[w] /\ QuietNaNBit = NR!QuietNaNBit * Pow2[w]
      /\ ImplicitBit = 2 * QuietNaNBit /\ NR!ImplicitBit = 2 * NR!QuietNaNBit
  BY <1>1, <1>3, <1>4, <1>5, <1>7
<1>. QED BY <1>2, <1>3, <1>5, <1>6, <1>7, <1>8, <1>9 DEF f, w

(* Rounding to the narrow format where the number is cut at its unit.      *)
LEMMA NarrowCut ==
  ASSUME NEW s \in {0, 1}, NEW md \in Modes, NEW m, NEW num, NEW D, NEW up, NEW ls,
         CutAt(s, m, num, D, up, ls, md),
         NEW e \in 1..(NR!ExpMax - 1), m < 2 * NR!ImplicitBit, e = 1 \/ NR!ImplicitBit <= m,
         NEW den \in Nat, den >= 1, D = NR!Unit(e) * den
  PROVE  NarrowRef!Round(s, num, den, md) = NR!Neighbour(s, e, m, up, ls, md)
<1>1. NR!CutAt(s, m, num, D, up, ls, md)
  <2>1. \A lost, half, tie : NR!Upwards(s, m, lost, half, tie, md) = Upwards(s, m, lost, half, tie, md)
    BY Zenon DEF Upwards, NR!Upwards
  <2>. QED BY <2>1, Zenon DEF CutAt, NR!CutAt
<1>2. md \in NR!Modes
  BY NarrowParts
<1>3. NR!Ref!Round(s, num, den, md) = NR!Neighbour(s, e, m, up, ls, md)
  BY <1>1, <1>2, NarrowFormat, NR!RoundCut
<1>. QED BY <1>3, NarrowRounding

LEMMA NarrowFields ==
  ASSUME NEW s, NEW e \in 1..(NR!ExpMax - 1), NEW m \in Nat, m < 2 * NR!ImplicitBit,
         e = 1 \/ NR!ImplicitBit <= m, NEW up \in BOOLEAN, NEW ls, NEW md,
         NEW n, n = (IF up THEN m + 1 ELSE m)
  PROVE  /\ n < NR!ImplicitBit =>
              NR!Neighbour(s, e, m, up, ls, md) =
                [res |-> [s |-> s, e |-> 0, f |-> n], fe |-> NR!Flags(e, m, ls)]
         /\ NR!ImplicitBit <= n /\ n < 2 * NR!ImplicitBit =>
              NR!Neighbour(s, e, m, up, ls, md) =
                [res |-> [s |-> s, e |-> e, f |-> n - NR!ImplicitBit], fe |-> NR!Flags(e, m, ls)]
         /\ n = 2 * NR!ImplicitBit =>
              NR!Neighbour(s, e, m, up, ls, md) =
                IF e + 1 = NR!ExpMax THEN NR!Overflow(s, md)
                ELSE [res |-> [s |-> s, e |-> e + 1, f |-> 0], fe |-> NR!Flags(e, m, ls)]
BY NarrowFormat, NR!NeighbourFields

(* The code's own overflow to the narrow format.                           *)
LEMMA NarrowOverflows ==
  ASSUME NEW s \in {0, 1}, NEW md \in Modes
  PROVE  /\ NR!Overflow(s, md) = [res |-> NarrowOverflow(s, md), fe |-> {"overflow", "inexact"}]
         /\ NR!Ref!Overflows(s, md) = NR!Overflow(s, md)
<1>1. NR!OverflowResult(s, md) = NarrowOverflow(s, md)
  BY DEF NR!OverflowResult, NarrowOverflow, AwayFromZero, Modes, NR!MaxFinite, NR!SignedInf,
         Narrow!MaxFinite, Narrow!SignedInf, NR!ExpMax, Narrow!ExpMax, NR!ImplicitBit,
         Narrow!ImplicitBit
<1>2. NR!Ref!Overflows(s, md) = NR!Overflow(s, md)
  BY NarrowFormat, NarrowParts, NR!SameOverflow
<1>. QED BY <1>1, <1>2 DEF NR!Overflow

---------------------------------------------------------------------------
(* binary64 to binary32: a normal number in its own units.                 *)
LEMMA NormalUnits ==
  ASSUME NEW v \in Values, v.e \in 1..(ExpMax - 1)
  PROVE  /\ v.f + ImplicitBit \in Nat /\ Pow2[FracBits] <= v.f + ImplicitBit
         /\ v.f + ImplicitBit < Pow2[FracBits + 1]
         /\ Unit(v.e) \in Nat /\ Unit(v.e) >= 1
         /\ Ref!Mag(v) = (v.f + ImplicitBit) * Unit(v.e)
         /\ v.s \in {0, 1}
<1>1. v.e \in 1..ExpMax /\ v.e < ExpMax /\ v.s \in {0, 1} /\ v.f \in Nat /\ v.f < ImplicitBit
  BY Bounds, GuardPowers DEF Values
<1>2. Pow2[FracBits + 1] = 2 * Pow2[FracBits] /\ ImplicitBit = Pow2[FracBits] /\ ImplicitBit \in Nat
  BY Pow2Step, Bounds, GuardPowers DEF ImplicitBit
<1>3. Unit(v.e) \in Nat /\ Unit(v.e) >= 1
  BY <1>1, UnitFacts
<1>4. Ref!Mag(v) = (v.f + ImplicitBit) * Unit(v.e)
  <2>1. Binade(v.e) = v.e /\ Whole(v) = v.f + ImplicitBit
    BY <1>1 DEF Binade, Whole
  <2>. QED BY <1>1, <2>1, ValueAt
<1>. QED BY <1>1, <1>2, <1>3, <1>4

(* Units of the narrow format in units of the wide one.                    *)
LEMMA UnitsApart ==
  ASSUME NEW e \in 1..(ExpMax - 1), NEW n \in Nat, n <= MaxShift,
         NEW d \in 1..NR!ExpMax, (d - 1) + UnitDistance = n + (e - 1),
         (d - 1) + UnitDistance <= MaxShift
  PROVE  NR!Unit(d) * Pow2[UnitDistance] = Pow2[n] * Unit(e)
<1>1. d - 1 \in Nat /\ e - 1 \in Nat /\ UnitDistance \in Nat /\ n + (e - 1) <= MaxShift
  BY NarrowWidths, Bounds
<1>2. /\ Pow2[(d - 1) + UnitDistance] = Pow2[d - 1] * Pow2[UnitDistance]
      /\ Pow2[n + (e - 1)] = Pow2[n] * Pow2[e - 1]
  BY <1>1, Pow2Sum
<1>. QED BY <1>2 DEF NR!Unit, Unit

LEMMA NormalNarrowed ==
  ASSUME NEW v \in Values, v.e \in 1..(ExpMax - 1), NEW md \in Modes,
         NEW ne \in 1..(NR!ExpMax - 1), ne = v.e - Bias + NR!Bias,
         NEW r, r = RoundOff(v.f + ImplicitBit, Widening, v.s, md),
         NEW carry \in BOOLEAN, carry <=> BitSet(r.int, NarrowFracBits + 1)
  PROVE  NarrowRef!Round(v.s, Ref!Mag(v), Pow2[UnitDistance], md) =
           IF carry /\ ne + 1 >= NR!ExpMax
           THEN [res |-> NarrowOverflow(v.s, md), fe |-> {"overflow", "inexact"}]
           ELSE [res |-> IF carry THEN Value(v.s, ne + 1, 0)
                         ELSE Value(v.s, ne, r.int % NR!ImplicitBit),
                 fe |-> Tells(r.exact)]
<1>. DEFINE s == v.s
            x == v.f + ImplicitBit
            U == Unit(v.e)
            num == Ref!Mag(v)
            den == Pow2[UnitDistance]
            D == NR!Unit(ne) * den
            I == NR!ImplicitBit
            n == Widening
<1>1. /\ x \in Nat /\ Pow2[FracBits] <= x /\ x < Pow2[FracBits + 1]
      /\ U \in Nat /\ U >= 1 /\ num = x * U /\ s \in {0, 1}
  BY NormalUnits
<1>2. /\ n \in 1..MaxShift /\ n \in Nat /\ n <= MaxShift /\ NarrowFracBits \in Nat
      /\ NarrowFracBits + n = FracBits /\ (NarrowFracBits + n) + 1 <= MaxShift
      /\ ne \in 1..NR!ExpMax
      /\ (ne - 1) + UnitDistance = n + (v.e - 1) /\ (ne - 1) + UnitDistance <= MaxShift
  <2>1. n \in Nat /\ n >= 2 /\ NarrowFracBits \in Nat /\ NarrowFracBits + n = FracBits
        /\ FracBits + 1 <= MaxShift /\ MaxShift \in Nat
    BY NarrowWidths, Bounds
  <2>2. ne \in 1..NR!ExpMax
    BY NarrowWidths
  <2>3. v.e \in Nat /\ v.e <= ExpMax - 1 /\ ExpMax + FracBits < MaxShift /\ ExpMax \in Nat
    BY Bounds
  <2>4. (ne - 1) + UnitDistance = n + (v.e - 1)
    BY <2>1, <2>3, NarrowWidths, Bounds
  <2>. QED BY <2>1, <2>2, <2>3, <2>4
<1>3. D = Pow2[n] * U
  BY <1>2, UnitsApart
<1>4. I \in Nat /\ I >= 4 /\ I = Pow2[NarrowFracBits] /\ den \in Nat /\ den >= 1
      /\ Pow2[NarrowFracBits + 1] = 2 * I /\ Pow2[NarrowFracBits + 2] = 4 * I
  BY NarrowPowers
<1>5. Scaled(x, n, U, D, num)
  BY <1>1, <1>3 DEF Scaled
<1>6. r = RoundOff(x, n, s, md)
  OBVIOUS
<1>7. D = NR!Unit(ne) * den
  OBVIOUS
<1>. HIDE DEF s, x, U, num, den, D, I, n
<1>8. PICK m, up, ls :
        /\ m = x \div Pow2[n]
        /\ CutAt(s, m, num, D, up, ls, md)
        /\ RoundOff(x, n, s, md).int = (IF up THEN m + 1 ELSE m)
        /\ RoundOff(x, n, s, md).exact <=> ~ ls
  BY <1>1, <1>2, <1>5, RoundOffCut
<1>9. m \in Nat /\ I <= m /\ m < 2 * I
  <2>1. Pow2[NarrowFracBits + n] <= x /\ x < Pow2[(NarrowFracBits + n) + 1]
    BY <1>1, <1>2
  <2>2. x \div Pow2[n] \in Nat /\ Pow2[NarrowFracBits] <= x \div Pow2[n]
        /\ x \div Pow2[n] < 2 * Pow2[NarrowFracBits]
    BY <1>1, <1>2, <2>1, DivideRange
  <2>. QED BY <1>4, <1>8, <2>2
<1>10. up \in BOOLEAN /\ ls \in BOOLEAN
  BY <1>8 DEF CutAt
<1>11. NarrowRef!Round(s, num, den, md) = NR!Neighbour(s, ne, m, up, ls, md)
  BY <1>1, <1>4, <1>7, <1>8, <1>9, NarrowCut DEF I
<1>. DEFINE i == IF up THEN m + 1 ELSE m
<1>12. r.int = i /\ (r.exact <=> ~ ls)
  BY <1>6, <1>8, Zenon
<1>13. NR!Flags(ne, m, ls) = Tells(r.exact)
  <2>1. ~ (m < NR!ImplicitBit)
    BY <1>4, <1>9 DEF I
  <2>2. NR!Flags(ne, m, ls) = (IF ls THEN {"inexact"} ELSE {})
    BY <2>1 DEF NR!Flags
  <2>3. Tells(r.exact) = (IF ls THEN {"inexact"} ELSE {})
    BY <1>10, <1>12, Zenon DEF Tells
  <2>. QED BY <2>2, <2>3
<1>14. i \in Nat /\ I <= i /\ i <= 2 * I
  BY <1>4, <1>9, <1>10
<1>15. /\ I <= i /\ i < 2 * I =>
            NR!Neighbour(s, ne, m, up, ls, md) =
              [res |-> [s |-> s, e |-> ne, f |-> i - I], fe |-> NR!Flags(ne, m, ls)]
       /\ i = 2 * I =>
            NR!Neighbour(s, ne, m, up, ls, md) =
              IF ne + 1 = NR!ExpMax THEN NR!Overflow(s, md)
              ELSE [res |-> [s |-> s, e |-> ne + 1, f |-> 0], fe |-> NR!Flags(ne, m, ls)]
  BY <1>9, <1>10, NarrowFields DEF I
<1>. HIDE DEF i
<1>16. carry <=> i = 2 * I
  <2>1. NarrowFracBits + 1 \in Nat /\ NarrowFracBits + 1 < MaxShift
        /\ (NarrowFracBits + 1) + 1 = NarrowFracBits + 2
    BY <1>2, NarrowWidths, Bounds
  <2>2. i < Pow2[(NarrowFracBits + 1) + 1]
    BY <1>4, <1>14, <2>1
  <2>3. BitSet(i, NarrowFracBits + 1) <=> Pow2[NarrowFracBits + 1] <= i
    BY <1>14, <2>1, <2>2, TopBit
  <2>4. BitSet(r.int, NarrowFracBits + 1) <=> BitSet(i, NarrowFracBits + 1)
    BY <1>12
  <2>. QED BY <1>4, <1>14, <2>3, <2>4
<1>17. ne + 1 >= NR!ExpMax <=> ne + 1 = NR!ExpMax
  BY NarrowWidths
<1>18. NR!Overflow(s, md) = [res |-> NarrowOverflow(s, md), fe |-> {"overflow", "inexact"}]
  BY <1>1, NarrowOverflows
<1>19. CASE carry
  <2>1. NR!Neighbour(s, ne, m, up, ls, md) =
          IF ne + 1 = NR!ExpMax THEN NR!Overflow(s, md)
          ELSE [res |-> [s |-> s, e |-> ne + 1, f |-> 0], fe |-> NR!Flags(ne, m, ls)]
    BY <1>15, <1>16, <1>19
  <2>. QED BY <1>11, <1>13, <1>17, <1>18, <1>19, <2>1, Zenon DEF Value, s, num, den
<1>20. CASE ~ carry
  <2>1. i < 2 * I
    BY <1>4, <1>14, <1>16, <1>20
  <2>2. i % I = i - I
    <3>1. (1 * I + (i - I)) % I = i - I
      <4>1. i - I \in Nat /\ i - I < I
        BY <1>4, <1>14, <2>1
      <4>. QED BY <1>4, <4>1, Join
    <3>2. 1 * I + (i - I) = i
      BY <1>4, <1>14
    <3>. QED BY <3>1, <3>2
  <2>3. NR!Neighbour(s, ne, m, up, ls, md) =
          [res |-> [s |-> s, e |-> ne, f |-> i - I], fe |-> NR!Flags(ne, m, ls)]
    BY <1>14, <1>15, <2>1
  <2>. QED BY <1>11, <1>12, <1>13, <1>20, <2>2, <2>3, Zenon DEF Value, s, num, den, I
<1>. QED BY <1>19, <1>20

LEMMA SubnormalNarrowed ==
  ASSUME NEW v \in Values, v.e \in 1..(ExpMax - 1), NEW md \in Modes,
         NEW n \in (Widening + 1)..(FracBits + 1), n + (v.e - Bias + NR!Bias) = Widening + 1,
         NEW r, r = RoundOff(v.f + ImplicitBit, n, v.s, md),
         NEW carry \in BOOLEAN, carry <=> BitSet(r.int, NarrowFracBits)
  PROVE  NarrowRef!Round(v.s, Ref!Mag(v), Pow2[UnitDistance], md) =
           [res |-> IF carry THEN Value(v.s, 1, 0) ELSE Value(v.s, 0, r.int % NR!ImplicitBit),
            fe |-> TinyFlags(r)]
<1>. DEFINE s == v.s
            x == v.f + ImplicitBit
            U == Unit(v.e)
            num == Ref!Mag(v)
            den == Pow2[UnitDistance]
            D == NR!Unit(1) * den
            I == NR!ImplicitBit
<1>1. /\ x \in Nat /\ Pow2[FracBits] <= x /\ x < Pow2[FracBits + 1]
      /\ U \in Nat /\ U >= 1 /\ num = x * U /\ s \in {0, 1}
  BY NormalUnits
<1>2. /\ n \in 1..MaxShift /\ n \in Nat /\ n <= MaxShift /\ NarrowFracBits \in Nat
      /\ FracBits + 1 <= NarrowFracBits + n /\ NarrowFracBits + n <= MaxShift
      /\ 1 \in 1..NR!ExpMax /\ 1 \in 1..(NR!ExpMax - 1) /\ FracBits + 1 \in Nat
      /\ (1 - 1) + UnitDistance = n + (v.e - 1) /\ (1 - 1) + UnitDistance <= MaxShift
  <2>1. n \in Nat /\ n >= Widening + 1 /\ n <= FracBits + 1 /\ NarrowFracBits \in Nat
        /\ Widening \in Nat /\ NarrowFracBits + Widening = FracBits
        /\ FracBits + 1 + FracBits <= MaxShift /\ MaxShift \in Nat /\ FracBits \in Nat
    BY NarrowWidths, Bounds
  <2>2. 1 \in 1..NR!ExpMax /\ 1 \in 1..(NR!ExpMax - 1)
    BY NarrowWidths
  <2>3. v.e \in Nat
    BY Bounds
  <2>4. (1 - 1) + UnitDistance = n + (v.e - 1) /\ (1 - 1) + UnitDistance <= MaxShift
    BY <2>1, <2>3, NarrowWidths, Bounds
  <2>. QED BY <2>1, <2>2, <2>4
<1>3. D = Pow2[n] * U
  BY <1>2, UnitsApart
<1>4. I \in Nat /\ I >= 4 /\ I = Pow2[NarrowFracBits] /\ den \in Nat /\ den >= 1
      /\ Pow2[NarrowFracBits + 1] = 2 * I
  BY NarrowPowers
<1>5. Scaled(x, n, U, D, num)
  BY <1>1, <1>3 DEF Scaled
<1>6. r = RoundOff(x, n, s, md)
  OBVIOUS
<1>7. D = NR!Unit(1) * den
  OBVIOUS
<1>. HIDE DEF s, x, U, num, den, D, I
<1>8. PICK m, up, ls :
        /\ m = x \div Pow2[n]
        /\ CutAt(s, m, num, D, up, ls, md)
        /\ RoundOff(x, n, s, md).int = (IF up THEN m + 1 ELSE m)
        /\ RoundOff(x, n, s, md).exact <=> ~ ls
  BY <1>1, <1>2, <1>5, RoundOffCut
<1>9. m \in Nat /\ m < I
  <2>1. Pow2[NarrowFracBits + n] = Pow2[NarrowFracBits] * Pow2[n]
    BY <1>2, Pow2Sum
  <2>2. Pow2[FracBits + 1] <= Pow2[NarrowFracBits + n]
    BY <1>2, Pow2Monotone
  <2>3. /\ Pow2[n] \in Nat /\ Pow2[n] >= 1 /\ Pow2[FracBits + 1] \in Nat
        /\ Pow2[NarrowFracBits + n] \in Nat
    <3>1. n \in 0..MaxShift /\ FracBits + 1 \in 0..MaxShift /\ NarrowFracBits + n \in 0..MaxShift
      BY <1>2, Widths
    <3>. QED BY <3>1, Pow2Positive
  <2>4. x < I * Pow2[n]
    <3>1. x < Pow2[NarrowFracBits + n]
      BY <1>1, <2>2, <2>3
    <3>. QED BY <1>4, <2>1, <3>1
  <2>5. x \div Pow2[n] < I
    BY <1>1, <1>4, <2>3, <2>4, QuotientSide
  <2>. QED BY <1>1, <1>8, <2>3, <2>5, Split
<1>10. up \in BOOLEAN /\ ls \in BOOLEAN
  BY <1>8 DEF CutAt
<1>11. m < 2 * NR!ImplicitBit
  BY <1>4, <1>9 DEF I
<1>12. NarrowRef!Round(s, num, den, md) = NR!Neighbour(s, 1, m, up, ls, md)
  BY <1>1, <1>2, <1>4, <1>7, <1>8, <1>11, NarrowCut
<1>. DEFINE i == IF up THEN m + 1 ELSE m
<1>13. r.int = i /\ (r.exact <=> ~ ls)
  BY <1>6, <1>8, Zenon
<1>14. NR!Flags(1, m, ls) = TinyFlags(r)
  <2>1. m < NR!ImplicitBit
    BY <1>9 DEF I
  <2>2. NR!Flags(1, m, ls) = (IF ls THEN {"underflow", "inexact"} ELSE {})
    BY <2>1 DEF NR!Flags
  <2>3. TinyFlags(r) = (IF ls THEN {"underflow", "inexact"} ELSE {})
    BY <1>10, <1>13, Zenon DEF TinyFlags
  <2>. QED BY <2>2, <2>3
<1>15. i \in Nat /\ i <= I
  BY <1>4, <1>9, <1>10
<1>16. /\ i < I =>
            NR!Neighbour(s, 1, m, up, ls, md) =
              [res |-> [s |-> s, e |-> 0, f |-> i], fe |-> NR!Flags(1, m, ls)]
       /\ I <= i /\ i < 2 * I =>
            NR!Neighbour(s, 1, m, up, ls, md) =
              [res |-> [s |-> s, e |-> 1, f |-> i - I], fe |-> NR!Flags(1, m, ls)]
  BY <1>2, <1>9, <1>10, <1>11, NarrowFields DEF I
<1>. HIDE DEF i
<1>17. carry <=> i = I
  <2>1. NarrowFracBits \in Nat /\ NarrowFracBits < MaxShift
    BY <1>2, NarrowWidths, Bounds
  <2>2. i < Pow2[NarrowFracBits + 1]
    BY <1>4, <1>15
  <2>3. BitSet(i, NarrowFracBits) <=> Pow2[NarrowFracBits] <= i
    BY <1>15, <2>1, <2>2, TopBit
  <2>4. BitSet(r.int, NarrowFracBits) <=> BitSet(i, NarrowFracBits)
    BY <1>13
  <2>. QED BY <1>4, <1>15, <2>3, <2>4
<1>18. CASE carry
  <2>1. I <= i /\ i < 2 * I /\ i - I = 0
    BY <1>4, <1>17, <1>18
  <2>2. NR!Neighbour(s, 1, m, up, ls, md) =
          [res |-> [s |-> s, e |-> 1, f |-> 0], fe |-> NR!Flags(1, m, ls)]
    BY <1>16, <2>1
  <2>. QED BY <1>12, <1>14, <1>18, <2>2, Zenon DEF Value, s, num, den
<1>19. CASE ~ carry
  <2>1. i < I
    BY <1>4, <1>15, <1>17, <1>19
  <2>2. i % I = i
    BY <1>4, <1>15, <2>1
  <2>3. NR!Neighbour(s, 1, m, up, ls, md) =
          [res |-> [s |-> s, e |-> 0, f |-> i], fe |-> NR!Flags(1, m, ls)]
    BY <1>16, <2>1
  <2>. QED BY <1>12, <1>13, <1>14, <1>19, <2>2, <2>3, Zenon DEF Value, s, num, den, I
<1>. QED BY <1>18, <1>19

(* Less than half of the least narrow number: 0 or that number.            *)
LEMMA TinyNarrowed ==
  ASSUME NEW v \in Values, v.e < ExpMax, ~ IsZero(v), NEW md \in Modes,
         v.e = 0 \/ Widening + 1 - (v.e - Bias + NR!Bias) > FracBits + 1
  PROVE  NarrowRef!Round(v.s, Ref!Mag(v), Pow2[UnitDistance], md) =
           [res |-> Value(v.s, 0, IF AwayFromZero(v.s, md) THEN 1 ELSE 0),
            fe |-> {"underflow", "inexact"}]
<1>. DEFINE num == Ref!Mag(v)
            den == Pow2[UnitDistance]
            s == v.s
<1>1. num \in Nat /\ num >= 1 /\ s \in {0, 1}
  BY OperandMagnitude DEF Values
<1>2. den \in Nat /\ den >= 1 /\ NR!ImplicitBit \in Nat /\ NR!ImplicitBit >= 4
  BY NarrowPowers
<1>3. 2 * num < den
  <2>1. CASE v.e = 0
    <3>1. num = v.f * Unit(1)
      <4>1. Binade(v.e) = 1 /\ Whole(v) = v.f
        BY <2>1 DEF Binade, Whole
      <4>. QED BY <4>1, ValueAt
    <3>2. Unit(1) = 1 /\ v.f \in Nat /\ v.f < ImplicitBit /\ ImplicitBit \in Nat
      <4>1. 1 \in 1..ExpMax
        BY Bounds
      <4>. QED BY <4>1, UnitFacts, GuardPowers DEF Values
    <3>3. num < ImplicitBit
      BY <3>1, <3>2
    <3>4. 2 * ImplicitBit <= den
      <4>1. FracBits \in Nat /\ FracBits < UnitDistance /\ UnitDistance <= MaxShift
            /\ UnitDistance \in Nat
        BY NarrowWidths, Bounds
      <4>. QED BY <4>1, Pow2Monotone DEF ImplicitBit
    <3>. QED BY <1>1, <1>2, <3>2, <3>3, <3>4
  <2>2. CASE v.e # 0
    <3>1. v.e \in 1..(ExpMax - 1) /\ v.e \in Nat /\ v.e - 1 \in Nat
      BY <2>2, Bounds DEF Values
    <3>. DEFINE x == v.f + ImplicitBit
                U == Unit(v.e)
                k == FracBits + 1
    <3>2. /\ x \in Nat /\ x < Pow2[k] /\ U \in Nat /\ U >= 1 /\ num = x * U
      BY <3>1, NormalUnits
    <3>3. /\ k \in Nat /\ k + (v.e - 1) < UnitDistance /\ UnitDistance <= MaxShift
          /\ UnitDistance \in Nat /\ k + (v.e - 1) \in Nat /\ k + (v.e - 1) <= MaxShift
      BY <2>2, <3>1, NarrowWidths, Bounds
    <3>4. Pow2[k + (v.e - 1)] = Pow2[k] * U
      BY <3>1, <3>3, Pow2Sum DEF Unit
    <3>5. 2 * Pow2[k + (v.e - 1)] <= den
      BY <3>3, Pow2Monotone
    <3>6. Pow2[k] \in Nat
      <4>1. k \in 0..MaxShift
        BY <3>1, <3>3, Bounds
      <4>. QED BY <4>1, Pow2Positive
    <3>. DEFINE P == Pow2[k]
    <3>7. P \in Nat /\ x < P /\ 2 * (P * U) <= den
      BY <3>2, <3>4, <3>5, <3>6
    <3>. HIDE DEF x, U, k, P
    <3>8. x * U < P * U
      <4>1. (P - x) * U >= 1
        BY <3>2, <3>7, Z3
      <4>. QED BY <3>2, <3>7, <4>1, Z3
    <3>9. P * U \in Nat
      BY <3>2, <3>7
    <3>. QED BY <1>1, <1>2, <3>2, <3>7, <3>8, <3>9
  <2>. QED BY <2>1, <2>2
<1>. DEFINE D == NR!Unit(1) * den
<1>4. 1 \in 1..NR!ExpMax /\ 1 \in 1..(NR!ExpMax - 1)
  BY NarrowWidths
<1>5. D = den
  <2>1. NR!Unit(1) = 1
    BY <1>4, NarrowFormat, NR!UnitFacts
  <2>. QED BY <1>2, <2>1
<1>6. D = NR!Unit(1) * den
  OBVIOUS
<1>. HIDE DEF num, den, s, D
<1>7. PICK up \in BOOLEAN : up <=> AwayFromZero(s, md)
  OBVIOUS
<1>8. PICK ls \in BOOLEAN : ls
  OBVIOUS
<1>9. CutAt(s, 0, num, D, up, ls, md)
  <2>. DEFINE lost == num # 0 * D
              half == 2 * num >= (2 * 0 + 1) * D
              tie == 2 * num = (2 * 0 + 1) * D
  <2>1. D \in Nat /\ D >= 1 /\ 2 * num < D /\ 0 * D = 0 /\ (0 + 1) * D = D /\ (2 * 0 + 1) * D = D
    BY <1>2, <1>3, <1>5
  <2>2. lost /\ ~ half /\ ~ tie
    BY <1>1, <2>1
  <2>. HIDE DEF lost, half, tie
  <2>3. up <=> Upwards(s, 0, lost, half, tie, md)
    BY <1>1, <1>7, <2>2 DEF Upwards, AwayFromZero, Modes
  <2>4. 0 \in Nat /\ 0 * D <= num /\ num < (0 + 1) * D
    BY <1>1, <2>1
  <2>. QED BY <1>1, <1>7, <1>8, <2>1, <2>2, <2>3, <2>4 DEF CutAt, lost, half, tie
<1>10. 0 \in Nat /\ 0 < 2 * NR!ImplicitBit
  BY <1>2
<1>11. NarrowRef!Round(s, num, den, md) = NR!Neighbour(s, 1, 0, up, ls, md)
  BY <1>1, <1>2, <1>4, <1>6, <1>9, <1>10, NarrowCut
<1>. DEFINE i == IF up THEN 0 + 1 ELSE 0
<1>12. i < NR!ImplicitBit /\ i = (IF AwayFromZero(s, md) THEN 1 ELSE 0)
  BY <1>2, <1>7
<1>13. i < NR!ImplicitBit =>
         NR!Neighbour(s, 1, 0, up, ls, md) =
           [res |-> [s |-> s, e |-> 0, f |-> i], fe |-> NR!Flags(1, 0, ls)]
  BY <1>4, <1>7, <1>10, NarrowFields
<1>14. NR!Flags(1, 0, ls) = {"underflow", "inexact"}
  BY <1>2, <1>8 DEF NR!Flags
<1>. HIDE DEF i
<1>. QED BY <1>11, <1>12, <1>13, <1>14, Zenon DEF Value, s, num, den

(* Beyond the largest narrow number.                                       *)
LEMMA LargeNarrowed ==
  ASSUME NEW v \in Values, v.e < ExpMax, NEW md \in Modes, v.e - Bias + NR!Bias >= NR!ExpMax
  PROVE  NarrowRef!Round(v.s, Ref!Mag(v), Pow2[UnitDistance], md) =
           [res |-> NarrowOverflow(v.s, md), fe |-> {"overflow", "inexact"}]
<1>. DEFINE num == Ref!Mag(v)
            den == Pow2[UnitDistance]
            x == v.f + ImplicitBit
            U == Unit(v.e)
            k == NR!ExpMax - 1
<1>1. v.e \in 1..(ExpMax - 1) /\ v.e - 1 \in Nat /\ k \in Nat /\ v.s \in {0, 1} /\ v.e \in Nat
  BY NarrowWidths, Bounds DEF Values
<1>2. x \in Nat /\ Pow2[FracBits] <= x /\ U \in Nat /\ U >= 1 /\ num = x * U
  BY <1>1, NormalUnits
<1>3. NR!Ref!Magnitude[NR!ExpMax * NR!ImplicitBit] = NR!ImplicitBit * NR!Unit(NR!ExpMax)
  BY NarrowFormat, NR!InfMagnitude
<1>4. NR!Ref!InfIndex = NR!ExpMax * NR!ImplicitBit
  BY NarrowFormat, NR!SameFormat
<1>5. /\ NR!ImplicitBit = Pow2[NarrowFracBits] /\ NR!Unit(NR!ExpMax) = Pow2[k]
      /\ den = Pow2[UnitDistance] /\ U = Pow2[v.e - 1]
  BY NarrowPowers DEF NR!Unit, Unit
<1>6. /\ NarrowFracBits \in Nat /\ UnitDistance \in Nat
      /\ (NarrowFracBits + k) + UnitDistance <= FracBits + (v.e - 1)
      /\ FracBits + (v.e - 1) <= MaxShift /\ NarrowFracBits + k <= MaxShift
      /\ (NarrowFracBits + k) + UnitDistance <= MaxShift /\ FracBits \in Nat
      /\ FracBits + (v.e - 1) \in Nat /\ (NarrowFracBits + k) + UnitDistance \in Nat
      /\ NarrowFracBits + k \in Nat
  BY <1>1, NarrowWidths, Bounds
<1>. HIDE DEF k
<1>7. /\ Pow2[(NarrowFracBits + k) + UnitDistance] = Pow2[NarrowFracBits + k] * Pow2[UnitDistance]
      /\ Pow2[NarrowFracBits + k] = Pow2[NarrowFracBits] * Pow2[k]
      /\ Pow2[FracBits + (v.e - 1)] = Pow2[FracBits] * Pow2[v.e - 1]
  BY <1>1, <1>6, Pow2Sum
<1>8. Pow2[(NarrowFracBits + k) + UnitDistance] <= Pow2[FracBits + (v.e - 1)]
  BY <1>6, Pow2Monotone
<1>. DEFINE P == Pow2[FracBits]
            top == NR!Ref!Magnitude[NR!Ref!InfIndex]
<1>9. top * den <= P * U
  <2>1. top = Pow2[NarrowFracBits] * Pow2[k]
    BY <1>3, <1>4, <1>5
  <2>. QED BY <1>5, <1>7, <1>8, <2>1
<1>10. P \in Nat /\ P <= x
  <2>1. FracBits \in 0..MaxShift
    BY Bounds
  <2>. QED BY <1>2, <2>1, Pow2Positive
<1>11. top * den \in Int
  <2>1. (NarrowFracBits + k) + UnitDistance \in 0..MaxShift
    BY <1>6
  <2>. QED BY <1>3, <1>4, <1>5, <1>7, <2>1, Pow2Positive
<1>. HIDE DEF num, den, x, U, P, top
<1>12. P * U <= x * U
  <2>1. (x - P) * U >= 0
    BY <1>2, <1>10, Z3
  <2>. QED BY <1>2, <1>10, <2>1, Z3
<1>13. num >= top * den
  <2>1. P * U \in Nat /\ x * U \in Nat
    BY <1>2, <1>10
  <2>. QED BY <1>2, <1>9, <1>11, <1>12, <2>1
<1>14. NR!Ref!Round(v.s, num, den, md) = NR!Ref!Overflows(v.s, md)
  BY <1>13, Zenon DEF NR!Ref!Round, top
<1>15. NR!Ref!Overflows(v.s, md) = [res |-> NarrowOverflow(v.s, md), fe |-> {"overflow", "inexact"}]
  BY <1>1, NarrowOverflows
<1>. QED BY <1>14, <1>15, NarrowRounding DEF num, den

---------------------------------------------------------------------------
(* The handlers of fp64_to_float.                                          *)
NarrowingResult(c, r, g) ==
  [res |-> r, fe |-> g] =
    IF IsNaN(c.v)
    THEN [res |-> Narrow!Quiet([s |-> c.v.s, e |-> Narrow!ExpMax,
                                f |-> c.v.f \div Pow2[FracBits - NarrowFracBits]]),
          fe |-> IF IsSNaN(c.v) THEN {"invalid"} ELSE {}]
    ELSE IF IsInf(c.v) THEN [res |-> Narrow!SignedInf(c.v.s), fe |-> {}]
    ELSE IF IsZero(c.v) THEN [res |-> Narrow!SignedZero(c.v.s), fe |-> {}]
    ELSE NarrowRef!Round(c.v.s, Ref!Mag(c.v), Pow2[UnitDistance], c.mode)

LEMMA NarrowingResultIs ==
  ASSUME NarrowingResult(call, res, fe)
  PROVE  CorrectNarrowing
BY Zenon DEF NarrowingResult, CorrectNarrowing, Outcome, Returned

LEMMA ToNarrowCall ==
  ASSUME call \in ToNarrows
  PROVE  /\ call.v \in Values /\ call.v.s \in {0, 1} /\ call.mode \in Modes /\ call.op = "toNarrow"
         /\ call.v.e \in 0..ExpMax /\ call.v.e \in Nat
<1>1. call.v \in Values /\ call.mode \in Modes /\ call.op = "toNarrow"
  BY DEF ToNarrows
<1>. QED BY <1>1, Fields DEF Values

LEMMA NarrowedFinite ==
  ASSUME call \in ToNarrows, call.v.e < ExpMax, ~ IsZero(call.v), NEW r, NEW g,
         NarrowRef!Round(call.v.s, Ref!Mag(call.v), Pow2[UnitDistance], call.mode) =
           [res |-> r, fe |-> g]
  PROVE  NarrowingResult(call, r, g)
<1>1. ~ IsNaN(call.v) /\ ~ IsInf(call.v)
  BY ToNarrowCall, Fields DEF IsNaN, IsInf
<1>. QED BY <1>1, Zenon DEF NarrowingResult

LEMMA NarrowSpecialCorrect ==
  ASSUME call \in ToNarrows, fe = {}, NarrowZeroOrInf \/ NarrowNaN
  PROVE  NarrowingResult(call, res', fe')
<1>1. CASE NarrowZeroOrInf
  <2>1. fe' = {} /\ (IsZero(call.v) \/ IsInf(call.v))
        /\ res' = (IF IsZero(call.v) THEN Narrow!SignedZero(call.v.s) ELSE Narrow!SignedInf(call.v.s))
    BY <1>1 DEF NarrowZeroOrInf, Done
  <2>2. ~ IsNaN(call.v) /\ (IsInf(call.v) => ~ IsZero(call.v))
    BY <2>1, Fields DEF IsNaN, IsInf, IsZero
  <2>. QED BY <2>1, <2>2, Zenon DEF NarrowingResult
<1>2. CASE NarrowNaN
  <2>1. /\ IsNaN(call.v) /\ fe' = (IF IsSNaN(call.v) THEN {"invalid"} ELSE {})
        /\ res' = Narrow!Quiet([s |-> call.v.s, e |-> Narrow!ExpMax,
                                f |-> call.v.f \div Pow2[FracBits - NarrowFracBits]])
    BY <1>2 DEF NarrowNaN, Done, Value, Widening
  <2>. QED BY <2>1, Zenon DEF NarrowingResult
<1>. QED BY <1>1, <1>2

LEMMA NarrowFiniteCorrect ==
  ASSUME call \in ToNarrows, fe = {},
         NarrowTiny \/ NarrowTooLarge \/ NarrowNormal \/ NarrowSubnormal
  PROVE  NarrowingResult(call, res', fe')
<1>. DEFINE v == call.v
            md == call.mode
            ne == v.e - Bias + NR!Bias
            R == NarrowRef!Round(v.s, Ref!Mag(v), Pow2[UnitDistance], md)
<1>1. v \in Values /\ v.s \in {0, 1} /\ md \in Modes /\ v.e \in Nat
  BY ToNarrowCall
<1>2. v.e < ExpMax /\ ~ IsZero(v)
  BY DEF NarrowTiny, NarrowTooLarge, NarrowNormal, NarrowSubnormal, Finite
<1>3. NewExp = ne /\ DropShift = Widening + 1 - ne /\ Narrow!ExpMax = NR!ExpMax
      /\ Narrow!ImplicitBit = NR!ImplicitBit
  BY NarrowParts DEF NewExp, DropShift, E
<1>4. ne \in Int /\ Widening \in Nat /\ NR!ExpMax \in Nat /\ NR!ExpMax <= ExpMax /\ FracBits \in Nat
      /\ NR!Bias < Bias /\ NR!Bias \in Nat /\ Bias \in Nat
  BY <1>1, NarrowWidths, Bounds
<1>5. R = [res |-> res', fe |-> fe']
  <2>1. CASE NarrowTiny
    <3>1. /\ v.e = 0 \/ (ne <= 0 /\ DropShift > FracBits + 1)
          /\ res' = Value(v.s, 0, IF AwayFromZero(v.s, md) THEN 1 ELSE 0)
      BY <2>1, <1>3 DEF NarrowTiny, Lost, Done
    <3>2. fe' = {"underflow", "inexact"}
      BY <2>1 DEF NarrowTiny, Done
    <3>3. v.e = 0 \/ Widening + 1 - ne > FracBits + 1
      BY <1>3, <3>1
    <3>4. R = [res |-> Value(v.s, 0, IF AwayFromZero(v.s, md) THEN 1 ELSE 0),
               fe |-> {"underflow", "inexact"}]
      BY <1>1, <1>2, <3>3, TinyNarrowed
    <3>. QED BY <3>1, <3>2, <3>4
  <2>2. CASE NarrowTooLarge
    <3>1. /\ ne >= NR!ExpMax /\ fe' = {"overflow", "inexact"} /\ res' = NarrowOverflow(v.s, md)
      BY <2>2, <1>3 DEF NarrowTooLarge, Done
    <3>2. R = [res |-> NarrowOverflow(v.s, md), fe |-> {"overflow", "inexact"}]
      BY <1>1, <1>2, <3>1, LargeNarrowed
    <3>. QED BY <3>1, <3>2
  <2>3. CASE NarrowNormal
    <3>. DEFINE r == RoundOff(v.f + ImplicitBit, Widening, v.s, md)
    <3>1. /\ ne \in 1..(NR!ExpMax - 1)
          /\ IF BitSet(r.int, NarrowFracBits + 1) /\ ne + 1 >= NR!ExpMax
             THEN Done(NarrowOverflow(v.s, md), {"overflow", "inexact"})
             ELSE Done(IF BitSet(r.int, NarrowFracBits + 1) THEN Value(v.s, ne + 1, 0)
                       ELSE Value(v.s, ne, r.int % NR!ImplicitBit), Tells(r.exact))
      BY <2>3, <1>3 DEF NarrowNormal, Mant
    <3>2. PICK carry \in BOOLEAN : carry <=> BitSet(r.int, NarrowFracBits + 1)
      OBVIOUS
    <3>3. v.e \in 1..(ExpMax - 1)
      BY <1>1, <1>2, <1>4, <3>1, Bounds
    <3>. DEFINE over == carry /\ ne + 1 >= NR!ExpMax
                val == IF carry THEN Value(v.s, ne + 1, 0) ELSE Value(v.s, ne, r.int % NR!ImplicitBit)
    <3>. HIDE DEF r
    <3>4. R = IF over
              THEN [res |-> NarrowOverflow(v.s, md), fe |-> {"overflow", "inexact"}]
              ELSE [res |-> val, fe |-> Tells(r.exact)]
      <4>. DEFINE q == ne
      <4>1. q \in 1..(NR!ExpMax - 1) /\ q = v.e - Bias + NR!Bias /\ r = RoundOff(v.f + ImplicitBit, Widening, v.s, md)
        BY <3>1 DEF r
      <4>. HIDE DEF q
      <4>2. R = IF carry /\ q + 1 >= NR!ExpMax
                THEN [res |-> NarrowOverflow(v.s, md), fe |-> {"overflow", "inexact"}]
                ELSE [res |-> IF carry THEN Value(v.s, q + 1, 0)
                              ELSE Value(v.s, q, r.int % NR!ImplicitBit), fe |-> Tells(r.exact)]
        BY <1>1, <3>2, <3>3, <4>1, NormalNarrowed
      <4>. QED BY <4>2 DEF q
    <3>5. IF over THEN res' = NarrowOverflow(v.s, md) /\ fe' = {"overflow", "inexact"}
          ELSE res' = val /\ fe' = Tells(r.exact)
      BY <3>1, <3>2, Zenon DEF Done, r
    <3>. QED BY <3>4, <3>5, Zenon
  <2>4. CASE NarrowSubnormal
    <3>. DEFINE n == Widening + 1 - ne
                r == RoundOff(v.f + ImplicitBit, n, v.s, md)
    <3>1. /\ ne <= 0 /\ ~ (v.e = 0) /\ ~ (n > FracBits + 1)
      BY <2>4, <1>3 DEF NarrowSubnormal, Lost
    <3>2. /\ res' = (IF BitSet(r.int, NarrowFracBits) THEN Value(v.s, 1, 0)
                     ELSE Value(v.s, 0, r.int % NR!ImplicitBit))
          /\ fe' = TinyFlags(r)
      BY <2>4, <1>3 DEF NarrowSubnormal, Mant, Done
    <3>3. PICK carry \in BOOLEAN : carry <=> BitSet(r.int, NarrowFracBits)
      OBVIOUS
    <3>4. n \in (Widening + 1)..(FracBits + 1) /\ n + (v.e - Bias + NR!Bias) = Widening + 1
      BY <1>4, <3>1
    <3>5. v.e \in 1..(ExpMax - 1)
      BY <1>1, <1>2, <3>1, Bounds
    <3>6. r = RoundOff(v.f + ImplicitBit, n, v.s, md)
      OBVIOUS
    <3>. HIDE DEF r, n
    <3>7. R = [res |-> IF carry THEN Value(v.s, 1, 0) ELSE Value(v.s, 0, r.int % NR!ImplicitBit),
               fe |-> TinyFlags(r)]
      BY <1>1, <3>3, <3>4, <3>5, <3>6, SubnormalNarrowed
    <3>. QED BY <3>2, <3>3, <3>7, Zenon
  <2>. QED BY <2>1, <2>2, <2>3, <2>4
<1>. QED BY <1>2, <1>5, NarrowedFinite

---------------------------------------------------------------------------
(* The handlers of fp64_from_float.                                        *)
WideningResult(c, r, g) ==
  /\ r.s = c.v.s
  /\ IF Narrow!IsNaN(c.v)
     THEN /\ IsNaN(r) /\ ~ IsSNaN(r)
          /\ r.f % QuietNaNBit = (c.v.f % Narrow!QuietNaNBit) * Pow2[FracBits - NarrowFracBits]
          /\ g = IF Narrow!IsSNaN(c.v) THEN {"invalid"} ELSE {}
     ELSE /\ g = {}
          /\ IF Narrow!IsInf(c.v) THEN IsInf(r)
             ELSE ~ IsNaN(r) /\ ~ IsInf(r)
                    /\ Ref!Mag(r) = NarrowRef!Mag(c.v) * Pow2[UnitDistance]

LEMMA WideningResultIs ==
  ASSUME WideningResult(call, res, fe)
  PROVE  WideningExact
BY Zenon DEF WideningResult, WideningExact, Returned

LEMMA FromNarrowCall ==
  ASSUME call \in FromNarrows
  PROVE  /\ call.op = "fromNarrow" /\ call.v.s \in {0, 1}
         /\ call.v \in NR!Values
         /\ call.v.e \in Nat /\ call.v.e <= NR!ExpMax
         /\ call.v.f \in Nat /\ call.v.f < NR!ImplicitBit
<1>1. call.op = "fromNarrow" /\ call.v \in NR!Values
  BY NarrowParts DEF FromNarrows
<1>. QED BY <1>1, NarrowWidths, NarrowPowers DEF NR!Values

(* The magnitude of a narrow number in narrow units.                       *)
LEMMA NarrowValue ==
  ASSUME NEW v \in NR!Values, v.e < NR!ExpMax
  PROVE  /\ v.e = 0 => NarrowRef!Mag(v) = v.f
         /\ v.e >= 1 => NarrowRef!Mag(v) = (v.f + NR!ImplicitBit) * Pow2[v.e - 1]
<1>1. NarrowRef!Mag(v) = NR!Whole(v) * NR!Unit(NR!Binade(v.e))
  BY NarrowFormat, NarrowMag, NR!ValueAt
<1>2. v.e \in Nat /\ v.f \in Nat
  BY NarrowWidths, NarrowPowers DEF NR!Values
<1>3. v.e = 0 => NR!Whole(v) = v.f /\ NR!Binade(v.e) = 1
  BY Zenon DEF NR!Whole, NR!Binade
<1>4. v.e >= 1 => NR!Whole(v) = v.f + NR!ImplicitBit /\ NR!Binade(v.e) = v.e
  BY <1>2 DEF NR!Whole, NR!Binade
<1>5. NR!Unit(1) = 1
  <2>1. 1 \in 1..NR!ExpMax
    BY NarrowWidths
  <2>. QED BY <2>1, NarrowFormat, NR!UnitFacts
<1>6. NR!Unit(v.e) = Pow2[v.e - 1]
  BY DEF NR!Unit
<1>. QED BY <1>1, <1>2, <1>3, <1>4, <1>5, <1>6

LEMMA WidenSpecialCorrect ==
  ASSUME call \in FromNarrows, fe = {}, WidenZeroOrInf
  PROVE  WideningResult(call, res', fe')
<1>. DEFINE r == Value(call.v.s, IF Narrow!IsZero(call.v) THEN 0 ELSE ExpMax, 0)
<1>1. fe' = {} /\ res' = r /\ (Narrow!IsZero(call.v) \/ Narrow!IsInf(call.v))
  BY DEF WidenZeroOrInf, Done
<1>2. r.s = call.v.s /\ r.f = 0 /\ r.e = (IF Narrow!IsZero(call.v) THEN 0 ELSE ExpMax)
  BY DEF Value
<1>3. ~ Narrow!IsNaN(call.v)
  BY <1>1, NarrowWidths, NarrowParts DEF Narrow!IsZero, Narrow!IsInf, Narrow!IsNaN
<1>4. CASE Narrow!IsInf(call.v)
  <2>1. ~ Narrow!IsZero(call.v)
    BY <1>4, NarrowWidths, NarrowParts DEF Narrow!IsZero, Narrow!IsInf
  <2>2. IsInf(r)
    BY <1>2, <2>1 DEF IsInf
  <2>. QED BY <1>1, <1>2, <1>3, <1>4, <2>2, Zenon DEF WideningResult
<1>5. CASE ~ Narrow!IsInf(call.v)
  <2>1. Narrow!IsZero(call.v)
    BY <1>1, <1>5
  <2>2. call.v.e = 0 /\ call.v.f = 0
    BY <2>1 DEF Narrow!IsZero
  <2>3. r.e = 0 /\ ~ IsNaN(r) /\ ~ IsInf(r)
    BY <1>2, <2>1, Bounds DEF IsNaN, IsInf
  <2>4. r \in Values /\ r.e < ExpMax
    <3>1. r = [s |-> call.v.s, e |-> 0, f |-> 0]
      BY <2>1 DEF Value
    <3>. QED BY <2>3, <3>1, FromNarrowCall, Bounds, GuardPowers DEF Values
  <2>5. Ref!Mag(r) = 0
    <3>1. Binade(r.e) = 1 /\ Whole(r) = 0
      BY <1>2, <2>3 DEF Binade, Whole
    <3>2. Unit(1) \in Nat
      <4>1. 1 \in 1..ExpMax
        BY Bounds
      <4>. QED BY <4>1, UnitFacts
    <3>3. Ref!Mag(r) = 0 * Unit(1)
      BY <2>4, <3>1, ValueAt
    <3>. QED BY <3>2, <3>3
  <2>6. NarrowRef!Mag(call.v) * Pow2[UnitDistance] = 0
    <3>1. NarrowRef!Mag(call.v) = 0
      BY <2>2, FromNarrowCall, NarrowWidths, NarrowValue
    <3>. QED BY <3>1, NarrowPowers
  <2>. HIDE DEF r
  <2>7. Ref!Mag(r) = NarrowRef!Mag(call.v) * Pow2[UnitDistance]
    BY <2>5, <2>6
  <2>. QED BY <1>1, <1>2, <1>3, <1>5, <2>3, <2>7, Zenon DEF WideningResult
<1>. QED BY <1>4, <1>5

(* The upper bits of the payload, and the quiet bit.                       *)
LEMMA WidenNaNCorrect ==
  ASSUME call \in FromNarrows, fe = {}, WidenNaN
  PROVE  WideningResult(call, res', fe')
<1>. DEFINE f == call.v.f
            P == Pow2[Widening]
            Q == QuietNaNBit
            q == NR!QuietNaNBit
            r == Quiet(Value(call.v.s, ExpMax, f * P))
            g == f * P
<1>1. /\ Narrow!IsNaN(call.v) /\ res' = r
      /\ fe' = (IF Narrow!IsSNaN(call.v) THEN {"invalid"} ELSE {})
  BY DEF WidenNaN, Done
<1>2. f \in Nat /\ f < NR!ImplicitBit /\ f # 0
  BY <1>1, FromNarrowCall DEF Narrow!IsNaN
<1>3. /\ P \in Nat /\ P >= 1 /\ q \in Nat /\ Q \in Nat /\ Q = q * P
      /\ NR!ImplicitBit = 2 * q /\ ImplicitBit = 2 * Q
      /\ P = Pow2[FracBits - NarrowFracBits] /\ Narrow!QuietNaNBit = q
  BY NarrowPowers, NarrowWidths, NarrowParts
<1>4. r.s = call.v.s /\ r.e = ExpMax /\ r.f = (IF g < Q THEN g + Q ELSE g)
  BY DEF Quiet, Value
<1>. HIDE DEF f, P, Q, q, r
<1>5. g \in Nat /\ g >= 1
  BY <1>2, <1>3, Z3
<1>6. f < 2 * q
  BY <1>2, <1>3
<1>7. f < q => g < Q
  <2>1. f < q => (q - f) * P >= 1
    BY <1>2, <1>3, Z3
  <2>. QED BY <1>2, <1>3, <2>1, Z3
<1>8. f >= q => g >= Q /\ g = (f - q) * P + Q /\ (f - q) * P < Q /\ (f - q) * P \in Nat
  <2>. SUFFICES ASSUME f >= q
                PROVE  g >= Q /\ g = (f - q) * P + Q /\ (f - q) * P < Q /\ (f - q) * P \in Nat
    OBVIOUS
  <2>1. (f - q) * P \in Nat
    BY <1>2, <1>3, Z3
  <2>2. g = (f - q) * P + Q
    BY <1>2, <1>3, Z3
  <2>3. (q - (f - q)) * P >= 1
    BY <1>2, <1>3, <1>6, Z3
  <2>4. (f - q) * P < Q
    <3>1. (q - (f - q)) * P = q * P - (f - q) * P
      BY <1>2, <1>3, Z3
    <3>. QED BY <1>2, <1>3, <2>1, <2>3, <3>1
  <2>. HIDE DEF g
  <2>5. g >= Q
    BY <1>3, <2>1, <2>2
  <2>. QED BY <2>1, <2>2, <2>4, <2>5
<1>9. f % q = (IF f < q THEN f ELSE f - q)
  <2>1. CASE f < q
    BY <1>2, <1>3, <2>1
  <2>2. CASE ~ (f < q)
    <3>1. f - q \in Nat /\ f - q < q
      BY <1>2, <1>3, <1>6, <2>2
    <3>2. (1 * q + (f - q)) % q = f - q
      BY <1>3, <3>1, Join
    <3>3. 1 * q + (f - q) = f
      BY <1>2, <1>3
    <3>. QED BY <2>2, <3>2, <3>3
  <2>. QED BY <2>1, <2>2
<1>10. \E y \in Nat : y < Q /\ r.f = 1 * Q + y /\ y = (f % q) * P
  <2>1. CASE f < q
    <3>1. r.f = 1 * Q + g /\ g < Q
      BY <1>3, <1>4, <1>5, <1>7, <2>1
    <3>. QED BY <1>5, <1>9, <2>1, <3>1
  <2>2. CASE ~ (f < q)
    <3>1. g >= Q /\ g = (f - q) * P + Q /\ (f - q) * P < Q /\ (f - q) * P \in Nat
      BY <1>2, <1>3, <1>8, <2>2
    <3>2. r.f = g
      BY <1>3, <1>4, <1>5, <3>1
    <3>3. r.f = 1 * Q + (f - q) * P
      BY <1>3, <3>1, <3>2
    <3>. QED BY <1>9, <2>2, <3>1, <3>3
  <2>. QED BY <2>1, <2>2
<1>11. PICK y \in Nat : y < Q /\ r.f = 1 * Q + y /\ y = (f % q) * P
  BY <1>10
<1>12. r.f % Q = y
  <2>1. 1 \in Nat /\ y \in Nat /\ Q \in Nat /\ y < Q
    BY <1>3, <1>11
  <2>2. (1 * Q + y) % Q = y
    BY <2>1, Join
  <2>. QED BY <1>11, <2>2
<1>13. IsNaN(r) /\ ~ IsSNaN(r)
  <2>1. r.f # 0 /\ ~ (r.f < Q)
    BY <1>3, <1>11
  <2>. QED BY <1>4, <2>1 DEF IsNaN, IsSNaN, Q
<1>14. r.f % Q = (f % q) * P
  BY <1>11, <1>12
<1>15. res'.f % QuietNaNBit = (call.v.f % Narrow!QuietNaNBit) * Pow2[FracBits - NarrowFracBits]
  BY <1>1, <1>3, <1>14, Zenon DEF Q, f
<1>. QED BY <1>1, <1>4, <1>13, <1>15, Zenon DEF WideningResult

(* The remainder of a word by its leading bit drops that bit.              *)
LEMMA LeadingBitDropped ==
  ASSUME NEW w \in Nat, NEW q \in Nat, q <= w, w < 2 * q
  PROVE  w % q = w - q
<1>. DEFINE y == w - q
<1>1. 1 \in Nat /\ y \in Nat /\ y < q /\ w = 1 * q + y
  OBVIOUS
<1>. HIDE DEF y
<1>2. (1 * q + y) % q = y
  BY <1>1, Join
<1>3. w % q = y
  BY <1>1, <1>2
<1>. QED BY <1>3 DEF y

(* A number of the normal form has the magnitude of its significand in its *)
(* unit.                                                                   *)
LEMMA Normalised ==
  ASSUME NEW s \in {0, 1}, NEW e \in 1..(ExpMax - 1), NEW w \in Nat,
         ImplicitBit <= w, w < 2 * ImplicitBit,
         NEW v, v = [s |-> s, e |-> e, f |-> w % ImplicitBit]
  PROVE  ~ IsNaN(v) /\ ~ IsInf(v) /\ Ref!Mag(v) = w * Pow2[e - 1]
<1>1. v.s = s /\ v.e = e /\ v.f = w % ImplicitBit /\ ImplicitBit \in Nat
  BY GuardPowers
<1>2. w % ImplicitBit = w - ImplicitBit
  BY <1>1, LeadingBitDropped
<1>3. v.e < ExpMax /\ v.e # 0 /\ e \in 0..ExpMax /\ e # ExpMax
  BY <1>1, Bounds
<1>4. v \in Values
  <2>1. w % ImplicitBit \in 0..(ImplicitBit - 1)
    BY <1>1, <1>2
  <2>. QED BY <1>3, <2>1 DEF Values
<1>5. Binade(v.e) = e /\ Whole(v) = w
  <2>1. v.f + ImplicitBit = w
    BY <1>1, <1>2
  <2>. QED BY <1>1, <1>3, <2>1 DEF Binade, Whole
<1>. QED BY <1>1, <1>3, <1>4, <1>5, ValueAt DEF IsNaN, IsInf, Unit

LEMMA TwoShifts ==
  ASSUME NEW x \in Nat, NEW m \in Nat, NEW n \in Nat, m + n <= MaxShift
  PROVE  (x * Pow2[m]) * Pow2[n] = x * Pow2[m + n]
<1>1. m \in 0..MaxShift /\ n \in 0..MaxShift
  BY Bounds
<1>2. Pow2[m] \in Nat /\ Pow2[n] \in Nat
  BY <1>1, Pow2Positive
<1>3. Pow2[m + n] = Pow2[m] * Pow2[n]
  BY Pow2Sum
<1>. DEFINE p == Pow2[m]
            q == Pow2[n]
<1>. HIDE DEF p, q
<1>4. (x * p) * q = x * (p * q)
  BY <1>2, Z3 DEF p, q
<1>. QED BY <1>3, <1>4 DEF p, q

(* A normal float keeps its significand, a subnormal one is normalised.    *)
LEMMA WidenFiniteCorrect ==
  ASSUME call \in FromNarrows, fe = {}, WidenNormal \/ WidenSubnormal
  PROVE  WideningResult(call, res', fe')
<1>. DEFINE v == call.v
            u == call.v.e
            s == call.v.s
<1>1. /\ s \in {0, 1} /\ v \in NR!Values /\ u \in Nat /\ u < NR!ExpMax
      /\ v.f \in Nat /\ v.f < NR!ImplicitBit
  <2>1. u < NR!ExpMax
    BY NarrowWidths, NarrowParts, FromNarrowCall DEF WidenNormal, WidenSubnormal
  <2>. QED BY <2>1, FromNarrowCall
<1>2. ~ Narrow!IsNaN(v) /\ ~ Narrow!IsInf(v)
  BY <1>1, NarrowWidths, NarrowParts DEF Narrow!IsNaN, Narrow!IsInf
<1>3. /\ UnitDistance \in Nat /\ Widening \in Nat /\ NarrowFracBits \in Nat
      /\ UnitDistance = (Bias - NR!Bias) + Widening /\ Widening = FracBits - NarrowFracBits
      /\ NR!Bias \in Nat /\ NR!ExpMax = 2 * NR!Bias + 1 /\ NR!Bias + NarrowFracBits < Bias
      /\ FracBits \in Nat /\ Bias \in Nat /\ ExpMax = 2 * Bias + 1
      /\ MaxShift \in Nat /\ ExpMax + FracBits < MaxShift /\ NarrowFracBits >= 2
      /\ FracBits < MaxShift /\ UnitDistance <= MaxShift
  BY NarrowWidths, Bounds, Fields
<1>4. /\ fe' = {} /\ res'.s = s /\ ~ IsNaN(res') /\ ~ IsInf(res')
      /\ Ref!Mag(res') = NarrowRef!Mag(v) * Pow2[UnitDistance]
  <2>1. CASE WidenNormal
    <3>. DEFINE e == u + Bias - NR!Bias
                x == v.f + NR!ImplicitBit
                P == Pow2[Widening]
                w == x * P
    <3>1. fe' = {} /\ res' = [s |-> s, e |-> e, f |-> v.f * P] /\ u >= 1
      BY <2>1, NarrowParts DEF WidenNormal, Done, Value
    <3>2. e \in 1..(ExpMax - 1) /\ e - 1 = (u - 1) + (Bias - NR!Bias) /\ u - 1 \in Nat
          /\ e - 1 \in Nat
      BY <1>1, <1>3, <3>1
    <3>3. x \in Nat /\ P \in Nat /\ P >= 1 /\ NR!ImplicitBit \in Nat
          /\ ImplicitBit = NR!ImplicitBit * P /\ NR!ImplicitBit <= x /\ x < 2 * NR!ImplicitBit
          /\ ImplicitBit \in Nat
      BY <1>1, NarrowPowers, GuardPowers
    <3>. DEFINE g == v.f * P
    <3>4. g \in Nat /\ w = 1 * ImplicitBit + g /\ g < ImplicitBit
      <4>. DEFINE f == v.f
                  I == NR!ImplicitBit
      <4>1. f \in Nat /\ I \in Nat /\ f < I /\ x = f + I /\ P \in Nat /\ P >= 1 /\ ImplicitBit = I * P
        BY <1>1, <3>3
      <4>. HIDE DEF f, I, x, P
      <4>2. (I - f) * P >= 1
        BY <4>1, Z3
      <4>3. (I - f) * P = I * P - f * P /\ x * P = f * P + I * P /\ f * P \in Nat
        BY <4>1, Z3
      <4>4. f * P < ImplicitBit /\ x * P = 1 * ImplicitBit + f * P
        BY <4>1, <4>2, <4>3, <3>3
      <4>. QED BY <4>3, <4>4 DEF f
    <3>5. w \in Nat /\ ImplicitBit <= w /\ w < 2 * ImplicitBit
      BY <3>3, <3>4
    <3>6. w % ImplicitBit = g
      <4>. HIDE DEF g, w
      <4>1. 1 \in Nat /\ g \in Nat /\ ImplicitBit \in Nat /\ g < ImplicitBit
        BY <3>3, <3>4
      <4>2. (1 * ImplicitBit + g) % ImplicitBit = g
        BY <4>1, Join
      <4>. QED BY <3>4, <4>2
    <3>7. res' = [s |-> s, e |-> e, f |-> w % ImplicitBit]
      BY <3>1, <3>6
    <3>8. w * Pow2[e - 1] = x * Pow2[Widening + (e - 1)]
      <4>. DEFINE n == e - 1
      <4>1. x \in Nat /\ Widening \in Nat /\ n \in Nat /\ Widening + n <= MaxShift
        BY <1>1, <1>3, <3>2, <3>3
      <4>. HIDE DEF x, n
      <4>2. (x * Pow2[Widening]) * Pow2[n] = x * Pow2[Widening + n]
        BY <4>1, TwoShifts
      <4>. QED BY <4>2 DEF n
    <3>9. (x * Pow2[u - 1]) * Pow2[UnitDistance] = x * Pow2[(u - 1) + UnitDistance]
      <4>. DEFINE n == u - 1
      <4>1. x \in Nat /\ n \in Nat /\ UnitDistance \in Nat /\ n + UnitDistance <= MaxShift
        BY <1>1, <1>3, <3>2, <3>3
      <4>. HIDE DEF x, n
      <4>2. (x * Pow2[n]) * Pow2[UnitDistance] = x * Pow2[n + UnitDistance]
        BY <4>1, TwoShifts
      <4>. QED BY <4>2 DEF n
    <3>10. Widening + (e - 1) = (u - 1) + UnitDistance
      BY <1>1, <1>3, <3>2
    <3>11. NarrowRef!Mag(v) = x * Pow2[u - 1]
      BY <1>1, <3>1, NarrowValue
    <3>. HIDE DEF w, e, x, P, g
    <3>12. ~ IsNaN(res') /\ ~ IsInf(res') /\ Ref!Mag(res') = w * Pow2[e - 1]
      BY <1>1, <3>2, <3>5, <3>7, Normalised
    <3>. QED BY <3>1, <3>8, <3>9, <3>10, <3>11, <3>12
  <2>2. CASE WidenSubnormal
    <3>. DEFINE x == v.f
                p == Msb(x)
                n == FracBits - p
                e == p + 1 - NR!Bias - NarrowFracBits + Bias
                w == x * Pow2[n]
    <3>1. fe' = {} /\ res' = [s |-> s, e |-> e, f |-> w % ImplicitBit] /\ u = 0 /\ x # 0
      BY <2>2, NarrowParts DEF WidenSubnormal, Done, Value, WidenedExp, Narrow!IsZero
    <3>2. x \in Nat /\ x >= 1 /\ x < Pow2[NarrowFracBits]
      BY <1>1, <3>1, NarrowPowers
    <3>3. p \in 0..(NarrowFracBits - 1) /\ Pow2[p] <= x /\ x < Pow2[p + 1]
      <4>1. NarrowFracBits \in 1..IntBits
        BY <1>3, Bounds
      <4>. HIDE DEF x
      <4>. QED BY <3>2, <4>1, Msbs
    <3>. HIDE DEF x, p
    <3>4. /\ p \in Nat /\ p <= FracBits /\ n \in Nat /\ e \in 1..(ExpMax - 1) /\ e - 1 \in Nat
          /\ n + (e - 1) = UnitDistance
      BY <1>3, <3>3
    <3>5. w \in Nat /\ ImplicitBit <= w /\ w < 2 * ImplicitBit
      <4>1. w \in Nat /\ Pow2[FracBits] <= w /\ w < Pow2[FracBits + 1]
        BY <1>3, <3>2, <3>3, <3>4, ShiftToTop
      <4>2. Pow2[FracBits + 1] = 2 * Pow2[FracBits]
        BY <1>3, Pow2Step
      <4>. QED BY <4>1, <4>2 DEF ImplicitBit
    <3>6. NarrowRef!Mag(v) = x
      BY <1>1, <3>1, NarrowValue DEF x
    <3>7. w * Pow2[e - 1] = x * Pow2[n + (e - 1)]
      <4>. DEFINE d == e - 1
      <4>1. x \in Nat /\ n \in Nat /\ d \in Nat /\ n + d <= MaxShift
        BY <1>3, <3>2, <3>4
      <4>. HIDE DEF n, d
      <4>2. (x * Pow2[n]) * Pow2[d] = x * Pow2[n + d]
        BY <4>1, TwoShifts
      <4>. QED BY <4>2 DEF d
    <3>. HIDE DEF w, e, n
    <3>8. ~ IsNaN(res') /\ ~ IsInf(res') /\ Ref!Mag(res') = w * Pow2[e - 1]
      BY <1>1, <3>1, <3>4, <3>5, Normalised
    <3>. QED BY <3>1, <3>4, <3>6, <3>7, <3>8
  <2>. QED BY <2>1, <2>2
<1>. QED BY <1>2, <1>4, Zenon DEF WideningResult

---------------------------------------------------------------------------
(* The invariant: nothing is raised before the handler runs, the clamp     *)
(* holds the nearest integer, and every finished call has its result.      *)
Calls == FromInts \cup ToInts \cup FromNarrows \cup ToNarrows

Answered(c, r, g) ==
  /\ c \in ToInts => IntegerResult(c, r, g)
  /\ c \in FromInts => FromIntResult(c, r, g)
  /\ c \in ToNarrows => NarrowingResult(c, r, g)
  /\ c \in FromNarrows => WideningResult(c, r, g)

CInv == /\ call \in Calls
        /\ pc \in {"enter", "clamp", "done"}
        /\ pc = "enter" => fe = {}
        /\ pc = "clamp" => Clamped
        /\ pc = "done" => Answered(call, res, fe)

(* A call is of one operation only.                                        *)
LEMMA CallOf ==
  ASSUME call \in Calls
  PROVE  /\ call \in ToInts <=> call.op = "toInt"
         /\ call \in FromInts <=> call.op = "fromInt"
         /\ call \in ToNarrows <=> call.op = "toNarrow"
         /\ call \in FromNarrows <=> call.op = "fromNarrow"
BY ToIntCall, FromIntCall, ToNarrowCall, FromNarrowCall DEF Calls

LEMMA EnteredCall ==
  ASSUME CInv, pc = "enter"
  PROVE  call \in Calls /\ fe = {}
BY DEF CInv

(* A handler that returns has answered its call.                           *)
LEMMA ReturnedKeeps ==
  ASSUME CInv, UNCHANGED call, pc' = "done", Answered(call, res', fe')
  PROVE  CInv'
BY DEF CInv

LEMMA ToIntAnswered ==
  ASSUME call \in ToInts, IntegerResult(call, res', fe')
  PROVE  Answered(call, res', fe')
<1>1. call \in Calls
  BY DEF Calls
<1>2. call \notin FromInts /\ call \notin ToNarrows /\ call \notin FromNarrows
  BY <1>1, CallOf
<1>. QED BY <1>2 DEF Answered

LEMMA FromIntAnswered ==
  ASSUME call \in FromInts, FromIntResult(call, res', fe')
  PROVE  Answered(call, res', fe')
<1>1. call \in Calls
  BY DEF Calls
<1>2. call \notin ToInts /\ call \notin ToNarrows /\ call \notin FromNarrows
  BY <1>1, CallOf
<1>. QED BY <1>2 DEF Answered

LEMMA ToNarrowAnswered ==
  ASSUME call \in ToNarrows, NarrowingResult(call, res', fe')
  PROVE  Answered(call, res', fe')
<1>1. call \in Calls
  BY DEF Calls
<1>2. call \notin ToInts /\ call \notin FromInts /\ call \notin FromNarrows
  BY <1>1, CallOf
<1>. QED BY <1>2 DEF Answered

LEMMA FromNarrowAnswered ==
  ASSUME call \in FromNarrows, WideningResult(call, res', fe')
  PROVE  Answered(call, res', fe')
<1>1. call \in Calls
  BY DEF Calls
<1>2. call \notin ToInts /\ call \notin FromInts /\ call \notin ToNarrows
  BY <1>1, CallOf
<1>. QED BY <1>2 DEF Answered

(* A call that goes on to the clamp.                                       *)
LEMMA ClampKeeps ==
  ASSUME CInv, UNCHANGED call, pc' = "clamp", Clamped'
  PROVE  CInv'
BY DEF CInv

LEMMA CInvInit == Init => CInv
BY DEF Init, CInv, Calls

LEMMA CInvStep == CInv /\ [Next]_vars => CInv'
<1>. SUFFICES ASSUME CInv, [Next]_vars
              PROVE  CInv'
  OBVIOUS
<1>1. CASE FromZero
  <2>1. call \in FromInts /\ fe = {} /\ pc' = "done" /\ UNCHANGED call
    BY <1>1, EnteredCall, CallOf DEF FromZero, Entering, Done
  <2>. QED BY <1>1, <2>1, FromZeroCorrect, FromIntAnswered, ReturnedKeeps
<1>2. CASE FromShort \/ FromLong
  <2>1. call \in FromInts /\ fe = {} /\ pc' = "done" /\ UNCHANGED call
    BY <1>2, EnteredCall, CallOf DEF FromShort, FromLong, Entering, Done
  <2>. QED BY <1>2, <2>1, FromIntCorrect, FromIntAnswered, ReturnedKeeps
<1>3. CASE ToIntOfNaN
  <2>1. call \in ToInts /\ fe = {} /\ pc' = "done" /\ UNCHANGED call
    BY <1>3, EnteredCall, CallOf DEF ToIntOfNaN, Entering, Done
  <2>. QED BY <1>3, <2>1, NaNInteger, ToIntAnswered, ReturnedKeeps
<1>4. CASE ToIntOfInf \/ ToIntOfZero \/ BelowHalf \/ HalfToOne \/ BeyondAnyInt \/ WholeNumber
             \/ WithFraction
  <2>1. call \in ToInts /\ pc' = "clamp" /\ UNCHANGED call
    BY <1>4, EnteredCall, CallOf DEF ToIntOfInf, ToIntOfZero, BelowHalf, HalfToOne, BeyondAnyInt,
       WholeNumber, WithFraction, NumberToInt, Entering, Clamp
  <2>2. Clamped'
    BY <1>4, <2>1, InfClamped, ZeroClamped, BelowHalfClamped, HalfClamped, BeyondClamped,
       WholeClamped, FractionClamped
  <2>. QED BY <2>1, <2>2, ClampKeeps
<1>5. CASE Saturate
  <2>1. Clamped /\ pc' = "done" /\ UNCHANGED call
    BY <1>5 DEF Saturate, Done, CInv
  <2>2. call \in ToInts
    BY <2>1 DEF Clamped, ClampedTo
  <2>. QED BY <1>5, <2>1, <2>2, SaturateCorrect, ToIntAnswered, ReturnedKeeps
<1>6. CASE WidenZeroOrInf \/ WidenNaN \/ WidenSubnormal \/ WidenNormal
  <2>1. call \in FromNarrows /\ fe = {} /\ pc' = "done" /\ UNCHANGED call
    BY <1>6, EnteredCall, CallOf DEF WidenZeroOrInf, WidenNaN, WidenSubnormal, WidenNormal,
       Entering, Done
  <2>2. WideningResult(call, res', fe')
    BY <1>6, <2>1, WidenSpecialCorrect, WidenNaNCorrect, WidenFiniteCorrect
  <2>. QED BY <2>1, <2>2, FromNarrowAnswered, ReturnedKeeps
<1>7. CASE NarrowZeroOrInf \/ NarrowNaN \/ NarrowTiny \/ NarrowTooLarge \/ NarrowNormal
             \/ NarrowSubnormal
  <2>1. call \in ToNarrows /\ fe = {} /\ pc' = "done" /\ UNCHANGED call
    BY <1>7, EnteredCall, CallOf DEF NarrowZeroOrInf, NarrowNaN, NarrowTiny, NarrowTooLarge,
       NarrowNormal, NarrowSubnormal, Finite, Entering, Done
  <2>2. NarrowingResult(call, res', fe')
    BY <1>7, <2>1, NarrowSpecialCorrect, NarrowFiniteCorrect
  <2>. QED BY <2>1, <2>2, ToNarrowAnswered, ReturnedKeeps
<1>8. CASE UNCHANGED vars
  BY <1>8 DEF vars, CInv, Clamped
<1>. QED BY <1>1, <1>2, <1>3, <1>4, <1>5, <1>6, <1>7, <1>8 DEF Next

LEMMA CInvAlways == Spec => []CInv
<1>. QED BY CInvInit, CInvStep, PTL DEF Spec

(* sf64_to_i8 .. sf64_to_u64 return the nearest integer in the direction   *)
(* of the mode, saturated at the bounds of the type, and raise INVALID and *)
(* INEXACT exactly as soft_f64.h:204-205 says, for every format, width and *)
(* operand.                                                                *)
THEOREM CorrectToIntegerAlways == Spec => []CorrectToInteger
<1>1. CInv => CorrectToInteger
  <2>. SUFFICES ASSUME CInv, Returned("toInt")
                PROVE  CorrectToInteger
    BY DEF CorrectToInteger
  <2>1. IntegerResult(call, res, fe)
    BY CallOf DEF CInv, Answered, Returned
  <2>. QED BY <2>1, IntegerResultIs
<1>. QED BY <1>1, CInvAlways, PTL

(* sf64_from_i8 .. sf64_from_u64 round every integer of every type once,   *)
(* ties to even, the least one of the widest type included.                *)
THEOREM CorrectFromIntegerAlways == Spec => []CorrectFromInteger
<1>1. CInv => CorrectFromInteger
  <2>. SUFFICES ASSUME CInv, Returned("fromInt")
                PROVE  CorrectFromInteger
    BY DEF CorrectFromInteger
  <2>1. FromIntResult(call, res, fe)
    BY CallOf DEF CInv, Answered, Returned
  <2>. QED BY <2>1, FromIntResultIs
<1>. QED BY <1>1, CInvAlways, PTL

(* sf64_to_f32 rounds once, into the subnormal range as well, and raises   *)
(* what that rounding raises; sf64_from_f32 keeps every value, and both    *)
(* keep the payload a NaN has room for.                                    *)
THEOREM BetweenFormatsAlways == Spec => []BetweenFormats
<1>1. CInv => CorrectNarrowing
  <2>. SUFFICES ASSUME CInv, Returned("toNarrow")
                PROVE  CorrectNarrowing
    BY DEF CorrectNarrowing
  <2>1. NarrowingResult(call, res, fe)
    BY CallOf DEF CInv, Answered, Returned
  <2>. QED BY <2>1, NarrowingResultIs
<1>2. CInv => WideningExact
  <2>. SUFFICES ASSUME CInv, Returned("fromNarrow")
                PROVE  WideningExact
    BY DEF WideningExact
  <2>1. WideningResult(call, res, fe)
    BY CallOf DEF CInv, Answered, Returned
  <2>. QED BY <2>1, WideningResultIs
<1>. QED BY <1>1, <1>2, CInvAlways, PTL DEF BetweenFormats
=============================================================================

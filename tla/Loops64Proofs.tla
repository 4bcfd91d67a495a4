---------------------------- MODULE Loops64Proofs ----------------------------
(***************************************************************************)
(* Proofs about the two digit loops, for every format and every operand.   *)
(* Sqrt64: the partial root is exact at every digit, what is rounded from  *)
(* it is the correctly rounded root, and the copy of internal_arith.h      *)
(* returns the same.  Rem64: what is left of the dividend is congruent to  *)
(* it, and is the remainder when the loop ends.                            *)
(***************************************************************************)
EXTENDS Rem64, Sqrt64, Rounding64Proofs

(* The operands the loop is entered with; in the loop a digit is to come.  *)
Rooting == pc \in {"loop", "round"} =>
             /\ x.s = 0 /\ ~ IsNaN(x) /\ ~ IsInf(x) /\ ~ IsZero(x)
             /\ pc = "loop" => k > 0

RootIInv == RootTypeOK /\ RootKept /\ Rooting

W == 2 * RootBits

---------------------------------------------------------------------------
LEMMA RootWidths ==
  /\ RootBits \in Nat /\ RootBits >= 4 /\ W \in Nat /\ W = 2 * RootBits
  /\ RootBits = FracBits + 2
  /\ W \in 0..MaxShift /\ W - 2 \in 0..MaxShift /\ RootBits \in 0..MaxShift /\ RootBits - 1 \in 0..MaxShift
  /\ Pow2[W] = 4 * Pow2[W - 2] /\ Pow2[W - 2] = Pow2[RootBits - 1] * Pow2[RootBits - 1]
  /\ Pow2[W] = Pow2[RootBits] * Pow2[RootBits]
  /\ Pow2[RootBits] = 2 * Pow2[RootBits - 1]
  /\ Pow2[W] \in Nat /\ Pow2[W - 2] \in Nat /\ Pow2[RootBits] \in Nat /\ Pow2[RootBits - 1] \in Nat
  /\ Pow2[W - 2] >= 1 /\ Pow2[RootBits - 1] >= 1
<1>1. /\ RootBits \in Nat /\ RootBits >= 4 /\ W \in Nat /\ W = 2 * RootBits /\ W <= MaxShift
      /\ RootBits = FracBits + 2
  BY Widths DEF RootBits, W
<1>2. /\ W \in 0..MaxShift /\ W - 2 \in 0..MaxShift /\ W - 1 \in 0..MaxShift
      /\ RootBits \in 0..MaxShift /\ RootBits - 1 \in 0..MaxShift
  BY <1>1, Widths
<1>3. Pow2[W] = 4 * Pow2[W - 2]
  <2>1. /\ W - 2 \in Nat /\ W - 1 \in Nat /\ (W - 2) + 1 = W - 1 /\ (W - 1) + 1 = W
    BY <1>1
  <2>2. Pow2[(W - 2) + 1] = 2 * Pow2[W - 2] /\ Pow2[(W - 1) + 1] = 2 * Pow2[W - 1]
    BY <1>2, <2>1, Widths, Pow2Step
  <2>. QED BY <1>2, <2>1, <2>2, Pow2Positive
<1>4. Pow2[W - 2] = Pow2[RootBits - 1] * Pow2[RootBits - 1]
  <2>1. RootBits - 1 \in Nat /\ (RootBits - 1) + (RootBits - 1) = W - 2 /\ W - 2 <= MaxShift
    BY <1>1, <1>2
  <2>2. Pow2[(RootBits - 1) + (RootBits - 1)] = Pow2[RootBits - 1] * Pow2[RootBits - 1]
    BY <2>1, Pow2Sum
  <2>. QED BY <2>1, <2>2
<1>5. Pow2[RootBits] = 2 * Pow2[RootBits - 1]
  <2>1. RootBits - 1 \in Nat /\ (RootBits - 1) + 1 = RootBits /\ RootBits <= MaxShift
    BY <1>1, <1>2
  <2>. QED BY <2>1, Pow2Step
<1>6. Pow2[W] = Pow2[RootBits] * Pow2[RootBits]
  <2>1. RootBits + RootBits = W
    BY <1>1
  <2>. QED BY <1>1, <2>1, Pow2Sum
<1>. QED BY <1>1, <1>2, <1>3, <1>4, <1>5, <1>6, Pow2Positive

(* The radicand fills the word: its top pair of bits is not 00.            *)
LEMMA RadicandWidth ==
  ASSUME x \in Values, ~ IsNaN(x), ~ IsInf(x), ~ IsZero(x)
  PROVE  Radicand \in Nat /\ Pow2[W - 2] <= Radicand /\ Radicand < Pow2[W]
<1>1. x.e < ExpMax
  BY Fields DEF Values, IsNaN, IsInf
<1>2. PICK m \in Nat : /\ Pow2[FracBits] <= m /\ m < Pow2[FracBits + 1]
                       /\ Unpack(x).sig = m * Pow2[GuardBits]
  BY <1>1, UnpackNormalises
<1>3. Pow2[GuardBits] \in Nat /\ Pow2[GuardBits] >= 1
  <2>1. GuardBits \in 0..MaxShift
    BY Widths
  <2>. QED BY <2>1, Pow2Positive
<1>4. Mantissa = m
  <2>1. (m * Pow2[GuardBits]) \div Pow2[GuardBits] = m
    BY <1>3
  <2>. QED BY <1>2, <2>1 DEF Mantissa
<1>. DEFINE t == FracBits + RadicandShift
<1>5. /\ RadicandShift \in {FracBits + 2, FracBits + 3}
      /\ t \in {W - 2, W - 1} /\ t < MaxShift /\ t \in Nat /\ FracBits <= t
      /\ t - FracBits = RadicandShift /\ FracBits \in Nat
  BY Widths, RootWidths DEF RadicandShift
<1>. HIDE DEF t
<1>6. /\ m * Pow2[t - FracBits] \in Nat
      /\ Pow2[t] <= m * Pow2[t - FracBits]
      /\ m * Pow2[t - FracBits] < Pow2[t + 1]
  BY <1>2, <1>5, ShiftToTop
<1>7. Pow2[W - 2] <= Pow2[t] /\ Pow2[t + 1] <= Pow2[W]
  <2>1. W - 2 \in Nat /\ W - 2 <= t /\ t <= MaxShift /\ t + 1 \in Nat /\ t + 1 <= W /\ W <= MaxShift
        /\ W \in Nat
    BY <1>5, RootWidths, Widths
  <2>. QED BY <1>5, <2>1, Pow2Monotone
<1>8. Pow2[t] \in Nat /\ Pow2[t + 1] \in Nat
  <2>1. t \in 0..MaxShift /\ t + 1 \in 0..MaxShift
    BY <1>5, Widths
  <2>. QED BY <2>1, Pow2Step
<1>9. Radicand = m * Pow2[t - FracBits]
  BY <1>4, <1>5 DEF Radicand
<1>. QED BY <1>6, <1>7, <1>8, <1>9, RootWidths

(* Half of the exponent, carry included, is the exponent of a normal       *)
(* number.                                                                 *)
LEMMA HalfExpNormal ==
  ASSUME x \in Values, ~ IsNaN(x), ~ IsInf(x), ~ IsZero(x)
  PROVE  NewExp \in 1..(ExpMax - 1)
<1>1. x.e < ExpMax
  BY Fields DEF Values, IsNaN, IsInf
<1>2. Unpack(x).exp \in (1 - FracBits)..(ExpMax - 1)
  BY <1>1, UnpackNormalises
<1>3. Bias >= FracBits + 1
  BY SqrtAssumption DEF SqrtAssumption
<1>. DEFINE u == UnbiasedExp
            h == u \div 2
<1>4. u \in Int /\ u >= 2 - 2 * Bias /\ u <= Bias
  BY <1>2, <1>3, Widths, Fields DEF UnbiasedExp
<1>. HIDE DEF u
<1>5. h \in Int /\ h >= 1 - Bias /\ h <= Bias - 1
  BY <1>3, <1>4, Widths, Fields
<1>6. HalfExp = h
  BY DEF HalfExp, u
<1>. HIDE DEF h
<1>7. (IF Carry THEN 1 ELSE 0) \in {0, 1}
  OBVIOUS
<1>. QED BY <1>5, <1>6, <1>7, Fields DEF NewExp

---------------------------------------------------------------------------
(* An integer root between two powers of two whose squares enclose the     *)
(* radicand.                                                               *)
LEMMA RootWidth ==
  ASSUME NEW q \in Nat, NEW r \in Nat, NEW h \in Nat, h >= 1, r <= 2 * q,
         h * h <= q * q + r, q * q + r < (2 * h) * (2 * h)
  PROVE  h <= q /\ q < 2 * h
<1>1. h <= q
  <2>1. SUFFICES ASSUME q + 1 <= h PROVE FALSE
    OBVIOUS
  <2>2. (q + 1) * (q + 1) <= h * h
    <3>1. (q + 1) * (q + 1) <= (q + 1) * h /\ (q + 1) * h <= h * h
      BY <2>1
    <3>. QED BY <3>1
  <2>3. (q + 1) * (q + 1) = q * q + 2 * q + 1
    OBVIOUS
  <2>. QED BY <2>2, <2>3
<1>2. q < 2 * h
  <2>1. SUFFICES ASSUME 2 * h <= q PROVE FALSE
    OBVIOUS
  <2>2. (2 * h) * (2 * h) <= (2 * h) * q /\ (2 * h) * q <= q * q
    BY <2>1
  <2>. QED BY <2>2
<1>. QED BY <1>1, <1>2
---------------------------------------------------------------------------
LEMMA RootTypeInit == RootInit => RootIInv
<1>. SUFFICES ASSUME RootInit PROVE RootIInv
  OBVIOUS
<1>1. SignedZero(0) \in Values
  BY SpecialResults
<1>2. 0 < Pow2[2 * RootBits] /\ 0 \in 0..RootBits
  BY RootWidths
<1>. QED BY <1>1, <1>2 DEF RootInit, RootIInv, RootTypeOK, RootKept, Rooting, FlagSet

(* A step that only delivers a value and flags.                            *)
LEMMA DeliverStep ==
  ASSUME RootIInv, NEW v \in Values, NEW flags \in SUBSET FlagSet, Deliver(v, flags)
  PROVE  RootIInv'
  BY DEF RootIInv, RootTypeOK, RootKept, Rooting, Deliver

LEMMA StartRootStep ==
  ASSUME RootIInv, StartRoot
  PROVE  RootIInv'
<1>1. /\ RootTypeOK /\ x \in Values /\ x.s = 0 /\ ~ IsNaN(x) /\ ~ IsInf(x) /\ ~ IsZero(x)
  BY DEF StartRoot, RootIInv, RootTypeOK
<1>2. /\ x' = x /\ mode' = mode /\ pc' = "loop" /\ rad' = Radicand /\ rem' = 0 /\ root' = 0
      /\ k' = RootBits /\ fe' = fe /\ res' = res
  BY DEF StartRoot
<1>3. Radicand \in Nat /\ Radicand < Pow2[W]
  BY <1>1, RadicandWidth
<1>4. Radicand' = Radicand
  BY <1>2 DEF Radicand, Mantissa, RadicandShift, ExpOdd, UnbiasedExp
<1>5. RootTypeOK'
  BY <1>1, <1>2, <1>3, RootWidths DEF RootTypeOK
<1>6. RootKept'
  <2>1. Pow2[2 * (RootBits - RootBits)] = 1
    <3>1. 2 * (RootBits - RootBits) = 0
      BY RootWidths
    <3>. QED BY <3>1, Pow2Step
  <2>2. (0 * 0 + 0) * Pow2[2 * RootBits] + Radicand = Radicand * 1
    BY <1>3, RootWidths
  <2>. QED BY <1>2, <1>4, <2>1, <2>2 DEF RootKept
<1>7. Rooting'
  BY <1>1, <1>2, RootWidths DEF Rooting
<1>. QED BY <1>5, <1>6, <1>7 DEF RootIInv

LEMMA DigitStep ==
  ASSUME RootIInv, Digit
  PROVE  RootIInv'
<1>. DEFINE P == Pow2[W]
            Q == Pow2[W - 2]
            np == rad \div Q
            lo == rad % Q
            c == root * root + rem
            j == RootBits - k
<1>1. /\ pc = "loop" /\ RootTypeOK /\ x \in Values /\ x.s = 0
      /\ ~ IsNaN(x) /\ ~ IsInf(x) /\ ~ IsZero(x) /\ k > 0
      /\ rem <= 2 * root /\ Radicand * Pow2[2 * j] = c * P + rad
  BY DEF Digit, RootIInv, RootTypeOK, RootKept, Rooting, W
<1>2. /\ rad \in Nat /\ rad < P /\ rem \in Nat /\ root \in Nat /\ k \in 1..RootBits
      /\ c \in Nat
  BY <1>1, RootWidths DEF RootTypeOK, W
<1>3. Radicand \in Nat /\ Pow2[W - 2] <= Radicand /\ Radicand < Pow2[W]
  BY <1>1, RadicandWidth
<1>4. P \in Nat /\ Q \in Nat /\ Q >= 1 /\ P = 4 * Q
  BY RootWidths
<1>5. /\ np \in Nat /\ np < 4 /\ lo \in Nat /\ lo < Q /\ rad = Q * np + lo
  <2>. HIDE DEF P, Q
  <2>. QED BY <1>2, <1>4
<1>6. (4 * rad) % P = 4 * lo
  <2>1. 4 * rad = P * np + 4 * lo /\ 4 * lo \in 0..(P - 1)
    <3>. HIDE DEF P, Q, np, lo
    <3>. QED BY <1>4, <1>5
  <2>. DEFINE y == 4 * lo
  <2>2. (P * np + y) % P = y
    <3>. HIDE DEF P, Q, np, lo
    <3>. QED BY <1>4, <1>5, <2>1
  <2>. QED BY <2>1, <2>2
<1>7. /\ x' = x /\ mode' = mode /\ fe' = fe /\ res' = res /\ k' = k - 1
      /\ rad' = 4 * lo
      /\ pc' = IF k = 1 THEN "round" ELSE "loop"
  BY <1>6 DEF Digit, W
<1>8. /\ rem' \in Nat /\ root' \in Nat /\ rem' <= 2 * root'
      /\ 4 * c + np = root' * root' + rem' /\ root' * root' + rem' \in Nat
  <2>. DEFINE e == 4 * rem + np
              t == 4 * root + 1
  <2>1. e = Extended
    BY DEF Extended, NextPair, W
  <2>2. \/ e >= t /\ rem' = e - t /\ root' = 2 * root + 1
        \/ e < t /\ rem' = e /\ root' = 2 * root
    <3>1. e \in Nat /\ t \in Nat
      BY <1>2, <1>5
    <3>. HIDE DEF e
    <3>. QED BY <2>1, <3>1 DEF Digit, Trial
  <2>3. c = root * root + rem
    OBVIOUS
  <2>. HIDE DEF c, np
  <2>. QED BY <1>1, <1>2, <1>5, <2>2, <2>3, DigitKept
<1>9. Radicand * Pow2[2 * (j + 1)] = (root' * root' + rem') * P + 4 * lo
  <2>1. /\ 2 * j \in Nat /\ 2 * j + 1 \in Nat /\ (2 * j) + 1 <= MaxShift /\ (2 * j + 1) + 1 <= MaxShift
        /\ 2 * (j + 1) = (2 * j + 1) + 1 /\ 2 * j \in 0..MaxShift
    BY <1>2, RootWidths, Widths
  <2>2. Pow2[2 * (j + 1)] = 4 * Pow2[2 * j] /\ Pow2[2 * j] \in Nat
    <3>. HIDE DEF j
    <3>1. Pow2[(2 * j) + 1] = 2 * Pow2[2 * j] /\ Pow2[(2 * j + 1) + 1] = 2 * Pow2[2 * j + 1]
      BY <2>1, Pow2Step
    <3>. QED BY <2>1, <3>1, Pow2Step
  <2>. DEFINE pj == Pow2[2 * j]
  <2>3. Radicand * (4 * pj) = 4 * (Radicand * pj)
    <3>. HIDE DEF pj
    <3>. QED BY <1>3, <2>2 DEF pj
  <2>4. 4 * (c * P + rad) = (4 * c + np) * P + 4 * lo
    <3>. HIDE DEF P, Q, c, np, lo
    <3>. QED BY <1>2, <1>4, <1>5
  <2>. HIDE DEF c, np, lo, P
  <2>. QED BY <1>1, <1>8, <2>2, <2>3, <2>4
<1>10. Radicand' = Radicand
  BY <1>7 DEF Radicand, Mantissa, RadicandShift, ExpOdd, UnbiasedExp
<1>11. 4 * lo \in Nat /\ 4 * lo < P
  <2>. HIDE DEF P, Q, lo
  <2>. QED BY <1>4, <1>5
<1>12. RootTypeOK'
  <2>1. k - 1 \in 0..RootBits
    BY <1>2, RootWidths
  <2>. HIDE DEF lo
  <2>. QED BY <1>1, <1>7, <1>8, <1>11, <2>1 DEF RootTypeOK, W
<1>13. RootKept'
  <2>1. CASE k = 1
    <3>1. pc' = "round" /\ 2 * (j + 1) = W
      BY <1>7, <2>1, RootWidths
    <3>. DEFINE S == root' * root' + rem'
                r == 4 * lo
    <3>2. Radicand * P = S * P + r /\ r \in Nat /\ r < P /\ S \in Nat
      <4>1. Pow2[2 * (j + 1)] = P
        BY <3>1
      <4>2. S \in Nat
        BY <1>8
      <4>. HIDE DEF j, lo, P
      <4>. QED BY <1>9, <1>11, <4>1, <4>2
    <3>3. Radicand = S
      <4>. HIDE DEF S, r, P
      <4>1. CASE Radicand > S
        <5>1. Radicand * P >= (S + 1) * P
          BY <1>3, <1>4, <3>2, <4>1
        <5>. QED BY <1>3, <1>4, <3>2, <5>1
      <4>2. CASE Radicand < S
        <5>1. S - (Radicand + 1) \in Nat /\ Radicand * P \in Nat
          BY <1>3, <1>4, <3>2, <4>2
        <5>2. (S - (Radicand + 1)) * P \in Nat /\ S * P \in Nat
          BY <1>4, <3>2, <5>1
        <5>3. (S - (Radicand + 1)) * P = S * P - Radicand * P - P
          BY <1>3, <1>4, <3>2
        <5>. QED BY <1>4, <3>2, <5>1, <5>2, <5>3
      <4>. QED BY <1>3, <3>2, <4>1, <4>2
    <3>4. Pow2[RootBits - 1] <= root' /\ root' < 2 * Pow2[RootBits - 1]
      <4>. DEFINE h == Pow2[RootBits - 1]
      <4>1. h \in Nat /\ h >= 1 /\ Pow2[W - 2] = h * h /\ Pow2[W] = (2 * h) * (2 * h)
        BY RootWidths
      <4>2. h * h <= root' * root' + rem' /\ root' * root' + rem' < (2 * h) * (2 * h)
        BY <1>3, <3>3, <4>1
      <4>. HIDE DEF h
      <4>3. h <= root' /\ root' < 2 * h
        BY <1>8, <4>1, <4>2, RootWidth
      <4>. QED BY <4>3 DEF h
    <3>. QED BY <1>8, <1>10, <3>1, <3>3, <3>4, RootWidths DEF RootKept
  <2>2. CASE k # 1
    <3>1. pc' = "loop" /\ RootBits - k' = j + 1
      BY <1>2, <1>7, <2>2, RootWidths
    <3>2. Radicand' * Pow2[2 * (RootBits - k')] = (root' * root' + rem') * Pow2[2 * RootBits] + rad'
      <4>. HIDE DEF lo, j
      <4>. QED BY <1>7, <1>9, <1>10, <3>1 DEF W
    <3>. QED BY <1>8, <3>1, <3>2 DEF RootKept
  <2>. QED BY <2>1, <2>2
<1>14. Rooting'
  <2>1. k # 1 => k - 1 > 0
    BY <1>2, RootWidths
  <2>. QED BY <1>1, <1>7, <2>1 DEF Rooting
<1>. QED BY <1>12, <1>13, <1>14 DEF RootIInv

LEMMA FinishStep ==
  ASSUME RootIInv, Finish
  PROVE  RootIInv'
<1>1. /\ pc = "round" /\ x \in Values /\ ~ IsNaN(x) /\ ~ IsInf(x) /\ ~ IsZero(x) /\ root \in Nat
  BY DEF Finish, RootIInv, RootTypeOK, Rooting
<1>2. NewExp \in 1..(ExpMax - 1)
  BY <1>1, HalfExpNormal
<1>. DEFINE sig == IF Carry THEN RoundedRoot \div 2 ELSE RoundedRoot
            frac == sig % ImplicitBit
            v == Clamped(NewExp, frac)
            flags == IF GuardBit \/ Sticky THEN {"inexact"} ELSE {}
<1>3. RoundedRoot \in Nat
  <2>1. Root53 \in Nat
    BY <1>1 DEF Root53
  <2>. QED BY <2>1 DEF RoundedRoot
<1>4. frac \in 0..(ImplicitBit - 1)
  <2>1. ImplicitBit \in Nat /\ ImplicitBit >= 1
    <3>1. FracBits \in 0..MaxShift
      BY Widths
    <3>. QED BY <3>1, Pow2Positive, Fields
  <2>2. sig \in Nat
    BY <1>3
  <2>. HIDE DEF sig
  <2>. QED BY <2>1, <2>2
<1>5. v \in Values
  <2>. HIDE DEF frac
  <2>1. v = [s |-> 0, e |-> NewExp, f |-> frac]
    BY <1>2, Fields DEF Clamped
  <2>2. NewExp \in 0..ExpMax
    BY <1>2, Fields
  <2>. QED BY <1>4, <2>1, <2>2 DEF Values
<1>6. flags \in SUBSET FlagSet
  BY DEF FlagSet
<1>7. Deliver(v, flags)
  BY DEF Finish
<1>. HIDE DEF v, flags
<1>. QED BY <1>5, <1>6, <1>7, DeliverStep

LEMMA RootInductive == RootIInv /\ [RootNext]_rootVars => RootIInv'
<1>. SUFFICES ASSUME RootIInv, [RootNext]_rootVars PROVE RootIInv'
  OBVIOUS
<1>1. x \in Values /\ {"invalid"} \in SUBSET FlagSet /\ {} \in SUBSET FlagSet
  BY DEF RootIInv, RootTypeOK, FlagSet
<1>2. CASE NaNRoot
  <2>1. Quiet(x) \in Values
    <3>1. IsNaN(x) => PropagateNaN(x, x) = Quiet(x)
      BY DEF PropagateNaN
    <3>. QED BY <1>1, <1>2, <3>1, SpecialResults DEF NaNRoot
  <2>2. (IF IsSNaN(x) THEN {"invalid"} ELSE {}) \in SUBSET FlagSet
    BY <1>1
  <2>. QED BY <1>2, <2>1, <2>2, DeliverStep DEF NaNRoot
<1>3. CASE NegativeOperand
  BY <1>1, <1>3, SpecialResults, DeliverStep DEF NegativeOperand
<1>4. CASE OwnRoot
  BY <1>1, <1>4, DeliverStep DEF OwnRoot
<1>5. CASE StartRoot
  BY <1>5, StartRootStep
<1>6. CASE Digit
  BY <1>6, DigitStep
<1>7. CASE Finish
  BY <1>7, FinishStep
<1>8. CASE UNCHANGED rootVars
  BY <1>8 DEF rootVars, RootIInv, RootTypeOK, RootKept, Rooting, Radicand, Mantissa, RadicandShift,
              ExpOdd, UnbiasedExp
<1>. QED BY <1>2, <1>3, <1>4, <1>5, <1>6, <1>7, <1>8 DEF RootNext

---------------------------------------------------------------------------
(* The inductive invariant of the square root, for every format.           *)
THEOREM RootInvariance == RootSpec => []RootIInv
  BY RootTypeInit, RootInductive, PTL DEF RootSpec

(* Every variable of sf64_sqrt_r stays within its width and its result is  *)
(* a value of the format.                                                  *)
THEOREM RootTypeCorrect == RootSpec => []RootTypeOK
<1>1. RootIInv => RootTypeOK
  BY DEF RootIInv
<1>. QED BY <1>1, RootInvariance, PTL

(* The digit loop extracts the integer square root of the radicand and     *)
(* leaves its remainder, one digit per iteration; when it ends the root    *)
(* has RootBits bits.                                                      *)
THEOREM RootAlwaysKept == RootSpec => []RootKept
<1>1. RootIInv => RootKept
  BY DEF RootIInv
<1>. QED BY <1>1, RootInvariance, PTL

(* The clamps of sqrt_fma.cpp:302-314 are dead code in every format whose  *)
(* bias exceeds the width of its fraction, binary64 among them.            *)
THEOREM RootAlwaysNormal == RootSpec => []RootIsNormal
<1>1. RootIInv => RootIsNormal
  BY HalfExpNormal DEF RootIInv, RootTypeOK, Rooting, RootIsNormal
<1>. QED BY <1>1, RootInvariance, PTL

(* The exponent field of the root before a carry.                          *)
RootExp == HalfExp + Bias
RootUnit == Unit(RootExp)

LEMMA RootExpRange ==
  ASSUME x \in Values, ~ IsNaN(x), ~ IsInf(x), ~ IsZero(x)
  PROVE  /\ RootExp \in 1..(ExpMax - 1) /\ HalfExp \in Int
         /\ NewExp = RootExp + (IF Carry THEN 1 ELSE 0)
         /\ 2 * (FracBits + RootExp) <= FracBits + ExpMax + Ref!LogOne
         /\ UnbiasedExp \in Int /\ UnbiasedExp >= 2 - 2 * Bias /\ UnbiasedExp <= Bias
         /\ UnbiasedExp = 2 * HalfExp + (IF ExpOdd THEN 1 ELSE 0)
<1>1. x.e < ExpMax
  BY Fields DEF Values, IsNaN, IsInf
<1>2. Unpack(x).exp \in (1 - FracBits)..(ExpMax - 1)
  BY <1>1, UnpackNormalises
<1>3. Bias >= FracBits + 1
  BY SqrtAssumption DEF SqrtAssumption
<1>. DEFINE u == UnbiasedExp
            h == u \div 2
            r == u % 2
<1>4. u \in Int /\ u >= 2 - 2 * Bias /\ u <= Bias
  BY <1>2, <1>3, Widths, Fields DEF UnbiasedExp
<1>. HIDE DEF u
<1>5. h \in Int /\ r \in {0, 1} /\ u = 2 * h + r
  BY <1>4
<1>6. HalfExp = h /\ r = (IF ExpOdd THEN 1 ELSE 0)
  <2>1. HalfExp = h /\ (ExpOdd <=> r = 1)
    BY DEF HalfExp, ExpOdd, u
  <2>. QED BY <1>5, <2>1
<1>. HIDE DEF h, r
<1>7. RootExp = h + Bias
  BY <1>6 DEF RootExp
<1>8. h >= 1 - Bias /\ 2 * h <= Bias
  BY <1>3, <1>4, <1>5, Widths, Fields
<1>9. h + Bias \in 1..(ExpMax - 1)
  BY <1>5, <1>8, Fields
<1>10. 2 * (FracBits + (h + Bias)) <= FracBits + ExpMax + (FracBits + Bias - 1)
  BY <1>5, <1>8, Fields, Widths
<1>11. NewExp = RootExp + (IF Carry THEN 1 ELSE 0)
  BY DEF NewExp, RootExp
<1>. QED BY <1>4, <1>5, <1>6, <1>7, <1>9, <1>10, <1>11, SameFormat DEF u

(* In quarter units of the result the square of the root is the radicand.  *)
LEMMA RootScale ==
  ASSUME x \in Values, ~ IsNaN(x), ~ IsInf(x), ~ IsZero(x)
  PROVE  /\ Ref!Mag(x) \in Nat /\ Pow2[Ref!LogOne] \in Nat
         /\ 4 * (Ref!Mag(x) * Pow2[Ref!LogOne]) = Radicand * (RootUnit * RootUnit)
<1>. DEFINE o == IF ExpOdd THEN 1 ELSE 0
            e == Unpack(x).exp
            E == RootExp
            q == HalfExp + o
            gap == (Bias - o) - 1
            g == Guard
            p == Mantissa
            M == Ref!Mag(x)
            L == Pow2[Ref!LogOne]
            S == Pow2[RadicandShift]
            K == Pow2[gap]
<1>1. x.e < ExpMax
  BY Fields DEF Values, IsNaN, IsInf
<1>2. /\ p \in Nat /\ p >= 1 /\ Unpack(x).sig = p * g
  BY <1>1, UnpackedUnits DEF Mantissa
<1>3. g \in Nat /\ g >= 8
  BY GuardPowers
<1>4. /\ M \in Nat /\ M >= 1 /\ Unpack(x).sig * Down(e) = M * Up(e)
  BY <1>1, OperandMagnitude
<1>5. /\ o \in {0, 1} /\ e \in Int /\ E \in Int /\ E >= 1 /\ q \in Int /\ gap \in Nat
      /\ e - 1 = (E - 1) + q /\ E - 1 = q + gap
      /\ RadicandShift \in Nat /\ RadicandShift + gap = FracBits + Bias + 1
      /\ Ref!LogOne \in Nat /\ Ref!LogOne + 2 = FracBits + Bias + 1
      /\ FracBits + Bias + 1 <= MaxShift
  <2>1. /\ o \in {0, 1} /\ E \in 1..(ExpMax - 1) /\ HalfExp \in Int /\ UnbiasedExp = 2 * HalfExp + o
        /\ UnbiasedExp \in Int
    BY RootExpRange
  <2>2. e = UnbiasedExp + Bias
    <3>1. Unpack(x).exp \in (1 - FracBits)..(ExpMax - 1)
      BY <1>1, UnpackNormalises
    <3>. QED BY <3>1, Fields, Widths DEF UnbiasedExp
  <2>3. E = HalfExp + Bias
    BY DEF RootExp
  <2>4. RadicandShift = FracBits + 2 + o
    BY Widths DEF RadicandShift
  <2>5. Bias >= FracBits + 1
    BY SqrtAssumption DEF SqrtAssumption
  <2>6. Ref!LogOne = FracBits + Bias - 1
    BY SameFormat
  <2>. HIDE DEF o, e, E
  <2>. QED BY <2>1, <2>2, <2>3, <2>4, <2>5, <2>6, Fields, Widths
<1>6. InTable(E - 1) /\ InTable(q) /\ InTable(e - 1) /\ InTable(gap)
  <2>1. /\ E \in 1..(ExpMax - 1) /\ UnbiasedExp \in Int /\ UnbiasedExp >= 2 - 2 * Bias
        /\ UnbiasedExp <= Bias /\ UnbiasedExp = 2 * HalfExp + o /\ HalfExp \in Int
    BY RootExpRange
  <2>2. e \in (1 - FracBits)..(ExpMax - 1)
    BY <1>1, UnpackNormalises
  <2>. HIDE DEF o, e, E
  <2>. QED BY <1>5, <2>1, <2>2, Fields, Widths DEF InTable
<1>. DEFINE U == RootUnit
            Oq == Over(q)
            Uq == Under(q)
            Oe == Over(e - 1)
            Ue == Under(e - 1)
<1>7. /\ U \in Nat /\ U >= 1 /\ Oq \in Nat /\ Oq >= 1 /\ Uq \in Nat /\ Oe \in Nat
      /\ Ue \in Nat /\ Ue >= 1 /\ Over(E - 1) = U /\ Under(E - 1) = 1
      /\ S \in Nat /\ K \in Nat /\ L \in Nat
  <2>1. Over(E - 1) = U /\ Under(E - 1) = 1
    <3>. HIDE DEF E
    <3>1. E - 1 >= 0
      BY <1>5
    <3>. QED BY <3>1 DEF Over, Under, RootUnit, Unit, E
  <2>2. U \in Nat /\ U >= 1
    BY <1>6, <2>1, OverUnder
  <2>3. Oq \in Nat /\ Oq >= 1 /\ Uq \in Nat /\ Oe \in Nat /\ Ue \in Nat /\ Ue >= 1
    BY <1>6, OverUnder
  <2>4. RadicandShift \in 0..MaxShift /\ gap \in 0..MaxShift /\ Ref!LogOne \in 0..MaxShift
    <3>. HIDE DEF gap
    <3>. QED BY <1>5, Widths
  <2>. QED BY <2>1, <2>2, <2>3, <2>4, Pow2Positive
<1>8. (U * Oq) * Ue = Uq * Oe
  <2>. DEFINE j == E - 1
  <2>1. j \in Int /\ InTable(j) /\ InTable(j + q) /\ j + q = e - 1
    BY <1>5, <1>6
  <2>2. (Over(j) * Over(q)) * Under(j + q) = (Under(j) * Under(q)) * Over(j + q)
    <3>. HIDE DEF j, q
    <3>. QED BY <1>5, <1>6, <2>1, ScaleSum
  <2>3. (U * Oq) * Ue = (1 * Uq) * Oe
    BY <1>7, <2>1, <2>2
  <2>. HIDE DEF U, Oq, Uq, Oe, Ue
  <2>. QED BY <1>7, <2>3
<1>9. Oq * K = Uq * U
  <2>1. InTable(q + gap)
    BY <1>5, <1>6
  <2>2. (Over(q) * Pow2[gap]) * Under(q + gap) = Under(q) * Over(q + gap)
    <3>. HIDE DEF q, gap
    <3>. QED BY <1>5, <1>6, <2>1, OverSum
  <2>3. (Oq * K) * 1 = Uq * U
    BY <1>5, <1>7, <2>2
  <2>. HIDE DEF U, Oq, Uq, K
  <2>. QED BY <1>7, <2>3
<1>10. p * Oe = M * Ue
  <2>1. Up(e) = g * Ue /\ Down(e) = Oe
    BY <1>5, ScaleOf
  <2>2. (p * g) * Oe = M * (g * Ue)
    BY <1>2, <1>4, <2>1
  <2>. HIDE DEF p, g, Oe, Ue, M
  <2>. DEFINE s == p * Oe
              t == M * Ue
  <2>3. s \in Nat /\ t \in Nat /\ s * g = t * g
    BY <1>2, <1>3, <1>4, <1>7, <2>2
  <2>4. s = t
    <3>. HIDE DEF s, t
    <3>. QED BY <1>3, <2>3
  <2>. QED BY <2>4
<1>11. 4 * L = S * K
  <2>. DEFINE l == Ref!LogOne
              r == RadicandShift
  <2>1. Pow2[r + gap] = Pow2[r] * Pow2[gap]
    <3>. HIDE DEF gap, r
    <3>. QED BY <1>5, Pow2Sum DEF r
  <2>2. Pow2[l + 2] = 4 * Pow2[l]
    <3>1. l \in Nat /\ l + 1 \in Nat /\ (l + 1) + 1 = l + 2 /\ l + 1 <= MaxShift /\ (l + 1) + 1 <= MaxShift
          /\ l \in 0..MaxShift
      BY <1>5, Widths
    <3>. HIDE DEF l
    <3>2. Pow2[l + 1] = 2 * Pow2[l] /\ Pow2[(l + 1) + 1] = 2 * Pow2[l + 1] /\ Pow2[l] \in Nat
      BY <3>1, Pow2Step
    <3>. QED BY <3>1, <3>2
  <2>3. r + gap = l + 2
    BY <1>5
  <2>. QED BY <2>1, <2>2, <2>3
<1>12. M * K = p * (U * U)
  <2>. HIDE DEF p, M, K, U, Oq, Uq, Oe, Ue
  <2>. DEFINE f == Ue * Oq
              s == M * K
              t == p * (U * U)
  <2>1. f \in Nat /\ f >= 1 /\ s \in Nat /\ t \in Nat
    BY <1>2, <1>4, <1>7
  <2>2. s * f = (M * Ue) * (Oq * K)
    BY <1>2, <1>4, <1>7
  <2>3. (p * Oe) * (Uq * U) = (p * U) * (Uq * Oe)
    BY <1>2, <1>4, <1>7
  <2>4. (p * U) * ((U * Oq) * Ue) = t * f
    BY <1>2, <1>4, <1>7
  <2>5. s * f = t * f
    BY <1>8, <1>9, <1>10, <2>2, <2>3, <2>4
  <2>. HIDE DEF f, s, t
  <2>6. s = t
    BY <2>1, <2>5
  <2>. QED BY <2>6 DEF s, t
<1>13. Radicand = p * S
  BY DEF Radicand
<1>14. 4 * (M * L) = (p * S) * (U * U)
  <2>. HIDE DEF p, M, K, U, L, S
  <2>1. 4 * (M * L) = M * (4 * L)
    BY <1>4, <1>7
  <2>2. M * (S * K) = (M * K) * S
    BY <1>4, <1>7
  <2>3. (p * (U * U)) * S = (p * S) * (U * U)
    BY <1>2, <1>7
  <2>. QED BY <1>11, <1>12, <2>1, <2>2, <2>3
<1>. QED BY <1>4, <1>7, <1>13, <1>14

(* Whether the digits kept are increased.                                  *)
RootUp == ShouldRoundUp(0, GuardBit, Sticky, Root53 % 2 = 1, mode)

(* What the root is made of when the loop has ended.                       *)
LEMMA RootParts ==
  ASSUME RootIInv, pc = "round"
  PROVE  /\ x \in Values /\ x.s = 0 /\ ~ IsNaN(x) /\ ~ IsInf(x) /\ ~ IsZero(x) /\ mode \in Modes
         /\ Root53 \in Nat /\ ImplicitBit <= Root53 /\ Root53 < 2 * ImplicitBit
         /\ root % 2 \in {0, 1} /\ root = 2 * Root53 + (root % 2)
         /\ rem \in Nat /\ rem <= 2 * root
         /\ Radicand \in Nat /\ Radicand = root * root + rem
         /\ \E y \in Nat : Radicand = 4 * y
<1>1. /\ x \in Values /\ x.s = 0 /\ ~ IsNaN(x) /\ ~ IsInf(x) /\ ~ IsZero(x) /\ mode \in Modes
      /\ rem \in Nat /\ root \in Nat /\ rem <= 2 * root /\ Radicand = root * root + rem
      /\ Pow2[RootBits - 1] <= root /\ root < Pow2[RootBits]
  BY DEF RootIInv, RootTypeOK, RootKept, Rooting
<1>2. Radicand \in Nat
  BY <1>1, RadicandWidth
<1>3. Pow2[RootBits - 1] = 2 * ImplicitBit /\ Pow2[RootBits] = 4 * ImplicitBit /\ ImplicitBit \in Nat
  <2>1. FracBits \in Nat /\ FracBits + 1 = RootBits - 1 /\ FracBits + 1 <= MaxShift
    BY RootWidths, Widths
  <2>2. Pow2[FracBits + 1] = 2 * Pow2[FracBits]
    BY <2>1, Pow2Step
  <2>. QED BY <2>1, <2>2, RootWidths, Fields
<1>4. Root53 \in Nat /\ root % 2 \in {0, 1} /\ root = 2 * Root53 + (root % 2)
  <2>1. root \div 2 \in Nat /\ root % 2 \in {0, 1} /\ root = 2 * (root \div 2) + (root % 2)
    BY <1>1
  <2>. QED BY <2>1 DEF Root53
<1>5. ImplicitBit <= Root53 /\ Root53 < 2 * ImplicitBit
  BY <1>1, <1>3, <1>4
<1>6. \E y \in Nat : Radicand = 4 * y
  <2>1. x.e < ExpMax
    BY <1>1, Fields DEF Values, IsNaN, IsInf
  <2>2. Mantissa \in Nat
    BY <1>1, <2>1, UnpackedUnits DEF Mantissa
  <2>. DEFINE t == RadicandShift - 2
  <2>3. /\ t \in Nat /\ t + 1 \in Nat /\ (t + 1) + 1 = RadicandShift /\ t + 1 <= MaxShift
        /\ (t + 1) + 1 <= MaxShift /\ t \in 0..MaxShift
    BY Widths DEF RadicandShift
  <2>4. Pow2[RadicandShift] = 4 * Pow2[t] /\ Pow2[t] \in Nat
    <3>. HIDE DEF t
    <3>1. Pow2[t + 1] = 2 * Pow2[t] /\ Pow2[(t + 1) + 1] = 2 * Pow2[t + 1] /\ Pow2[t] \in Nat
      BY <2>3, Pow2Step
    <3>. QED BY <2>3, <3>1
  <2>. DEFINE h == Pow2[t]
              y == Mantissa * h
  <2>5. Mantissa * (4 * h) = 4 * y /\ y \in Nat
    <3>1. h \in Nat
      BY <2>4
    <3>. HIDE DEF h
    <3>. QED BY <2>2, <3>1
  <2>6. Radicand = 4 * y
    BY <2>4, <2>5 DEF Radicand
  <2>. HIDE DEF y
  <2>. QED BY <2>5, <2>6
<1>. QED BY <1>1, <1>2, <1>4, <1>5, <1>6

(* What the reference makes of the operand.                                *)
LEMMA RootOfReference ==
  ASSUME RootIInv, pc = "round", NEW i, i = IndexOf(RootExp, Root53)
  PROVE  /\ i \in Nat /\ i + 1 = IndexOf(RootExp, Root53 + 1)
         /\ Ref!Sqrt(x, mode) =
              [res |-> Ref!OfIndex(0, IF RootUp THEN i + 1 ELSE i),
               fe |-> IF GuardBit \/ Sticky THEN {"inexact"} ELSE {}]
<1>. DEFINE m == Root53
            g == root % 2
            E == RootExp
            U == RootUnit
            V == U * U
            S == Ref!Mag(x) * Pow2[Ref!LogOne]
            I == ImplicitBit
            M == Ref!Magnitude[i]
            N == Ref!Magnitude[i + 1]
<1>1. /\ x \in Values /\ x.s = 0 /\ ~ IsNaN(x) /\ ~ IsInf(x) /\ ~ IsZero(x) /\ mode \in Modes
      /\ m \in Nat /\ I <= m /\ m < 2 * I
      /\ g \in {0, 1} /\ root = 2 * m + g
      /\ rem \in Nat /\ rem <= 2 * root
      /\ Radicand \in Nat /\ Radicand = root * root + rem
      /\ \E y \in Nat : Radicand = 4 * y
  BY RootParts
<1>2. /\ E \in 1..(ExpMax - 1) /\ E \in Nat /\ I \in Nat
      /\ 2 * (FracBits + E) <= FracBits + ExpMax + Ref!LogOne
  BY <1>1, RootExpRange, Fields
<1>3. U \in Nat /\ U >= 1
  BY <1>2, UnitFacts, Fields DEF RootUnit
<1>4. S \in Nat /\ 4 * S = Radicand * V /\ V \in Nat /\ V >= 1
  <2>. DEFINE L == Pow2[Ref!LogOne]
              B == Ref!Mag(x)
  <2>1. B \in Nat /\ L \in Nat /\ 4 * (B * L) = Radicand * V
    BY <1>1, RootScale
  <2>2. B * L \in Nat
    <3>. HIDE DEF B, L
    <3>. QED BY <2>1
  <2>3. V \in Nat /\ V >= 1
    <3>. HIDE DEF U
    <3>. QED BY <1>3
  <2>. QED BY <2>1, <2>2, <2>3
<1>5. /\ (m * m) * V <= S
      /\ S < ((m + 1) * (m + 1)) * V
      /\ (m * m) * V = S <=> g = 0 /\ rem = 0
      /\ 4 * S > ((2 * m + 1) * (2 * m + 1)) * V <=> g = 1 /\ rem # 0
      /\ g = 1 => rem # 0
  <2>1. PICK y \in Nat : Radicand = 4 * y
    BY <1>1
  <2>. HIDE DEF m, g, V, S
  <2>. QED BY <1>1, <1>4, <2>1, LastDigit
<1>6. /\ i \in 0..(ExpMax * I - 1) /\ i + 1 = IndexOf(E, m + 1)
      /\ M = m * U /\ N = (m + 1) * U
  <2>1. InBinade(E, m) /\ InBinade(E, m + 1)
    BY <1>1, <1>2 DEF InBinade
  <2>2. m + 1 \in Nat
    BY <1>1
  <2>3. /\ i \in 0..(ExpMax * I) /\ M = m * Unit(E)
        /\ IndexOf(E, m + 1) \in 0..(ExpMax * I)
        /\ Ref!Magnitude[IndexOf(E, m + 1)] = (m + 1) * Unit(E)
    BY <1>1, <1>2, <2>1, <2>2, MagnitudeAt
  <2>4. i + 1 = IndexOf(E, m + 1) /\ ExpMax * I \in Nat
    <3>1. (E - 1) * I \in Int /\ ExpMax * I \in Nat
      BY <1>2, Fields
    <3>. QED BY <1>1, <3>1 DEF IndexOf
  <2>. DEFINE top == ExpMax * I
  <2>5. i \in 0..(top - 1)
    <3>. HIDE DEF top
    <3>. QED BY <2>3, <2>4 DEF top
  <2>. QED BY <2>3, <2>4, <2>5 DEF RootUnit
<1>7. M < Ref!RootLimit
  <2>. DEFINE n == FracBits + ExpMax + Ref!LogOne
              h == n \div 2
              w == FracBits + E
  <2>1. n \in Nat /\ w \in Nat /\ 2 * w <= n /\ n <= 2 * MaxShift
    BY <1>2, SameFormat, Fields, Widths
  <2>2. h \in Nat /\ w <= h /\ h <= MaxShift
    <3>. HIDE DEF n, w
    <3>. QED BY <2>1, Widths
  <2>3. Pow2[w] <= Pow2[h] /\ Ref!RootLimit = Pow2[h]
    <3>1. Ref!RootLimit = Pow2[h]
      BY SameFormat DEF Ref!RootLimit
    <3>. HIDE DEF w, h
    <3>. QED BY <2>1, <2>2, <3>1, Pow2Monotone
  <2>4. Pow2[w] = (2 * I) * U
    <3>1. /\ FracBits + 1 \in Nat /\ E - 1 \in Nat /\ (FracBits + 1) + (E - 1) = w /\ FracBits \in Nat
          /\ w <= MaxShift /\ FracBits + 1 <= MaxShift
      BY <1>2, <2>1, <2>2, Widths
    <3>2. Pow2[(FracBits + 1) + (E - 1)] = Pow2[FracBits + 1] * Pow2[E - 1]
      <4>. HIDE DEF w, E
      <4>. QED BY <3>1, Pow2Sum
    <3>3. Pow2[FracBits + 1] = 2 * I
      BY <3>1, Pow2Step, Fields
    <3>. QED BY <3>1, <3>2, <3>3 DEF RootUnit, Unit
  <2>5. m * U < (2 * I) * U
    <3>. HIDE DEF m, U, I
    <3>. QED BY <1>1, <1>2, <1>3
  <2>6. Pow2[w] \in Nat /\ Pow2[h] \in Nat /\ m * U \in Nat
    <3>1. w \in 0..MaxShift /\ h \in 0..MaxShift
      <4>. HIDE DEF w, h
      <4>. QED BY <2>1, <2>2, Widths
    <3>. QED BY <1>1, <1>3, <3>1, Pow2Positive
  <2>. DEFINE low == m * U
              pw == Pow2[w]
              d == Pow2[h]
  <2>7. low < pw /\ pw <= d /\ low \in Nat /\ pw \in Nat /\ d \in Nat
    BY <2>3, <2>4, <2>5, <2>6
  <2>8. low < d
    <3>. HIDE DEF low, pw, d
    <3>. QED BY <2>7
  <2>. QED BY <1>6, <2>3, <2>8
<1>8. /\ M * M = (m * m) * V /\ N * N = ((m + 1) * (m + 1)) * V
      /\ (M + N) * (M + N) = ((2 * m + 1) * (2 * m + 1)) * V
  <2>1. /\ (m * U) * (m * U) = (m * m) * (U * U)
        /\ ((m + 1) * U) * ((m + 1) * U) = ((m + 1) * (m + 1)) * (U * U)
        /\ (m * U + (m + 1) * U) * (m * U + (m + 1) * U) = ((2 * m + 1) * (2 * m + 1)) * (U * U)
    <3>. HIDE DEF m, U
    <3>. QED BY <1>1, <1>3
  <2>. QED BY <1>6, <2>1
<1>9. Ref!RootFloorIndex(S) = i
  <2>. HIDE DEF S, M, N, m, V
  <2>. QED BY <1>4, <1>5, <1>6, <1>7, <1>8, RootFloorFound DEF M, N
<1>10. /\ ~ Ref!IsNaN(x) /\ ~ Ref!IsZero(x) /\ ~ Ref!IsInf(x) /\ x.s # 1
  BY <1>1, SameClasses
<1>. DEFINE exact == M * M = S
            mid == M + N
            up == CASE mode \in {"RTZ", "RDN"} -> FALSE
                    [] mode = "RUP" -> ~ exact
                    [] mode \in {"RNE", "RNA"} -> 4 * S > mid * mid
<1>11. Ref!Sqrt(x, mode) = Ref!Result(Ref!OfIndex(0, IF up THEN i + 1 ELSE i),
                                      IF exact THEN {} ELSE {"inexact"})
  BY <1>9, <1>10, Zenon DEF Ref!Sqrt
<1>12. (exact <=> ~ (GuardBit \/ Sticky)) /\ (4 * S > mid * mid <=> GuardBit /\ Sticky)
       /\ (GuardBit => Sticky)
  <2>1. (GuardBit <=> g = 1) /\ (Sticky <=> rem # 0)
    BY DEF GuardBit, Sticky
  <2>. HIDE DEF M, N, S, V, m, g
  <2>. QED BY <1>1, <1>5, <1>8, <2>1
<1>13. up <=> RootUp
  <2>. HIDE DEF exact, mid, S
  <2>1. CASE mode = "RTZ"
    BY <2>1 DEF RootUp, ShouldRoundUp
  <2>2. CASE mode = "RDN"
    BY <2>2 DEF RootUp, ShouldRoundUp
  <2>3. CASE mode = "RUP"
    BY <1>12, <2>3 DEF RootUp, ShouldRoundUp
  <2>4. CASE mode = "RNE"
    <3>1. up <=> 4 * S > mid * mid
      BY <2>4
    <3>2. RootUp <=> GuardBit /\ (Sticky \/ Root53 % 2 = 1)
      BY <2>4 DEF RootUp, ShouldRoundUp
    <3>. QED BY <1>12, <3>1, <3>2
  <2>5. CASE mode = "RNA"
    <3>1. up <=> 4 * S > mid * mid
      BY <2>5
    <3>2. RootUp <=> GuardBit
      BY <2>5 DEF RootUp, ShouldRoundUp
    <3>. QED BY <1>12, <3>1, <3>2
  <2>. QED BY <1>1, <2>1, <2>2, <2>3, <2>4, <2>5 DEF Modes
<1>14. i \in Nat
  BY <1>6
<1>. HIDE DEF up, exact
<1>. QED BY <1>6, <1>11, <1>12, <1>13, <1>14, Zenon DEF Ref!Result, m, E

LEMMA FinishAnswer ==
  ASSUME RootIInv, Finish
  PROVE  [res |-> res', fe |-> fe'] = Ref!Sqrt(x, mode)
<1>. DEFINE m == Root53
            E == RootExp
            I == ImplicitBit
            n == RoundedRoot
            i == IndexOf(E, m)
            j == IndexOf(E, n)
            sig == IF Carry THEN n \div 2 ELSE n
            f == sig % I
<1>1. /\ pc = "round" /\ res' = Clamped(NewExp, f)
      /\ fe' = IF GuardBit \/ Sticky THEN {"inexact"} ELSE {}
  BY DEF Finish, Deliver
<1>2. /\ x \in Values /\ ~ IsNaN(x) /\ ~ IsInf(x) /\ ~ IsZero(x)
      /\ m \in Nat /\ I <= m /\ m < 2 * I
  BY <1>1, RootParts
<1>3. /\ E \in 1..(ExpMax - 1) /\ NewExp = E + (IF Carry THEN 1 ELSE 0)
      /\ NewExp \in 1..(ExpMax - 1)
  BY <1>2, RootExpRange, HalfExpNormal
<1>4. I \in Nat /\ I >= 4 /\ I = Pow2[FracBits] /\ ExpMax \in Nat
  BY GuardPowers, Fields
<1>5. n = (IF RootUp THEN m + 1 ELSE m) /\ n \in Nat /\ I <= n /\ n <= 2 * I
  <2>1. n = (IF RootUp THEN m + 1 ELSE m)
    BY DEF RoundedRoot, RootUp
  <2>. HIDE DEF n, m, I
  <2>. QED BY <1>2, <1>4, <2>1
<1>6. Carry <=> n = 2 * I
  <2>1. /\ FracBits + 1 \in Nat /\ FracBits + 1 < MaxShift /\ (FracBits + 1) + 1 <= MaxShift
        /\ FracBits \in Nat
    BY Widths
  <2>2. Pow2[FracBits + 1] = 2 * I /\ Pow2[(FracBits + 1) + 1] = 4 * I
    <3>. DEFINE t == FracBits + 1
    <3>1. Pow2[FracBits + 1] = 2 * Pow2[FracBits] /\ t \in Nat /\ t + 1 <= MaxShift
      BY <2>1, Pow2Step, Widths
    <3>2. Pow2[t + 1] = 2 * Pow2[t]
      <4>. HIDE DEF t
      <4>. QED BY <3>1, Pow2Step
    <3>. QED BY <1>4, <3>1, <3>2
  <2>3. n < Pow2[(FracBits + 1) + 1]
    <3>. HIDE DEF n, I
    <3>. QED BY <1>4, <1>5, <2>2
  <2>4. BitSet(n, FracBits + 1) <=> Pow2[FracBits + 1] <= n
    <3>. HIDE DEF n
    <3>. QED BY <1>5, <2>1, <2>3, TopBit
  <2>5. Carry <=> 2 * I <= n
    BY <2>2, <2>4 DEF Carry
  <2>. HIDE DEF n, I
  <2>. QED BY <1>4, <1>5, <2>5
<1>7. Ref!Sqrt(x, mode) = [res |-> Ref!OfIndex(0, j),
                           fe |-> IF GuardBit \/ Sticky THEN {"inexact"} ELSE {}]
  <2>1. /\ i + 1 = IndexOf(E, m + 1)
        /\ Ref!Sqrt(x, mode) = [res |-> Ref!OfIndex(0, IF RootUp THEN i + 1 ELSE i),
                                fe |-> IF GuardBit \/ Sticky THEN {"inexact"} ELSE {}]
    <3>. HIDE DEF i, E
    <3>1. i = IndexOf(RootExp, Root53)
      BY DEF i, E
    <3>. QED BY <1>1, <3>1, RootOfReference DEF E
  <2>2. j = (IF RootUp THEN i + 1 ELSE i)
    <3>. HIDE DEF n
    <3>1. CASE RootUp
      BY <1>5, <2>1, <3>1
    <3>2. CASE ~ RootUp
      BY <1>5, <3>2
    <3>. QED BY <3>1, <3>2
  <2>. QED BY <2>1, <2>2
<1>8. NewExp = j \div I /\ f = j % I
  <2>1. CASE ~ Carry
    <3>1. E \in 1..ExpMax /\ n < 2 * I
      <4>. HIDE DEF n, I, E
      <4>. QED BY <1>3, <1>4, <1>5, <1>6, <2>1
    <3>2. j \div I = E /\ j % I = n % I
      <4>. HIDE DEF n, E
      <4>. QED BY <1>5, <3>1, FieldsOf
    <3>3. f = n % I /\ NewExp = E
      <4>. HIDE DEF n, I, E
      <4>. QED BY <1>3, <2>1
    <3>. QED BY <3>2, <3>3
  <2>2. CASE Carry
    <3>1. n = 2 * I /\ E + 1 \in 1..ExpMax /\ NewExp = E + 1
      <4>. HIDE DEF n, I, E
      <4>. QED BY <1>3, <1>4, <1>6, <2>2
    <3>2. j = IndexOf(E + 1, I)
      <4>1. E \in Nat /\ j = (E - 1) * I + 2 * I /\ IndexOf(E + 1, I) = ((E + 1) - 1) * I + I
        BY <1>3, <3>1 DEF IndexOf
      <4>. HIDE DEF j, E, I
      <4>. QED BY <1>4, <4>1
    <3>3. IndexOf(E + 1, I) \div I = E + 1 /\ IndexOf(E + 1, I) % I = I % I
      <4>1. I \in Nat /\ I < 2 * I
        BY <1>4
      <4>. HIDE DEF E
      <4>. QED BY <3>1, <4>1, FieldsOf
    <3>4. f = I % I
      <4>1. (2 * I) \div 2 = I
        BY <1>4
      <4>. HIDE DEF n, I
      <4>. QED BY <2>2, <3>1, <4>1
    <3>. QED BY <3>1, <3>2, <3>3, <3>4
  <2>. QED BY <2>1, <2>2
<1>9. Ref!OfIndex(0, j) = [s |-> 0, e |-> j \div I, f |-> j % I]
  BY SameFormat DEF Ref!OfIndex
<1>10. Clamped(NewExp, f) = [s |-> 0, e |-> NewExp, f |-> f]
  <2>. HIDE DEF f
  <2>. QED BY <1>3, <1>4 DEF Clamped
<1>. HIDE DEF f, j
<1>. QED BY <1>1, <1>7, <1>8, <1>9, <1>10

(* What has been delivered is the reference's; nothing has before.         *)
AInv == RootIInv /\ CorrectRoot

LEMMA AnswerInductive == AInv /\ [RootNext]_rootVars => AInv'
<1>. SUFFICES ASSUME AInv, [RootNext]_rootVars PROVE AInv'
  OBVIOUS
<1>1. RootIInv' /\ RootIInv
  BY RootInductive DEF AInv
<1>. DEFINE Answered == [res |-> res', fe |-> fe'] = Ref!Sqrt(x, mode)
<1>2. x \in Values /\ (IsNaN(x) <=> Ref!IsNaN(x)) /\ (IsSNaN(x) <=> Ref!IsSNaN(x))
      /\ (IsZero(x) <=> Ref!IsZero(x)) /\ (IsInf(x) <=> Ref!IsInf(x))
      /\ CanonicalNaN = Ref!CanonicalNaN /\ Quiet(x) = Ref!Quiet(x)
  BY <1>1, SameClasses, SameFormat DEF RootIInv, RootTypeOK
<1>3. CASE NaNRoot
  <2>1. Ref!Sqrt(x, mode) = [res |-> Quiet(x), fe |-> IF IsSNaN(x) THEN {"invalid"} ELSE {}]
    BY <1>2, <1>3, Zenon DEF NaNRoot, Ref!Sqrt, Ref!NaNResult, Ref!PropagateNaN, Ref!Result
  <2>. QED BY <1>1, <1>3, <2>1 DEF NaNRoot, Deliver, AInv, CorrectRoot
<1>4. CASE NegativeOperand
  <2>1. Ref!Sqrt(x, mode) = [res |-> CanonicalNaN, fe |-> {"invalid"}]
    BY <1>2, <1>4, Zenon DEF NegativeOperand, Ref!Sqrt, Ref!Invalid, Ref!Result
  <2>. QED BY <1>1, <1>4, <2>1 DEF NegativeOperand, Deliver, AInv, CorrectRoot
<1>5. CASE OwnRoot
  <2>1. ~ IsNaN(x) /\ (IsZero(x) \/ (IsInf(x) /\ x.s # 1))
    BY <1>5, <1>2, Fields DEF OwnRoot, IsNaN, IsZero, IsInf, Values
  <2>2. Ref!Sqrt(x, mode) = [res |-> x, fe |-> {}]
    BY <1>2, <2>1, Zenon DEF Ref!Sqrt, Ref!Result
  <2>. QED BY <1>1, <1>5, <2>2 DEF OwnRoot, Deliver, AInv, CorrectRoot
<1>6. CASE StartRoot
  BY <1>1, <1>6 DEF StartRoot, AInv, CorrectRoot
<1>7. CASE Digit
  <2>1. pc' # "done"
    BY <1>7 DEF Digit
  <2>. QED BY <1>1, <2>1 DEF AInv, CorrectRoot
<1>8. CASE Finish
  <2>1. Answered
    BY <1>1, <1>8, FinishAnswer
  <2>. QED BY <1>1, <1>8, <2>1 DEF Finish, Deliver, AInv, CorrectRoot
<1>9. CASE UNCHANGED rootVars
  BY <1>1, <1>9 DEF rootVars, AInv, CorrectRoot
<1>. QED BY <1>3, <1>4, <1>5, <1>6, <1>7, <1>8, <1>9 DEF RootNext

(* The digit loop and the rounding of its root give the correctly rounded  *)
(* square root and exactly the flags of the standard, for every operand    *)
(* and mode of every format.                                               *)
THEOREM CorrectRootAlways == RootSpec => []CorrectRoot
<1>1. RootInit => AInv
  BY RootTypeInit DEF AInv, CorrectRoot, RootInit
<1>2. AInv => CorrectRoot
  BY DEF AInv
<1>. QED BY <1>1, <1>2, AnswerInductive, PTL DEF RootSpec

---------------------------------------------------------------------------
(* The inlined copy.  Its digit loop is a function from the iteration to   *)
(* the state after it; there is one such function, and the loop of         *)
(* isqrt_bits runs through its values.                                     *)
FirstDigits(r) == [rad |-> r, rem |-> 0, root |-> 0]
NextDigits(d) ==
  LET ext == 4 * d.rem + d.rad \div Pow2[2 * RootBits - 2]
      test == 4 * d.root + 1
  IN  [rad |-> (4 * d.rad) % Pow2[2 * RootBits],
       rem |-> IF ext >= test THEN ext - test ELSE ext,
       root |-> IF ext >= test THEN 2 * d.root + 1 ELSE 2 * d.root]
AreDigits(r, n, f) ==
  f = [i \in 0..n |-> IF i = 0 THEN FirstDigits(r) ELSE NextDigits(f[i - 1])]
DigitsOf(r) == CHOOSE f : AreDigits(r, RootBits, f)

LEMMA DigitsExist ==
  ASSUME NEW r, NEW m \in Nat
  PROVE  \E f : AreDigits(r, m, f)
<1>. DEFINE None == {n \in Nat : ~ \E f : AreDigits(r, n, f)}
<1>1. SUFFICES None = {}
  OBVIOUS
<1>2. SUFFICES ASSUME None # {} PROVE FALSE
  OBVIOUS
<1>3. PICK n \in None : \A h \in None : n <= h
  <2>1. None \subseteq Nat
    OBVIOUS
  <2>. HIDE DEF None
  <2>. QED BY <1>2, <2>1, Least
<1>4. n \in Nat /\ ~ \E f : AreDigits(r, n, f)
  BY <1>3
<1>5. CASE n = 0
  <2>. DEFINE f == [i \in 0..0 |-> FirstDigits(r)]
  <2>1. f = [i \in 0..0 |-> IF i = 0 THEN FirstDigits(r) ELSE NextDigits(f[i - 1])]
    OBVIOUS
  <2>2. AreDigits(r, n, f)
    BY <1>5, <2>1 DEF AreDigits
  <2>. QED BY <1>4, <2>2
<1>6. CASE n # 0
  <2>. DEFINE p == n - 1
  <2>1. p \in Nat /\ n = p + 1 /\ ~ (n <= p)
    BY <1>4, <1>6
  <2>2. p \notin None
    BY <1>3, <2>1
  <2>3. PICK f : AreDigits(r, p, f)
    BY <2>1, <2>2
  <2>. HIDE DEF p
  <2>. DEFINE g == [i \in 0..n |-> IF i <= p THEN f[i] ELSE NextDigits(f[p])]
  <2>4. ASSUME NEW i \in 0..n
        PROVE  g[i] = IF i = 0 THEN FirstDigits(r) ELSE NextDigits(g[i - 1])
    <3>1. f = [h \in 0..p |-> IF h = 0 THEN FirstDigits(r) ELSE NextDigits(f[h - 1])]
      BY <2>3 DEF AreDigits
    <3>2. CASE i <= p
      <4>1. i \in 0..p /\ g[i] = f[i]
        BY <2>1, <3>2
      <4>2. f[i] = IF i = 0 THEN FirstDigits(r) ELSE NextDigits(f[i - 1])
        BY <3>1, <4>1, Zenon
      <4>3. i # 0 => g[i - 1] = f[i - 1]
        BY <2>1, <3>2
      <4>. HIDE DEF g
      <4>. QED BY <4>1, <4>2, <4>3
    <3>3. CASE ~ (i <= p)
      <4>1. i # 0 /\ g[i] = NextDigits(f[p]) /\ g[i - 1] = f[p]
        <5>1. i = p + 1 /\ i - 1 = p /\ p <= p /\ p \in 0..n
          BY <2>1, <3>3
        <5>. QED BY <2>1, <3>3, <5>1
      <4>. HIDE DEF g
      <4>. QED BY <4>1
    <3>. QED BY <3>2, <3>3
  <2>5. AreDigits(r, n, g)
    <3>1. g = [i \in 0..n |-> g[i]]
      OBVIOUS
    <3>. HIDE DEF g
    <3>2. [i \in 0..n |-> g[i]] = [i \in 0..n |-> IF i = 0 THEN FirstDigits(r) ELSE NextDigits(g[i - 1])]
      BY <2>4, Zenon
    <3>. QED BY <3>1, <3>2, Zenon DEF AreDigits
  <2>. QED BY <1>4, <2>5
<1>. QED BY <1>5, <1>6

LEMMA DigitsFollow ==
  ASSUME NEW r
  PROVE  /\ DigitsOf(r)[0] = FirstDigits(r)
         /\ \A i \in 0..(RootBits - 1) : DigitsOf(r)[i + 1] = NextDigits(DigitsOf(r)[i])
<1>. DEFINE D == DigitsOf(r)
<1>1. RootBits \in Nat
  BY RootWidths
<1>2. AreDigits(r, RootBits, D)
  BY <1>1, DigitsExist DEF DigitsOf
<1>. HIDE DEF D
<1>3. D = [i \in 0..RootBits |-> IF i = 0 THEN FirstDigits(r) ELSE NextDigits(D[i - 1])]
  BY <1>2 DEF AreDigits
<1>4. D[0] = FirstDigits(r)
  <2>1. 0 \in 0..RootBits
    BY <1>1
  <2>. QED BY <1>3, <2>1, Zenon
<1>5. ASSUME NEW i \in 0..(RootBits - 1) PROVE D[i + 1] = NextDigits(D[i])
  <2>1. i + 1 \in 0..RootBits /\ i + 1 # 0 /\ (i + 1) - 1 = i
    BY <1>1
  <2>2. D[i + 1] = IF i + 1 = 0 THEN FirstDigits(r) ELSE NextDigits(D[(i + 1) - 1])
    BY <1>3, <2>1, Zenon
  <2>. QED BY <2>1, <2>2
<1>. QED BY <1>4, <1>5 DEF D

LEMMA CopiedIsqrt ==
  ASSUME NEW r
  PROVE  Rne!Isqrt(r) = DigitsOf(r)[RootBits]
BY Zenon DEF Rne!Isqrt, DigitsOf, AreDigits, FirstDigits, NextDigits, Rne!RootBits, RootBits

(* The loop is where the copy's is after as many iterations, and what was  *)
(* delivered in nearest-even mode is the copy's.                           *)
State == [rad |-> rad, rem |-> rem, root |-> root]
InStep ==
  /\ pc = "loop" => DigitsOf(Radicand)[RootBits - k] = State
  /\ pc = "round" => DigitsOf(Radicand)[RootBits] = State
CInv == AInv /\ InStep /\ RneIdentical

LEMMA DigitInStep ==
  ASSUME CInv, Digit
  PROVE  InStep'
<1>. DEFINE D == DigitsOf(Radicand)
            j == RootBits - k
            test == 4 * root + 1
<1>1. /\ pc = "loop" /\ D[j] = State /\ k \in 1..RootBits /\ rad \in Nat /\ rem \in Nat /\ root \in Nat
  BY DEF Digit, CInv, AInv, RootIInv, RootTypeOK, Rooting, InStep
<1>2. RootBits \in Nat /\ j \in 0..(RootBits - 1)
  BY <1>1, RootWidths
<1>3. D[j + 1] = NextDigits(State)
  <2>. HIDE DEF j
  <2>. QED BY <1>1, <1>2, DigitsFollow
<1>4. NextDigits(State) = [rad |-> (4 * rad) % Pow2[2 * RootBits],
                           rem |-> IF Extended >= test THEN Extended - test ELSE Extended,
                           root |-> IF Extended >= test THEN 2 * root + 1 ELSE 2 * root]
  BY DEF NextDigits, State, Extended, NextPair
<1>5. NextDigits(State) = [rad |-> rad', rem |-> rem', root |-> root']
  <2>1. CASE Extended >= test
    <3>1. rem' = Extended - test /\ root' = 2 * root + 1 /\ rad' = (4 * rad) % Pow2[2 * RootBits]
      BY <2>1, Zenon DEF Digit, Trial
    <3>. HIDE DEF test
    <3>. QED BY <1>4, <2>1, <3>1, Zenon
  <2>2. CASE ~ (Extended >= test)
    <3>1. rem' = Extended /\ root' = 2 * root /\ rad' = (4 * rad) % Pow2[2 * RootBits]
      BY <2>2, Zenon DEF Digit, Trial
    <3>. HIDE DEF test
    <3>. QED BY <1>4, <2>2, <3>1, Zenon
  <2>. QED BY <2>1, <2>2
<1>6. State' = [rad |-> rad', rem |-> rem', root |-> root']
  BY DEF State
<1>7. /\ k' = k - 1 /\ pc' = (IF k = 1 THEN "round" ELSE "loop") /\ x' = x
  BY DEF Digit
<1>8. Radicand' = Radicand
  BY <1>7 DEF Radicand, Mantissa, RadicandShift, ExpOdd, UnbiasedExp
<1>9. D[j + 1] = State'
  BY <1>3, <1>5, <1>6
<1>10. CASE k = 1
  <2>1. j + 1 = RootBits /\ pc' = "round"
    BY <1>2, <1>7, <1>10
  <2>. HIDE DEF j
  <2>2. DigitsOf(Radicand')[RootBits] = State'
    BY <1>8, <1>9, <2>1
  <2>. QED BY <2>1, <2>2 DEF InStep
<1>11. CASE k # 1
  <2>1. RootBits - k' = j + 1 /\ pc' = "loop"
    BY <1>1, <1>2, <1>7, <1>11
  <2>. HIDE DEF j
  <2>2. DigitsOf(Radicand')[RootBits - k'] = State'
    BY <1>8, <1>9, <2>1
  <2>. QED BY <2>1, <2>2 DEF InStep
<1>. QED BY <1>10, <1>11

LEMMA FinishCopied ==
  ASSUME CInv, Finish, mode = "RNE"
  PROVE  [res |-> res', fe |-> fe'] = Rne!SqrtRne(x)
<1>. DEFINE u == Unpack(x)
            t == UnbiasedExp
            o == t % 2
            n == RoundedRoot
            flags == IF GuardBit \/ Sticky THEN {"inexact"} ELSE {}
<1>1. /\ pc = "round" /\ RootIInv /\ DigitsOf(Radicand)[RootBits] = State
  BY DEF Finish, CInv, AInv, InStep
<1>2. /\ x \in Values /\ x.s = 0 /\ ~ IsNaN(x) /\ ~ IsInf(x) /\ ~ IsZero(x)
  BY <1>1, RootParts
<1>3. x.e < ExpMax
  BY <1>2, Fields DEF Values, IsNaN, IsInf
<1>4. Rne!Unpack(x) = u
  BY <1>2, <1>3, CopiedUnpack
<1>5. t \in Int /\ t = 2 * HalfExp + o /\ HalfExp \in Int /\ o \in {0, 1} /\ o = (IF ExpOdd THEN 1 ELSE 0)
  <2>1. t \in Int /\ t = 2 * HalfExp + (IF ExpOdd THEN 1 ELSE 0) /\ HalfExp \in Int
    BY <1>2, RootExpRange
  <2>2. o \in {0, 1}
    <3>. HIDE DEF t
    <3>. QED BY <2>1
  <2>3. ExpOdd <=> o = 1
    BY DEF ExpOdd
  <2>4. o = (IF ExpOdd THEN 1 ELSE 0)
    BY <2>2, <2>3
  <2>. QED BY <2>1, <2>2, <2>4
<1>6. (t - o) \div 2 = HalfExp
  <2>. DEFINE h == HalfExp
  <2>1. t - o = 2 * h /\ h \in Int
    BY <1>5
  <2>2. (2 * h) \div 2 = h
    <3>. HIDE DEF h
    <3>. QED BY <2>1
  <2>. QED BY <2>1, <2>2
<1>7. FracBits + 2 + o = RadicandShift
  BY <1>5, Widths DEF RadicandShift
<1>8. Rne!Isqrt(Radicand) = State
  BY <1>1, CopiedIsqrt
<1>9. Rne!SqrtUnpackedRne(u) = Rne!RootRne(HalfExp + Bias, State)
  <2>1. /\ u.exp - Rne!Bias = t
        /\ Rne!Significand(u) * Pow2[FracBits + 2 + o] = Radicand
    <3>1. Rne!Significand(u) = Mantissa
      BY Zenon DEF Rne!Significand, Mantissa
    <3>2. u.exp - Rne!Bias = t
      BY SameHelpers DEF UnbiasedExp
    <3>. QED BY <1>7, <3>1, <3>2 DEF Radicand
  <2>2. Rne!SqrtUnpackedRne(u) =
          Rne!RootRne(((u.exp - Rne!Bias) - ((u.exp - Rne!Bias) % 2)) \div 2 + Rne!Bias,
                      Rne!Isqrt(Rne!Significand(u) * Pow2[FracBits + 2 + ((u.exp - Rne!Bias) % 2)]))
    BY Zenon DEF Rne!SqrtUnpackedRne
  <2>3. Rne!SqrtUnpackedRne(u) =
          Rne!RootRne((t - o) \div 2 + Bias, Rne!Isqrt(Rne!Significand(u) * Pow2[FracBits + 2 + o]))
    <3>. HIDE DEF u, t
    <3>. QED BY <2>1, <2>2, SameHelpers DEF o
  <2>. HIDE DEF o, t, u
  <2>. QED BY <1>6, <1>8, <2>1, <2>3
<1>10. Rne!RootRne(HalfExp + Bias, State) = Rne!RoundRootRne(HalfExp + Bias, Root53, GuardBit, Sticky)
  <2>1. State.root = root /\ State.rem = rem
    BY DEF State
  <2>. QED BY <2>1, Zenon DEF Rne!RootRne, Root53, GuardBit, Sticky
<1>11. n = (IF GuardBit /\ (Sticky \/ Root53 % 2 = 1) THEN Root53 + 1 ELSE Root53)
  <2>1. ShouldRoundUp(0, GuardBit, Sticky, Root53 % 2 = 1, mode) <=>
          GuardBit /\ (Sticky \/ Root53 % 2 = 1)
    BY DEF ShouldRoundUp
  <2>. QED BY <2>1 DEF RoundedRoot
<1>12. Rne!RoundRootRne(HalfExp + Bias, Root53, GuardBit, Sticky) =
         IF BitSet(n, FracBits + 1) THEN Rne!PackRootRne(HalfExp + Bias + 1, n \div 2, flags)
         ELSE Rne!PackRootRne(HalfExp + Bias, n, flags)
  <2>. HIDE DEF n
  <2>. QED BY <1>11, SameHelpers, Zenon DEF Rne!RoundRootRne
<1>13. /\ res' = Clamped(NewExp, (IF Carry THEN n \div 2 ELSE n) % ImplicitBit)
       /\ fe' = flags
  BY DEF Finish, Deliver
<1>14. ASSUME NEW e, NEW sig
       PROVE  Rne!PackRootRne(e, sig, flags) = [res |-> Clamped(e, sig % ImplicitBit), fe |-> flags]
  <2>. HIDE DEF flags
  <2>. QED BY SameHelpers, Zenon DEF Rne!PackRootRne, Clamped, Rne!Outcome
<1>15. Rne!SqrtRne(x) = Rne!SqrtUnpackedRne(u)
  <2>1. ~ Rne!IsNaN(x) /\ ~ Rne!IsZero(x) /\ ~ Rne!IsInf(x) /\ x.s # 1
    BY <1>2, CopiedClasses
  <2>. QED BY <1>4, <2>1, Zenon DEF Rne!SqrtRne, Rne!SqrtCoreRne
<1>16. NewExp = (IF Carry THEN HalfExp + Bias + 1 ELSE HalfExp + Bias)
  BY <1>5, Fields DEF NewExp
<1>17. Rne!SqrtRne(x) = IF Carry THEN [res |-> Clamped(HalfExp + Bias + 1, (n \div 2) % ImplicitBit), fe |-> flags]
                        ELSE [res |-> Clamped(HalfExp + Bias, n % ImplicitBit), fe |-> flags]
  <2>1. Carry <=> BitSet(n, FracBits + 1)
    BY DEF Carry
  <2>. HIDE DEF n, flags, u
  <2>. QED BY <1>9, <1>10, <1>12, <1>14, <1>15, <2>1
<1>. HIDE DEF n, flags
<1>18. CASE Carry
  BY <1>13, <1>16, <1>17, <1>18
<1>19. CASE ~ Carry
  BY <1>13, <1>16, <1>17, <1>19
<1>. QED BY <1>18, <1>19

LEMMA CopyInductive == CInv /\ [RootNext]_rootVars => CInv'
<1>. SUFFICES ASSUME CInv, [RootNext]_rootVars PROVE CInv'
  OBVIOUS
<1>1. AInv /\ RootIInv /\ AInv'
  BY AnswerInductive DEF CInv, AInv
<1>2. x \in Values /\ (IsNaN(x) <=> Rne!IsNaN(x)) /\ (IsSNaN(x) <=> Rne!IsSNaN(x))
      /\ (IsZero(x) <=> Rne!IsZero(x)) /\ (IsInf(x) <=> Rne!IsInf(x))
      /\ CanonicalNaN = Rne!CanonicalNaN /\ Quiet(x) = Rne!Quiet(x)
  BY <1>1, CopiedClasses, SameHelpers DEF RootIInv, RootTypeOK
<1>3. CASE NaNRoot
  <2>1. Rne!SqrtRne(x) = [res |-> Quiet(x), fe |-> IF IsSNaN(x) THEN {"invalid"} ELSE {}]
    BY <1>2, <1>3, Zenon DEF NaNRoot, Rne!SqrtRne, Rne!Outcome
  <2>. QED BY <1>1, <1>3, <2>1 DEF NaNRoot, Deliver, CInv, RneIdentical, InStep
<1>4. CASE NegativeOperand
  <2>1. ~ IsNaN(x) /\ ~ IsZero(x) /\ x.s = 1 /\ ~ (x.s = 0)
    BY <1>4 DEF NegativeOperand
  <2>2. Rne!SqrtRne(x) = [res |-> CanonicalNaN, fe |-> {"invalid"}]
    BY <1>2, <2>1, Zenon DEF Rne!SqrtRne, Rne!Invalid, Rne!Outcome
  <2>. QED BY <1>1, <1>4, <2>2 DEF NegativeOperand, Deliver, CInv, RneIdentical, InStep
<1>5. CASE OwnRoot
  <2>1. ~ IsNaN(x) /\ (IsZero(x) \/ (IsInf(x) /\ x.s = 0))
    BY <1>5, <1>2, Fields DEF OwnRoot, IsNaN, IsZero, IsInf, Values
  <2>2. Rne!SqrtRne(x) = [res |-> x, fe |-> {}]
    BY <1>2, <2>1, Zenon DEF Rne!SqrtRne, Rne!Quietly, Rne!Outcome
  <2>. QED BY <1>1, <1>5, <2>2 DEF OwnRoot, Deliver, CInv, RneIdentical, InStep
<1>6. CASE StartRoot
  <2>1. /\ pc' = "loop" /\ x' = x /\ rad' = Radicand /\ rem' = 0 /\ root' = 0 /\ k' = RootBits
    BY <1>6 DEF StartRoot
  <2>2. Radicand' = Radicand
    BY <2>1 DEF Radicand, Mantissa, RadicandShift, ExpOdd, UnbiasedExp
  <2>3. RootBits - k' = 0
    BY <2>1, RootWidths
  <2>4. State' = FirstDigits(Radicand)
    BY <2>1 DEF State, FirstDigits
  <2>5. DigitsOf(Radicand)[0] = FirstDigits(Radicand)
    BY DigitsFollow
  <2>. QED BY <1>1, <2>1, <2>2, <2>3, <2>4, <2>5 DEF CInv, InStep, RneIdentical
<1>7. CASE Digit
  <2>1. pc' # "done"
    BY <1>7 DEF Digit
  <2>. QED BY <1>1, <1>7, <2>1, DigitInStep DEF CInv, RneIdentical
<1>8. CASE Finish
  <2>1. /\ pc' = "done" /\ x' = x /\ mode' = mode
    BY <1>8 DEF Finish, Deliver
  <2>2. mode = "RNE" => [res |-> res', fe |-> fe'] = Rne!SqrtRne(x)
    BY <1>8, FinishCopied
  <2>. QED BY <1>1, <2>1, <2>2 DEF CInv, RneIdentical, InStep
<1>9. CASE UNCHANGED rootVars
  BY <1>1, <1>9 DEF rootVars, CInv, RneIdentical, InStep, State, Radicand, Mantissa, RadicandShift,
              ExpOdd, UnbiasedExp
<1>. QED BY <1>3, <1>4, <1>5, <1>6, <1>7, <1>8, <1>9 DEF RootNext

(* The inlined copy of the square root agrees with the original in nearest- *)
(* even mode on every operand, flags included.                             *)
THEOREM RneIdenticalAlways == RootSpec => []RneIdentical
<1>1. RootInit => CInv
  BY RootTypeInit DEF CInv, AInv, CorrectRoot, RneIdentical, InStep, RootInit
<1>2. CInv => RneIdentical
  BY DEF CInv
<1>. QED BY <1>1, <1>2, CopyInductive, PTL DEF RootSpec

---------------------------------------------------------------------------
(* The operands the loop is entered with.                                  *)
Dividing == pc \in {"loop", "normalise"} =>
              /\ ~ AnyNaN /\ ~ Undefined /\ ~ IsInf(b) /\ ~ IsZero(a) /\ ~ Smaller
              /\ k <= Distance

IInv == TypeOK /\ RemainderKept /\ Dividing

---------------------------------------------------------------------------
(* Subtracting the divisor changes no remainder.                           *)
LEMMA ModSubtract ==
  ASSUME NEW y \in Int, NEW d \in Nat, d > 0, NEW q \in Int
  PROVE  (y - d * q) % d = y % d
<1>. DEFINE r == y % d
            n == y \div d
<1>1. y = d * n + r /\ r \in 0..(d - 1) /\ n \in Int
  OBVIOUS
<1>. HIDE DEF r, n
<1>2. y - d * q = d * (n - q) + r
  BY <1>1
<1>3. (d * (n - q) + r) % d = r
  BY <1>1
<1>. QED BY <1>1, <1>2, <1>3 DEF r

(* A finite operand that is not zero has a significand of full width.      *)
LEMMA SigWidth ==
  ASSUME NEW v \in Values, v.e < ExpMax, ~ IsZero(v)
  PROVE  /\ Sig(v) \in Nat /\ Sig(v) > 0
         /\ Pow2[FracBits] <= Sig(v) /\ Sig(v) < Pow2[FracBits + 1]
<1>1. PICK m \in Nat : /\ Pow2[FracBits] <= m /\ m < Pow2[FracBits + 1]
                       /\ Unpack(v).sig = m * Pow2[GuardBits]
  BY UnpackNormalises
<1>2. GuardBits \in 0..MaxShift /\ FracBits \in 0..MaxShift
  BY Widths
<1>3. Pow2[GuardBits] \in Nat /\ Pow2[GuardBits] >= 1 /\ Pow2[FracBits] \in Nat /\ Pow2[FracBits] >= 1
  BY <1>2, Pow2Positive
<1>4. (m * Pow2[GuardBits]) \div Pow2[GuardBits] = m
  BY <1>3
<1>. QED BY <1>1, <1>3, <1>4 DEF Sig

(* The loop's operands, divisor and number of iterations.                  *)
LEMMA Operands ==
  ASSUME TypeOK, ~ AnyNaN, ~ Undefined, ~ IsInf(b), ~ IsZero(a), ~ Smaller
  PROVE  /\ a.e < ExpMax /\ b.e < ExpMax
         /\ Sig(a) \in Nat /\ Sig(a) > 0 /\ Sig(a) < Pow2[FracBits + 1]
         /\ SigB \in Nat /\ SigB > 0 /\ SigB < Pow2[FracBits + 1]
         /\ Pow2[FracBits] <= SigB
         /\ Sig(a) < 2 * SigB
         /\ Unpack(b).exp \in Int
         /\ Distance \in 0..(ExpMax + FracBits)
<1>1. a \in Values /\ b \in Values
  BY DEF TypeOK
<1>2. a.e < ExpMax /\ b.e < ExpMax
  BY <1>1, Fields DEF AnyNaN, Undefined, IsNaN, IsInf, Values
<1>3. ~ IsZero(b)
  BY DEF Undefined
<1>4. /\ Sig(a) \in Nat /\ Sig(a) > 0 /\ Pow2[FracBits] <= Sig(a) /\ Sig(a) < Pow2[FracBits + 1]
      /\ SigB \in Nat /\ SigB > 0 /\ Pow2[FracBits] <= SigB /\ SigB < Pow2[FracBits + 1]
  BY <1>1, <1>2, <1>3, SigWidth DEF SigB
<1>5. Pow2[FracBits + 1] = 2 * Pow2[FracBits] /\ Pow2[FracBits] \in Nat
  <2>1. FracBits \in 0..MaxShift /\ FracBits \in Nat /\ FracBits + 1 <= MaxShift
    BY Widths
  <2>. QED BY <2>1, Pow2Step
<1>6. /\ Unpack(a).exp \in (1 - FracBits)..(ExpMax - 1)
      /\ Unpack(b).exp \in (1 - FracBits)..(ExpMax - 1)
  BY <1>1, <1>2, <1>3, UnpackNormalises
<1>7. Distance \in Int /\ Distance <= ExpMax + FracBits /\ Unpack(b).exp \in Int
  BY <1>6, Widths, Fields DEF Distance
<1>8. Distance >= 0
  BY <1>7 DEF Smaller
<1>. QED BY <1>2, <1>4, <1>5, <1>7, <1>8

---------------------------------------------------------------------------
LEMMA TypeInit == Init => IInv
<1>. SUFFICES ASSUME Init PROVE IInv
  OBVIOUS
<1>1. 0 \in Unsigned
  <2>1. WordBits \in 0..MaxShift
    BY Widths
  <2>. QED BY <2>1, Pow2Positive DEF Unsigned
<1>2. SignedZero(0) \in Values
  BY Fields, Pow2Positive, Widths DEF SignedZero, Values
<1>3. 0 \in 0..(ExpMax + FracBits)
  BY Fields, Widths
<1>. QED BY <1>1, <1>2, <1>3 DEF Init, IInv, TypeOK, RemainderKept, Dividing, FlagSet

(* A residue below the divisor moves up to bit FracBits, never down.       *)
LEMMA MovesUp ==
  ASSUME NEW y \in Nat, y > 0, y < Pow2[FracBits + 1]
  PROVE  LeftShift(y) \in 0..FracBits
<1>1. FracBits + 1 <= WordBits /\ FracBits + 1 \in Nat /\ WordBits <= MaxShift
  BY Widths
<1>2. Pow2[FracBits + 1] <= Pow2[WordBits]
  BY <1>1, Widths, Pow2Monotone
<1>3. Pow2[FracBits + 1] \in Nat /\ Pow2[WordBits] \in Nat
  <2>1. FracBits + 1 \in 0..MaxShift /\ WordBits \in 0..MaxShift
    BY Widths
  <2>. QED BY <2>1, Pow2Step
<1>4. PICK h \in 0..(WordBits - 1) :
         Clz(y) = WordBits - (h + 1) /\ Pow2[h] <= y /\ y < Pow2[h + 1]
  BY <1>2, <1>3, ClzWord
<1>5. h <= FracBits
  <2>1. SUFFICES ASSUME FracBits + 1 <= h PROVE FALSE
    BY <1>4, Widths
  <2>2. h \in Nat /\ h <= MaxShift /\ h \in 0..MaxShift
    BY Widths
  <2>3. Pow2[FracBits + 1] <= Pow2[h] /\ Pow2[h] \in Nat
    BY <1>1, <2>1, <2>2, Pow2Monotone, Pow2Step
  <2>. QED BY <1>3, <1>4, <2>3
<1>. QED BY <1>4, <1>5, Widths DEF LeftShift

---------------------------------------------------------------------------
(* A step that only delivers a value and flags.                            *)
LEMMA DoneStep ==
  ASSUME IInv, NEW v \in Values, NEW flags \in SUBSET FlagSet, Done(v, flags)
  PROVE  IInv'
  BY DEF IInv, TypeOK, RemainderKept, Dividing, Done

LEMMA StartStep ==
  ASSUME IInv, Start
  PROVE  IInv'
<1>1. ~ AnyNaN /\ ~ Undefined /\ ~ IsInf(b) /\ ~ IsZero(a) /\ ~ Smaller /\ TypeOK
  BY DEF Start, IInv
<1>2. a' = a /\ b' = b /\ pc' = "loop" /\ sigA' = Sig(a) /\ k' = Distance /\ fe' = fe /\ res' = res
  BY DEF Start
<1>3. /\ Sig(a) \in Nat /\ Sig(a) < 2 * SigB /\ Sig(a) < Pow2[FracBits + 1]
      /\ Distance \in 0..(ExpMax + FracBits)
  BY <1>1, Operands
<1>4. Sig(a) \in Unsigned
  <2>1. FracBits + 1 <= WordBits /\ FracBits + 1 \in Nat /\ WordBits <= MaxShift
        /\ FracBits + 1 \in 0..MaxShift /\ WordBits \in 0..MaxShift /\ WordBits \in Nat
    BY Widths
  <2>2. Pow2[FracBits + 1] <= Pow2[WordBits]
    BY <2>1, Pow2Monotone
  <2>3. Pow2[FracBits + 1] \in Nat /\ Pow2[WordBits] \in Nat
    BY <2>1, Pow2Step
  <2>. QED BY <1>3, <2>2, <2>3 DEF Unsigned
<1>5. TypeOK'
  BY <1>1, <1>2, <1>3, <1>4 DEF TypeOK
<1>6. RemainderKept'
  BY <1>2, <1>3 DEF RemainderKept, SigB, Dividend, Distance
<1>7. Dividing'
  <2>1. Distance' = Distance /\ SigB' = SigB
    BY <1>2 DEF Distance, SigB
  <2>2. Smaller' = Smaller /\ AnyNaN' = AnyNaN /\ Undefined' = Undefined
    BY <1>2, <2>1 DEF Smaller, AnyNaN, Undefined
  <2>. QED BY <1>1, <1>2, <1>3, <2>1, <2>2 DEF Dividing
<1>. QED BY <1>5, <1>6, <1>7 DEF IInv

LEMMA IterateStep ==
  ASSUME IInv, Iterate
  PROVE  IInv'
<1>1. /\ pc = "loop" /\ TypeOK /\ Dividing
      /\ ~ AnyNaN /\ ~ Undefined /\ ~ IsInf(b) /\ ~ IsZero(a) /\ ~ Smaller /\ k <= Distance
      /\ sigA < 2 * SigB
      /\ (sigA * Pow2[k]) % SigB = Dividend % SigB
  BY DEF Iterate, IInv, Dividing, RemainderKept
<1>2. /\ SigB \in Nat /\ SigB > 0 /\ SigB < Pow2[FracBits + 1]
      /\ Distance \in 0..(ExpMax + FracBits)
  BY <1>1, Operands
<1>3. sigA \in Nat /\ k \in Nat /\ k \in 0..MaxShift /\ a.s \in {0, 1}
  BY <1>1, <1>2, Fields, Widths DEF TypeOK, Unsigned, Values
<1>4. Pow2[k] \in Nat
  BY <1>3, Pow2Step
<1>. DEFINE r == SubtractWhenFits(sigA)
<1>5. r \in Nat /\ r < SigB /\ (r * Pow2[k]) % SigB = Dividend % SigB
  <2>1. CASE sigA >= SigB
    <3>1. r = sigA - SigB /\ r \in Nat
      BY <1>2, <1>3, <2>1 DEF SubtractWhenFits
    <3>2. r * Pow2[k] = sigA * Pow2[k] - SigB * Pow2[k] /\ sigA * Pow2[k] \in Int
      BY <1>2, <1>3, <1>4, <3>1
    <3>3. (sigA * Pow2[k] - SigB * Pow2[k]) % SigB = (sigA * Pow2[k]) % SigB
      <4>. DEFINE y == sigA * Pow2[k]
                  q == Pow2[k]
      <4>1. y \in Int /\ q \in Int
        BY <1>4, <3>2
      <4>. HIDE DEF y, q
      <4>2. (y - SigB * q) % SigB = y % SigB
        BY <1>2, <4>1, ModSubtract
      <4>. QED BY <4>2 DEF y, q
    <3>. QED BY <1>1, <1>2, <1>3, <3>1, <3>2, <3>3
  <2>2. CASE ~ (sigA >= SigB)
    BY <1>1, <1>2, <1>3, <2>2 DEF SubtractWhenFits
  <2>. QED BY <2>1, <2>2
<1>6. a' = a /\ b' = b
  BY DEF Iterate, Done
<1>7. SigB' = SigB /\ Dividend' = Dividend /\ Distance' = Distance
  BY <1>6 DEF SigB, Dividend, Distance
<1>8. CASE r = 0
  <2>1. Done(SignedZero(a.s), {})
    BY <1>8 DEF Iterate
  <2>. QED BY <1>3, <2>1, SpecialResults, DoneStep
<1>9. CASE r # 0 /\ k = 0
  <2>1. pc' = "normalise" /\ sigA' = r /\ k' = k /\ fe' = fe /\ res' = res
    BY <1>9 DEF Iterate
  <2>2. r * Pow2[k] = r
    BY <1>5, <1>9, Pow2Step
  <2>3. r = Dividend % SigB
    BY <1>2, <1>5, <2>2
  <2>4. r > 0 /\ r < Pow2[FracBits + 1] /\ r <= sigA
    <3>1. FracBits + 1 \in 0..MaxShift
      BY Widths
    <3>2. Pow2[FracBits + 1] \in Nat
      BY <3>1, Pow2Step
    <3>. QED BY <1>2, <1>3, <1>5, <1>9, <3>2 DEF SubtractWhenFits
  <2>5. LeftShift(r) >= 0
    BY <1>5, <2>4, MovesUp
  <2>6. TypeOK'
    <3>1. r \in Unsigned
      <4>1. WordBits \in 0..MaxShift
        BY Widths
      <4>2. Pow2[WordBits] \in Nat /\ sigA < Pow2[WordBits]
        BY <4>1, <1>1, Pow2Step DEF TypeOK, Unsigned
      <4>. QED BY <1>3, <1>5, <2>4, <4>2 DEF Unsigned
    <3>. QED BY <1>1, <1>6, <2>1, <3>1 DEF TypeOK
  <2>7. RemainderKept'
    BY <1>7, <2>1, <2>3, <2>4, <2>5 DEF RemainderKept, LeftShift
  <2>8. Dividing'
    BY <1>1, <1>6, <1>7, <2>1 DEF Dividing, AnyNaN, Undefined, Smaller, Distance
  <2>. QED BY <2>6, <2>7, <2>8 DEF IInv
<1>10. CASE r # 0 /\ k # 0
  <2>1. pc' = "loop" /\ sigA' = 2 * r /\ k' = k - 1 /\ fe' = fe /\ res' = res
    BY <1>10 DEF Iterate, Continue
  <2>2. k - 1 \in 0..(ExpMax + FracBits) /\ k - 1 <= Distance /\ k - 1 \in Nat
    BY <1>1, <1>2, <1>3, <1>10, Widths, Fields
  <2>3. Pow2[k] = 2 * Pow2[k - 1] /\ Pow2[k - 1] \in Nat
    <3>1. (k - 1) + 1 = k /\ (k - 1) + 1 <= MaxShift /\ k - 1 \in 0..MaxShift
      BY <1>3, <2>2, Widths
    <3>2. Pow2[(k - 1) + 1] = 2 * Pow2[k - 1]
      BY <2>2, <3>1, Pow2Step
    <3>. QED BY <3>1, <3>2, Pow2Step
  <2>4. (2 * r) * Pow2[k - 1] = r * Pow2[k]
    BY <1>5, <2>3
  <2>5. 2 * r \in Unsigned
    <3>1. /\ FracBits + 1 \in Nat /\ WordBits \in Nat /\ FracBits + 1 < WordBits /\ WordBits <= MaxShift
          /\ FracBits + 1 \in 0..MaxShift /\ WordBits \in 0..MaxShift
      BY Widths
    <3>2. 2 * Pow2[FracBits + 1] <= Pow2[WordBits]
      BY <3>1, Pow2Monotone
    <3>3. Pow2[FracBits + 1] \in Nat /\ Pow2[WordBits] \in Nat
      BY <3>1, Pow2Step
    <3>. QED BY <1>2, <1>5, <3>2, <3>3 DEF Unsigned
  <2>6. TypeOK'
    BY <1>1, <1>6, <2>1, <2>2, <2>5 DEF TypeOK
  <2>7. RemainderKept'
    BY <1>2, <1>5, <1>7, <2>1, <2>4 DEF RemainderKept
  <2>8. Dividing'
    BY <1>1, <1>6, <1>7, <2>1, <2>2 DEF Dividing, AnyNaN, Undefined, Smaller, Distance
  <2>. QED BY <2>6, <2>7, <2>8 DEF IInv
<1>. QED BY <1>8, <1>9, <1>10

LEMMA NormaliseStep ==
  ASSUME IInv, Normalise
  PROVE  IInv'
<1>. DEFINE n == LeftShift(sigA)
            sig == IF n < 0 THEN sigA \div Pow2[-n] ELSE sigA * Pow2[n]
            r == RoundAndPack(a.s, Unpack(b).exp - n, sig * Pow2[GuardBits], "RNE")
<1>1. /\ pc = "normalise" /\ TypeOK /\ ~ AnyNaN /\ ~ Undefined /\ ~ IsInf(b) /\ ~ IsZero(a) /\ ~ Smaller
      /\ sigA = Dividend % SigB /\ sigA > 0
  BY DEF Normalise, IInv, Dividing, RemainderKept
<1>2. /\ SigB \in Nat /\ SigB > 0 /\ SigB < Pow2[FracBits + 1] /\ Unpack(b).exp \in Int
      /\ Sig(a) \in Nat /\ Distance \in 0..(ExpMax + FracBits)
  BY <1>1, Operands
<1>3. Pow2[FracBits + 1] \in Nat /\ Pow2[GuardBits] \in Nat /\ Pow2[Distance] \in Nat
  <2>1. FracBits + 1 \in 0..MaxShift /\ GuardBits \in 0..MaxShift /\ Distance \in 0..MaxShift
    BY <1>2, Widths, Fields
  <2>. QED BY <2>1, Pow2Step
<1>4. sigA \in Nat /\ sigA < SigB
  BY <1>1, <1>2, <1>3 DEF Dividend
<1>5. n \in 0..FracBits
  <2>1. sigA < Pow2[FracBits + 1]
    BY <1>2, <1>3, <1>4
  <2>. QED BY <1>1, <1>4, <2>1, MovesUp
<1>6. sig * Pow2[GuardBits] \in Nat
  <2>1. n \in 0..MaxShift /\ ~ (n < 0)
    BY <1>5, Widths
  <2>2. Pow2[n] \in Nat
    BY <2>1, Pow2Step
  <2>3. sig \in Nat
    BY <1>4, <2>1, <2>2
  <2>. QED BY <1>3, <2>3
<1>7. a.s \in {0, 1} /\ Unpack(b).exp - n \in Int /\ "RNE" \in Modes
  BY <1>1, <1>2, <1>5, Widths DEF TypeOK, Values, Modes
<1>8. r.res \in Values /\ r.fe \in SUBSET FlagSet
  <2>. HIDE DEF n, sig
  <2>. QED BY <1>6, <1>7, RoundAndPackType
<1>9. Done(r.res, r.fe)
  BY DEF Normalise
<1>. HIDE DEF r
<1>. QED BY <1>8, <1>9, DoneStep

LEMMA Inductive == IInv /\ [Next]_vars => IInv'
<1>. SUFFICES ASSUME IInv, [Next]_vars PROVE IInv'
  OBVIOUS
<1>1. a \in Values /\ b \in Values
  BY DEF IInv, TypeOK
<1>2. {"invalid"} \in SUBSET FlagSet /\ {} \in SUBSET FlagSet
  BY DEF FlagSet
<1>3. CASE NaNOperand
  BY <1>1, <1>2, <1>3, SpecialResults, DoneStep DEF NaNOperand
<1>4. CASE InvalidOperand
  BY <1>2, <1>4, SpecialResults, DoneStep DEF InvalidOperand
<1>5. CASE AlreadyReduced
  BY <1>1, <1>2, <1>5, DoneStep DEF AlreadyReduced
<1>6. CASE Start
  BY <1>6, StartStep
<1>7. CASE Iterate
  BY <1>7, IterateStep
<1>8. CASE Normalise
  BY <1>8, NormaliseStep
<1>9. CASE UNCHANGED vars
  BY <1>9 DEF vars, IInv, TypeOK, RemainderKept, Dividing, AnyNaN, Undefined, Smaller,
              Distance, SigB, Dividend, LeftShift
<1>. QED BY <1>3, <1>4, <1>5, <1>6, <1>7, <1>8, <1>9 DEF Next

---------------------------------------------------------------------------
(* The inductive invariant of the division, for every format.              *)
THEOREM Invariance == Spec => []IInv
  BY TypeInit, Inductive, PTL DEF Spec

(* Every word of sf64_rem stays within its width and its result is a value *)
(* of the format.                                                          *)
THEOREM TypeCorrect == Spec => []TypeOK
<1>1. IInv => TypeOK
  BY DEF IInv
<1>. QED BY <1>1, Invariance, PTL

(* After any number of iterations what is left of the dividend is          *)
(* congruent to it modulo the divisor; when the loop ends it is the        *)
(* remainder.                                                              *)
THEOREM RemainderAlwaysKept == Spec => []RemainderKept
<1>1. IInv => RemainderKept
  BY DEF IInv
<1>. QED BY <1>1, Invariance, PTL
=============================================================================

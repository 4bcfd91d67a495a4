-------------------------- MODULE Binary256Proofs ---------------------------
(***************************************************************************)
(* Proofs about Binary256, for every format and every call.  Between two   *)
(* digits of a quotient, a root or a remainder nothing is lost, and no     *)
(* shift of the loops pushes a bit out of the big integer (IInv).  Hence,  *)
(* whatever waits for pack_scaled rounds to the exact value of the call,   *)
(* and what is delivered is that value, with its flags (RInv), or the      *)
(* number that rint and the conversions promise (CInv).                    *)
(***************************************************************************)
EXTENDS Binary256Invariants

---------------------------------------------------------------------------
LEMMA BigWidths ==
  /\ BigBits \in Nat /\ BigBits < MaxShift /\ BigBits >= 2 * FracBits + 8
  /\ \A n \in 0..(BigBits + 1) : n \in Nat /\ n <= MaxShift /\ Pow2[n] \in Nat /\ Pow2[n] >= 1
<1>1. BigBits \in Nat /\ BigBits < MaxShift /\ BigBits >= 2 * FracBits + 8
  BY BigAssumption DEF BigAssumption
<1>2. \A n \in 0..(BigBits + 1) : n \in 0..MaxShift
  BY <1>1, Widths
<1>. QED BY <1>1, <1>2, Pow2Positive

(* A left shift never makes more of a number than it is, and it is exact   *)
(* if the result fits.                                                     *)
LEMMA ShlBound ==
  ASSUME NEW x \in Nat, NEW n \in Nat, n < BigBits
  PROVE  /\ Shl(x, n) \in Nat /\ x * Pow2[n] \in Nat /\ Shl(x, n) <= x * Pow2[n]
         /\ x * Pow2[n] < Pow2[BigBits] => Shl(x, n) = x * Pow2[n]
<1>1. n \in 0..(BigBits + 1) /\ BigBits \in 0..(BigBits + 1)
  BY BigWidths
<1>2. Pow2[n] \in Nat /\ Pow2[BigBits] \in Nat /\ Pow2[BigBits] >= 1
  BY <1>1, BigWidths
<1>. DEFINE y == x * Pow2[n]
            P == Pow2[BigBits]
<1>3. y \in Nat
  BY <1>2
<1>4. Shl(x, n) = y % P
  BY BigWidths DEF Shl
<1>5. P \in Nat /\ P >= 1
  BY <1>2
<1>. HIDE DEF y, P
<1>6. y % P \in Nat /\ y % P <= y /\ (y < P => y % P = y)
  BY <1>3, <1>5
<1>. QED BY <1>3, <1>4, <1>6 DEF y, P

(* A number below a power of two stays below the power it is shifted to.   *)
LEMMA ShlFits ==
  ASSUME NEW x \in Nat, NEW n \in Nat, NEW b \in Nat, x < Pow2[b], b + n <= BigBits, n < BigBits
  PROVE  Shl(x, n) = x * Pow2[n] /\ x * Pow2[n] \in Nat /\ x * Pow2[n] < Pow2[b + n]
<1>1. b + n <= MaxShift /\ b \in 0..(BigBits + 1) /\ n \in 0..(BigBits + 1)
      /\ b + n \in 0..(BigBits + 1) /\ b + n \in Nat /\ BigBits \in Nat /\ BigBits <= MaxShift
      /\ BigBits \in 0..(BigBits + 1)
  BY BigWidths
<1>2. Pow2[b + n] = Pow2[b] * Pow2[n]
  BY <1>1, Pow2Sum
<1>3. Pow2[b] \in Nat /\ Pow2[n] \in Nat /\ Pow2[n] >= 1 /\ Pow2[b + n] \in Nat
      /\ Pow2[BigBits] \in Nat
  BY <1>1, BigWidths
<1>4. x * Pow2[n] \in Nat /\ x * Pow2[n] < Pow2[b] * Pow2[n]
  BY <1>3
<1>5. Pow2[b + n] <= Pow2[BigBits]
  BY <1>1, Pow2Monotone
<1>. QED BY <1>2, <1>3, <1>4, <1>5, ShlBound

(* The significand of a regular value is normalised.                       *)
LEMMA SigWidth ==
  ASSUME NEW v \in Values, Regular(v)
  PROVE  /\ Sig(v) \in Nat /\ Pow2[FracBits] <= Sig(v) /\ Sig(v) < Pow2[FracBits + 1]
         /\ Exponent(v) \in (1 - Bias - FracBits)..Bias
<1>1. /\ v.e \in 0..ExpMax /\ v.f \in Nat /\ v.f < Pow2[FracBits]
  BY Fields DEF Values
<1>2. v.e # ExpMax /\ (v.e = 0 => v.f # 0)
  BY <1>1 DEF Regular, Finite, IsNaN, IsInf, IsZero
<1>3. Pow2[FracBits] \in Nat /\ Pow2[FracBits + 1] = 2 * Pow2[FracBits]
  <2>1. FracBits + 1 <= MaxShift /\ FracBits \in 0..MaxShift /\ FracBits \in Nat
    BY Widths
  <2>. QED BY <2>1, Pow2Step
<1>4. CASE v.e = 0
  <2>1. Pow2[FracBits] <= Pow2[WordBits] /\ Pow2[WordBits] \in Nat
    <3>1. WordBits \in 0..MaxShift
      BY Widths
    <3>. QED BY <3>1, Pow2Monotone, Widths, Pow2Step
  <2>2. PICK h \in 0..(WordBits - 1) : Pow2[h] <= v.f /\ v.f < Pow2[h + 1]
    BY <1>1, <1>2, <1>3, <1>4, <2>1, ClzWord
  <2>3. \A n \in Nat : n <= MaxShift /\ Pow2[n] <= v.f => n < FracBits
    <3>. SUFFICES ASSUME NEW n \in Nat, n <= MaxShift, Pow2[n] <= v.f, ~ (n < FracBits)
                  PROVE  FALSE
      OBVIOUS
    <3>1. Pow2[FracBits] <= Pow2[n]
      BY Pow2Monotone, Widths
    <3>2. Pow2[n] \in Nat
      BY Pow2Step, Widths
    <3>. QED BY <1>1, <1>3, <3>1, <3>2
  <2>4. h \in 0..(BigBits - 1)
    BY <2>2, <2>3, Widths, BigWidths
  <2>5. /\ Highest(v.f) \in 0..(BigBits - 1)
        /\ Pow2[Highest(v.f)] <= v.f /\ v.f < Pow2[Highest(v.f) + 1]
    BY <2>2, <2>4 DEF Highest
  <2>. DEFINE n == Highest(v.f)
  <2>. HIDE DEF n
  <2>6. n \in Nat /\ n < FracBits /\ Pow2[n] <= v.f /\ v.f < Pow2[n + 1]
    BY <2>3, <2>5, BigWidths DEF n
  <2>7. /\ v.f * Pow2[FracBits - n] \in Nat
        /\ Pow2[FracBits] <= v.f * Pow2[FracBits - n]
        /\ v.f * Pow2[FracBits - n] < Pow2[FracBits + 1]
    BY <1>1, <2>6, ShiftToTop, Widths
  <2>8. Sig(v) = v.f * Pow2[FracBits - n]
    <3>1. FracBits - n \in Nat /\ FracBits - n < BigBits /\ n + 1 \in Nat
          /\ (n + 1) + (FracBits - n) <= BigBits
      BY <2>6, Widths, BigWidths
    <3>2. Shl(v.f, FracBits - n) = v.f * Pow2[FracBits - n]
      BY <1>1, <2>6, <3>1, ShlFits
    <3>. QED BY <1>4, <3>2 DEF Sig, n
  <2>9. Exponent(v) = 1 - Bias - (FracBits - n)
    BY <1>4 DEF Exponent, Emin, n
  <2>. QED BY <2>6, <2>7, <2>8, <2>9, Widths, Fields
<1>5. CASE v.e # 0
  <2>1. Sig(v) = v.f + ImplicitBit /\ Exponent(v) = v.e - Bias
    BY <1>5 DEF Sig, Exponent
  <2>. QED BY <1>1, <1>2, <1>3, <1>5, <2>1, Widths, Fields
<1>. QED BY <1>4, <1>5

(* The operands of the loops are values of the format.                     *)
LEMMA LoopOperands ==
  ASSUME call \in Calls, call.op \in {"div", "remainder", "sqrt"}
  PROVE  A \in Values /\ B = call.b /\ (call.op # "sqrt" => B \in Values)
<1>1. call.a \in Values /\ (call.op # "sqrt" => call.b \in Values)
  BY DEF Calls, Call, Arithmetic
<1>. QED BY <1>1 DEF A, B

(* Two significands differ by less than a factor of two.                   *)
LEMMA Comparable ==
  ASSUME NEW v \in Values, NEW w \in Values, Regular(v), Regular(w)
  PROVE  /\ Sig(v) \in Nat /\ Sig(w) \in Nat /\ Sig(w) >= 1 /\ Sig(v) < 2 * Sig(w)
         /\ Sig(v) < Pow2[FracBits + 1]
<1>1. Pow2[FracBits + 1] = 2 * Pow2[FracBits] /\ Pow2[FracBits] \in Nat /\ Pow2[FracBits] >= 1
  <2>1. FracBits + 1 <= MaxShift /\ FracBits \in 0..MaxShift /\ FracBits \in Nat
    BY Widths
  <2>. QED BY <2>1, Pow2Step, Pow2Positive
<1>. QED BY <1>1, SigWidth

(* One subtraction reduces the remainder below the divisor; its double is  *)
(* exact.                                                                  *)
LEMMA ReducedOnce ==
  ASSUME B \in Values, Regular(B), rem \in Nat, rem < 2 * Sig(B)
  PROVE  /\ Reduced \in Nat /\ Reduced < Sig(B) /\ Sig(B) \in Nat
         /\ rem = (IF Fits THEN 1 ELSE 0) * Sig(B) + Reduced
         /\ Shl(Reduced, 1) = 2 * Reduced
<1>1. Sig(B) \in Nat /\ Sig(B) < Pow2[FracBits + 1]
  BY SigWidth
<1>2. /\ Reduced \in Nat /\ Reduced < Sig(B)
      /\ rem = (IF Fits THEN 1 ELSE 0) * Sig(B) + Reduced
  BY <1>1 DEF Reduced, Fits
<1>3. FracBits + 1 \in Nat /\ (FracBits + 1) + 1 <= BigBits /\ 1 < BigBits
      /\ Pow2[FracBits + 1] \in Nat
  BY Widths, BigWidths
<1>4. Reduced < Pow2[FracBits + 1]
  BY <1>1, <1>2, <1>3
<1>5. Shl(Reduced, 1) = Reduced * Pow2[1]
  BY <1>2, <1>3, <1>4, ShlFits
<1>. QED BY <1>1, <1>2, <1>5, SmallPowers

---------------------------------------------------------------------------
(* The dividend is less than twice the divisor.                            *)
LEMMA DividendWidth ==
  ASSUME A \in Values, B \in Values, Regular(A), Regular(B)
  PROVE  Dividend \in Nat /\ Dividend < 2 * Sig(B)
<1>1. /\ Sig(A) \in Nat /\ Sig(B) \in Nat /\ Sig(A) < 2 * Sig(B)
      /\ Sig(A) < Pow2[FracBits + 1]
  BY Comparable
<1>2. CASE Sig(A) < Sig(B)
  <2>1. FracBits + 1 \in Nat /\ (FracBits + 1) + 1 <= BigBits /\ 1 < BigBits
    BY Widths, BigWidths
  <2>2. Shl(Sig(A), 1) = Sig(A) * Pow2[1]
    BY <1>1, <2>1, ShlFits
  <2>. QED BY <1>1, <1>2, <2>2, SmallPowers DEF Dividend
<1>3. CASE ~ (Sig(A) < Sig(B))
  BY <1>1, <1>3 DEF Dividend
<1>. QED BY <1>2, <1>3

(* What depends on the call alone.                                         *)
LEMMA CallKept ==
  ASSUME call' = call
  PROVE  /\ A' = A /\ B' = B /\ Sig(A)' = Sig(A) /\ Sig(B)' = Sig(B)
         /\ Regular(A)' = Regular(A) /\ Regular(B)' = Regular(B)
         /\ Dividend' = Dividend /\ Radicand' = Radicand /\ Distance' = Distance
<1>1. A' = A /\ B' = B
  BY DEF A, B
<1>2. Sig(A)' = Sig(A) /\ Sig(B)' = Sig(B) /\ Exponent(A)' = Exponent(A) /\ Exponent(B)' = Exponent(B)
      /\ Regular(A)' = Regular(A) /\ Regular(B)' = Regular(B)
  BY <1>1
<1>3. Dividend' = Dividend /\ Distance' = Distance
  BY <1>2 DEF Dividend, Distance
<1>4. Radicand' = Radicand
  BY <1>2 DEF Radicand, OddExponent
<1>. QED BY <1>1, <1>2, <1>3, <1>4

LEMMA StartDivisionStep ==
  ASSUME IInv, StartDivision
  PROVE  IInv'
<1>1. /\ call.op = "div" /\ A \in Values /\ B \in Values /\ Regular(A) /\ Regular(B)
      /\ call \in Calls
  <2>1. call.op = "div" /\ call \in Calls /\ Regular(A) /\ Regular(B)
    BY DEF IInv, StartDivision, Numbers, Is
  <2>. QED BY <2>1, LoopOperands
<1>2. /\ call' = call /\ pc' = "divide" /\ rem' = Dividend /\ q' = 0 /\ pos' = FracBits + 3
  BY DEF StartDivision, Loop
<1>3. Dividend \in Nat /\ Dividend < 2 * Sig(B) /\ Sig(B) \in Nat
  BY <1>1, DividendWidth, SigWidth
<1>4. Dividing'
  BY <1>1, <1>2, <1>3, CallKept, Widths DEF Dividing, Counting
<1>5. DivisionKept'
  <2>1. Pow2[(FracBits + 3) + 1] \in Nat /\ Pow2[(FracBits + 3) + 1] >= 1
    BY Widths, BigWidths
  <2>2. 0 % Pow2[(FracBits + 3) + 1] = 0 /\ 0 \div Pow2[(FracBits + 3) + 1] = 0
    BY <2>1
  <2>3. FracBits + 3 - (FracBits + 3) = 0
    BY Widths
  <2>4. Dividend * 1 = 2 * 0 * Sig(B) + Dividend
    BY <1>3
  <2>. QED BY <1>2, <1>3, <2>2, <2>3, <2>4, CallKept, SmallPowers DEF DivisionKept
<1>. QED BY <1>1, <1>2, <1>4, <1>5 DEF IInv, DigitsKept, Rooting, Reducing, RootKept, ReductionKept

LEMMA DivideDigitStep ==
  ASSUME IInv, DivideDigit, pos # 0
  PROVE  IInv'
<1>1. /\ pc = "divide" /\ call.op = "div" /\ Regular(A) /\ Regular(B) /\ call \in Calls
      /\ rem \in Nat /\ q \in Nat /\ pos \in 0..(FracBits + 3)
      /\ rem < 2 * Sig(B) /\ q % Pow2[pos + 1] = 0
      /\ Dividend * Pow2[FracBits + 3 - pos] = 2 * (q \div Pow2[pos + 1]) * Sig(B) + rem
  BY DEF IInv, DivideDigit, Dividing, Counting, DigitsKept, DivisionKept
<1>2. A \in Values /\ B \in Values
  BY <1>1, LoopOperands
<1>. DEFINE bit == IF Fits THEN 1 ELSE 0
            p == Pow2[pos]
            n == Pow2[FracBits + 3 - pos]
<1>3. /\ call' = call /\ pc' = "divide" /\ rem' = Shl(Reduced, 1) /\ pos' = pos - 1
      /\ q' = IF Fits THEN q + Pow2[pos] ELSE q
  BY DEF DivideDigit, Loop
<1>4. /\ Reduced \in Nat /\ Reduced < Sig(B) /\ Sig(B) \in Nat
      /\ rem = bit * Sig(B) + Reduced /\ Shl(Reduced, 1) = 2 * Reduced
  BY <1>1, <1>2, ReducedOnce
<1>5. /\ p \in Nat /\ p >= 1 /\ Pow2[pos + 1] = 2 * p
      /\ n \in Nat /\ Pow2[FracBits + 3 - pos'] = 2 * n
  <2>1. /\ pos \in Nat /\ pos + 1 <= MaxShift /\ pos \in 0..(BigBits + 1)
        /\ FracBits + 3 - pos \in Nat /\ (FracBits + 3 - pos) + 1 <= MaxShift
        /\ FracBits + 3 - pos \in 0..(BigBits + 1)
        /\ FracBits + 3 - pos' = (FracBits + 3 - pos) + 1
    BY <1>1, <1>3, Widths, BigWidths
  <2>2. Pow2[pos + 1] = 2 * Pow2[pos]
    BY <2>1, Pow2Step
  <2>3. Pow2[(FracBits + 3 - pos) + 1] = 2 * Pow2[FracBits + 3 - pos]
    BY <2>1, Pow2Step
  <2>. QED BY <2>1, <2>2, <2>3, BigWidths
<1>6. Dividend \in Nat
  BY <1>1, <1>2, DividendWidth
<1>7. bit \in {0, 1} /\ q' = q + bit * p
  BY <1>1, <1>3, <1>5
<1>8. /\ q % (2 * p) = 0
      /\ Dividend * n = 2 * (q \div (2 * p)) * Sig(B) + rem
  BY <1>1, <1>5
<1>. HIDE DEF bit, p, n
<1>9. /\ q' \in Nat /\ q' % p = 0
      /\ Dividend * (2 * n) = 2 * (q' \div p) * Sig(B) + 2 * Reduced
  <2>. DEFINE d == Dividend
              s == Sig(B)
              r1 == Reduced
  <2>1. /\ n \in Nat /\ p \in Nat /\ p >= 1 /\ q \in Nat /\ q % (2 * p) = 0
        /\ d \in Nat /\ s \in Nat /\ rem \in Nat /\ r1 \in Nat /\ bit \in {0, 1}
        /\ d * n = 2 * (q \div (2 * p)) * s + rem /\ rem = bit * s + r1
    BY <1>1, <1>4, <1>5, <1>6, <1>7, <1>8
  <2>. HIDE DEF d, s, r1
  <2>. DEFINE P == 2 * p
              k == q \div P
              m == 2 * k + bit
  <2>2. k \in Nat /\ q = P * k /\ P \in Nat /\ P >= 1
    <3>1. P \in Nat /\ P >= 1 /\ q % P = 0
      BY <2>1
    <3>. HIDE DEF P
    <3>. QED BY <2>1, <3>1
  <2>3. d * n = 2 * k * s + rem
    BY <2>1
  <2>. HIDE DEF k
  <2>4. m \in Nat /\ q + bit * p = p * m
    <3>1. p * m = 2 * p * k + bit * p
      BY <2>1, <2>2
    <3>. QED BY <2>1, <2>2, <3>1
  <2>5. d * (2 * n) = 2 * m * s + 2 * r1
    <3>1. d * (2 * n) = 2 * (d * n)
      BY <2>1
    <3>2. 2 * m * s = 4 * (k * s) + 2 * (bit * s) /\ 2 * k * s = 2 * (k * s)
          /\ k * s \in Nat /\ bit * s \in Nat
      BY <2>1, <2>2
    <3>. QED BY <2>1, <2>3, <3>1, <3>2
  <2>. HIDE DEF m, P
  <2>6. p * m \in Nat /\ (p * m) % p = 0 /\ (p * m) \div p = m
    BY <2>1, <2>4
  <2>. QED BY <1>7, <2>4, <2>5, <2>6 DEF d, s, r1
<1>10. pos' \in 0..(FracBits + 3) /\ pos' + 1 = pos
  BY <1>1, <1>3, Widths
<1>11. rem' \in Nat /\ rem' = 2 * Reduced /\ rem' < 2 * Sig(B)
  BY <1>3, <1>4
<1>12. Dividing'
  BY <1>1, <1>3, <1>9, <1>10, <1>11, CallKept DEF Dividing, Counting
<1>13. DivisionKept'
  <2>1. Pow2[pos' + 1] = p /\ Dividend' = Dividend /\ Sig(B)' = Sig(B)
    BY <1>3, <1>10, CallKept DEF p
  <2>. QED BY <1>5, <1>9, <1>11, <2>1 DEF DivisionKept
<1>. QED BY <1>1, <1>3, <1>12, <1>13 DEF IInv, DigitsKept, Rooting, Reducing, RootKept, ReductionKept

---------------------------------------------------------------------------
(* A digit of a root takes two bits of the radicand.                       *)
LEMMA RadicandBound ==
  ASSUME A \in Values, Regular(A)
  PROVE  Radicand \in Nat /\ Radicand < Pow2[2 * FracBits + 8]
<1>1. Sig(A) \in Nat /\ Sig(A) < Pow2[FracBits + 1] /\ Exponent(A) \in Int
  BY SigWidth, Fields, Widths
<1>2. OddExponent \in {0, 1}
  BY <1>1 DEF OddExponent
<1>. DEFINE x == Shl(Sig(A), OddExponent)
<1>3. x \in Nat /\ x < Pow2[FracBits + 2]
  <2>1. /\ FracBits + 1 \in Nat /\ (FracBits + 1) + OddExponent <= BigBits /\ OddExponent \in Nat
        /\ OddExponent < BigBits /\ (FracBits + 1) + OddExponent <= FracBits + 2
        /\ FracBits + 2 <= MaxShift /\ FracBits + 2 \in Nat
        /\ (FracBits + 1) + OddExponent \in 0..(BigBits + 1) /\ FracBits + 2 \in 0..(BigBits + 1)
    BY <1>2, Widths, BigWidths
  <2>2. x \in Nat /\ x < Pow2[(FracBits + 1) + OddExponent]
    BY <1>1, <2>1, ShlFits
  <2>3. Pow2[(FracBits + 1) + OddExponent] <= Pow2[FracBits + 2]
    BY <2>1, Pow2Monotone
  <2>4. Pow2[(FracBits + 1) + OddExponent] \in Nat /\ Pow2[FracBits + 2] \in Nat
    BY <2>1, BigWidths
  <2>. HIDE DEF x
  <2>. QED BY <2>2, <2>3, <2>4
<1>. HIDE DEF x
<1>4. /\ FracBits + 2 \in Nat /\ FracBits + 6 \in Nat /\ FracBits + 6 < BigBits
      /\ (FracBits + 2) + (FracBits + 6) = 2 * FracBits + 8
      /\ (FracBits + 2) + (FracBits + 6) <= BigBits
  BY Widths, BigWidths
<1>5. /\ Shl(x, FracBits + 6) = x * Pow2[FracBits + 6] /\ x * Pow2[FracBits + 6] \in Nat
      /\ x * Pow2[FracBits + 6] < Pow2[(FracBits + 2) + (FracBits + 6)]
  BY <1>3, <1>4, ShlFits
<1>. QED BY <1>4, <1>5 DEF Radicand, x

LEMMA StartRootStep ==
  ASSUME IInv, StartRoot
  PROVE  IInv'
<1>1. /\ call.op = "sqrt" /\ A \in Values /\ Regular(A) /\ A.s = 0 /\ call \in Calls
  <2>1. call.op = "sqrt" /\ call \in Calls /\ Regular(A) /\ A.s = 0
    BY DEF IInv, StartRoot, Is
  <2>. QED BY <2>1, LoopOperands
<1>2. call' = call /\ pc' = "root" /\ rem' = 0 /\ q' = 0 /\ pos' = FracBits + 3
  BY DEF StartRoot, Loop
<1>3. Radicand \in Nat /\ Radicand < Pow2[2 * FracBits + 8]
  BY <1>1, RadicandBound
<1>4. Rooting'
  <2>1. FracBits + 3 - (FracBits + 3) = 0 /\ FracBits + 3 \in Nat
    BY Widths
  <2>. QED BY <1>1, <1>2, <2>1, CallKept, SmallPowers DEF Rooting, Counting
<1>5. RootKept'
  <2>1. 2 * ((FracBits + 3) + 1) = 2 * FracBits + 8 /\ 2 * FracBits + 8 \in 0..(BigBits + 1)
    BY Widths, BigWidths
  <2>. DEFINE P == Pow2[2 * FracBits + 8]
  <2>2. P \in Nat /\ P >= 1 /\ Radicand < P
    BY <1>3, <2>1, BigWidths
  <2>3. Radicand \div P = 0
    <3>. HIDE DEF P
    <3>. QED BY <1>3, <2>2
  <2>. QED BY <1>2, <2>1, <2>3, CallKept DEF RootKept
<1>. QED BY <1>1, <1>2, <1>4, <1>5 DEF IInv, DigitsKept, Dividing, Reducing, DivisionKept, ReductionKept

LEMMA RootDigitStep ==
  ASSUME IInv, RootDigit, pos # 0
  PROVE  IInv'
<1>1. /\ pc = "root" /\ call.op = "sqrt" /\ Regular(A) /\ A.s = 0 /\ call \in Calls
      /\ rem \in Nat /\ q \in Nat /\ pos \in 0..(FracBits + 3)
      /\ q < Pow2[FracBits + 3 - pos] /\ rem <= 2 * q
      /\ q * q + rem = Radicand \div Pow2[2 * (pos + 1)]
  BY DEF IInv, RootDigit, Rooting, Counting, DigitsKept, RootKept
<1>2. A \in Values
  BY <1>1, LoopOperands
<1>. DEFINE n == FracBits + 3 - pos
            p == (Radicand \div Pow2[2 * pos]) % 4
            c == Radicand \div Pow2[2 * pos + 2]
            e == 4 * rem + p
            t == 4 * q + 1
<1>3. /\ n \in Nat /\ n <= FracBits + 3 /\ 2 * pos \in Nat /\ 2 * pos + 2 <= MaxShift
      /\ 2 * (pos + 1) = 2 * pos + 2 /\ pos - 1 \in 0..(FracBits + 3)
      /\ 2 * ((pos - 1) + 1) = 2 * pos /\ FracBits + 3 - (pos - 1) = n + 1
  BY <1>1, Widths, BigWidths
<1>4. /\ p \in 0..3 /\ c \in Nat /\ Radicand \div Pow2[2 * pos] = 4 * c + p
  <2>1. Radicand \in Nat
    BY <1>2, <1>1, RadicandBound
  <2>. QED BY <1>3, <2>1, TwoBits
<1>5. c = q * q + rem
  BY <1>1, <1>3
<1>6. Shl(rem, 2) = 4 * rem /\ Shl(q, 2) = 4 * q /\ Shl(q, 1) = 2 * q /\ Pow2[n + 1] = 2 * Pow2[n]
      /\ Pow2[n] \in Nat
  <2>1. /\ n + 1 \in Nat /\ (n + 1) + 2 <= BigBits /\ n + 2 <= BigBits /\ n + 1 <= BigBits
        /\ 2 < BigBits /\ 1 < BigBits /\ n + 1 <= MaxShift /\ n \in 0..MaxShift
    BY <1>3, Widths, BigWidths
  <2>2. Pow2[n + 1] = 2 * Pow2[n] /\ Pow2[n] \in Nat
    BY <1>3, <2>1, Pow2Step
  <2>3. rem < Pow2[n + 1] /\ q < Pow2[n]
    BY <1>1, <2>2
  <2>. HIDE DEF n
  <2>4. Shl(rem, 2) = rem * Pow2[2]
    BY <1>1, <2>1, <2>3, ShlFits
  <2>5. Shl(q, 2) = q * Pow2[2] /\ Shl(q, 1) = q * Pow2[1]
    BY <1>1, <1>3, <2>1, <2>3, ShlFits
  <2>. QED BY <1>1, <2>2, <2>4, <2>5, SmallPowers
<1>7. /\ call' = call /\ pc' = "root" /\ pos' = pos - 1
      /\ rem' = IF e >= t THEN e - t ELSE e
      /\ q' = 2 * q + (IF e >= t THEN 1 ELSE 0)
  <2>1. Trial = t
    BY <1>6 DEF Trial
  <2>. HIDE DEF t
  <2>. QED BY <1>6, <2>1 DEF RootDigit, Loop
<1>8. \/ e >= t /\ rem' = e - t /\ q' = 2 * q + 1
      \/ e < t /\ rem' = e /\ q' = 2 * q
  <2>1. e \in Nat /\ t \in Nat
    BY <1>1, <1>4
  <2>. HIDE DEF e, t
  <2>. QED BY <1>1, <1>7, <2>1
<1>. HIDE DEF n, p, c
<1>9. /\ rem' \in Nat /\ q' \in Nat /\ rem' <= 2 * q'
      /\ 4 * c + p = q' * q' + rem'
  BY <1>1, <1>4, <1>5, <1>8, DigitKept
<1>10. q' < Pow2[n + 1]
  <2>1. q < Pow2[n] /\ q' <= 2 * q + 1
    BY <1>1, <1>8 DEF n
  <2>. QED BY <1>1, <1>6, <1>9, <2>1
<1>11. Rooting'
  <2>1. FracBits + 3 - pos' = n + 1 /\ pos' \in 0..(FracBits + 3)
    BY <1>3, <1>7
  <2>. QED BY <1>1, <1>7, <1>9, <1>10, <2>1, CallKept DEF Rooting, Counting
<1>12. RootKept'
  <2>1. 2 * (pos' + 1) = 2 * pos /\ Radicand' = Radicand
    BY <1>3, <1>7, CallKept
  <2>. QED BY <1>4, <1>9, <2>1 DEF RootKept
<1>. QED BY <1>1, <1>7, <1>11, <1>12
        DEF IInv, DigitsKept, Dividing, Reducing, DivisionKept, ReductionKept

---------------------------------------------------------------------------
LEMMA StartReductionStep ==
  ASSUME IInv, StartReduction
  PROVE  IInv'
<1>1. /\ call.op = "remainder" /\ A \in Values /\ B \in Values /\ Regular(A) /\ Regular(B)
      /\ call \in Calls /\ Distance >= 0
  <2>1. call.op = "remainder" /\ call \in Calls /\ Regular(A) /\ Regular(B) /\ Distance >= 0
    BY DEF IInv, StartReduction, RegularRemainder, Numbers, Is
  <2>. QED BY <2>1, LoopOperands
<1>2. call' = call /\ pc' = "reduce" /\ rem' = Sig(A) /\ q' = 0 /\ pos' = Distance
  BY DEF StartReduction, Loop
<1>3. Sig(A) \in Nat /\ Sig(A) < 2 * Sig(B) /\ Sig(B) \in Nat
  BY <1>1, Comparable
<1>4. Distance \in Nat
  BY <1>1, SigWidth, Fields, Widths DEF Distance
<1>5. Reducing' /\ ReductionKept'
  <2>1. ~ (Distance < Distance) /\ Distance \in 0..Distance
    BY <1>4
  <2>. QED BY <1>1, <1>2, <1>3, <2>1, CallKept DEF Reducing, Counting, ReductionKept
<1>. QED BY <1>1, <1>2, <1>5 DEF IInv, DigitsKept, Dividing, Rooting, DivisionKept, RootKept

LEMMA ReducedResidue ==
  ASSUME IInv, pc = "reduce"
  PROVE  /\ call.op = "remainder" /\ Regular(A) /\ Regular(B) /\ call \in Calls
         /\ A \in Values /\ B \in Values
         /\ Distance \in Nat /\ Distance < MaxShift /\ pos \in Nat /\ pos <= Distance
         /\ Sig(A) \in Nat /\ Sig(B) \in Nat /\ Sig(B) >= 1
         /\ Reduced \in Nat /\ Reduced < Sig(B) /\ Shl(Reduced, 1) = 2 * Reduced
         /\ Pow2[Distance - pos] \in Nat /\ Sig(A) * Pow2[Distance - pos] \in Nat
         /\ (Sig(A) * Pow2[Distance - pos]) % Sig(B) = Reduced
         /\ ((Sig(A) * Pow2[Distance - pos]) \div Sig(B)) % 2 = (IF Fits THEN 1 ELSE 0)
<1>. DEFINE D == Distance
            S == Sig(B)
            bit == IF Fits THEN 1 ELSE 0
            X == Sig(A) * Pow2[D - pos]
            whole == X \div 2
<1>1. /\ pc = "reduce" /\ call.op = "remainder" /\ Regular(A) /\ Regular(B) /\ call \in Calls
      /\ rem \in Nat /\ q \in Nat /\ D >= 0 /\ pos \in 0..D /\ rem < 2 * S
      /\ (pos = D => rem = Sig(A))
      /\ pos < D => rem = 2 * (whole % S)
  BY DEF IInv, Reducing, Counting, DigitsKept, ReductionKept
<1>2. A \in Values /\ B \in Values
  BY <1>1, LoopOperands
<1>3. /\ D \in Nat /\ D < MaxShift /\ pos \in Nat /\ pos <= D
      /\ Sig(A) \in Nat /\ S \in Nat /\ S >= 1
  <2>1. Exponent(A) \in (1 - Bias - FracBits)..Bias /\ Exponent(B) \in (1 - Bias - FracBits)..Bias
        /\ Sig(A) \in Nat
    BY <1>1, <1>2, SigWidth
  <2>2. S >= 1 /\ S \in Nat
    BY <1>1, <1>2, Comparable
  <2>. QED BY <1>1, <2>1, <2>2, Fields, Widths DEF Distance
<1>5. /\ Reduced \in Nat /\ Reduced < S /\ rem = bit * S + Reduced
      /\ Shl(Reduced, 1) = 2 * Reduced /\ bit \in {0, 1}
  <2>1. rem < 2 * Sig(B)
    BY <1>1
  <2>. QED BY <1>1, <1>2, <2>1, ReducedOnce
<1>6. /\ X \in Nat /\ Pow2[D - pos] \in Nat
      /\ pos = D => Pow2[D - pos] = 1
      /\ pos < D => \E y \in Nat : Pow2[D - pos] = 2 * y
  <2>1. /\ D - pos \in Nat /\ D - pos \in 0..MaxShift /\ (D - pos) + 1 <= MaxShift
        /\ (pos = D => D - pos = 0)
    BY <1>3, Widths
  <2>2. Pow2[D - pos] \in Nat
    BY <2>1, Pow2Step
  <2>3. ASSUME pos < D PROVE \E y \in Nat : Pow2[D - pos] = 2 * y
    <3>1. D - pos - 1 \in Nat /\ (D - pos - 1) + 1 = D - pos /\ (D - pos - 1) + 1 <= MaxShift
          /\ D - pos - 1 \in 0..MaxShift
      BY <1>3, <2>1, <2>3, Widths
    <3>2. Pow2[(D - pos - 1) + 1] = 2 * Pow2[D - pos - 1] /\ Pow2[D - pos - 1] \in Nat
      BY <3>1, Pow2Step
    <3>. QED BY <3>1, <3>2
  <2>4. X \in Nat
    <3>. DEFINE y == Pow2[D - pos]
    <3>1. y \in Nat
      BY <2>2
    <3>. HIDE DEF y
    <3>2. Sig(A) * y \in Nat
      BY <1>3, <3>1
    <3>. QED BY <3>2 DEF y
  <2>. QED BY <2>1, <2>2, <2>3, <2>4, Pow2Step
<1>7. X % S = Reduced /\ (X \div S) % 2 = bit
  <2>1. CASE pos = D
    <3>1. X = Sig(A) * 1
      BY <1>6, <2>1
    <3>. HIDE DEF X, S, bit, D
    <3>2. X = S * (2 * 0 + bit) + Reduced
      <4>1. bit * S = S * (2 * 0 + bit)
        BY <1>3, <1>5
      <4>. QED BY <1>1, <1>3, <1>5, <2>1, <3>1, <4>1
    <3>. QED BY <1>3, <1>5, <1>6, <3>2, ResidueOf
  <2>2. CASE pos < D
    <3>1. PICK y \in Nat : Pow2[D - pos] = 2 * y
      BY <1>6, <2>2
    <3>2. X = 2 * whole /\ whole \in Nat
      <4>1. X = Sig(A) * (2 * y)
        BY <3>1
      <4>2. Sig(A) * (2 * y) = 2 * (Sig(A) * y) /\ Sig(A) * y \in Nat
        BY <1>3
      <4>. HIDE DEF X
      <4>. QED BY <4>1, <4>2
    <3>3. rem = 2 * (whole % S)
      BY <1>1, <2>2
    <3>. HIDE DEF X, S, bit, D, whole
    <3>. DEFINE d == whole \div S
                m == whole % S
    <3>4. d \in Nat /\ m \in Nat /\ whole = S * d + m
      BY <1>3, <3>2
    <3>5. rem = 2 * m
      BY <3>3
    <3>. HIDE DEF d, m
    <3>6. X = S * (2 * d + bit) + Reduced
      <4>1. S * (2 * d + bit) = 2 * (S * d) + bit * S
        BY <1>3, <1>5, <3>4
      <4>2. S * d \in Nat /\ bit * S \in Nat
        BY <1>3, <1>5, <3>4
      <4>. QED BY <1>5, <3>2, <3>4, <3>5, <4>1, <4>2
    <3>. QED BY <1>3, <1>5, <1>6, <3>4, <3>6, ResidueOf
  <2>. QED BY <1>3, <2>1, <2>2
<1>. QED BY <1>1, <1>2, <1>3, <1>5, <1>6, <1>7

LEMMA ReduceDigitStep ==
  ASSUME IInv, ReduceDigit, pos # 0
  PROVE  IInv'
<1>. DEFINE D == Distance
            S == Sig(B)
            bit == IF Fits THEN 1 ELSE 0
            X == Sig(A) * Pow2[D - pos]
<1>1. pc = "reduce"
  BY DEF ReduceDigit
<1>2. /\ call.op = "remainder" /\ Regular(A) /\ Regular(B) /\ call \in Calls
      /\ D \in Nat /\ D < MaxShift /\ pos \in Nat /\ pos > 0 /\ pos <= D
      /\ Sig(A) \in Nat /\ S \in Nat /\ S >= 1
      /\ Reduced \in Nat /\ Reduced < S /\ Shl(Reduced, 1) = 2 * Reduced
      /\ Pow2[D - pos] \in Nat /\ X \in Nat
      /\ X % S = Reduced /\ (X \div S) % 2 = bit
  BY <1>1, ReducedResidue
<1>3. /\ call' = call /\ pc' = "reduce" /\ rem' = 2 * Reduced /\ pos' = pos - 1
      /\ q' = bit
  BY <1>2 DEF ReduceDigit, Loop
<1>4. bit \in {0, 1}
  OBVIOUS
<1>5. Pow2[D - pos'] = 2 * Pow2[D - pos]
  <2>1. D - pos \in Nat /\ (D - pos) + 1 <= MaxShift /\ D - pos' = (D - pos) + 1
    BY <1>2, <1>3, Widths
  <2>. QED BY <2>1, Pow2Step
<1>8. (Sig(A) * Pow2[D - pos']) \div 2 = X
  <2>. DEFINE y == Pow2[D - pos]
  <2>1. Sig(A) * Pow2[D - pos'] = 2 * X
    <3>1. y \in Nat /\ Pow2[D - pos'] = 2 * y
      BY <1>2, <1>5
    <3>. HIDE DEF y
    <3>2. Sig(A) * (2 * y) = 2 * (Sig(A) * y)
      BY <1>2, <3>1
    <3>. QED BY <3>1, <3>2 DEF y
  <2>. HIDE DEF X
  <2>. QED BY <1>2, <2>1
<1>9. pos' \in 0..D /\ pos' # D /\ pos' < D
  BY <1>2, <1>3
<1>10. Reducing'
  <2>1. q' \in Nat /\ rem' \in Nat
    BY <1>2, <1>3, <1>4
  <2>. QED BY <1>2, <1>3, <1>9, <2>1, CallKept DEF Reducing, Counting
<1>11. ReductionKept'
  <2>1. Sig(A)' = Sig(A) /\ Sig(B)' = S /\ Distance' = D
    BY <1>3, CallKept
  <2>. HIDE DEF bit, X, D, S
  <2>2. rem' < 2 * S
    BY <1>2, <1>3
  <2>3. rem' = 2 * (X % S) /\ q' = (X \div S) % 2
    BY <1>2, <1>3
  <2>. QED BY <1>8, <2>1, <2>2, <2>3 DEF ReductionKept
<1>. QED BY <1>2, <1>3, <1>10, <1>11 DEF IInv, DigitsKept, Dividing, Rooting, DivisionKept, RootKept

---------------------------------------------------------------------------
LEMMA DoneLeaves == \A v, flags : Done(v, flags) => Leaves
  BY DEF Done, Leaves

LEMMA ToPackLeaves ==
  \A sign, mag, scale, mode, flags : ToPack(sign, mag, scale, mode, flags) => Leaves
  BY DEF ToPack, Leaves

LEMMA LeavesStep ==
  ASSUME IInv, Leaves
  PROVE  IInv'
  BY DEF IInv, Leaves, Dividing, Rooting, Reducing, DigitsKept, DivisionKept, RootKept, ReductionKept

LEMMA SpecialOperandsLeave ==
  \/ NaNOperand \/ NaNArgument \/ NaNAmongThree \/ InfiniteSum \/ ZeroSum \/ SpecialProduct
  \/ SpecialQuotient \/ SpecialRoot \/ SpecialRemainder \/ SpecialFma
  => Leaves
<1>1. NaNOperand \/ NaNArgument \/ NaNAmongThree => Leaves
  BY DoneLeaves DEF NaNOperand, NaNArgument, NaNAmongThree
<1>2. InfiniteSum \/ ZeroSum \/ SpecialProduct => Leaves
  BY DoneLeaves DEF InfiniteSum, ZeroSum, SpecialProduct
<1>3. SpecialQuotient => Leaves
  BY DoneLeaves DEF SpecialQuotient
<1>4. SpecialRoot \/ SpecialRemainder => Leaves
  BY DoneLeaves DEF SpecialRoot, SpecialRemainder
<1>5. SpecialFma => Leaves
  BY DoneLeaves DEF SpecialFma
<1>. QED BY <1>1, <1>2, <1>3, <1>4, <1>5

LEMMA SumsAndProductsLeave ==
  NearSum \/ FarSum \/ Multiply \/ ProductOnly \/ FusedSum => Leaves
<1>1. \A sx, x, sy, y, scale : Combine(sx, x, sy, y, scale) => Leaves
  BY DoneLeaves, ToPackLeaves DEF Combine
<1>2. FarSum => Leaves
  BY DoneLeaves DEF FarSum
<1>. QED BY <1>1, <1>2, ToPackLeaves DEF NearSum, Multiply, ProductOnly, FusedSum

LEMMA ConversionsLeave ==
  \/ AlreadyIntegral \/ RoundToIntegral \/ ToInteger \/ FromInteger
  \/ NarrowSpecial \/ NarrowRegular \/ WidenSpecial \/ WidenRegular \/ Compare \/ PackStep
  => Leaves
<1>1. AlreadyIntegral \/ RoundToIntegral \/ FromInteger => Leaves
  BY DoneLeaves, ToPackLeaves DEF AlreadyIntegral, RoundToIntegral, FromInteger
<1>2. ToInteger => Leaves
  BY DoneLeaves DEF ToInteger
<1>3. NarrowSpecial \/ NarrowRegular => Leaves
  BY DoneLeaves DEF NarrowSpecial, NarrowRegular
<1>4. WidenSpecial \/ WidenRegular => Leaves
  BY DoneLeaves, ToPackLeaves DEF WidenSpecial, WidenRegular
<1>5. Compare \/ PackStep => Leaves
  BY DoneLeaves DEF Compare, PackStep
<1>. QED BY <1>1, <1>2, <1>3, <1>4, <1>5

(* The last digit is followed by no shift.                                 *)
LEMMA LastDigitLeaves ==
  \/ DivideDigit /\ pos = 0
  \/ RootDigit /\ pos = 0
  \/ ReduceDigit /\ pos = 0
  \/ AlreadyRemainder \/ BelowDivisor
  => Leaves
<1>1. DivideDigit /\ pos = 0 => Leaves
  BY ToPackLeaves DEF DivideDigit
<1>2. RootDigit /\ pos = 0 => Leaves
  BY ToPackLeaves DEF RootDigit
<1>3. ReduceDigit /\ pos = 0 => Leaves
  BY ToPackLeaves DEF ReduceDigit
<1>4. AlreadyRemainder \/ BelowDivisor => Leaves
  BY DoneLeaves, ToPackLeaves DEF AlreadyRemainder, BelowDivisor
<1>. QED BY <1>1, <1>2, <1>3, <1>4

---------------------------------------------------------------------------
LEMMA TypeInit == Init => IInv
  BY DEF Init, Fresh, IInv, Dividing, Rooting, Reducing, DigitsKept, DivisionKept, RootKept,
         ReductionKept

LEMMA Inductive == IInv /\ [Next]_vars => IInv'
<1>. SUFFICES ASSUME IInv, [Next]_vars PROVE IInv'
  OBVIOUS
<1>1. CASE StartDivision
  BY <1>1, StartDivisionStep
<1>2. CASE DivideDigit /\ pos # 0
  BY <1>2, DivideDigitStep
<1>3. CASE StartRoot
  BY <1>3, StartRootStep
<1>4. CASE RootDigit /\ pos # 0
  BY <1>4, RootDigitStep
<1>5. CASE StartReduction
  BY <1>5, StartReductionStep
<1>6. CASE ReduceDigit /\ pos # 0
  BY <1>6, ReduceDigitStep
<1>7. CASE Leaves
  BY <1>7, LeavesStep
<1>8. CASE UNCHANGED vars
  BY <1>8, CallKept DEF vars, IInv, Dividing, Rooting, Reducing, Counting, DigitsKept,
                        DivisionKept, RootKept, ReductionKept
<1>. QED BY <1>1, <1>2, <1>3, <1>4, <1>5, <1>6, <1>7, <1>8, SpecialOperandsLeave,
            SumsAndProductsLeave, ConversionsLeave, LastDigitLeaves DEF Next

---------------------------------------------------------------------------
THEOREM Invariance == Spec => []IInv
  BY TypeInit, Inductive, PTL DEF Spec

(* Between two digits of a quotient, a root or a remainder of binary256    *)
(* nothing is lost, whatever the operands: what the digits so far account  *)
(* for and the remainder make up the dividend or the leading bits of the   *)
(* radicand, and no shift of the loops leaves the 512 bits.                *)
THEOREM DigitsAlwaysKept == Spec => []DigitsKept
<1>1. IInv => DigitsKept
  BY DEF IInv
<1>. QED BY <1>1, Invariance, PTL

(* What is jammed stays on its side of every even number.                  *)
LEMMA BigJamSide ==
  ASSUME NEW x \in Nat, NEW n \in Nat, n <= MaxShift, x < Pow2[BigBits], NEW y \in Int
  PROVE  /\ ShrJam(x, n) < 2 * y <=> x < (2 * y) * Pow2[n]
         /\ ShrJam(x, n) = 2 * y <=> x = (2 * y) * Pow2[n]
<1>1. Pow2[n] \in Nat /\ Pow2[n] >= 1
  <2>1. n \in 0..MaxShift
    BY BigWidths, Widths
  <2>. QED BY <2>1, Pow2Positive
<1>. DEFINE d == Pow2[n]
<1>2. CASE n >= BigBits
  <2>1. x < d
    <3>1. Pow2[BigBits] <= Pow2[n]
      BY <1>2, BigWidths, Widths, Pow2Monotone
    <3>2. BigBits \in 0..MaxShift
      BY BigWidths, Widths
    <3>3. Pow2[BigBits] \in Nat
      BY <3>2, Pow2Step
    <3>. QED BY <1>1, <3>1, <3>3
  <2>2. ShrJam(x, n) = OrSticky(0, x # 0)
    BY <1>2 DEF ShrJam, Shr, AnyLow
  <2>3. /\ OrSticky(0, x # 0) < 2 * y <=> 0 < 2 * y
        /\ OrSticky(0, x # 0) = 2 * y <=> 0 = 2 * y /\ ~ (x # 0)
    <3>1. (x # 0) \in BOOLEAN /\ 0 \in Nat
      OBVIOUS
    <3>. QED BY <3>1, StickySide
  <2>. HIDE DEF d
  <2>4. y >= 1 => d <= (2 * y) * d
    BY <1>1 DEF d
  <2>5. y <= 0 => (2 * y) * d <= 0 /\ (y # 0 => (2 * y) * d < 0)
    BY <1>1 DEF d
  <2>6. (2 * y) * d \in Int /\ (y = 0 => (2 * y) * d = 0)
    BY <1>1 DEF d
  <2>7. d \in Nat /\ d >= 1
    BY <1>1 DEF d
  <2>8. x < (2 * y) * d <=> 0 < 2 * y
    BY <2>1, <2>4, <2>5, <2>6, <2>7
  <2>9. x = (2 * y) * d <=> 0 = 2 * y /\ x = 0
    BY <2>1, <2>4, <2>5, <2>6, <2>7
  <2>. QED BY <2>2, <2>3, <2>8, <2>9 DEF d
<1>3. CASE ~ (n >= BigBits)
  <2>1. ShrJam(x, n) = OrSticky(x \div d, (x % d) # 0)
    BY <1>3 DEF ShrJam, Shr, AnyLow
  <2>2. x \div d \in Nat /\ ((x % d) # 0) \in BOOLEAN
    BY <1>1, Split
  <2>3. /\ OrSticky(x \div d, (x % d) # 0) < 2 * y <=> x \div d < 2 * y
        /\ OrSticky(x \div d, (x % d) # 0) = 2 * y <=> x \div d = 2 * y /\ ~ ((x % d) # 0)
    <3>. HIDE DEF d
    <3>. QED BY <2>2, StickySide
  <2>4. /\ x \div d < 2 * y <=> x < (2 * y) * d
        /\ (x \div d = 2 * y /\ x % d = 0) <=> x = (2 * y) * d
    <3>. DEFINE c == 2 * y
    <3>1. c \in Int /\ d \in Nat /\ d >= 1
      BY <1>1
    <3>. HIDE DEF c, d
    <3>2. /\ x \div d < c <=> x < c * d
          /\ (x \div d = c /\ x % d = 0) <=> x = c * d
      BY <3>1, QuotientSide
    <3>. QED BY <3>2 DEF c
  <2>. HIDE DEF d
  <2>. QED BY <2>1, <2>3, <2>4 DEF d
<1>. QED BY <1>2, <1>3

LEMMA JamIs ==
  ASSUME NEW x \in Nat, x < Pow2[WordBits], NEW n \in Nat
  PROVE  ShrJam(x, n) = ShiftRightJamming(x, n)
<1>1. WordBits \in Nat /\ WordBits <= BigBits /\ BigBits \in Nat /\ BigBits < MaxShift
      /\ WordBits \in 0..MaxShift /\ MaxShift \in Nat
  BY BigWidths, Widths, BigAssumption DEF BigAssumption
<1>2. CASE n >= BigBits
  BY <1>1, <1>2 DEF ShrJam, Shr, AnyLow, ShiftRightJamming
<1>3. CASE n < WordBits
  BY <1>1, <1>3 DEF ShrJam, Shr, AnyLow, ShiftRightJamming
<1>4. CASE WordBits <= n /\ n < BigBits
  <2>. DEFINE d == Pow2[n]
  <2>1. n \in 0..MaxShift /\ Pow2[WordBits] <= d
    BY <1>1, <1>4, Pow2Monotone
  <2>2. d \in Nat /\ Pow2[WordBits] \in Nat
    BY <1>1, <2>1, Pow2Positive
  <2>3. ShrJam(x, n) = OrSticky(x \div d, (x % d) # 0)
        /\ ShiftRightJamming(x, n) = OrSticky(0, x # 0)
    BY <1>1, <1>4 DEF ShrJam, Shr, AnyLow, ShiftRightJamming
  <2>. HIDE DEF d
  <2>4. x < d
    BY <2>1, <2>2
  <2>5. x \div d = 0 /\ x % d = x
    BY <2>4, <2>2
  <2>. QED BY <2>3, <2>5
<1>. QED BY <1>1, <1>2, <1>3, <1>4

LEMMA WidePowers ==
  ASSUME NEW frac \in Nat, frac + 4 <= BigBits
  PROVE  /\ Pow2[frac] \in Nat /\ Pow2[frac] >= 1
         /\ Pow2[frac + 1] = 2 * Pow2[frac] /\ Pow2[frac + 3] = 8 * Pow2[frac]
         /\ Pow2[frac + 4] = 16 * Pow2[frac]
<1>1. /\ frac \in 0..MaxShift
      /\ frac + 1 <= MaxShift /\ frac + 2 <= MaxShift /\ frac + 3 <= MaxShift /\ frac + 4 <= MaxShift
      /\ frac + 1 \in Nat /\ frac + 2 \in Nat /\ frac + 3 \in Nat
      /\ (frac + 1) + 1 = frac + 2 /\ (frac + 2) + 1 = frac + 3 /\ (frac + 3) + 1 = frac + 4
  BY BigWidths, Widths
<1>2. /\ Pow2[frac + 1] = 2 * Pow2[frac]
      /\ Pow2[(frac + 1) + 1] = 2 * Pow2[frac + 1]
      /\ Pow2[(frac + 2) + 1] = 2 * Pow2[frac + 2]
      /\ Pow2[(frac + 3) + 1] = 2 * Pow2[frac + 3]
  BY <1>1, Pow2Step
<1>3. Pow2[frac] \in Nat /\ Pow2[frac] >= 1
  BY <1>1, Pow2Positive
<1>. QED BY <1>1, <1>2, <1>3

LEMMA RoundUpIs ==
  ASSUME NEW s \in {0, 1}, NEW md \in Modes, NEW x \in Nat
  PROVE  /\ RoundUp(s, BitSet(x, 2), x % 4 # 0, (x \div 8) % 2 = 1, md) <=> KeptUp(s, x, md)
         /\ (BitSet(x, 2) \/ x % 4 # 0) <=> x % 8 # 0
         /\ KeptUp(s, x, md) \in BOOLEAN
<1>1. PICK m \in Nat, r \in Nat :
        /\ m = x \div (2 * 4) /\ r < 2 * 4 /\ x = m * (2 * 4) + r
        /\ (x \div 4) % 2 = 1 <=> 4 <= r
        /\ (x % 4) # 0 <=> r # 0 /\ r # 4
  BY CutAtHalf
<1>2. x \div 8 = m /\ x % 8 = r
  BY <1>1
<1>3. BitSet(x, 2) <=> 4 <= r
  BY <1>1, SmallPowers DEF BitSet
<1>. DEFINE bit == BitSet(x, 2)
            sticky == x % 4 # 0
            lost == x % 8 # 0
            half == 4 <= x % 8
            tie == x % 8 = 4
<1>4. /\ bit \in BOOLEAN /\ sticky \in BOOLEAN /\ lost \in BOOLEAN /\ half \in BOOLEAN
      /\ tie \in BOOLEAN
      /\ (bit \/ sticky) <=> lost
      /\ bit <=> half
      /\ sticky => ~ tie
      /\ bit /\ ~ sticky => tie
      /\ tie => half
      /\ half => lost
  <2>1. /\ bit <=> 4 <= r
        /\ sticky <=> r # 0 /\ r # 4
        /\ lost <=> r # 0
        /\ half <=> 4 <= r
        /\ tie <=> r = 4
    BY <1>1, <1>2, <1>3
  <2>2. bit \in BOOLEAN /\ sticky \in BOOLEAN /\ lost \in BOOLEAN /\ half \in BOOLEAN /\ tie \in BOOLEAN
    BY DEF BitSet
  <2>. HIDE DEF bit, sticky, lost, half, tie
  <2>. QED BY <1>1, <2>1, <2>2
<1>. HIDE DEF bit, sticky, lost, half, tie
<1>5. ShouldRoundUp(s, bit, sticky, m % 2 = 1, md) <=> Upwards(s, m, lost, half, tie, md)
  <2>1. md = "RNE" \/ md = "RTZ" \/ md = "RUP" \/ md = "RDN" \/ md = "RNA"
    BY DEF Modes
  <2>2. CASE md = "RTZ"
    BY <1>4, <2>2 DEF ShouldRoundUp, Upwards
  <2>3. CASE md = "RUP"
    BY <1>4, <2>3 DEF ShouldRoundUp, Upwards
  <2>4. CASE md = "RDN"
    BY <1>4, <2>4 DEF ShouldRoundUp, Upwards
  <2>5. CASE md = "RNA"
    BY <1>4, <2>5 DEF ShouldRoundUp, Upwards
  <2>6. CASE md = "RNE"
    BY <1>4, <2>6 DEF ShouldRoundUp, Upwards
  <2>. QED BY <2>1, <2>2, <2>3, <2>4, <2>5, <2>6
<1>6. ~ lost => ~ Upwards(s, m, lost, half, tie, md)
  BY <1>4, Zenon DEF Upwards, Modes
<1>7. RoundUp(s, bit, sticky, m % 2 = 1, md) <=> Upwards(s, m, lost, half, tie, md)
  BY <1>4, <1>5, <1>6, Zenon DEF RoundUp
<1>8. KeptUp(s, x, md) = Upwards(s, m, lost, half, tie, md)
  BY <1>2 DEF KeptUp, lost, half, tie
<1>9. Upwards(s, m, lost, half, tie, md) \in BOOLEAN
  BY <1>4, Zenon DEF Upwards, Modes
<1>. QED BY <1>2, <1>4, <1>7, <1>8, <1>9 DEF bit, sticky, lost

LEMMA KeptBound ==
  ASSUME NEW frac \in Nat, frac + 4 <= BigBits, NEW bias \in Nat,
         NEW ext \in Nat, ext < Pow2[frac + 4], NEW exponent \in Int
  PROVE  /\ Lowest(bias, exponent) \in Int /\ Lowest(bias, exponent) - exponent \in Nat
         /\ Kept(bias, ext, exponent) \in Nat
         /\ Kept(bias, ext, exponent) < Pow2[frac + 4]
         /\ Kept(bias, ext, exponent) \div 8 \in Nat
         /\ Kept(bias, ext, exponent) \div 8 < 2 * Pow2[frac]
<1>1. Lowest(bias, exponent) \in Int /\ Lowest(bias, exponent) - exponent \in Nat
  BY DEF Lowest
<1>. DEFINE n == Lowest(bias, exponent) - exponent
            P == Pow2[frac]
            x == Kept(bias, ext, exponent)
<1>2. P \in Nat /\ P >= 1 /\ Pow2[frac + 4] = 16 * P
  BY WidePowers
<1>3. x \in Nat /\ x < 2 * (8 * P)
  <2>1. PICK y \in Nat, lost \in BOOLEAN : x = OrSticky(y, lost) /\ y <= ext
    <3>1. CASE n >= BigBits
      <4>1. x = OrSticky(0, ext # 0)
        BY <3>1 DEF Kept, ShrJam, Shr, AnyLow
      <4>2. (ext # 0) \in BOOLEAN /\ 0 \in Nat /\ 0 <= ext
        OBVIOUS
      <4>. QED BY <4>1, <4>2
    <3>2. CASE n < BigBits
      <4>. DEFINE d == Pow2[n]
      <4>1. d \in Nat /\ d >= 1
        <5>1. n \in 0..(BigBits + 1)
          BY <1>1, <3>2, BigWidths
        <5>. QED BY <5>1, BigWidths
      <4>2. x = OrSticky(ext \div d, ext % d # 0)
        <5>1. ~ (n >= BigBits)
          BY <1>1, <3>2, BigWidths
        <5>. QED BY <5>1 DEF Kept, ShrJam, Shr, AnyLow
      <4>. HIDE DEF d
      <4>3. ext \div d \in Nat /\ ext \div d <= ext /\ (ext % d # 0) \in BOOLEAN
        <5>1. ext \div d \in Nat /\ ext % d \in Nat /\ ext = (ext \div d) * d + (ext % d)
          BY <4>1, Split
        <5>. DEFINE k == ext \div d
        <5>2. k \in Nat /\ k * d <= ext
          BY <5>1, <4>1
        <5>. HIDE DEF k
        <5>3. k * 1 <= k * d
          BY <5>2, <4>1
        <5>4. k <= ext
          BY <5>2, <5>3, <4>1
        <5>. QED BY <5>1, <5>4 DEF k
      <4>. QED BY <4>2, <4>3
    <3>3. n \in Nat
      BY <1>1
    <3>. QED BY <3>1, <3>2, <3>3, BigWidths
  <2>2. 8 * P \in Nat /\ y < 2 * (8 * P)
    BY <2>1, <1>2
  <2>. QED BY <2>1, <2>2, StickyBound
<1>. HIDE DEF x, P
<1>4. x \div 8 \in Nat /\ x \div 8 < 2 * P
  BY <1>2, <1>3
<1>. QED BY <1>1, <1>2, <1>3, <1>4 DEF x, P

LEMMA ExtendedIs ==
  ASSUME NEW frac \in Nat, frac + 4 <= BigBits, NEW bias \in Nat, NEW s \in {0, 1}, NEW md \in Modes,
         NEW ext \in Nat, ext < Pow2[frac + 4], NEW exponent \in Int,
         NEW x, NEW e, NEW n, KeptAs(bias, s, ext, exponent, md, x, e, n)
  PROVE  /\ x \in Nat /\ e \in Int /\ n \in Nat /\ n <= 2 * Pow2[frac]
         /\ RoundExtended(frac, bias, s, ext, exponent, md) =
              [inexact |-> x % 8 # 0,
               exponent |-> IF n = 2 * Pow2[frac] THEN e + 1 ELSE e,
               sig |-> IF n = 2 * Pow2[frac] THEN Pow2[frac] ELSE n]
<1>0. x = Kept(bias, ext, exponent) /\ e = Lowest(bias, exponent) /\ n = KeptUnits(s, x, md)
  BY DEF KeptAs
<1>1. /\ e \in Int /\ x \in Nat /\ x \div 8 \in Nat /\ x \div 8 < 2 * Pow2[frac]
  BY <1>0, KeptBound
<1>2. /\ RoundUp(s, BitSet(x, 2), x % 4 # 0, (x \div 8) % 2 = 1, md) <=> KeptUp(s, x, md)
      /\ (BitSet(x, 2) \/ x % 4 # 0) <=> x % 8 # 0
      /\ KeptUp(s, x, md) \in BOOLEAN
  BY <1>1, RoundUpIs
<1>3. /\ Pow2[frac] \in Nat /\ Pow2[frac] >= 1 /\ Pow2[frac + 1] = 2 * Pow2[frac]
  BY WidePowers
<1>4. n \in Nat /\ n <= 2 * Pow2[frac]
  BY <1>0, <1>1, <1>2, <1>3 DEF KeptUnits
<1>5. BitSet(n, frac + 1) <=> n = 2 * Pow2[frac]
  <2>. DEFINE Q == 2 * Pow2[frac]
  <2>1. Q \in Nat /\ Q >= 1 /\ n <= Q
    BY <1>3, <1>4
  <2>. HIDE DEF Q
  <2>2. n = Q => n \div Q = 1
    BY <2>1
  <2>3. n < Q => n \div Q = 0
    BY <2>1, <1>4
  <2>4. BitSet(n, frac + 1) <=> (n \div Q) % 2 = 1
    BY <1>3 DEF BitSet, Q
  <2>. QED BY <2>1, <2>2, <2>3, <2>4, <1>4 DEF Q
<1>6. (2 * Pow2[frac]) \div 2 = Pow2[frac]
  BY <1>3
<1>7. RoundExtended(frac, bias, s, ext, exponent, md) =
        [inexact |-> x % 8 # 0,
         exponent |-> IF BitSet(n, frac + 1) THEN e + 1 ELSE e,
         sig |-> IF BitSet(n, frac + 1) THEN n \div 2 ELSE n]
  <2>1. (BitSet(x, 2) \/ x % 4 # 0) = (x % 8 # 0)
    BY <1>2, Zenon DEF BitSet
  <2>2. n = IF RoundUp(s, BitSet(x, 2), x % 4 # 0, (x \div 8) % 2 = 1, md)
            THEN (x \div 8) + 1 ELSE x \div 8
    BY <1>0, <1>2, Zenon DEF KeptUnits
  <2>. QED BY <1>0, <2>1, <2>2, Zenon DEF RoundExtended, Kept, Lowest
<1>. QED BY <1>1, <1>4, <1>5, <1>6, <1>7

LEMMA DeliverIs ==
  ASSUME NEW frac, NEW P, NEW bias, NEW r, NEW lost, NEW e, NEW n,
         Carried(frac, P, bias, r, lost, e, n), NEW s, NEW md
  PROVE  /\ e > bias => Deliver(frac, bias, s, r, md) = Beyond(frac, bias, s, md)
         /\ e <= bias =>
              /\ n < P => Deliver(frac, bias, s, r, md) =
                            [res |-> [s |-> s, e |-> 0, f |-> n], fe |-> ToldTiny(lost)]
              /\ P <= n /\ n < 2 * P =>
                   Deliver(frac, bias, s, r, md) =
                     [res |-> [s |-> s, e |-> e + bias, f |-> n - P], fe |-> Told(lost)]
              /\ n = 2 * P =>
                   Deliver(frac, bias, s, r, md) =
                     IF e = bias THEN Beyond(frac, bias, s, md)
                     ELSE [res |-> [s |-> s, e |-> e + 1 + bias, f |-> 0], fe |-> Told(lost)]
<1>0. /\ frac \in Nat /\ frac + 4 <= BigBits /\ P = Pow2[frac] /\ bias \in Nat
      /\ P \in Nat /\ lost \in BOOLEAN /\ e \in Int /\ 1 - bias <= e
      /\ n \in Nat /\ n <= 2 * P /\ (e = 1 - bias \/ P <= n)
      /\ r = [inexact |-> lost, exponent |-> IF n = 2 * P THEN e + 1 ELSE e,
              sig |-> IF n = 2 * P THEN P ELSE n]
  BY DEF Carried
<1>1. P >= 1 /\ Pow2[frac + 1] = 2 * P
  BY <1>0, WidePowers
<1>. DEFINE E == IF n = 2 * P THEN e + 1 ELSE e
            g == IF n = 2 * P THEN P ELSE n
<1>2. r.inexact = lost /\ r.exponent = E /\ r.sig = g
  BY <1>0
<1>3. g \in Nat /\ g < 2 * P /\ E \in Int
  BY <1>0, <1>1
<1>4. BitSet(g, frac) <=> P <= g
  <2>1. g < P => g \div P = 0
    BY <1>0, <1>1, <1>3
  <2>2. P <= g => g \div P = 1
    <3>. HIDE DEF g
    <3>1. (1 * P + (g - P)) \div P = 1 \/ ~ (P <= g)
      <4>1. P <= g => (g - P) \in Nat /\ g - P < P
        BY <1>0, <1>1, <1>3
      <4>. QED BY <4>1, <1>0, <1>1, Join
    <3>. QED BY <3>1, <1>0, <1>1, <1>3
  <2>. QED BY <2>1, <2>2, <1>0, <1>3 DEF BitSet
<1>5. g % P = IF P <= g THEN g - P ELSE g
  <2>. HIDE DEF g
  <2>1. P <= g => (1 * P + (g - P)) % P = g - P
    <3>1. P <= g => (g - P) \in Nat /\ g - P < P
      BY <1>0, <1>1, <1>3
    <3>. QED BY <3>1, <1>0, <1>1, Join
  <2>. QED BY <2>1, <1>0, <1>1, <1>3
<1>6. E > bias => Deliver(frac, bias, s, r, md) = Beyond(frac, bias, s, md)
  BY <1>2, Zenon DEF Deliver, Beyond
<1>7. ~ (E > bias) =>
        Deliver(frac, bias, s, r, md) =
          [res |-> [s |-> s, f |-> g % P, e |-> IF E = 1 - bias /\ ~ BitSet(g, frac) THEN 0 ELSE E + bias],
           fe |-> IF ~ lost THEN {}
                  ELSE {"inexact"} \cup IF E = 1 - bias /\ ~ BitSet(g, frac) THEN {"underflow"} ELSE {}]
  BY <1>0, <1>2, Zenon DEF Deliver, Tiny
<1>8. /\ Told(lost) = (IF ~ lost THEN {} ELSE {"inexact"} \cup {})
      /\ ToldTiny(lost) = (IF ~ lost THEN {} ELSE {"inexact"} \cup {"underflow"})
  BY DEF Told, ToldTiny
<1>9. CASE e > bias
  <2>1. E > bias /\ ~ (e <= bias)
    BY <1>9, <1>0, <1>1
  <2>. QED BY <2>1, <1>6
<1>10. CASE e <= bias /\ n < P
  <2>1. E = e /\ g = n /\ ~ (P <= n) /\ n # 2 * P /\ e = 1 - bias /\ ~ (E > bias)
    BY <1>10, <1>0, <1>1
  <2>. HIDE DEF E, g
  <2>2. Deliver(frac, bias, s, r, md) =
          [res |-> [s |-> s, f |-> n, e |-> 0], fe |-> ToldTiny(lost)]
    BY <1>4, <1>5, <1>7, <1>8, <2>1
  <2>. QED BY <2>1, <2>2, <1>10
<1>11. CASE e <= bias /\ P <= n /\ n < 2 * P
  <2>1. E = e /\ g = n /\ n # 2 * P /\ ~ (n < P) /\ ~ (E > bias)
    BY <1>11, <1>0, <1>1
  <2>. HIDE DEF E, g
  <2>2. Deliver(frac, bias, s, r, md) =
          [res |-> [s |-> s, f |-> n - P, e |-> e + bias], fe |-> Told(lost)]
    BY <1>4, <1>5, <1>7, <1>8, <1>11, <2>1
  <2>. QED BY <2>1, <2>2, <1>11
<1>12. CASE e <= bias /\ n = 2 * P /\ e # bias
  <2>1. E = e + 1 /\ g = P /\ ~ (n < P) /\ ~ (n < 2 * P) /\ ~ (E > bias) /\ P <= P /\ P - P = 0
    BY <1>12, <1>0, <1>1
  <2>. HIDE DEF E, g
  <2>2. Deliver(frac, bias, s, r, md) =
          [res |-> [s |-> s, f |-> 0, e |-> e + 1 + bias], fe |-> Told(lost)]
    BY <1>4, <1>5, <1>7, <1>8, <2>1
  <2>. QED BY <2>1, <2>2, <1>0, <1>12
<1>13. CASE e = bias /\ n = 2 * P
  <2>1. E = e + 1 /\ E > bias /\ ~ (n < P) /\ ~ (n < 2 * P) /\ ~ (e > bias)
    BY <1>13, <1>0, <1>1
  <2>. HIDE DEF E
  <2>. QED BY <2>1, <1>0, <1>6, <1>13
<1>. QED BY <1>0, <1>9, <1>10, <1>11, <1>12, <1>13

LEMMA SameBeyond ==
  ASSUME NEW s \in {0, 1}, NEW md \in Modes
  PROVE  /\ Beyond(FracBits, Bias, s, md) = Overflow(s, md)
         /\ Late(Overflow(s, md)) = Overflow(s, md)
<1>1. 2 * Bias + 1 = ExpMax /\ 2 * Bias = ExpMax - 1 /\ ExpMax >= 3 /\ ExpMax \in Nat
  BY Fields
<1>2. md = "RNE" \/ md = "RTZ" \/ md = "RUP" \/ md = "RDN" \/ md = "RNA"
  BY DEF Modes
<1>3. Beyond(FracBits, Bias, s, md) = Overflow(s, md)
  <2>1. /\ SignedInf(s) = [s |-> s, e |-> 2 * Bias + 1, f |-> 0]
        /\ MaxFinite(s) = [s |-> s, e |-> 2 * Bias, f |-> Pow2[FracBits] - 1]
    BY <1>1 DEF SignedInf, MaxFinite, ImplicitBit
  <2>2. OverflowResult(s, md) = IF ToInfinity(s, md) THEN SignedInf(s) ELSE MaxFinite(s)
    <3>1. s = 0 \/ s = 1
      OBVIOUS
    <3>2. CASE md = "RTZ"
      BY <3>1, <3>2 DEF OverflowResult, ToInfinity
    <3>3. CASE md = "RUP"
      BY <3>1, <3>3 DEF OverflowResult, ToInfinity
    <3>4. CASE md = "RDN"
      BY <3>1, <3>4 DEF OverflowResult, ToInfinity
    <3>5. CASE md = "RNA"
      BY <3>1, <3>5 DEF OverflowResult, ToInfinity
    <3>6. CASE md = "RNE"
      BY <3>1, <3>6 DEF OverflowResult, ToInfinity
    <3>. QED BY <1>2, <3>2, <3>3, <3>4, <3>5, <3>6
  <2>. QED BY <2>1, <2>2, Zenon DEF Beyond, Overflow
<1>4. Late(Overflow(s, md)) = Overflow(s, md)
  <2>1. OverflowResult(s, md) \in {SignedInf(s), MaxFinite(s)}
    <3>1. s = 0 \/ s = 1
      OBVIOUS
    <3>. QED BY <1>2, <3>1, Zenon DEF OverflowResult
  <2>2. OverflowResult(s, md).e # 0
    BY <2>1, <1>1 DEF SignedInf, MaxFinite
  <2>. QED BY <2>2 DEF Late, Overflow
<1>. QED BY <1>3, <1>4

LEMMA ThreeBits ==
  /\ Guard = 8 /\ Half = 4 /\ ImplicitAt = FracBits + 3 /\ WordBits = FracBits + 6
  /\ FracBits \in Nat /\ FracBits + 4 <= BigBits /\ WordBits <= BigBits
  /\ ImplicitBit = Pow2[FracBits]
  /\ Pow2[FracBits + 3] = 8 * ImplicitBit /\ Pow2[FracBits + 4] = 16 * ImplicitBit
<1>1. GuardBits = 3
  BY BigAssumption DEF BigAssumption
<1>2. FracBits \in Nat /\ BigBits \in Nat /\ FracBits + 4 <= BigBits /\ FracBits + 6 <= BigBits
  BY BigWidths, Widths
<1>3. Pow2[2] = 4 /\ Pow2[3] = 8
  <2>1. 2 + 1 <= MaxShift /\ 2 \in Nat
    BY Widths
  <2>2. Pow2[2 + 1] = 2 * Pow2[2]
    BY <2>1, Pow2Step
  <2>. QED BY <2>2, SmallPowers
<1>4. GuardBits - 1 = 2
  BY <1>1
<1>. QED BY <1>1, <1>2, <1>3, <1>4, Widths, WidePowers DEF Guard, Half, ImplicitBit

LEMMA LateNormal ==
  ASSUME NEW s, NEW e, e # 0, NEW f, NEW k, NEW m, NEW lost \in BOOLEAN
  PROVE  Late([res |-> [s |-> s, e |-> e, f |-> f], fe |-> Flags(k, m, lost)]) =
           [res |-> [s |-> s, e |-> e, f |-> f], fe |-> Told(lost)]
<1>1. Late([res |-> [s |-> s, e |-> e, f |-> f], fe |-> Flags(k, m, lost)]) =
        [res |-> [s |-> s, e |-> e, f |-> f], fe |-> (Flags(k, m, lost) \ {"underflow"}) \cup {}]
  BY DEF Late
<1>2. Flags(k, m, lost) \in {{}, {"inexact"}, {"inexact", "underflow"}}
      /\ (Flags(k, m, lost) = {} <=> ~ lost)
  <2>1. Flags(k, m, lost) = IF ~ lost THEN {}
                           ELSE IF k = 1 /\ m < ImplicitBit THEN {"inexact", "underflow"}
                           ELSE {"inexact"}
    BY DEF Flags
  <2>. QED BY <2>1
<1>3. (Flags(k, m, lost) \ {"underflow"}) \cup {} = Told(lost)
  BY <1>2 DEF Told
<1>. QED BY <1>1, <1>3

(* The significands round_and_pack of binary64 works on are those of       *)
(* pack_extended if there are three bits below the fraction.               *)
LEMMA PackExtendedIs ==
  ASSUME NEW s \in {0, 1}, NEW md \in Modes, NEW ext \in Nat,
         Pow2[FracBits + 3] <= ext, ext < Pow2[FracBits + 4], NEW exponent \in Int
  PROVE  PackExtended(s, ext, exponent, md) = Late(RoundAndPack(s, exponent + Bias, ext, md))
<1>. DEFINE e == Lowest(Bias, exponent)
            x == Kept(Bias, ext, exponent)
            n == KeptUnits(s, x, md)
            lost == x % 8 # 0
            r == RoundExtended(FracBits, Bias, s, ext, exponent, md)
            exp == exponent + Bias
<1>1. /\ Bias \in Nat /\ ExpMax = 2 * Bias + 1 /\ ExpMax \in Nat /\ ExpMax >= 3 /\ Bias >= 1
      /\ ImplicitBit \in Nat /\ ImplicitBit >= 4
  BY Fields, GuardPowers
<1>0. FracBits \in Nat /\ FracBits + 4 <= BigBits
  BY ThreeBits
<1>2. /\ x \in Nat /\ e \in Int /\ n \in Nat /\ n <= 2 * ImplicitBit
      /\ r = [inexact |-> lost,
              exponent |-> IF n = 2 * ImplicitBit THEN e + 1 ELSE e,
              sig |-> IF n = 2 * ImplicitBit THEN ImplicitBit ELSE n]
  <2>1. /\ x \in Nat /\ e \in Int /\ n \in Nat /\ n <= 2 * Pow2[FracBits]
        /\ r = [inexact |-> lost,
                exponent |-> IF n = 2 * Pow2[FracBits] THEN e + 1 ELSE e,
                sig |-> IF n = 2 * Pow2[FracBits] THEN Pow2[FracBits] ELSE n]
    <3>1. KeptAs(Bias, s, ext, exponent, md, x, e, n)
      BY DEF KeptAs
    <3>. HIDE DEF x, e, n
    <3>. QED BY <1>0, <1>1, <3>1, ExtendedIs
  <2>. QED BY <2>1 DEF ImplicitBit
<1>3. /\ x \div 8 \in Nat /\ x \div 8 < 2 * ImplicitBit /\ x < 16 * ImplicitBit
      /\ x = (x \div 8) * 8 + (x % 8) /\ x % 8 \in 0..7
  <2>1. x \div 8 \in Nat /\ x \div 8 < 2 * Pow2[FracBits] /\ x < Pow2[FracBits + 4]
    BY <1>1, <1>0, KeptBound
  <2>2. x \div 8 < 2 * ImplicitBit /\ x < 16 * ImplicitBit
    BY <2>1, ThreeBits
  <2>. HIDE DEF x
  <2>3. x = (x \div 8) * 8 + (x % 8) /\ x % 8 \in 0..7
    BY <1>2
  <2>. QED BY <2>1, <2>2, <2>3
<1>. DEFINE m == x \div 8
            up == KeptUp(s, x, md)
<1>4. up \in BOOLEAN /\ n = IF up THEN m + 1 ELSE m
  BY <1>2, RoundUpIs DEF KeptUnits
<1>5. /\ Units(x) = m /\ (Rest(x) # 0) = lost
      /\ SigUp(s, x, md) = up
  BY ThreeBits DEF Units, Rest, SigUp, KeptUp
<1>6. PackExtended(s, ext, exponent, md) = Deliver(FracBits, Bias, s, r, md)
  BY DEF PackExtended
<1>7. 1 - Bias <= e /\ exp \in Int /\ (exponent >= 1 - Bias => e = exponent)
      /\ (exponent < 1 - Bias => e = 1 - Bias)
  BY <1>1 DEF Lowest
<1>8. exponent >= 1 - Bias => x = ext /\ ImplicitBit <= n /\ ImplicitBit <= m
  <2>. SUFFICES ASSUME exponent >= 1 - Bias PROVE x = ext /\ ImplicitBit <= n /\ ImplicitBit <= m
    OBVIOUS
  <2>1. e - exponent = 0
    BY <1>7
  <2>2. x = ShrJam(ext, 0)
    BY <2>1 DEF Kept
  <2>3. ShrJam(ext, 0) = ext
    <3>1. ~ (0 >= BigBits)
      BY BigWidths, Widths
    <3>2. ext \div 1 = ext /\ ext % 1 = 0
      OBVIOUS
    <3>. QED BY <3>1, <3>2, SmallPowers DEF ShrJam, Shr, AnyLow, OrSticky
  <2>4. 8 * ImplicitBit <= x
    BY <2>2, <2>3, ThreeBits
  <2>5. ImplicitBit <= m
    BY <2>4, <1>1, <1>3
  <2>. QED BY <2>2, <2>3, <2>5, <1>1, <1>3, <1>4
<1>. HIDE DEF e, r, lost, up, m
<1>9. lost \in BOOLEAN
  BY DEF lost
<1>10. m \in Nat /\ m < 2 * ImplicitBit
  BY <1>3 DEF m
<1>11. e = 1 - Bias \/ ImplicitBit <= n
  BY <1>7, <1>8, <1>1
<1>delivered.
      /\ e > Bias => Deliver(FracBits, Bias, s, r, md) = Beyond(FracBits, Bias, s, md)
      /\ e <= Bias =>
           /\ n < ImplicitBit => Deliver(FracBits, Bias, s, r, md) =
                         [res |-> [s |-> s, e |-> 0, f |-> n], fe |-> ToldTiny(lost)]
           /\ ImplicitBit <= n /\ n < 2 * ImplicitBit =>
                Deliver(FracBits, Bias, s, r, md) =
                  [res |-> [s |-> s, e |-> e + Bias, f |-> n - ImplicitBit], fe |-> Told(lost)]
           /\ n = 2 * ImplicitBit =>
                Deliver(FracBits, Bias, s, r, md) =
                  IF e = Bias THEN Beyond(FracBits, Bias, s, md)
                  ELSE [res |-> [s |-> s, e |-> e + 1 + Bias, f |-> 0], fe |-> Told(lost)]
  <2>. HIDE DEF n
  <2>1. ImplicitBit = Pow2[FracBits]
    BY DEF ImplicitBit
  <2>2. Carried(FracBits, ImplicitBit, Bias, r, lost, e, n)
    BY <1>0, <1>1, <1>2, <1>7, <1>9, <1>11, <2>1, Zenon DEF Carried
  <2>. HIDE DEF n
  <2>. QED BY <2>2, DeliverIs
<1>12. e > Bias => Deliver(FracBits, Bias, s, r, md) = Overflow(s, md)
  BY <1>delivered, SameBeyond
<1>13. e <= Bias =>
         /\ n < ImplicitBit => Deliver(FracBits, Bias, s, r, md) =
                       [res |-> [s |-> s, e |-> 0, f |-> n], fe |-> ToldTiny(lost)]
         /\ ImplicitBit <= n /\ n < 2 * ImplicitBit =>
              Deliver(FracBits, Bias, s, r, md) =
                [res |-> [s |-> s, e |-> e + Bias, f |-> n - ImplicitBit], fe |-> Told(lost)]
         /\ n = 2 * ImplicitBit =>
              Deliver(FracBits, Bias, s, r, md) =
                IF e = Bias THEN Overflow(s, md)
                ELSE [res |-> [s |-> s, e |-> e + 1 + Bias, f |-> 0], fe |-> Told(lost)]
  BY <1>delivered, SameBeyond
<1>14. CASE exp >= ExpMax
  <2>1. RoundAndPack(s, exp, ext, md) = Overflow(s, md)
    BY <1>14 DEF RoundAndPack
  <2>2. e > Bias
    BY <1>14, <1>1, <1>7
  <2>. QED BY <1>6, <1>12, <2>1, <2>2, SameBeyond
<1>15. CASE exp < ExpMax
  <2>. DEFINE k == IF exp <= 0 THEN 1 ELSE exp
  <2>1. k \in 1..(ExpMax - 1) /\ k = e + Bias /\ e <= Bias
    BY <1>15, <1>1, <1>7
  <2>2. RoundAndPack(s, exp, ext, md) = Neighbour(s, k, m, up, lost, md) /\ (k = 1 \/ ImplicitBit <= m)
    <3>1. CASE exp <= 0
      <4>1. 1 - exp \in Nat \ {0} /\ e - exponent = 1 - exp
        BY <3>1, <1>1, <1>7
      <4>2. ext < Pow2[WordBits]
        <5>1. Pow2[FracBits + 4] <= Pow2[WordBits] /\ Pow2[FracBits + 4] \in Nat /\ Pow2[WordBits] \in Nat
          <6>1. FracBits + 4 \in Nat /\ WordBits \in Nat /\ FracBits + 4 <= WordBits /\ WordBits <= MaxShift
                /\ FracBits + 4 \in 0..MaxShift /\ WordBits \in 0..MaxShift
            BY ThreeBits, Widths
          <6>. QED BY <6>1, Pow2Monotone, Pow2Positive
        <5>. QED BY <5>1
      <4>3. x = ShiftRightJamming(ext, 1 - exp)
        <5>1. x = ShrJam(ext, 1 - exp)
          BY <4>1 DEF Kept, e
        <5>. QED BY <4>1, <4>2, <5>1, JamIs
      <4>4. x < Pow2[ImplicitAt]
        <5>1. ImplicitAt \in Nat /\ ImplicitAt > 0 /\ ImplicitAt < WordBits /\ ext < Pow2[ImplicitAt + 1]
          BY ThreeBits, Widths
        <5>. QED BY <5>1, <4>1, <4>3, JamHalf
      <4>5. Placed(0, x)
        BY <4>4 DEF Placed
      <4>6. 0 \in 0..(ExpMax - 1) /\ Binade(0) = 1
        BY <1>1 DEF Binade
      <4>7. Pack(s, 0, x, md) = Neighbour(s, 1, m, up, lost, md)
        BY <1>2, <1>5, <4>5, <4>6, PackIs
      <4>8. RoundAndPack(s, exp, ext, md) = Pack(s, 0, x, md)
        BY <3>1, <4>3, <1>1 DEF RoundAndPack
      <4>. QED BY <4>7, <4>8, <3>1
    <3>2. CASE ~ (exp <= 0)
      <4>1. x = ext /\ ImplicitBit <= m /\ exp \in 0..(ExpMax - 1) /\ exp > 0
        BY <3>2, <1>15, <1>1, <1>7, <1>8 DEF m
      <4>2. Placed(exp, x) /\ Binade(exp) = exp
        <5>1. ImplicitAt + 1 = FracBits + 4
          BY ThreeBits, Widths
        <5>. QED BY <4>1, <5>1, ThreeBits DEF Placed, Binade
      <4>3. Pack(s, exp, x, md) = Neighbour(s, exp, m, up, lost, md)
        BY <1>2, <1>5, <4>1, <4>2, PackIs
      <4>4. RoundAndPack(s, exp, ext, md) = Pack(s, exp, x, md)
        BY <3>2, <1>15, <4>1, <1>1 DEF RoundAndPack
      <4>. QED BY <4>1, <4>3, <4>4, <3>2
    <3>. QED BY <3>1, <3>2
  <2>. HIDE DEF k, exp, n
  <2>3. /\ n < ImplicitBit =>
             Neighbour(s, k, m, up, lost, md) =
               [res |-> [s |-> s, e |-> 0, f |-> n], fe |-> Flags(k, m, lost)]
        /\ ImplicitBit <= n /\ n < 2 * ImplicitBit =>
             Neighbour(s, k, m, up, lost, md) =
               [res |-> [s |-> s, e |-> k, f |-> n - ImplicitBit], fe |-> Flags(k, m, lost)]
        /\ n = 2 * ImplicitBit =>
             Neighbour(s, k, m, up, lost, md) =
               IF k + 1 = ExpMax THEN Overflow(s, md)
               ELSE [res |-> [s |-> s, e |-> k + 1, f |-> 0], fe |-> Flags(k, m, lost)]
    BY <1>4, <1>10, <2>1, <2>2, NeighbourFields
  <2>5. CASE n < ImplicitBit
    <3>1. m < ImplicitBit /\ k = 1
      BY <2>5, <1>1, <1>4, <1>10, <2>2
    <3>2. Flags(k, m, lost) = ToldTiny(lost)
      BY <3>1 DEF Flags, ToldTiny
    <3>3. Late([res |-> [s |-> s, e |-> 0, f |-> n], fe |-> ToldTiny(lost)]) =
            [res |-> [s |-> s, e |-> 0, f |-> n], fe |-> ToldTiny(lost)]
      BY <1>9 DEF Late, ToldTiny
    <3>. QED BY <1>6, <1>13, <2>1, <2>2, <2>3, <2>5, <3>2, <3>3 DEF exp
  <2>6. CASE ImplicitBit <= n /\ n < 2 * ImplicitBit
    <3>0. k # 0
      BY <2>1, <1>1
    <3>1. \A f : Late([res |-> [s |-> s, e |-> k, f |-> f], fe |-> Flags(k, m, lost)]) =
            [res |-> [s |-> s, e |-> k, f |-> f], fe |-> Told(lost)]
      BY <1>9, <3>0, LateNormal
    <3>. QED BY <1>6, <1>13, <2>1, <2>2, <2>3, <2>6, <3>1 DEF exp
  <2>7. CASE n = 2 * ImplicitBit
    <3>. DEFINE next == k + 1
    <3>0. next # 0
      BY <2>1, <1>1
    <3>1. Late([res |-> [s |-> s, e |-> next, f |-> 0], fe |-> Flags(k, m, lost)]) =
            [res |-> [s |-> s, e |-> next, f |-> 0], fe |-> Told(lost)]
      <4>. HIDE DEF next
      <4>. QED BY <1>9, <3>0, LateNormal
    <3>2. k + 1 = e + 1 + Bias /\ (k + 1 = ExpMax <=> e = Bias)
      BY <2>1, <1>1, <1>2
    <3>. QED BY <1>6, <1>13, <2>1, <2>2, <2>3, <2>7, <3>1, <3>2, SameBeyond DEF exp
  <2>. QED BY <1>1, <1>2, <2>5, <2>6, <2>7 DEF n
<1>. QED BY <1>1, <1>7, <1>14, <1>15

LEMMA HighestIs ==
  ASSUME NEW x \in Nat, x >= 1, x < Pow2[BigBits]
  PROVE  /\ Highest(x) \in 0..(BigBits - 1)
         /\ Pow2[Highest(x)] <= x /\ x < Pow2[Highest(x) + 1]
         /\ \A n \in Nat : Pow2[n] <= x /\ n < BigBits => n <= Highest(x)
         /\ \A n \in Nat : x < Pow2[n] /\ n <= BigBits => Highest(x) < n
<1>0. BigBits \in Nat /\ BigBits < MaxShift /\ MaxShift \in Nat
      /\ \A n \in 0..BigBits : Pow2[n] \in Nat /\ Pow2[n] >= 1
  BY BigWidths, Widths
<1>. DEFINE Larger == {n \in 0..BigBits : x < Pow2[n]}
<1>1. Larger \subseteq Nat /\ BigBits \in Larger
  BY <1>0
<1>2. PICK n \in Larger : \A y \in Larger : n <= y
  <2>. HIDE DEF Larger
  <2>. QED BY <1>1, Least
<1>3. n \in 0..BigBits /\ x < Pow2[n]
  BY <1>2
<1>4. n # 0
  BY <1>3, Pow2Step
<1>5. Pow2[n - 1] <= x
  <2>1. n - 1 \in 0..BigBits /\ n - 1 \notin Larger
    BY <1>2, <1>3, <1>4, <1>0
  <2>2. Pow2[n - 1] \in Nat
    BY <2>1, <1>0
  <2>. QED BY <2>1, <2>2
<1>. DEFINE h == n - 1
<1>6. h \in 0..(BigBits - 1) /\ Pow2[h] <= x /\ x < Pow2[h + 1]
  BY <1>3, <1>4, <1>5, <1>0
<1>7. /\ Highest(x) \in 0..(BigBits - 1)
      /\ Pow2[Highest(x)] <= x /\ x < Pow2[Highest(x) + 1]
  <2>. HIDE DEF h
  <2>. QED BY <1>6 DEF Highest
<1>. DEFINE g == Highest(x)
<1>. HIDE DEF g, h
<1>8. ASSUME NEW m \in Nat, Pow2[m] <= x, m < BigBits PROVE m <= g
  <2>. SUFFICES ASSUME m > g PROVE FALSE
    BY <1>7 DEF g
  <2>1. g + 1 \in Nat /\ g + 1 <= m /\ m <= MaxShift
    BY <1>0, <1>7, <1>8 DEF g
  <2>2. Pow2[g + 1] <= Pow2[m]
    BY <2>1, Pow2Monotone
  <2>3. Pow2[g + 1] \in Nat /\ Pow2[m] \in Nat
    BY <1>0, <2>1, <1>8
  <2>. QED BY <1>7, <1>8, <2>2, <2>3 DEF g
<1>9. ASSUME NEW m \in Nat, x < Pow2[m], m <= BigBits PROVE g < m
  <2>. SUFFICES ASSUME m <= g PROVE FALSE
    BY <1>7 DEF g
  <2>1. g \in Nat /\ g <= MaxShift /\ g \in 0..BigBits /\ m \in 0..BigBits
    BY <1>0, <1>7, <1>9 DEF g
  <2>2. Pow2[m] <= Pow2[g]
    BY <2>1, Pow2Monotone
  <2>3. Pow2[g] \in Nat /\ Pow2[m] \in Nat
    BY <1>0, <2>1
  <2>. QED BY <1>7, <1>9, <2>2, <2>3 DEF g
<1>. QED BY <1>7, <1>8, <1>9 DEF g

(* Cutting n bits of a magnitude that stands for a value.                  *)
LEMMA BigJamStands ==
  ASSUME NEW mag, NEW k, NEW num, NEW den, HoldsValue(mag, k, num, den), mag < Pow2[BigBits],
         NEW n \in Nat, n <= MaxShift, NEW f, f = k + n, InTable(f)
  PROVE  Stands(ShrJam(mag, n), num * Under(f), den * Over(f), 2)
<1>. DEFINE O == Over(k)
            U == Under(k)
            V == Under(f)
            L == Over(f)
            d == Pow2[n]
            P == num * U
            Q == den * O
            sig == ShrJam(mag, n)
<1>1. /\ mag \in Nat /\ InTable(k) /\ k \in Int /\ num \in Nat /\ den \in Nat /\ den >= 1
      /\ P \in Nat /\ Q \in Nat /\ Q >= 1
      /\ Stands(mag, P, Q, 2)
  BY HoldsStands
<1>2. O \in Nat /\ O >= 1 /\ U \in Nat /\ U >= 1 /\ L \in Nat /\ L >= 1 /\ V \in Nat /\ V >= 1
  BY <1>1, OverUnder
<1>3. d \in Nat /\ d >= 1 /\ InTable(n)
  <2>1. n \in 0..MaxShift /\ MaxShift \in Nat
    BY Widths
  <2>. QED BY <2>1, Pow2Positive DEF InTable
<1>4. (O * d) * V = U * L
  BY <1>1, <1>3, OverSum
<1>5. \A y \in Int : /\ sig < 2 * y <=> mag < (2 * y) * d
                     /\ sig = 2 * y <=> mag = (2 * y) * d
  BY <1>1, BigJamSide
<1>. HIDE DEF sig, O, U, V, L, d
<1>6. Stands(sig, P, Q * d, 2)
  <2>. SUFFICES ASSUME NEW y \in Int
       PROVE  /\ sig < 2 * y <=> P < (2 * y) * (Q * d)
              /\ sig = 2 * y <=> P = (2 * y) * (Q * d)
    BY DEF Stands
  <2>. DEFINE w == y * d
  <2>1. w \in Int
    BY <1>3
  <2>. HIDE DEF P, Q
  <2>2. 2 * w = (2 * y) * d /\ (2 * w) * Q = (2 * y) * (Q * d)
    BY <1>1, <1>3, Z3 DEF w
  <2>. HIDE DEF w
  <2>3. /\ mag < 2 * w <=> P < (2 * w) * Q
        /\ mag = 2 * w <=> P = (2 * w) * Q
    BY <1>1, <2>1 DEF Stands
  <2>. QED BY <1>5, <2>2, <2>3
<1>7. P * (den * L) = (num * V) * (Q * d)
  <2>1. (num * U) * (den * L) = (num * den) * (U * L)
    BY <1>1, <1>2, Z3
  <2>2. (num * V) * ((den * O) * d) = (num * den) * ((O * d) * V)
    BY <1>1, <1>2, <1>3, Z3
  <2>. QED BY <2>1, <2>2, <1>4
<1>8. P \in Int /\ Q * d \in Nat /\ Q * d >= 1 /\ num * V \in Int /\ den * L \in Nat /\ den * L >= 1
  <2>1. P \in Int /\ num * V \in Int /\ den * L \in Nat /\ den * L >= 1
    BY <1>1, <1>2
  <2>2. Q * d \in Nat /\ Q * d >= 1
    <3>. HIDE DEF Q
    <3>. QED BY <1>1, <1>3
  <2>. QED BY <2>1, <2>2
<1>. DEFINE X == Q * d
            R == num * V
            S == den * L
<1>. HIDE DEF P, Q, X, R, S
<1>9. Stands(sig, R, S, 2)
  <2>1. P * S = R * X /\ Stands(sig, P, X, 2) /\ P \in Int /\ X \in Nat /\ X >= 1
        /\ R \in Int /\ S \in Nat /\ S >= 1
    BY <1>6, <1>7, <1>8 DEF X, R, S
  <2>2. 2 \in Nat
    OBVIOUS
  <2>. QED BY <2>1, <2>2, SameRatio
<1>. QED BY <1>9 DEF R, S, V, L, sig

(* From the unit of the extended significand to its exponent.              *)
LEMMA ExtendedUnit ==
  ASSUME NEW ext, NEW num \in Nat, NEW den \in Nat, den >= 1, NEW f, InTable(f), InTable(f + 3),
         Stands(ext, num * Under(f), den * Over(f), 4)
  PROVE  Scalable(f + 4) /\ StandsFor(f + 4, ext, num, den, Half)
<1>1. f \in Int /\ f + 4 \in Int /\ (f + 4) - 1 = f + 3 /\ InTable(3) /\ 3 \in Nat
  <2>1. MaxShift \in Nat /\ MaxShift >= 3
    BY Widths
  <2>. QED BY <2>1 DEF InTable
<1>2. Scalable(f + 4)
  BY <1>1 DEF Scalable, InTable
<1>. DEFINE O == Over(f)
            U == Under(f)
            L == Over(f + 3)
            V == Under(f + 3)
<1>3. O \in Nat /\ O >= 1 /\ U \in Nat /\ U >= 1 /\ L \in Nat /\ L >= 1 /\ V \in Nat /\ V >= 1
  BY <1>1, OverUnder
<1>4. (O * 8) * V = U * L
  <2>1. Pow2[3] = 8
    BY ThreeBits, BigAssumption DEF Guard, BigAssumption
  <2>. QED BY <1>1, <2>1, OverSum
<1>5. Up(f + 4) = 8 * V /\ Down(f + 4) = L
  BY <1>1, ScaleOf, ThreeBits
<1>. HIDE DEF O, U, L, V
<1>. DEFINE X == num * U
            Y == den * O
            P == num * (8 * V)
            Q == den * L
<1>6. X * Q = P * Y
  <2>1. X * Q = (num * den) * (U * L) /\ P * Y = (num * den) * ((O * 8) * V)
    BY <1>3, Z3
  <2>. QED BY <2>1, <1>4
<1>7. X \in Int /\ Y \in Nat /\ Y >= 1 /\ P \in Int /\ Q \in Nat /\ Q >= 1
  BY <1>3
<1>8. Stands(ext, X, Y, 4) /\ 4 \in Nat
  BY DEF O, U
<1>. HIDE DEF X, Y, P, Q
<1>9. Stands(ext, P, Q, 4)
  BY <1>6, <1>7, <1>8, SameRatio
<1>. QED BY <1>2, <1>5, <1>9, ThreeBits DEF StandsFor, P, Q

LEMMA PackScaledRounds ==
  ASSUME NEW s, NEW mag, NEW scale, NEW md, NEW k, NEW num, NEW den,
         Packs(s, mag, scale, md, k, num, den)
  PROVE  PackScaled(s, mag, scale, md) = Late(Ref!Round(s, num, den, md))
<1>. DEFINE h == Highest(mag)
            t == FracBits + 3
            f == k + h - t
            ext == IF h > t THEN ShrJam(mag, h - t) ELSE Shl(mag, t - h)
<1>0. /\ s \in {0, 1} /\ md \in Modes
      /\ mag \in Nat /\ mag >= 1 /\ mag < Pow2[BigBits]
      /\ scale \in Int /\ k = scale + Bias + FracBits - 1
      /\ InTable(f) /\ InTable(f + 3)
      /\ HoldsValue(mag, k, num, den)
  <2>1. Packs(s, mag, scale, md, k, num, den) /\ HoldsValue(mag, k, num, den)
    BY DEF Packs
  <2>2. mag \in Nat /\ mag >= 1 /\ mag < Pow2[BigBits] /\ k \in Int
    BY <2>1, HoldsStands DEF Packs
  <2>3. h \in Int /\ FracBits \in Int
    BY <2>2, HighestIs, BigWidths, Widths
  <2>. HIDE DEF h
  <2>4. f = k + h - FracBits - 3 /\ f + 3 = k + h - FracBits
    BY <2>2, <2>3
  <2>. QED BY <2>1, <2>4 DEF Packs, h
<1>1. /\ InTable(k) /\ k \in Int /\ num \in Nat /\ den \in Nat /\ den >= 1
      /\ Stands(mag, num * Under(k), den * Over(k), 2)
  BY <1>0, HoldsStands
<1>2. /\ BigBits \in Nat /\ BigBits < MaxShift /\ MaxShift \in Nat /\ FracBits \in Nat
      /\ FracBits + 8 <= BigBits /\ t \in Nat /\ Bias \in Nat
  BY BigWidths, Widths, Fields
<1>3. h \in Nat /\ h < BigBits /\ Pow2[h] <= mag /\ mag < Pow2[h + 1]
      /\ (Pow2[t] <= mag => t <= h)
  <2>1. t < BigBits
    BY <1>2
  <2>. QED BY <1>0, <1>2, <2>1, HighestIs
<1>4. PackScaled(s, mag, scale, md) = PackExtended(s, ext, scale + h, md)
  <2>1. mag # 0
    BY <1>0
  <2>. QED BY <2>1 DEF PackScaled
<1>. HIDE DEF h
<1>5. /\ ext \in Nat /\ Pow2[t] <= ext /\ ext < Pow2[t + 1]
      /\ Stands(ext, num * Under(f), den * Over(f), 4)
  <2>1. CASE h > t
    <3>. DEFINE n == h - t
    <3>1. n \in Nat /\ n <= MaxShift /\ n < BigBits /\ f = k + n /\ ext = ShrJam(mag, n)
      BY <2>1, <1>2, <1>3
    <3>2. Stands(ext, num * Under(f), den * Over(f), 2)
      <4>. HIDE DEF f, ext, n
      <4>. QED BY <1>0, <3>1, BigJamStands
    <3>3. Stands(ext, num * Under(f), den * Over(f), 4)
      <4>. HIDE DEF f, ext
      <4>. QED BY <3>2, TwiceAsCoarse
    <3>4. (t + n) + 1 <= MaxShift /\ t + n = h
      BY <3>1, <1>2, <1>3
    <3>5. /\ mag \div Pow2[n] \in Nat /\ Pow2[t] <= mag \div Pow2[n]
          /\ mag \div Pow2[n] < 2 * Pow2[t]
      <4>1. Pow2[t + n] <= mag /\ mag < Pow2[(t + n) + 1]
        BY <3>4, <1>3
      <4>. HIDE DEF t, n
      <4>. QED BY <4>1, <3>1, <3>4, <1>0, <1>2, DivideRange
    <3>6. ext = OrSticky(mag \div Pow2[n], mag % Pow2[n] # 0)
      <4>1. ~ (n >= BigBits)
        BY <3>1, <1>2
      <4>. QED BY <3>1, <4>1 DEF ShrJam, Shr, AnyLow
    <3>7. Pow2[t] \in Nat /\ Pow2[t + 1] = 2 * Pow2[t]
      <4>1. t \in 0..MaxShift /\ t + 1 <= MaxShift
        BY <1>2
      <4>. QED BY <4>1, <1>2, Pow2Step
    <3>8. ext \in Nat /\ Pow2[t] <= ext /\ ext < 2 * Pow2[t]
      <4>1. (mag % Pow2[n] # 0) \in BOOLEAN
        OBVIOUS
      <4>. HIDE DEF ext
      <4>2. OrSticky(mag \div Pow2[n], mag % Pow2[n] # 0) \in Nat
            /\ mag \div Pow2[n] <= OrSticky(mag \div Pow2[n], mag % Pow2[n] # 0)
            /\ OrSticky(mag \div Pow2[n], mag % Pow2[n] # 0) < 2 * Pow2[t]
        BY <4>1, <3>5, <3>7, StickyBound
      <4>. HIDE DEF n
      <4>. QED BY <4>2, <3>5, <3>6, <3>7
    <3>. QED BY <3>3, <3>7, <3>8
  <2>2. CASE ~ (h > t)
    <3>. DEFINE n == t - h
    <3>1. n \in Nat /\ n <= MaxShift /\ n < BigBits /\ k = f + n /\ ext = Shl(mag, n) /\ InTable(n)
      BY <2>2, <1>1, <1>2, <1>3 DEF InTable
    <3>2. ext = mag * Pow2[n]
      <4>1. h + 1 \in Nat /\ (h + 1) + n <= BigBits
        BY <3>1, <1>2, <1>3
      <4>. HIDE DEF n, ext
      <4>. QED BY <4>1, <3>1, <1>0, <1>3, ShlFits
    <3>3. /\ mag * Pow2[n] \in Nat /\ Pow2[t] <= mag * Pow2[n] /\ mag * Pow2[n] < Pow2[t + 1]
      <4>1. h <= t /\ t < MaxShift
        BY <2>2, <1>2, <1>3
      <4>. HIDE DEF t
      <4>. QED BY <4>1, <1>0, <1>2, <1>3, ShiftToTop
    <3>4. CASE Weighs(mag, k, num, den)
      <4>1. Weighs(ext, f, num, den)
        <5>. HIDE DEF f, n, ext
        <5>. QED BY <3>1, <3>2, <3>4, <1>0, FinerFrame
      <4>2. den * Over(f) \in Nat /\ den * Over(f) >= 1 /\ num * Under(f) \in Int
        <5>1. Over(f) \in Nat /\ Over(f) >= 1 /\ Under(f) \in Nat
          BY <1>0, OverUnder
        <5>. HIDE DEF f
        <5>. QED BY <5>1, <1>1
      <4>. HIDE DEF f, ext
      <4>. DEFINE P == num * Under(f)
                  Q == den * Over(f)
      <4>3. ext * Q = P /\ ext \in Int
        BY <4>1 DEF Weighs
      <4>4. P \in Int /\ Q \in Nat /\ Q >= 1 /\ 4 \in Nat
        BY <4>2
      <4>. HIDE DEF P, Q
      <4>5. Stands(ext, P, Q, 4)
        BY <4>3, <4>4, ExactStands
      <4>. QED BY <4>5, <3>2, <3>3 DEF P, Q
    <3>5. CASE ~ Weighs(mag, k, num, den)
      <4>1. h = t
        BY <3>5, <2>2, <1>0, <1>2, <1>3 DEF HoldsValue
      <4>2. n = 0 /\ f = k
        BY <4>1, <1>1, <1>2
      <4>3. ext = mag
        BY <4>2, <3>2, <1>0, SmallPowers
      <4>4. Stands(ext, num * Under(f), den * Over(f), 2)
        <5>. HIDE DEF f, ext
        <5>. QED BY <4>2, <4>3, <1>1
      <4>5. Stands(ext, num * Under(f), den * Over(f), 4)
        <5>. HIDE DEF f, ext
        <5>. QED BY <4>4, TwiceAsCoarse
      <4>. QED BY <4>5, <3>2, <3>3
    <3>. QED BY <3>4, <3>5
  <2>. QED BY <2>1, <2>2
<1>. DEFINE e == f + 4
<1>6. Scalable(e) /\ StandsFor(e, ext, num, den, Half)
  <2>. HIDE DEF f, ext
  <2>. QED BY <1>0, <1>1, <1>5, ExtendedUnit
<1>7. e = (scale + h) + Bias /\ e \in Int
  BY <1>0, <1>2, <1>3
<1>8. PackExtended(s, ext, scale + h, md) = Late(RoundAndPack(s, (scale + h) + Bias, ext, md))
  <2>1. scale + h \in Int /\ Pow2[FracBits + 3] <= ext /\ ext < Pow2[FracBits + 4]
    <3>1. t + 1 = FracBits + 4
      BY <1>2
    <3>. QED BY <3>1, <1>0, <1>3, <1>5
  <2>. HIDE DEF ext
  <2>. QED BY <2>1, <1>0, <1>5, PackExtendedIs
<1>9. RoundAndPack(s, e, ext, md) = Ref!Round(s, num, den, md)
  <2>1. Pow2[ImplicitAt] <= ext /\ ext < Pow2[ImplicitAt + 1] /\ ext \in Nat
    <3>1. ImplicitAt = t /\ ImplicitAt + 1 = t + 1
      BY ThreeBits
    <3>. QED BY <3>1, <1>5
  <2>. HIDE DEF ext, e
  <2>. QED BY <2>1, <1>0, <1>1, <1>6, RoundsCorrectly
<1>. HIDE DEF e, ext
<1>. QED BY <1>4, <1>7, <1>8, <1>9

(* What decode returns is the value.                                       *)
LEMMA RegularFields ==
  ASSUME NEW v \in Values, Regular(v)
  PROVE  /\ v.e \in 0..(ExpMax - 1) /\ v.e < ExpMax /\ ~ IsZero(v) /\ ~ IsNaN(v) /\ ~ IsInf(v)
         /\ v.f \in Nat /\ v.f < ImplicitBit /\ v.s \in {0, 1} /\ (v.e = 0 => v.f >= 1)
<1>1. /\ v.e \in 0..ExpMax /\ v.f \in Nat /\ v.f < ImplicitBit /\ v.s \in {0, 1} /\ ExpMax \in Nat
  BY Fields DEF Values
<1>. QED BY <1>1 DEF Regular, Finite, IsNaN, IsInf, IsZero

LEMMA ValueWeighs ==
  ASSUME NEW v \in Values, Regular(v)
  PROVE  /\ Weighs(Sig(v), Exponent(v) + Bias - 1, Ref!Mag(v), 1)
         /\ Ref!Mag(v) \in Nat /\ Ref!Mag(v) >= 1
         /\ Exponent(v) \in (1 - Bias - FracBits)..Bias
         /\ Sig(v) \in Nat /\ Pow2[FracBits] <= Sig(v) /\ Sig(v) < Pow2[FracBits + 1]
<1>1. /\ v.e \in 0..(ExpMax - 1) /\ v.e < ExpMax /\ ~ IsZero(v)
      /\ v.f \in Nat /\ v.f < ImplicitBit /\ (v.e = 0 => v.f >= 1)
  BY RegularFields
<1>2. /\ Sig(v) \in Nat /\ Pow2[FracBits] <= Sig(v) /\ Sig(v) < Pow2[FracBits + 1]
      /\ Exponent(v) \in (1 - Bias - FracBits)..Bias
  BY SigWidth
<1>3. /\ Bias \in Nat /\ ExpMax = 2 * Bias + 1 /\ ExpMax \in Nat /\ ImplicitBit = Pow2[FracBits]
      /\ ExpMax + FracBits < MaxShift /\ MaxShift \in Nat /\ FracBits \in Nat
      /\ FracBits + 8 <= BigBits /\ BigBits < MaxShift /\ BigBits \in Nat
  BY Fields, Widths, BigWidths
<1>4. Ref!Mag(v) \in Nat /\ Ref!Mag(v) >= 1
  BY <1>1, OperandMagnitude
<1>5. Ref!Mag(v) = Whole(v) * Unit(Binade(v.e)) /\ Whole(v) \in Nat /\ Binade(v.e) \in 1..(ExpMax - 1)
  BY <1>1, ValueAt
<1>6. CASE v.e = 0
  <2>1. Whole(v) = v.f /\ Unit(Binade(v.e)) = 1
    <3>1. 1 \in 1..ExpMax
      BY <1>1, <1>3
    <3>2. Unit(1) = 1
      BY <3>1, UnitFacts
    <3>. QED BY <3>2, <1>6 DEF Whole, Binade
  <2>2. Ref!Mag(v) = v.f
    BY <2>1, <1>5, <1>1
  <2>. DEFINE h == Highest(v.f)
              n == FracBits - h
  <2>3. v.f \in Nat /\ v.f >= 1 /\ v.f < Pow2[FracBits]
    BY <1>1, <1>3, <1>6
  <2>4. h \in Nat /\ h < FracBits /\ Pow2[h] <= v.f /\ v.f < Pow2[h + 1]
    <3>1. FracBits <= BigBits /\ v.f < Pow2[BigBits]
      <4>1. Pow2[FracBits] <= Pow2[BigBits]
        BY <1>3, Pow2Monotone
      <4>2. Pow2[FracBits] \in Nat /\ Pow2[BigBits] \in Nat
        <5>1. FracBits \in 0..MaxShift /\ BigBits \in 0..MaxShift
          BY <1>3
        <5>. QED BY <5>1, Pow2Step
      <4>. QED BY <4>1, <4>2, <2>3, <1>3
    <3>. QED BY <3>1, <2>3, <1>3, HighestIs
  <2>5. Sig(v) = v.f * Pow2[n]
    <3>1. n \in Nat /\ n < BigBits /\ h + 1 \in Nat /\ (h + 1) + n <= BigBits
      BY <2>4, <1>3
    <3>2. Shl(v.f, n) = v.f * Pow2[n]
      <4>. HIDE DEF n, h
      <4>. QED BY <3>1, <2>3, <2>4, ShlFits
    <3>. QED BY <3>2, <1>6 DEF Sig
  <2>6. Exponent(v) + Bias - 1 = 0 - n
    BY <1>6, <1>3, <2>4 DEF Exponent, Emin
  <2>7. Weighs(v.f, 0, v.f, 1)
    <3>1. InTable(0) /\ Over(0) = 1 /\ Under(0) = 1
      BY <1>3, SmallPowers DEF InTable, Over, Under
    <3>. QED BY <3>1, <2>3 DEF Weighs
  <2>8. n \in Nat /\ InTable(n) /\ InTable(0 - n) /\ 0 = (0 - n) + n
    BY <2>4, <1>3 DEF InTable
  <2>9. Weighs(v.f * Pow2[n], 0 - n, v.f, 1)
    <3>. HIDE DEF n
    <3>. QED BY <2>7, <2>8, FinerFrame
  <2>. QED BY <2>9, <2>5, <2>6, <2>2, <1>2, <1>4
<1>7. CASE v.e # 0
  <2>1. Sig(v) = v.f + ImplicitBit /\ Exponent(v) + Bias - 1 = v.e - 1
    BY <1>7, <1>1, <1>3 DEF Sig, Exponent
  <2>2. Whole(v) = Sig(v) /\ Binade(v.e) = v.e
    BY <1>7, <2>1 DEF Whole, Binade
  <2>3. /\ InTable(v.e - 1) /\ Over(v.e - 1) = Unit(v.e) /\ Under(v.e - 1) = 1
    BY <1>7, <1>1, <1>3 DEF InTable, Over, Under, Unit
  <2>4. Unit(v.e) \in Nat
    BY <1>7, <1>1, <1>3, UnitFacts
  <2>5. Ref!Mag(v) = Sig(v) * Unit(v.e)
    BY <1>5, <2>2
  <2>6. Weighs(Sig(v), v.e - 1, Ref!Mag(v), 1)
    <3>1. 1 * Unit(v.e) = Unit(v.e) /\ Ref!Mag(v) * 1 = Ref!Mag(v)
      BY <2>4, <1>4
    <3>. QED BY <3>1, <2>3, <2>5, <1>2, <1>4 DEF Weighs
  <2>. QED BY <2>6, <2>1, <1>2, <1>4
<1>. QED BY <1>6, <1>7

LEMMA ComputedOperands ==
  ASSUME call \in Calls, call.op \in Computed
  PROVE  /\ A \in Values /\ B \in Values /\ call.c \in Values /\ call.mode \in Modes
         /\ call.b \in Values
         /\ A.s \in {0, 1} /\ B.s \in {0, 1} /\ ResultSign \in {0, 1} /\ ZeroSign \in {0, 1}
<1>1. Unused \subseteq Values /\ "RNE" \in Modes
  BY SpecialResults DEF Unused, Modes
<1>2. /\ call.a \in Values /\ call.b \in Values /\ call.c \in Values /\ call.mode \in Modes
  BY <1>1 DEF Calls, Call, Arithmetic, Computed
<1>3. A \in Values /\ B \in Values
  BY <1>2, SpecialResults DEF A, B
<1>4. A.s \in {0, 1} /\ B.s \in {0, 1}
  BY <1>3 DEF Values
<1>. QED BY <1>2, <1>3, <1>4 DEF ResultSign, ZeroSign

---------------------------------------------------------------------------
LEMMA SpecialAnswers ==
  ASSUME NEW v, NEW flags, ~ FarCall,
         "inexact" \notin flags, "underflow" \notin flags,
         call.op \in Computed => Answered = [res |-> v, fe |-> flags]
  PROVE  Answers(v, flags)
<1>1. flags = (flags \ {"underflow"}) \cup {}
  OBVIOUS
<1>. QED BY <1>1 DEF Answers, Late

LEMMA CallAlone ==
  ASSUME call' = call
  PROVE  /\ \A v, flags : Answers(v, flags) => Answers(v, flags)'
         /\ \A w, flags : Waits(w, flags) => Waits(w, flags)'
<1>1. Answered' = Answered
  BY DEF Answered, FusedAnswered, A, B
<1>2. FarCall' = FarCall
  BY DEF FarCall, Near, Distance, A, B
<1>. QED BY <1>1, <1>2 DEF Answers, Waits

LEMMA DoneAnswers ==
  ASSUME IInv', NEW v, NEW flags, Done(v, flags), fe = {}, Answers(v, flags)
  PROVE  RInv'
<1>1. pc' = "done" /\ res' = v /\ fe' = flags /\ call' = call
  BY DEF Done
<1>2. Answers(res, fe)'
  BY <1>1, CallAlone DEF Answers
<1>. QED BY <1>1, <1>2 DEF RInv

LEMMA PackWaits ==
  ASSUME IInv', NEW s, NEW mag, NEW scale, NEW md, NEW flags, ToPack(s, mag, scale, md, flags),
         fe = {}, Waits([sign |-> s, mag |-> mag, scale |-> scale, mode |-> md], flags)
  PROVE  RInv'
<1>1. /\ pc' = "pack" /\ z' = [sign |-> s, mag |-> mag, scale |-> scale, mode |-> md]
      /\ fe' = flags /\ call' = call
  BY DEF ToPack
<1>2. Waits(z, fe)'
  BY <1>1, CallAlone DEF Waits
<1>. QED BY <1>1, <1>2 DEF RInv

LEMMA PackStepAnswers ==
  ASSUME RInv, IInv', PackStep
  PROVE  RInv'
<1>. DEFINE r == PackScaled(z.sign, z.mag, z.scale, z.mode)
<1>1. pc = "pack" /\ pc' = "done" /\ res' = r.res /\ fe' = fe \cup r.fe /\ call' = call
  BY DEF PackStep, Done
<1>2. Waits(z, fe)
  BY <1>1 DEF RInv
<1>3. Answers(r.res, fe \cup r.fe)
  <2>. SUFFICES ASSUME call.op \in Computed
       PROVE  r.res = Answered.res /\ fe \cup r.fe = IF FarCall THEN {"inexact"} ELSE Late(Answered).fe
    BY DEF Answers
  <2>1. fe = {} /\ ~ FarCall /\ r = Late(Answered)
    BY <1>2 DEF Waits
  <2>2. Late(Answered).res = Answered.res
    BY DEF Late
  <2>. HIDE DEF r
  <2>. QED BY <2>1, <2>2
<1>4. Answers(res, fe)'
  <2>. HIDE DEF r
  <2>. QED BY <1>1, <1>3, CallAlone DEF Answers
<1>. QED BY <1>1, <1>4 DEF RInv

---------------------------------------------------------------------------
(* Operands that are not finite, or zero.                                  *)
LEMMA ReferenceClasses ==
  /\ \A v : /\ Ref!IsNaN(v) <=> IsNaN(v)
            /\ Ref!IsSNaN(v) <=> IsSNaN(v)
            /\ Ref!IsInf(v) <=> IsInf(v)
            /\ Ref!IsZero(v) <=> IsZero(v)
            /\ Ref!Quiet(v) = Quiet(v)
  /\ \A s : Ref!SignedZero(s) = SignedZero(s) /\ Ref!SignedInf(s) = SignedInf(s)
  /\ Ref!Invalid = [res |-> CanonicalNaN, fe |-> {"invalid"}]
  /\ \A v, w : Ref!NaNResult(v, w) =
                 [res |-> PropagateNaN(v, w),
                  fe |-> IF IsSNaN(v) \/ IsSNaN(w) THEN {"invalid"} ELSE {}]
<1>1. \A v, w : Ref!PropagateNaN(v, w) = PropagateNaN(v, w)
  BY SameClasses, SameFormat DEF Ref!PropagateNaN, PropagateNaN
<1>2. \A v, w : Ref!NaNResult(v, w) =
                 [res |-> PropagateNaN(v, w),
                  fe |-> IF IsSNaN(v) \/ IsSNaN(w) THEN {"invalid"} ELSE {}]
  BY <1>1, SameClasses DEF Ref!NaNResult, Ref!Result
<1>3. Ref!Invalid = [res |-> CanonicalNaN, fe |-> {"invalid"}]
  BY SameFormat DEF Ref!Invalid, Ref!Result
<1>. QED BY <1>2, <1>3, SameClasses, SameFormat

LEMMA EnterFacts ==
  ASSUME RInv, pc = "enter"
  PROVE  call \in Calls /\ fe = {}
  BY DEF RInv, IInv

LEMMA SignalsAre ==
  /\ \A v, w : Signals({v, w}) = IF IsSNaN(v) \/ IsSNaN(w) THEN {"invalid"} ELSE {}
  /\ \A v : Signals({v}) = IF IsSNaN(v) THEN {"invalid"} ELSE {}
  BY DEF Signals

LEMMA DyadicNaN ==
  ASSUME call.op \in Dyadic, IsNaN(A) \/ IsNaN(B)
  PROVE  Answered = [res |-> PropagateNaN(A, B), fe |-> Signals({A, B})]
<1>1. Answered = Ref!NaNResult(A, B)
  <2>1. call.op \in {"add", "sub"} => Answered = Ref!Add(A, B, call.mode)
    BY Zenon DEF Answered
  <2>2. call.op = "mul" => Answered = Ref!Multiply(A, B, call.mode)
    BY DEF Answered
  <2>3. call.op = "div" => Answered = Ref!Divide(A, B, call.mode)
    BY DEF Answered
  <2>4. call.op = "remainder" => Answered = Ref!Remainder(A, B)
    BY DEF Answered
  <2>5. Ref!IsNaN(A) \/ Ref!IsNaN(B)
    BY ReferenceClasses
  <2>6. /\ Ref!Add(A, B, call.mode) = Ref!NaNResult(A, B)
        /\ Ref!Multiply(A, B, call.mode) = Ref!NaNResult(A, B)
        /\ Ref!Divide(A, B, call.mode) = Ref!NaNResult(A, B)
        /\ Ref!Remainder(A, B) = Ref!NaNResult(A, B)
    BY <2>5 DEF Ref!Add, Ref!Multiply, Ref!Divide, Ref!Remainder
  <2>. QED BY <2>1, <2>2, <2>3, <2>4, <2>6 DEF Dyadic, Arithmetic
<1>. QED BY <1>1, ReferenceClasses, SignalsAre

LEMMA SignalFlags ==
  \A S : "inexact" \notin Signals(S) /\ "underflow" \notin Signals(S)
  BY DEF Signals

LEMMA NotFar ==
  /\ ~ (call.op \in {"add", "sub"}) => ~ FarCall
  /\ ~ Regular(A) \/ ~ Regular(B) => ~ FarCall
  BY DEF FarCall

LEMMA NaNOperandAnswer ==
  ASSUME RInv, IInv', NaNOperand \/ NaNArgument \/ NaNAmongThree
  PROVE  RInv'
<1>0. call \in Calls /\ fe = {}
  BY EnterFacts DEF NaNOperand, NaNArgument, NaNAmongThree, Is
<1>1. CASE NaNOperand
  <2>. DEFINE v == PropagateNaN(A, B)
              flags == Signals({A, B})
  <2>1. call.op \in Dyadic /\ (IsNaN(A) \/ IsNaN(B)) /\ Done(v, flags)
    BY <1>1 DEF NaNOperand, Is
  <2>2. Answered = [res |-> v, fe |-> flags]
    BY <2>1, DyadicNaN
  <2>3. ~ Regular(A) \/ ~ Regular(B)
    BY <2>1 DEF Regular, Finite
  <2>4. ~ FarCall /\ "inexact" \notin flags /\ "underflow" \notin flags
    BY <2>3, NotFar, SignalFlags
  <2>. HIDE DEF v, flags
  <2>5. Answers(v, flags)
    BY <2>2, <2>4, SpecialAnswers
  <2>. QED BY <1>0, <2>1, <2>5, DoneAnswers
<1>2. CASE NaNArgument
  <2>. DEFINE v == Quiet(A)
              flags == Signals({A})
  <2>1. call.op \in {"sqrt", "rint"} /\ IsNaN(A) /\ Done(v, flags)
    BY <1>2 DEF NaNArgument, Is
  <2>2. call.op \in Computed => Answered = [res |-> v, fe |-> flags]
    <3>. SUFFICES ASSUME call.op = "sqrt" PROVE Answered = [res |-> v, fe |-> flags]
      BY <2>1 DEF Computed, Arithmetic
    <3>1. Answered = Ref!Sqrt(A, call.mode)
      BY DEF Answered
    <3>2. Ref!Sqrt(A, call.mode) = Ref!NaNResult(A, A)
      BY <2>1, ReferenceClasses DEF Ref!Sqrt
    <3>3. PropagateNaN(A, A) = Quiet(A)
      BY <2>1 DEF PropagateNaN
    <3>. QED BY <3>1, <3>2, <3>3, ReferenceClasses, SignalsAre
  <2>3. ~ FarCall /\ "inexact" \notin flags /\ "underflow" \notin flags
    BY <2>1, NotFar, SignalFlags
  <2>. HIDE DEF v, flags
  <2>4. Answers(v, flags)
    BY <2>2, <2>3, SpecialAnswers
  <2>. QED BY <1>0, <2>1, <2>4, DoneAnswers
<1>3. CASE NaNAmongThree
  <2>. DEFINE two == IsNaN(A) \/ IsNaN(B)
              v == IF two THEN PropagateNaN(A, B) ELSE Quiet(call.c)
              flags == IF two THEN Signals({A, B}) ELSE Signals({call.c})
  <2>1. call.op = "fma" /\ (two \/ IsNaN(call.c)) /\ Done(v, flags)
    BY <1>3 DEF NaNAmongThree, Is
  <2>2. Answered = [res |-> v, fe |-> flags]
    <3>1. Answered = FusedAnswered
      BY <2>1 DEF Answered
    <3>2. FusedAnswered = IF two THEN Ref!NaNResult(A, B) ELSE Ref!NaNResult(call.c, call.c)
      BY <2>1 DEF FusedAnswered
    <3>3. ~ two => PropagateNaN(call.c, call.c) = Quiet(call.c)
      BY <2>1 DEF PropagateNaN
    <3>. QED BY <3>1, <3>2, <3>3, ReferenceClasses, SignalsAre
  <2>3. ~ FarCall /\ "inexact" \notin flags /\ "underflow" \notin flags
    BY <2>1, NotFar, SignalFlags
  <2>. HIDE DEF v, flags
  <2>4. Answers(v, flags)
    BY <2>2, <2>3, SpecialAnswers
  <2>. QED BY <1>0, <2>1, <2>4, DoneAnswers
<1>. QED BY <1>1, <1>2, <1>3

(* One of the addends is zero.                                             *)
LEMMA ZeroAdds ==
  ASSUME call.mode \in Modes, NEW v \in Values, NEW w \in Values, Finite(v), Finite(w),
         IsZero(v) \/ IsZero(w)
  PROVE  Ref!Add(v, w, call.mode) = [res |-> SumWithZero(v, w), fe |-> {}]
<1>. DEFINE x == Ref!Signed(v) + Ref!Signed(w)
<1>1. v.e < ExpMax /\ w.e < ExpMax /\ v.s \in {0, 1} /\ w.s \in {0, 1}
  <2>1. v.e \in 0..ExpMax /\ w.e \in 0..ExpMax /\ v.s \in {0, 1} /\ w.s \in {0, 1} /\ ExpMax \in Nat
    BY Fields DEF Values
  <2>. QED BY <2>1 DEF Finite, IsNaN, IsInf
<1>2. Ref!Add(v, w, call.mode) =
        IF x = 0 THEN [res |-> Ref!ZeroSum(v.s, w.s, call.mode), fe |-> {}]
        ELSE Ref!RoundInteger(x, call.mode)
  BY ReferenceClasses DEF Finite, Ref!Add, Ref!Result
<1>3. ASSUME NEW u \in Values, u.e < ExpMax, u.s \in {0, 1}, ~ IsZero(u)
      PROVE  /\ Ref!Signed(u) \in Int /\ Ref!Signed(u) # 0
             /\ Ref!RoundInteger(Ref!Signed(u), call.mode) = [res |-> u, fe |-> {}]
  <2>1. /\ Ref!Mag(u) \in Nat /\ Ref!Mag(u) >= 1
        /\ Ref!Signed(u) = IF u.s = 0 THEN Ref!Mag(u) ELSE -Ref!Mag(u)
    BY <1>3, SignedFacts
  <2>. DEFINE n == Ref!Mag(u)
              y == Ref!Signed(u)
  <2>. HIDE DEF n, y
  <2>2. y \in Int /\ y # 0 /\ Ref!RoundInteger(y, call.mode) = Ref!Round(u.s, n, 1, call.mode)
    BY <1>3, <2>1, IntegerRounds DEF n, y
  <2>3. Ref!Round(u.s, n, 1, call.mode) = [res |-> u, fe |-> {}]
    BY <1>3, ExactValue DEF n
  <2>. QED BY <2>2, <2>3 DEF y
<1>4. CASE IsZero(v) /\ IsZero(w)
  <2>1. x = 0
    BY <1>1, <1>4, SignedFacts
  <2>2. Ref!ZeroSum(v.s, w.s, call.mode) = SumWithZero(v, w)
    BY <1>4, SameFormat DEF Ref!ZeroSum, SumWithZero, ZeroSign
  <2>. QED BY <1>2, <2>1, <2>2
<1>5. CASE IsZero(v) /\ ~ IsZero(w)
  <2>1. x = Ref!Signed(w) /\ x # 0
    <3>1. Ref!Signed(v) = 0 /\ Ref!Signed(w) \in Int /\ Ref!Signed(w) # 0
      BY <1>1, <1>3, <1>5, SignedFacts
    <3>. QED BY <3>1
  <2>2. SumWithZero(v, w) = w
    BY <1>5 DEF SumWithZero
  <2>3. Ref!RoundInteger(Ref!Signed(w), call.mode) = [res |-> w, fe |-> {}]
    BY <1>1, <1>3, <1>5
  <2>. QED BY <1>2, <2>1, <2>2, <2>3
<1>6. CASE ~ IsZero(v) /\ IsZero(w)
  <2>1. x = Ref!Signed(v) /\ x # 0
    <3>1. Ref!Signed(w) = 0 /\ Ref!Signed(v) \in Int /\ Ref!Signed(v) # 0
      BY <1>1, <1>3, <1>6, SignedFacts
    <3>. QED BY <3>1
  <2>2. SumWithZero(v, w) = v
    BY <1>6 DEF SumWithZero
  <2>3. Ref!RoundInteger(Ref!Signed(v), call.mode) = [res |-> v, fe |-> {}]
    BY <1>1, <1>3, <1>6
  <2>. QED BY <1>2, <2>1, <2>2, <2>3
<1>. QED BY <1>4, <1>5, <1>6

LEMMA SumSpecials ==
  ASSUME RInv, IInv', InfiniteSum \/ ZeroSum
  PROVE  RInv'
<1>0. call \in Calls /\ fe = {} /\ call.op \in {"add", "sub"} /\ ~ IsNaN(A) /\ ~ IsNaN(B)
  BY EnterFacts DEF InfiniteSum, ZeroSum, Numbers, Is
<1>1. Answered = Ref!Add(A, B, call.mode) /\ call.op \in Computed
  BY <1>0, Zenon DEF Answered, Computed, Arithmetic
<1>2. A \in Values /\ B \in Values /\ call.mode \in Modes
  BY <1>0, <1>1, ComputedOperands
<1>3. CASE InfiniteSum
  <2>. DEFINE bad == IsInf(A) /\ IsInf(B) /\ A.s # B.s
              v == IF bad THEN CanonicalNaN ELSE IF IsInf(A) THEN A ELSE B
              flags == IF bad THEN {"invalid"} ELSE {}
  <2>1. (IsInf(A) \/ IsInf(B)) /\ Done(v, flags)
    BY <1>3 DEF InfiniteSum
  <2>2. Answered = [res |-> v, fe |-> flags]
    BY <1>0, <1>1, <2>1, ReferenceClasses DEF Ref!Add, Ref!Result
  <2>3. ~ FarCall /\ "inexact" \notin flags /\ "underflow" \notin flags
    BY <2>1, NotFar DEF Regular, Finite
  <2>. HIDE DEF v, flags
  <2>4. Answers(v, flags)
    BY <2>2, <2>3, SpecialAnswers
  <2>. QED BY <1>0, <2>1, <2>4, DoneAnswers
<1>4. CASE ZeroSum
  <2>. DEFINE v == SumWithZero(A, B)
  <2>1. Finite(A) /\ Finite(B) /\ (IsZero(A) \/ IsZero(B)) /\ Done(v, {})
    BY <1>4 DEF ZeroSum
  <2>2. Answered = [res |-> v, fe |-> {}]
    BY <1>1, <1>2, <2>1, ZeroAdds
  <2>3. ~ FarCall
    BY <2>1, NotFar DEF Regular
  <2>. HIDE DEF v
  <2>4. Answers(v, {})
    BY <2>2, <2>3, SpecialAnswers
  <2>. QED BY <1>0, <2>1, <2>4, DoneAnswers
<1>. QED BY <1>3, <1>4

LEMMA ReferenceSign == Ref!SignOf(A, B) = ResultSign
  BY DEF Ref!SignOf, ResultSign

LEMMA NotNumbers ==
  \A v : /\ ~ IsNaN(v) /\ ~ Regular(v) <=> ~ IsNaN(v) /\ (IsInf(v) \/ IsZero(v))
         /\ IsInf(v) => ~ IsZero(v) /\ ~ Regular(v) /\ ~ IsNaN(v)
         /\ IsZero(v) => ~ IsInf(v) /\ ~ Regular(v) /\ ~ IsNaN(v)
<1>1. ExpMax # 0
  BY Fields
<1>. QED BY <1>1 DEF Regular, Finite, IsInf, IsZero, IsNaN

LEMMA ProductSpecials ==
  ASSUME RInv, IInv', SpecialProduct \/ SpecialQuotient
  PROVE  RInv'
<1>0. call \in Calls /\ fe = {} /\ call.op \in {"mul", "div"} /\ ~ IsNaN(A) /\ ~ IsNaN(B)
      /\ ~ (Regular(A) /\ Regular(B))
  BY EnterFacts DEF SpecialProduct, SpecialQuotient, Numbers, Is
<1>1. ~ FarCall
  BY <1>0, NotFar
<1>2. /\ (IsInf(A) \/ IsZero(A) \/ (Regular(A) /\ ~ IsInf(A) /\ ~ IsZero(A)))
      /\ (IsInf(B) \/ IsZero(B) \/ (Regular(B) /\ ~ IsInf(B) /\ ~ IsZero(B)))
      /\ ~ (IsInf(A) /\ IsZero(A)) /\ ~ (IsInf(B) /\ IsZero(B))
  BY <1>0, NotNumbers DEF Regular, Finite
<1>3. CASE SpecialProduct
  <2>. DEFINE bad == (IsInf(A) /\ IsZero(B)) \/ (IsInf(B) /\ IsZero(A))
              v == IF bad THEN CanonicalNaN
                   ELSE IF IsInf(A) \/ IsInf(B) THEN SignedInf(ResultSign) ELSE SignedZero(ResultSign)
              flags == IF bad THEN {"invalid"} ELSE {}
  <2>1. call.op = "mul" /\ Done(v, flags)
    BY <1>3 DEF SpecialProduct, Numbers, Is
  <2>2. Answered = Ref!Multiply(A, B, call.mode)
    BY <2>1 DEF Answered
  <2>3. Answered = [res |-> v, fe |-> flags]
    BY <1>0, <1>2, <2>2, ReferenceClasses, ReferenceSign DEF Ref!Multiply, Ref!Result
  <2>4. "inexact" \notin flags /\ "underflow" \notin flags
    OBVIOUS
  <2>. HIDE DEF v, flags
  <2>5. Answers(v, flags)
    BY <1>1, <2>3, <2>4, SpecialAnswers
  <2>. QED BY <1>0, <2>1, <2>5, DoneAnswers
<1>4. CASE SpecialQuotient
  <2>. DEFINE bad == (IsInf(A) /\ IsInf(B)) \/ (IsZero(A) /\ IsZero(B))
              pole == Regular(A) /\ IsZero(B)
              v == IF bad THEN CanonicalNaN
                   ELSE IF IsInf(A) \/ pole THEN SignedInf(ResultSign) ELSE SignedZero(ResultSign)
              flags == IF bad THEN {"invalid"} ELSE IF pole THEN {"divbyzero"} ELSE {}
  <2>1. call.op = "div"
    BY <1>4 DEF SpecialQuotient, Numbers, Is
  <2>2. Done(v, flags)
    <3>1. CASE bad
      BY <1>4, <1>2, <3>1, NotNumbers DEF SpecialQuotient
    <3>2. CASE IsInf(A) /\ ~ IsInf(B)
      BY <1>4, <1>2, <3>2, NotNumbers DEF SpecialQuotient
    <3>3. CASE pole
      BY <1>4, <1>2, <3>3, NotNumbers DEF SpecialQuotient
    <3>4. CASE ~ bad /\ ~ (IsInf(A) /\ ~ IsInf(B)) /\ ~ pole
      BY <1>4, <1>2, <3>4, NotNumbers DEF SpecialQuotient
    <3>. QED BY <3>1, <3>2, <3>3, <3>4
  <2>3. Answered = Ref!Divide(A, B, call.mode)
    BY <2>1 DEF Answered
  <2>4. Answered = [res |-> v, fe |-> flags]
    <3>1. pole => ~ IsInf(A) /\ ~ IsZero(A)
      BY NotNumbers
    <3>. QED BY <1>0, <1>2, <2>3, <3>1, ReferenceClasses, ReferenceSign DEF Ref!Divide, Ref!Result
  <2>5. "inexact" \notin flags /\ "underflow" \notin flags
    OBVIOUS
  <2>. HIDE DEF v, flags
  <2>6. Answers(v, flags)
    BY <1>1, <2>4, <2>5, SpecialAnswers
  <2>. QED BY <1>0, <2>2, <2>6, DoneAnswers
<1>. QED BY <1>3, <1>4

LEMMA RootSpecials ==
  ASSUME RInv, IInv', SpecialRoot \/ SpecialRemainder
  PROVE  RInv'
<1>0. call \in Calls /\ fe = {} /\ call.op \in {"sqrt", "remainder"} /\ ~ IsNaN(A)
  BY EnterFacts DEF SpecialRoot, SpecialRemainder, Numbers, Is
<1>1. ~ FarCall
  BY <1>0, NotFar
<1>2. CASE SpecialRoot
  <2>. DEFINE bad == A.s = 1 /\ ~ IsZero(A)
              v == IF bad THEN CanonicalNaN ELSE A
              flags == IF bad THEN {"invalid"} ELSE {}
  <2>1. call.op = "sqrt" /\ (IsInf(A) \/ IsZero(A) \/ A.s = 1) /\ Done(v, flags)
    BY <1>2 DEF SpecialRoot, Is
  <2>2. Answered = Ref!Sqrt(A, call.mode)
    BY <2>1 DEF Answered
  <2>3. Answered = [res |-> v, fe |-> flags]
    BY <1>0, <2>1, <2>2, ReferenceClasses DEF Ref!Sqrt, Ref!Result
  <2>4. "inexact" \notin flags /\ "underflow" \notin flags
    OBVIOUS
  <2>. HIDE DEF v, flags
  <2>5. Answers(v, flags)
    BY <1>1, <2>3, <2>4, SpecialAnswers
  <2>. QED BY <1>0, <2>1, <2>5, DoneAnswers
<1>3. CASE SpecialRemainder
  <2>. DEFINE bad == IsInf(A) \/ IsZero(B)
              v == IF bad THEN CanonicalNaN ELSE A
              flags == IF bad THEN {"invalid"} ELSE {}
  <2>1. call.op = "remainder" /\ ~ IsNaN(B) /\ ~ (Regular(A) /\ Regular(B)) /\ Done(v, flags)
    BY <1>3 DEF SpecialRemainder, Numbers, Is
  <2>2. Answered = Ref!Remainder(A, B)
    BY <2>1 DEF Answered
  <2>3. bad \/ IsInf(B) \/ IsZero(A)
    BY <1>0, <2>1 DEF Regular, Finite
  <2>4. Answered = [res |-> v, fe |-> flags]
    BY <1>0, <2>1, <2>2, <2>3, ReferenceClasses DEF Ref!Remainder, Ref!Result
  <2>5. "inexact" \notin flags /\ "underflow" \notin flags
    OBVIOUS
  <2>. HIDE DEF v, flags
  <2>6. Answers(v, flags)
    BY <1>1, <2>4, <2>5, SpecialAnswers
  <2>. QED BY <1>0, <2>1, <2>6, DoneAnswers
<1>. QED BY <1>2, <1>3

LEMMA FusedSpecials ==
  ASSUME RInv, IInv', SpecialFma
  PROVE  RInv'
<1>. DEFINE c == call.c
            bad == (IsInf(A) /\ IsZero(B)) \/ (IsInf(B) /\ IsZero(A))
            inf == IsInf(A) \/ IsInf(B)
            clash == inf /\ IsInf(c) /\ c.s # ResultSign
            v == IF bad \/ clash THEN CanonicalNaN
                 ELSE IF inf THEN SignedInf(ResultSign)
                 ELSE IF IsInf(c) THEN c ELSE SumWithZero(SignedZero(ResultSign), c)
            flags == IF bad \/ clash THEN {"invalid"} ELSE {}
<1>0. call \in Calls /\ fe = {} /\ call.op = "fma" /\ ~ IsNaN(A) /\ ~ IsNaN(B) /\ ~ IsNaN(c)
      /\ ~ (Regular(A) /\ Regular(B) /\ Finite(c))
  BY EnterFacts DEF SpecialFma, Numbers, Is
<1>1. ~ FarCall
  BY <1>0, NotFar
<1>2. /\ A \in Values /\ B \in Values /\ c \in Values /\ call.mode \in Modes /\ ResultSign \in {0, 1}
  BY <1>0, ComputedOperands DEF Computed
<1>3. Done(v, flags)
  <2>1. /\ bad => ~ (Finite(A) /\ Finite(B))
        /\ Finite(A) /\ Finite(B) <=> ~ inf
        /\ bad => inf
    BY <1>0 DEF Finite
  <2>2. CASE bad
    BY <2>1, <2>2 DEF SpecialFma
  <2>3. CASE ~ bad /\ ~ inf
    BY <2>1, <2>3 DEF SpecialFma
  <2>4. CASE ~ bad /\ inf
    BY <2>1, <2>4 DEF SpecialFma
  <2>. QED BY <2>2, <2>3, <2>4
<1>4. Answered = Ref!FusedMultiplyAdd(A, B, c, call.mode)
  BY <1>0 DEF Answered, FusedAnswered
<1>5. ~ bad => Answered = IF inf \/ IsZero(A) \/ IsZero(B)
                          THEN Ref!Add(IF inf THEN SignedInf(ResultSign) ELSE SignedZero(ResultSign),
                                       c, call.mode)
                          ELSE [res |-> c, fe |-> {}]
  <2>1. ~ inf /\ ~ IsZero(A) /\ ~ IsZero(B) => IsInf(c)
    BY <1>0 DEF Regular, Finite
  <2>. QED BY <1>0, <1>4, <2>1, ReferenceClasses, ReferenceSign DEF Ref!FusedMultiplyAdd, Ref!Result
<1>6. Answered = [res |-> v, fe |-> flags]
  <2>1. CASE bad
    BY <1>4, <2>1, ReferenceClasses DEF Ref!FusedMultiplyAdd
  <2>2. CASE ~ bad /\ inf
    <3>. DEFINE u == SignedInf(ResultSign)
    <3>1. IsInf(u) /\ ~ IsNaN(u) /\ u.s = ResultSign
      BY DEF SignedInf, IsInf, IsNaN
    <3>2. Answered = Ref!Add(u, c, call.mode)
      BY <2>2, <1>5
    <3>. HIDE DEF u
    <3>3. Ref!Add(u, c, call.mode) =
            IF clash THEN [res |-> CanonicalNaN, fe |-> {"invalid"}] ELSE [res |-> u, fe |-> {}]
      BY <1>0, <2>2, <3>1, ReferenceClasses DEF Ref!Add, Ref!Result
    <3>. QED BY <2>2, <3>2, <3>3 DEF u
  <2>3. CASE ~ bad /\ ~ inf /\ IsInf(c)
    <3>. DEFINE u == SignedZero(ResultSign)
    <3>1. ~ IsInf(u) /\ ~ IsNaN(u)
      BY Fields DEF SignedZero, IsInf, IsNaN
    <3>. HIDE DEF u
    <3>2. Ref!Add(u, c, call.mode) = [res |-> c, fe |-> {}]
      BY <1>0, <2>3, <3>1, ReferenceClasses DEF Ref!Add, Ref!Result
    <3>. QED BY <2>3, <3>2, <1>5 DEF u
  <2>4. CASE ~ bad /\ ~ inf /\ ~ IsInf(c)
    <3>. DEFINE u == SignedZero(ResultSign)
    <3>1. Finite(u) /\ IsZero(u) /\ u \in Values
      BY <1>2, Fields, SpecialResults DEF SignedZero, Finite, IsInf, IsNaN, IsZero
    <3>2. Finite(c) /\ (IsZero(A) \/ IsZero(B))
      BY <1>0, <2>4 DEF Regular, Finite
    <3>. HIDE DEF u
    <3>3. Ref!Add(u, c, call.mode) = [res |-> SumWithZero(u, c), fe |-> {}]
      BY <1>2, <3>1, <3>2, ZeroAdds
    <3>. QED BY <2>4, <3>2, <3>3, <1>5 DEF u
  <2>. QED BY <2>1, <2>2, <2>3, <2>4
<1>7. "inexact" \notin flags /\ "underflow" \notin flags
  OBVIOUS
<1>. HIDE DEF v, flags
<1>8. Answers(v, flags)
  BY <1>1, <1>6, <1>7, SpecialAnswers
<1>. QED BY <1>0, <1>3, <1>8, DoneAnswers

LEMMA WithinLimits ==
  ASSUME NEW j, Limits(j)
  PROVE  InTable(j)
  BY Widths, BigWidths, Fields, TableAssumption DEF Limits, InTable, TableAssumption

LEMMA WaitsFor ==
  ASSUME ~ FarCall, NEW s, NEW mag, NEW scale, NEW md, NEW k, NEW num, NEW den,
         Packs(s, mag, scale, md, k, num, den), Answered = Ref!Round(s, num, den, md)
  PROVE  Waits([sign |-> s, mag |-> mag, scale |-> scale, mode |-> md], {})
<1>1. PackScaled(s, mag, scale, md) = Late(Answered)
  BY PackScaledRounds
<1>. QED BY <1>1 DEF Waits

LEMMA AddsRegular ==
  ASSUME NEW v \in Values, NEW w \in Values, Regular(v), Regular(w), NEW md \in Modes
  PROVE  /\ v.s = w.s => Ref!Add(v, w, md) = Ref!Round(v.s, Ref!Mag(v) + Ref!Mag(w), 1, md)
         /\ v.s # w.s =>
              /\ Ref!Mag(v) = Ref!Mag(w) =>
                   Ref!Add(v, w, md) = [res |-> SignedZero(IF md = "RDN" THEN 1 ELSE 0), fe |-> {}]
              /\ Ref!Mag(v) > Ref!Mag(w) =>
                   Ref!Add(v, w, md) = Ref!Round(v.s, Ref!Mag(v) - Ref!Mag(w), 1, md)
              /\ Ref!Mag(w) > Ref!Mag(v) =>
                   Ref!Add(v, w, md) = Ref!Round(w.s, Ref!Mag(w) - Ref!Mag(v), 1, md)
<1>. DEFINE M == Ref!Mag(v)
            N == Ref!Mag(w)
            x == Ref!Signed(v) + Ref!Signed(w)
<1>1. /\ v.e < ExpMax /\ ~ IsZero(v) /\ ~ IsNaN(v) /\ ~ IsInf(v) /\ v.s \in {0, 1}
      /\ w.e < ExpMax /\ ~ IsZero(w) /\ ~ IsNaN(w) /\ ~ IsInf(w) /\ w.s \in {0, 1}
  BY RegularFields
<1>2. Ref!Add(v, w, md) = IF x = 0 THEN [res |-> Ref!ZeroSum(v.s, w.s, md), fe |-> {}]
                         ELSE Ref!RoundInteger(x, md)
  BY <1>1, ReferenceClasses DEF Ref!Add, Ref!Result
<1>3. /\ M \in Nat /\ M >= 1 /\ N \in Nat /\ N >= 1
      /\ Ref!Signed(v) = IF v.s = 0 THEN M ELSE -M
      /\ Ref!Signed(w) = IF w.s = 0 THEN N ELSE -N
  BY <1>1, SignedFacts
<1>. HIDE DEF M, N
<1>4. x = (IF v.s = 0 THEN M ELSE -M) + (IF w.s = 0 THEN N ELSE -N)
  BY <1>3
<1>. HIDE DEF x
<1>5. ASSUME NEW s \in {0, 1}, NEW n \in Nat, n >= 1, x = IF s = 0 THEN n ELSE -n
      PROVE  Ref!Add(v, w, md) = Ref!Round(s, n, 1, md)
  <2>1. x \in Int /\ x # 0 /\ Ref!RoundInteger(x, md) = Ref!Round(s, n, 1, md)
    BY <1>5, IntegerRounds
  <2>. QED BY <1>2, <2>1
<1>6. CASE v.s = w.s
  <2>1. M + N \in Nat /\ M + N >= 1 /\ x = IF v.s = 0 THEN M + N ELSE -(M + N)
    BY <1>1, <1>3, <1>4, <1>6
  <2>2. Ref!Add(v, w, md) = Ref!Round(v.s, M + N, 1, md)
    BY <1>1, <1>5, <2>1
  <2>. QED BY <2>2, <1>6 DEF M, N
<1>7. CASE v.s # w.s
  <2>1. ASSUME M = N PROVE Ref!Add(v, w, md) = [res |-> SignedZero(IF md = "RDN" THEN 1 ELSE 0), fe |-> {}]
    <3>1. x = 0
      BY <1>1, <1>3, <1>4, <1>7, <2>1
    <3>2. Ref!ZeroSum(v.s, w.s, md) = SignedZero(IF md = "RDN" THEN 1 ELSE 0)
      BY <1>7, SameFormat DEF Ref!ZeroSum
    <3>. QED BY <1>2, <3>1, <3>2
  <2>2. ASSUME M > N PROVE Ref!Add(v, w, md) = Ref!Round(v.s, M - N, 1, md)
    <3>1. M - N \in Nat /\ M - N >= 1 /\ x = IF v.s = 0 THEN M - N ELSE -(M - N)
      BY <1>1, <1>3, <1>4, <1>7, <2>2
    <3>. QED BY <1>1, <1>5, <3>1
  <2>3. ASSUME N > M PROVE Ref!Add(v, w, md) = Ref!Round(w.s, N - M, 1, md)
    <3>1. N - M \in Nat /\ N - M >= 1 /\ x = IF w.s = 0 THEN N - M ELSE -(N - M)
      BY <1>1, <1>3, <1>4, <1>7, <2>3
    <3>. QED BY <1>1, <1>5, <3>1
  <2>. QED BY <1>7, <2>1, <2>2, <2>3 DEF M, N
<1>. QED BY <1>6, <1>7

LEMMA AddendPacks ==
  ASSUME NEW x, NEW y, NEW k, NEW m, NEW n, NEW den, NEW b, Addends(x, y, k, m, n, den, b),
         NEW s \in {0, 1}, NEW md \in Modes, NEW scale \in Int, k = scale + Bias + FracBits - 1,
         NEW mag \in Nat, mag >= 1, mag <= x + y, NEW num, HoldsValue(mag, k, num, den)
  PROVE  Packs(s, mag, scale, md, k, num, den)
<1>1. /\ x \in Nat /\ y \in Nat /\ k \in Int /\ b \in Nat /\ b <= BigBits /\ x + y < Pow2[b]
      /\ k - FracBits - 3 >= -(BigBits + FracBits + Bias)
      /\ k + b - FracBits - 1 <= 2 * FracBits + 3 * Bias
  BY DEF Addends
<1>2. /\ BigBits \in Nat /\ BigBits < MaxShift /\ MaxShift \in Nat /\ FracBits \in Nat /\ Bias \in Nat
      /\ b \in 0..MaxShift /\ BigBits \in 0..MaxShift
  BY <1>1, BigWidths, Widths, Fields
<1>3. Pow2[b] \in Nat /\ Pow2[BigBits] \in Nat /\ Pow2[b] <= Pow2[BigBits]
  BY <1>1, <1>2, Pow2Step, Pow2Monotone
<1>4. mag < Pow2[b] /\ mag < Pow2[BigBits]
  BY <1>1, <1>3
<1>5. Highest(mag) \in Nat /\ Highest(mag) < b
  BY <1>1, <1>4, HighestIs
<1>. DEFINE h == Highest(mag)
<1>. HIDE DEF h
<1>6. Limits(k + h - FracBits - 3) /\ Limits(k + h - FracBits)
  BY <1>1, <1>2, <1>5 DEF Limits, h
<1>7. InTable(k + h - FracBits - 3) /\ InTable(k + h - FracBits)
  BY <1>6, WithinLimits
<1>. QED BY <1>4, <1>7 DEF Packs, h

LEMMA CombineAnswers ==
  ASSUME RInv, IInv', pc = "enter", call.op \in Computed, ~ FarCall,
         NEW sx \in {0, 1}, NEW sy \in {0, 1}, NEW scale \in Int,
         NEW x, NEW y, NEW k, NEW m, NEW n, NEW den, NEW b,
         Addends(x, y, k, m, n, den, b), k = scale + Bias + FracBits - 1,
         SumIs(sx, m, sy, n, den), Combine(sx, x, sy, y, scale)
  PROVE  RInv'
<1>0. call \in Calls /\ fe = {} /\ call.mode \in Modes
  BY EnterFacts, ComputedOperands
<1>1. /\ x \in Nat /\ x >= 1 /\ y \in Nat /\ m \in Nat /\ n \in Nat
      /\ b \in Nat /\ b <= BigBits /\ x + y < Pow2[b]
      /\ HoldsValue(x + y, k, m + n, den)
      /\ x > y => m > n /\ HoldsValue(x - y, k, m - n, den)
      /\ y > x => n > m /\ HoldsValue(y - x, k, n - m, den)
      /\ x = y => m = n
  BY DEF Addends
<1>2. (x + y) % Pow2[BigBits] = x + y
  <2>1. BigBits \in 0..MaxShift /\ b \in 0..MaxShift /\ BigBits <= MaxShift
    BY <1>1, BigWidths, Widths
  <2>2. Pow2[b] \in Nat /\ Pow2[BigBits] \in Nat /\ Pow2[b] <= Pow2[BigBits]
    BY <2>1, <1>1, Pow2Step, Pow2Monotone
  <2>. DEFINE t == x + y
              D == Pow2[BigBits]
  <2>3. t \in Nat /\ D \in Nat /\ t < D
    BY <1>1, <2>2
  <2>. HIDE DEF t, D
  <2>4. t % D = t
    BY <2>3
  <2>. QED BY <2>4 DEF t, D
<1>3. ASSUME NEW s \in {0, 1}, NEW mag \in Nat, mag >= 1, mag <= x + y, NEW num,
             HoldsValue(mag, k, num, den), Answered = Ref!Round(s, num, den, call.mode),
             ToPack(s, mag, scale, call.mode, {})
      PROVE  RInv'
  <2>1. Packs(s, mag, scale, call.mode, k, num, den)
    BY <1>0, <1>3, AddendPacks
  <2>2. Waits([sign |-> s, mag |-> mag, scale |-> scale, mode |-> call.mode], {})
    BY <1>3, <2>1, WaitsFor
  <2>. QED BY <1>0, <1>3, <2>2, PackWaits
<1>4. CASE sx = sy
  <2>1. ToPack(sx, x + y, scale, call.mode, {})
    BY <1>2, <1>4 DEF Combine
  <2>2. Answered = Ref!Round(sx, m + n, den, call.mode)
    BY <1>4 DEF SumIs
  <2>. DEFINE mag == x + y
  <2>3. mag \in Nat /\ mag >= 1 /\ mag <= x + y
    BY <1>1
  <2>. HIDE DEF mag
  <2>4. ToPack(sx, mag, scale, call.mode, {}) /\ HoldsValue(mag, k, m + n, den)
    BY <1>1, <2>1 DEF mag
  <2>. QED BY <1>3, <2>2, <2>3, <2>4
<1>5. CASE sx # sy /\ x = y
  <2>1. Done(SignedZero(ZeroSign), {})
    BY <1>5 DEF Combine
  <2>2. Answered = [res |-> SignedZero(ZeroSign), fe |-> {}]
    BY <1>1, <1>5 DEF SumIs
  <2>3. Answers(SignedZero(ZeroSign), {})
    BY <2>2, SpecialAnswers
  <2>. QED BY <1>0, <2>1, <2>3, DoneAnswers
<1>6. CASE sx # sy /\ x > y
  <2>0. x # y
    BY <1>1, <1>6
  <2>1. ToPack(sx, x - y, scale, call.mode, {})
    BY <1>6, <2>0 DEF Combine
  <2>2. Answered = Ref!Round(sx, m - n, den, call.mode)
    BY <1>1, <1>6 DEF SumIs
  <2>. DEFINE mag == x - y
  <2>3. mag \in Nat /\ mag >= 1 /\ mag <= x + y
    BY <1>1, <1>6
  <2>. HIDE DEF mag
  <2>4. ToPack(sx, mag, scale, call.mode, {}) /\ HoldsValue(mag, k, m - n, den)
    BY <1>1, <1>6, <2>1 DEF mag
  <2>. QED BY <1>3, <2>2, <2>3, <2>4
<1>7. CASE sx # sy /\ y > x
  <2>0. x # y /\ ~ (x > y)
    BY <1>1, <1>7
  <2>1. ToPack(sy, y - x, scale, call.mode, {})
    BY <1>7, <2>0 DEF Combine
  <2>2. Answered = Ref!Round(sy, n - m, den, call.mode)
    BY <1>1, <1>7 DEF SumIs
  <2>. DEFINE mag == y - x
  <2>3. mag \in Nat /\ mag >= 1 /\ mag <= x + y
    BY <1>1, <1>7
  <2>. HIDE DEF mag
  <2>4. ToPack(sy, mag, scale, call.mode, {}) /\ HoldsValue(mag, k, n - m, den)
    BY <1>1, <1>7, <2>1 DEF mag
  <2>. QED BY <1>3, <2>2, <2>3, <2>4
<1>. QED BY <1>1, <1>4, <1>5, <1>6, <1>7

LEMMA AlignedWeighs ==
  ASSUME NEW v \in Values, Regular(v), NEW n \in Nat, n <= NearLimit, Common = Exponent(v) - n,
         Common \in (1 - Bias - FracBits)..Bias
  PROVE  /\ Weighs(Aligned(v), Common + Bias - 1, Ref!Mag(v), 1)
         /\ Aligned(v) \in Nat /\ Aligned(v) >= 1 /\ Aligned(v) < Pow2[FracBits + 1 + n]
<1>1. /\ Weighs(Sig(v), Exponent(v) + Bias - 1, Ref!Mag(v), 1)
      /\ Exponent(v) \in (1 - Bias - FracBits)..Bias
      /\ Sig(v) \in Nat /\ Pow2[FracBits] <= Sig(v) /\ Sig(v) < Pow2[FracBits + 1]
  BY ValueWeighs
<1>2. /\ BigBits \in Nat /\ FracBits \in Nat /\ Bias \in Nat /\ NearLimit \in Nat
      /\ FracBits + NearLimit + 2 <= BigBits /\ BigBits < MaxShift /\ MaxShift \in Nat
      /\ 2 * FracBits + 3 * Bias <= MaxShift
  BY BigWidths, Widths, Fields, BigAssumption, TableAssumption DEF BigAssumption, TableAssumption
<1>3. /\ n < BigBits /\ FracBits + 1 \in Nat /\ (FracBits + 1) + n <= BigBits
      /\ (FracBits + 1) + n = FracBits + 1 + n /\ Exponent(v) - Common = n
  BY <1>1, <1>2
<1>4. /\ Shl(Sig(v), n) = Sig(v) * Pow2[n]
      /\ Sig(v) * Pow2[n] \in Nat /\ Sig(v) * Pow2[n] < Pow2[(FracBits + 1) + n]
  BY <1>1, <1>3, ShlFits
<1>5. Aligned(v) = Sig(v) * Pow2[n]
  BY <1>3, <1>4 DEF Aligned
<1>. DEFINE f == Common + Bias - 1
            g == Exponent(v) + Bias - 1
<1>6. InTable(n) /\ InTable(f) /\ g = f + n
  BY <1>1, <1>2, <1>3 DEF InTable
<1>7. Weighs(Sig(v) * Pow2[n], f, Ref!Mag(v), 1) /\ Pow2[n] \in Nat /\ Pow2[n] >= 1
  <2>. HIDE DEF f, g
  <2>. QED BY <1>1, <1>6, FinerFrame DEF g
<1>8. Sig(v) >= 1
  <2>1. FracBits \in 0..MaxShift
    BY <1>2, Widths
  <2>. QED BY <1>1, <2>1, Pow2Positive
<1>9. Sig(v) * Pow2[n] >= 1
  BY <1>1, <1>7, <1>8
<1>. QED BY <1>3, <1>4, <1>5, <1>7, <1>9

LEMMA NearSumAnswer ==
  ASSUME RInv, IInv', NearSum
  PROVE  RInv'
<1>0. call \in Calls /\ fe = {} /\ pc = "enter" /\ call.op \in {"add", "sub"}
      /\ Regular(A) /\ Regular(B) /\ Near
  BY EnterFacts DEF NearSum, RegularSum, Numbers, Is
<1>1. Answered = Ref!Add(A, B, call.mode) /\ call.op \in Computed /\ ~ FarCall
  BY <1>0, Zenon DEF Answered, Computed, Arithmetic, FarCall
<1>2. /\ A \in Values /\ B \in Values /\ call.mode \in Modes /\ A.s \in {0, 1} /\ B.s \in {0, 1}
  BY <1>0, <1>1, ComputedOperands
<1>. DEFINE m == Ref!Mag(A)
            n == Ref!Mag(B)
            x == Aligned(A)
            y == Aligned(B)
            k == Common + Bias - 1
            scale == Common - FracBits
<1>3. /\ Exponent(A) \in (1 - Bias - FracBits)..Bias /\ Exponent(B) \in (1 - Bias - FracBits)..Bias
      /\ m \in Nat /\ n \in Nat
  BY <1>0, <1>2, ValueWeighs
<1>4. /\ BigBits \in Nat /\ FracBits \in Nat /\ Bias \in Nat /\ NearLimit \in Nat
      /\ FracBits + NearLimit + 2 <= BigBits /\ 2 * FracBits + 8 <= BigBits
      /\ BigBits < MaxShift /\ MaxShift \in Nat
  BY BigWidths, Widths, Fields, BigAssumption DEF BigAssumption
<1>5. PICK da \in Nat, db \in Nat :
        /\ da <= NearLimit /\ db <= NearLimit /\ Common = Exponent(A) - da /\ Common = Exponent(B) - db
        /\ (da = 0 \/ db = 0)
  <2>1. CASE Distance < 0
    <3>1. Common = Exponent(A) - 0 /\ Common = Exponent(B) - (-Distance) /\ -Distance \in Nat
          /\ -Distance <= NearLimit
      BY <1>0, <1>3, <1>4, <2>1 DEF Common, Distance, Near
    <3>. QED BY <3>1, <1>4
  <2>2. CASE ~ (Distance < 0)
    <3>1. Common = Exponent(A) - Distance /\ Common = Exponent(B) - 0 /\ Distance \in Nat
          /\ Distance <= NearLimit
      BY <1>0, <1>3, <1>4, <2>2 DEF Common, Distance, Near
    <3>. QED BY <3>1, <1>4
  <2>. QED BY <2>1, <2>2
<1>6. Common \in (1 - Bias - FracBits)..Bias
  BY <1>3, <1>4, <1>5
<1>. DEFINE d == da + db
            b == FracBits + 2 + d
<1>7. /\ Weighs(x, k, m, 1) /\ x \in Nat /\ x >= 1 /\ x < Pow2[FracBits + 1 + da]
      /\ Weighs(y, k, n, 1) /\ y \in Nat /\ y >= 1 /\ y < Pow2[FracBits + 1 + db]
  BY <1>0, <1>2, <1>5, <1>6, AlignedWeighs
<1>8. /\ d \in Nat /\ d <= NearLimit /\ Common + d <= Bias /\ b \in Nat /\ b <= BigBits
  BY <1>3, <1>4, <1>5
<1>9. x + y < Pow2[b]
  <2>. DEFINE t == FracBits + 1 + d
  <2>1. /\ t \in Nat /\ t + 1 = b /\ t + 1 <= MaxShift /\ FracBits + 1 + da <= t
        /\ FracBits + 1 + db <= t /\ FracBits + 1 + da \in Nat /\ FracBits + 1 + db \in Nat
        /\ t \in 0..MaxShift /\ FracBits + 1 + da \in 0..MaxShift /\ FracBits + 1 + db \in 0..MaxShift
    BY <1>4, <1>5, <1>8
  <2>2. Pow2[b] = 2 * Pow2[t] /\ Pow2[FracBits + 1 + da] <= Pow2[t] /\ Pow2[FracBits + 1 + db] <= Pow2[t]
        /\ Pow2[t] \in Nat /\ Pow2[FracBits + 1 + da] \in Nat /\ Pow2[FracBits + 1 + db] \in Nat
    BY <2>1, Pow2Step, Pow2Monotone
  <2>. HIDE DEF t, x, y, b
  <2>. QED BY <1>7, <2>2
<1>. HIDE DEF x, y, m, n
<1>10. /\ k \in Int /\ k = scale + Bias + FracBits - 1 /\ scale \in Int
       /\ k - FracBits - 3 >= -(BigBits + FracBits + Bias)
       /\ k + b - FracBits - 1 <= 2 * FracBits + 3 * Bias
  BY <1>4, <1>6, <1>8
<1>. HIDE DEF k, scale, b
<1>11. Addends(x, y, k, m, n, 1, b)
  <2>1. /\ Weighs(x + y, k, m + n, 1)
        /\ x = y <=> m = n
        /\ x > y => m > n /\ Weighs(x - y, k, m - n, 1)
        /\ y > x => n > m /\ Weighs(y - x, k, n - m, 1)
    BY <1>7, WeighsSum
  <2>2. m \in Nat /\ n \in Nat
    BY <1>3 DEF m, n
  <2>. QED BY <1>7, <1>8, <1>9, <1>10, <2>1, <2>2 DEF Addends, HoldsValue, b
<1>12. SumIs(A.s, m, B.s, n, 1)
  BY <1>0, <1>1, <1>2, AddsRegular DEF SumIs, ZeroSign, m, n
<1>13. Combine(A.s, x, B.s, y, scale)
  BY DEF NearSum, x, y, scale
<1>. QED BY <1>0, <1>1, <1>2, <1>10, <1>11, <1>12, <1>13, CombineAnswers

LEMMA ProductWeighs ==
  ASSUME A \in Values, B \in Values, Regular(A), Regular(B), NEW num, NEW den, ExactlyProduct(num, den)
  PROVE  /\ Weighs(Product, ProductScale + Bias + FracBits - 1, num, den)
         /\ ProductScale \in (2 - 2 * Bias - 4 * FracBits)..(2 * Bias - 2 * FracBits)
         /\ Product \in Nat /\ Product >= 1 /\ Product < Pow2[BigBits]
         /\ Highest(Product) \in (2 * FracBits)..(2 * FracBits + 1)
         /\ Pow2[Highest(Product)] <= Product /\ Product < Pow2[Highest(Product) + 1]
<1>. DEFINE i == Exponent(A) + Bias - 1
            j == Exponent(B) + Bias - 1
            l == Ref!LogOne
            k == ProductScale + Bias + FracBits - 1
            p == Sig(A)
            d == Sig(B)
            M == Ref!Mag(A)
            N == Ref!Mag(B)
<1>1. /\ Weighs(p, i, M, 1) /\ Weighs(d, j, N, 1)
      /\ Exponent(A) \in (1 - Bias - FracBits)..Bias
      /\ Exponent(B) \in (1 - Bias - FracBits)..Bias
      /\ p \in Nat /\ Pow2[FracBits] <= p /\ p < Pow2[FracBits + 1]
      /\ d \in Nat /\ Pow2[FracBits] <= d /\ d < Pow2[FracBits + 1]
  BY ValueWeighs
<1>2. l = FracBits + Bias - 1 /\ Bias >= 1 /\ Bias \in Nat /\ FracBits \in Nat /\ FracBits >= 2
      /\ MaxShift \in Nat /\ BigBits \in Nat /\ BigBits >= 2 * FracBits + 8 /\ BigBits < MaxShift
      /\ 2 * FracBits + 3 * Bias <= MaxShift
  BY SameFormat, Fields, Widths, BigWidths, TableAssumption DEF TableAssumption
<1>3. ProductScale \in (2 - 2 * Bias - 4 * FracBits)..(2 * Bias - 2 * FracBits)
  BY <1>1, <1>2 DEF ProductScale
<1>4. Product = p * d
  BY DEF Product
<1>5. /\ i \in Int /\ j \in Int /\ l \in Nat /\ k \in Int /\ k = (i + (0 - l)) + j
  BY <1>1, <1>2, <1>3 DEF ProductScale
<1>6. InTable(l) /\ InTable(i + (0 - l)) /\ InTable(k)
  <2>1. Limits(l) /\ Limits(i + (0 - l)) /\ Limits(k)
    BY <1>1, <1>2, <1>3, <1>5 DEF Limits
  <2>. QED BY <2>1, WithinLimits
<1>7. Weighs(Product, k, num, den)
  <2>1. num \in Nat /\ den \in Nat /\ den >= 1 /\ num * Pow2[l] = (M * N) * den
    BY DEF ExactlyProduct
  <2>. HIDE DEF p, d, i, j, l, k, M, N
  <2>. QED BY <1>1, <1>4, <1>5, <1>6, <2>1, FactorsWeigh
<1>8. Pow2[2 * FracBits] <= Product /\ Product < Pow2[2 * FracBits + 2] /\ Product \in Nat
  <2>. DEFINE P == Pow2[FracBits]
  <2>1. P \in Nat /\ P >= 1 /\ Pow2[FracBits + 1] = 2 * P
    BY <1>2, Pow2Step, Pow2Positive
  <2>2. FracBits + FracBits = 2 * FracBits
    BY <1>2
  <2>3. Pow2[2 * FracBits] = P * P
    BY <1>2, <2>2, Pow2Sum
  <2>4. /\ 2 * FracBits \in Nat /\ (2 * FracBits) + 1 <= MaxShift
        /\ (2 * FracBits + 1) \in Nat /\ (2 * FracBits + 1) + 1 <= MaxShift
        /\ (2 * FracBits + 1) + 1 = 2 * FracBits + 2
    BY <1>2
  <2>5. Pow2[2 * FracBits + 1] = 2 * Pow2[2 * FracBits] /\ Pow2[2 * FracBits + 2] = 2 * Pow2[2 * FracBits + 1]
    BY <2>4, Pow2Step
  <2>. DEFINE S == P * P
  <2>6. S \in Nat /\ Pow2[2 * FracBits] = S /\ Pow2[2 * FracBits + 2] = 4 * S
    BY <2>1, <2>3, <2>5
  <2>7. p * d \in Nat /\ S <= p * d /\ p * d < 4 * S
    <3>1. p \in Nat /\ d \in Nat /\ P <= p /\ P <= d /\ p < 2 * P /\ d < 2 * P
      BY <1>1, <2>1
    <3>. HIDE DEF P, p, d
    <3>2. P * P <= p * d
      BY <2>1, <3>1, Z3
    <3>3. p * d < (2 * P) * (2 * P)
      BY <2>1, <3>1, Z3
    <3>4. (2 * P) * (2 * P) = 4 * (P * P)
      BY <2>1, Z3
    <3>. QED BY <3>1, <3>2, <3>3, <3>4
  <2>. HIDE DEF S, P, p, d
  <2>. QED BY <1>4, <2>6, <2>7
<1>9. Product < Pow2[BigBits] /\ Product >= 1
  <2>1. 2 * FracBits + 2 \in 0..MaxShift /\ BigBits \in 0..MaxShift /\ 2 * FracBits \in 0..MaxShift
        /\ 2 * FracBits + 2 <= BigBits
    BY <1>2
  <2>2. Pow2[2 * FracBits + 2] <= Pow2[BigBits] /\ Pow2[2 * FracBits + 2] \in Nat /\ Pow2[BigBits] \in Nat
        /\ Pow2[2 * FracBits] >= 1 /\ Pow2[2 * FracBits] \in Nat
    BY <2>1, Pow2Positive, Pow2Monotone
  <2>. QED BY <1>8, <2>2
<1>10. /\ Highest(Product) \in 0..(BigBits - 1)
       /\ Pow2[Highest(Product)] <= Product /\ Product < Pow2[Highest(Product) + 1]
       /\ 2 * FracBits <= Highest(Product) /\ Highest(Product) < 2 * FracBits + 2
  <2>1. 2 * FracBits \in Nat /\ 2 * FracBits < BigBits /\ 2 * FracBits + 2 \in Nat /\ 2 * FracBits + 2 <= BigBits
    BY <1>2
  <2>. QED BY <1>8, <1>9, <2>1, HighestIs
<1>. QED BY <1>2, <1>3, <1>7, <1>8, <1>9, <1>10

LEMMA ProductPacks ==
  ASSUME A \in Values, B \in Values, Regular(A), Regular(B), NEW num, NEW den, ExactlyProduct(num, den),
         NEW s \in {0, 1}, NEW md \in Modes
  PROVE  Packs(s, Product, ProductScale, md, ProductScale + Bias + FracBits - 1, num, den)
<1>1. /\ Weighs(Product, ProductScale + Bias + FracBits - 1, num, den)
      /\ ProductScale \in (2 - 2 * Bias - 4 * FracBits)..(2 * Bias - 2 * FracBits)
      /\ Product \in Nat /\ Product >= 1 /\ Product < Pow2[BigBits]
      /\ Highest(Product) \in (2 * FracBits)..(2 * FracBits + 1)
  BY ProductWeighs
<1>2. Bias >= 1 /\ Bias \in Nat /\ FracBits \in Nat
  BY Fields, Widths
<1>. DEFINE k == ProductScale + Bias + FracBits - 1
            h == Highest(Product)
<1>3. Limits(k + h - FracBits - 3) /\ Limits(k + h - FracBits)
  BY <1>1, <1>2, Widths DEF Limits
<1>4. InTable(k + h - FracBits - 3) /\ InTable(k + h - FracBits)
  BY <1>3, WithinLimits
<1>. QED BY <1>1, <1>4 DEF Packs, HoldsValue

LEMMA NonzeroProduct ==
  ASSUME A \in Values, B \in Values, Regular(A), Regular(B),
         NEW num \in Nat, NEW den \in Nat, den >= 1,
         num * Pow2[Ref!LogOne] = (Ref!Mag(A) * Ref!Mag(B)) * den
  PROVE  ExactlyProduct(num, den)
<1>. DEFINE M == Ref!Mag(A)
            N == Ref!Mag(B)
            h == Pow2[Ref!LogOne]
<1>1. M \in Nat /\ M >= 1 /\ N \in Nat /\ N >= 1
  BY ValueWeighs
<1>2. num * h = (M * N) * den
  OBVIOUS
<1>3. h \in Nat
  <2>1. Ref!LogOne \in 0..MaxShift
    BY SameFormat, Widths, Fields, TableAssumption DEF TableAssumption
  <2>. QED BY <2>1, Pow2Positive
<1>. HIDE DEF M, N, h
<1>4. M * N >= 1 * 1 /\ M * N \in Nat
  BY <1>1
<1>. DEFINE t == M * N
<1>. HIDE DEF t
<1>5. t * den >= 1 * 1
  BY <1>4 DEF t
<1>6. num # 0
  BY <1>2, <1>3, <1>5 DEF t
<1>7. num >= 1
  BY <1>6
<1>. QED BY <1>7 DEF ExactlyProduct

LEMMA MultiplyAnswer ==
  ASSUME RInv, IInv', Multiply
  PROVE  RInv'
<1>0. /\ call \in Calls /\ fe = {} /\ pc = "enter" /\ call.op = "mul"
      /\ Regular(A) /\ Regular(B) /\ ToPack(ResultSign, Product, ProductScale, call.mode, {})
  BY EnterFacts DEF Multiply, Numbers, Is
<1>1. Answered = Ref!Multiply(A, B, call.mode) /\ call.op \in Computed /\ ~ FarCall
  BY <1>0, Zenon DEF Answered, Computed, Arithmetic, FarCall
<1>2. /\ A \in Values /\ B \in Values /\ call.mode \in Modes /\ ResultSign \in {0, 1}
  BY <1>0, <1>1, ComputedOperands
<1>3. /\ A.e < ExpMax /\ ~ IsZero(A) /\ ~ IsNaN(A) /\ ~ IsInf(A)
      /\ B.e < ExpMax /\ ~ IsZero(B) /\ ~ IsNaN(B) /\ ~ IsInf(B)
  BY <1>0, <1>2, RegularFields
<1>4. Answered = Ref!RoundScaled(ResultSign, Ref!Odd(Ref!Mag(A)) * Ref!Odd(Ref!Mag(B)),
                                Ref!Twos(Ref!Mag(A)) + Ref!Twos(Ref!Mag(B)) - Ref!LogOne, 1, call.mode)
  BY <1>1, <1>3, ReferenceClasses, ReferenceSign DEF Ref!Multiply
<1>5. WideTable
  BY TableAssumption DEF TableAssumption, WideTable
<1>6. PICK num \in Nat, den \in Nat :
        /\ den >= 1 /\ num * Pow2[Ref!LogOne] = (Ref!Mag(A) * Ref!Mag(B)) * den
        /\ Answered = Ref!Round(ResultSign, num, den, call.mode)
  BY <1>2, <1>3, <1>4, <1>5, ExactProduct
<1>7. ExactlyProduct(num, den)
  BY <1>0, <1>2, <1>6, NonzeroProduct
<1>8. Packs(ResultSign, Product, ProductScale, call.mode, ProductScale + Bias + FracBits - 1, num, den)
  BY <1>0, <1>2, <1>7, ProductPacks
<1>9. Waits([sign |-> ResultSign, mag |-> Product, scale |-> ProductScale, mode |-> call.mode], {})
  BY <1>1, <1>6, <1>8, WaitsFor
<1>. QED BY <1>0, <1>9, PackWaits

LEMMA Factors ==
  ASSUME FusedCall
  PROVE  /\ A \in Values /\ A.e < ExpMax /\ ~ IsZero(A) /\ ~ IsNaN(A) /\ ~ IsInf(A)
         /\ B \in Values /\ B.e < ExpMax /\ ~ IsZero(B) /\ ~ IsNaN(B) /\ ~ IsInf(B)
         /\ call.c \in Values /\ call.c.e < ExpMax /\ ~ IsNaN(call.c) /\ ~ IsInf(call.c)
         /\ ResultSign \in {0, 1} /\ call.c.s \in {0, 1} /\ ZeroSign \in {0, 1} /\ call.mode \in Modes
<1>1. call.op \in Computed /\ call \in Calls
  BY Zenon DEF FusedCall, Computed
<1>2. A \in Values /\ B \in Values /\ call.c \in Values /\ call.mode \in Modes
      /\ ResultSign \in {0, 1} /\ ZeroSign \in {0, 1}
  BY <1>1, ComputedOperands
<1>3. /\ A.e < ExpMax /\ ~ IsZero(A) /\ ~ IsNaN(A) /\ ~ IsInf(A)
      /\ B.e < ExpMax /\ ~ IsZero(B) /\ ~ IsNaN(B) /\ ~ IsInf(B)
  BY <1>2, RegularFields DEF FusedCall
<1>4. ~ IsNaN(call.c) /\ ~ IsInf(call.c)
  BY DEF FusedCall, Finite
<1>5. call.c.e < ExpMax /\ call.c.s \in {0, 1}
  BY <1>2, <1>4, Fields DEF Values, IsNaN, IsInf
<1>. QED BY <1>2, <1>3, <1>4, <1>5

LEMMA FusedIs ==
  ASSUME FusedCall
  PROVE  \E num \in Nat, den \in Nat :
           /\ ExactlyProduct(num, den)
           /\ FusedAnswered = RoundedSum((IF ResultSign = 0 THEN num ELSE -num) + Ref!Signed(call.c) * den, den)
<1>. DEFINE M == Ref!Mag(A)
            N == Ref!Mag(B)
            n == Ref!Twos(M) + Ref!Twos(N) - Ref!LogOne
            o == Ref!Odd(M) * Ref!Odd(N)
            num == o * Over(n)
            den == Under(n)
            k == IF n < 0 THEN -n ELSE 0
            unit == Pow2[Ref!LogOne]
<1>1. /\ A \in Values /\ A.e < ExpMax /\ ~ IsZero(A) /\ ~ IsNaN(A) /\ ~ IsInf(A)
      /\ B \in Values /\ B.e < ExpMax /\ ~ IsZero(B) /\ ~ IsNaN(B) /\ ~ IsInf(B)
      /\ ~ IsNaN(call.c) /\ ~ IsInf(call.c)
  BY Factors
<1>2. /\ InTable(n) /\ den \in Nat /\ den >= 1 /\ o \in Nat /\ num \in Nat
      /\ num * unit = (M * N) * den
  <2>1. WideTable
    BY TableAssumption DEF TableAssumption, WideTable
  <2>. HIDE DEF M, N, n
  <2>2. M = Ref!Mag(A) /\ N = Ref!Mag(B) /\ n = Ref!Twos(M) + Ref!Twos(N) - Ref!LogOne
    BY DEF M, N, n
  <2>. QED BY <1>1, <2>1, <2>2, OddProduct
<1>3. M \in Nat /\ M >= 1 /\ N \in Nat /\ N >= 1
  BY <1>1, OperandMagnitude
<1>4. unit \in Nat
  <2>1. Ref!LogOne \in 0..MaxShift
    BY SameFormat, Fields, Widths
  <2>. QED BY <2>1, Pow2Positive
<1>5. Pow2[k] = den /\ Pow2[n + k] = Over(n)
  <2>. HIDE DEF n
  <2>1. n \in Int
    BY <1>2 DEF InTable
  <2>2. CASE n >= 0
    <3>1. k = 0 /\ n + k = n
      BY <2>1, <2>2
    <3>. QED BY <2>2, <3>1, Pow2Step DEF Over, Under
  <2>3. CASE ~ (n >= 0)
    <3>1. k = -n /\ n + k = 0
      BY <2>1, <2>3
    <3>. QED BY <2>3, <3>1, Pow2Step DEF Over, Under
  <2>. QED BY <2>2, <2>3
<1>. DEFINE product == o * Pow2[n + k]
            sum == (IF Ref!SignOf(A, B) = 0 THEN product ELSE -product) + Ref!Signed(call.c) * Pow2[k]
<1>6. FusedAnswered = IF sum = 0 THEN Ref!Result(Ref!ZeroSum(Ref!SignOf(A, B), call.c.s, call.mode), {})
                 ELSE Ref!Round(IF sum < 0 THEN 1 ELSE 0, IF sum < 0 THEN -sum ELSE sum, Pow2[k], call.mode)
  <2>1. /\ ~ Ref!IsZero(A) /\ ~ Ref!IsNaN(A) /\ ~ Ref!IsInf(A)
        /\ ~ Ref!IsZero(B) /\ ~ Ref!IsNaN(B) /\ ~ Ref!IsInf(B)
        /\ ~ Ref!IsNaN(call.c) /\ ~ Ref!IsInf(call.c)
    BY <1>1, SameClasses
  <2>2. FusedAnswered = Ref!FusedMultiplyAdd(A, B, call.c, call.mode)
    BY <1>1, Zenon DEF FusedAnswered
  <2>. QED BY <2>1, <2>2, Zenon DEF Ref!FusedMultiplyAdd
<1>7. Ref!SignOf(A, B) = ResultSign
  BY ReferenceSign
<1>. HIDE DEF M, N, n, o, k, unit
<1>8. num >= 1
  <2>. HIDE DEF num, den
  <2>1. M * N >= 1 /\ M * N \in Nat
    <3>1. M * N >= 1 * 1
      BY <1>3
    <3>. QED BY <1>3, <3>1
  <2>. DEFINE X == M * N
  <2>. HIDE DEF X
  <2>2. X * den >= 1 * 1
    BY <1>2, <2>1 DEF X
  <2>3. num = 0 => num * unit = 0
    BY <1>4
  <2>4. num * unit >= 1
    BY <1>2, <2>2 DEF X
  <2>. QED BY <1>2, <2>3, <2>4
<1>9. ExactlyProduct(num, den)
  BY <1>2, <1>8 DEF ExactlyProduct, M, N, unit
<1>10. FusedAnswered = RoundedSum((IF ResultSign = 0 THEN num ELSE -num) + Ref!Signed(call.c) * den, den)
  <2>. DEFINE x == (IF ResultSign = 0 THEN num ELSE -num) + Ref!Signed(call.c) * den
  <2>1. sum = x
    BY <1>5, <1>7
  <2>. HIDE DEF sum, x, num, den
  <2>2. FusedAnswered = RoundedSum(x, den)
    BY <1>5, <1>6, <1>7, <2>1, Zenon DEF RoundedSum
  <2>. QED BY <2>2 DEF x
<1>. HIDE DEF num, den
<1>. QED BY <1>2, <1>9, <1>10

(* The exact sum by the signs of product and addend.                       *)
LEMMA SignedSum ==
  ASSUME NEW s \in {0, 1}, NEW n \in Nat, n >= 1, NEW x, x = (IF s = 0 THEN n ELSE -n), NEW den
  PROVE  RoundedSum(x, den) = Ref!Round(s, n, den, call.mode)
<1>1. /\ x # 0
      /\ (IF x < 0 THEN 1 ELSE 0) = s
      /\ (IF x < 0 THEN -x ELSE x) = n
  <2>1. CASE s = 0
    BY <2>1
  <2>2. CASE s = 1
    <3>1. x = -n
      BY <2>2
    <3>. QED BY <2>2, <3>1
  <2>. QED BY <2>1, <2>2
<1>. QED BY <1>1, Zenon DEF RoundedSum

LEMMA SumBySigns ==
  ASSUME FusedCall, NEW num \in Nat, num >= 1, NEW den \in Nat, den >= 1,
         NEW sum, NEW s, FusedParts(num, den, sum, s)
  PROVE  /\ IsZero(call.c) => RoundedSum(sum, den) = Ref!Round(ResultSign, num, den, call.mode)
         /\ ~ IsZero(call.c) /\ ResultSign = call.c.s =>
              RoundedSum(sum, den) = Ref!Round(call.c.s, num + s, den, call.mode)
         /\ ~ IsZero(call.c) /\ ResultSign # call.c.s =>
              /\ num = s => RoundedSum(sum, den) = [res |-> SignedZero(ZeroSign), fe |-> {}]
              /\ num > s => RoundedSum(sum, den) = Ref!Round(ResultSign, num - s, den, call.mode)
              /\ s > num => RoundedSum(sum, den) = Ref!Round(call.c.s, s - num, den, call.mode)
<1>0. /\ sum = (IF ResultSign = 0 THEN num ELSE -num) + Ref!Signed(call.c) * den
      /\ s = Ref!Mag(call.c) * den
  BY DEF FusedParts
<1>1. ResultSign \in {0, 1} /\ call.c.s \in {0, 1} /\ call.c \in Values /\ call.c.e < ExpMax
  BY Factors
<1>. DEFINE p == IF ResultSign = 0 THEN num ELSE -num
            w == Ref!Signed(call.c) * den
<1>2. /\ IsZero(call.c) => Ref!Signed(call.c) = 0
      /\ ~ IsZero(call.c) => /\ Ref!Mag(call.c) \in Nat /\ Ref!Mag(call.c) >= 1
                             /\ call.c.s = 0 => Ref!Signed(call.c) = Ref!Mag(call.c)
                             /\ call.c.s = 1 => Ref!Signed(call.c) = -Ref!Mag(call.c)
  BY <1>1, SignedFacts
<1>3. /\ IsZero(call.c) => w = 0
      /\ ~ IsZero(call.c) => s \in Nat /\ s >= 1 /\ w = (IF call.c.s = 0 THEN s ELSE -s)
  <2>. DEFINE m == Ref!Mag(call.c)
  <2>1. IsZero(call.c) => w = 0
    BY <1>2
  <2>2. ASSUME ~ IsZero(call.c) PROVE s \in Nat /\ s >= 1 /\ w = (IF call.c.s = 0 THEN s ELSE -s)
    <3>1. m \in Nat /\ m >= 1 /\ s = m * den
      BY <1>0, <1>2, <2>2
    <3>2. w = (IF call.c.s = 0 THEN m ELSE -m) * den
      BY <1>1, <1>2, <2>2
    <3>. HIDE DEF m, w
    <3>3. m * den >= 1 * 1 /\ m * den \in Nat /\ (-m) * den = -(m * den)
      BY <3>1
    <3>4. s \in Nat /\ s >= 1
      BY <3>1, <3>3
    <3>. QED BY <1>1, <3>1, <3>2, <3>3, <3>4
  <2>. QED BY <2>1, <2>2
<1>4. sum = p + w
  BY <1>0
<1>. HIDE DEF w
<1>5. ASSUME IsZero(call.c)
      PROVE  RoundedSum(sum, den) = Ref!Round(ResultSign, num, den, call.mode)
  <2>1. sum = (IF ResultSign = 0 THEN num ELSE -num)
    BY <1>1, <1>3, <1>4, <1>5
  <2>. QED BY <1>1, <2>1, SignedSum
<1>6. ASSUME ~ IsZero(call.c), ResultSign = call.c.s
      PROVE  RoundedSum(sum, den) = Ref!Round(call.c.s, num + s, den, call.mode)
  <2>. DEFINE n == num + s
  <2>1. sum = (IF call.c.s = 0 THEN n ELSE -n) /\ n \in Nat /\ n >= 1
    BY <1>1, <1>3, <1>4, <1>6
  <2>. HIDE DEF n
  <2>2. RoundedSum(sum, den) = Ref!Round(call.c.s, n, den, call.mode)
    BY <1>1, <2>1, SignedSum
  <2>. QED BY <2>2 DEF n
<1>7. ASSUME ~ IsZero(call.c), ResultSign # call.c.s
      PROVE  /\ num = s => RoundedSum(sum, den) = [res |-> SignedZero(ZeroSign), fe |-> {}]
             /\ num > s => RoundedSum(sum, den) = Ref!Round(ResultSign, num - s, den, call.mode)
             /\ s > num => RoundedSum(sum, den) = Ref!Round(call.c.s, s - num, den, call.mode)
  <2>1. s \in Nat /\ w = (IF call.c.s = 0 THEN s ELSE -s)
    BY <1>3, <1>7
  <2>2. ASSUME num = s PROVE RoundedSum(sum, den) = [res |-> SignedZero(ZeroSign), fe |-> {}]
    <3>1. sum = 0
      <4>1. sum <= 0 /\ sum >= 0 /\ sum \in Int
        BY <1>1, <1>4, <1>7, <2>1, <2>2
      <4>. QED BY <4>1
    <3>2. Ref!ZeroSum(ResultSign, call.c.s, call.mode) = SignedZero(ZeroSign)
      BY <1>7, SameFormat, Zenon DEF Ref!ZeroSum, ZeroSign
    <3>. QED BY <3>1, <3>2, Zenon DEF RoundedSum, Ref!Result
  <2>3. ASSUME num > s PROVE RoundedSum(sum, den) = Ref!Round(ResultSign, num - s, den, call.mode)
    <3>. DEFINE n == num - s
    <3>1. sum = (IF ResultSign = 0 THEN n ELSE -n) /\ n \in Nat /\ n >= 1
      BY <1>1, <1>4, <1>7, <2>1, <2>3
    <3>. HIDE DEF n
    <3>2. RoundedSum(sum, den) = Ref!Round(ResultSign, n, den, call.mode)
      BY <1>1, <3>1, SignedSum
    <3>. QED BY <3>2 DEF n
  <2>4. ASSUME s > num PROVE RoundedSum(sum, den) = Ref!Round(call.c.s, s - num, den, call.mode)
    <3>. DEFINE n == s - num
    <3>1. sum = (IF call.c.s = 0 THEN n ELSE -n) /\ n \in Nat /\ n >= 1
      BY <1>1, <1>4, <1>7, <2>1, <2>4
    <3>. HIDE DEF n
    <3>2. RoundedSum(sum, den) = Ref!Round(call.c.s, n, den, call.mode)
      BY <1>1, <3>1, SignedSum
    <3>. QED BY <3>2 DEF n
  <2>. QED BY <2>2, <2>3, <2>4
<1>. QED BY <1>5, <1>6, <1>7

LEMMA FusedAnswerIs ==
  ASSUME FusedCall
  PROVE  Answered = FusedAnswered /\ ~ FarCall /\ call.op \in Computed
<1>1. call.op = "fma"
  BY DEF FusedCall
<1>. QED BY <1>1, Zenon DEF Answered, FarCall, Computed, Arithmetic

LEMMA ProductOnlyAnswer ==
  ASSUME RInv, IInv', ProductOnly
  PROVE  RInv'
<1>0. /\ FusedCall /\ fe = {} /\ IsZero(call.c)
      /\ ToPack(ResultSign, Product, ProductScale, call.mode, {})
  BY EnterFacts DEF ProductOnly, RegularFma, Numbers, Is, FusedCall
<1>1. Answered = FusedAnswered /\ ~ FarCall
  BY <1>0, FusedAnswerIs
<1>2. /\ A \in Values /\ B \in Values /\ Regular(A) /\ Regular(B) /\ call.mode \in Modes /\ ResultSign \in {0, 1}
  BY <1>0, Factors DEF FusedCall
<1>3. PICK num \in Nat, den \in Nat :
        /\ ExactlyProduct(num, den)
        /\ FusedAnswered = RoundedSum((IF ResultSign = 0 THEN num ELSE -num) + Ref!Signed(call.c) * den, den)
  BY <1>0, FusedIs
<1>4. num >= 1 /\ den >= 1
  BY <1>3 DEF ExactlyProduct
<1>5. Answered = Ref!Round(ResultSign, num, den, call.mode)
  <2>. DEFINE sum == (IF ResultSign = 0 THEN num ELSE -num) + Ref!Signed(call.c) * den
              s == Ref!Mag(call.c) * den
  <2>1. FusedParts(num, den, sum, s)
    BY Zenon DEF FusedParts
  <2>2. Answered = RoundedSum(sum, den)
    BY <1>1, <1>3
  <2>. HIDE DEF sum, s
  <2>. QED BY <1>0, <1>4, <2>1, <2>2, SumBySigns
<1>6. Packs(ResultSign, Product, ProductScale, call.mode, ProductScale + Bias + FracBits - 1, num, den)
  BY <1>2, <1>3, ProductPacks
<1>7. Waits([sign |-> ResultSign, mag |-> Product, scale |-> ProductScale, mode |-> call.mode], {})
  BY <1>1, <1>5, <1>6, WaitsFor
<1>. QED BY <1>0, <1>7, PackWaits

LEMMA JamNatural ==
  ASSUME NEW x \in Nat, NEW n \in Nat, n <= MaxShift
  PROVE  ShrJam(x, n) \in Nat
<1>1. Pow2[n] \in Nat /\ Pow2[n] >= 1
  <2>1. n \in 0..MaxShift
    BY Widths
  <2>. QED BY <2>1, Pow2Positive
<1>2. Shr(x, n) \in Nat
  BY <1>1, Split DEF Shr
<1>3. AnyLow(x, n) \in BOOLEAN
  BY DEF AnyLow
<1>. QED BY <1>2, <1>3, StickyBound DEF ShrJam

LEMMA FrameWidths ==
  /\ BigBits \in Nat /\ BigBits >= 2 * FracBits + 8 /\ BigBits < MaxShift /\ MaxShift \in Nat
  /\ FracBits \in Nat /\ FracBits >= 2 /\ Bias \in Nat /\ Bias >= 1
  /\ \A n \in 2..5 : /\ BigBits - n \in Nat /\ BigBits - n <= MaxShift
                     /\ Pow2[BigBits - n] \in Nat /\ Pow2[BigBits - n] >= 1
  /\ Pow2[BigBits - 1] = 2 * Pow2[BigBits - 2]
  /\ Pow2[BigBits - 2] = 2 * Pow2[BigBits - 3]
  /\ Pow2[BigBits - 3] = 2 * Pow2[BigBits - 4]
  /\ Pow2[BigBits - 4] = 2 * Pow2[BigBits - 5]
  /\ Pow2[FracBits + 3] <= Pow2[BigBits - 4]
<1>1. /\ BigBits \in Nat /\ BigBits >= 2 * FracBits + 8 /\ BigBits < MaxShift /\ MaxShift \in Nat
      /\ FracBits \in Nat /\ FracBits >= 2 /\ Bias \in Nat /\ Bias >= 1
  BY BigWidths, Widths, Fields
<1>2. \A n \in 2..5 : BigBits - n \in 0..MaxShift /\ BigBits - n <= MaxShift
  BY <1>1
<1>3. \A n \in 2..5 : Pow2[BigBits - n] \in Nat /\ Pow2[BigBits - n] >= 1
  BY <1>2, Pow2Positive
<1>4. \A n \in Nat : n + 1 <= MaxShift => Pow2[n + 1] = 2 * Pow2[n]
  BY Pow2Step
<1>5. /\ BigBits - 1 = (BigBits - 2) + 1 /\ BigBits - 2 = (BigBits - 3) + 1
      /\ BigBits - 3 = (BigBits - 4) + 1 /\ BigBits - 4 = (BigBits - 5) + 1
      /\ BigBits - 2 \in Nat /\ BigBits - 3 \in Nat /\ BigBits - 4 \in Nat /\ BigBits - 5 \in Nat
      /\ (BigBits - 2) + 1 <= MaxShift /\ (BigBits - 3) + 1 <= MaxShift
      /\ (BigBits - 4) + 1 <= MaxShift /\ (BigBits - 5) + 1 <= MaxShift
  BY <1>1
<1>6. Pow2[FracBits + 3] <= Pow2[BigBits - 4]
  <2>1. FracBits + 3 \in Nat /\ FracBits + 3 <= BigBits - 4 /\ BigBits - 4 <= MaxShift
    BY <1>1
  <2>. QED BY <1>5, <2>1, Pow2Monotone
<1>. QED BY <1>1, <1>2, <1>3, <1>4, <1>5, <1>6

LEMMA FramedIs ==
  ASSUME NEW mag \in Nat, mag >= 1, NEW h \in 0..(BigBits - 4), Pow2[h] <= mag, mag < Pow2[h + 1],
         NEW scale \in Int, FrameScale \in Int, scale + h <= FrameScale + (BigBits - 3),
         FrameScale - scale <= MaxShift,
         NEW k, k = scale + Bias + FracBits - 1, NEW f, f = FrameScale + Bias + FracBits - 1, InTable(f),
         NEW num, NEW den, Weighs(mag, k, num, den)
  PROVE  /\ InFrame(Framed(mag, scale), f, num, den)
         /\ scale + h = FrameScale + (BigBits - 3) => Leading(Framed(mag, scale), f, num, den)
<1>. DEFINE X == num * Under(f)
            Y == den * Over(f)
            top == BigBits - 3
            r == Framed(mag, scale)
<1>1. /\ num \in Nat /\ den \in Nat /\ den >= 1 /\ InTable(k) /\ k \in Int /\ f \in Int
  BY DEF Weighs, InTable
<1>2. X \in Nat /\ Y \in Nat /\ Y >= 1
  <2>. DEFINE o == Over(f)
              u == Under(f)
  <2>1. o \in Nat /\ o >= 1 /\ u \in Nat
    BY OverUnder
  <2>. HIDE DEF o, u
  <2>2. den * o >= 1 * 1
    BY <1>1, <2>1
  <2>. QED BY <1>1, <2>1, <2>2 DEF o, u
<1>3. h \in Nat /\ h + 1 <= MaxShift /\ mag < Pow2[BigBits]
  <2>1. h \in Nat /\ h + 1 <= BigBits /\ h + 1 \in 0..MaxShift /\ BigBits \in 0..MaxShift /\ h + 1 \in Nat
    BY FrameWidths
  <2>2. Pow2[h + 1] <= Pow2[BigBits] /\ Pow2[h + 1] \in Nat /\ Pow2[BigBits] \in Nat
    BY <2>1, Pow2Positive, Pow2Monotone
  <2>. QED BY <2>1, <2>2
<1>4. CASE scale >= FrameScale
  <2>. DEFINE n == scale - FrameScale
  <2>1. /\ n \in Nat /\ n < BigBits /\ k = f + n /\ InTable(n) /\ (h + 1) + n <= BigBits /\ h + 1 \in Nat
        /\ (h + 1) + n <= BigBits - 2 /\ (h + 1) + n \in 0..MaxShift /\ BigBits - 2 \in 0..MaxShift
        /\ n \in 0..MaxShift
    BY <1>3, <1>4, FrameWidths DEF InTable
  <2>2. /\ Shl(mag, n) = mag * Pow2[n]
        /\ mag * Pow2[n] \in Nat /\ mag * Pow2[n] < Pow2[(h + 1) + n]
    BY <2>1, ShlFits
  <2>3. r = mag * Pow2[n]
    BY <1>4, <2>2 DEF Framed
  <2>4. Weighs(r, f, num, den)
    <3>. HIDE DEF n, r
    <3>1. Weighs(mag * Pow2[n], f, num, den)
      BY <2>1, FinerFrame
    <3>. QED BY <2>3, <3>1
  <2>5. r < Pow2[BigBits - 2] /\ r \in Nat
    <3>1. Pow2[(h + 1) + n] <= Pow2[BigBits - 2]
      BY <2>1, Pow2Monotone
    <3>2. Pow2[(h + 1) + n] \in Nat /\ Pow2[BigBits - 2] \in Nat
      BY <2>1, Pow2Positive
    <3>. HIDE DEF n, r
    <3>. QED BY <2>2, <2>3, <3>1, <3>2
  <2>6. r >= 1
    <3>1. Pow2[n] \in Nat /\ Pow2[n] >= 1
      BY <2>1, Pow2Positive
    <3>. HIDE DEF n, r
    <3>2. mag * Pow2[n] >= 1 * 1
      BY <3>1
    <3>. QED BY <2>3, <3>2
  <2>7. Stands(r, X, Y, 2)
    <3>1. r * Y = X
      BY <2>4 DEF Weighs
    <3>2. 2 \in Nat /\ X \in Int /\ r \in Int
      BY <1>2, <2>5
    <3>. HIDE DEF X, Y, r
    <3>. QED BY <1>2, <3>1, <3>2, ExactStands
  <2>8. scale + h = FrameScale + top => Pow2[top] <= r /\ \E y \in Nat : r = 2 * y
    <3>. SUFFICES ASSUME scale + h = FrameScale + top
                  PROVE  Pow2[top] <= r /\ \E y \in Nat : r = 2 * y
      OBVIOUS
    <3>1. n = top - h /\ n >= 1 /\ top \in Nat /\ h <= top /\ top < MaxShift
      BY <1>3, FrameWidths
    <3>2. Pow2[top] <= mag * Pow2[top - h]
      <4>. HIDE DEF top
      <4>. QED BY <1>3, <3>1, ShiftToTop
    <3>3. Pow2[top] <= r
      BY <2>3, <3>1, <3>2
    <3>4. \E y \in Nat : r = 2 * y
      <4>. DEFINE j == n - 1
                  w == Pow2[j]
      <4>1. j \in Nat /\ j + 1 = n /\ j + 1 <= MaxShift /\ j \in 0..MaxShift
        BY <2>1, <3>1, FrameWidths
      <4>. HIDE DEF j, n, r
      <4>2. Pow2[n] = 2 * w /\ w \in Nat
        BY <4>1, Pow2Step
      <4>. HIDE DEF w
      <4>3. mag * w \in Nat /\ mag * (2 * w) = 2 * (mag * w)
        BY <4>2
      <4>. QED BY <2>3, <4>2, <4>3
    <3>. QED BY <3>3, <3>4
  <2>. HIDE DEF r
  <2>. QED BY <1>1, <2>4, <2>5, <2>6, <2>7, <2>8 DEF InFrame, Leading, X, Y, r
<1>5. CASE scale < FrameScale
  <2>. DEFINE n == FrameScale - scale
  <2>1. n \in Nat /\ n >= 1 /\ n <= MaxShift /\ f = k + n /\ n \in 0..MaxShift
    BY <1>5, FrameWidths
  <2>2. r = ShrJam(mag, n)
    BY <1>5 DEF Framed
  <2>. HIDE DEF n, r
  <2>3. HoldsValue(mag, k, num, den)
    BY DEF HoldsValue
  <2>4. Stands(r, X, Y, 2)
    BY <1>3, <2>1, <2>2, <2>3, BigJamStands
  <2>5. r \in Nat
    BY <2>1, <2>2, JamNatural
  <2>6. r # 0
    <3>1. ShrJam(mag, n) = 2 * 0 <=> mag = (2 * 0) * Pow2[n]
      BY <1>3, <2>1, BigJamSide
    <3>2. Pow2[n] \in Nat
      BY <2>1, Pow2Positive
    <3>3. (2 * 0) * Pow2[n] = 0
      BY <3>2
    <3>. QED BY <2>2, <3>1, <3>3
  <2>7. r < Pow2[BigBits - 4]
    <3>. DEFINE y == Pow2[BigBits - 5]
                d == Pow2[n]
    <3>1. y \in Nat /\ y >= 1 /\ Pow2[BigBits - 4] = 2 * y /\ Pow2[BigBits - 3] = 2 * (2 * y)
      BY FrameWidths
    <3>2. mag < Pow2[BigBits - 3]
      <4>1. h + 1 \in Nat /\ h + 1 <= BigBits - 3 /\ BigBits - 3 <= MaxShift /\ BigBits - 3 \in Nat
            /\ h + 1 \in 0..MaxShift
        BY <1>3, FrameWidths
      <4>2. Pow2[h + 1] <= Pow2[BigBits - 3] /\ Pow2[h + 1] \in Nat /\ Pow2[BigBits - 3] \in Nat
        BY <4>1, FrameWidths, Pow2Positive, Pow2Monotone
      <4>. QED BY <4>2
    <3>3. d \in Nat /\ d >= 2
      <4>1. 1 \in Nat /\ n \in Nat /\ 1 <= n /\ n <= MaxShift
        BY <2>1
      <4>2. Pow2[1] <= Pow2[n]
        BY <4>1, Pow2Monotone
      <4>. QED BY <2>1, <4>2, SmallPowers, Pow2Positive
    <3>4. ShrJam(mag, n) < 2 * y <=> mag < (2 * y) * d
      BY <1>3, <2>1, <3>1, BigJamSide
    <3>. HIDE DEF y, d
    <3>5. (2 * y) * d >= (2 * y) * 2 /\ (2 * y) * d \in Nat
      BY <3>1, <3>3
    <3>. QED BY <2>2, <3>1, <3>2, <3>4, <3>5
  <2>8. r < Pow2[BigBits - 2]
    BY <2>5, <2>7, FrameWidths
  <2>9. scale + h # FrameScale + top
    BY <1>5, FrameWidths
  <2>. QED BY <1>1, <2>4, <2>5, <2>6, <2>7, <2>8, <2>9 DEF InFrame, X, Y, r
<1>. QED BY <1>4, <1>5

LEMMA PairHolds ==
  ASSUME NEW p, NEW f, NEW num, NEW den, Weighs(p, f, num, den), Pow2[BigBits - 3] <= p,
         \E y \in Nat : p = 2 * y, NEW r \in Nat, NEW s \in Nat,
         Stands(r, s * Under(f), den * Over(f), 2),
         r < Pow2[BigBits - 4] \/ Weighs(r, f, s, den)
  PROVE  /\ HoldsValue(p + r, f, num + s, den)
         /\ p > r => num > s /\ HoldsValue(p - r, f, num - s, den)
         /\ r > p => s > num /\ HoldsValue(r - p, f, s - num, den)
         /\ p = r => num = s
<1>. DEFINE u == Under(f)
            o == Over(f)
            P == num * u
            R == s * u
            Q == den * o
            w == Pow2[BigBits - 4]
<1>1. /\ p \in Nat /\ num \in Nat /\ den \in Nat /\ den >= 1 /\ InTable(f) /\ p * Q = P
  BY DEF Weighs
<1>2. u \in Nat /\ u >= 1 /\ o \in Nat /\ o >= 1
  BY <1>1, OverUnder
<1>3. w \in Nat /\ w >= 1 /\ 2 * w <= p
  <2>. DEFINE t == BigBits - 4
  <2>1. t \in Nat /\ t + 1 = BigBits - 3 /\ t + 1 <= MaxShift /\ t \in 0..MaxShift
    BY Widths, FrameWidths
  <2>2. Pow2[t] \in Nat /\ Pow2[t] >= 1 /\ Pow2[t + 1] <= p
    BY <2>1, Pow2Positive
  <2>. HIDE DEF t
  <2>3. Pow2[t + 1] = 2 * Pow2[t]
    BY <2>1, Pow2Step
  <2>. QED BY <2>2, <2>3 DEF t
<1>4. r < w \/ r * Q = R
  BY DEF Weighs
<1>5. Stands(r, R, Q, 2)
  OBVIOUS
<1>. HIDE DEF u, o, w
<1>6. P \in Nat /\ R \in Nat /\ Q \in Nat /\ Q >= 1
  <2>1. den * o >= 1 * 1
    BY <1>1, <1>2
  <2>. QED BY <1>1, <1>2, <2>1
<1>7. P + R = (num + s) * u /\ P - R = (num - s) * u /\ R - P = (s - num) * u
  BY <1>1, <1>2, Z3
<1>8. /\ P = R <=> num = s
      /\ P > R <=> num > s
      /\ R > P <=> s > num
  <2>1. num > s => num * u > s * u
    BY <1>1, <1>2
  <2>2. s > num => s * u > num * u
    BY <1>1, <1>2
  <2>3. num = s \/ num > s \/ s > num
    BY <1>1
  <2>. QED BY <1>1, <1>2, <1>6, <2>1, <2>2, <2>3
<1>. HIDE DEF P, R, Q
<1>9. /\ Stands(p + r, P + R, Q, 2) /\ Stands(p - r, P - R, Q, 2) /\ Stands(r - p, R - P, Q, 2)
      /\ p = r <=> P = R
      /\ p > r <=> P > R
  <2>1. EvenAndExact(p, P, Q)
    BY <1>1, <1>6 DEF EvenAndExact
  <2>. QED BY <1>1, <1>5, <1>6, <2>1, SumStands
<1>10. r > p <=> R > P
  BY <1>1, <1>6, <1>9
<1>11. num + s \in Nat /\ (num > s => num - s \in Nat) /\ (s > num => s - num \in Nat)
  BY <1>1
<1>12. CASE r * Q = R
  <2>1. /\ (p + r) * Q = P + R
        /\ (p - r) * Q = P - R
        /\ (r - p) * Q = R - P
    BY <1>1, <1>6, <1>12, Z3
  <2>2. /\ p + r \in Nat
        /\ p > r => p - r \in Nat
        /\ r > p => r - p \in Nat
    BY <1>1
  <2>3. Weighs(p + r, f, num + s, den)
    BY <1>1, <1>7, <1>11, <2>1, <2>2 DEF Weighs, Q, u, o
  <2>4. p > r => Weighs(p - r, f, num - s, den)
    <3>. SUFFICES ASSUME p > r PROVE Weighs(p - r, f, num - s, den)
      OBVIOUS
    <3>1. num > s
      BY <1>8, <1>9
    <3>. QED BY <1>1, <1>7, <1>11, <2>1, <2>2, <3>1 DEF Weighs, Q, u, o
  <2>5. r > p => Weighs(r - p, f, s - num, den)
    <3>. SUFFICES ASSUME r > p PROVE Weighs(r - p, f, s - num, den)
      OBVIOUS
    <3>1. s > num
      BY <1>8, <1>10
    <3>. QED BY <1>1, <1>7, <1>11, <2>1, <2>2, <3>1 DEF Weighs, Q, u, o
  <2>. QED BY <1>8, <1>9, <1>10, <2>3, <2>4, <2>5 DEF HoldsValue
<1>13. CASE r < w
  <2>1. p > r /\ p + r \in Nat /\ p - r \in Nat /\ w <= p + r /\ w <= p - r
    BY <1>1, <1>3, <1>13
  <2>2. num > s /\ num - s \in Nat
    BY <1>8, <1>9, <1>11, <2>1
  <2>3. Stands(p + r, (num + s) * u, Q, 2) /\ Stands(p - r, (num - s) * u, Q, 2)
    BY <1>7, <1>9
  <2>4. ~ (r > p) /\ p # r
    BY <1>1, <2>1
  <2>5. HoldsValue(p + r, f, num + s, den) /\ HoldsValue(p - r, f, num - s, den)
    <3>1. Pow2[FracBits + 3] <= p + r /\ Pow2[FracBits + 3] <= p - r
      <4>1. FracBits + 3 \in 0..MaxShift
        BY Widths
      <4>2. Pow2[FracBits + 3] \in Nat
        BY <4>1, Pow2Positive
      <4>3. Pow2[FracBits + 3] <= w
        BY FrameWidths DEF w
      <4>. QED BY <1>1, <1>3, <2>1, <4>2, <4>3
    <3>. QED BY <1>1, <1>11, <2>1, <2>2, <2>3, <3>1 DEF HoldsValue, Q, u, o
  <2>. QED BY <2>2, <2>4, <2>5
<1>. QED BY <1>4, <1>12, <1>13

LEMMA FramePair ==
  ASSUME NEW p, NEW f, NEW num, NEW den, Leading(p, f, num, den), InFrame(p, f, num, den),
         NEW r, NEW s, InFrame(r, f, s, den),
         f - FracBits - 3 >= -(BigBits + FracBits + Bias),
         f + (BigBits - 1) - FracBits - 1 <= 2 * FracBits + 3 * Bias
  PROVE  /\ Addends(p, r, f, num, s, den, BigBits - 1)
         /\ Addends(r, p, f, s, num, den, BigBits - 1)
<1>1. /\ p \in Nat /\ p >= 1 /\ p < Pow2[BigBits - 2] /\ InTable(f) /\ num \in Nat
      /\ r \in Nat /\ r >= 1 /\ r < Pow2[BigBits - 2] /\ s \in Nat
      /\ Stands(r, s * Under(f), den * Over(f), 2)
      /\ r < Pow2[BigBits - 4] \/ Weighs(r, f, s, den)
      /\ Weighs(p, f, num, den) /\ Pow2[BigBits - 3] <= p /\ \E y \in Nat : p = 2 * y
  BY DEF InFrame, Leading
<1>2. /\ HoldsValue(p + r, f, num + s, den)
      /\ p > r => num > s /\ HoldsValue(p - r, f, num - s, den)
      /\ r > p => s > num /\ HoldsValue(r - p, f, s - num, den)
      /\ p = r => num = s
  BY <1>1, PairHolds
<1>3. p + r = r + p /\ num + s = s + num /\ f \in Int
  BY <1>1 DEF InTable
<1>4. p + r < Pow2[BigBits - 1] /\ BigBits - 1 \in Nat /\ BigBits - 1 <= BigBits
  <2>1. Pow2[BigBits - 1] = 2 * Pow2[BigBits - 2] /\ Pow2[BigBits - 2] \in Nat
    BY FrameWidths
  <2>. QED BY <1>1, <2>1, FrameWidths
<1>5. Addends(p, r, f, num, s, den, BigBits - 1)
  BY <1>1, <1>2, <1>3, <1>4 DEF Addends
<1>6. Addends(r, p, f, s, num, den, BigBits - 1)
  BY <1>1, <1>2, <1>3, <1>4 DEF Addends
<1>. QED BY <1>5, <1>6

LEMMA FrameHolds ==
  ASSUME FusedCall, ~ IsZero(call.c), NEW num, NEW den, ExactlyProduct(num, den)
  PROVE  /\ FrameScale \in Int
         /\ Addends(Framed(Product, ProductScale), Framed(Sig(call.c), Exponent(call.c) - FracBits),
                    FrameScale + Bias + FracBits - 1, num, Ref!Mag(call.c) * den, den, BigBits - 1)
<1>. DEFINE h == Highest(Product)
            e == Exponent(call.c)
            m == Sig(call.c)
            M == Ref!Mag(call.c)
            g == e - FracBits
            x == ProductScale + h
            f == FrameScale + Bias + FracBits - 1
            p == Framed(Product, ProductScale)
            r == Framed(m, g)
            s == M * den
<1>1. /\ A \in Values /\ B \in Values /\ Regular(A) /\ Regular(B)
      /\ call.c \in Values /\ Regular(call.c) /\ den \in Nat /\ den >= 1 /\ num \in Nat
  BY Factors DEF FusedCall, Regular, ExactlyProduct
<1>2. /\ Weighs(Product, ProductScale + Bias + FracBits - 1, num, den)
      /\ ProductScale \in (2 - 2 * Bias - 4 * FracBits)..(2 * Bias - 2 * FracBits)
      /\ Product \in Nat /\ Product >= 1
      /\ h \in (2 * FracBits)..(2 * FracBits + 1)
      /\ Pow2[h] <= Product /\ Product < Pow2[h + 1]
  BY <1>1, ProductWeighs
<1>3. /\ Weighs(m, e + Bias - 1, M, 1)
      /\ e \in (1 - Bias - FracBits)..Bias
      /\ m \in Nat /\ Pow2[FracBits] <= m /\ m < Pow2[FracBits + 1]
  BY <1>1, ValueWeighs
<1>4. m >= 1
  <2>1. FracBits \in 0..MaxShift
    BY Widths
  <2>. QED BY <1>3, <2>1, Pow2Positive
<1>5. Weighs(m, g + Bias + FracBits - 1, s, den)
  <2>1. g + Bias + FracBits - 1 = e + Bias - 1
    BY <1>3, FrameWidths
  <2>. HIDE DEF m, M, e
  <2>2. Weighs(m, e + Bias - 1, M * den, 1 * den)
    BY <1>1, <1>3, WeighsTimes
  <2>3. 1 * den = den
    BY <1>1
  <2>. QED BY <2>1, <2>2, <2>3
<1>6. FrameScale = (IF x > e THEN x ELSE e) - (BigBits - 3)
  BY DEF FrameScale
<1>. HIDE DEF h, e, m, M, x
<1>7. /\ FrameScale \in Int
      /\ (x > e => FrameScale = x - (BigBits - 3)) /\ (~ (x > e) => FrameScale = e - (BigBits - 3))
      /\ x \in Int /\ x >= 2 - 2 * Bias - 2 * FracBits /\ x <= 2 * Bias + 1
  BY <1>2, <1>3, <1>6, FrameWidths DEF x
<1>8. /\ FrameScale <= 2 * Bias + 1 - (BigBits - 3)
      /\ FrameScale >= 1 - Bias - FracBits - (BigBits - 3)
      /\ FrameScale >= x - (BigBits - 3) /\ FrameScale >= e - (BigBits - 3)
  BY <1>3, <1>7, FrameWidths
<1>9. /\ g \in Int /\ FracBits \in 0..(BigBits - 4) /\ h \in 0..(BigBits - 4)
      /\ ProductScale \in Int
      /\ ProductScale + h <= FrameScale + (BigBits - 3) /\ g + FracBits <= FrameScale + (BigBits - 3)
  BY <1>2, <1>3, <1>7, <1>8, FrameWidths DEF x
<1>10. FrameScale - ProductScale <= MaxShift /\ FrameScale - g <= MaxShift
  <2>1. 2 * FracBits + 3 * Bias <= MaxShift
    BY TableAssumption DEF TableAssumption
  <2>2. x > e \/ ~ (x > e)
    OBVIOUS
  <2>3. CASE x > e
    BY <1>2, <1>3, <1>7, <1>8, <2>1, <2>3, FrameWidths DEF x
  <2>4. CASE ~ (x > e)
    BY <1>2, <1>3, <1>7, <1>8, <2>1, <2>4, FrameWidths DEF x
  <2>. QED BY <2>2, <2>3, <2>4
<1>11. /\ f \in Int /\ f - FracBits - 3 >= -(BigBits + FracBits + Bias)
       /\ f + (BigBits - 1) - FracBits - 1 <= 2 * FracBits + 3 * Bias
  BY <1>7, <1>8, FrameWidths
<1>12. InTable(f)
  <2>1. Limits(f)
    BY <1>7, <1>8, FrameWidths DEF Limits
  <2>. QED BY <2>1, WithinLimits
<1>. HIDE DEF f, g, s
<1>13. /\ InFrame(p, f, num, den)
       /\ ProductScale + h = FrameScale + (BigBits - 3) => Leading(p, f, num, den)
  BY <1>2, <1>7, <1>9, <1>10, <1>12, FramedIs DEF f
<1>14. /\ InFrame(r, f, s, den)
       /\ g + FracBits = FrameScale + (BigBits - 3) => Leading(r, f, s, den)
  BY <1>3, <1>4, <1>5, <1>7, <1>9, <1>10, <1>12, FramedIs DEF f
<1>. HIDE DEF p, r
<1>15. Leading(p, f, num, den) \/ Leading(r, f, s, den)
  <2>1. CASE x > e
    <3>1. ProductScale + h = FrameScale + (BigBits - 3)
      BY <1>2, <1>7, <2>1, FrameWidths DEF x
    <3>. QED BY <1>13, <3>1
  <2>2. CASE ~ (x > e)
    <3>1. g + FracBits = FrameScale + (BigBits - 3)
      BY <1>3, <1>7, <2>2, FrameWidths DEF g
    <3>. QED BY <1>14, <3>1
  <2>. QED BY <2>1, <2>2
<1>16. Addends(p, r, f, num, s, den, BigBits - 1)
  BY <1>11, <1>13, <1>14, <1>15, FramePair
<1>. QED BY <1>7, <1>16 DEF p, r, f, s, m, g, M, e

LEMMA FusedSumAnswer ==
  ASSUME RInv, IInv', FusedSum
  PROVE  RInv'
<1>. DEFINE p == Framed(Product, ProductScale)
            r == Framed(Sig(call.c), Exponent(call.c) - FracBits)
            f == FrameScale + Bias + FracBits - 1
<1>0. /\ FusedCall /\ fe = {} /\ ~ IsZero(call.c) /\ pc = "enter"
      /\ Combine(ResultSign, p, call.c.s, r, FrameScale)
  BY EnterFacts DEF FusedSum, RegularFma, Numbers, Is, FusedCall
<1>1. Answered = FusedAnswered /\ ~ FarCall /\ call.op \in Computed
  BY <1>0, FusedAnswerIs
<1>2. ResultSign \in {0, 1} /\ call.c.s \in {0, 1}
  BY <1>0, Factors
<1>3. PICK num \in Nat, den \in Nat :
        /\ ExactlyProduct(num, den)
        /\ FusedAnswered = RoundedSum((IF ResultSign = 0 THEN num ELSE -num) + Ref!Signed(call.c) * den, den)
  BY <1>0, FusedIs
<1>4. num >= 1 /\ den >= 1
  BY <1>3 DEF ExactlyProduct
<1>. DEFINE s == Ref!Mag(call.c) * den
<1>5. FrameScale \in Int /\ Addends(p, r, f, num, s, den, BigBits - 1)
  BY <1>0, <1>3, FrameHolds
<1>6. SumIs(ResultSign, num, call.c.s, s, den)
  <2>. DEFINE sum == (IF ResultSign = 0 THEN num ELSE -num) + Ref!Signed(call.c) * den
  <2>1. FusedParts(num, den, sum, s)
    BY Zenon DEF FusedParts
  <2>2. Answered = RoundedSum(sum, den)
    BY <1>1, <1>3
  <2>. HIDE DEF sum, s
  <2>3. /\ ResultSign = call.c.s => Answered = Ref!Round(call.c.s, num + s, den, call.mode)
        /\ ResultSign # call.c.s =>
              /\ num = s => Answered = [res |-> SignedZero(ZeroSign), fe |-> {}]
              /\ num > s => Answered = Ref!Round(ResultSign, num - s, den, call.mode)
              /\ s > num => Answered = Ref!Round(call.c.s, s - num, den, call.mode)
    BY <1>0, <1>4, <2>1, <2>2, SumBySigns
  <2>. QED BY <2>3 DEF SumIs
<1>7. f = FrameScale + Bias + FracBits - 1 /\ f \in Int
  BY <1>5, FrameWidths
<1>. HIDE DEF p, r, f, s
<1>. QED BY <1>0, <1>1, <1>2, <1>5, <1>6, <1>7, CombineAnswers

LEMMA FarAbove ==
  ASSUME NEW v \in Values, v.e \in 2..(ExpMax - 1), NEW delta \in Nat, delta >= 1,
         4 * delta < Unit(v.e), NEW md \in Modes
  PROVE  Ref!Round(v.s, Ref!Mag(v) + delta, 1, md).res =
           IF md = (IF v.s = 0 THEN "RUP" ELSE "RDN") THEN Moved(v, 1) ELSE v
<1>. DEFINE e == v.e
            m == Whole(v)
            D == Unit(e)
            num == Ref!Mag(v) + delta
            word == v.e * ImplicitBit + v.f
<1>1. /\ e \in 1..(ExpMax - 1) /\ v.e < ExpMax /\ v.e # 0 /\ v.s \in {0, 1} /\ ExpMax \in Nat
      /\ Binade(v.e) = e
  BY Fields DEF Values, Binade
<1>2. /\ m \in Nat /\ m < 2 * ImplicitBit /\ (e = 1 \/ ImplicitBit <= m)
      /\ IndexOf(e, m) = word /\ Ref!Mag(v) = m * D
  BY <1>1, ValueAt
<1>3. D \in Nat /\ D >= 1 /\ e \in 1..ExpMax
  <2>1. e \in 1..ExpMax
    BY <1>1
  <2>. QED BY <2>1, UnitFacts
<1>4. ImplicitBit \in Nat
  BY Fields
<1>. HIDE DEF m, D
<1>5. /\ num \in Nat /\ m * D <= num /\ num < (m + 1) * D /\ num # m * D
      /\ 2 * num < (2 * m + 1) * D
  <2>. DEFINE p == m * D
  <2>1. p \in Nat /\ num = p + delta
    BY <1>2, <1>3
  <2>2. (m + 1) * D = p + D /\ (2 * m + 1) * D = 2 * p + D
    BY <1>2, <1>3, Z3
  <2>3. 4 * delta < D
    BY DEF D
  <2>. HIDE DEF p, num
  <2>4. p <= num /\ num < p + D /\ num # p /\ 2 * num < 2 * p + D /\ num \in Nat
    BY <1>3, <2>1, <2>3
  <2>. QED BY <2>2, <2>4 DEF p
<1>. DEFINE up == Upwards(v.s, m, TRUE, FALSE, FALSE, md)
<1>6. Ref!Round(v.s, num, 1, md) = Neighbour(v.s, e, m, up, TRUE, md)
  <2>1. D = Unit(e) * 1
    BY <1>3 DEF D
  <2>2. Ref!Round(v.s, num, 1, md) =
          Neighbour(v.s, e, m,
                    Upwards(v.s, m, num # m * D, 2 * num >= (2 * m + 1) * D,
                            2 * num = (2 * m + 1) * D, md),
                    num # m * D, md)
    <3>. HIDE DEF e, num
    <3>. QED BY <1>1, <1>2, <1>5, <2>1, RoundAt
  <2>3. /\ (num # m * D) = TRUE /\ (2 * num >= (2 * m + 1) * D) = FALSE
        /\ (2 * num = (2 * m + 1) * D) = FALSE
    <3>. DEFINE r == (2 * m + 1) * D
                t == 2 * num
    <3>1. r \in Int /\ t \in Int /\ t < r
      BY <1>2, <1>3, <1>5
    <3>. HIDE DEF r, t
    <3>2. ~ (t >= r) /\ t # r
      BY <3>1
    <3>. QED BY <1>5, <3>2 DEF r, t
  <2>. QED BY <2>2, <2>3
<1>7. up <=> md = (IF v.s = 0 THEN "RUP" ELSE "RDN")
  BY <1>1, DirectedSteps
<1>8. word \in Nat /\ IndexOf(e, m + 1) = word + 1
  <2>1. IndexOf(e, m + 1) = IndexOf(e, m) + 1
    BY <1>1, <1>2, <1>4 DEF IndexOf
  <2>. QED BY <1>2, <2>1, NotMoved
<1>9. CASE ~ up
  <2>1. IndexOf(e, m) = word
    BY <1>2
  <2>2. Neighbour(v.s, e, m, up, TRUE, md).res =
          [s |-> v.s, e |-> word \div ImplicitBit, f |-> word % ImplicitBit]
    <3>. HIDE DEF word, e, up
    <3>. QED BY <1>9, <2>1 DEF Neighbour
  <2>3. Neighbour(v.s, e, m, up, TRUE, md).res = v
    BY <2>2, NotMoved
  <2>. QED BY <1>6, <1>7, <1>9, <2>3
<1>10. CASE up
  <2>1. Moved(v, 1) = [s |-> v.s, e |-> (word + 1) \div ImplicitBit, f |-> (word + 1) % ImplicitBit]
    BY DEF Moved
  <2>2. Overflow(v.s, md).res = SignedInf(v.s)
    BY <1>1, <1>7, <1>10 DEF Overflow, OverflowResult
  <2>3. CASE word + 1 = ExpMax * ImplicitBit
    <3>1. (word + 1) \div ImplicitBit = ExpMax /\ (word + 1) % ImplicitBit = 0
      <4>1. ImplicitBit >= 1 /\ 0 \in Nat /\ 0 < ImplicitBit
        BY GuardPowers
      <4>2. word + 1 = ExpMax * ImplicitBit + 0
        BY <1>1, <1>4, <2>3
      <4>3. (ExpMax * ImplicitBit + 0) \div ImplicitBit = ExpMax /\ (ExpMax * ImplicitBit + 0) % ImplicitBit = 0
        BY <1>1, <1>4, <4>1, Join
      <4>. QED BY <4>2, <4>3
    <3>2. Neighbour(v.s, e, m, up, TRUE, md) = Overflow(v.s, md)
      <4>. HIDE DEF word, e, up
      <4>. QED BY <1>8, <1>10, <2>3 DEF Neighbour
    <3>. QED BY <1>6, <1>7, <1>10, <2>1, <2>2, <3>1, <3>2 DEF SignedInf
  <2>4. CASE word + 1 # ExpMax * ImplicitBit
    <3>2. Neighbour(v.s, e, m, up, TRUE, md).res =
            [s |-> v.s, e |-> (word + 1) \div ImplicitBit, f |-> (word + 1) % ImplicitBit]
      <4>. HIDE DEF word, e, up
      <4>. QED BY <1>8, <1>10, <2>4 DEF Neighbour
    <3>. QED BY <1>6, <1>7, <1>10, <2>1, <3>2
  <2>. QED BY <2>3, <2>4
<1>. QED BY <1>9, <1>10

LEMMA FarBelow ==
  ASSUME NEW v \in Values, v.e \in 2..(ExpMax - 1), NEW delta \in Nat, delta >= 1,
         4 * delta < Unit(v.e), NEW md \in Modes
  PROVE  /\ Ref!Mag(v) > delta
         /\ Ref!Round(v.s, Ref!Mag(v) - delta, 1, md).res =
              IF md = "RTZ" \/ md = (IF v.s = 0 THEN "RDN" ELSE "RUP") THEN Moved(v, -1) ELSE v
<1>. DEFINE word == v.e * ImplicitBit + v.f
            M == Ref!Mag(v)
            num == M - delta
<1>1. /\ v.e \in 1..(ExpMax - 1) /\ v.e < ExpMax /\ v.e # 0 /\ v.s \in {0, 1} /\ ExpMax \in Nat
      /\ Binade(v.e) = v.e /\ v.e - 1 \in 1..(ExpMax - 1) /\ v.e \in 1..ExpMax /\ v.e - 1 \in 1..ExpMax
      /\ v.e - 1 \in Int /\ v.f \in Nat
  BY Fields DEF Values, Binade
<1>2. /\ Whole(v) \in Nat /\ Whole(v) < 2 * ImplicitBit /\ (v.e = 1 \/ ImplicitBit <= Whole(v))
      /\ IndexOf(v.e, Whole(v)) = word /\ M = Whole(v) * Unit(v.e)
  BY <1>1, ValueAt
<1>3. /\ Unit(v.e) \in Nat /\ Unit(v.e) >= 1 /\ Unit(v.e - 1) \in Nat /\ Unit(v.e - 1) >= 1
      /\ Unit(v.e) = 2 * Unit(v.e - 1)
  <2>1. /\ Unit(v.e) \in Nat /\ Unit(v.e) >= 1 /\ Unit(v.e - 1) \in Nat /\ Unit(v.e - 1) >= 1
    BY <1>1, UnitFacts
  <2>2. v.e - 1 < ExpMax => Unit((v.e - 1) + 1) = 2 * Unit(v.e - 1)
    BY <1>1, UnitFacts
  <2>3. (v.e - 1) + 1 = v.e /\ v.e - 1 < ExpMax
    BY <1>1
  <2>. QED BY <2>1, <2>2, <2>3
<1>4. ImplicitBit \in Nat /\ ImplicitBit >= 4
  BY GuardPowers
<1>5. PICK e \in 1..(ExpMax - 1), m \in Nat :
        /\ m < 2 * ImplicitBit /\ (e = 1 \/ ImplicitBit <= m)
        /\ IndexOf(e, m + 1) = word /\ M = (m + 1) * Unit(e) /\ 2 * delta < Unit(e)
        /\ IndexOf(e, m) = word - 1
  <2>. DEFINE w == Whole(v)
              U == Unit(v.e)
              H == Unit(v.e - 1)
  <2>1. CASE w # ImplicitBit
    <3>1. w - 1 \in Nat /\ w - 1 < 2 * ImplicitBit /\ ImplicitBit <= w - 1 /\ (w - 1) + 1 = w
      BY <1>1, <1>2, <1>4, <2>1
    <3>2. 2 * delta < U
      BY <1>3
    <3>3. IndexOf(v.e, w - 1) = word - 1
      BY <1>1, <1>2, <1>4, <3>1 DEF IndexOf
    <3>. QED BY <1>1, <1>2, <3>1, <3>2, <3>3
  <2>2. CASE w = ImplicitBit
    <3>. DEFINE m == 2 * ImplicitBit - 1
    <3>1. m \in Nat /\ m < 2 * ImplicitBit /\ ImplicitBit <= m /\ m + 1 = 2 * ImplicitBit
      BY <1>4
    <3>2. M = (m + 1) * H
      BY <1>2, <1>3, <1>4, <2>2
    <3>3. 2 * delta < H
      BY <1>3
    <3>4. word = (v.e - 1) * ImplicitBit + ImplicitBit
      BY <1>2, <2>2 DEF IndexOf
    <3>5. IndexOf(v.e - 1, m + 1) = word /\ IndexOf(v.e - 1, m) = word - 1
      BY <1>1, <1>4, <3>4 DEF IndexOf
    <3>. QED BY <1>1, <3>1, <3>2, <3>3, <3>5
  <2>. QED BY <2>1, <2>2
<1>. DEFINE D == Unit(e)
            up == Upwards(v.s, m, TRUE, TRUE, FALSE, md)
<1>6. D \in Nat /\ D >= 1
  <2>1. e \in 1..ExpMax
    BY <1>1
  <2>. QED BY <2>1, UnitFacts
<1>7. /\ num \in Nat /\ num >= 1 /\ m * D <= num /\ num < (m + 1) * D /\ num # m * D
      /\ 2 * num > (2 * m + 1) * D /\ M > delta
  <2>. DEFINE p == m * D
  <2>1. p \in Nat /\ (m + 1) * D = p + D /\ (2 * m + 1) * D = 2 * p + D
    BY <1>6, Z3
  <2>2. M = p + D /\ 2 * delta < D
    BY <1>5, <2>1 DEF D
  <2>. HIDE DEF p, M, D
  <2>3. num \in Nat /\ num >= 1 /\ p <= num /\ num < p + D /\ num # p /\ 2 * num > 2 * p + D /\ M > delta
    BY <1>6, <2>1, <2>2
  <2>. QED BY <2>1, <2>3 DEF p
<1>. HIDE DEF M
<1>8. Ref!Round(v.s, num, 1, md) = Neighbour(v.s, e, m, up, TRUE, md)
  <2>1. D = Unit(e) * 1
    BY <1>6
  <2>2. Ref!Round(v.s, num, 1, md) =
          Neighbour(v.s, e, m,
                    Upwards(v.s, m, num # m * D, 2 * num >= (2 * m + 1) * D,
                            2 * num = (2 * m + 1) * D, md),
                    num # m * D, md)
    <3>. HIDE DEF num, D
    <3>. QED BY <1>1, <1>5, <1>7, <2>1, RoundAt
  <2>3. /\ (num # m * D) = TRUE /\ (2 * num >= (2 * m + 1) * D) = TRUE
        /\ (2 * num = (2 * m + 1) * D) = FALSE
    <3>. DEFINE r == (2 * m + 1) * D
                t == 2 * num
    <3>1. r \in Int /\ t \in Int /\ t > r
      BY <1>6, <1>7
    <3>. HIDE DEF r, t
    <3>2. t >= r /\ t # r
      BY <3>1
    <3>. QED BY <1>7, <3>2 DEF r, t
  <2>. QED BY <2>2, <2>3
<1>9. up <=> ~ (md = "RTZ" \/ md = (IF v.s = 0 THEN "RDN" ELSE "RUP"))
  BY <1>1, DirectedSteps
<1>10. word \in Nat /\ word # ExpMax * ImplicitBit
  <2>1. word < ExpMax * ImplicitBit
    <3>1. v.f < ImplicitBit /\ v.e + 1 <= ExpMax
      BY <1>1, Fields DEF Values
    <3>2. (v.e + 1) * ImplicitBit <= ExpMax * ImplicitBit
      BY <1>1, <1>4, <3>1
    <3>. QED BY <1>1, <1>4, <3>1, <3>2
  <2>2. word \in Nat
    BY NotMoved
  <2>. QED BY <1>1, <1>4, <2>1, <2>2
<1>11. CASE up
  <2>1. Neighbour(v.s, e, m, up, TRUE, md).res =
          [s |-> v.s, e |-> word \div ImplicitBit, f |-> word % ImplicitBit]
    <3>. HIDE DEF word, up
    <3>. QED BY <1>5, <1>10, <1>11 DEF Neighbour
  <2>2. Neighbour(v.s, e, m, up, TRUE, md).res = v
    BY <2>1, NotMoved
  <2>. QED BY <1>7, <1>8, <1>9, <1>11, <2>2 DEF M
<1>12. CASE ~ up
  <2>1. Moved(v, -1) = [s |-> v.s, e |-> (word - 1) \div ImplicitBit, f |-> (word - 1) % ImplicitBit]
    <3>1. word + (-1) = word - 1
      BY <1>10
    <3>. QED BY <3>1 DEF Moved
  <2>2. Neighbour(v.s, e, m, up, TRUE, md).res =
          [s |-> v.s, e |-> (word - 1) \div ImplicitBit, f |-> (word - 1) % ImplicitBit]
    <3>. HIDE DEF word, up
    <3>. QED BY <1>5, <1>12 DEF Neighbour
  <2>. QED BY <1>7, <1>8, <1>9, <1>12, <2>1, <2>2 DEF M
<1>. QED BY <1>11, <1>12

LEMMA DistantUnits ==
  ASSUME NEW v \in Values, NEW w \in Values, Regular(v), Regular(w),
         Exponent(v) - Exponent(w) > NearLimit
  PROVE  /\ v.e \in 2..(ExpMax - 1)
         /\ Ref!Mag(w) \in Nat /\ Ref!Mag(w) >= 1 /\ 4 * Ref!Mag(w) < Unit(v.e)
<1>1. /\ v.e \in 0..(ExpMax - 1) /\ v.f \in Nat /\ v.f < ImplicitBit /\ (v.e = 0 => v.f >= 1)
  BY RegularFields
<1>2. /\ Exponent(v) \in (1 - Bias - FracBits)..Bias /\ Exponent(w) \in (1 - Bias - FracBits)..Bias
      /\ Weighs(Sig(w), Exponent(w) + Bias - 1, Ref!Mag(w), 1) /\ Ref!Mag(w) \in Nat /\ Ref!Mag(w) >= 1
      /\ Sig(w) \in Nat /\ Pow2[FracBits] <= Sig(w) /\ Sig(w) < Pow2[FracBits + 1]
  BY ValueWeighs
<1>3. /\ FracBits \in Nat /\ Bias \in Nat /\ NearLimit \in Nat /\ NearLimit >= FracBits + 2
      /\ BigBits \in Nat /\ BigBits < MaxShift /\ BigBits >= 2 * FracBits + 8 /\ MaxShift \in Nat
      /\ ExpMax = 2 * Bias + 1 /\ ExpMax + FracBits < MaxShift /\ ExpMax \in Nat
  BY BigWidths, Widths, Fields, BigAssumption DEF BigAssumption
<1>4. Exponent(v) >= 4 - Bias
  BY <1>2, <1>3
<1>5. v.e # 0
  <2>. SUFFICES ASSUME v.e = 0 PROVE FALSE
    OBVIOUS
  <2>1. v.f < Pow2[FracBits] /\ v.f >= 1
    BY <1>1, Fields
  <2>2. v.f < Pow2[BigBits]
    <3>1. FracBits \in 0..MaxShift /\ BigBits \in 0..MaxShift /\ FracBits <= BigBits
      BY <1>3
    <3>2. Pow2[FracBits] <= Pow2[BigBits] /\ Pow2[FracBits] \in Nat /\ Pow2[BigBits] \in Nat
      BY <3>1, Pow2Positive, Pow2Monotone
    <3>. QED BY <1>1, <2>1, <3>2
  <2>3. Highest(v.f) \in Nat /\ Highest(v.f) < FracBits
    <3>1. FracBits <= BigBits
      BY <1>3
    <3>2. Highest(v.f) \in 0..(BigBits - 1) /\ Highest(v.f) < FracBits
      BY <1>1, <1>3, <2>1, <2>2, <3>1, HighestIs
    <3>. QED BY <3>2
  <2>4. Exponent(v) = 1 - Bias - (FracBits - Highest(v.f))
    BY DEF Exponent, Emin
  <2>. QED BY <1>3, <1>4, <2>3, <2>4
<1>6. Exponent(v) = v.e - Bias /\ v.e \in 4..(ExpMax - 1)
  <2>1. Exponent(v) = v.e - Bias
    BY <1>5 DEF Exponent
  <2>. QED BY <1>1, <1>3, <1>4, <2>1
<1>. DEFINE n == FracBits + 1
            k == Exponent(w) + Bias - 1
            f == v.e - 3
<1>7. n \in Nat /\ InTable(n) /\ InTable(f) /\ k + n <= f /\ f \in Nat /\ f + 1 <= MaxShift
      /\ (f + 1) + 1 <= MaxShift /\ v.e - 1 = (f + 1) + 1 /\ f + 1 \in Nat /\ f \in 0..MaxShift
  BY <1>2, <1>3, <1>6 DEF InTable
<1>8. Sig(w) >= 1
  <2>1. FracBits \in 0..MaxShift
    BY <1>3
  <2>. QED BY <1>2, <2>1, Pow2Positive
<1>9. Ref!Mag(w) * Under(f) < 1 * Over(f)
  <2>. HIDE DEF n, k, f
  <2>. QED BY <1>2, <1>7, <1>8, BelowFrame DEF n, k
<1>10. Under(f) = 1 /\ Over(f) = Pow2[f] /\ Pow2[f] \in Nat
  BY <1>7, Pow2Positive DEF Under, Over
<1>11. Unit(v.e) = 4 * Pow2[f]
  <2>1. Pow2[f + 1] = 2 * Pow2[f] /\ Pow2[(f + 1) + 1] = 2 * Pow2[f + 1]
    BY <1>7, Pow2Step
  <2>. QED BY <1>7, <1>10, <2>1 DEF Unit
<1>12. Ref!Mag(w) < Pow2[f]
  BY <1>2, <1>9, <1>10
<1>. HIDE DEF f
<1>. QED BY <1>2, <1>6, <1>10, <1>11, <1>12

LEMMA AdjacentIs ==
  ASSUME NEW v \in Values
  PROVE  /\ v.s = 0 => Above(v) = Moved(v, 1) /\ Below(v) = Moved(v, -1)
         /\ v.s = 1 => Above(v) = Moved(v, -1) /\ Below(v) = Moved(v, 1)
<1>. DEFINE word == v.e * ImplicitBit + v.f
<1>1. word \in Nat
  BY NotMoved
<1>2. word + (-1) = word - 1
  BY <1>1
<1>. HIDE DEF word
<1>. QED BY <1>2 DEF Adjacent, Moved, word, Above, Below

(* The step of the code, one mode after the other.                         *)
LEMMA FarSteps ==
  ASSUME NEW v, NEW w, NEW md
  PROVE  /\ md = "RUP" => FarAnswer(v, w, md) = IF w.s = 0 THEN Above(v) ELSE v
         /\ md = "RDN" => FarAnswer(v, w, md) = IF w.s = 1 THEN Below(v) ELSE v
         /\ md = "RTZ" => FarAnswer(v, w, md) = IF w.s = v.s THEN v
                                                ELSE IF v.s = 1 THEN Above(v) ELSE Below(v)
         /\ md = "RNE" \/ md = "RNA" => FarAnswer(v, w, md) = v
<1>1. CASE md = "RUP"
  <2>1. FarAnswer(v, w, md) = IF w.s = 0 THEN Adjacent(v, w.s = 0) ELSE v
    BY <1>1 DEF FarAnswer
  <2>2. w.s = 0 => (w.s = 0) = TRUE
    OBVIOUS
  <2>. QED BY <1>1, <2>1, <2>2 DEF Above
<1>2. CASE md = "RDN"
  <2>1. FarAnswer(v, w, md) = IF w.s = 1 THEN Adjacent(v, w.s = 0) ELSE v
    BY <1>2 DEF FarAnswer
  <2>2. w.s = 1 => (w.s = 0) = FALSE
    OBVIOUS
  <2>. QED BY <1>2, <2>1, <2>2 DEF Below
<1>3. CASE md = "RTZ"
  <2>1. FarAnswer(v, w, md) = IF w.s # v.s THEN Adjacent(v, v.s = 1) ELSE v
    BY <1>3 DEF FarAnswer
  <2>2. (v.s = 1 => (v.s = 1) = TRUE) /\ (v.s # 1 => (v.s = 1) = FALSE)
    OBVIOUS
  <2>. QED BY <1>3, <2>1, <2>2 DEF Above, Below
<1>4. CASE md = "RNE" \/ md = "RNA"
  <2>1. FarAnswer(v, w, md) = v
    BY <1>4 DEF FarAnswer
  <2>. QED BY <1>4, <2>1
<1>5. CASE ~ (md \in {"RUP", "RDN", "RTZ", "RNE", "RNA"})
  BY <1>5
<1>. QED BY <1>1, <1>2, <1>3, <1>4, <1>5

LEMMA FarAdds ==
  ASSUME NEW v \in Values, NEW w \in Values, Regular(v), Regular(w), NEW md \in Modes,
         Exponent(v) - Exponent(w) > NearLimit
  PROVE  /\ Ref!Add(v, w, md).res = FarAnswer(v, w, md)
         /\ Ref!Add(w, v, md).res = FarAnswer(v, w, md)
<1>1. /\ v.e \in 2..(ExpMax - 1)
      /\ Ref!Mag(w) \in Nat /\ Ref!Mag(w) >= 1 /\ 4 * Ref!Mag(w) < Unit(v.e)
  BY DistantUnits
<1>2. v.s \in {0, 1} /\ w.s \in {0, 1}
  BY RegularFields
<1>3. Ref!Mag(v) \in Nat /\ Ref!Mag(v) > Ref!Mag(w) /\ Ref!Mag(v) + Ref!Mag(w) = Ref!Mag(w) + Ref!Mag(v)
  BY <1>1, ValueWeighs, FarBelow
<1>4. md = "RNE" \/ md = "RTZ" \/ md = "RUP" \/ md = "RDN" \/ md = "RNA"
  BY DEF Modes
<1>7. /\ md = "RUP" => FarAnswer(v, w, md) = IF w.s = 0 THEN Above(v) ELSE v
      /\ md = "RDN" => FarAnswer(v, w, md) = IF w.s = 1 THEN Below(v) ELSE v
      /\ md = "RTZ" => FarAnswer(v, w, md) = IF w.s = v.s THEN v
                                             ELSE IF v.s = 1 THEN Above(v) ELSE Below(v)
      /\ md = "RNE" \/ md = "RNA" => FarAnswer(v, w, md) = v
  BY FarSteps, Zenon
<1>5. CASE v.s = w.s
  <2>1. /\ Ref!Add(v, w, md) = Ref!Round(v.s, Ref!Mag(v) + Ref!Mag(w), 1, md)
        /\ Ref!Add(w, v, md) = Ref!Round(v.s, Ref!Mag(v) + Ref!Mag(w), 1, md)
    BY <1>3, <1>5, AddsRegular
  <2>2. Ref!Round(v.s, Ref!Mag(v) + Ref!Mag(w), 1, md).res =
          IF md = (IF v.s = 0 THEN "RUP" ELSE "RDN") THEN Moved(v, 1) ELSE v
    BY <1>1, FarAbove
  <2>3. FarAnswer(v, w, md) = IF md = (IF v.s = 0 THEN "RUP" ELSE "RDN") THEN Moved(v, 1) ELSE v
    <3>1. (v.s = 0 => Above(v) = Moved(v, 1)) /\ (v.s = 1 => Below(v) = Moved(v, 1))
      BY <1>2, AdjacentIs
    <3>2. CASE md = "RTZ"
      <4>1. FarAnswer(v, w, md) = IF w.s = v.s THEN v ELSE IF v.s = 1 THEN Above(v) ELSE Below(v)
        BY <1>7, <3>2, Zenon
      <4>2. CASE v.s = 0
        BY <1>2, <1>5, <3>2, <4>1, <4>2
      <4>3. CASE v.s = 1
        BY <1>2, <1>5, <3>2, <4>1, <4>3
      <4>. QED BY <1>2, <4>2, <4>3
    <3>3. CASE md = "RUP"
      <4>1. FarAnswer(v, w, md) = IF w.s = 0 THEN Above(v) ELSE v
        BY <1>7, <3>3, Zenon
      <4>2. CASE v.s = 0
        BY <1>2, <1>5, <3>1, <3>3, <4>1, <4>2
      <4>3. CASE v.s = 1
        BY <1>2, <1>5, <3>1, <3>3, <4>1, <4>3
      <4>. QED BY <1>2, <4>2, <4>3
    <3>4. CASE md = "RDN"
      <4>1. FarAnswer(v, w, md) = IF w.s = 1 THEN Below(v) ELSE v
        BY <1>7, <3>4, Zenon
      <4>2. CASE v.s = 0
        BY <1>2, <1>5, <3>1, <3>4, <4>1, <4>2
      <4>3. CASE v.s = 1
        BY <1>2, <1>5, <3>1, <3>4, <4>1, <4>3
      <4>. QED BY <1>2, <4>2, <4>3
    <3>5. CASE md = "RNA" \/ md = "RNE"
      <4>1. md # "RUP" /\ md # "RDN" /\ md # "RTZ"
        BY <3>5
      <4>2. FarAnswer(v, w, md) = v
        BY <3>5, <1>7
      <4>. QED BY <4>1, <4>2
    <3>. QED BY <1>4, <3>2, <3>3, <3>4, <3>5
  <2>. QED BY <2>1, <2>2, <2>3
<1>6. CASE v.s # w.s
  <2>1. /\ Ref!Add(v, w, md) = Ref!Round(v.s, Ref!Mag(v) - Ref!Mag(w), 1, md)
        /\ Ref!Add(w, v, md) = Ref!Round(v.s, Ref!Mag(v) - Ref!Mag(w), 1, md)
    BY <1>3, <1>6, AddsRegular
  <2>2. Ref!Round(v.s, Ref!Mag(v) - Ref!Mag(w), 1, md).res =
          IF md = "RTZ" \/ md = (IF v.s = 0 THEN "RDN" ELSE "RUP") THEN Moved(v, -1) ELSE v
    BY <1>1, FarBelow
  <2>3. FarAnswer(v, w, md) =
          IF md = "RTZ" \/ md = (IF v.s = 0 THEN "RDN" ELSE "RUP") THEN Moved(v, -1) ELSE v
    <3>1. (v.s = 0 => Below(v) = Moved(v, -1)) /\ (v.s = 1 => Above(v) = Moved(v, -1))
      BY <1>2, AdjacentIs
    <3>2. CASE md = "RTZ"
      <4>1. FarAnswer(v, w, md) = IF w.s = v.s THEN v ELSE IF v.s = 1 THEN Above(v) ELSE Below(v)
        BY <1>7, <3>2, Zenon
      <4>2. CASE v.s = 0
        BY <1>2, <1>6, <3>1, <3>2, <4>1, <4>2
      <4>3. CASE v.s = 1
        BY <1>2, <1>6, <3>1, <3>2, <4>1, <4>3
      <4>. QED BY <1>2, <4>2, <4>3
    <3>3. CASE md = "RUP"
      <4>1. FarAnswer(v, w, md) = IF w.s = 0 THEN Above(v) ELSE v
        BY <1>7, <3>3, Zenon
      <4>2. CASE v.s = 0
        BY <1>2, <1>6, <3>1, <3>3, <4>1, <4>2
      <4>3. CASE v.s = 1
        BY <1>2, <1>6, <3>1, <3>3, <4>1, <4>3
      <4>. QED BY <1>2, <4>2, <4>3
    <3>4. CASE md = "RDN"
      <4>1. FarAnswer(v, w, md) = IF w.s = 1 THEN Below(v) ELSE v
        BY <1>7, <3>4, Zenon
      <4>2. CASE v.s = 0
        BY <1>2, <1>6, <3>1, <3>4, <4>1, <4>2
      <4>3. CASE v.s = 1
        BY <1>2, <1>6, <3>1, <3>4, <4>1, <4>3
      <4>. QED BY <1>2, <4>2, <4>3
    <3>5. CASE md = "RNA" \/ md = "RNE"
      <4>1. md # "RUP" /\ md # "RDN" /\ md # "RTZ"
        BY <3>5
      <4>2. FarAnswer(v, w, md) = v
        BY <3>5, <1>7
      <4>. QED BY <4>1, <4>2
    <3>. QED BY <1>4, <3>2, <3>3, <3>4, <3>5
  <2>. QED BY <2>1, <2>2, <2>3
<1>. QED BY <1>5, <1>6

LEMMA FarSumAnswer ==
  ASSUME RInv, IInv', FarSum
  PROVE  RInv'
<1>. DEFINE dominant == IF Distance > 0 THEN A ELSE B
            delta == IF Distance > 0 THEN B ELSE A
<1>0. call \in Calls /\ fe = {} /\ pc = "enter" /\ call.op \in {"add", "sub"}
      /\ Regular(A) /\ Regular(B) /\ ~ Near
  BY EnterFacts DEF FarSum, RegularSum, Numbers, Is
<1>1. Answered = Ref!Add(A, B, call.mode) /\ call.op \in Computed /\ FarCall
  BY <1>0, Zenon DEF Answered, Computed, Arithmetic, FarCall
<1>2. A \in Values /\ B \in Values /\ call.mode \in Modes
  BY <1>0, <1>1, ComputedOperands
<1>3. Done(FarAnswer(dominant, delta, call.mode), {"inexact"})
  BY Zenon DEF FarSum, FarAnswer
<1>4. FarAnswer(dominant, delta, call.mode) = Answered.res
  <2>1. Exponent(A) \in Int /\ Exponent(B) \in Int /\ NearLimit \in Nat
    BY <1>0, <1>2, ValueWeighs, BigAssumption DEF BigAssumption
  <2>2. CASE Distance > 0
    <3>1. Exponent(A) - Exponent(B) > NearLimit
      BY <1>0, <2>1, <2>2 DEF Distance, Near
    <3>. QED BY <1>0, <1>1, <1>2, <2>2, <3>1, FarAdds
  <2>3. CASE ~ (Distance > 0)
    <3>1. Exponent(B) - Exponent(A) > NearLimit
      BY <1>0, <2>1, <2>3 DEF Distance, Near
    <3>. QED BY <1>0, <1>1, <1>2, <2>3, <3>1, FarAdds
  <2>. QED BY <2>2, <2>3
<1>5. Answers(FarAnswer(dominant, delta, call.mode), {"inexact"})
  BY <1>1, <1>4 DEF Answers
<1>. HIDE DEF dominant, delta
<1>. QED BY <1>0, <1>3, <1>5, DoneAnswers
---------------------------------------------------------------------------
(* Quotients.                                                              *)

LEMMA QuotientPacks ==
  ASSUME A \in Values, B \in Values, Regular(A), Regular(B), NEW num, NEW den, ExactlyQuotient(num, den),
         NEW s \in {0, 1}, NEW md \in Modes
  PROVE  Packs(s, OrSticky(Digits, Undivided # 0), QuotientScale, md,
               QuotientScale + Bias + FracBits - 1, num, den)
<1>. DEFINE a == Sig(A)
            b == Sig(B)
            c == IF a < b THEN 1 ELSE 0
            i == Exponent(A) + Bias - 1
            j == Exponent(B) + Bias - 1
            l == Ref!LogOne
            n == c + (FracBits + 3)
            k == QuotientScale + Bias + FracBits - 1
            x == Dividend * Pow2[FracBits + 3]
            mag == OrSticky(Digits, Undivided # 0)
            M == Ref!Mag(A)
            N == Ref!Mag(B)
<1>1. /\ Weighs(a, i, M, 1) /\ Weighs(b, j, N, 1) /\ N >= 1
      /\ Exponent(A) \in (1 - Bias - FracBits)..Bias
      /\ Exponent(B) \in (1 - Bias - FracBits)..Bias
      /\ a \in Nat /\ Pow2[FracBits] <= a /\ a < Pow2[FracBits + 1]
      /\ b \in Nat /\ Pow2[FracBits] <= b /\ b < Pow2[FracBits + 1]
  BY ValueWeighs
<1>2. l = FracBits + Bias - 1 /\ Bias >= 1 /\ Bias \in Nat /\ FracBits \in Nat /\ FracBits >= 2
      /\ MaxShift \in Nat /\ BigBits \in Nat /\ BigBits >= 2 * FracBits + 8 /\ BigBits < MaxShift
      /\ 2 * FracBits + 3 * Bias <= MaxShift
  BY SameFormat, Fields, Widths, BigWidths, TableAssumption DEF TableAssumption
<1>3. /\ c \in {0, 1} /\ QuotientScale = Exponent(A) - Exponent(B) - c - FracBits - 3
      /\ QuotientScale \in Int /\ n \in Nat /\ i \in Int /\ j \in Int /\ k \in Int /\ l \in Nat
      /\ k = (i + (l - n)) - j
      /\ k \in (-(2 * Bias + FracBits + 4))..(3 * Bias + FracBits - 5)
  BY <1>1, <1>2 DEF QuotientScale
<1>4. InTable(l) /\ InTable(n) /\ InTable(i + (l - n)) /\ InTable(k) /\ InTable(k - 0) /\ InTable(k + 3)
  <2>1. Limits(l) /\ Limits(n) /\ Limits(i + (l - n)) /\ Limits(k) /\ Limits(k + 3)
    BY <1>1, <1>2, <1>3 DEF Limits
  <2>2. k - 0 = k
    BY <1>3
  <2>. QED BY <2>1, <2>2, WithinLimits
<1>5. /\ Pow2[FracBits] \in Nat /\ Pow2[FracBits] >= 1 /\ Pow2[FracBits + 1] = 2 * Pow2[FracBits]
      /\ Pow2[FracBits + 3] \in Nat /\ Pow2[FracBits + 3] >= 1
      /\ Pow2[FracBits + 4] = 2 * Pow2[FracBits + 3]
  <2>1. FracBits \in Nat /\ FracBits + 4 <= BigBits /\ FracBits + 3 \in Nat /\ (FracBits + 3) + 1 = FracBits + 4
        /\ FracBits + 3 \in 0..MaxShift /\ FracBits + 4 <= MaxShift /\ FracBits + 1 <= MaxShift
        /\ FracBits \in 0..MaxShift
    BY <1>2
  <2>. QED BY <2>1, Pow2Step, Pow2Positive
<1>6. Dividend \in Nat /\ b <= Dividend /\ Dividend < 2 * b /\ Dividend = a * Pow2[c] /\ b >= 1
  <2>1. Dividend \in Nat /\ Dividend < 2 * b
    BY DividendWidth
  <2>2. b >= 1 /\ a < 2 * b
    BY <1>1, <1>5
  <2>3. CASE a < b
    <3>1. FracBits + 1 \in Nat /\ (FracBits + 1) + 1 <= BigBits /\ 1 < BigBits
      BY <1>2
    <3>2. Shl(a, 1) = a * Pow2[1]
      BY <1>1, <3>1, ShlFits
    <3>3. Dividend = 2 * a /\ a * Pow2[c] = 2 * a
      BY <1>1, <2>3, <3>2, SmallPowers DEF Dividend
    <3>4. b <= 2 * a
      BY <1>1, <1>5
    <3>. QED BY <2>1, <2>2, <3>3, <3>4
  <2>4. CASE ~ (a < b)
    <3>1. Dividend = a /\ a * Pow2[c] = a
      BY <1>1, <2>4, SmallPowers DEF Dividend
    <3>. QED BY <1>1, <2>1, <2>2, <2>4, <3>1
  <2>. QED BY <2>3, <2>4
<1>7. x \in Nat /\ x = a * Pow2[n]
  <2>1. c + (FracBits + 3) <= MaxShift /\ c \in Nat /\ FracBits + 3 \in Nat
    BY <1>2, <1>3
  <2>2. Pow2[n] = Pow2[c] * Pow2[FracBits + 3]
    BY <2>1, Pow2Sum
  <2>3. Pow2[c] \in Nat
    BY <1>3, SmallPowers
  <2>. DEFINE u == Pow2[c]
              v == Pow2[FracBits + 3]
  <2>. HIDE DEF u, v, a, n, c
  <2>4. (a * u) * v = a * (u * v) /\ (a * u) * v \in Nat
    BY <1>1, <1>5, <2>3 DEF u, v
  <2>. QED BY <1>6, <2>2, <2>4 DEF u, v
<1>. HIDE DEF x
<1>8. Digits = x \div b /\ Undivided = x % b
  BY DEF Digits, Undivided, x
<1>9. /\ Digits \in Nat /\ Undivided \in Nat /\ Pow2[FracBits + 3] <= Digits /\ Digits < 2 * Pow2[FracBits + 3]
  <2>. DEFINE P == Pow2[FracBits + 3]
              d == Digits
              r == Undivided
  <2>1. d \in Nat /\ r \in Nat /\ r < b /\ x = d * b + r
    BY <1>1, <1>6, <1>7, <1>8, Split
  <2>2. P * b <= x /\ x < (2 * P) * b
    <3>1. P \in Nat /\ P >= 1 /\ x = Dividend * P
      BY <1>5 DEF x
    <3>. HIDE DEF P, b
    <3>2. b * P <= Dividend * P /\ Dividend * P < (2 * b) * P
      BY <1>1, <1>6, <3>1, Z3
    <3>3. b * P = P * b /\ (2 * b) * P = (2 * P) * b
      BY <1>1, <3>1, Z3
    <3>. QED BY <3>1, <3>2, <3>3
  <2>3. P \in Nat
    BY <1>5
  <2>. HIDE DEF P, b, d, r
  <2>4. d >= P
    <3>. SUFFICES ASSUME d + 1 <= P PROVE FALSE
      BY <2>1, <2>3
    <3>1. (d + 1) * b <= P * b
      BY <1>1, <2>1, <2>3, Z3
    <3>2. (d + 1) * b = d * b + b
      BY <1>1, <2>1, Z3
    <3>. DEFINE y == d * b
                t == P * b
    <3>3. y \in Int /\ t \in Int
      BY <1>1, <2>1, <2>3
    <3>. HIDE DEF y, t
    <3>4. y + b <= t
      BY <3>1, <3>2 DEF y, t
    <3>. QED BY <1>1, <2>1, <2>2, <3>3, <3>4 DEF y, t
  <2>5. d < 2 * P
    <3>. SUFFICES ASSUME 2 * P <= d PROVE FALSE
      BY <2>1, <2>3
    <3>1. (2 * P) * b <= d * b
      BY <1>1, <2>1, <2>3, Z3
    <3>. DEFINE y == d * b
                t == (2 * P) * b
    <3>3. y \in Int /\ t \in Int
      BY <1>1, <2>1, <2>3
    <3>. HIDE DEF y, t
    <3>. QED BY <1>1, <2>1, <2>2, <3>1, <3>3 DEF y, t
  <2>. QED BY <2>1, <2>4, <2>5 DEF P, d, r
<1>10. mag \in Nat /\ Pow2[FracBits + 3] <= mag /\ mag < Pow2[FracBits + 4]
  <2>1. (Undivided # 0) \in BOOLEAN
    OBVIOUS
  <2>2. /\ mag \in Nat /\ Digits <= mag
        /\ \A m \in Nat : Digits < 2 * m => mag < 2 * m
    BY <1>9, <2>1, StickyBound
  <2>. QED BY <1>5, <1>9, <2>2
<1>11. Stands(mag, x, b, 2)
  <2>1. Stands(OrSticky(x \div b, (x % b) # 0), x, b, 2 * 1)
    <3>1. 1 \in Nat /\ 2 = 2 * 1 /\ 2 \in Nat
      OBVIOUS
    <3>. HIDE DEF b
    <3>. QED BY <1>1, <1>6, <1>7, <3>1, CutStands
  <2>. QED BY <1>8, <2>1
<1>12. x * (den * Over(k)) = (num * Under(k)) * b
  <2>1. num \in Nat /\ den \in Nat /\ den >= 1 /\ num * N = (M * Pow2[l]) * den
    BY DEF ExactlyQuotient
  <2>2. (a * Pow2[n]) * (den * Over(k)) = (num * Under(k)) * b
    <3>. HIDE DEF a, b, i, j, l, n, k, M, N
    <3>. QED BY <1>1, <1>3, <1>4, <2>1, RatioWeighs
  <2>. QED BY <1>7, <2>2
<1>13. Stands(mag, num * Under(k), den * Over(k), 2)
  <2>. DEFINE P == num * Under(k)
              Q == den * Over(k)
  <2>1. Under(k) \in Nat /\ Over(k) \in Nat /\ Over(k) >= 1 /\ num \in Nat /\ den \in Nat /\ den >= 1
    BY <1>4, OverUnder DEF ExactlyQuotient
  <2>2. P \in Int /\ Q \in Nat /\ Q >= 1 /\ x * Q = P * b /\ 2 \in Nat /\ x \in Int
    BY <1>7, <1>12, <2>1
  <2>. HIDE DEF P, Q, mag, b
  <2>3. Stands(mag, P, Q, 2)
    BY <1>1, <1>6, <1>11, <2>2, SameRatio
  <2>. QED BY <2>3 DEF P, Q
<1>14. mag >= 1 /\ mag < Pow2[BigBits] /\ Highest(mag) = FracBits + 3
  <2>1. FracBits + 4 \in 0..MaxShift /\ BigBits \in 0..MaxShift /\ FracBits + 4 <= BigBits
        /\ FracBits + 3 \in Nat /\ FracBits + 3 < BigBits /\ FracBits + 4 \in Nat
    BY <1>2
  <2>2. Pow2[FracBits + 4] <= Pow2[BigBits] /\ Pow2[FracBits + 4] \in Nat /\ Pow2[BigBits] \in Nat
    BY <2>1, Pow2Positive, Pow2Monotone
  <2>3. mag >= 1 /\ mag < Pow2[BigBits]
    BY <1>5, <1>10, <2>2
  <2>. HIDE DEF mag
  <2>4. Highest(mag) \in 0..(BigBits - 1) /\ FracBits + 3 <= Highest(mag) /\ Highest(mag) < FracBits + 4
    BY <1>10, <2>1, <2>3, HighestIs
  <2>. QED BY <1>2, <2>3, <2>4
<1>15. InTable(k + Highest(mag) - FracBits - 3) /\ InTable(k + Highest(mag) - FracBits)
  <2>1. k + Highest(mag) - FracBits - 3 = k - 0 /\ k + Highest(mag) - FracBits = k + 3
    BY <1>2, <1>3, <1>14
  <2>. QED BY <1>4, <2>1
<1>16. HoldsValue(mag, k, num, den)
  BY <1>4, <1>10, <1>13 DEF HoldsValue, ExactlyQuotient
<1>. QED BY <1>3, <1>10, <1>14, <1>15, <1>16 DEF Packs

(* Between two digits no flag is raised.                                   *)
LEMMA LoopGoesOn ==
  ASSUME RInv, IInv', pc \in {"enter", "divide", "root", "reduce"},
         NEW at \in {"divide", "root", "reduce"}, NEW r, NEW quotient, NEW first,
         Loop(at, r, quotient, first)
  PROVE  RInv'
<1>1. fe = {}
  BY DEF RInv
<1>2. pc' = at /\ fe' = fe
  BY DEF Loop
<1>3. /\ (pc \in {"enter", "divide", "root", "reduce"} => fe = {})'
      /\ pc' # "pack" /\ pc' # "done"
  BY <1>1, <1>2
<1>. QED BY <1>3 DEF RInv

LEMMA LoopAnswers ==
  ASSUME RInv, IInv',
         \/ StartDivision \/ StartRoot \/ StartReduction
         \/ DivideDigit /\ pos # 0
         \/ RootDigit /\ pos # 0
         \/ ReduceDigit /\ pos # 0
  PROVE  RInv'
<1>0. "divide" \in {"divide", "root", "reduce"} /\ "root" \in {"divide", "root", "reduce"}
      /\ "reduce" \in {"divide", "root", "reduce"}
  OBVIOUS
<1>1. CASE StartDivision
  <2>1. pc = "enter" /\ Loop("divide", Dividend, 0, FracBits + 3)
    BY <1>1 DEF StartDivision, Numbers, Is
  <2>. QED BY <2>1, LoopGoesOn
<1>2. CASE StartRoot
  <2>1. pc = "enter" /\ Loop("root", 0, 0, FracBits + 3)
    BY <1>2 DEF StartRoot, Is
  <2>. QED BY <2>1, LoopGoesOn
<1>3. CASE StartReduction
  <2>1. pc = "enter" /\ Loop("reduce", Sig(A), 0, Distance)
    BY <1>3 DEF StartReduction, RegularRemainder, Numbers, Is
  <2>. QED BY <2>1, LoopGoesOn
<1>4. CASE DivideDigit /\ pos # 0
  <2>1. pc = "divide" /\ Loop("divide", Shl(Reduced, 1), IF Fits THEN q + Pow2[pos] ELSE q, pos - 1)
    BY <1>4 DEF DivideDigit
  <2>. QED BY <2>1, LoopGoesOn
<1>5. CASE RootDigit /\ pos # 0
  <2>1. pc = "root" /\ \E r, root : Loop("root", r, root, pos - 1)
    BY <1>5 DEF RootDigit
  <2>. QED BY <2>1, LoopGoesOn
<1>6. CASE ReduceDigit /\ pos # 0
  <2>1. pc = "reduce" /\ pos > 0
    <3>1. pc = "reduce" /\ pos \in Nat
      <4>1. pc = "reduce"
        BY <1>6 DEF ReduceDigit
      <4>2. Distance \in Int
        <5>1. call \in Calls /\ call.op = "remainder" /\ Regular(A) /\ Regular(B)
          BY <4>1 DEF RInv, IInv, Reducing
        <5>2. A \in Values /\ B \in Values
          BY <5>1, LoopOperands
        <5>3. Exponent(A) \in Int /\ Exponent(B) \in Int
          BY <5>1, <5>2, SigWidth, Fields, Widths
        <5>. QED BY <5>3 DEF Distance
      <4>. QED BY <4>1, <4>2 DEF RInv, IInv, Reducing, Counting
    <3>. QED BY <1>6, <3>1
  <2>2. Loop("reduce", Shl(Reduced, 1), IF Fits THEN 1 ELSE 0, pos - 1)
    BY <1>6, <2>1 DEF ReduceDigit
  <2>. QED BY <2>1, <2>2, LoopGoesOn
<1>. QED BY <1>1, <1>2, <1>3, <1>4, <1>5, <1>6

(* The last digit of a quotient.                                           *)
LEMMA LastQuotientDigit ==
  ASSUME RInv, DivideDigit, pos = 0
  PROVE  /\ call \in Calls /\ call.op = "div" /\ fe = {} /\ Regular(A) /\ Regular(B)
         /\ ToPack(ResultSign, OrSticky(Digits, Undivided # 0), QuotientScale, call.mode, {})
<1>1. /\ pc = "divide" /\ call.op = "div" /\ Regular(A) /\ Regular(B) /\ call \in Calls
      /\ rem \in Nat /\ q \in Nat /\ fe = {}
      /\ rem < 2 * Sig(B) /\ q % Pow2[0 + 1] = 0
      /\ Dividend * Pow2[FracBits + 3 - 0] = 2 * (q \div Pow2[0 + 1]) * Sig(B) + rem
  BY DEF RInv, IInv, DivideDigit, Dividing, Counting, DigitsKept, DivisionKept
<1>2. A \in Values /\ B \in Values
  BY <1>1, LoopOperands
<1>. DEFINE bit == IF Fits THEN 1 ELSE 0
            b == Sig(B)
            x == Dividend * Pow2[FracBits + 3]
            t == Reduced
<1>3. /\ t \in Nat /\ t < b /\ b \in Nat /\ rem = bit * b + t /\ bit \in {0, 1}
  BY <1>1, <1>2, ReducedOnce
<1>4. ToPack(ResultSign, OrSticky(IF Fits THEN q + Pow2[pos] ELSE q, Reduced # 0),
             QuotientScale, call.mode, {})
  BY DEF DivideDigit
<1>5. (IF Fits THEN q + Pow2[pos] ELSE q) = q + bit
  BY <1>1, SmallPowers
<1>6. q % 2 = 0 /\ x = 2 * (q \div 2) * b + rem
  <2>1. FracBits + 3 - 0 = FracBits + 3 /\ 0 + 1 = 1
    BY Widths
  <2>. QED BY <1>1, <2>1, SmallPowers
<1>. DEFINE d == q + bit
<1>7. d \in Nat /\ x = d * b + t
  <2>. DEFINE h == q \div 2
  <2>1. h \in Nat /\ q = 2 * h
    BY <1>1, <1>6
  <2>2. x = 2 * h * b + rem
    BY <1>6
  <2>. HIDE DEF h, x, b, bit, t
  <2>3. (q + bit) * b = 2 * h * b + bit * b
    BY <1>1, <1>3, <2>1, Z3
  <2>. DEFINE y == 2 * h * b
              w == bit * b
  <2>4. y \in Nat /\ w \in Nat
    BY <1>3, <2>1
  <2>. HIDE DEF y, w
  <2>5. x = (y + w) + t
    BY <1>3, <2>2, <2>4 DEF y, w
  <2>. QED BY <1>1, <1>3, <2>3, <2>5 DEF y, w
<1>8. Digits = d /\ Undivided = t
  <2>1. Digits = x \div b /\ Undivided = x % b
    BY DEF Digits, Undivided
  <2>. HIDE DEF x, b, d, t
  <2>. QED BY <1>3, <1>7, <2>1, Join
<1>9. (Reduced # 0) = (Undivided # 0)
  BY <1>8
<1>10. OrSticky(IF Fits THEN q + Pow2[pos] ELSE q, Reduced # 0) = OrSticky(Digits, Undivided # 0)
  BY <1>5, <1>8, <1>9, Zenon
<1>. QED BY <1>1, <1>4, <1>10

LEMMA QuotientAnswer ==
  ASSUME RInv, IInv', DivideDigit, pos = 0
  PROVE  RInv'
<1>0. /\ call \in Calls /\ fe = {} /\ call.op = "div"
      /\ Regular(A) /\ Regular(B)
      /\ ToPack(ResultSign, OrSticky(Digits, Undivided # 0), QuotientScale, call.mode, {})
  BY LastQuotientDigit
<1>1. Answered = Ref!Divide(A, B, call.mode) /\ call.op \in Computed /\ ~ FarCall
  BY <1>0, Zenon DEF Answered, Computed, Arithmetic, FarCall
<1>2. /\ A \in Values /\ B \in Values /\ call.mode \in Modes /\ ResultSign \in {0, 1}
  BY <1>0, <1>1, ComputedOperands
<1>3. /\ A.e < ExpMax /\ ~ IsZero(A) /\ ~ IsNaN(A) /\ ~ IsInf(A)
      /\ B.e < ExpMax /\ ~ IsZero(B) /\ ~ IsNaN(B) /\ ~ IsInf(B)
  BY <1>0, <1>2, RegularFields
<1>4. Answered = Ref!RoundScaled(ResultSign, Ref!Odd(Ref!Mag(A)),
                                Ref!Twos(Ref!Mag(A)) - Ref!Twos(Ref!Mag(B)) + Ref!LogOne,
                                Ref!Odd(Ref!Mag(B)), call.mode)
  BY <1>1, <1>3, ReferenceClasses, ReferenceSign DEF Ref!Divide
<1>5. WideTable
  BY TableAssumption DEF TableAssumption, WideTable
<1>6. PICK num \in Nat, den \in Nat :
        /\ den >= 1 /\ num * Ref!Mag(B) = (Ref!Mag(A) * Pow2[Ref!LogOne]) * den
        /\ Answered = Ref!Round(ResultSign, num, den, call.mode)
  BY <1>2, <1>3, <1>4, <1>5, ExactQuotient
<1>7. ExactlyQuotient(num, den)
  BY <1>6 DEF ExactlyQuotient
<1>. DEFINE mag == OrSticky(Digits, Undivided # 0)
<1>8. Packs(ResultSign, mag, QuotientScale, call.mode, QuotientScale + Bias + FracBits - 1, num, den)
  BY <1>0, <1>2, <1>7, QuotientPacks
<1>. HIDE DEF mag
<1>9. Waits([sign |-> ResultSign, mag |-> mag, scale |-> QuotientScale, mode |-> call.mode], {})
  BY <1>1, <1>6, <1>8, WaitsFor
<1>. QED BY <1>0, <1>9, PackWaits DEF mag
---------------------------------------------------------------------------
(* Roots.                                                                  *)

LEMMA RootExponent ==
  ASSUME A \in Values, Regular(A)
  PROVE  /\ OddExponent \in {0, 1} /\ HalfExponent \in Int /\ Exponent(A) \in (1 - Bias - FracBits)..Bias
         /\ Exponent(A) = 2 * HalfExponent + OddExponent
         /\ HalfExponent <= Bias /\ HalfExponent < Bias /\ 2 * HalfExponent <= Bias
         /\ 2 * HalfExponent >= -(Bias + FracBits)
         /\ RootWeight \in Int /\ InTable(RootWeight)
<1>1. Exponent(A) \in (1 - Bias - FracBits)..Bias /\ Bias \in Nat /\ Bias >= 1 /\ FracBits \in Nat
  BY SigWidth, Fields, Widths
<1>. DEFINE u == Exponent(A)
            o == u % 2
            h == (u - o) \div 2
<1>2. u \in Int /\ o \in {0, 1} /\ h \in Int /\ u = 2 * h + o
  <2>1. u \in Int
    BY <1>1
  <2>. HIDE DEF u
  <2>. QED BY <2>1
<1>3. OddExponent = o /\ HalfExponent = h
  BY DEF OddExponent, HalfExponent
<1>. HIDE DEF o, h
<1>4. h <= Bias /\ h < Bias /\ 2 * h <= Bias /\ 2 * h >= -(Bias + FracBits)
  BY <1>1, <1>2
<1>5. RootWeight = h + Bias - 4 /\ h + Bias - 4 \in Int
  BY <1>1, <1>2, <1>3 DEF RootWeight
<1>6. Limits(h + Bias - 4)
  BY <1>1, <1>2, <1>4, Widths DEF Limits
<1>7. InTable(RootWeight)
  BY <1>5, <1>6, WithinLimits
<1>. QED BY <1>1, <1>2, <1>3, <1>4, <1>5, <1>7

LEMMA RadicandIs ==
  ASSUME A \in Values, Regular(A)
  PROVE  /\ Radicand = Sig(A) * Pow2[OddExponent + (FracBits + 6)]
         /\ OddExponent + (FracBits + 6) \in Nat /\ OddExponent + (FracBits + 6) <= BigBits
         /\ Radicand \in Nat
         /\ Pow2[2 * FracBits + 6] <= Radicand /\ Radicand < Pow2[2 * FracBits + 8]
<1>. DEFINE a == Sig(A)
            o == OddExponent
            x == Shl(a, o)
            u == Pow2[o]
            v == Pow2[FracBits + 6]
<1>1. a \in Nat /\ Pow2[FracBits] <= a /\ a < Pow2[FracBits + 1]
  BY SigWidth
<1>2. o \in {0, 1} /\ FracBits \in Nat /\ BigBits \in Nat /\ BigBits >= 2 * FracBits + 8 /\ BigBits < MaxShift
      /\ MaxShift \in Nat
  BY RootExponent, Widths, BigWidths
<1>3. Radicand \in Nat /\ Radicand < Pow2[2 * FracBits + 8]
  BY RadicandBound
<1>. HIDE DEF a, o
<1>4. x = a * u /\ x \in Nat /\ x < Pow2[FracBits + 2]
  <2>1. /\ FracBits + 1 \in Nat /\ (FracBits + 1) + o <= BigBits /\ o \in Nat
        /\ o < BigBits /\ (FracBits + 1) + o <= FracBits + 2
        /\ FracBits + 2 <= MaxShift /\ FracBits + 2 \in Nat
        /\ (FracBits + 1) + o \in 0..MaxShift /\ FracBits + 2 \in 0..MaxShift
        /\ (FracBits + 1) + o \in Nat
    BY <1>2
  <2>2. x = a * u /\ x \in Nat /\ x < Pow2[(FracBits + 1) + o]
    BY <1>1, <2>1, ShlFits
  <2>3. Pow2[(FracBits + 1) + o] <= Pow2[FracBits + 2]
    BY <2>1, Pow2Monotone
  <2>4. Pow2[(FracBits + 1) + o] \in Nat /\ Pow2[FracBits + 2] \in Nat
    BY <2>1, Pow2Positive
  <2>. HIDE DEF x
  <2>. QED BY <2>2, <2>3, <2>4
<1>5. u \in Nat /\ u >= 1 /\ v \in Nat /\ v >= 1
  <2>1. o \in 0..MaxShift /\ FracBits + 6 \in 0..MaxShift
    BY <1>2
  <2>. QED BY <2>1, Pow2Positive
<1>6. Shl(x, FracBits + 6) = x * v
  <2>1. FracBits + 2 \in Nat /\ FracBits + 6 \in Nat /\ (FracBits + 2) + (FracBits + 6) <= BigBits
        /\ FracBits + 6 < BigBits
    BY <1>2
  <2>. HIDE DEF x
  <2>. QED BY <1>4, <2>1, ShlFits
<1>7. Radicand = (a * u) * v
  BY <1>4, <1>6 DEF Radicand, a, o
<1>8. Pow2[o + (FracBits + 6)] = u * v
  <2>1. o \in Nat /\ FracBits + 6 \in Nat /\ o + (FracBits + 6) <= MaxShift
    BY <1>2
  <2>. QED BY <2>1, Pow2Sum
<1>9. Pow2[2 * FracBits + 6] = Pow2[FracBits] * v
  <2>1. FracBits \in Nat /\ FracBits + 6 \in Nat /\ FracBits + (FracBits + 6) <= MaxShift
        /\ FracBits + (FracBits + 6) = 2 * FracBits + 6
    BY <1>2
  <2>. QED BY <2>1, Pow2Sum
<1>10. (a * u) * v = a * (u * v) /\ Pow2[FracBits] * v <= (a * u) * v
  <2>. DEFINE P == Pow2[FracBits]
  <2>1. P \in Nat
    BY Fields
  <2>. HIDE DEF P, u, v
  <2>2. P <= a
    BY <1>1 DEF P
  <2>3. a <= a * u /\ a * u \in Nat
    BY <1>1, <1>5
  <2>. DEFINE w == a * u
  <2>. HIDE DEF w
  <2>4. P <= w /\ w \in Nat
    BY <1>1, <2>1, <2>2, <2>3 DEF w
  <2>5. P * v <= w * v
    BY <1>5, <2>1, <2>4
  <2>6. (a * u) * v = a * (u * v)
    BY <1>1, <1>5
  <2>. QED BY <2>5, <2>6 DEF w, P
<1>11. o + (FracBits + 6) \in Nat /\ o + (FracBits + 6) <= BigBits
  BY <1>2
<1>. QED BY <1>3, <1>7, <1>8, <1>9, <1>10, <1>11 DEF a, o

(* The radicand, in units of the square of the unit of the digits, is the  *)
(* square of the root.                                                     *)
LEMMA RootWeighs ==
  ASSUME A \in Values, Regular(A)
  PROVE  /\ Radicand * (Over(RootWeight) * Over(RootWeight))
              = Square * (Under(RootWeight) * Under(RootWeight))
         /\ Square \in Nat /\ Ref!Mag(A) \in Nat /\ Pow2[Ref!LogOne] \in Nat
<1>. DEFINE a == Sig(A)
            M == Ref!Mag(A)
            i == Exponent(A) + Bias - 1
            n == OddExponent + (FracBits + 6)
            l == Ref!LogOne
            k == RootWeight
<1>1. Weighs(a, i, M, 1) /\ M \in Nat /\ a \in Nat
  BY ValueWeighs
<1>2. /\ OddExponent \in {0, 1} /\ HalfExponent \in Int /\ Exponent(A) \in (1 - Bias - FracBits)..Bias
      /\ Exponent(A) = 2 * HalfExponent + OddExponent
      /\ k \in Int /\ InTable(k)
  BY RootExponent
<1>3. l = FracBits + Bias - 1 /\ Bias >= 1 /\ Bias \in Nat /\ FracBits \in Nat
      /\ MaxShift \in Nat /\ BigBits \in Nat /\ BigBits < MaxShift /\ BigBits >= 2 * FracBits + 8
  BY SameFormat, Fields, Widths, BigWidths
<1>4. Radicand = a * Pow2[n] /\ n \in Nat /\ n <= BigBits
  BY RadicandIs
<1>5. /\ i \in Int /\ -k \in Int /\ l \in Nat /\ k = (i + (l - n)) + (-k)
  BY <1>2, <1>3 DEF RootWeight
<1>6. InTable(i) /\ InTable(-k) /\ InTable(l) /\ InTable(n) /\ InTable(i + (l - n))
  <2>1. Limits(i) /\ Limits(l) /\ Limits(i + (l - n))
    BY <1>2, <1>3 DEF Limits
  <2>2. InTable(-k) /\ InTable(n)
    BY <1>2, <1>3, <1>4 DEF InTable
  <2>. QED BY <2>1, <2>2, WithinLimits
<1>7. ((Under(i) * Under(-k)) * Over(k)) * Pow2[n] = ((Over(i) * Over(-k)) * Under(k)) * Pow2[l]
  <2>. HIDE DEF i, n, l, k
  <2>. QED BY <1>2, <1>4, <1>5, <1>6, Balance
<1>8. Over(-k) = Under(k) /\ Under(-k) = Over(k)
  BY <1>2, SmallPowers DEF Over, Under
<1>. DEFINE ui == Under(i)
            oi == Over(i)
            uk == Under(k)
            ok == Over(k)
            s == Pow2[n]
            h == Pow2[l]
<1>9. /\ ui \in Nat /\ ui >= 1 /\ oi \in Nat /\ uk \in Nat /\ ok \in Nat /\ s \in Nat /\ h \in Nat
  <2>1. n \in 0..MaxShift /\ l \in 0..MaxShift
    BY <1>4, <1>5, <1>6 DEF InTable
  <2>. QED BY <1>2, <1>6, <2>1, OverUnder, Pow2Positive
<1>10. ((ui * ok) * ok) * s = ((oi * uk) * uk) * h
  BY <1>7, <1>8
<1>11. a * (1 * oi) = M * ui
  BY <1>1 DEF Weighs
<1>. HIDE DEF a, M, ui, oi, uk, ok, s, h
<1>12. a * oi = M * ui
  BY <1>1, <1>9, <1>11
<1>13. (a * s) * (ok * ok) = (M * h) * (uk * uk)
  <2>. DEFINE x == (a * s) * (ok * ok)
              y == (M * h) * (uk * uk)
  <2>1. x * ui = a * (((ui * ok) * ok) * s)
    BY <1>1, <1>9, Z3
  <2>2. a * (((oi * uk) * uk) * h) = (a * oi) * ((uk * uk) * h)
    BY <1>1, <1>9, Z3
  <2>3. (M * ui) * ((uk * uk) * h) = y * ui
    BY <1>1, <1>9, Z3
  <2>4. x * ui = y * ui /\ x \in Nat /\ y \in Nat
    BY <1>1, <1>9, <1>10, <1>12, <2>1, <2>2, <2>3
  <2>. HIDE DEF x, y
  <2>5. x = y
    BY <1>9, <2>4
  <2>. QED BY <2>5 DEF x, y
<1>14. Square = M * h /\ M * h \in Nat
  BY <1>1, <1>9 DEF Square, M, h
<1>. QED BY <1>1, <1>4, <1>9, <1>13, <1>14 DEF a, M, s, h, ok, uk

LEMMA RootGrid ==
  ASSUME A \in Values, Regular(A)
  PROVE  /\ RootBinade \in 1..(ExpMax - 1) /\ RootBinade + 1 < ExpMax
         /\ Spare \in Nat /\ Spare >= 2 /\ Spare + 1 <= MaxShift
         /\ HalfExponent + Bias >= 1 => Spare = 2
         /\ Unit(RootBinade) \in Nat /\ Unit(RootBinade) >= 1
         /\ Over(RootWeight) \in Nat /\ Over(RootWeight) >= 1
         /\ Under(RootWeight) \in Nat /\ Under(RootWeight) >= 1
         /\ Pow2[Spare] \in Nat /\ Pow2[Spare] = 2 * Pow2[Spare - 1] /\ Pow2[Spare - 1] \in Nat
         /\ Pow2[Spare + 1] = 2 * Pow2[Spare]
         /\ Unit(RootBinade) * Under(RootWeight) = (2 * Pow2[Spare]) * Over(RootWeight)
<1>. DEFINE e == RootBinade
            g == Spare
            k == RootWeight
            H == HalfExponent
<1>1. /\ H \in Int /\ H < Bias /\ 2 * H <= Bias /\ 2 * H >= -(Bias + FracBits)
      /\ k \in Int /\ InTable(k)
  BY RootExponent
<1>2. Bias >= 1 /\ Bias \in Nat /\ FracBits \in Nat /\ ExpMax = 2 * Bias + 1
      /\ MaxShift \in Nat /\ BigBits \in Nat /\ BigBits < MaxShift /\ BigBits >= 2 * FracBits + 8
      /\ MaxShift >= BigBits + FracBits + Bias
  BY Fields, Widths, BigWidths, TableAssumption DEF TableAssumption
<1>3. e \in 1..(ExpMax - 1) /\ e + 1 < ExpMax /\ e \in 1..ExpMax
  BY <1>1, <1>2 DEF RootBinade
<1>4. /\ g \in Nat /\ g >= 2 /\ g + 1 <= MaxShift /\ (H + Bias >= 1 => g = 2) /\ k + (g + 1) = e - 1
  <2>1. k = H + Bias - 4 /\ g = e - 2 - k
    BY DEF RootWeight, Spare
  <2>2. CASE H + Bias >= 1
    BY <1>1, <1>2, <2>1, <2>2 DEF RootBinade
  <2>3. CASE ~ (H + Bias >= 1)
    BY <1>1, <1>2, <2>1, <2>3 DEF RootBinade
  <2>. QED BY <2>2, <2>3
<1>5. Unit(e) \in Nat /\ Unit(e) >= 1
  BY <1>3, UnitFacts
<1>6. Over(k) \in Nat /\ Over(k) >= 1 /\ Under(k) \in Nat /\ Under(k) >= 1
  BY <1>1, OverUnder
<1>7. /\ Pow2[g] \in Nat /\ Pow2[g] = 2 * Pow2[g - 1] /\ Pow2[g - 1] \in Nat
      /\ Pow2[g + 1] = 2 * Pow2[g] /\ Pow2[g + 1] \in Nat
  <2>1. /\ g - 1 \in Nat /\ (g - 1) + 1 = g /\ g - 1 \in 0..MaxShift /\ g \in 0..MaxShift
        /\ g + 1 \in 0..MaxShift /\ (g - 1) + 1 <= MaxShift
    BY <1>2, <1>4
  <2>. HIDE DEF g
  <2>2. Pow2[(g - 1) + 1] = 2 * Pow2[g - 1] /\ Pow2[g + 1] = 2 * Pow2[g]
    BY <1>4, <2>1, Pow2Step
  <2>. QED BY <2>1, <2>2, Pow2Positive
<1>8. (Over(k) * Pow2[g + 1]) * Under(e - 1) = Under(k) * Over(e - 1)
  <2>0. MaxShift >= 2 * FracBits + 3 * Bias
    BY TableAssumption DEF TableAssumption
  <2>1. g + 1 \in Nat /\ InTable(g + 1) /\ InTable(e - 1)
    <3>. HIDE DEF g, k, e
    <3>. QED BY <1>2, <1>3, <1>4, <2>0 DEF InTable
  <2>. HIDE DEF g, k, e
  <2>. QED BY <1>1, <1>4, <2>1, OverSum
<1>9. Under(e - 1) = 1 /\ Over(e - 1) = Unit(e)
  <2>1. e - 1 >= 0
    BY <1>3
  <2>. HIDE DEF e
  <2>. QED BY <2>1 DEF Under, Over, Unit
<1>10. Unit(e) * Under(k) = (2 * Pow2[g]) * Over(k)
  <2>. DEFINE ok == Over(k)
              uk == Under(k)
              p == Pow2[g]
              U == Unit(e)
  <2>1. (ok * (2 * p)) * 1 = uk * U
    BY <1>7, <1>8, <1>9
  <2>2. ok \in Nat /\ uk \in Nat /\ p \in Nat /\ U \in Nat
    BY <1>5, <1>6, <1>7
  <2>. HIDE DEF ok, uk, p, U
  <2>3. (ok * (2 * p)) * 1 = (2 * p) * ok /\ uk * U = U * uk
    BY <2>2
  <2>. QED BY <2>1, <2>3 DEF ok, uk, p, U
<1>. QED BY <1>3, <1>4, <1>5, <1>6, <1>7, <1>10

(* On which side of y half units the root lies.                            *)
LEMMA RootSides ==
  ASSUME A \in Values, Regular(A), NEW d \in Nat, NEW r \in Nat, r <= 2 * d, Radicand = d * d + r,
         NEW y \in Nat,
         NEW num, num = WithRest(d, r) * Over(RootWeight),
         NEW D, D = Unit(RootBinade) * Under(RootWeight),
         NEW h, h = y * Unit(RootBinade)
  PROVE  /\ 2 * num < y * D <=> 4 * Square < h * h
         /\ 2 * num = y * D <=> 4 * Square = h * h
         /\ 4 * Square = h * h <=> Radicand = (y * Pow2[Spare]) * (y * Pow2[Spare])
<1>. DEFINE x == WithRest(d, r)
            ok == Over(RootWeight)
            uk == Under(RootWeight)
            U == Unit(RootBinade)
            p == Pow2[Spare]
            t == y * p
            R == Radicand
            S == Square
<1>1. /\ ok \in Nat /\ ok >= 1 /\ uk \in Nat /\ uk >= 1 /\ U \in Nat /\ p \in Nat
      /\ p = 2 * Pow2[Spare - 1] /\ Pow2[Spare - 1] \in Nat /\ U * uk = (2 * p) * ok
  BY RootGrid
<1>2. R * (ok * ok) = S * (uk * uk) /\ S \in Nat
  BY RootWeighs
<1>3. x \in Nat /\ R \in Nat
  <2>1. (r # 0) \in BOOLEAN
    OBVIOUS
  <2>. QED BY <2>1, StickyBound, RadicandIs DEF WithRest
<1>4. t \in Nat /\ \E w \in Nat : t = 2 * w
  <2>. DEFINE v == Pow2[Spare - 1]
              w == y * v
  <2>1. v \in Nat /\ t = y * (2 * v)
    BY <1>1
  <2>. HIDE DEF v, t
  <2>2. w \in Nat /\ t = 2 * w
    BY <2>1
  <2>. QED BY <2>2
<1>5. /\ x < t <=> R < t * t
      /\ x = t <=> R = t * t
  <2>1. PICK w \in Nat : t = 2 * w
    BY <1>4
  <2>2. RootAndEven(d, r, t)
    BY <2>1 DEF RootAndEven
  <2>. HIDE DEF t
  <2>3. /\ WithRest(d, r) < t <=> d * d + r < t * t
        /\ WithRest(d, r) = t <=> d * d + r = t * t
    BY <2>2, RootOrder
  <2>. QED BY <2>3
<1>6. 2 * num = x * (2 * ok) /\ y * D = t * (2 * ok)
  <2>. HIDE DEF x, ok, uk, U, p
  <2>1. num = x * ok /\ D = (2 * p) * ok
    BY <1>1 DEF x, ok, uk, U
  <2>2. 2 * (x * ok) = x * (2 * ok)
    BY <1>1, <1>3
  <2>3. y * ((2 * p) * ok) = (y * p) * (2 * ok)
    BY <1>1
  <2>. QED BY <2>1, <2>2, <2>3
<1>7. (4 * S) * (uk * uk) = R * (4 * (ok * ok)) /\ (h * h) * (uk * uk) = (t * t) * (4 * (ok * ok))
  <2>. HIDE DEF ok, uk, U, p, S, R
  <2>1. h = y * U
    BY DEF U
  <2>2. (4 * S) * (uk * uk) = 4 * (S * (uk * uk)) /\ 4 * (R * (ok * ok)) = R * (4 * (ok * ok))
    BY <1>1, <1>2, <1>3
  <2>3. ((y * U) * (y * U)) * (uk * uk) = (y * (U * uk)) * (y * (U * uk))
    BY <1>1
  <2>4. (y * ((2 * p) * ok)) * (y * ((2 * p) * ok)) = ((y * p) * (y * p)) * (4 * (ok * ok))
    BY <1>1
  <2>. QED BY <1>1, <1>2, <2>1, <2>2, <2>3, <2>4
<1>8. ok * ok >= 1 /\ ok * ok \in Nat /\ uk * uk >= 1 /\ uk * uk \in Nat /\ 2 * ok >= 1 /\ 2 * ok \in Nat
  <2>. HIDE DEF ok, uk
  <2>. QED BY <1>1
<1>9. ASSUME NEW i1 \in Int, NEW j1 \in Int, NEW f \in Nat, f >= 1
      PROVE  /\ i1 * f < j1 * f <=> i1 < j1
             /\ i1 * f = j1 * f <=> i1 = j1
  BY <1>9
<1>10. /\ 2 * num < y * D <=> x < t
       /\ 2 * num = y * D <=> x = t
  <2>. DEFINE f == 2 * ok
  <2>. HIDE DEF f, x, t
  <2>1. f \in Nat /\ f >= 1 /\ x \in Int /\ t \in Int
    BY <1>3, <1>4, <1>8 DEF f
  <2>2. /\ x * f < t * f <=> x < t
        /\ x * f = t * f <=> x = t
    BY <1>9, <2>1
  <2>. QED BY <1>6, <2>2 DEF f
<1>11. /\ 4 * S < h * h <=> R < t * t
       /\ 4 * S = h * h <=> R = t * t
  <2>. DEFINE f == uk * uk
              w == 4 * (ok * ok)
              b == 4 * S
              c == h * h
              v == t * t
  <2>1. /\ f \in Nat /\ f >= 1 /\ w \in Nat /\ w >= 1 /\ b \in Int /\ c \in Int /\ v \in Int /\ R \in Int
    BY <1>1, <1>2, <1>3, <1>4, <1>8
  <2>2. b * f = R * w /\ c * f = v * w
    BY <1>7
  <2>. HIDE DEF f, w, b, c, v, R
  <2>3. /\ b * f < c * f <=> b < c
        /\ b * f = c * f <=> b = c
    BY <1>9, <2>1
  <2>4. /\ R * w < v * w <=> R < v
        /\ R * w = v * w <=> R = v
    BY <1>9, <2>1
  <2>5. /\ b < c <=> R < v
        /\ b = c <=> R = v
    BY <2>2, <2>3, <2>4
  <2>. QED BY <2>5 DEF b, c, v
<1>. QED BY <1>5, <1>10, <1>11

LEMMA RootRightSide ==
  ASSUME A \in Values, Regular(A), NEW d, NEW r, RootDigitsOf(d, r), NEW y \in Nat
  PROVE  RightSide(d, r, y)
<1>1. d \in Nat /\ r \in Nat /\ r <= 2 * d /\ Radicand = d * d + r
  BY DEF RootDigitsOf
<1>2. PICK num, D, h : /\ num = WithRest(d, r) * Over(RootWeight)
                       /\ D = Unit(RootBinade) * Under(RootWeight)
                       /\ h = y * Unit(RootBinade)
  OBVIOUS
<1>3. /\ 2 * num < y * D <=> 4 * Square < h * h
      /\ 2 * num = y * D <=> 4 * Square = h * h
      /\ 4 * Square = h * h <=> Radicand = (y * Pow2[Spare]) * (y * Pow2[Spare])
  BY <1>1, <1>2, RootSides
<1>. QED BY <1>2, <1>3 DEF RightSide, RootOver, RootUnder

LEMMA RootDigitsBound ==
  ASSUME A \in Values, Regular(A), NEW d, NEW r, RootDigitsOf(d, r),
         NEW x, x = WithRest(d, r)
  PROVE  /\ x \in Nat /\ Pow2[FracBits + 3] <= x /\ x < Pow2[FracBits + 4]
         /\ Highest(x) = FracBits + 3
<1>. DEFINE h == Pow2[FracBits + 3]
<1>1. d \in Nat /\ r \in Nat /\ r <= 2 * d /\ Radicand = d * d + r
  BY DEF RootDigitsOf
<1>2. /\ FracBits \in Nat /\ BigBits \in Nat /\ BigBits < MaxShift /\ BigBits >= 2 * FracBits + 8
      /\ MaxShift \in Nat /\ FracBits >= 2
  BY Widths, BigWidths
<1>3. h \in Nat /\ h >= 1 /\ Pow2[FracBits + 4] = 2 * h
  <2>1. FracBits + 3 \in 0..MaxShift /\ FracBits + 3 \in Nat /\ (FracBits + 3) + 1 <= MaxShift
        /\ (FracBits + 3) + 1 = FracBits + 4
    BY <1>2
  <2>. QED BY <2>1, Pow2Step, Pow2Positive
<1>4. Pow2[2 * FracBits + 6] = h * h /\ Pow2[2 * FracBits + 8] = (2 * h) * (2 * h)
  <2>1. /\ FracBits + 3 \in Nat /\ (FracBits + 3) + (FracBits + 3) <= MaxShift
        /\ (FracBits + 3) + (FracBits + 3) = 2 * FracBits + 6
        /\ FracBits + 4 \in Nat /\ (FracBits + 4) + (FracBits + 4) <= MaxShift
        /\ (FracBits + 4) + (FracBits + 4) = 2 * FracBits + 8
    BY <1>2
  <2>2. Pow2[(FracBits + 3) + (FracBits + 3)] = h * h
        /\ Pow2[(FracBits + 4) + (FracBits + 4)] = Pow2[FracBits + 4] * Pow2[FracBits + 4]
    BY <2>1, Pow2Sum
  <2>. QED BY <1>3, <2>1, <2>2
<1>5. h * h <= d * d + r /\ d * d + r < (2 * h) * (2 * h)
  BY <1>1, <1>4, RadicandIs
<1>. HIDE DEF h
<1>6. h <= d /\ d < 2 * h
  <2>1. d < h => (d + 1) * (d + 1) <= h * h
    BY <1>1, <1>3, SquareOrder
  <2>2. (d + 1) * (d + 1) = d * d + 2 * d + 1
    BY <1>1, Z3
  <2>3. 2 * h <= d => (2 * h) * (2 * h) <= d * d
    BY <1>1, <1>3, SquareOrder
  <2>. DEFINE s == d * d
              u == h * h
              v == (2 * h) * (2 * h)
  <2>4. s \in Nat /\ u \in Nat /\ v \in Nat
    BY <1>1, <1>3
  <2>5. /\ d < h => s + 2 * d + 1 <= u
        /\ 2 * h <= d => v <= s
        /\ u <= s + r /\ s + r < v
    BY <1>5, <2>1, <2>2, <2>3
  <2>. HIDE DEF s, u, v
  <2>. QED BY <1>1, <1>3, <2>4, <2>5
<1>7. x \in Nat /\ h <= x /\ x < 2 * h
  <2>1. (r # 0) \in BOOLEAN
    OBVIOUS
  <2>2. /\ WithRest(d, r) \in Nat /\ d <= WithRest(d, r) /\ WithRest(d, r) < 2 * h
    BY <1>1, <1>3, <1>6, <2>1, StickyBound DEF WithRest
  <2>. QED BY <1>1, <1>3, <1>6, <2>2
<1>8. Highest(x) = FracBits + 3
  <2>1. x < Pow2[BigBits] /\ x >= 1
    <3>1. FracBits + 4 \in Nat /\ FracBits + 4 <= BigBits /\ BigBits <= MaxShift
          /\ BigBits \in 0..MaxShift /\ FracBits + 4 \in 0..MaxShift
      BY <1>2
    <3>2. Pow2[FracBits + 4] <= Pow2[BigBits] /\ Pow2[BigBits] \in Nat
      BY <1>2, <3>1, Pow2Monotone, Pow2Positive
    <3>. QED BY <1>3, <1>7, <3>2
  <2>. DEFINE n == Highest(x)
  <2>2. n \in 0..(BigBits - 1)
        /\ (FracBits + 3 \in Nat /\ Pow2[FracBits + 3] <= x /\ FracBits + 3 < BigBits
             => FracBits + 3 <= n)
        /\ (FracBits + 4 \in Nat /\ x < Pow2[FracBits + 4] /\ FracBits + 4 <= BigBits
             => n < FracBits + 4)
    BY <1>7, <2>1, HighestIs
  <2>3. Pow2[FracBits + 3] <= x /\ x < Pow2[FracBits + 4]
    BY <1>3, <1>7 DEF h
  <2>. HIDE DEF n
  <2>4. n \in Int /\ FracBits + 3 <= n /\ n < FracBits + 4
    BY <1>2, <2>2, <2>3
  <2>5. n = FracBits + 3
    BY <1>2, <2>4
  <2>. QED BY <2>5 DEF n
<1>. QED BY <1>3, <1>7, <1>8 DEF h

(* A root is never in the middle of two neighbours.                        *)
LEMMA RootNoTie ==
  ASSUME A \in Values, Regular(A), NEW d, NEW r, RootDigitsOf(d, r),
         NEW m \in Nat, NEW h, h = (2 * m + 1) * Unit(RootBinade)
  PROVE  4 * Square # h * h
<1>. SUFFICES ASSUME 4 * Square = h * h PROVE FALSE
  OBVIOUS
<1>1. Square \in Nat
  BY RootWeighs
<1>2. CASE HalfExponent + Bias >= 1
  <2>. DEFINE y == 2 * m + 1
              n == OddExponent + (FracBits + 6)
  <2>1. Spare = 2 /\ Pow2[2] = 4
    BY <1>2, RootGrid, SmallPowers
  <2>2. /\ Radicand = Sig(A) * Pow2[n] /\ n \in Nat /\ n <= BigBits /\ Radicand \in Nat
    BY RadicandIs
  <2>3. OddExponent \in {0, 1} /\ FracBits \in Nat /\ FracBits >= 2 /\ BigBits < MaxShift
        /\ BigBits \in Nat /\ MaxShift \in Nat /\ BigBits >= 2 * FracBits + 8
    BY RootExponent, Widths, BigWidths
  <2>4. \E w \in Nat : Pow2[n] = 32 * w
    <3>1. n - 5 \in Nat /\ 5 \in Nat /\ (n - 5) + 5 <= MaxShift /\ (n - 5) + 5 = n
          /\ n - 5 \in 0..MaxShift
      BY <2>2, <2>3
    <3>2. Pow2[(n - 5) + 5] = Pow2[n - 5] * Pow2[5]
      <4>. HIDE DEF n
      <4>. QED BY <3>1, Pow2Sum
    <3>3. Pow2[5] = 32
      <4>1. /\ 2 \in Nat /\ 3 \in Nat /\ 4 \in Nat
            /\ 2 + 1 <= MaxShift /\ 3 + 1 <= MaxShift /\ 4 + 1 <= MaxShift
        BY <2>3
      <4>2. Pow2[2 + 1] = 2 * Pow2[2] /\ Pow2[3 + 1] = 2 * Pow2[3] /\ Pow2[4 + 1] = 2 * Pow2[4]
        BY <4>1, Pow2Step
      <4>. QED BY <2>1, <4>2
    <3>4. Pow2[n - 5] \in Nat
      BY <3>1, Pow2Positive
    <3>. QED BY <3>1, <3>2, <3>3, <3>4
  <2>5. PICK w \in Nat : Pow2[n] = 32 * w
    BY <2>4
  <2>6. Radicand = (y * Pow2[Spare]) * (y * Pow2[Spare])
    <3>1. y \in Nat
      OBVIOUS
    <3>2. h = y * Unit(RootBinade)
      OBVIOUS
    <3>. HIDE DEF y
    <3>3. RightSide(d, r, y)
      BY <3>1, RootRightSide
    <3>. QED BY <3>2, <3>3 DEF RightSide
  <2>. DEFINE a == Sig(A)
              v == a * w
              u == y * y
  <2>7. a \in Nat /\ v \in Nat /\ u \in Nat
    <3>1. a \in Nat
      BY SigWidth
    <3>. HIDE DEF a
    <3>2. a * w \in Nat /\ y \in Nat
      BY <3>1, <2>5
    <3>. QED BY <3>1, <3>2
  <2>8. Radicand = 32 * v
    <3>1. Radicand = a * (32 * w)
      BY <2>2, <2>5
    <3>. HIDE DEF a
    <3>. QED BY <2>5, <2>7, <3>1
  <2>9. Radicand = 16 * u
    <3>1. Radicand = (y * 4) * (y * 4)
      BY <2>1, <2>6
    <3>. QED BY <3>1
  <2>10. u = 4 * (m * m + m) + 1
    BY Z3
  <2>. DEFINE c == m * m + m
  <2>11. c \in Nat
    OBVIOUS
  <2>. HIDE DEF v, u, c
  <2>. QED BY <2>7, <2>8, <2>9, <2>10, <2>11 DEF c
<1>3. CASE ~ (HalfExponent + Bias >= 1)
  <2>1. RootBinade = 1 /\ Unit(1) = 1
    <3>1. 1 \in 1..ExpMax
      BY Fields
    <3>. QED BY <1>3, <3>1, UnitFacts DEF RootBinade
  <2>2. h = 2 * m + 1
    BY <2>1
  <2>3. (2 * m + 1) * (2 * m + 1) = 4 * (m * m + m) + 1
    BY Z3
  <2>. DEFINE c == m * m + m
  <2>4. c \in Nat
    OBVIOUS
  <2>5. 4 * Square = 4 * c + 1
    BY <2>2, <2>3
  <2>. HIDE DEF c
  <2>. QED BY <1>1, <2>4, <2>5
<1>. QED BY <1>2, <1>3

LEMMA RootUnits ==
  ASSUME A \in Values, Regular(A), NEW d, NEW r, RootDigitsOf(d, r)
  PROVE  /\ UnitsOf(d, r) \in Nat /\ UnitsOf(d, r) < 2 * ImplicitBit
         /\ RootBinade = 1 \/ ImplicitBit <= UnitsOf(d, r)
         /\ RootOver(d, r) \in Nat /\ RootUnder \in Nat /\ RootUnder >= 1
         /\ UnitsOf(d, r) * RootUnder <= RootOver(d, r)
         /\ RootOver(d, r) < (UnitsOf(d, r) + 1) * RootUnder
<1>. DEFINE x == WithRest(d, r)
            p == Pow2[Spare]
            ok == Over(RootWeight)
            u == 2 * p
            m == x \div u
            I == ImplicitBit
<1>1. x \in Nat /\ Pow2[FracBits + 3] <= x /\ x < Pow2[FracBits + 4]
  BY RootDigitsBound
<1>2. Pow2[FracBits + 3] = 8 * I /\ Pow2[FracBits + 4] = 16 * I /\ I \in Nat /\ I >= 1
  BY ThreeBits, Fields, GuardPowers
<1>3. /\ Spare \in Nat /\ Spare >= 2 /\ Spare + 1 <= MaxShift
      /\ (HalfExponent + Bias >= 1 => Spare = 2)
      /\ ok \in Nat /\ ok >= 1 /\ p \in Nat /\ Pow2[Spare + 1] = u
      /\ RootUnder = u * ok
  BY RootGrid DEF RootUnder
<1>4. p >= 4 /\ Pow2[2] = 4
  <2>1. 2 \in Nat /\ Spare \in Nat /\ 2 <= Spare /\ Spare <= MaxShift
    BY <1>3, Widths
  <2>2. Pow2[2] <= Pow2[Spare]
    BY <2>1, Pow2Monotone
  <2>. QED BY <2>2, SmallPowers
<1>5. UnitsOf(d, r) = m
  BY <1>3 DEF UnitsOf
<1>6. RootBinade = 1 \/ p = 4
  <2>1. CASE HalfExponent + Bias >= 1
    BY <1>3, <1>4, <2>1
  <2>2. CASE ~ (HalfExponent + Bias >= 1)
    BY <2>2 DEF RootBinade
  <2>. QED BY <2>1, <2>2
<1>7. RootOver(d, r) = x * ok
  BY DEF RootOver
<1>. HIDE DEF x, p, ok, I
<1>8. u \in Nat /\ u >= 8 /\ (p = 4 => u = 8)
  BY <1>3, <1>4
<1>. HIDE DEF u
<1>9. m \in Nat /\ m * u <= x /\ x < (m + 1) * u
  <2>1. m \in Nat /\ x % u \in Nat /\ x % u < u /\ x = m * u + (x % u)
    BY <1>1, <1>8, Split
  <2>. DEFINE s == x % u
              w == m * u
  <2>2. w \in Nat /\ (m + 1) * u = w + u
    <3>. HIDE DEF m
    <3>. QED BY <1>8, <2>1
  <2>. HIDE DEF s, w, m
  <2>. QED BY <1>1, <1>8, <2>1, <2>2 DEF w, s
<1>. HIDE DEF m
<1>10. m < 2 * I
  <2>1. m * 8 <= m * u
    BY <1>8, <1>9
  <2>. DEFINE w == m * u
  <2>2. w \in Nat
    BY <1>8, <1>9
  <2>. HIDE DEF w
  <2>3. m * 8 <= w /\ w <= x
    BY <1>9, <2>1 DEF w
  <2>. QED BY <1>1, <1>2, <1>9, <2>2, <2>3
<1>11. p = 4 => I <= m
  BY <1>1, <1>2, <1>8, <1>9
<1>12. x * ok \in Nat /\ u * ok \in Nat /\ u * ok >= 1
  BY <1>1, <1>3, <1>8
<1>13. m * (u * ok) <= x * ok /\ x * ok < (m + 1) * (u * ok)
  <2>. DEFINE w == m * u
              v == (m + 1) * u
  <2>1. w \in Nat /\ v \in Nat /\ w <= x /\ x < v
    BY <1>8, <1>9
  <2>2. m * (u * ok) = w * ok /\ (m + 1) * (u * ok) = v * ok
    BY <1>3, <1>8, <1>9
  <2>. HIDE DEF w, v
  <2>3. w * ok <= x * ok /\ x * ok < v * ok
    BY <1>1, <1>3, <2>1
  <2>. QED BY <2>2, <2>3
<1>14. RootUnder = u * ok /\ RootOver(d, r) = x * ok /\ UnitsOf(d, r) = m
  BY <1>3, <1>5, <1>7 DEF u
<1>. DEFINE a == u * ok
            b == x * ok
            c == m * a
            g == (m + 1) * a
<1>15. a \in Nat /\ a >= 1 /\ b \in Nat /\ c <= b /\ b < g
  BY <1>12, <1>13
<1>16. RootUnder = a /\ RootOver(d, r) = b
  BY <1>14
<1>. HIDE DEF a, b
<1>. QED BY <1>6, <1>9, <1>10, <1>11, <1>14, <1>15, <1>16 DEF I

(* The rounding of the digits is the reference's root: its neighbours are  *)
(* those of the root, and the digits are on the root's side of their       *)
(* middle.                                                                 *)
LEMMA RootOfDigits ==
  ASSUME A \in Values, Regular(A), A.s = 0, NEW d, NEW r, RootDigitsOf(d, r), NEW md \in Modes
  PROVE  Late(Ref!Round(0, RootOver(d, r), Under(RootWeight), md)) = Late(Ref!Sqrt(A, md))
<1>. DEFINE m == UnitsOf(d, r)
            e == RootBinade
            U == Unit(RootBinade)
            D == RootUnder
            num == RootOver(d, r)
            den == Under(RootWeight)
            S == Square
            I == ImplicitBit
            i == IndexOf(RootBinade, UnitsOf(d, r))
            lost == num # m * D
            half == 2 * num >= (2 * m + 1) * D
            tie == 2 * num = (2 * m + 1) * D
            up == Upwards(0, m, lost, half, tie, md)
<1>1. /\ m \in Nat /\ m < 2 * I /\ (e = 1 \/ I <= m)
      /\ num \in Nat /\ D \in Nat /\ D >= 1 /\ m * D <= num /\ num < (m + 1) * D
  BY RootUnits
<1>2. /\ e \in 1..(ExpMax - 1) /\ e + 1 < ExpMax /\ e \in Nat
      /\ U \in Nat /\ U >= 1 /\ den \in Nat /\ den >= 1 /\ D = U * den
  BY RootGrid DEF RootUnder
<1>3. S \in Nat /\ I \in Nat /\ I >= 1 /\ ExpMax \in Nat
  BY RootWeighs, Fields, GuardPowers
<1>4. 2 * e <= 3 * Bias
  <2>1. HalfExponent \in Int /\ 2 * HalfExponent <= Bias /\ Bias \in Nat /\ Bias >= 1
    BY RootExponent, Fields
  <2>2. CASE HalfExponent + Bias >= 1
    BY <2>1, <2>2 DEF RootBinade
  <2>3. CASE ~ (HalfExponent + Bias >= 1)
    BY <2>1, <2>3 DEF RootBinade
  <2>. QED BY <2>2, <2>3
<1>5. Ref!Round(0, num, den, md) = Neighbour(0, e, m, up, lost, md)
  <2>1. 0 \in {0, 1}
    OBVIOUS
  <2>. DEFINE C == Unit(e) * den
  <2>. HIDE DEF m, e, num, den, D, U
  <2>2. D = C
    BY <1>2 DEF U, e
  <2>3. e \in 1..(ExpMax - 1) /\ m < 2 * ImplicitBit /\ (e = 1 \/ ImplicitBit <= m)
    BY <1>1, <1>2
  <2>4. m * C <= num /\ num < (m + 1) * C
    BY <1>1, <2>2
  <2>5. ASSUME NEW s \in {0, 1}
        PROVE  Ref!Round(s, num, den, md) =
          Neighbour(s, e, m,
                    Upwards(s, m, num # m * C, 2 * num >= (2 * m + 1) * C,
                            2 * num = (2 * m + 1) * C, md),
                    num # m * C, md)
    BY <1>1, <1>2, <2>3, <2>4, RoundAt
  <2>. HIDE DEF C
  <2>. QED BY <2>1, <2>2, <2>5
<1>6. /\ i \in 0..(ExpMax * I - 1) /\ i \in Nat /\ i + 1 = IndexOf(e, m + 1)
      /\ i + 1 < ExpMax * I
      /\ Ref!Magnitude[i] = m * U /\ Ref!Magnitude[i + 1] = (m + 1) * U
  <2>. HIDE DEF m, e, I
  <2>1. InBinade(e, m) /\ InBinade(e, m + 1) /\ m + 1 \in Nat
    BY <1>1, <1>2, <1>3 DEF InBinade, I
  <2>2. /\ IndexOf(e, m) \in 0..(ExpMax * I) /\ Ref!Magnitude[IndexOf(e, m)] = m * Unit(e)
        /\ IndexOf(e, m + 1) \in 0..(ExpMax * I)
        /\ Ref!Magnitude[IndexOf(e, m + 1)] = (m + 1) * Unit(e)
    BY <1>2, <2>1, MagnitudeAt DEF I
  <2>. DEFINE w == (e - 1) * I
              top == ExpMax * I
  <2>3. w \in Int /\ top \in Nat /\ w + 3 * I <= top
    <3>1. e + 2 <= ExpMax
      BY <1>2, <1>3
    <3>2. (e + 2) * I <= ExpMax * I /\ (e + 2) * I \in Nat /\ ExpMax * I \in Nat
      BY <1>2, <1>3, <3>1
    <3>3. (e + 2) * I = (e - 1) * I + 3 * I /\ (e - 1) * I \in Int
      BY <1>2, <1>3
    <3>. QED BY <3>2, <3>3
  <2>4. IndexOf(e, m) = w + m /\ IndexOf(e, m + 1) = w + (m + 1)
    BY DEF IndexOf, I
  <2>5. i = IndexOf(e, m) /\ U = Unit(e)
    BY DEF e, m
  <2>6. IndexOf(e, m) \in 0..top
    BY <2>2
  <2>. HIDE DEF w, top, i, U
  <2>7. i + 1 = IndexOf(e, m + 1) /\ i + 1 < top /\ i \in Nat /\ i \in 0..(top - 1)
    BY <1>1, <1>3, <2>3, <2>4, <2>5, <2>6 DEF I
  <2>. QED BY <2>2, <2>5, <2>7 DEF top
<1>7. /\ (num < m * D <=> S < (m * U) * (m * U)) /\ (num = m * D <=> S = (m * U) * (m * U))
      /\ (num < (m + 1) * D <=> S < ((m + 1) * U) * ((m + 1) * U))
      /\ (2 * num < (2 * m + 1) * D <=> 4 * S < (m * U + (m + 1) * U) * (m * U + (m + 1) * U))
      /\ (2 * num = (2 * m + 1) * D <=> 4 * S = (m * U + (m + 1) * U) * (m * U + (m + 1) * U))
      /\ 4 * S # (m * U + (m + 1) * U) * (m * U + (m + 1) * U)
  <2>. HIDE DEF m, num
  <2>1. 2 * m \in Nat /\ 2 * (m + 1) \in Nat /\ 2 * m + 1 \in Nat
    BY <1>1
  <2>. DEFINE side(y) == /\ (2 * num < y * D <=> 4 * S < (y * U) * (y * U))
                         /\ (2 * num = y * D <=> 4 * S = (y * U) * (y * U))
  <2>2. ASSUME NEW y \in Nat PROVE side(y)
    <3>1. RightSide(d, r, y)
      BY RootRightSide
    <3>. QED BY <3>1 DEF RightSide, num
  <2>3. side(2 * m) /\ side(2 * (m + 1)) /\ side(2 * m + 1)
    <3>. HIDE DEF side
    <3>. QED BY <2>1, <2>2
  <2>4. 4 * S # ((2 * m + 1) * U) * ((2 * m + 1) * U)
    BY <1>1, RootNoTie
  <2>. HIDE DEF S, D, U
  <2>5. /\ ((2 * m) * U) * ((2 * m) * U) = 4 * ((m * U) * (m * U))
        /\ ((2 * (m + 1)) * U) * ((2 * (m + 1)) * U) = 4 * (((m + 1) * U) * ((m + 1) * U))
        /\ (2 * m + 1) * U = m * U + (m + 1) * U
        /\ (2 * m) * D = 2 * (m * D) /\ (2 * (m + 1)) * D = 2 * ((m + 1) * D)
    BY <1>1, <1>2
  <2>. DEFINE a == (m * U) * (m * U)
              b == ((m + 1) * U) * ((m + 1) * U)
              v == m * D
              w == (m + 1) * D
  <2>6. a \in Nat /\ b \in Nat /\ v \in Nat /\ w \in Nat
    BY <1>1, <1>2
  <2>7. /\ (2 * num < 2 * v <=> 4 * S < 4 * a) /\ (2 * num = 2 * v <=> 4 * S = 4 * a)
        /\ (2 * num < 2 * w <=> 4 * S < 4 * b)
    BY <2>3, <2>5 DEF side
  <2>8. /\ (num < v <=> S < a) /\ (num = v <=> S = a) /\ (num < w <=> S < b)
    <3>. HIDE DEF a, b, v, w
    <3>. QED BY <1>1, <1>3, <2>6, <2>7
  <2>. QED BY <2>3, <2>4, <2>5, <2>8 DEF side
<1>. DEFINE M == Ref!Magnitude[i]
            N == Ref!Magnitude[i + 1]
<1>8. M < Ref!RootLimit
  <2>1. m * Unit(e) < Ref!RootLimit
    <3>. HIDE DEF m, e
    <3>. QED BY <1>1, <1>2, <1>4, BelowRootLimit DEF I
  <2>. QED BY <1>6, <2>1
<1>9. Ref!RootFloorIndex(S) = i
  <2>1. M * M <= S /\ S < N * N
    <3>. DEFINE a == M * M
                b == N * N
    <3>1. a = (m * U) * (m * U) /\ b = ((m + 1) * U) * ((m + 1) * U)
      BY <1>6
    <3>2. a \in Nat /\ b \in Nat
      <4>. HIDE DEF m, U
      <4>. QED BY <1>1, <1>2, <3>1
    <3>. DEFINE v == m * D
                w == (m + 1) * D
    <3>3. v \in Nat /\ w \in Nat /\ v <= num /\ num < w
      <4>. HIDE DEF m, D
      <4>. QED BY <1>1
    <3>4. (num < v <=> S < a) /\ (num < w <=> S < b)
      BY <1>7, <3>1
    <3>. HIDE DEF a, b, v, w, S, num
    <3>5. a <= S /\ S < b
      BY <1>1, <1>3, <3>2, <3>3, <3>4
    <3>. QED BY <3>5 DEF a, b
  <2>. HIDE DEF S, i
  <2>. QED BY <1>3, <1>6, <1>8, <2>1, RootFloorFound DEF I
<1>10. /\ ~ Ref!IsNaN(A) /\ ~ Ref!IsZero(A) /\ ~ Ref!IsInf(A) /\ A.s # 1
  BY RegularFields, SameClasses
<1>. DEFINE exact == M * M = S
            mid == M + N
            higher == CASE md \in {"RTZ", "RDN"} -> FALSE
                        [] md = "RUP" -> ~ exact
                        [] md \in {"RNE", "RNA"} -> 4 * S > mid * mid
<1>11. Ref!Sqrt(A, md) = Ref!Result(Ref!OfIndex(0, IF higher THEN i + 1 ELSE i),
                                    IF exact THEN {} ELSE {"inexact"})
  <2>. HIDE DEF i
  <2>. QED BY <1>9, <1>10, Zenon DEF Ref!Sqrt, Square, M, N
<1>12. /\ exact <=> ~ lost
       /\ 4 * S > mid * mid <=> half
       /\ ~ tie
  <2>. DEFINE a == M * M
              b == mid * mid
              w == (2 * m + 1) * D
  <2>1. a = (m * U) * (m * U) /\ b = (m * U + (m + 1) * U) * (m * U + (m + 1) * U)
    BY <1>6
  <2>2. b \in Nat /\ w \in Nat
    <3>. HIDE DEF m, U, D
    <3>. QED BY <1>1, <1>2, <2>1
  <2>3. (num = m * D <=> S = a) /\ (2 * num < w <=> 4 * S < b) /\ (2 * num = w <=> 4 * S = b) /\ 4 * S # b
    BY <1>7, <2>1
  <2>4. 4 * S > b <=> 2 * num >= w
    <3>. HIDE DEF b, w, S, num
    <3>. QED BY <1>1, <1>3, <2>2, <2>3
  <2>. HIDE DEF num, S, M, D, m
  <2>. QED BY <2>3, <2>4
<1>13. higher <=> up
  <2>. HIDE DEF exact, mid, lost, half, tie, S
  <2>1. CASE md = "RTZ"
    BY <2>1 DEF Upwards
  <2>2. CASE md = "RDN"
    BY <2>2 DEF Upwards
  <2>3. CASE md = "RUP"
    BY <1>12, <2>3 DEF Upwards
  <2>4. CASE md = "RNE"
    BY <1>12, <2>4 DEF Upwards
  <2>5. CASE md = "RNA"
    BY <1>12, <2>5 DEF Upwards
  <2>. QED BY <2>1, <2>2, <2>3, <2>4, <2>5 DEF Modes
<1>. DEFINE j == IF higher THEN i + 1 ELSE i
<1>14. /\ Ref!Sqrt(A, md) = [res |-> Ref!OfIndex(0, j), fe |-> IF lost THEN {"inexact"} ELSE {}]
  <2>. HIDE DEF higher, exact, lost, i
  <2>. QED BY <1>11, <1>12, Zenon DEF Ref!Result
<1>15. Ref!Round(0, num, den, md) =
         [res |-> [s |-> 0, e |-> j \div I, f |-> j % I],
          fe |-> IF ~ lost THEN {}
                 ELSE {"inexact"} \cup (IF e = 1 /\ m < I THEN {"underflow"} ELSE {})]
  <2>1. IndexOf(e, IF up THEN m + 1 ELSE m) = j /\ j # ExpMax * I
    <3>. DEFINE top == ExpMax * I
    <3>1. i \in Nat /\ i + 1 < top /\ top \in Nat /\ i = IndexOf(e, m) /\ i + 1 = IndexOf(e, m + 1)
      <4>1. ExpMax * I \in Nat
        <5>. HIDE DEF I
        <5>. QED BY <1>3
      <4>. QED BY <1>6, <4>1
    <3>. HIDE DEF higher, up, m, e, i, top
    <3>2. IndexOf(e, IF up THEN m + 1 ELSE m) = j /\ j # top
      <4>1. CASE up
        BY <1>13, <3>1, <4>1
      <4>2. CASE ~ up
        BY <1>13, <3>1, <4>2
      <4>. QED BY <4>1, <4>2
    <3>. QED BY <3>2 DEF top
  <2>. HIDE DEF up, lost, m, e, j
  <2>. QED BY <1>5, <2>1, Zenon DEF Neighbour, I
<1>16. Ref!OfIndex(0, j) = [s |-> 0, e |-> j \div I, f |-> j % I]
  <2>. HIDE DEF j
  <2>. QED BY SameFormat DEF Ref!OfIndex, I
<1>. DEFINE v == [s |-> 0, e |-> j \div I, f |-> j % I]
            tiny == e = 1 /\ m < I
<1>. HIDE DEF v, tiny, lost, j
<1>17. /\ Ref!Round(0, num, den, md) =
            [res |-> v, fe |-> IF ~ lost THEN {}
                               ELSE {"inexact"} \cup (IF tiny THEN {"underflow"} ELSE {})]
       /\ Ref!Sqrt(A, md) = [res |-> v, fe |-> IF lost THEN {"inexact"} ELSE {}]
  BY <1>14, <1>15, <1>16 DEF v, tiny
<1>18. lost \in BOOLEAN /\ tiny \in BOOLEAN
  BY DEF lost, tiny
<1>19. ({"inexact"} \cup (IF tiny THEN {"underflow"} ELSE {})) \ {"underflow"} = {"inexact"}
       /\ {"inexact"} \ {"underflow"} = {"inexact"}
       /\ "inexact" \in {"inexact"} \cup (IF tiny THEN {"underflow"} ELSE {})
  BY <1>18
<1>20. CASE ~ lost
  BY <1>17, <1>20
<1>21. CASE lost
  <2>1. /\ Ref!Round(0, num, den, md) =
             [res |-> v, fe |-> {"inexact"} \cup (IF tiny THEN {"underflow"} ELSE {})]
        /\ Ref!Sqrt(A, md) = [res |-> v, fe |-> {"inexact"}]
    BY <1>17, <1>21
  <2>2. Late([res |-> v, fe |-> {"inexact"} \cup (IF tiny THEN {"underflow"} ELSE {})])
          = Late([res |-> v, fe |-> {"inexact"}])
    BY <1>19 DEF Late
  <2>. QED BY <2>1, <2>2
<1>. QED BY <1>20, <1>21

LEMMA RootDigitTaken ==
  ASSUME IInv, RootDigit, pos = 0
  PROVE  /\ RootDigitsOf(RootNext, RootLeft)
         /\ call.op = "sqrt" /\ Regular(A) /\ A.s = 0 /\ call \in Calls /\ A \in Values
         /\ ToPack(0, OrSticky(RootNext, RootLeft # 0),
                   (Exponent(A) - OddExponent) \div 2 - FracBits - 3, call.mode, {})
<1>1. /\ pc = "root" /\ call.op = "sqrt" /\ Regular(A) /\ A.s = 0 /\ call \in Calls
      /\ rem \in Nat /\ q \in Nat
      /\ q < Pow2[FracBits + 3 - 0] /\ rem <= 2 * q
      /\ q * q + rem = Radicand \div Pow2[2 * (0 + 1)]
  BY DEF IInv, RootDigit, Rooting, Counting, DigitsKept, RootKept
<1>2. A \in Values
  BY <1>1, LoopOperands
<1>3. ToPack(0, OrSticky(RootNext, RootLeft # 0),
             (Exponent(A) - OddExponent) \div 2 - FracBits - 3, call.mode, {})
  BY DEF RootDigit, RootNext, RootLeft, RootRest
<1>. DEFINE n == FracBits + 3
            p == (Radicand \div Pow2[0]) % 4
            c == Radicand \div Pow2[0 + 2]
            e == 4 * rem + p
            t == 4 * q + 1
<1>4. /\ n \in Nat /\ n <= FracBits + 3 /\ 0 \in Nat /\ 0 + 2 <= MaxShift
      /\ 2 * (0 + 1) = 0 + 2 /\ FracBits + 3 - 0 = n
  BY <1>1, Widths, BigWidths
<1>5. /\ p \in 0..3 /\ c \in Nat /\ Radicand \div Pow2[0] = 4 * c + p /\ Radicand \in Nat
  <2>1. Radicand \in Nat
    BY <1>2, <1>1, RadicandBound
  <2>. QED BY <1>4, <2>1, TwoBits
<1>6. c = q * q + rem
  BY <1>1, <1>4
<1>7. Shl(rem, 2) = 4 * rem /\ Shl(q, 2) = 4 * q /\ Shl(q, 1) = 2 * q
  <2>1. /\ n + 1 \in Nat /\ (n + 1) + 2 <= BigBits /\ n + 2 <= BigBits /\ n + 1 <= BigBits
        /\ 2 < BigBits /\ 1 < BigBits /\ n + 1 <= MaxShift /\ n \in 0..MaxShift
    BY <1>4, Widths, BigWidths
  <2>2. Pow2[n + 1] = 2 * Pow2[n] /\ Pow2[n] \in Nat
    BY <1>4, <2>1, Pow2Step
  <2>3. rem < Pow2[n + 1] /\ q < Pow2[n]
    BY <1>1, <1>4, <2>2
  <2>. HIDE DEF n
  <2>4. Shl(rem, 2) = rem * Pow2[2]
    BY <1>1, <2>1, <2>3, ShlFits
  <2>5. Shl(q, 2) = q * Pow2[2] /\ Shl(q, 1) = q * Pow2[1]
    BY <1>1, <1>4, <2>1, <2>3, ShlFits
  <2>. QED BY <1>1, <2>2, <2>4, <2>5, SmallPowers
<1>8. /\ RootLeft = (IF e >= t THEN e - t ELSE e)
      /\ RootNext = 2 * q + (IF e >= t THEN 1 ELSE 0)
  <2>1. Trial = t
    BY <1>7 DEF Trial
  <2>2. RootRest = e
    <3>1. 2 * pos = 0
      OBVIOUS
    <3>. QED BY <1>7, <3>1 DEF RootRest
  <2>. HIDE DEF t, e
  <2>. QED BY <1>7, <2>1, <2>2 DEF RootLeft, RootNext
<1>. DEFINE f == RootLeft
            g == RootNext
<1>9. \/ e >= t /\ f = e - t /\ g = 2 * q + 1
      \/ e < t /\ f = e /\ g = 2 * q
  <2>1. e \in Nat /\ t \in Nat
    BY <1>1, <1>5
  <2>. HIDE DEF e, t
  <2>. QED BY <1>1, <1>8, <2>1
<1>. HIDE DEF n, p, c, f, g
<1>10. /\ f \in Nat /\ g \in Nat /\ f <= 2 * g
       /\ 4 * c + p = g * g + f
  BY <1>1, <1>5, <1>6, <1>9, DigitKept
<1>11. Radicand = g * g + f
  <2>1. Radicand \div 1 = Radicand
    BY <1>5
  <2>. QED BY <1>5, <1>10, <2>1, SmallPowers
<1>12. RootDigitsOf(RootNext, RootLeft)
  BY <1>10, <1>11 DEF RootDigitsOf, f, g
<1>. QED BY <1>1, <1>2, <1>3, <1>12

LEMMA RootPacks ==
  ASSUME A \in Values, Regular(A), NEW d, NEW r, RootDigitsOf(d, r), NEW md \in Modes,
         NEW scale, scale = HalfExponent - FracBits - 3
  PROVE  Packs(0, WithRest(d, r), scale, md, RootWeight, RootOver(d, r), Under(RootWeight))
<1>. DEFINE x == WithRest(d, r)
            k == RootWeight
            ok == Over(RootWeight)
            uk == Under(RootWeight)
<1>1. x \in Nat /\ Pow2[FracBits + 3] <= x /\ x < Pow2[FracBits + 4] /\ Highest(x) = FracBits + 3
  BY RootDigitsBound
<1>2. HalfExponent \in Int /\ HalfExponent < Bias /\ k \in Int /\ InTable(k)
  BY RootExponent
<1>3. /\ FracBits \in Nat /\ BigBits \in Nat /\ BigBits < MaxShift /\ BigBits >= 2 * FracBits + 8
      /\ MaxShift \in Nat /\ Bias \in Nat /\ FracBits + 4 \in 0..MaxShift /\ BigBits \in 0..MaxShift
      /\ FracBits + 3 \in 0..MaxShift /\ FracBits + 4 \in Nat /\ FracBits + 4 <= BigBits
      /\ BigBits <= MaxShift
  BY Widths, BigWidths, Fields
<1>4. x >= 1 /\ x < Pow2[BigBits]
  <2>1. Pow2[FracBits + 4] <= Pow2[BigBits] /\ Pow2[BigBits] \in Nat /\ Pow2[FracBits + 4] \in Nat
        /\ Pow2[FracBits + 3] \in Nat /\ Pow2[FracBits + 3] >= 1
    BY <1>3, Pow2Monotone, Pow2Positive
  <2>. HIDE DEF x
  <2>. QED BY <1>1, <2>1
<1>5. scale \in Int /\ k = scale + Bias + FracBits - 1
  BY <1>2, <1>3 DEF RootWeight
<1>6. InTable(k + Highest(x) - FracBits - 3) /\ InTable(k + Highest(x) - FracBits)
  <2>1. k + Highest(x) - FracBits - 3 = k /\ k + Highest(x) - FracBits = k + 3
    BY <1>1, <1>2, <1>3
  <2>2. InTable(k + 3)
    <3>1. 2 * Bias <= MaxShift
      BY <1>3, TableAssumption DEF TableAssumption
    <3>2. k = HalfExponent + Bias - 4
      BY DEF RootWeight
    <3>3. k <= MaxShift /\ -k <= MaxShift
      BY <1>2 DEF InTable
    <3>. HIDE DEF k
    <3>. QED BY <1>2, <1>3, <3>1, <3>2, <3>3 DEF InTable
  <2>. HIDE DEF k, x
  <2>. QED BY <1>2, <2>1, <2>2
<1>7. Weighs(x, k, x * ok, uk)
  <2>1. ok \in Nat /\ uk \in Nat /\ uk >= 1
    BY RootGrid
  <2>. HIDE DEF x, ok, uk, k
  <2>2. x * ok \in Nat /\ x * (uk * ok) = (x * ok) * uk
    BY <1>1, <2>1
  <2>. QED BY <1>1, <1>2, <2>1, <2>2 DEF Weighs, ok, uk, k
<1>8. RootOver(d, r) = x * ok
  BY DEF RootOver
<1>9. HoldsValue(x, k, RootOver(d, r), uk)
  <2>. HIDE DEF x, ok, uk, k
  <2>. QED BY <1>7, <1>8 DEF HoldsValue
<1>10. 0 \in {0, 1}
  OBVIOUS
<1>. HIDE DEF x, uk, k
<1>11. Packs(0, x, scale, md, k, RootOver(d, r), uk)
  BY <1>1, <1>4, <1>5, <1>6, <1>9, <1>10 DEF Packs
<1>. QED BY <1>11 DEF x, uk, k

LEMMA RootAnswer ==
  ASSUME RInv, IInv', RootDigit, pos = 0
  PROVE  RInv'
<1>. DEFINE d == RootNext
            r == RootLeft
            scale == (Exponent(A) - OddExponent) \div 2 - FracBits - 3
            mag == OrSticky(d, r # 0)
            md == call.mode
<1>1. /\ RootDigitsOf(d, r)
      /\ call.op = "sqrt" /\ Regular(A) /\ A.s = 0 /\ call \in Calls /\ A \in Values
      /\ ToPack(0, mag, scale, md, {})
      /\ fe = {}
  <2>1. IInv /\ fe = {}
    BY DEF RInv, RootDigit
  <2>. QED BY <2>1, RootDigitTaken
<1>2. Answered = Ref!Sqrt(A, md) /\ call.op \in Computed /\ ~ FarCall
  BY <1>1, Zenon DEF Answered, Computed, Arithmetic, FarCall
<1>3. md \in Modes
  BY <1>1, <1>2, ComputedOperands
<1>4. mag = WithRest(d, r) /\ scale = HalfExponent - FracBits - 3
  BY DEF WithRest, HalfExponent
<1>. HIDE DEF d, r, mag, scale, md
<1>5. Packs(0, mag, scale, md, RootWeight, RootOver(d, r), Under(RootWeight))
  BY <1>1, <1>3, <1>4, RootPacks
<1>6. PackScaled(0, mag, scale, md) = Late(Ref!Round(0, RootOver(d, r), Under(RootWeight), md))
  BY <1>5, PackScaledRounds
<1>7. Late(Ref!Round(0, RootOver(d, r), Under(RootWeight), md)) = Late(Ref!Sqrt(A, md))
  BY <1>1, <1>3, RootOfDigits
<1>8. Waits([sign |-> 0, mag |-> mag, scale |-> scale, mode |-> md], {})
  <2>. DEFINE w == [sign |-> 0, mag |-> mag, scale |-> scale, mode |-> md]
  <2>1. w.sign = 0 /\ w.mag = mag /\ w.scale = scale /\ w.mode = md
    OBVIOUS
  <2>. HIDE DEF w
  <2>2. Waits(w, {})
    BY <1>2, <1>6, <1>7, <2>1 DEF Waits
  <2>. QED BY <2>2 DEF w
<1>. QED BY <1>1, <1>8, PackWaits
---------------------------------------------------------------------------
(* Remainders.                                                             *)

(* What remainder is by definition.                                        *)
LEMMA RemainderByDefinition ==
  ASSUME call \in Calls, call.op = "remainder", Regular(A), Regular(B),
         NEW m, m = Ref!Mag(A), NEW n, n = Ref!Mag(B)
  PROVE  /\ A \in Values /\ B \in Values /\ A.s \in {0, 1} /\ call.op \in Computed /\ ~ FarCall
         /\ m \in Nat /\ m >= 1 /\ n \in Nat /\ n >= 1
         /\ BeyondHalf(m % n, n, m \div n) =>
              Answered = Ref!Round(1 - A.s, n - (m % n), 1, "RNE")
         /\ ~ BeyondHalf(m % n, n, m \div n) =>
              Answered = IF m % n = 0 THEN [res |-> SignedZero(A.s), fe |-> {}]
                         ELSE Ref!Round(A.s, m % n, 1, "RNE")
<1>1. Answered = Ref!Remainder(A, B) /\ call.op \in Computed /\ ~ FarCall
  BY Zenon DEF Answered, Computed, Arithmetic, FarCall
<1>2. /\ A \in Values /\ B \in Values /\ A.s \in {0, 1}
  BY <1>1, ComputedOperands
<1>3. /\ ~ IsZero(A) /\ ~ IsNaN(A) /\ ~ IsInf(A) /\ ~ IsZero(B) /\ ~ IsNaN(B) /\ ~ IsInf(B)
  BY <1>2, RegularFields
<1>4. m \in Nat /\ m >= 1 /\ n \in Nat /\ n >= 1
  BY <1>2, ValueWeighs
<1>. DEFINE c == m \div n
            r == m % n
            near == Ref!NearestInteger(0, m, n, "RNE")
            left == m - near * n
<1>5. c \in Nat /\ r \in Nat /\ r < n /\ m = c * n + r
  BY <1>4, Split
<1>6. near = IF BeyondHalf(r, n, c) THEN c + 1 ELSE c
  <2>. QED BY Zenon DEF Ref!NearestInteger, BeyondHalf
<1>7. Answered = IF left = 0 THEN Ref!Result(Ref!SignedZero(A.s), {})
                 ELSE IF left > 0 THEN Ref!Round(A.s, left, 1, "RNE")
                 ELSE Ref!Round(1 - A.s, -left, 1, "RNE")
  <2>. HIDE DEF near
  <2>. QED BY <1>1, <1>3, ReferenceClasses, Zenon DEF Ref!Remainder, near
<1>8. Ref!Result(Ref!SignedZero(A.s), {}) = [res |-> SignedZero(A.s), fe |-> {}]
  BY SameFormat DEF Ref!Result
<1>9. CASE BeyondHalf(r, n, c)
  <2>1. left = r - n
    <3>1. near = c + 1
      BY <1>6, <1>9
    <3>. HIDE DEF near, c, r
    <3>. DEFINE p == c * n
    <3>2. p \in Nat /\ (c + 1) * n = p + n
      BY <1>4, <1>5
    <3>. HIDE DEF p
    <3>3. m = p + r /\ near * n = p + n
      BY <1>5, <3>1, <3>2 DEF p
    <3>. QED BY <1>4, <1>5, <3>2, <3>3
  <2>. HIDE DEF left, r, c
  <2>2. left < 0 /\ -left = n - r /\ left \in Int
    BY <1>4, <1>5, <2>1
  <2>3. left # 0 /\ ~ (left > 0)
    BY <2>2
  <2>4. Answered = Ref!Round(1 - A.s, n - r, 1, "RNE")
    BY <1>7, <2>2, <2>3
  <2>. QED BY <1>1, <1>2, <1>4, <1>9, <2>4 DEF r, c
<1>10. CASE ~ BeyondHalf(r, n, c)
  <2>1. left = r
    <3>1. near = c
      BY <1>6, <1>10
    <3>. HIDE DEF near, c, r
    <3>. DEFINE p == c * n
    <3>2. p \in Nat
      BY <1>4, <1>5
    <3>. HIDE DEF p
    <3>3. m = p + r /\ near * n = p
      BY <1>5, <3>1, <3>2 DEF p
    <3>. QED BY <1>4, <1>5, <3>2, <3>3
  <2>. HIDE DEF left, r, c
  <2>2. left # 0 => left > 0
    BY <1>5, <2>1
  <2>3. Answered = IF r = 0 THEN [res |-> SignedZero(A.s), fe |-> {}]
                   ELSE Ref!Round(A.s, r, 1, "RNE")
    BY <1>7, <1>8, <2>1, <2>2
  <2>. QED BY <1>1, <1>2, <1>4, <1>10, <2>3 DEF r, c
<1>. QED BY <1>9, <1>10

(* A number of at most FracBits + 2 bits in the frame of a value.          *)
LEMMA ShortPacks ==
  ASSUME NEW s \in {0, 1}, NEW mag \in Nat, mag >= 1, mag < Pow2[FracBits + 2], NEW scale \in Int,
         NEW k, k = scale + Bias + FracBits - 1, -FracBits <= k, k <= 2 * Bias,
         NEW num, Weighs(mag, k, num, 1)
  PROVE  Packs(s, mag, scale, "RNE", k, num, 1)
<1>1. /\ FracBits \in Nat /\ BigBits \in Nat /\ BigBits >= 2 * FracBits + 8 /\ BigBits <= MaxShift
      /\ MaxShift \in Nat /\ Bias \in Nat /\ Bias >= 1 /\ FracBits + 2 \in 0..MaxShift
      /\ FracBits + 2 \in Nat /\ FracBits + 2 <= BigBits /\ BigBits \in 0..MaxShift
  BY Widths, BigWidths, Fields
<1>2. mag < Pow2[BigBits]
  <2>1. Pow2[FracBits + 2] <= Pow2[BigBits] /\ Pow2[BigBits] \in Nat /\ Pow2[FracBits + 2] \in Nat
    BY <1>1, Pow2Monotone, Pow2Positive
  <2>. QED BY <2>1
<1>. DEFINE h == Highest(mag)
<1>3. h \in Nat /\ h < FracBits + 2
  <2>1. h \in 0..(BigBits - 1)
        /\ (FracBits + 2 \in Nat /\ mag < Pow2[FracBits + 2] /\ FracBits + 2 <= BigBits
              => h < FracBits + 2)
    BY <1>2, HighestIs
  <2>. QED BY <1>1, <2>1
<1>. HIDE DEF h
<1>4. Limits(k + h - FracBits - 3) /\ Limits(k + h - FracBits)
  BY <1>1, <1>3 DEF Limits
<1>5. InTable(k + h - FracBits - 3) /\ InTable(k + h - FracBits)
  BY <1>4, WithinLimits
<1>6. HoldsValue(mag, k, num, 1)
  BY DEF HoldsValue
<1>7. "RNE" \in Modes
  BY DEF Modes
<1>. QED BY <1>2, <1>5, <1>6, <1>7 DEF Packs, h

(* What is left of one number by another, in the frame of both, or its     *)
(* complement, is packed.                                                  *)
LEMMA RemainderWaits ==
  ASSUME IInv', fe = {}, call \in Calls, call.op = "remainder", Regular(A), Regular(B),
         NEW x, NEW y, NEW k, Weighs(x, k, Ref!Mag(A), 1), Weighs(y, k, Ref!Mag(B), 1),
         y >= 1, y < Pow2[FracBits + 2],
         NEW scale \in Int, k = scale + Bias + FracBits - 1, -FracBits <= k, k <= 2 * Bias,
         NEW r, r = x % y, NEW c, c = x \div y,
         \/ BeyondHalf(r, y, c) /\ ToPack(1 - A.s, y - r, scale, "RNE", {})
         \/ ~ BeyondHalf(r, y, c) /\ ToPack(A.s, r, scale, "RNE", {})
  PROVE  RInv'
<1>. DEFINE M == Ref!Mag(A)
            N == Ref!Mag(B)
            m == M % N
<1>1. /\ A.s \in {0, 1} /\ ~ FarCall
      /\ BeyondHalf(m, N, M \div N) => Answered = Ref!Round(1 - A.s, N - m, 1, "RNE")
      /\ ~ BeyondHalf(m, N, M \div N) =>
           Answered = IF m = 0 THEN [res |-> SignedZero(A.s), fe |-> {}]
                      ELSE Ref!Round(A.s, m, 1, "RNE")
  BY RemainderByDefinition
<1>2. /\ N >= 1 /\ c = M \div N /\ c \in Nat
      /\ Weighs(r, k, m, 1) /\ r < y /\ m < N
  <2>1. OneFrame(x, y, k, M, N)
    BY DEF OneFrame
  <2>. HIDE DEF M, N
  <2>2. /\ N >= 1 /\ x \div y = M \div N /\ x \div y \in Nat
        /\ Weighs(x % y, k, M % N, 1) /\ x % y < y /\ M % N < N
    BY <2>1, SameQuotient
  <2>. QED BY <2>2
<1>. HIDE DEF M, N, m
<1>3. Weighs(y, k, N, 1)
  BY DEF N
<1>4. r \in Nat /\ y \in Nat /\ m \in Nat /\ N \in Nat
  BY <1>2, <1>3 DEF Weighs
<1>5. BeyondHalf(r, y, c) <=> BeyondHalf(m, N, M \div N)
  BY <1>2, <1>3, SameHalf
<1>6. Pow2[FracBits + 2] \in Nat
  <2>1. FracBits + 2 \in 0..MaxShift
    BY Widths
  <2>. QED BY <2>1, Pow2Positive
<1>7. CASE BeyondHalf(r, y, c)
  <2>1. ToPack(1 - A.s, y - r, scale, "RNE", {})
    BY <1>7
  <2>2. Answered = Ref!Round(1 - A.s, N - m, 1, "RNE")
    BY <1>1, <1>5, <1>7
  <2>3. Weighs(y - r, k, N - m, 1)
    BY <1>2, <1>3, <1>4, WeighsSum
  <2>. DEFINE mag == y - r
              num == N - m
              s == 1 - A.s
  <2>4. mag \in Nat /\ mag >= 1 /\ mag < Pow2[FracBits + 2] /\ s \in {0, 1}
    BY <1>1, <1>2, <1>4, <1>6
  <2>. HIDE DEF mag, num, s
  <2>5. Weighs(mag, k, num, 1) /\ Answered = Ref!Round(s, num, 1, "RNE")
        /\ ToPack(s, mag, scale, "RNE", {})
    BY <2>1, <2>2, <2>3 DEF mag, num, s
  <2>6. Packs(s, mag, scale, "RNE", k, num, 1)
    BY <2>4, <2>5, ShortPacks
  <2>7. Waits([sign |-> s, mag |-> mag, scale |-> scale, mode |-> "RNE"], {})
    BY <1>1, <2>5, <2>6, WaitsFor
  <2>. QED BY <2>5, <2>7, PackWaits
<1>8. CASE ~ BeyondHalf(r, y, c)
  <2>1. ToPack(A.s, r, scale, "RNE", {})
    BY <1>8
  <2>2. Answered = IF m = 0 THEN [res |-> SignedZero(A.s), fe |-> {}]
                   ELSE Ref!Round(A.s, m, 1, "RNE")
    BY <1>1, <1>5, <1>8
  <2>3. r = 0 <=> m = 0
    <3>1. Weighs(0, k, 0, 1)
      <4>1. InTable(k) /\ k \in Int
        BY <1>2 DEF Weighs, InTable
      <4>2. Over(k) \in Nat /\ Under(k) \in Nat
        BY <4>1, OverUnder
      <4>. QED BY <4>1, <4>2 DEF Weighs
    <3>. QED BY <1>2, <3>1, WeighsOrder
  <2>. DEFINE s == A.s
              mag == r
  <2>4. s \in {0, 1}
    BY <1>1
  <2>. HIDE DEF s, mag
  <2>5. mag \in Nat /\ mag < Pow2[FracBits + 2] /\ Weighs(mag, k, m, 1) /\ (mag = 0 <=> m = 0)
    BY <1>2, <1>4, <1>6, <2>3 DEF mag
  <2>6. ToPack(s, mag, scale, "RNE", {})
    BY <2>1 DEF s, mag
  <2>7. CASE mag # 0
    <3>1. Answered = Ref!Round(s, m, 1, "RNE")
      BY <2>2, <2>5, <2>7 DEF s
    <3>2. mag >= 1
      BY <2>5, <2>7
    <3>3. Packs(s, mag, scale, "RNE", k, m, 1)
      BY <2>4, <2>5, <3>2, ShortPacks
    <3>4. Waits([sign |-> s, mag |-> mag, scale |-> scale, mode |-> "RNE"], {})
      BY <1>1, <3>1, <3>3, WaitsFor
    <3>. QED BY <2>6, <3>4, PackWaits
  <2>8. CASE mag = 0
    <3>1. Answered = [res |-> SignedZero(s), fe |-> {}]
      BY <2>2, <2>5, <2>8 DEF s
    <3>2. Late(Answered) = [res |-> SignedZero(s), fe |-> {}]
      BY <3>1 DEF Late
    <3>. DEFINE w == [sign |-> s, mag |-> mag, scale |-> scale, mode |-> "RNE"]
    <3>3. w.sign = s /\ w.mag = mag /\ w.scale = scale /\ w.mode = "RNE"
      OBVIOUS
    <3>. HIDE DEF w
    <3>4. PackScaled(w.sign, w.mag, w.scale, w.mode) = Late(Answered)
      BY <2>8, <3>2, <3>3, Zenon DEF PackScaled
    <3>5. Waits(w, {})
      BY <1>1, <3>4 DEF Waits
    <3>. QED BY <2>6, <3>5, PackWaits DEF w
  <2>. QED BY <2>7, <2>8
<1>. QED BY <1>7, <1>8

(* Values of one frame: the fields of two regular operands.                *)
LEMMA RemainderOperands ==
  ASSUME call \in Calls, call.op = "remainder", Regular(A), Regular(B)
  PROVE  /\ A \in Values /\ B \in Values
         /\ Sig(A) \in Nat /\ Sig(B) \in Nat /\ Sig(B) >= 1
         /\ Sig(A) < 2 * Sig(B) /\ Sig(A) < Pow2[FracBits + 2] /\ 2 * Sig(B) < Pow2[FracBits + 2]
         /\ Sig(B) < Pow2[FracBits + 2]
         /\ Shl(Sig(A), 1) = 2 * Sig(A) /\ Shl(Sig(B), 1) = 2 * Sig(B)
         /\ Exponent(A) \in (1 - Bias - FracBits)..Bias
         /\ Exponent(B) \in (1 - Bias - FracBits)..Bias
         /\ Weighs(Sig(A), Exponent(A) + Bias - 1, Ref!Mag(A), 1)
         /\ Weighs(Sig(B), Exponent(B) + Bias - 1, Ref!Mag(B), 1)
<1>1. A \in Values /\ B \in Values
  BY LoopOperands
<1>2. /\ Sig(A) \in Nat /\ Sig(B) \in Nat
      /\ Pow2[FracBits] <= Sig(A) /\ Sig(A) < Pow2[FracBits + 1]
      /\ Pow2[FracBits] <= Sig(B) /\ Sig(B) < Pow2[FracBits + 1]
      /\ Exponent(A) \in (1 - Bias - FracBits)..Bias
      /\ Exponent(B) \in (1 - Bias - FracBits)..Bias
      /\ Weighs(Sig(A), Exponent(A) + Bias - 1, Ref!Mag(A), 1)
      /\ Weighs(Sig(B), Exponent(B) + Bias - 1, Ref!Mag(B), 1)
  BY <1>1, ValueWeighs
<1>3. /\ FracBits + 1 \in Nat /\ (FracBits + 1) + 1 <= BigBits /\ 1 < BigBits
      /\ FracBits \in Nat /\ FracBits + 1 <= MaxShift /\ (FracBits + 1) + 1 <= MaxShift
      /\ FracBits \in 0..MaxShift /\ (FracBits + 1) + 1 = FracBits + 2
  BY Widths, BigWidths
<1>4. /\ Pow2[FracBits + 1] = 2 * Pow2[FracBits] /\ Pow2[FracBits + 2] = 2 * Pow2[FracBits + 1]
      /\ Pow2[FracBits] \in Nat /\ Pow2[FracBits] >= 1
  <2>1. Pow2[(FracBits + 1) + 1] = 2 * Pow2[FracBits + 1]
    BY <1>3, Pow2Step
  <2>. QED BY <1>3, <2>1, Pow2Step, Pow2Positive
<1>5. Shl(Sig(A), 1) = 2 * Sig(A) /\ Shl(Sig(B), 1) = 2 * Sig(B)
  <2>1. Shl(Sig(A), 1) = Sig(A) * Pow2[1] /\ Shl(Sig(B), 1) = Sig(B) * Pow2[1]
    BY <1>2, <1>3, ShlFits
  <2>. QED BY <1>2, <2>1, SmallPowers
<1>. QED BY <1>1, <1>2, <1>4, <1>5

(* A dividend below half the divisor.                                      *)
LEMMA AlreadyRemainderAnswer ==
  ASSUME RInv, IInv', AlreadyRemainder
  PROVE  RInv'
<1>1. /\ pc = "enter" /\ call.op = "remainder" /\ Regular(A) /\ Regular(B)
      /\ Distance < -1 /\ Done(A, {}) /\ call \in Calls /\ fe = {}
  BY EnterFacts DEF AlreadyRemainder, RegularRemainder, Numbers, Is
<1>. DEFINE a == Sig(A)
            b == Sig(B)
            i == Exponent(A) + Bias - 1
            j == Exponent(B) + Bias - 1
            n == -Distance
            M == Ref!Mag(A)
            N == Ref!Mag(B)
            y == b * Pow2[n]
<1>2. /\ a \in Nat /\ b \in Nat /\ b >= 1 /\ a < 2 * b
      /\ Weighs(a, i, M, 1) /\ Weighs(b, j, N, 1)
      /\ Exponent(A) \in (1 - Bias - FracBits)..Bias /\ Exponent(B) \in (1 - Bias - FracBits)..Bias
      /\ A \in Values /\ B \in Values
  BY <1>1, RemainderOperands
<1>3. n \in Nat /\ n >= 2 /\ j = i + n /\ n <= MaxShift /\ InTable(n) /\ InTable(i)
  <2>. DEFINE ea == Exponent(A)
              eb == Exponent(B)
  <2>1. /\ ea \in Int /\ eb \in Int /\ -ea <= Bias + FracBits - 1 /\ eb <= Bias
        /\ Bias \in Nat /\ FracBits \in Nat
    BY <1>2, Fields, Widths
  <2>2. 2 * Bias + FracBits < MaxShift /\ MaxShift \in Nat
    BY Fields, Widths
  <2>3. Distance = ea - eb
    BY DEF Distance
  <2>4. ea - eb < -1
    BY <1>1, <2>3
  <2>5. n = -(ea - eb)
    BY <2>3
  <2>. HIDE DEF n, ea, eb
  <2>6. n \in Nat /\ n >= 2 /\ n <= MaxShift /\ eb = ea + n
    BY <2>1, <2>2, <2>4, <2>5
  <2>7. j = i + n
    BY <2>1, <2>6, Fields DEF ea, eb
  <2>8. InTable(n)
    BY <2>2, <2>6 DEF InTable
  <2>. HIDE DEF a, i, M
  <2>9. InTable(i)
    BY <1>2 DEF Weighs
  <2>. QED BY <2>6, <2>7, <2>8, <2>9
<1>4. Weighs(y, i, N, 1) /\ Pow2[n] \in Nat /\ Pow2[n] >= 4
  <2>. HIDE DEF n, i, j, b, N
  <2>1. Weighs(b * Pow2[n], i, N, 1)
    BY <1>2, <1>3, FinerFrame
  <2>2. 2 \in Nat /\ 2 <= n /\ n <= MaxShift /\ n \in 0..MaxShift
    BY <1>3, Widths
  <2>3. Pow2[2] <= Pow2[n] /\ Pow2[n] \in Nat
    BY <1>3, <2>2, Pow2Monotone, Pow2Positive
  <2>. QED BY <2>1, <2>3, SmallPowers
<1>5. y \in Nat /\ y >= 1 /\ 2 * a < y /\ a < y
  <2>. DEFINE p == Pow2[n]
  <2>1. p \in Nat /\ p >= 4
    BY <1>4
  <2>. HIDE DEF p, a, b
  <2>2. b * 4 <= b * p /\ b * p \in Nat
    BY <1>2, <2>1
  <2>. DEFINE w == b * p
  <2>3. w \in Nat /\ 4 * b <= w
    BY <1>2, <2>2
  <2>. HIDE DEF w
  <2>4. w >= 1 /\ 2 * a < w /\ a < w
    BY <1>2, <2>3
  <2>. QED BY <2>3, <2>4 DEF w, p
<1>6. OneFrame(a, y, i, M, N)
  BY <1>2, <1>4, <1>5 DEF OneFrame
<1>. HIDE DEF a, y, i, M, N, n, b, j
<1>7. a % y = a /\ a \div y = 0
  BY <1>2, <1>5
<1>8. Weighs(a, i, M % N, 1) /\ M \div N = 0 /\ N >= 1
  BY <1>6, <1>7, SameQuotient
<1>9. M % N = M
  <2>1. M \in Nat /\ N \in Nat
    BY <1>2, <1>4 DEF Weighs
  <2>2. M \div N \in Nat /\ M % N \in Nat /\ M = (M \div N) * N + (M % N)
    BY <1>8, <2>1, Split
  <2>3. (M \div N) * N = 0
    BY <1>8, <2>1
  <2>. QED BY <2>1, <2>2, <2>3
<1>10. ~ BeyondHalf(M % N, N, M \div N)
  <2>1. ~ BeyondHalf(a, y, M \div N)
    BY <1>2, <1>5 DEF BeyondHalf
  <2>. QED BY <1>4, <1>8, <2>1, SameHalf
<1>11. /\ call.op \in Computed /\ ~ FarCall /\ M \in Nat /\ M >= 1
       /\ Answered = IF M % N = 0 THEN [res |-> SignedZero(A.s), fe |-> {}]
                     ELSE Ref!Round(A.s, M % N, 1, "RNE")
  BY <1>1, <1>10, RemainderByDefinition DEF M, N
<1>12. Answered = Ref!Round(A.s, M, 1, "RNE")
  BY <1>9, <1>11
<1>13. Ref!Round(A.s, M, 1, "RNE") = [res |-> A, fe |-> {}]
  <2>1. A.e < ExpMax /\ "RNE" \in Modes
    BY <1>1, <1>2, RegularFields DEF Modes
  <2>. QED BY <1>2, <2>1, ExactValue DEF M
<1>14. Answers(A, {})
  <2>1. "inexact" \notin {} /\ "underflow" \notin {}
    OBVIOUS
  <2>. QED BY <1>11, <1>12, <1>13, <2>1, SpecialAnswers
<1>. QED BY <1>1, <1>14, DoneAnswers

(* A dividend one binade below the divisor is at least a quarter of it.    *)
LEMMA BelowDivisorAnswer ==
  ASSUME RInv, IInv', BelowDivisor
  PROVE  RInv'
<1>. DEFINE a == Sig(A)
            b == Sig(B)
            i == Exponent(A) + Bias - 1
            j == Exponent(B) + Bias - 1
            scale == Exponent(A) - FracBits
            y == 2 * b
<1>1. /\ pc = "enter" /\ call.op = "remainder" /\ Regular(A) /\ Regular(B)
      /\ Distance = -1 /\ call \in Calls /\ fe = {}
      /\ IF a > b THEN ToPack(1 - A.s, Shl(b, 1) - a, scale, "RNE", {})
         ELSE ToPack(A.s, a, scale, "RNE", {})
  BY EnterFacts DEF BelowDivisor, RegularRemainder, Numbers, Is
<1>2. /\ a \in Nat /\ b \in Nat /\ b >= 1 /\ a < 2 * b /\ y < Pow2[FracBits + 2]
      /\ Weighs(a, i, Ref!Mag(A), 1) /\ Weighs(b, j, Ref!Mag(B), 1) /\ Shl(b, 1) = 2 * b
      /\ Exponent(A) \in (1 - Bias - FracBits)..Bias /\ Exponent(B) \in (1 - Bias - FracBits)..Bias
  BY <1>1, RemainderOperands
<1>3. /\ j = i + 1 /\ scale \in Int /\ i = scale + Bias + FracBits - 1
      /\ -FracBits <= i /\ i <= 2 * Bias /\ 1 \in Nat /\ InTable(1) /\ InTable(i)
  <2>1. Exponent(A) - Exponent(B) = -1
    BY <1>1 DEF Distance
  <2>2. 1 <= MaxShift
    BY Widths
  <2>3. InTable(1)
    BY <2>2, Widths DEF InTable
  <2>4. InTable(i)
    <3>. HIDE DEF a, i
    <3>. QED BY <1>2 DEF Weighs
  <2>. QED BY <1>2, <2>1, <2>3, <2>4, Fields, Widths
<1>4. Weighs(y, i, Ref!Mag(B), 1)
  <2>. HIDE DEF i, j, b
  <2>1. Weighs(b * Pow2[1], i, Ref!Mag(B), 1)
    BY <1>2, <1>3, FinerFrame
  <2>2. b * Pow2[1] = 2 * b
    BY <1>2, SmallPowers
  <2>. QED BY <2>1, <2>2
<1>. HIDE DEF a, b, i, j, scale
<1>5. y \in Nat /\ y >= 1 /\ a % y = a /\ a \div y = 0
  BY <1>2
<1>6. \/ BeyondHalf(a % y, y, a \div y) /\ ToPack(1 - A.s, y - (a % y), scale, "RNE", {})
      \/ ~ BeyondHalf(a % y, y, a \div y) /\ ToPack(A.s, a % y, scale, "RNE", {})
  <2>1. BeyondHalf(a, y, 0) <=> a > b
    BY <1>2 DEF BeyondHalf
  <2>2. CASE a > b
    <3>1. ToPack(1 - A.s, y - a, scale, "RNE", {})
      BY <1>1, <1>2, <2>2
    <3>. QED BY <1>5, <2>1, <2>2, <3>1
  <2>3. CASE ~ (a > b)
    <3>1. ToPack(A.s, a, scale, "RNE", {})
      BY <1>1, <2>3
    <3>. QED BY <1>5, <2>1, <2>3, <3>1
  <2>. QED BY <2>2, <2>3
<1>. HIDE DEF y
<1>7. PICK r, c : r = a % y /\ c = a \div y
  OBVIOUS
<1>8. \/ BeyondHalf(r, y, c) /\ ToPack(1 - A.s, y - r, scale, "RNE", {})
      \/ ~ BeyondHalf(r, y, c) /\ ToPack(A.s, r, scale, "RNE", {})
  BY <1>6, <1>7
<1>. QED BY <1>1, <1>2, <1>3, <1>4, <1>5, <1>7, <1>8, RemainderWaits

(* The last residue.                                                       *)
LEMMA ReductionAnswer ==
  ASSUME RInv, IInv', ReduceDigit, pos = 0
  PROVE  RInv'
<1>. DEFINE b == Sig(B)
            i == Exponent(A) + Bias - 1
            j == Exponent(B) + Bias - 1
            D == Distance
            x == Sig(A) * Pow2[D]
            scale == Exponent(B) - FracBits
            w == Reduced
<1>1. pc = "reduce" /\ IInv /\ fe = {}
  BY DEF RInv, ReduceDigit
<1>2. /\ call.op = "remainder" /\ Regular(A) /\ Regular(B) /\ call \in Calls
      /\ D \in Nat /\ D < MaxShift
      /\ w \in Nat /\ w < b /\ Shl(w, 1) = 2 * w
      /\ x \in Nat /\ x % b = w /\ (x \div b) % 2 = (IF Fits THEN 1 ELSE 0)
  <2>1. Distance \in Nat /\ Distance - 0 = Distance
    BY <1>1, ReducedResidue
  <2>. QED BY <1>1, <2>1, ReducedResidue
<1>3. /\ Sig(A) \in Nat /\ b \in Nat /\ b >= 1 /\ b < Pow2[FracBits + 2]
      /\ Weighs(Sig(A), i, Ref!Mag(A), 1) /\ Weighs(b, j, Ref!Mag(B), 1)
      /\ Exponent(A) \in (1 - Bias - FracBits)..Bias /\ Exponent(B) \in (1 - Bias - FracBits)..Bias
  BY <1>2, RemainderOperands
<1>4. /\ i = j + D /\ scale \in Int /\ j = scale + Bias + FracBits - 1
      /\ -FracBits <= j /\ j <= 2 * Bias /\ InTable(D) /\ InTable(j)
  <2>1. InTable(D) /\ InTable(j)
    BY <1>2, <1>3, Widths DEF InTable, Weighs
  <2>. QED BY <1>3, <2>1, Fields, Widths DEF Distance
<1>5. Weighs(x, j, Ref!Mag(A), 1)
  <2>. HIDE DEF i, j, D
  <2>. QED BY <1>2, <1>3, <1>4, FinerFrame
<1>6. IF MoreThanHalf(w, Fits) THEN ToPack(1 - A.s, b - w, scale, "RNE", {})
      ELSE ToPack(A.s, w, scale, "RNE", {})
  BY DEF ReduceDigit
<1>7. MoreThanHalf(w, Fits) <=> BeyondHalf(w, b, x \div b)
  <2>1. Fits <=> (x \div b) % 2 = 1
    BY <1>2
  <2>. HIDE DEF x, w, b
  <2>2. MoreThanHalf(w, Fits) <=> (2 * w > b \/ (2 * w = b /\ Fits))
    BY <1>2 DEF MoreThanHalf, b
  <2>. QED BY <2>1, <2>2 DEF BeyondHalf
<1>. HIDE DEF b, i, j, D, x, scale, w
<1>8. PICK r, c : r = x % b /\ c = x \div b
  OBVIOUS
<1>9. \/ BeyondHalf(r, b, c) /\ ToPack(1 - A.s, b - r, scale, "RNE", {})
      \/ ~ BeyondHalf(r, b, c) /\ ToPack(A.s, r, scale, "RNE", {})
  BY <1>2, <1>6, <1>7, <1>8
<1>. QED BY <1>1, <1>2, <1>3, <1>4, <1>5, <1>8, <1>9, RemainderWaits

(* A conversion or a comparison answers for itself.                        *)
LEMMA OthersAnswer ==
  ASSUME RInv, IInv',
         \/ AlreadyIntegral \/ RoundToIntegral \/ ToInteger \/ FromInteger
         \/ NarrowSpecial \/ NarrowRegular \/ WidenSpecial \/ WidenRegular \/ Compare
  PROVE  RInv'
<1>1. /\ call.op \notin Computed
      /\ \/ \E v, flags : Done(v, flags)
         \/ \E s, mag, scale, md, flags : ToPack(s, mag, scale, md, flags)
  <2>1. CASE AlreadyIntegral \/ RoundToIntegral
    BY <2>1 DEF AlreadyIntegral, RoundToIntegral, Is, Computed, Arithmetic
  <2>2. CASE ToInteger
    BY <2>2 DEF ToInteger, Is, Computed, Arithmetic
  <2>3. CASE FromInteger
    BY <2>3 DEF FromInteger, Is, Computed, Arithmetic
  <2>4. CASE NarrowSpecial \/ NarrowRegular
    BY <2>4 DEF NarrowSpecial, NarrowRegular, Is, Computed, Arithmetic
  <2>5. CASE WidenSpecial \/ WidenRegular
    BY <2>5 DEF WidenSpecial, WidenRegular, Is, Computed, Arithmetic
  <2>6. CASE Compare
    BY <2>6 DEF Compare, Is, Computed, Arithmetic
  <2>. QED BY <2>1, <2>2, <2>3, <2>4, <2>5, <2>6
<1>2. call' = call /\ pc' \in {"done", "pack"}
  BY <1>1 DEF Done, ToPack
<1>3. \A v, flags : Answers(v, flags)'
  BY <1>1, <1>2 DEF Answers
<1>4. \A w, flags : Waits(w, flags)'
  BY <1>1, <1>2 DEF Waits
<1>5. (pc = "pack" => Waits(z, fe))' /\ (pc = "done" => Answers(res, fe))'
  BY <1>1, <1>2 DEF Waits, Answers
<1>. QED BY <1>2, <1>5 DEF RInv

LEMMA AnswersInit == Init => RInv
  BY TypeInit DEF Init, Fresh, RInv

LEMMA AnswersInductive == RInv /\ [Next]_vars => RInv'
<1>. SUFFICES ASSUME RInv, [Next]_vars PROVE RInv'
  OBVIOUS
<1>1. IInv'
  BY Inductive DEF RInv
<1>2. CASE NaNOperand \/ NaNArgument \/ NaNAmongThree
  BY <1>1, <1>2, NaNOperandAnswer
<1>3. CASE InfiniteSum \/ ZeroSum
  BY <1>1, <1>3, SumSpecials
<1>4. CASE SpecialProduct \/ SpecialQuotient
  BY <1>1, <1>4, ProductSpecials
<1>5. CASE SpecialRoot \/ SpecialRemainder
  BY <1>1, <1>5, RootSpecials
<1>6. CASE SpecialFma
  BY <1>1, <1>6, FusedSpecials
<1>7. CASE NearSum
  BY <1>1, <1>7, NearSumAnswer
<1>8. CASE FarSum
  BY <1>1, <1>8, FarSumAnswer
<1>9. CASE Multiply
  BY <1>1, <1>9, MultiplyAnswer
<1>10. CASE ProductOnly
  BY <1>1, <1>10, ProductOnlyAnswer
<1>11. CASE FusedSum
  BY <1>1, <1>11, FusedSumAnswer
<1>12. CASE StartDivision \/ StartRoot \/ StartReduction
  BY <1>1, <1>12, LoopAnswers
<1>13. CASE DivideDigit
  BY <1>1, <1>13, LoopAnswers, QuotientAnswer
<1>14. CASE RootDigit
  BY <1>1, <1>14, LoopAnswers, RootAnswer
<1>15. CASE ReduceDigit
  BY <1>1, <1>15, LoopAnswers, ReductionAnswer
<1>16. CASE AlreadyRemainder
  BY <1>1, <1>16, AlreadyRemainderAnswer
<1>17. CASE BelowDivisor
  BY <1>1, <1>17, BelowDivisorAnswer
<1>18. CASE \/ AlreadyIntegral \/ RoundToIntegral \/ ToInteger \/ FromInteger
            \/ NarrowSpecial \/ NarrowRegular \/ WidenSpecial \/ WidenRegular \/ Compare
  BY <1>1, <1>18, OthersAnswer
<1>19. CASE PackStep
  BY <1>1, <1>19, PackStepAnswers
<1>20. CASE UNCHANGED vars
  <2>1. call' = call /\ pc' = pc /\ fe' = fe /\ z' = z /\ res' = res
    BY <1>20 DEF vars
  <2>2. (pc = "pack" => Waits(z, fe))'
    BY <2>1, CallAlone DEF RInv, Waits
  <2>3. (pc = "done" => Answers(res, fe))'
    BY <2>1, CallAlone DEF RInv, Answers
  <2>. QED BY <1>1, <2>1, <2>2, <2>3 DEF RInv
<1>. QED BY <1>2, <1>3, <1>4, <1>5, <1>6, <1>7, <1>8, <1>9, <1>10, <1>11, <1>12, <1>13,
            <1>14, <1>15, <1>16, <1>17, <1>18, <1>19, <1>20 DEF Next

LEMMA AnswersKept == Spec => []RInv
  BY AnswersInit, AnswersInductive, PTL DEF Spec

(* What the code answers is the reference; only a signalling third operand *)
(* beside a NaN is overlooked.                                             *)
LEMMA FusedOverlooks ==
  ASSUME call.op = "fma"
  PROVE  /\ FusedAnswered.res = FusedExpected.res
         /\ Late(FusedAnswered).fe = IF Overlooked THEN Signals({A, B}) ELSE Late(FusedExpected).fe
<1>. DEFINE two == IsNaN(A) \/ IsNaN(B)
            some == \E v \in {A, B, call.c} : IsNaN(v)
            old == [res |-> IF two THEN PropagateNaN(A, B) ELSE Quiet(call.c),
                    fe |-> IF two THEN Signals({A, B}) ELSE Signals({call.c})]
            new == [res |-> IF two THEN PropagateNaN(A, B) ELSE Quiet(call.c),
                    fe |-> Signals({A, B, call.c})]
<1>1. CASE ~ some
  <2>1. ~ two /\ ~ IsNaN(call.c)
    BY <1>1
  <2>2. FusedAnswered = FusedExpected /\ ~ Overlooked
    BY <1>1, <2>1, Zenon DEF FusedAnswered, FusedExpected, Overlooked
  <2>. QED BY <2>2
<1>2. CASE some
  <2>1. FusedExpected = new
    BY <1>2, Zenon DEF FusedExpected, Ref!Result
  <2>2. FusedAnswered = old
    <3>1. FusedAnswered = IF two THEN Ref!NaNResult(A, B) ELSE Ref!NaNResult(call.c, call.c)
      BY <1>2 DEF FusedAnswered
    <3>2. ~ two => IsNaN(call.c) /\ PropagateNaN(call.c, call.c) = Quiet(call.c)
      BY <1>2 DEF PropagateNaN
    <3>. QED BY <3>1, <3>2, ReferenceClasses, SignalsAre
  <2>3. ~ Overlooked => old.fe = new.fe
    <3>1. \A v : IsSNaN(v) => IsNaN(v)
      BY DEF IsSNaN
    <3>2. CASE two
      BY <3>1, <3>2 DEF Signals, Overlooked
    <3>3. CASE ~ two
      BY <3>1, <3>3 DEF Signals
    <3>. QED BY <3>2, <3>3
  <2>4. Overlooked => old.fe = Signals({A, B})
    BY DEF Overlooked
  <2>5. /\ "underflow" \notin old.fe /\ "inexact" \notin old.fe
        /\ "underflow" \notin new.fe /\ "inexact" \notin new.fe
    BY DEF Signals
  <2>6. \A r : ("underflow" \notin r.fe /\ "inexact" \notin r.fe) => Late(r).fe = r.fe
    BY DEF Late
  <2>. HIDE DEF old, new
  <2>7. Late(old).fe = old.fe /\ Late(new).fe = new.fe
    BY <2>5, <2>6
  <2>8. old.res = new.res
    BY DEF old, new
  <2>. QED BY <2>1, <2>2, <2>3, <2>4, <2>7, <2>8
<1>. QED BY <1>1, <1>2

LEMMA AnswersAre ==
  ASSUME pc = "done", call.op \in Computed, Answers(res, fe)
  PROVE  CorrectlyRounded /\ ExactFlags
<1>1. FarCall <=> Distant
  BY DEF FarCall, Distant
<1>2. /\ Answered.res = Expected.res
      /\ Late(Answered).fe = IF Overlooked THEN Signals({A, B}) ELSE Late(Expected).fe
  <2>1. CASE call.op = "fma"
    <3>1. Answered = FusedAnswered /\ Expected = FusedExpected
      BY <2>1 DEF Answered, Expected
    <3>. QED BY <2>1, <3>1, FusedOverlooks
  <2>2. CASE call.op # "fma"
    <3>1. Answered = Expected /\ ~ Overlooked
      BY <2>2, Zenon DEF Answered, Expected, Overlooked, Computed, Arithmetic
    <3>. QED BY <3>1
  <2>. QED BY <2>1, <2>2
<1>3. /\ res = Expected.res
      /\ fe = IF Distant THEN {"inexact"} ELSE IF Overlooked THEN Signals({A, B})
             ELSE Late(Expected).fe
  BY <1>1, <1>2 DEF Answers
<1>4. Late(Expected).fe = (Expected.fe \ {"underflow"})
                \cup (IF "inexact" \in Expected.fe /\ Expected.res.e = 0
                      THEN {"underflow"} ELSE {})
  BY DEF Late
<1>. QED BY <1>3, <1>4, Zenon DEF CorrectlyRounded, ExactFlags

LEMMA AnswersRight == RInv => CorrectlyRounded /\ ExactFlags
<1>. SUFFICES ASSUME RInv PROVE CorrectlyRounded /\ ExactFlags
  OBVIOUS
<1>1. CASE pc = "done" /\ call.op \in Computed
  BY <1>1, AnswersAre DEF RInv
<1>2. CASE ~ (pc = "done" /\ call.op \in Computed)
  BY <1>2 DEF CorrectlyRounded, ExactFlags, Returned
<1>. QED BY <1>1, <1>2

(* soft_f256.h: arithmetic is implemented for all five rounding modes.     *)
(* In every width, for all operands and modes, what add, sub, mul, div,    *)
(* sqrt and fma of binary256 return is the exact value rounded once, and   *)
(* what remainder returns is the remainder of the nearest quotient.        *)
THEOREM CorrectlyRoundedAlways == Spec => []CorrectlyRounded
  BY AnswersKept, AnswersRight, PTL

(* The flags of those operations are those of IEEE 754, UNDERFLOW being    *)
(* raised when an inexact result is delivered subnormal or zero, with two  *)
(* exceptions: a sum of distant operands raises INEXACT alone, and fma with*)
(* a NaN among its first two operands raises INVALID only if one of those  *)
(* two signals, not if its third operand does.                             *)
THEOREM ExactFlagsAlways == Spec => []ExactFlags
  BY AnswersKept, AnswersRight, PTL

LEMMA ShrIs ==
  ASSUME NEW x \in Nat, x < Pow2[BigBits], NEW n \in Nat, n <= MaxShift
  PROVE  /\ Shr(x, n) = x \div Pow2[n]
         /\ AnyLow(x, n) <=> x % Pow2[n] # 0
         /\ n < BigBits /\ BitSet(x, n) <=> BitSet(x, n)
<1>1. Pow2[n] \in Nat /\ Pow2[n] >= 1 /\ BigBits \in Nat /\ MaxShift \in Nat
  BY Widths, BigWidths, Pow2Positive
<1>2. CASE n < BigBits
  BY <1>1, <1>2 DEF Shr, AnyLow
<1>3. CASE n >= BigBits
  <2>1. x < Pow2[n]
    BY <1>1, <1>3, BigWidths, Pow2Monotone
  <2>2. x \div Pow2[n] = 0 /\ x % Pow2[n] = x
    BY <1>1, <2>1, Join, Z3
  <2>3. ~ BitSet(x, n)
    BY <2>2 DEF BitSet
  <2>. QED BY <1>3, <2>2, <2>3 DEF Shr, AnyLow
<1>. QED BY <1>1, <1>2, <1>3

(* The rounded quotient of a significand by 2^n.                           *)
LEMMA RoundUpCut ==
  ASSUME NEW s \in {0, 1}, NEW md \in Modes, NEW x \in Nat, x < Pow2[BigBits],
         NEW n \in Nat, n >= 1, n <= MaxShift,
         NEW guard \in BOOLEAN, guard <=> n - 1 < BigBits /\ BitSet(x, n - 1),
         NEW sticky \in BOOLEAN, sticky <=> n > 1 /\ AnyLow(x, n - 1)
  PROVE  \E m, up, ls :
           /\ m = x \div Pow2[n] /\ CutAt(s, m, x, Pow2[n], up, ls, md)
           /\ up <=> RoundUp(s, guard, sticky, m % 2 = 1, md)
           /\ ls <=> (guard \/ sticky)
<1>. DEFINE H == Pow2[n - 1]
<1>1. /\ n - 1 \in Nat /\ n - 1 <= MaxShift /\ H \in Nat /\ H >= 1
      /\ Pow2[n] = 2 * H /\ Pow2[n] \in Nat /\ Pow2[n] >= 1
  <2>1. n - 1 \in Nat /\ n - 1 <= MaxShift /\ MaxShift \in Nat
    BY Widths
  <2>2. Pow2[(n - 1) + 1] = 2 * Pow2[n - 1]
    BY <2>1, Pow2Step
  <2>. QED BY <2>1, <2>2, Pow2Positive
<1>2. /\ guard <=> (x \div H) % 2 = 1
      /\ sticky <=> x % H # 0
  <2>1. /\ n - 1 < BigBits /\ BitSet(x, n - 1) <=> BitSet(x, n - 1)
        /\ AnyLow(x, n - 1) <=> x % H # 0
    BY <1>1, ShrIs
  <2>2. n = 1 => x % H = 0
    BY Pow2Step, Z3
  <2>. QED BY <2>1, <2>2 DEF BitSet
<1>. HIDE DEF H
<1>3. PICK m \in Nat, r \in Nat :
        /\ m = x \div (2 * H) /\ r < 2 * H /\ x = m * (2 * H) + r
        /\ (x \div H) % 2 = 1 <=> H <= r
        /\ (x % H) # 0 <=> r # 0 /\ r # H
  BY <1>1, CutAtHalf
<1>. DEFINE lost == x # m * Pow2[n]
            half == 2 * x >= (2 * m + 1) * Pow2[n]
            tie == 2 * x = (2 * m + 1) * Pow2[n]
            up == Upwards(s, m, lost, half, tie, md)
<1>4. /\ m * Pow2[n] <= x /\ x < (m + 1) * Pow2[n]
      /\ lost <=> r # 0
      /\ half <=> H <= r
      /\ tie <=> r = H
  <2>. DEFINE k == m * (2 * H)
  <2>1. /\ k \in Nat /\ m * Pow2[n] = k /\ (m + 1) * Pow2[n] = k + 2 * H
        /\ (2 * m + 1) * Pow2[n] = 2 * k + 2 * H
    <3>1. /\ k \in Nat /\ (m + 1) * (2 * H) = k + 2 * H
          /\ (2 * m + 1) * (2 * H) = 2 * k + 2 * H
      <4>. DEFINE G == 2 * H
      <4>1. G \in Nat
        BY <1>1
      <4>. HIDE DEF G
      <4>2. m * G \in Nat /\ (m + 1) * G = m * G + G /\ (2 * m + 1) * G = 2 * (m * G) + G
        BY <1>3, <4>1, Z3
      <4>. QED BY <4>2 DEF G
    <3>. QED BY <1>1, <3>1, Zenon
  <2>2. x = k + r
    BY <1>3
  <2>. HIDE DEF k
  <2>3. k <= x /\ x < k + 2 * H /\ (x # k <=> r # 0)
        /\ (2 * x >= 2 * k + 2 * H <=> H <= r) /\ (2 * x = 2 * k + 2 * H <=> r = H)
    BY <1>1, <1>3, <2>1, <2>2
  <2>. QED BY <2>1, <2>3
<1>5. lost \in BOOLEAN /\ half \in BOOLEAN /\ tie \in BOOLEAN
  OBVIOUS
<1>6. (guard \/ sticky <=> lost) /\ (guard <=> half) /\ (sticky => ~ tie) /\ (guard /\ ~ sticky => tie)
  <2>. HIDE DEF lost, half, tie
  <2>. QED BY <1>1, <1>2, <1>3, <1>4
<1>7. RoundUp(s, guard, sticky, m % 2 = 1, md) <=> up
  <2>. HIDE DEF lost, half, tie
  <2>1. ShouldRoundUp(s, guard, sticky, m % 2 = 1, md) <=> Upwards(s, m, lost, half, tie, md)
    <3>1. ((guard \/ sticky) <=> lost) /\ (guard <=> half)
      BY <1>6
    <3>2. (sticky => ~ tie) /\ (guard /\ ~ sticky => tie)
      BY <1>6
    <3>3. s \in {0, 1} /\ md \in Modes /\ guard \in BOOLEAN /\ sticky \in BOOLEAN
      OBVIOUS
    <3>. DEFINE k == m
    <3>. HIDE DEF k
    <3>4. ShouldRoundUp(s, guard, sticky, k % 2 = 1, md) <=> Upwards(s, k, lost, half, tie, md)
      BY <1>5, <3>1, <3>2, <3>3, SameDirection
    <3>. QED BY <3>4 DEF k
  <2>2. Upwards(s, m, lost, half, tie, md) => lost
    BY <1>6, Zenon DEF Upwards, Modes
  <2>. QED BY <1>6, <2>1, <2>2, Zenon DEF RoundUp
<1>8. up \in BOOLEAN
  <2>. HIDE DEF lost, half, tie
  <2>. QED BY <1>5 DEF Upwards, Modes
<1>9. CutAt(s, m, x, Pow2[n], up, lost, md)
  <2>. HIDE DEF up
  <2>1. up <=> Upwards(s, m, x # m * Pow2[n], 2 * x >= (2 * m + 1) * Pow2[n],
                       2 * x = (2 * m + 1) * Pow2[n], md)
    BY Zenon DEF up
  <2>. QED BY <1>1, <1>3, <1>4, <1>5, <1>8, <2>1, Zenon DEF CutAt
<1>10. m = x \div Pow2[n]
  BY <1>1, <1>3
<1>11. up <=> RoundUp(s, guard, sticky, m % 2 = 1, md)
  BY <1>7
<1>12. lost <=> (guard \/ sticky)
  BY <1>6
<1>. HIDE DEF up, lost
<1>. WITNESS m, up, lost
<1>. QED BY <1>9, <1>10, <1>11, <1>12, Zenon

LEMMA OneIs ==
  /\ Ref!LogOne \in Nat /\ Ref!LogOne = FracBits + Bias - 1 /\ InTable(Ref!LogOne)
  /\ One = Pow2[Ref!LogOne] /\ One \in Nat /\ One >= 1 /\ ImplicitBit <= One
  /\ BigBits + FracBits + Bias <= MaxShift /\ 2 * FracBits + 3 * Bias <= MaxShift
  /\ Bias \in Nat /\ Bias >= 1 /\ FracBits \in Nat /\ FracBits >= 2 /\ MaxShift \in Nat
  /\ BigBits \in Nat /\ 2 * FracBits + 8 <= BigBits /\ IntBits \in Nat /\ IntBits < BigBits
<1>1. Bias \in Nat /\ Bias >= 1 /\ FracBits \in Nat /\ FracBits >= 2 /\ MaxShift \in Nat
  BY Fields, Widths
<1>2. /\ BigBits \in Nat /\ 2 * FracBits + 8 <= BigBits /\ IntBits \in Nat /\ IntBits < BigBits
      /\ BigBits + FracBits + Bias <= MaxShift /\ 2 * FracBits + 3 * Bias <= MaxShift
  BY <1>1, TableAssumption, BigAssumption, BigWidths
<1>3. Ref!LogOne = FracBits + Bias - 1
  BY SameFormat
<1>4. Ref!LogOne \in Nat /\ InTable(Ref!LogOne) /\ FracBits <= Ref!LogOne /\ Ref!LogOne <= MaxShift
  BY <1>1, <1>2, <1>3 DEF InTable
<1>5. One \in Nat /\ One >= 1 /\ ImplicitBit <= One
  <2>1. One = Pow2[Ref!LogOne] /\ ImplicitBit = Pow2[FracBits]
    BY DEF One, ImplicitBit
  <2>2. Pow2[Ref!LogOne] \in Nat /\ Pow2[Ref!LogOne] >= 1
    BY <1>1, <1>4, Pow2Positive
  <2>. QED BY <1>1, <1>4, <2>1, <2>2, Pow2Monotone
<1>. QED BY <1>1, <1>2, <1>3, <1>4, <1>5 DEF One

LEMMA WholeNearest ==
  ASSUME NEW s \in {0, 1}, NEW md \in Modes, NEW k \in Nat
  PROVE  Ref!NearestInteger(s, k * One, One, md) = k /\ (k * One) % One = 0
<1>1. One \in Nat /\ One >= 1
  BY OneIs
<1>. DEFINE num == k * One
<1>2. k * One \in Nat /\ num = k * One /\ (k + 1) * One = k * One + One
  BY <1>1, Z3
<1>. HIDE DEF num
<1>3. num \in Nat /\ num = k * One /\ num < (k + 1) * One
      /\ (2 * k + 1) * One = 2 * (k * One) + One
  <2>1. (2 * k + 1) * One = 2 * (k * One) + One
    BY <1>1, Z3
  <2>. QED BY <1>1, <1>2, <2>1
<1>. DEFINE lost == num # k * One
            half == 2 * num >= (2 * k + 1) * One
            tie == 2 * num = (2 * k + 1) * One
<1>4. ~ lost /\ ~ half /\ ~ tie
  BY <1>1, <1>3
<1>. HIDE DEF lost, half, tie
<1>5. ~ Upwards(s, k, lost, half, tie, md)
  BY <1>4 DEF Upwards, Modes
<1>6. PICK no \in BOOLEAN : ~ no
  OBVIOUS
<1>7. CutAt(s, k, num, One, no, no, md)
  BY <1>1, <1>3, <1>4, <1>5, <1>6 DEF CutAt, lost, half, tie
<1>8. /\ Ref!NearestInteger(s, num, One, md) = (IF no THEN k + 1 ELSE k)
      /\ num % One = 0 <=> ~ no
  BY <1>7, NearestCut
<1>. QED BY <1>6, <1>8 DEF num

LEMMA WholeValue ==
  ASSUME NEW v \in Values, Regular(v), NEW md \in Modes, NEW n \in Nat, Exponent(v) = FracBits + n,
         NEW k, k = Sig(v) * Pow2[n]
  PROVE  /\ k \in Nat /\ k >= 1 /\ Ref!Mag(v) = k * One
         /\ NearestTo(v, md) = k /\ Ref!Mag(v) % One = 0
         /\ Exponent(v) < BigBits => k < Pow2[BigBits] /\ Shl(Sig(v), n) = k
<1>1. /\ Weighs(Sig(v), Exponent(v) + Bias - 1, Ref!Mag(v), 1)
      /\ Exponent(v) \in (1 - Bias - FracBits)..Bias
      /\ Sig(v) \in Nat /\ Pow2[FracBits] <= Sig(v) /\ Sig(v) < Pow2[FracBits + 1]
      /\ v.s \in {0, 1}
  BY ValueWeighs, RegularFields
<1>2. /\ n <= MaxShift /\ n + Ref!LogOne <= MaxShift /\ FracBits \in 0..MaxShift /\ n \in 0..MaxShift
      /\ Exponent(v) + Bias - 1 = n + Ref!LogOne /\ n + Ref!LogOne \in Nat
  BY <1>1, OneIs
<1>3. Pow2[n] \in Nat /\ Pow2[n] >= 1 /\ Pow2[FracBits] \in Nat /\ Pow2[FracBits] >= 1
  BY <1>2, Pow2Positive
<1>4. k \in Nat /\ k >= 1
  <2>1. Sig(v) \in Nat /\ Sig(v) >= 1
    BY <1>1, <1>3
  <2>. QED BY <1>3, <2>1, Z3
<1>5. Ref!Mag(v) = k * One
  <2>1. Sig(v) * (1 * Over(n + Ref!LogOne)) = Ref!Mag(v) * Under(n + Ref!LogOne) /\ Ref!Mag(v) \in Nat
    BY <1>1, <1>2 DEF Weighs
  <2>2. Over(n + Ref!LogOne) = Pow2[n + Ref!LogOne] /\ Under(n + Ref!LogOne) = 1
    BY <1>2 DEF Over, Under
  <2>3. Pow2[n + Ref!LogOne] = Pow2[n] * One
    BY <1>2, OneIs, Pow2Sum
  <2>4. Sig(v) * (Pow2[n] * One) = Ref!Mag(v)
    BY <1>1, <1>3, <2>1, <2>2, <2>3, OneIs
  <2>. QED BY <1>1, <1>3, <2>4, OneIs, Z3
<1>6. NearestTo(v, md) = k /\ Ref!Mag(v) % One = 0
  BY <1>1, <1>4, <1>5, WholeNearest DEF NearestTo
<1>7. Exponent(v) < BigBits => k < Pow2[BigBits] /\ Shl(Sig(v), n) = k
  <2>. SUFFICES ASSUME Exponent(v) < BigBits
                PROVE  k < Pow2[BigBits] /\ Shl(Sig(v), n) = k
    OBVIOUS
  <2>1. FracBits + 1 \in Nat /\ (FracBits + 1) + n <= BigBits /\ n < BigBits
    BY OneIs
  <2>2. Shl(Sig(v), n) = Sig(v) * Pow2[n] /\ Sig(v) * Pow2[n] < Pow2[(FracBits + 1) + n]
    BY <1>1, <2>1, ShlFits
  <2>3. Pow2[(FracBits + 1) + n] <= Pow2[BigBits]
    <3>1. (FracBits + 1) + n \in Nat /\ BigBits \in Nat /\ BigBits <= MaxShift
      BY <2>1, OneIs
    <3>. QED BY <2>1, <3>1, Pow2Monotone
  <2>4. Pow2[(FracBits + 1) + n] \in Nat /\ Pow2[BigBits] \in Nat
    <3>1. (FracBits + 1) + n \in 0..MaxShift /\ BigBits \in 0..MaxShift
      BY <2>1, OneIs
    <3>. QED BY <3>1, Pow2Step
  <2>. QED BY <1>4, <2>2, <2>3, <2>4
<1>. QED BY <1>4, <1>5, <1>6, <1>7

LEMMA WholeRounded ==
  ASSUME NEW v \in Values, Regular(v), NEW md \in Modes, FracBits <= Exponent(v), Exponent(v) < BigBits
  PROVE  /\ RoundedInteger(v, md) = [mag |-> NearestTo(v, md), inexact |-> FALSE]
         /\ Ref!Mag(v) % One = 0 /\ NearestTo(v, md) \in Nat
<1>. DEFINE n == Exponent(v) - FracBits
            k == Sig(v) * Pow2[n]
<1>1. Exponent(v) \in Int
  BY ValueWeighs
<1>2. n \in Nat /\ Exponent(v) = FracBits + n /\ FracBits - Exponent(v) <= 0 /\ -(FracBits - Exponent(v)) = n
  BY <1>1, OneIs
<1>. HIDE DEF n
<1>3. /\ NearestTo(v, md) = k /\ Ref!Mag(v) % One = 0 /\ Shl(Sig(v), n) = k /\ k \in Nat
  BY <1>2, WholeValue
<1>4. RoundedInteger(v, md) = [mag |-> Shl(Sig(v), n), inexact |-> FALSE]
  BY <1>2, Zenon DEF RoundedInteger
<1>. QED BY <1>3, <1>4

LEMMA PartRounded ==
  ASSUME NEW v \in Values, Regular(v), NEW md \in Modes, Exponent(v) < FracBits
  PROVE  /\ RoundedInteger(v, md) = [mag |-> NearestTo(v, md), inexact |-> Ref!Mag(v) % One # 0]
         /\ NearestTo(v, md) \in Nat /\ NearestTo(v, md) < Pow2[BigBits]
<1>. DEFINE x == Sig(v)
            n == FracBits - Exponent(v)
            k == Exponent(v) + Bias - 1
<1>1. /\ Weighs(x, k, Ref!Mag(v), 1) /\ v.s \in {0, 1}
      /\ Exponent(v) \in (1 - Bias - FracBits)..Bias
      /\ x \in Nat /\ Pow2[FracBits] <= x /\ x < Pow2[FracBits + 1]
  BY ValueWeighs, RegularFields
<1>2. /\ n \in Nat /\ n >= 1 /\ n <= MaxShift /\ InTable(n) /\ k + n = Ref!LogOne /\ k + n >= 0
      /\ InTable(k + n)
  BY <1>1, OneIs DEF InTable
<1>3. CutShifted(x, n, k, Ref!Mag(v))
  BY <1>1, <1>2 DEF CutShifted
<1>4. Pow2[FracBits + 1] \in Nat /\ Pow2[FracBits + 1] + 1 < Pow2[BigBits] /\ Pow2[BigBits] \in Nat
  <2>1. /\ FracBits + 1 \in 0..MaxShift /\ BigBits \in 0..MaxShift /\ FracBits + 2 \in 0..MaxShift
    BY OneIs
  <2>2. Pow2[FracBits + 2] <= Pow2[BigBits] /\ 2 * Pow2[FracBits + 1] <= Pow2[FracBits + 2]
    BY <2>1, OneIs, Pow2Monotone
  <2>3. Pow2[FracBits + 1] >= 2
    <3>1. 2 * Pow2[FracBits] <= Pow2[FracBits + 1] /\ FracBits \in 0..MaxShift
      BY <2>1, OneIs, Pow2Monotone
    <3>2. Pow2[FracBits] \in Nat /\ Pow2[FracBits] >= 1 /\ Pow2[FracBits + 1] \in Nat
      BY <2>1, <3>1, Pow2Positive
    <3>. QED BY <3>1, <3>2
  <2>4. Pow2[FracBits + 1] \in Nat /\ Pow2[FracBits + 2] \in Nat /\ Pow2[BigBits] \in Nat
    BY <2>1, Pow2Positive
  <2>. QED BY <2>2, <2>3, <2>4
<1>5. PICK guard \in BOOLEAN : guard <=> n - 1 < BigBits /\ BitSet(x, n - 1)
  OBVIOUS
<1>6. PICK sticky \in BOOLEAN : sticky <=> n > 1 /\ AnyLow(x, n - 1)
  OBVIOUS
<1>7. x < Pow2[BigBits]
  BY <1>1, <1>4
<1>. HIDE DEF x, n, k
<1>8. PICK m, up, ls :
        /\ m = x \div Pow2[n] /\ CutAt(v.s, m, x, Pow2[n], up, ls, md)
        /\ up <=> RoundUp(v.s, guard, sticky, m % 2 = 1, md)
        /\ ls <=> (guard \/ sticky)
  <2>1. x \in Nat
    BY <1>1
  <2>. QED BY <1>1, <1>2, <1>5, <1>6, <1>7, <2>1, RoundUpCut
<1>9. CutAt(v.s, m, Ref!Mag(v), One, up, ls, md)
  <2>1. CutAt(v.s, m, Ref!Mag(v), Pow2[k + n], up, ls, md)
    BY <1>3, <1>8, CutCarried, Zenon
  <2>. QED BY <1>2, <2>1 DEF One
<1>10. NearestTo(v, md) = (IF up THEN m + 1 ELSE m) /\ (Ref!Mag(v) % One # 0 <=> ls)
  BY <1>1, <1>9, NearestCut DEF NearestTo
<1>11. Shr(x, n) = m
  BY <1>1, <1>2, <1>7, <1>8, ShrIs
<1>12. RoundedInteger(v, md) = [mag |-> IF up THEN m + 1 ELSE m, inexact |-> guard \/ sticky]
  <2>1. ~ (n <= 0)
    BY <1>2
  <2>2. /\ (n - 1 < BigBits /\ BitSet(x, n - 1)) = guard
        /\ (n > 1 /\ AnyLow(x, n - 1)) = sticky
    BY <1>5, <1>6
  <2>3. RoundedInteger(v, md) =
          [mag |-> IF RoundUp(v.s, n - 1 < BigBits /\ BitSet(x, n - 1),
                              n > 1 /\ AnyLow(x, n - 1), Shr(x, n) % 2 = 1, md)
                   THEN Shr(x, n) + 1 ELSE Shr(x, n),
           inexact |-> (n - 1 < BigBits /\ BitSet(x, n - 1)) \/ (n > 1 /\ AnyLow(x, n - 1))]
    BY <2>1, Zenon DEF RoundedInteger, x, n
  <2>. QED BY <1>8, <1>11, <2>2, <2>3, Zenon
<1>13. (guard \/ sticky) = (Ref!Mag(v) % One # 0)
  BY <1>8, <1>10
<1>14. m \in Nat /\ m <= x
  <2>1. Pow2[n] \in Nat /\ Pow2[n] >= 1
    BY <1>2, OneIs, Pow2Positive
  <2>2. x \in Nat /\ m \in Nat /\ m * Pow2[n] <= x
    BY <1>1, <1>9, <1>8 DEF CutAt
  <2>3. m <= m * Pow2[n]
    BY <2>1, <2>2, Z3
  <2>4. m * Pow2[n] \in Nat
    BY <2>1, <2>2
  <2>. QED BY <2>2, <2>3, <2>4
<1>15. NearestTo(v, md) \in Nat /\ NearestTo(v, md) < Pow2[BigBits]
  BY <1>1, <1>4, <1>10, <1>14
<1>. QED BY <1>10, <1>12, <1>13, <1>15, Zenon

LEMMA BeyondNearest ==
  ASSUME NEW v \in Values, Regular(v), NEW md \in Modes, IntBits <= Exponent(v)
  PROVE  NearestTo(v, md) \in Nat /\ Pow2[IntBits] <= NearestTo(v, md)
<1>. DEFINE x == Sig(v)
            j == Exponent(v) + Bias - 1
            M == Ref!Mag(v)
            t == FracBits + j
<1>1. /\ Weighs(x, j, M, 1) /\ v.s \in {0, 1}
      /\ Exponent(v) \in (1 - Bias - FracBits)..Bias
      /\ x \in Nat /\ Pow2[FracBits] <= x /\ M \in Nat
  BY ValueWeighs, RegularFields
<1>2. /\ j \in Int /\ InTable(j) /\ InTable(j + FracBits) /\ InTable(FracBits) /\ t = j + FracBits
      /\ t \in Nat /\ t <= MaxShift /\ t >= IntBits + Ref!LogOne
  BY <1>1, OneIs DEF InTable
<1>3. M >= Pow2[IntBits] * One
  <2>1. x * (1 * Over(j)) = M * Under(j) /\ Over(j) \in Nat /\ Over(j) >= 1 /\ Under(j) \in Nat /\ Under(j) >= 1
    BY <1>1, <1>2, OverUnder DEF Weighs
  <2>2. (Over(j) * Pow2[FracBits]) * Under(j + FracBits) = Under(j) * Over(j + FracBits)
    BY <1>2, OneIs, OverSum
  <2>3. Under(j + FracBits) = 1 /\ Over(j + FracBits) = Pow2[t]
    BY <1>2 DEF Over, Under
  <2>4. Pow2[t] \in Nat /\ Pow2[FracBits] \in Nat
    <3>1. t \in 0..MaxShift /\ FracBits \in 0..MaxShift
      BY <1>2, OneIs
    <3>. QED BY <3>1, Pow2Step
  <2>5. Pow2[t] <= M
    <3>. DEFINE P == Pow2[FracBits]
                T == Pow2[t]
                o == Over(j)
                u == Under(j)
    <3>1. x * (1 * o) = M * u /\ (o * P) * 1 = u * T /\ P <= x /\ P \in Nat /\ T \in Nat
          /\ o \in Nat /\ u \in Nat /\ u >= 1 /\ x \in Nat /\ M \in Nat
      BY <1>1, <2>1, <2>2, <2>3, <2>4
    <3>. HIDE DEF P, T, o, u, x, M
    <3>2. x * o = M * u /\ P * o = T * u
      BY <3>1, Z3
    <3>3. P * o <= x * o
      <4>1. (x - P) * o \in Nat /\ (x - P) * o = x * o - P * o
        BY <3>1, Z3
      <4>2. x * o \in Nat /\ P * o \in Nat
        BY <3>1
      <4>. QED BY <4>1, <4>2
    <3>4. T * u <= M * u
      BY <3>2, <3>3
    <3>. QED BY <3>1, <3>4, TimesOrder DEF T, M
  <2>6. Pow2[IntBits + Ref!LogOne] = Pow2[IntBits] * One
    BY <1>2, OneIs, Pow2Sum
  <2>7. Pow2[IntBits + Ref!LogOne] <= Pow2[t]
    BY <1>2, OneIs, Pow2Monotone
  <2>8. Pow2[IntBits + Ref!LogOne] \in Nat
    <3>1. IntBits + Ref!LogOne \in 0..MaxShift
      BY <1>2, OneIs
    <3>. QED BY <3>1, Pow2Step
  <2>. QED BY <1>1, <2>4, <2>5, <2>6, <2>7, <2>8
<1>4. PICK d \in Nat : d = M \div One
  <2>1. M \div One \in Nat
    BY <1>1, OneIs, Split
  <2>. QED BY <2>1
<1>5. Pow2[IntBits] <= d
  <2>. DEFINE P == Pow2[IntBits]
              r == M % One
  <2>1. P \in Nat
    <3>1. IntBits \in 0..MaxShift
      BY OneIs
    <3>. QED BY <3>1, Pow2Step
  <2>2. M = d * One + r /\ r \in Nat /\ r < One
    BY <1>1, <1>4, OneIs, Split
  <2>. HIDE DEF P, r, M
  <2>3. P * One <= d * One + r
    BY <1>3, <2>2 DEF P
  <2>4. P <= d
    <3>. SUFFICES ASSUME d < P PROVE FALSE
      BY <1>4, <2>1
    <3>1. (P - d) * One >= One /\ (P - d) * One = P * One - d * One
      BY <1>4, <2>1, OneIs, Z3
    <3>2. P * One \in Nat /\ d * One \in Nat
      BY <1>4, <2>1, OneIs
    <3>. QED BY <2>2, <2>3, <3>1, <3>2, OneIs
  <2>. QED BY <2>4 DEF P
<1>6. NearestTo(v, md) = d \/ NearestTo(v, md) = d + 1
  BY <1>4, Zenon DEF NearestTo, Ref!NearestInteger, M
<1>7. Pow2[IntBits] \in Nat
  <2>1. IntBits \in 0..MaxShift
    BY OneIs
  <2>. QED BY <2>1, Pow2Step
<1>. QED BY <1>4, <1>5, <1>6, <1>7

(* Every fraction in range lies next to or on a magnitude.                 *)
LEMMA CutFound ==
  ASSUME NEW num \in Nat, NEW den \in Nat, den >= 1,
         ~ (num >= Ref!Magnitude[Ref!InfIndex] * den)
  PROVE  \E e \in 1..(ExpMax - 1), m \in Nat :
           /\ m < 2 * ImplicitBit /\ (e = 1 \/ ImplicitBit <= m)
           /\ m * (Unit(e) * den) <= num /\ num < (m + 1) * (Unit(e) * den)
<1>. DEFINE top == ExpMax * ImplicitBit
            T == {j \in Nat : j <= top /\ num < Ref!Magnitude[j] * den}
<1>1. top \in Nat /\ top >= 1 /\ Ref!InfIndex = top /\ ExpMax \in Nat /\ ImplicitBit \in Nat
      /\ ImplicitBit >= 1 /\ ExpMax >= 3
  <2>1. ImplicitBit >= 1 /\ ImplicitBit \in Nat
    BY GuardPowers
  <2>2. top \in Nat /\ top >= 1
    BY <2>1, Fields, Z3
  <2>. QED BY <2>1, <2>2, SameFormat, Fields
<1>2. Ref!Magnitude[top] \in Nat /\ Ref!Magnitude[0] = 0
  <2>1. top \in 0..(ExpMax * ImplicitBit) /\ 0 \in 0..(ExpMax * ImplicitBit) /\ 0 < top
    BY <1>1
  <2>2. 1 \in 1..(ExpMax - 1) /\ InBinade(1, 0) /\ IndexOf(1, 0) = 0
    BY <1>1 DEF InBinade, IndexOf
  <2>3. Ref!Magnitude[IndexOf(1, 0)] = 0 * Unit(1)
    BY <2>2, MagnitudeAt
  <2>4. Unit(1) \in Nat
    <3>1. 1 \in 1..ExpMax
      BY <1>1
    <3>. QED BY <3>1, UnitFacts
  <2>5. Ref!Magnitude[top] \in Nat
    BY <2>1, Climbs
  <2>. QED BY <2>2, <2>3, <2>4, <2>5
<1>3. top \in T
  <2>1. Ref!Magnitude[top] * den \in Nat
    BY <1>2
  <2>. QED BY <1>1, <2>1
<1>4. PICK j \in T : \A y \in T : j <= y
  <2>1. T \subseteq Nat /\ T # {}
    BY <1>3
  <2>. QED BY <2>1, Least
<1>5. j \in Nat /\ j <= top /\ num < Ref!Magnitude[j] * den /\ j # 0
  <2>1. 0 * den = 0
    OBVIOUS
  <2>2. j \in Nat /\ j <= top /\ num < Ref!Magnitude[j] * den
    BY <1>4
  <2>3. j # 0
    BY <1>2, <2>1, <2>2
  <2>. QED BY <2>2, <2>3
<1>. DEFINE i == j - 1
<1>6. i \in Nat /\ i + 1 = j /\ i \in 0..(ExpMax * ImplicitBit - 1) /\ i <= top /\ i \notin T
  <2>1. i \in Nat /\ i + 1 = j /\ i \in 0..(ExpMax * ImplicitBit - 1) /\ i <= top
    BY <1>1, <1>5
  <2>2. i \notin T
    BY <1>4, <1>5
  <2>. QED BY <2>1, <2>2
<1>7. ~ (num < Ref!Magnitude[i] * den)
  BY <1>6
<1>. HIDE DEF T, i, top
<1>8. PICK e \in 1..(ExpMax - 1), m \in Nat :
        /\ m < 2 * ImplicitBit /\ InBinade(e, m) /\ InBinade(e, m + 1)
        /\ i = IndexOf(e, m) /\ i + 1 = IndexOf(e, m + 1)
  BY <1>6, IndexSplit
<1>9. Ref!Magnitude[i] = m * Unit(e) /\ Ref!Magnitude[j] = (m + 1) * Unit(e)
  BY <1>6, <1>8, MagnitudeAt
<1>10. Unit(e) \in Nat
  <2>1. e \in 1..ExpMax
    BY <1>1
  <2>. QED BY <2>1, UnitFacts
<1>11. m * (Unit(e) * den) = (m * Unit(e)) * den /\ (m + 1) * (Unit(e) * den) = ((m + 1) * Unit(e)) * den
       /\ (m * Unit(e)) * den \in Nat
  BY <1>10, Z3
<1>12. m * (Unit(e) * den) <= num /\ num < (m + 1) * (Unit(e) * den)
  BY <1>5, <1>7, <1>9, <1>11
<1>13. e = 1 \/ ImplicitBit <= m
  BY <1>8 DEF InBinade
<1>. QED BY <1>8, <1>12, <1>13

(* Nothing but a number below the least normal one underflows.             *)
LEMMA LateLarge ==
  ASSUME NEW s \in {0, 1}, NEW md \in Modes, NEW num \in Nat, NEW den \in Nat, den >= 1,
         ImplicitBit * den <= num
  PROVE  Late(Ref!Round(s, num, den, md)) = Ref!Round(s, num, den, md)
<1>1. CASE num >= Ref!Magnitude[Ref!InfIndex] * den
  <2>1. Ref!Round(s, num, den, md) = Ref!Overflows(s, md)
    BY <1>1, Zenon DEF Ref!Round
  <2>. QED BY <2>1, SameOverflow, SameBeyond
<1>2. CASE ~ (num >= Ref!Magnitude[Ref!InfIndex] * den)
  <2>1. PICK e \in 1..(ExpMax - 1), m \in Nat :
           /\ m < 2 * ImplicitBit /\ (e = 1 \/ ImplicitBit <= m)
           /\ m * (Unit(e) * den) <= num /\ num < (m + 1) * (Unit(e) * den)
    BY <1>2, CutFound
  <2>2. ImplicitBit \in Nat /\ ImplicitBit >= 1 /\ ExpMax \in Nat /\ ExpMax >= 3
    BY GuardPowers, Fields
  <2>3. ImplicitBit <= m
    <3>. SUFFICES ASSUME e = 1, m < ImplicitBit PROVE FALSE
      BY <2>1, <2>2
    <3>1. Unit(e) = 1
      <4>1. 1 \in 1..ExpMax
        BY <2>2
      <4>. QED BY <4>1, UnitFacts
    <3>2. num < (m + 1) * den
      BY <2>1, <3>1
    <3>3. (ImplicitBit - (m + 1)) * den \in Nat
          /\ (ImplicitBit - (m + 1)) * den = ImplicitBit * den - (m + 1) * den
      <4>1. ImplicitBit - (m + 1) \in Nat
        BY <2>2
      <4>. QED BY <2>2, <4>1, Z3
    <3>4. (m + 1) * den \in Nat /\ ImplicitBit * den \in Nat
      BY <2>2
    <3>. QED BY <3>2, <3>3, <3>4
  <2>. DEFINE D == Unit(e) * den
              lost == num # m * D
              up == Upwards(s, m, lost, 2 * num >= (2 * m + 1) * D, 2 * num = (2 * m + 1) * D, md)
              n == IF up THEN m + 1 ELSE m
  <2>4. Ref!Round(s, num, den, md) = Neighbour(s, e, m, up, lost, md)
    BY <2>1, RoundAt
  <2>5. up \in BOOLEAN /\ lost \in BOOLEAN
    <3>. DEFINE half == 2 * num >= (2 * m + 1) * D
                tie == 2 * num = (2 * m + 1) * D
    <3>1. lost \in BOOLEAN /\ half \in BOOLEAN /\ tie \in BOOLEAN
      OBVIOUS
    <3>2. Upwards(s, m, lost, half, tie, md) \in BOOLEAN
      <4>. HIDE DEF lost, half, tie
      <4>. QED BY <3>1 DEF Upwards, Modes
    <3>. QED BY <3>1, <3>2
  <2>. HIDE DEF D, lost, up
  <2>6. n \in Nat /\ n <= 2 * ImplicitBit /\ ImplicitBit <= n
    BY <2>1, <2>2, <2>3
  <2>7. /\ ImplicitBit <= n /\ n < 2 * ImplicitBit =>
             Neighbour(s, e, m, up, lost, md) =
               [res |-> [s |-> s, e |-> e, f |-> n - ImplicitBit], fe |-> Flags(e, m, lost)]
        /\ n = 2 * ImplicitBit =>
              Neighbour(s, e, m, up, lost, md) =
                IF e + 1 = ExpMax THEN Overflow(s, md)
                ELSE [res |-> [s |-> s, e |-> e + 1, f |-> 0], fe |-> Flags(e, m, lost)]
    BY <2>1, <2>5, NeighbourFields
  <2>. HIDE DEF n
  <2>8. Flags(e, m, lost) = Told(lost)
    <3>1. ~ (e = 1 /\ m < ImplicitBit)
      BY <2>1, <2>2, <2>3
    <3>2. {"inexact"} \cup {} = {"inexact"}
      OBVIOUS
    <3>. QED BY <3>1, <3>2, Zenon DEF Flags, Told
  <2>9. e # 0 /\ e + 1 # 0
    BY <2>2
  <2>10. CASE ImplicitBit <= n /\ n < 2 * ImplicitBit
    BY <2>4, <2>5, <2>7, <2>8, <2>9, <2>10, LateNormal
  <2>11. CASE n = 2 * ImplicitBit
    <3>1. CASE e + 1 = ExpMax
      BY <2>4, <2>7, <2>11, <3>1, SameBeyond
    <3>2. CASE e + 1 # ExpMax
      BY <2>4, <2>5, <2>7, <2>8, <2>9, <2>11, <3>2, LateNormal
    <3>. QED BY <3>1, <3>2
  <2>. QED BY <2>2, <2>6, <2>10, <2>11
<1>. QED BY <1>1, <1>2

LEMMA IntegerPacks ==
  ASSUME NEW s \in {0, 1}, NEW md \in Modes, NEW n \in Nat, n >= 1, n < Pow2[BigBits]
  PROVE  PackScaled(s, n, 0, md) = Ref!Round(s, n * One, 1, md)
<1>. DEFINE k == Ref!LogOne
<1>1. /\ k = 0 + Bias + FracBits - 1 /\ k \in Nat /\ InTable(k) /\ Under(k) = 1 /\ Over(k) = One
      /\ One \in Nat /\ One >= 1
  BY OneIs DEF Under, Over, One
<1>2. n * One \in Nat /\ n * (1 * One) = (n * One) * 1
  BY <1>1
<1>3. Weighs(n, k, n * One, 1)
  BY <1>1, <1>2 DEF Weighs
<1>4. Highest(n) \in 0..(BigBits - 1)
  BY HighestIs
<1>5. InTable(k + Highest(n) - FracBits - 3) /\ InTable(k + Highest(n) - FracBits)
  BY <1>1, <1>4, OneIs DEF InTable
<1>6. Packs(s, n, 0, md, k, n * One, 1)
  <2>1. HoldsValue(n, k, n * One, 1)
    BY <1>3 DEF HoldsValue
  <2>. HIDE DEF k
  <2>. QED BY <1>1, <1>5, <2>1 DEF Packs
<1>. HIDE DEF k
<1>7. PackScaled(s, n, 0, md) = Late(Ref!Round(s, n * One, 1, md))
  BY <1>6, PackScaledRounds
<1>8. ImplicitBit * 1 <= n * One
  <2>1. One <= n * One
    BY <1>1, Z3
  <2>2. ImplicitBit \in Nat
    BY GuardPowers
  <2>. QED BY <1>1, <1>2, <2>1, <2>2, OneIs
<1>. QED BY <1>2, <1>7, <1>8, LateLarge

---------------------------------------------------------------------------
LEMMA GivesExact ==
  ASSUME pc = "done"
  PROVE  Gives(call, res, fe) <=> ExactConversions
<1>1. (call.op = "rint" => RintGives(call, res, fe)) <=> CorrectRint
  BY Zenon DEF A, Nearest, NearestTo, CorrectRint, RintGives, Returned, Delivered
<1>2. (call.op \in {"to_u64", "to_u32"} => UnsignedGives(call, res, fe)) <=> CorrectToUnsigned
  BY Zenon DEF A, Nearest, NearestTo, CorrectToUnsigned, UnsignedGives, Returned, Delivered
<1>3. (call.op \in {"to_i64", "to_i32"} => SignedGives(call, res, fe)) <=> CorrectToSigned
  BY Zenon DEF A, Nearest, NearestTo, CorrectToSigned, SignedGives, Returned, Delivered
<1>4. (call.op = "to_f64" => NarrowingGives(call, res, fe)) <=> CorrectNarrowing
  BY Zenon DEF A, Nearest, NearestTo, CorrectNarrowing, NarrowingGives, Returned, Delivered
<1>5. /\ call.op \in {"from_u64", "from_i64"} => IntegerGives(call, res, fe)
      /\ call.op = "from_f64" => WideningGives(call, res, fe)
      <=> CorrectWidening
  <2>1. CASE call.op = "from_f64"
    BY <2>1, Zenon DEF A, Nearest, NearestTo, CorrectWidening, WideningGives, Returned
  <2>2. CASE call.op # "from_f64"
    BY <2>2, Zenon DEF A, Nearest, NearestTo, CorrectWidening, IntegerGives, Returned, Delivered
  <2>. QED BY <2>1, <2>2, Zenon
<1>6. (call.op \in {"eq", "lt", "le"} => ComparisonGives(call, res)) <=> CorrectComparison
  <2>1. call.op \in {"eq", "lt", "le"} => B = call.b
    BY DEF B
  <2>. QED BY <2>1, Zenon DEF A, CorrectComparison, ComparisonGives, Returned
<1>. QED BY <1>1, <1>2, <1>3, <1>4, <1>5, <1>6, Zenon DEF Gives, ExactConversions

---------------------------------------------------------------------------
(* Comparisons.                                                            *)
LEMMA WordOrder ==
  ASSUME NEW v \in Values, ~ IsNaN(v), NEW w \in Values, ~ IsNaN(w)
  PROVE  /\ WordOf(v) \in Nat /\ WordOf(w) \in Nat /\ Ref!Mag(v) \in Nat /\ Ref!Mag(w) \in Nat
         /\ WordOf(v) < WordOf(w) <=> Ref!Mag(v) < Ref!Mag(w)
         /\ WordOf(v) = WordOf(w) <=> Ref!Mag(v) = Ref!Mag(w)
         /\ v.s = w.s /\ WordOf(v) = WordOf(w) => v = w
         /\ WordOf(v) = 0 <=> IsZero(v)
         /\ Ref!Mag(v) = 0 <=> IsZero(v)
<1>. DEFINE top == ExpMax * ImplicitBit
<1>1. top \in Nat /\ ExpMax \in Nat /\ ImplicitBit \in Nat /\ ImplicitBit >= 1 /\ ExpMax >= 1
      /\ Ref!ImplicitBit = ImplicitBit
  BY GuardPowers, Fields, SameFormat
<1>2. \A u \in Values : ~ IsNaN(u) =>
        /\ WordOf(u) \in 0..top /\ Ref!Mag(u) = Ref!Magnitude[WordOf(u)]
        /\ WordOf(u) = 0 <=> IsZero(u)
  <2>. SUFFICES ASSUME NEW u \in Values, ~ IsNaN(u)
                PROVE  /\ WordOf(u) \in 0..top /\ Ref!Mag(u) = Ref!Magnitude[WordOf(u)]
                       /\ WordOf(u) = 0 <=> IsZero(u)
    OBVIOUS
  <2>1. u.e \in Nat /\ u.e <= ExpMax /\ u.f \in Nat /\ u.f < ImplicitBit /\ (u.e = ExpMax => u.f = 0)
    BY <1>1 DEF Values, IsNaN
  <2>2. WordOf(u) = u.e * ImplicitBit + u.f
    BY DEF WordOf
  <2>. DEFINE x == u.e * ImplicitBit
  <2>3. /\ x \in Nat /\ (u.e < ExpMax => x + ImplicitBit <= top) /\ (u.e = ExpMax => x = top)
        /\ (u.e >= 1 => x >= ImplicitBit) /\ (u.e = 0 => x = 0)
    <3>1. x \in Nat
      BY <1>1, <2>1
    <3>2. u.e < ExpMax => x + ImplicitBit <= top
      <4>. SUFFICES ASSUME u.e < ExpMax PROVE x + ImplicitBit <= top
        OBVIOUS
      <4>1. (ExpMax - (u.e + 1)) * ImplicitBit \in Nat
        BY <1>1, <2>1
      <4>2. (ExpMax - (u.e + 1)) * ImplicitBit = top - (x + ImplicitBit)
        BY <1>1, <2>1, Z3
      <4>. HIDE DEF x, top
      <4>. QED BY <1>1, <3>1, <4>1, <4>2
    <3>3. u.e >= 1 => x >= ImplicitBit
      BY <1>1, <2>1, Z3
    <3>4. u.e = 0 => x = 0
      BY <1>1
    <3>. QED BY <3>1, <3>2, <3>3, <3>4
  <2>. HIDE DEF x, top
  <2>4. WordOf(u) = x + u.f
    BY <2>2 DEF x
  <2>5. WordOf(u) \in 0..top /\ (WordOf(u) = 0 <=> IsZero(u))
    BY <1>1, <2>1, <2>3, <2>4 DEF IsZero
  <2>6. Ref!Mag(u) = Ref!Magnitude[WordOf(u)]
    BY <1>1, <2>2, Zenon DEF Ref!Mag
  <2>. QED BY <2>5, <2>6
<1>3. /\ WordOf(v) \in 0..(ExpMax * ImplicitBit) /\ WordOf(w) \in 0..(ExpMax * ImplicitBit)
      /\ 0 \in 0..(ExpMax * ImplicitBit) /\ top \in 0..(ExpMax * ImplicitBit) /\ 0 < top
      /\ Ref!Mag(v) = Ref!Magnitude[WordOf(v)] /\ Ref!Mag(w) = Ref!Magnitude[WordOf(w)]
  <2>1. 0 < top
    BY <1>1, Z3
  <2>2. 0 \in 0..top /\ top \in 0..top
    BY <1>1
  <2>. QED BY <1>2, <2>1, <2>2
<1>4. \A i, j \in 0..(ExpMax * ImplicitBit) :
        /\ Ref!Magnitude[i] \in Nat
        /\ i < j => Ref!Magnitude[i] < Ref!Magnitude[j]
  <2>. SUFFICES ASSUME NEW i \in 0..(ExpMax * ImplicitBit), NEW j \in 0..(ExpMax * ImplicitBit)
                PROVE  /\ Ref!Magnitude[i] \in Nat
                       /\ i < j => Ref!Magnitude[i] < Ref!Magnitude[j]
    OBVIOUS
  <2>1. i < j => Ref!Magnitude[i] < Ref!Magnitude[j]
    BY Climbs
  <2>2. Ref!Magnitude[i] \in Nat
    <3>1. CASE i < top
      BY <1>3, <3>1, Climbs
    <3>2. CASE i = top
      BY <1>3, <3>2, Climbs
    <3>. QED BY <1>1, <3>1, <3>2
  <2>. QED BY <2>1, <2>2
<1>5. Ref!Magnitude[0] = 0
  <2>1. 1 \in 1..(ExpMax - 1) /\ InBinade(1, 0) /\ IndexOf(1, 0) = 0
    BY <1>1, Fields DEF InBinade, IndexOf
  <2>2. Ref!Magnitude[IndexOf(1, 0)] = 0 * Unit(1)
    BY <2>1, MagnitudeAt
  <2>3. Unit(1) \in Nat
    <3>1. 1 \in 1..ExpMax
      BY <1>1
    <3>. QED BY <3>1, UnitFacts
  <2>. QED BY <2>1, <2>2, <2>3
<1>. DEFINE i == WordOf(v)
            j == WordOf(w)
            a == Ref!Mag(v)
            b == Ref!Mag(w)
<1>6. i \in Nat /\ j \in Nat /\ a \in Nat /\ b \in Nat
  BY <1>3, <1>4
<1>7. (i < j => a < b) /\ (j < i => b < a) /\ (i = j => a = b) /\ (0 < i => 0 < a) /\ (i = 0 => a = 0)
  BY <1>3, <1>4, <1>5
<1>8. (i < j <=> a < b) /\ (i = j <=> a = b) /\ (i = 0 <=> a = 0)
  <2>. HIDE DEF i, j, a, b
  <2>. QED BY <1>6, <1>7
<1>9. v.s = w.s /\ WordOf(v) = WordOf(w) => v = w
  BY NotMoved, Zenon DEF WordOf
<1>. QED BY <1>2, <1>6, <1>8, <1>9

LEMMA LessAndEqual ==
  ASSUME NEW v \in Values, NEW w \in Values
  PROVE  /\ Lt(v, w) <=> ~ IsNaN(v) /\ ~ IsNaN(w) /\ Ref!Signed(v) < Ref!Signed(w)
         /\ Eq(v, w) <=> ~ IsNaN(v) /\ ~ IsNaN(w) /\ Ref!Signed(v) = Ref!Signed(w)
<1>1. CASE IsNaN(v) \/ IsNaN(w)
  BY <1>1 DEF Lt, Eq
<1>2. CASE ~ IsNaN(v) /\ ~ IsNaN(w)
  <2>. DEFINE i == WordOf(v)
              j == WordOf(w)
              a == Ref!Mag(v)
              b == Ref!Mag(w)
  <2>1. /\ i \in Nat /\ j \in Nat /\ a \in Nat /\ b \in Nat
        /\ i < j <=> a < b
        /\ i = j <=> a = b
        /\ v.s = w.s /\ i = j => v = w
        /\ IsZero(v) <=> a = 0
    BY <1>2, WordOrder
  <2>2. j < i <=> b < a
    BY <1>2, WordOrder
  <2>3. IsZero(w) <=> b = 0
    BY <1>2, WordOrder
  <2>4. v.s \in {0, 1} /\ w.s \in {0, 1}
    BY DEF Values
  <2>5. /\ Ref!Signed(v) = (IF v.s = 0 THEN a ELSE -a)
        /\ Ref!Signed(w) = (IF w.s = 0 THEN b ELSE -b)
    BY Zenon DEF Ref!Signed
  <2>6. Lt(v, w) <=> /\ ~ (IsZero(v) /\ IsZero(w))
                     /\ IF v.s # w.s THEN v.s = 1 ELSE IF v.s = 1 THEN i > j ELSE i < j
    BY <1>2, Zenon DEF Lt
  <2>7. Eq(v, w) <=> (IsZero(v) /\ IsZero(w)) \/ v = w
    BY <1>2, Zenon DEF Eq
  <2>8. v = w => i = j /\ v.s = w.s
    OBVIOUS
  <2>. HIDE DEF i, j, a, b
  <2>9. Lt(v, w) <=> Ref!Signed(v) < Ref!Signed(w)
    BY <2>1, <2>2, <2>3, <2>4, <2>5, <2>6
  <2>10. Eq(v, w) <=> Ref!Signed(v) = Ref!Signed(w)
    BY <2>1, <2>2, <2>3, <2>4, <2>5, <2>7, <2>8
  <2>. QED BY <1>2, <2>9, <2>10
<1>. QED BY <1>1, <1>2

---------------------------------------------------------------------------
(* To integers.                                                            *)
LEMMA ZeroNearest ==
  ASSUME NEW v \in Values, IsZero(v), NEW md \in Modes
  PROVE  NearestTo(v, md) = 0 /\ Integral(v)
<1>1. ~ IsNaN(v) /\ v.s \in {0, 1}
  <2>1. ExpMax >= 3
    BY Fields
  <2>. QED BY <2>1 DEF IsNaN, IsZero, Values
<1>2. Ref!Mag(v) = 0 * One
  <2>1. Ref!Mag(v) = 0
    BY <1>1, WordOrder
  <2>2. 0 * One = 0
    BY OneIs
  <2>. QED BY <2>1, <2>2
<1>3. Ref!NearestInteger(v.s, 0 * One, One, md) = 0 /\ (0 * One) % One = 0
  BY <1>1, WholeNearest
<1>. QED BY <1>2, <1>3, Zenon DEF NearestTo, Integral

LEMMA RegularNearest ==
  ASSUME NEW v \in Values, Regular(v), NEW md \in Modes
  PROVE  /\ NearestTo(v, md) \in Nat
         /\ Exponent(v) >= IntBits => Pow2[IntBits] <= NearestTo(v, md)
         /\ ~ (Exponent(v) >= IntBits) =>
              RoundedInteger(v, md) = [mag |-> NearestTo(v, md), inexact |-> ~ Integral(v)]
<1>1. Exponent(v) \in Int
  BY ValueWeighs
<1>2. CASE Exponent(v) < FracBits
  <2>1. /\ RoundedInteger(v, md) = [mag |-> NearestTo(v, md), inexact |-> Ref!Mag(v) % One # 0]
        /\ NearestTo(v, md) \in Nat
    BY <1>2, PartRounded
  <2>2. (Ref!Mag(v) % One # 0) = (~ Integral(v))
    BY DEF Integral
  <2>3. Exponent(v) >= IntBits => Pow2[IntBits] <= NearestTo(v, md)
    BY BeyondNearest
  <2>. QED BY <2>1, <2>2, <2>3
<1>3. CASE FracBits <= Exponent(v)
  <2>1. Exponent(v) >= IntBits => Pow2[IntBits] <= NearestTo(v, md) /\ NearestTo(v, md) \in Nat
    BY BeyondNearest
  <2>2. ~ (Exponent(v) >= IntBits) =>
          /\ RoundedInteger(v, md) = [mag |-> NearestTo(v, md), inexact |-> FALSE]
          /\ Integral(v) /\ NearestTo(v, md) \in Nat
    BY <1>1, <1>3, OneIs, WholeRounded DEF Integral
  <2>3. Integral(v) => FALSE = (~ Integral(v))
    OBVIOUS
  <2>. QED BY <2>1, <2>2, <2>3
<1>. QED BY <1>1, <1>2, <1>3, OneIs

LEMMA NumberKinds ==
  ASSUME NEW v \in Values
  PROVE  /\ IsNaN(v) \/ IsInf(v) \/ IsZero(v) \/ Regular(v)
         /\ IsInf(v) => ~ IsNaN(v) /\ ~ IsZero(v)
         /\ IsZero(v) => ~ IsNaN(v) /\ ~ IsInf(v)
         /\ Regular(v) => ~ IsNaN(v) /\ ~ IsInf(v) /\ ~ IsZero(v)
         /\ v.s \in {0, 1}
<1>1. ExpMax >= 3
  BY Fields
<1>. QED BY <1>1 DEF IsNaN, IsInf, IsZero, Regular, Finite, Values

LEMMA IntegerPowers ==
  /\ Pow2[IntBits] \in Nat /\ Pow2[IntBits] >= 2 /\ Pow2[IntBits] = 2 * Pow2[IntBits - 1]
  /\ Pow2[IntBits - 1] \in Nat /\ Pow2[IntBits - 1] >= 1
  /\ Pow2[ShortBits] \in Nat /\ Pow2[ShortBits] >= 1 /\ Pow2[ShortBits] <= Pow2[IntBits]
  /\ Pow2[ShortBits - 1] \in Nat /\ Pow2[ShortBits - 1] >= 1
  /\ Pow2[ShortBits - 1] <= Pow2[IntBits - 1]
  /\ Pow2[IntBits] < Pow2[BigBits] /\ Pow2[BigBits] \in Nat
<1>1. /\ ShortBits \in Nat /\ ShortBits >= 1 /\ ShortBits <= IntBits /\ IntBits \in Nat
      /\ IntBits < BigBits /\ BigBits <= MaxShift /\ MaxShift \in Nat /\ BigBits \in Nat
  BY BigAssumption, OneIs
<1>2. \A n \in 0..BigBits : Pow2[n] \in Nat /\ Pow2[n] >= 1
  BY <1>1, Pow2Positive
<1>3. \A m, n \in 0..BigBits : m <= n => Pow2[m] <= Pow2[n] /\ (m < n => 2 * Pow2[m] <= Pow2[n])
  BY <1>1, Pow2Monotone
<1>4. Pow2[(IntBits - 1) + 1] = 2 * Pow2[IntBits - 1]
  <2>1. IntBits - 1 \in Nat /\ (IntBits - 1) + 1 <= MaxShift
    BY <1>1
  <2>. QED BY <2>1, Pow2Step
<1>5. /\ IntBits \in 0..BigBits /\ IntBits - 1 \in 0..BigBits /\ ShortBits \in 0..BigBits
      /\ ShortBits - 1 \in 0..BigBits /\ BigBits \in 0..BigBits
      /\ ShortBits <= IntBits /\ ShortBits - 1 <= IntBits - 1 /\ IntBits < BigBits
      /\ (IntBits - 1) + 1 = IntBits
  BY <1>1
<1>6. /\ Pow2[IntBits] \in Nat /\ Pow2[IntBits - 1] \in Nat /\ Pow2[IntBits - 1] >= 1
      /\ Pow2[ShortBits] \in Nat /\ Pow2[ShortBits] >= 1
      /\ Pow2[ShortBits - 1] \in Nat /\ Pow2[ShortBits - 1] >= 1 /\ Pow2[BigBits] \in Nat
      /\ Pow2[IntBits] >= 1
  BY <1>2, <1>5
<1>7. /\ Pow2[ShortBits] <= Pow2[IntBits] /\ Pow2[ShortBits - 1] <= Pow2[IntBits - 1]
      /\ 2 * Pow2[IntBits] <= Pow2[BigBits]
  BY <1>1, <1>3, <1>5
<1>8. Pow2[IntBits] = 2 * Pow2[IntBits - 1]
  BY <1>4, <1>5
<1>. QED BY <1>6, <1>7, <1>8

LEMMA UnsignedIs ==
  ASSUME NEW v \in Values, NEW md \in Modes
  PROVE  /\ IsNaN(v) \/ v.s = 1 => ToUnsigned(v, md) = [res |-> 0, fe |-> {"invalid"}]
         /\ ~ IsNaN(v) /\ v.s # 1 =>
              /\ IsInf(v) => ToUnsigned(v, md) = [res |-> GreatestUnsigned, fe |-> {"invalid"}]
              /\ ~ IsInf(v) =>
                   /\ NearestTo(v, md) \in Nat
                   /\ NearestTo(v, md) > GreatestUnsigned =>
                        ToUnsigned(v, md) = [res |-> GreatestUnsigned, fe |-> {"invalid"}]
                   /\ NearestTo(v, md) <= GreatestUnsigned =>
                        ToUnsigned(v, md) = [res |-> NearestTo(v, md),
                                             fe |-> FlagIf("inexact", ~ Integral(v))]
<1>1. CASE IsNaN(v)
  BY <1>1, Zenon DEF ToUnsigned, Invalid, Outcome
<1>2. ASSUME ~ IsNaN(v), IsInf(v) \/ v.s = 1
      PROVE  /\ v.s = 1 => ToUnsigned(v, md) = [res |-> 0, fe |-> {"invalid"}]
             /\ v.s # 1 => ToUnsigned(v, md) = [res |-> GreatestUnsigned, fe |-> {"invalid"}]
  <2>1. ToUnsigned(v, md) = [res |-> IF v.s = 1 THEN 0 ELSE GreatestUnsigned, fe |-> {"invalid"}]
    BY <1>2, Zenon DEF ToUnsigned, Invalid, Outcome
  <2>. QED BY <2>1
<1>. DEFINE m == NearestTo(v, md)
            good == /\ m \in Nat
                    /\ m > GreatestUnsigned =>
                         ToUnsigned(v, md) = [res |-> GreatestUnsigned, fe |-> {"invalid"}]
                    /\ m <= GreatestUnsigned =>
                         ToUnsigned(v, md) = [res |-> m, fe |-> FlagIf("inexact", ~ Integral(v))]
<1>3. ASSUME IsZero(v), v.s # 1 PROVE good
  <2>1. NearestTo(v, md) = 0 /\ Integral(v) /\ ~ IsNaN(v) /\ ~ IsInf(v)
    BY <1>3, ZeroNearest, NumberKinds
  <2>2. ToUnsigned(v, md) = [res |-> 0, fe |-> {}]
    BY <1>3, <2>1, Zenon DEF ToUnsigned, Outcome
  <2>3. FlagIf("inexact", ~ Integral(v)) = {}
    BY <2>1 DEF FlagIf
  <2>4. GreatestUnsigned \in Nat
    BY IntegerPowers DEF GreatestUnsigned
  <2>5. 0 \in Nat /\ ~ (0 > GreatestUnsigned)
    BY <2>4
  <2>6. m = 0
    BY <2>1
  <2>. HIDE DEF m
  <2>. QED BY <2>2, <2>3, <2>5, <2>6, Zenon
<1>4. ASSUME Regular(v), v.s # 1 PROVE good
  <2>1. ~ IsNaN(v) /\ ~ IsInf(v) /\ ~ IsZero(v)
    BY <1>4, NumberKinds
  <2>. DEFINE n == NearestTo(v, md)
              r == RoundedInteger(v, md)
  <2>2. /\ n \in Nat
        /\ Exponent(v) >= IntBits => Pow2[IntBits] <= n
        /\ ~ (Exponent(v) >= IntBits) => r = [mag |-> n, inexact |-> ~ Integral(v)]
    BY <1>4, RegularNearest
  <2>3. ToUnsigned(v, md) =
          IF Exponent(v) >= IntBits \/ r.mag >= Pow2[IntBits]
          THEN [res |-> GreatestUnsigned, fe |-> {"invalid"}]
          ELSE [res |-> r.mag, fe |-> InexactFlag(r)]
    BY <1>4, <2>1, Zenon DEF ToUnsigned, Invalid, Outcome
  <2>4. GreatestUnsigned \in Nat /\ (n > GreatestUnsigned <=> n >= Pow2[IntBits])
    BY <2>2, IntegerPowers DEF GreatestUnsigned
  <2>. HIDE DEF n, r
  <2>. DEFINE goal == /\ n \in Nat
                      /\ n > GreatestUnsigned =>
                           ToUnsigned(v, md) = [res |-> GreatestUnsigned, fe |-> {"invalid"}]
                      /\ n <= GreatestUnsigned =>
                           ToUnsigned(v, md) = [res |-> n, fe |-> FlagIf("inexact", ~ Integral(v))]
  <2>5. ASSUME Exponent(v) >= IntBits PROVE goal
    <3>1. n > GreatestUnsigned
      BY <2>2, <2>4, <2>5, IntegerPowers
    <3>2. ToUnsigned(v, md) = [res |-> GreatestUnsigned, fe |-> {"invalid"}]
      BY <2>3, <2>5, Zenon
    <3>3. ~ (n <= GreatestUnsigned)
      BY <2>2, <2>4, <3>1
    <3>. QED BY <2>2, <3>1, <3>2, <3>3, Zenon
  <2>6. ASSUME ~ (Exponent(v) >= IntBits) PROVE goal
    <3>1. r.mag = n /\ InexactFlag(r) = FlagIf("inexact", ~ Integral(v))
      <4>1. r = [mag |-> n, inexact |-> ~ Integral(v)]
        BY <2>2, <2>6, Zenon
      <4>2. r.mag = n /\ (r.inexact <=> ~ Integral(v))
        BY <4>1, Zenon
      <4>. QED BY <4>2, Zenon DEF InexactFlag, FlagIf
    <3>2. n > GreatestUnsigned => ToUnsigned(v, md) = [res |-> GreatestUnsigned, fe |-> {"invalid"}]
      BY <2>3, <2>4, <3>1, Zenon
    <3>3. n <= GreatestUnsigned =>
            ToUnsigned(v, md) = [res |-> n, fe |-> FlagIf("inexact", ~ Integral(v))]
      <4>1. n <= GreatestUnsigned => ~ (n >= Pow2[IntBits])
        BY <2>2, <2>4
      <4>. QED BY <2>3, <2>6, <3>1, <4>1, Zenon
    <3>. QED BY <2>2, <3>2, <3>3, Zenon
  <2>7. goal
    BY <2>5, <2>6, Zenon
  <2>. QED BY <2>7, Zenon DEF n
<1>5. IsNaN(v) \/ IsInf(v) \/ IsZero(v) \/ Regular(v)
  BY NumberKinds
<1>6. IsNaN(v) \/ v.s = 1 => ToUnsigned(v, md) = [res |-> 0, fe |-> {"invalid"}]
  BY <1>1, <1>2, Zenon
<1>. QED BY <1>2, <1>3, <1>4, <1>5, <1>6, Zenon

LEMMA SignedIs ==
  ASSUME NEW v \in Values, NEW md \in Modes
  PROVE  LET limit == Pow2[IntBits - 1]
             n == IF v.s = 1 THEN -NearestTo(v, md) ELSE NearestTo(v, md)
             sat == IF v.s = 1 THEN -limit ELSE limit - 1
         IN  /\ IsNaN(v) => ToSigned(v, md) = [res |-> 0, fe |-> {"invalid"}]
             /\ ~ IsNaN(v) =>
                  /\ IsInf(v) => ToSigned(v, md) = [res |-> sat, fe |-> {"invalid"}]
                  /\ ~ IsInf(v) =>
                       /\ n \in Int
                       /\ n \notin -limit..(limit - 1) =>
                            ToSigned(v, md) = [res |-> sat, fe |-> {"invalid"}]
                       /\ n \in -limit..(limit - 1) =>
                            ToSigned(v, md) = [res |-> n, fe |-> FlagIf("inexact", ~ Integral(v))]
<1>. DEFINE limit == Pow2[IntBits - 1]
            m == NearestTo(v, md)
            n == IF v.s = 1 THEN -m ELSE m
            sat == IF v.s = 1 THEN -limit ELSE limit - 1
            cap == IF v.s = 1 THEN limit ELSE limit - 1
            edge == IF v.s = 1 THEN -cap ELSE cap
            good == /\ n \in Int
                    /\ n \notin -limit..(limit - 1) =>
                         ToSigned(v, md) = [res |-> sat, fe |-> {"invalid"}]
                    /\ n \in -limit..(limit - 1) =>
                         ToSigned(v, md) = [res |-> n, fe |-> FlagIf("inexact", ~ Integral(v))]
<1>0. limit \in Nat /\ limit >= 1 /\ Pow2[IntBits] = 2 * limit /\ sat = edge
  BY IntegerPowers
<1>1. IsNaN(v) => ToSigned(v, md) = [res |-> 0, fe |-> {"invalid"}]
  BY Zenon DEF ToSigned, Invalid, Outcome
<1>2. ASSUME ~ IsNaN(v), IsInf(v)
      PROVE  ToSigned(v, md) = [res |-> sat, fe |-> {"invalid"}]
  <2>1. ToSigned(v, md) = [res |-> edge, fe |-> {"invalid"}]
    BY <1>2, Zenon DEF ToSigned, Invalid, Outcome
  <2>. QED BY <1>0, <2>1, Zenon
<1>3. ASSUME IsZero(v) PROVE good
  <2>1. m = 0 /\ Integral(v) /\ ~ IsNaN(v) /\ ~ IsInf(v)
    BY <1>3, ZeroNearest, NumberKinds
  <2>2. ToSigned(v, md) = [res |-> 0, fe |-> {}]
    BY <1>3, <2>1, Zenon DEF ToSigned, Outcome
  <2>3. FlagIf("inexact", ~ Integral(v)) = {}
    BY <2>1 DEF FlagIf
  <2>4. n = 0
    <3>1. m = 0 /\ (v.s = 1 => n = -m) /\ (v.s # 1 => n = m)
      BY <2>1, Zenon
    <3>. HIDE DEF m, n
    <3>. QED BY <3>1
  <2>. HIDE DEF n, m, sat, cap, edge, limit
  <2>5. 0 \in Int /\ 0 \in -limit..(limit - 1)
    BY <1>0
  <2>. QED BY <2>2, <2>3, <2>4, <2>5, Zenon
<1>4. ASSUME Regular(v) PROVE good
  <2>1. ~ IsNaN(v) /\ ~ IsInf(v) /\ ~ IsZero(v) /\ v.s \in {0, 1}
    BY <1>4, NumberKinds
  <2>. DEFINE r == RoundedInteger(v, md)
  <2>2. /\ m \in Nat
        /\ Exponent(v) >= IntBits => Pow2[IntBits] <= m
        /\ ~ (Exponent(v) >= IntBits) => r = [mag |-> m, inexact |-> ~ Integral(v)]
    BY <1>4, RegularNearest
  <2>3. ToSigned(v, md) =
          IF Exponent(v) >= IntBits \/ r.mag > cap
          THEN [res |-> edge, fe |-> {"invalid"}]
          ELSE [res |-> IF v.s = 1 THEN -r.mag ELSE r.mag, fe |-> InexactFlag(r)]
    BY <2>1, Zenon DEF ToSigned, Invalid, Outcome
  <2>4. n \in Int /\ (m > cap <=> n \notin -limit..(limit - 1)) /\ cap < 2 * limit /\ cap \in Int
    <3>. HIDE DEF m, limit
    <3>. QED BY <1>0, <2>1, <2>2
  <2>. HIDE DEF m, n, r, cap, edge, sat, limit
  <2>5. ASSUME Exponent(v) >= IntBits PROVE good
    <3>1. m > cap
      BY <1>0, <2>2, <2>4, <2>5
    <3>2. ToSigned(v, md) = [res |-> sat, fe |-> {"invalid"}]
      BY <1>0, <2>3, <2>5, Zenon
    <3>. QED BY <2>4, <3>1, <3>2, Zenon
  <2>6. ASSUME ~ (Exponent(v) >= IntBits) PROVE good
    <3>1. r.mag = m /\ InexactFlag(r) = FlagIf("inexact", ~ Integral(v))
      <4>1. r = [mag |-> m, inexact |-> ~ Integral(v)]
        BY <2>2, <2>6, Zenon
      <4>2. r.mag = m /\ (r.inexact <=> ~ Integral(v))
        BY <4>1, Zenon
      <4>. QED BY <4>2, Zenon DEF InexactFlag, FlagIf
    <3>2. m > cap => ToSigned(v, md) = [res |-> sat, fe |-> {"invalid"}]
      BY <1>0, <2>3, <3>1, Zenon
    <3>3. ~ (m > cap) => ToSigned(v, md) = [res |-> n, fe |-> FlagIf("inexact", ~ Integral(v))]
      BY <2>3, <2>6, <3>1, Zenon DEF n
    <3>. QED BY <2>4, <3>2, <3>3, Zenon
  <2>. QED BY <2>5, <2>6
<1>5. IsNaN(v) \/ IsInf(v) \/ IsZero(v) \/ Regular(v)
  BY NumberKinds
<1>. QED BY <1>1, <1>2, <1>3, <1>4, <1>5, Zenon

LEMMA UnsignedSaturated ==
  ASSUME NEW v \in Values, NEW md \in Modes, NEW g \in 0..GreatestUnsigned
  PROVE  LET r == Saturated(ToUnsigned(v, md), 0, g) IN
         /\ IsNaN(v) \/ v.s = 1 => r = [res |-> 0, fe |-> {"invalid"}]
         /\ ~ IsNaN(v) /\ v.s # 1 =>
              IF IsInf(v) \/ NearestTo(v, md) > g THEN r.res = g /\ "invalid" \in r.fe
              ELSE r = [res |-> NearestTo(v, md), fe |-> FlagIf("inexact", ~ Integral(v))]
<1>. DEFINE m == NearestTo(v, md)
            t == ToUnsigned(v, md)
            r == Saturated(t, 0, g)
            top == GreatestUnsigned
<1>1. /\ IsNaN(v) \/ v.s = 1 => t = [res |-> 0, fe |-> {"invalid"}]
      /\ ~ IsNaN(v) /\ v.s # 1 =>
           /\ IsInf(v) => t = [res |-> top, fe |-> {"invalid"}]
           /\ ~ IsInf(v) =>
                /\ m \in Nat
                /\ m > top => t = [res |-> top, fe |-> {"invalid"}]
                /\ m <= top => t = [res |-> m, fe |-> FlagIf("inexact", ~ Integral(v))]
  BY UnsignedIs
<1>2. g \in Nat /\ top \in Nat /\ g <= top
  BY IntegerPowers DEF GreatestUnsigned
<1>3. r = IF t.res > g THEN [res |-> g, fe |-> t.fe \cup {"invalid"}]
          ELSE IF t.res < 0 THEN [res |-> 0, fe |-> t.fe \cup {"invalid"}] ELSE t
  BY Zenon DEF Saturated, Outcome
<1>. HIDE DEF m, t, r, top
<1>4. ASSUME IsNaN(v) \/ v.s = 1 PROVE r = [res |-> 0, fe |-> {"invalid"}]
  <2>1. t.res = 0 /\ ~ (0 > g) /\ ~ (0 < 0) /\ t = [res |-> 0, fe |-> {"invalid"}]
    BY <1>1, <1>2, <1>4
  <2>. QED BY <1>3, <2>1, Zenon
<1>5. ASSUME ~ IsNaN(v), v.s # 1, IsInf(v) PROVE r.res = g /\ "invalid" \in r.fe
  <2>1. t.res = top /\ t.fe = {"invalid"}
    BY <1>1, <1>5
  <2>2. ~ (top < 0) /\ (~ (top > g) => top = g)
    BY <1>2
  <2>. QED BY <1>3, <2>1, <2>2
<1>6. ASSUME ~ IsNaN(v), v.s # 1, ~ IsInf(v)
      PROVE  IF m > g THEN r.res = g /\ "invalid" \in r.fe
             ELSE r = [res |-> m, fe |-> FlagIf("inexact", ~ Integral(v))]
  <2>1. m \in Nat
    BY <1>1, <1>6
  <2>2. CASE m > top
    <3>1. t.res = top /\ t.fe = {"invalid"} /\ m > g
      BY <1>1, <1>2, <1>6, <2>1, <2>2
    <3>2. ~ (top < 0) /\ (~ (top > g) => top = g)
      BY <1>2
    <3>. QED BY <1>3, <3>1, <3>2
  <2>3. CASE m <= top
    <3>1. t = [res |-> m, fe |-> FlagIf("inexact", ~ Integral(v))]
      BY <1>1, <1>6, <2>3, Zenon
    <3>2. t.res = m /\ ~ (m < 0)
      BY <2>1, <3>1
    <3>3. m > g => r.res = g /\ "invalid" \in r.fe
      BY <1>3, <3>2
    <3>4. ~ (m > g) => r = t
      BY <1>3, <3>2, Zenon
    <3>. QED BY <3>1, <3>3, <3>4, Zenon
  <2>4. m > top \/ m <= top
    BY <1>2, <2>1
  <2>. QED BY <2>2, <2>3, <2>4
<1>. QED BY <1>4, <1>5, <1>6, Zenon DEF m, t, r

LEMMA SignedSaturated ==
  ASSUME NEW v \in Values, NEW md \in Modes, NEW p \in 1..Pow2[IntBits - 1]
  PROVE  LET r == Saturated(ToSigned(v, md), -p, p - 1)
             n == IF v.s = 1 THEN -NearestTo(v, md) ELSE NearestTo(v, md)
         IN  /\ IsNaN(v) => r = [res |-> 0, fe |-> {"invalid"}]
             /\ ~ IsNaN(v) =>
                  IF IsInf(v) \/ n \notin -p..(p - 1)
                  THEN r.res = (IF v.s = 1 THEN -p ELSE p - 1) /\ "invalid" \in r.fe
                  ELSE r = [res |-> n, fe |-> FlagIf("inexact", ~ Integral(v))]
<1>. DEFINE m == NearestTo(v, md)
            n == IF v.s = 1 THEN -m ELSE m
            t == ToSigned(v, md)
            r == Saturated(t, -p, p - 1)
            limit == Pow2[IntBits - 1]
            sat == IF v.s = 1 THEN -limit ELSE limit - 1
            edge == IF v.s = 1 THEN -p ELSE p - 1
<1>1. /\ IsNaN(v) => t = [res |-> 0, fe |-> {"invalid"}]
      /\ ~ IsNaN(v) =>
           /\ IsInf(v) => t = [res |-> sat, fe |-> {"invalid"}]
           /\ ~ IsInf(v) =>
                /\ n \in Int
                /\ n \notin -limit..(limit - 1) => t = [res |-> sat, fe |-> {"invalid"}]
                /\ n \in -limit..(limit - 1) =>
                     t = [res |-> n, fe |-> FlagIf("inexact", ~ Integral(v))]
  BY SignedIs, Zenon
<1>2. p \in Nat /\ p >= 1 /\ limit \in Nat /\ p <= limit
  BY IntegerPowers
<1>3. r = IF t.res > p - 1 THEN [res |-> p - 1, fe |-> t.fe \cup {"invalid"}]
          ELSE IF t.res < -p THEN [res |-> -p, fe |-> t.fe \cup {"invalid"}] ELSE t
  BY Zenon DEF Saturated, Outcome
<1>4. ~ IsNaN(v) /\ ~ IsInf(v) => m \in Nat
  <2>1. IsZero(v) => m = 0
    BY ZeroNearest
  <2>2. Regular(v) => m \in Nat
    BY RegularNearest
  <2>. QED BY <2>1, <2>2, NumberKinds
<1>5. v.s \in {0, 1}
  BY NumberKinds
<1>6. ~ IsNaN(v) /\ ~ IsInf(v) =>
        /\ (n > p - 1 => v.s # 1) /\ (n < -p => v.s = 1)
  <2>. HIDE DEF m
  <2>. QED BY <1>2, <1>4, <1>5
<1>7. /\ v.s = 1 => sat = -limit /\ edge = -p
      /\ v.s # 1 => sat = limit - 1 /\ edge = p - 1
  OBVIOUS
<1>. HIDE DEF m, n, t, r, limit, sat, edge
<1>8. ASSUME IsNaN(v) PROVE r = [res |-> 0, fe |-> {"invalid"}]
  <2>1. ~ (0 > p - 1) /\ ~ (0 < -p)
    BY <1>2
  <2>2. t.res = 0 /\ t = [res |-> 0, fe |-> {"invalid"}]
    BY <1>1, <1>8
  <2>. QED BY <1>3, <2>1, <2>2, Zenon
<1>9. ASSUME t.res = sat, t.fe = {"invalid"} PROVE r.res = edge /\ "invalid" \in r.fe
  <2>1. CASE v.s = 1
    <3>1. t.res = -limit /\ edge = -p
      BY <1>7, <1>9, <2>1
    <3>2. ~ (-limit > p - 1) /\ (~ (-limit < -p) => -limit = -p)
      BY <1>2
    <3>. QED BY <1>3, <1>9, <3>1, <3>2
  <2>2. CASE v.s # 1
    <3>1. t.res = limit - 1 /\ edge = p - 1
      BY <1>7, <1>9, <2>2
    <3>2. ~ (limit - 1 < -p) /\ (~ (limit - 1 > p - 1) => limit - 1 = p - 1)
      BY <1>2
    <3>. QED BY <1>3, <1>9, <3>1, <3>2
  <2>. QED BY <2>1, <2>2
<1>10. ASSUME ~ IsNaN(v), IsInf(v) PROVE r.res = edge /\ "invalid" \in r.fe
  <2>1. t.res = sat /\ t.fe = {"invalid"}
    BY <1>1, <1>10
  <2>. QED BY <1>9, <2>1
<1>11. ASSUME ~ IsNaN(v), ~ IsInf(v)
       PROVE  IF n \notin -p..(p - 1) THEN r.res = edge /\ "invalid" \in r.fe
              ELSE r = [res |-> n, fe |-> FlagIf("inexact", ~ Integral(v))]
  <2>1. n \in Int
    BY <1>1, <1>11
  <2>2. CASE n \notin -limit..(limit - 1)
    <3>1. t.res = sat /\ t.fe = {"invalid"}
      BY <1>1, <1>11, <2>2
    <3>2. n \notin -p..(p - 1)
      BY <1>2, <2>1, <2>2
    <3>. QED BY <1>9, <3>1, <3>2
  <2>3. CASE n \in -limit..(limit - 1)
    <3>1. t = [res |-> n, fe |-> FlagIf("inexact", ~ Integral(v))]
      BY <1>1, <1>11, <2>3, Zenon
    <3>2. t.res = n
      BY <3>1
    <3>3. n \notin -p..(p - 1) => r.res = edge /\ "invalid" \in r.fe
      <4>1. CASE n > p - 1
        <5>1. edge = p - 1
          BY <1>6, <1>7, <1>11, <4>1
        <5>. QED BY <1>3, <3>2, <4>1, <5>1
      <4>2. CASE n < -p
        <5>1. edge = -p /\ ~ (n > p - 1)
          BY <1>2, <1>6, <1>7, <1>11, <2>1, <4>2
        <5>. QED BY <1>3, <3>2, <4>2, <5>1
      <4>. QED BY <1>2, <2>1, <4>1, <4>2
    <3>4. n \in -p..(p - 1) => r = t
      <4>1. n \in -p..(p - 1) => ~ (n > p - 1) /\ ~ (n < -p)
        BY <1>2, <2>1
      <4>. QED BY <1>3, <3>2, <4>1, Zenon
    <3>. QED BY <3>1, <3>3, <3>4, Zenon
  <2>. QED BY <2>2, <2>3
<1>. QED BY <1>8, <1>10, <1>11, Zenon DEF m, n, t, r, edge

LEMMA ConversionOperands ==
  ASSUME call \in Calls
  PROVE  /\ call.op \in {"rint", "to_f64", "to_u64", "to_i64", "to_u32", "to_i32", "eq", "lt", "le"} =>
              A \in Values /\ call.a \in Values /\ call.mode \in Modes
         /\ call.op \in {"to_u32", "to_i32"} => call.mode = "RTZ"
         /\ call.op \in {"eq", "lt", "le"} => B \in Values /\ B = call.b
         /\ call.op = "from_u64" => A \in Unsigned
         /\ call.op = "from_i64" => A \in Signed
         /\ call.op = "from_f64" => A \in Narrow
<1>1. Unused \subseteq Values /\ "RNE" \in Modes /\ "RTZ" \in Modes
  BY SpecialResults DEF Unused, Modes
<1>2. call.op \in {"rint", "to_f64", "to_u64", "to_i64", "to_u32", "to_i32", "eq", "lt", "le"} =>
        call.a \in Values /\ call.mode \in Modes
  BY <1>1 DEF Calls, Call, Arithmetic
<1>3. /\ call.op \in {"to_u32", "to_i32"} => call.mode = "RTZ"
      /\ call.op \in {"eq", "lt", "le"} => call.b \in Values
  BY DEF Calls, Call, Arithmetic
<1>4. /\ call.op = "from_u64" => call.a \in Unsigned
      /\ call.op = "from_i64" => call.a \in Signed
      /\ call.op = "from_f64" => call.a \in Narrow
  BY DEF Calls, Call, Arithmetic
<1>. QED BY <1>2, <1>3, <1>4 DEF A, B

---------------------------------------------------------------------------
LEMMA ComputedGives ==
  ASSUME NEW c, c.op \in Computed, NEW r, NEW g
  PROVE  Gives(c, r, g)
  BY DEF Gives, Computed, Arithmetic

LEMMA ComputedStays ==
  ASSUME IInv', call.op \in Computed, call' = call, pc' # "enter"
  PROVE  CInv'
<1>1. call'.op \in Computed
  BY Zenon
<1>2. \A r, g : Gives(call', r, g)
  BY <1>1, ComputedGives
<1>. QED BY <1>2, Zenon DEF CInv, Pending

LEMMA DoneGives ==
  ASSUME IInv', NEW v, NEW flags, Done(v, flags), fe = {}, Gives(call, v, flags)
  PROVE  CInv'
<1>1. pc' = "done" /\ res' = v /\ fe' = flags /\ call' = call
  BY DEF Done
<1>2. Gives(call', res', fe')
  BY <1>1, Zenon
<1>3. pc' # "enter" /\ pc' # "pack"
  BY <1>1
<1>. QED BY <1>2, <1>3, Zenon DEF CInv

LEMMA PackPends ==
  ASSUME IInv', NEW s, NEW mag, NEW scale, NEW md, NEW flags, ToPack(s, mag, scale, md, flags),
         fe = {},
         LET r == PackScaled(s, mag, scale, md) IN Gives(call, r.res, flags \cup r.fe)
  PROVE  CInv'
<1>. DEFINE w == [sign |-> s, mag |-> mag, scale |-> scale, mode |-> md]
<1>1. pc' = "pack" /\ z' = w /\ fe' = flags /\ call' = call
  BY DEF ToPack
<1>2. w.sign = s /\ w.mag = mag /\ w.scale = scale /\ w.mode = md
  OBVIOUS
<1>3. Pending(call, w, flags)
  <2>. HIDE DEF w
  <2>. QED BY <1>2, Zenon DEF Pending
<1>4. Pending(call', z', fe')
  BY <1>1, <1>3, Zenon
<1>5. pc' # "enter" /\ pc' # "done"
  BY <1>1
<1>. QED BY <1>4, <1>5, Zenon DEF CInv

LEMMA PackStepGives ==
  ASSUME CInv, IInv', PackStep
  PROVE  CInv'
<1>. DEFINE r == PackScaled(z.sign, z.mag, z.scale, z.mode)
<1>1. pc = "pack" /\ pc' = "done" /\ res' = r.res /\ fe' = fe \cup r.fe /\ call' = call
  BY DEF PackStep, Done
<1>2. Gives(call, r.res, fe \cup r.fe)
  BY <1>1, Zenon DEF CInv, Pending
<1>. HIDE DEF r
<1>3. Gives(call', res', fe')
  BY <1>1, <1>2, Zenon
<1>4. pc' # "enter" /\ pc' # "pack"
  BY <1>1
<1>. QED BY <1>3, <1>4, Zenon DEF CInv

LEMMA ConversionFacts ==
  ASSUME CInv, pc = "enter"
  PROVE  call \in Calls /\ fe = {}
  BY DEF CInv, IInv

---------------------------------------------------------------------------
LEMMA ToIntegerRight ==
  ASSUME CInv, IInv', ToInteger
  PROVE  CInv'
<1>1. pc = "enter" /\ call.op \in {"to_u64", "to_i64", "to_u32", "to_i32"}
  BY DEF ToInteger, Is
<1>2. call \in Calls /\ fe = {}
  BY <1>1, ConversionFacts
<1>3. A \in Values /\ call.mode \in Modes /\ A = call.a
      /\ (call.op \in {"to_u32", "to_i32"} => call.mode = "RTZ")
  BY <1>1, <1>2, ConversionOperands DEF A
<1>4. /\ Pow2[IntBits] \in Nat /\ Pow2[IntBits] = 2 * Pow2[IntBits - 1]
      /\ Pow2[ShortBits] \in Nat /\ Pow2[ShortBits] >= 1 /\ Pow2[ShortBits] <= Pow2[IntBits]
      /\ Pow2[ShortBits - 1] \in Nat /\ Pow2[ShortBits - 1] >= 1
      /\ Pow2[ShortBits - 1] <= Pow2[IntBits - 1] /\ Pow2[IntBits - 1] \in Nat
      /\ Pow2[IntBits - 1] >= 1 /\ Pow2[IntBits] >= 2
  BY IntegerPowers
<1>5. CASE call.op = "to_u64"
  <2>. DEFINE r == ToUnsigned(A, call.mode)
              m == NearestTo(A, call.mode)
  <2>1. /\ IsNaN(A) \/ A.s = 1 => r = [res |-> 0, fe |-> {"invalid"}]
        /\ ~ IsNaN(A) /\ A.s # 1 =>
             /\ IsInf(A) => r = [res |-> GreatestUnsigned, fe |-> {"invalid"}]
             /\ ~ IsInf(A) =>
                  /\ m \in Nat
                  /\ m > GreatestUnsigned => r = [res |-> GreatestUnsigned, fe |-> {"invalid"}]
                  /\ m <= GreatestUnsigned => r = [res |-> m, fe |-> FlagIf("inexact", ~ Integral(A))]
    BY <1>3, UnsignedIs
  <2>2. GreatestUnsigned \in Nat /\ GreatestUnsigned = Pow2[IntBits] - 1
    BY <1>4 DEF GreatestUnsigned
  <2>3. Done(r.res, r.fe)
    BY <1>5 DEF ToInteger, Is
  <2>. HIDE DEF r, m
  <2>4. [res |-> r.res, fe |-> r.fe] = r
    <3>1. \E x, y : r = [res |-> x, fe |-> y]
      <4>1. m \in Nat => m > GreatestUnsigned \/ m <= GreatestUnsigned
        BY <2>2
      <4>. QED BY <2>1, <4>1, Zenon
    <3>. QED BY <3>1
  <2>5. m \in Nat => (~ (m > GreatestUnsigned) => m <= GreatestUnsigned)
    BY <2>2
  <2>6. IsInf(A) /\ r = [res |-> GreatestUnsigned, fe |-> {"invalid"}] =>
          r.res = GreatestUnsigned /\ "invalid" \in r.fe
    OBVIOUS
  <2>7. r = [res |-> GreatestUnsigned, fe |-> {"invalid"}] =>
          r.res = GreatestUnsigned /\ "invalid" \in r.fe
    OBVIOUS
  <2>8. IF IsNaN(A) \/ A.s = 1 THEN r = [res |-> 0, fe |-> {"invalid"}]
        ELSE IF IsInf(A) \/ m > GreatestUnsigned
        THEN r.res = GreatestUnsigned /\ "invalid" \in r.fe
        ELSE r = [res |-> m, fe |-> FlagIf("inexact", ~ Integral(A))]
    BY <2>1, <2>5, <2>7, Zenon
  <2>9. UnsignedGives(call, r.res, r.fe)
    <3>1. Pow2[IF call.op = "to_u64" THEN IntBits ELSE ShortBits] - 1 = GreatestUnsigned
      BY <1>5, <2>2, Zenon
    <3>. QED BY <1>3, <2>4, <2>8, <3>1, Zenon DEF UnsignedGives, m
  <2>10. Gives(call, r.res, r.fe)
    BY <1>5, <2>9 DEF Gives
  <2>. QED BY <1>2, <2>3, <2>10, DoneGives
<1>6. CASE call.op = "to_u32"
  <2>. DEFINE g == Pow2[ShortBits] - 1
              r == Saturated(ToUnsigned(A, "RTZ"), 0, g)
              m == NearestTo(A, "RTZ")
  <2>1. g \in 0..GreatestUnsigned /\ "RTZ" \in Modes /\ call.mode = "RTZ"
    BY <1>3, <1>4, <1>6 DEF GreatestUnsigned, Modes
  <2>2. /\ IsNaN(A) \/ A.s = 1 => r = [res |-> 0, fe |-> {"invalid"}]
        /\ ~ IsNaN(A) /\ A.s # 1 =>
             IF IsInf(A) \/ m > g THEN r.res = g /\ "invalid" \in r.fe
             ELSE r = [res |-> m, fe |-> FlagIf("inexact", ~ Integral(A))]
    <3>. HIDE DEF g
    <3>. QED BY <1>3, <2>1, UnsignedSaturated
  <2>3. Done(r.res, r.fe)
    BY <1>6 DEF ToInteger, Is
  <2>4. Pow2[IF call.op = "to_u64" THEN IntBits ELSE ShortBits] - 1 = g
    BY <1>6
  <2>. HIDE DEF r, m, g
  <2>5. \A x, y : r = [res |-> x, fe |-> y] => [res |-> r.res, fe |-> r.fe] = [res |-> x, fe |-> y]
    OBVIOUS
  <2>6. UnsignedGives(call, r.res, r.fe)
    BY <1>3, <2>1, <2>2, <2>4, <2>5, Zenon DEF UnsignedGives, m
  <2>7. Gives(call, r.res, r.fe)
    BY <1>6, <2>6 DEF Gives
  <2>. QED BY <1>2, <2>3, <2>7, DoneGives
<1>7. CASE call.op = "to_i64"
  <2>. DEFINE r == ToSigned(A, call.mode)
              m == NearestTo(A, call.mode)
              limit == Pow2[IntBits - 1]
              n == IF A.s = 1 THEN -m ELSE m
              sat == IF A.s = 1 THEN -limit ELSE limit - 1
  <2>1. /\ IsNaN(A) => r = [res |-> 0, fe |-> {"invalid"}]
        /\ ~ IsNaN(A) =>
             /\ IsInf(A) => r = [res |-> sat, fe |-> {"invalid"}]
             /\ ~ IsInf(A) =>
                  /\ n \in Int
                  /\ n \notin -limit..(limit - 1) => r = [res |-> sat, fe |-> {"invalid"}]
                  /\ n \in -limit..(limit - 1) =>
                       r = [res |-> n, fe |-> FlagIf("inexact", ~ Integral(A))]
    BY <1>3, SignedIs, Zenon
  <2>2. Done(r.res, r.fe)
    BY <1>7 DEF ToInteger, Is
  <2>3. Pow2[(IF call.op = "to_i64" THEN IntBits ELSE ShortBits) - 1] = limit
    BY <1>7, Zenon
  <2>4. (IF call.a.s = 1 THEN -NearestTo(call.a, call.mode) ELSE NearestTo(call.a, call.mode)) = n
        /\ (IF call.a.s = 1 THEN -limit ELSE limit - 1) = sat
    BY <1>3, Zenon
  <2>. HIDE DEF r, m, n, limit, sat
  <2>5. \A x, y : r = [res |-> x, fe |-> y] => [res |-> r.res, fe |-> r.fe] = [res |-> x, fe |-> y]
    OBVIOUS
  <2>6. r = [res |-> sat, fe |-> {"invalid"}] => r.res = sat /\ "invalid" \in r.fe
    OBVIOUS
  <2>7. SignedGives(call, r.res, r.fe)
    BY <1>3, <2>1, <2>3, <2>4, <2>5, <2>6, Zenon DEF SignedGives
  <2>8. Gives(call, r.res, r.fe)
    BY <1>7, <2>7 DEF Gives
  <2>. QED BY <1>2, <2>2, <2>8, DoneGives
<1>8. CASE call.op = "to_i32"
  <2>. DEFINE p == Pow2[ShortBits - 1]
              r == Saturated(ToSigned(A, "RTZ"), -p, p - 1)
              m == NearestTo(A, "RTZ")
              n == IF A.s = 1 THEN -m ELSE m
              sat == IF A.s = 1 THEN -p ELSE p - 1
  <2>1. p \in 1..Pow2[IntBits - 1] /\ "RTZ" \in Modes /\ call.mode = "RTZ"
    BY <1>3, <1>4, <1>8 DEF Modes
  <2>2. /\ IsNaN(A) => r = [res |-> 0, fe |-> {"invalid"}]
        /\ ~ IsNaN(A) =>
             IF IsInf(A) \/ n \notin -p..(p - 1)
             THEN r.res = sat /\ "invalid" \in r.fe
             ELSE r = [res |-> n, fe |-> FlagIf("inexact", ~ Integral(A))]
    <3>. HIDE DEF p
    <3>. QED BY <1>3, <2>1, SignedSaturated, Zenon
  <2>3. Done(r.res, r.fe)
    BY <1>8 DEF ToInteger, Is
  <2>4. Pow2[(IF call.op = "to_i64" THEN IntBits ELSE ShortBits) - 1] = p
    BY <1>8
  <2>5. (IF call.a.s = 1 THEN -NearestTo(call.a, call.mode) ELSE NearestTo(call.a, call.mode)) = n
        /\ (IF call.a.s = 1 THEN -p ELSE p - 1) = sat
    BY <1>3, <2>1, Zenon
  <2>. HIDE DEF r, m, n, p, sat
  <2>6. \A x, y : r = [res |-> x, fe |-> y] => [res |-> r.res, fe |-> r.fe] = [res |-> x, fe |-> y]
    OBVIOUS
  <2>7. SignedGives(call, r.res, r.fe)
    BY <1>3, <2>2, <2>4, <2>5, <2>6, Zenon DEF SignedGives
  <2>8. Gives(call, r.res, r.fe)
    BY <1>8, <2>7 DEF Gives
  <2>. QED BY <1>2, <2>3, <2>8, DoneGives
<1>. QED BY <1>1, <1>5, <1>6, <1>7, <1>8

LEMMA CompareRight ==
  ASSUME CInv, IInv', Compare
  PROVE  CInv'
<1>1. pc = "enter" /\ call.op \in {"eq", "lt", "le"}
  BY DEF Compare, Is
<1>2. call \in Calls /\ fe = {}
  BY <1>1, ConversionFacts
<1>3. A \in Values /\ B \in Values /\ A = call.a /\ B = call.b
  BY <1>1, <1>2, ConversionOperands DEF A
<1>. DEFINE less == Ref!Signed(A) < Ref!Signed(B)
            equal == Ref!Signed(A) = Ref!Signed(B)
            ordered == ~ IsNaN(A) /\ ~ IsNaN(B)
            v == CASE call.op = "eq" -> Eq(A, B)
                   [] call.op = "lt" -> Lt(A, B)
                   [] call.op = "le" -> Lt(A, B) \/ Eq(A, B)
            w == ordered /\ CASE call.op = "eq" -> equal
                              [] call.op = "lt" -> less
                              [] call.op = "le" -> less \/ equal
<1>4. Done(v, {})
  BY DEF Compare
<1>5. (Lt(A, B) <=> ordered /\ less) /\ (Eq(A, B) <=> ordered /\ equal)
  BY <1>3, LessAndEqual
<1>6. Lt(A, B) \in BOOLEAN /\ Eq(A, B) \in BOOLEAN
  BY DEF Lt, Eq
<1>7. v = w
  <2>1. CASE call.op = "eq"
    <3>1. v = Eq(A, B) /\ (w <=> ordered /\ equal)
      BY <2>1
    <3>2. w \in BOOLEAN
      <4>. HIDE DEF ordered
      <4>. QED BY Zenon
    <3>. HIDE DEF v, w, ordered, equal
    <3>. QED BY <1>5, <1>6, <3>1, <3>2
  <2>2. CASE call.op = "lt"
    <3>1. v = Lt(A, B) /\ (w <=> ordered /\ less)
      BY <2>2
    <3>2. w \in BOOLEAN
      <4>. HIDE DEF ordered
      <4>. QED BY Zenon
    <3>. HIDE DEF v, w, ordered, less
    <3>. QED BY <1>5, <1>6, <3>1, <3>2
  <2>3. CASE call.op = "le"
    <3>1. v = (Lt(A, B) \/ Eq(A, B)) /\ (w <=> ordered /\ (less \/ equal))
      BY <2>3
    <3>2. w \in BOOLEAN
      <4>. HIDE DEF ordered
      <4>. QED BY Zenon
    <3>. HIDE DEF v, w, ordered, less, equal
    <3>. QED BY <1>5, <1>6, <3>1, <3>2
  <2>. QED BY <1>1, <2>1, <2>2, <2>3
<1>8. ComparisonGives(call, v)
  <2>1. \A x, y : x = call.a /\ y = call.b =>
          (ComparisonGives(call, v) <=>
             v = ((~ IsNaN(x) /\ ~ IsNaN(y)) /\
                    CASE call.op = "eq" -> Ref!Signed(x) = Ref!Signed(y)
                      [] call.op = "lt" -> Ref!Signed(x) < Ref!Signed(y)
                      [] call.op = "le" -> (Ref!Signed(x) < Ref!Signed(y))
                                             \/ Ref!Signed(x) = Ref!Signed(y)))
    <3>. HIDE DEF v
    <3>. QED BY Zenon DEF ComparisonGives
  <2>. HIDE DEF v
  <2>. QED BY <1>3, <1>7, <2>1, Zenon
<1>9. Gives(call, v, {})
  <2>. HIDE DEF v
  <2>. QED BY <1>1, <1>8 DEF Gives
<1>. QED BY <1>2, <1>4, <1>9, DoneGives

---------------------------------------------------------------------------
LEMMA RintKinds ==
  ASSUME call.op = "rint", A.e # ExpMax, NEW r, NEW g, RintRounds(call, r, g)
  PROVE  Gives(call, r, g)
<1>1. RintGives(call, r, g)
  BY Zenon DEF RintGives, RintRounds, A
<1>. QED BY <1>1 DEF Gives

LEMMA RintMaximal ==
  ASSUME call.op = "rint", A.e = ExpMax
  PROVE  Gives(call, IF IsNaN(A) THEN Quiet(A) ELSE A, Signals({A}))
<1>1. RintGives(call, IF IsNaN(A) THEN Quiet(A) ELSE A, Signals({A}))
  BY Zenon DEF RintGives, A, Ref!Result
<1>. DEFINE v == IF IsNaN(A) THEN Quiet(A) ELSE A
<1>. HIDE DEF v
<1>2. RintGives(call, v, Signals({A})) => Gives(call, v, Signals({A}))
  BY DEF Gives
<1>. QED BY <1>1, <1>2 DEF v

LEMMA RintNaN ==
  ASSUME CInv, IInv', NaNArgument, call.op = "rint"
  PROVE  CInv'
<1>1. pc = "enter" /\ IsNaN(A) /\ Done(Quiet(A), Signals({A}))
  BY DEF NaNArgument, Is
<1>2. call \in Calls /\ fe = {}
  BY <1>1, ConversionFacts
<1>3. A.e = ExpMax
  BY <1>1 DEF IsNaN
<1>4. Gives(call, Quiet(A), Signals({A}))
  BY <1>1, <1>3, RintMaximal, Zenon
<1>. QED BY <1>1, <1>2, <1>4, DoneGives

LEMMA AlreadyIntegralRight ==
  ASSUME CInv, IInv', AlreadyIntegral
  PROVE  CInv'
<1>1. /\ pc = "enter" /\ call.op = "rint" /\ ~ IsNaN(A) /\ Done(A, {})
      /\ Regular(A) => Exponent(A) >= FracBits
  BY DEF AlreadyIntegral, Is
<1>2. call \in Calls /\ fe = {}
  BY <1>1, ConversionFacts
<1>3. A \in Values /\ call.mode \in Modes
  BY <1>1, <1>2, ConversionOperands
<1>4. IsInf(A) \/ IsZero(A) \/ Regular(A)
  BY <1>1, <1>3, NumberKinds
<1>5. CASE IsInf(A)
  <2>1. A.e = ExpMax
    BY <1>5 DEF IsInf
  <2>2. Signals({A}) = {}
    BY <1>1 DEF Signals, IsSNaN
  <2>3. Gives(call, A, {})
    BY <1>1, <2>1, <2>2, RintMaximal, Zenon
  <2>. QED BY <1>1, <1>2, <2>3, DoneGives
<1>6. CASE IsZero(A)
  <2>1. NearestTo(A, call.mode) = 0 /\ Integral(A)
    BY <1>3, <1>6, ZeroNearest
  <2>2. NearestTo(A, call.mode) * One = 0
    BY <2>1, OneIs
  <2>3. SignedZero(A.s) = A /\ A.e # ExpMax
    <3>1. ExpMax >= 3
      BY Fields
    <3>2. A.e = 0 /\ A.f = 0 /\ A = [s |-> A.s, e |-> A.e, f |-> A.f]
      BY <1>3, <1>6 DEF IsZero, Values
    <3>. QED BY <3>1, <3>2 DEF SignedZero
  <2>4. FlagIf("inexact", ~ Integral(A)) = {}
    BY <2>1 DEF FlagIf
  <2>5. Ref!Result(A, {}).res = A /\ Ref!Result(A, {}).fe \cup {} = {}
    BY DEF Ref!Result
  <2>6. RintRounds(call, A, {})
    BY <2>2, <2>3, <2>4, <2>5, Zenon DEF RintRounds, A, Ref!Result
  <2>7. Gives(call, A, {})
    BY <1>1, <2>3, <2>6, RintKinds
  <2>. QED BY <1>1, <1>2, <2>7, DoneGives
<1>7. CASE Regular(A)
  <2>. DEFINE n == Exponent(A) - FracBits
              k == Sig(A) * Pow2[n]
              y == NearestTo(A, call.mode) * One
  <2>1. n \in Nat /\ Exponent(A) = FracBits + n
    <3>1. Exponent(A) \in Int
      BY <1>3, <1>7, ValueWeighs
    <3>. QED BY <1>1, <1>7, <3>1, OneIs
  <2>2. k \in Nat /\ k >= 1 /\ Ref!Mag(A) = k * One /\ NearestTo(A, call.mode) = k
        /\ Ref!Mag(A) % One = 0
    <3>. HIDE DEF n
    <3>. QED BY <1>3, <1>7, <2>1, WholeValue
  <2>3. y = Ref!Mag(A) /\ y # 0
    <3>1. Ref!Mag(A) >= 1
      BY <1>3, <1>7, ValueWeighs
    <3>. QED BY <2>2, <3>1
  <2>4. Integral(A) /\ FlagIf("inexact", ~ Integral(A)) = {}
    BY <2>2 DEF Integral, FlagIf
  <2>5. A.e < ExpMax /\ A.e # ExpMax
    BY <1>3, <1>7, RegularFields, Fields
  <2>6. Ref!Round(A.s, y, 1, "RNE") = [res |-> A, fe |-> {}]
    <3>1. "RNE" \in Modes
      BY DEF Modes
    <3>. QED BY <1>3, <2>3, <2>5, <3>1, ExactValue
  <2>7. Ref!Round(A.s, y, 1, "RNE").res = A /\ Ref!Round(A.s, y, 1, "RNE").fe \cup {} = {}
    BY <2>6
  <2>8. RintRounds(call, A, {})
    BY <2>3, <2>4, <2>7, Zenon DEF RintRounds, A, Ref!Result
  <2>9. Gives(call, A, {})
    BY <1>1, <2>5, <2>8, RintKinds
  <2>. QED BY <1>1, <1>2, <2>9, DoneGives
<1>. QED BY <1>4, <1>5, <1>6, <1>7

LEMMA RoundToIntegralRight ==
  ASSUME CInv, IInv', RoundToIntegral
  PROVE  CInv'
<1>. DEFINE r == RoundedInteger(A, call.mode)
            n == NearestTo(A, call.mode)
            x == PackScaled(A.s, n, 0, "RNE")
            flags == InexactFlag(r)
<1>1. /\ pc = "enter" /\ call.op = "rint" /\ Regular(A) /\ Exponent(A) < FracBits
      /\ ToPack(A.s, r.mag, 0, "RNE", flags)
  BY DEF RoundToIntegral, Is
<1>2. call \in Calls /\ fe = {}
  BY <1>1, ConversionFacts
<1>3. A \in Values /\ call.mode \in Modes /\ "RNE" \in Modes
  BY <1>1, <1>2, ConversionOperands DEF Modes
<1>4. /\ r = [mag |-> n, inexact |-> Ref!Mag(A) % One # 0]
      /\ n \in Nat /\ n < Pow2[BigBits]
  BY <1>1, <1>3, PartRounded
<1>5. r.mag = n /\ flags = FlagIf("inexact", ~ Integral(A))
  <2>. HIDE DEF r, n
  <2>1. r.mag = n /\ (r.inexact <=> Ref!Mag(A) % One # 0)
    BY <1>4, Zenon
  <2>2. Integral(A) <=> ~ (Ref!Mag(A) % One # 0)
    BY DEF Integral
  <2>. QED BY <2>1, <2>2, Zenon DEF InexactFlag, FlagIf
<1>6. A.e # ExpMax /\ A.s \in {0, 1}
  BY <1>1, <1>3, RegularFields, Fields
<1>7. IF n * One = 0 THEN x = Ref!Result(SignedZero(A.s), {})
      ELSE x = Ref!Round(A.s, n * One, 1, "RNE")
  <2>1. CASE n = 0
    <3>1. n * One = 0
      BY <2>1, OneIs
    <3>2. x = [res |-> SignedZero(A.s), fe |-> {}]
      BY <2>1, Zenon DEF PackScaled
    <3>. QED BY <3>1, <3>2, Zenon DEF Ref!Result
  <2>2. CASE n # 0
    <3>1. n >= 1
      BY <1>4, <2>2
    <3>2. x = Ref!Round(A.s, n * One, 1, "RNE")
      BY <1>3, <1>4, <1>6, <3>1, IntegerPacks
    <3>3. n * One # 0
      <4>. HIDE DEF n
      <4>. QED BY <1>4, <3>1, OneIs, Z3
    <3>. QED BY <3>2, <3>3, Zenon
  <2>. QED BY <2>1, <2>2
<1>8. RintRounds(call, x.res, flags \cup x.fe)
  <2>1. flags \cup x.fe = x.fe \cup flags
    OBVIOUS
  <2>. HIDE DEF x, flags
  <2>. QED BY <1>5, <1>7, <2>1, Zenon DEF RintRounds, A, Ref!Result, n
<1>9. Gives(call, x.res, flags \cup x.fe)
  <2>. HIDE DEF x, flags
  <2>. QED BY <1>1, <1>6, <1>8, RintKinds
<1>10. ToPack(A.s, n, 0, "RNE", flags)
  BY <1>1, <1>5, Zenon
<1>. HIDE DEF flags, n
<1>. QED BY <1>2, <1>9, <1>10, PackPends

---------------------------------------------------------------------------
(* From integers.                                                          *)
LEMMA RoundRecord ==
  ASSUME NEW s, NEW num, NEW den, NEW md
  PROVE  LET r == Ref!Round(s, num, den, md) IN [res |-> r.res, fe |-> r.fe] = r
<1>. DEFINE i == Ref!FloorIndex(num, den)
            exact == Ref!Magnitude[i] * den = num
            j == IF ~exact /\ Ref!GoesUp(s, i, num, den, md) THEN i + 1 ELSE i
            flags == IF exact THEN {}
                     ELSE {"inexact"} \cup (IF num < Ref!ImplicitBit * den THEN {"underflow"} ELSE {})
            v == Ref!OverflowTo(s, md)
            w == Ref!OfIndex(s, j)
            r == Ref!Round(s, num, den, md)
<1>1. r = [res |-> v, fe |-> {"overflow", "inexact"}] \/ r = [res |-> w, fe |-> flags]
  BY Zenon DEF Ref!Round, Ref!Overflows, Ref!Result
<1>. HIDE DEF v, w, flags, r
<1>2. [res |-> r.res, fe |-> r.fe] = r
  BY <1>1
<1>. QED BY <1>2 DEF r

LEMMA FromIntegerRight ==
  ASSUME CInv, IInv', FromInteger
  PROVE  CInv'
<1>1. pc = "enter" /\ call.op \in {"from_u64", "from_i64"}
      /\ IF A < 0 THEN ToPack(1, -A, 0, "RNE", {}) ELSE ToPack(0, A, 0, "RNE", {})
  BY DEF FromInteger, Is
<1>2. call \in Calls /\ fe = {}
  BY <1>1, ConversionFacts
<1>3. A \in Int /\ -A < Pow2[BigBits] /\ A < Pow2[BigBits]
  <2>1. A \in Unsigned \/ A \in Signed
    BY <1>1, <1>2, ConversionOperands
  <2>. QED BY <2>1, IntegerPowers DEF Unsigned, Signed
<1>. DEFINE s == IF A < 0 THEN 1 ELSE 0
            n == IF A < 0 THEN -A ELSE A
            x == PackScaled(s, n, 0, "RNE")
<1>4. ToPack(s, n, 0, "RNE", {})
  BY <1>1, Zenon
<1>5. s \in {0, 1} /\ n \in Nat /\ n < Pow2[BigBits] /\ (A = 0 => n = 0 /\ s = 0)
      /\ (A # 0 => n >= 1) /\ "RNE" \in Modes
  BY <1>3 DEF Modes
<1>6. A = 0 => x = Ref!Result(SignedZero(0), {})
  <2>. HIDE DEF s, n
  <2>. QED BY <1>5, Zenon DEF PackScaled, Ref!Result
<1>7. A # 0 => x = Ref!RoundInteger(A * One, "RNE")
  <2>. SUFFICES ASSUME A # 0 PROVE x = Ref!RoundInteger(A * One, "RNE")
    OBVIOUS
  <2>1. x = Ref!Round(s, n * One, 1, "RNE")
    <3>. HIDE DEF s, n
    <3>. QED BY <1>5, IntegerPacks
  <2>2. /\ A < 0 <=> A * One < 0
        /\ A < 0 => (-A) * One = -(A * One)
    <3>. DEFINE a == A
    <3>1. a \in Int /\ One \in Nat /\ One >= 1
      BY <1>3, OneIs
    <3>. HIDE DEF a
    <3>2. (-a) * One = -(a * One) /\ a * One \in Int
      BY <3>1, Z3
    <3>3. a < 0 => a * One < 0
      BY <3>1, Z3
    <3>4. ~ (a < 0) => ~ (a * One < 0)
      BY <3>1, Z3
    <3>. QED BY <3>2, <3>3, <3>4 DEF a
  <2>3. s = (IF A * One < 0 THEN 1 ELSE 0)
    BY <2>2, Zenon
  <2>4. n * One = (IF A * One < 0 THEN -(A * One) ELSE A * One)
    BY <2>2, Zenon
  <2>. HIDE DEF s, n, x
  <2>. QED BY <2>1, <2>3, <2>4, Zenon DEF Ref!RoundInteger
<1>8. IntegerGives(call, x.res, x.fe)
  <2>1. CASE A = 0
    <3>1. x = [res |-> SignedZero(0), fe |-> {}]
      BY <1>6, <2>1, Zenon DEF Ref!Result
    <3>. HIDE DEF x
    <3>2. [res |-> x.res, fe |-> x.fe] = x
      BY <3>1
    <3>. QED BY <1>6, <2>1, <3>2, Zenon DEF IntegerGives, A
  <2>2. CASE A # 0
    <3>. HIDE DEF s, n
    <3>1. x = Ref!Round(s, n * One, 1, "RNE")
      BY <1>5, <2>2, IntegerPacks
    <3>. HIDE DEF x
    <3>2. [res |-> x.res, fe |-> x.fe] = x
      BY <3>1, RoundRecord, Zenon
    <3>. QED BY <1>7, <2>2, <3>2, Zenon DEF IntegerGives, A
  <2>. QED BY <2>1, <2>2
<1>9. Gives(call, x.res, {} \cup x.fe)
  <2>1. {} \cup x.fe = x.fe
    OBVIOUS
  <2>. HIDE DEF x
  <2>. QED BY <1>1, <1>8, <2>1 DEF Gives
<1>. HIDE DEF s, n
<1>. QED BY <1>2, <1>4, <1>9, PackPends

---------------------------------------------------------------------------
(* Doubles: the facts about rounding, of the narrow format.                *)
NR == INSTANCE Rounding64Proofs WITH FracBits <- NarrowFracBits, ExpBits <- NarrowExpBits

(* The format of a double is one of those the lemmas of rounding hold of.  *)
LEMMA NarrowIsFormat == NR!FormatAssumption /\ NR!Pow2Assumption
<1>1. NR!WordBits = NarrowFracBits + GuardBits + 3
  BY DEF NR!WordBits, NR!ImplicitAt
<1>2. /\ NarrowExpBits \in Nat /\ NarrowFracBits \in Nat /\ NarrowExpBits >= 2
      /\ NarrowFracBits >= 2 /\ NarrowExpBits <= ExpBits /\ NarrowFracBits <= FracBits
      /\ NarrowExpBits <= NarrowFracBits + 6 /\ GuardBits = 3
  BY BigAssumption, Widths DEF BigAssumption
<1>3. ExpBits <= MaxShift /\ MaxShift \in Nat /\ ExpBits \in Nat /\ WordBits = FracBits + GuardBits + 3
      /\ 2 * WordBits <= MaxShift /\ FracBits \in Nat
  BY Widths, FormatAssumption DEF FormatAssumption
<1>4. Pow2[NarrowExpBits] + NarrowFracBits <= MaxShift
  <2>1. NarrowExpBits \in 0..MaxShift /\ ExpBits \in 0..MaxShift
    BY <1>2, <1>3
  <2>2. Pow2[NarrowExpBits] <= Pow2[ExpBits]
    BY <1>2, <1>3, Pow2Monotone
  <2>3. Pow2[NarrowExpBits] \in Nat /\ Pow2[ExpBits] \in Nat
    BY <2>1, Pow2Positive
  <2>4. Pow2[ExpBits] + FracBits <= MaxShift
    BY Pow2Assumption DEF Pow2Assumption
  <2>. QED BY <1>2, <1>3, <2>2, <2>3, <2>4
<1>5. NR!FormatAssumption
  BY <1>1, <1>2, <1>3 DEF NR!FormatAssumption
<1>6. NR!Pow2Assumption
  BY <1>4, Pow2Assumption DEF NR!Pow2Assumption, Pow2Assumption
<1>. QED BY <1>5, <1>6

LEMMA NarrowParts ==
  /\ NarrowFormat!ExpMax = NR!ExpMax /\ NarrowFormat!ImplicitBit = NR!ImplicitBit
  /\ NarrowFormat!QuietNaNBit = NR!QuietNaNBit
  /\ NarrowMax = NR!ExpMax /\ NarrowBias = NR!Bias /\ NR!Modes = Modes
  /\ NR!ExpMax = 2 * NR!Bias + 1 /\ NR!ExpMax = Pow2[NarrowExpBits] - 1
  /\ NR!ImplicitBit = Pow2[NarrowFracBits] /\ NarrowQuietBit = NR!QuietNaNBit
  /\ NR!Bias \in Nat /\ NR!Bias >= 1
<1>1. NR!Bias \in Nat /\ NR!ExpMax = 2 * NR!Bias + 1 /\ NR!ExpMax >= 3
  BY NarrowIsFormat, NR!Fields
<1>2. NarrowBias = NR!Bias
  BY DEF NarrowBias, NR!Bias
<1>3. NarrowMax = NR!ExpMax
  BY <1>1, <1>2 DEF NarrowMax
<1>4. /\ NarrowFormat!ExpMax = NR!ExpMax /\ NarrowFormat!ImplicitBit = NR!ImplicitBit
      /\ NarrowFormat!QuietNaNBit = NR!QuietNaNBit /\ NR!Modes = Modes
      /\ NR!ImplicitBit = Pow2[NarrowFracBits] /\ NarrowQuietBit = NR!QuietNaNBit
      /\ NR!ExpMax = Pow2[NarrowExpBits] - 1
  BY DEF NarrowFormat!ExpMax, NR!ExpMax, NarrowFormat!ImplicitBit, NR!ImplicitBit,
         NarrowFormat!QuietNaNBit, NR!QuietNaNBit, NR!Modes, Modes, NarrowQuietBit
<1>5. NR!Bias >= 1
  BY <1>1
<1>. QED BY <1>1, <1>2, <1>3, <1>4, <1>5

LEMMA NarrowMagnitude ==
  /\ NarrowRef!Magnitude = NR!Ref!Magnitude
  /\ NarrowRef!InfIndex = NR!Ref!InfIndex /\ NarrowRef!ImplicitBit = NR!Ref!ImplicitBit
BY DEF NarrowRef!Magnitude, NR!Ref!Magnitude, NarrowRef!ExpMax, NR!Ref!ExpMax,
       NarrowRef!ImplicitBit, NR!Ref!ImplicitBit, NarrowRef!InfIndex, NR!Ref!InfIndex

LEMMA NarrowRounding ==
  ASSUME NEW s, NEW num, NEW den, NEW md
  PROVE  NarrowRef!Round(s, num, den, md) = NR!Ref!Round(s, num, den, md)
<1>1. NarrowRef!FloorIndex(num, den) = NR!Ref!FloorIndex(num, den)
  BY NarrowMagnitude DEF NarrowRef!FloorIndex, NR!Ref!FloorIndex, NarrowRef!Between, NR!Ref!Between,
     NarrowRef!ExpMax, NR!Ref!ExpMax
<1>2. NarrowRef!Overflows(s, md) = NR!Ref!Overflows(s, md)
  BY DEF NarrowRef!Overflows, NR!Ref!Overflows, NarrowRef!OverflowTo, NR!Ref!OverflowTo,
     NarrowRef!Result, NR!Ref!Result, NarrowRef!SignedInf, NR!Ref!SignedInf, NarrowRef!MaxFinite,
     NR!Ref!MaxFinite, NarrowRef!ExpMax, NR!Ref!ExpMax, NarrowRef!ImplicitBit, NR!Ref!ImplicitBit
<1>3. \A i : NarrowRef!GoesUp(s, i, num, den, md) = NR!Ref!GoesUp(s, i, num, den, md)
  BY NarrowMagnitude, Zenon DEF NarrowRef!GoesUp, NR!Ref!GoesUp
<1>4. \A i : NarrowRef!OfIndex(s, i) = NR!Ref!OfIndex(s, i)
  BY NarrowMagnitude, Zenon DEF NarrowRef!OfIndex, NR!Ref!OfIndex
<1>. QED BY <1>1, <1>2, <1>3, <1>4, NarrowMagnitude, Zenon
         DEF NarrowRef!Round, NR!Ref!Round, NarrowRef!Result, NR!Ref!Result

LEMMA NarrowMag ==
  ASSUME NEW v
  PROVE  NarrowRef!Mag(v) = NR!Ref!Mag(v)
BY NarrowMagnitude, Zenon DEF NarrowRef!Mag, NR!Ref!Mag

LEMMA NarrowWidths ==
  /\ NarrowFracBits \in Nat /\ NarrowFracBits >= 2 /\ NarrowFracBits + 3 <= FracBits
  /\ NarrowFracBits + 4 <= BigBits
  /\ NR!Bias + NarrowFracBits <= Bias
  /\ UnitDistance \in Nat /\ UnitDistance = (Bias - NR!Bias) + (FracBits - NarrowFracBits)
  /\ UnitDistance >= FracBits /\ UnitDistance + NarrowFracBits <= FracBits + Bias
  /\ UnitDistance + 2 * NR!Bias + 1 <= MaxShift
<1>1. /\ NarrowFracBits \in Nat /\ NarrowFracBits >= 2 /\ NarrowFracBits + 3 <= FracBits
      /\ Pow2[NarrowExpBits - 1] + NarrowFracBits <= Pow2[ExpBits - 1]
      /\ NarrowExpBits - 1 \in 0..MaxShift /\ ExpBits - 1 \in 0..MaxShift
  BY BigAssumption, Widths, FormatAssumption DEF BigAssumption, FormatAssumption
<1>2. Pow2[NarrowExpBits - 1] \in Nat /\ Pow2[ExpBits - 1] \in Nat
  BY <1>1, Pow2Positive
<1>3. NR!Bias = Pow2[NarrowExpBits - 1] - 1 /\ Bias = Pow2[ExpBits - 1] - 1
  BY DEF NR!Bias, Bias
<1>4. NR!Bias + NarrowFracBits <= Bias
  BY <1>1, <1>2, <1>3
<1>5. UnitDistance = (Bias + FracBits) - (NR!Bias + NarrowFracBits)
  BY NarrowParts DEF UnitDistance
<1>. QED BY <1>1, <1>4, <1>5, OneIs, NarrowParts

(* Rounding to the narrow format where the number is cut at its unit.      *)
LEMMA NarrowCut ==
  ASSUME NEW s \in {0, 1}, NEW md \in Modes, NEW m, NEW num, NEW D, NEW up, NEW ls,
         CutAt(s, m, num, D, up, ls, md),
         NEW e \in 1..(NR!ExpMax - 1), m < 2 * NR!ImplicitBit, e = 1 \/ NR!ImplicitBit <= m,
         NEW den \in Nat, den >= 1, D = NR!Unit(e) * den
  PROVE  NarrowRef!Round(s, num, den, md) = NR!Neighbour(s, e, m, up, ls, md)
<1>1. NR!CutAt(s, m, num, D, up, ls, md)
  <2>1. \A lost, half, tie : NR!Upwards(s, m, lost, half, tie, md) = Upwards(s, m, lost, half, tie, md)
    BY Zenon DEF Upwards, NR!Upwards
  <2>. QED BY <2>1, Zenon DEF CutAt, NR!CutAt
<1>2. md \in NR!Modes
  BY NarrowParts
<1>3. NR!Ref!Round(s, num, den, md) = NR!Neighbour(s, e, m, up, ls, md)
  BY <1>1, <1>2, NarrowIsFormat, NR!RoundCut
<1>. QED BY <1>3, NarrowRounding

LEMMA NarrowFields ==
  ASSUME NEW s, NEW e \in 1..(NR!ExpMax - 1), NEW m \in Nat, m < 2 * NR!ImplicitBit,
         e = 1 \/ NR!ImplicitBit <= m, NEW up \in BOOLEAN, NEW ls, NEW md,
         NEW n, n = (IF up THEN m + 1 ELSE m)
  PROVE  /\ n < NR!ImplicitBit =>
              NR!Neighbour(s, e, m, up, ls, md) =
                [res |-> [s |-> s, e |-> 0, f |-> n], fe |-> NR!Flags(e, m, ls)]
         /\ NR!ImplicitBit <= n /\ n < 2 * NR!ImplicitBit =>
              NR!Neighbour(s, e, m, up, ls, md) =
                [res |-> [s |-> s, e |-> e, f |-> n - NR!ImplicitBit], fe |-> NR!Flags(e, m, ls)]
         /\ n = 2 * NR!ImplicitBit =>
              NR!Neighbour(s, e, m, up, ls, md) =
                IF e + 1 = NR!ExpMax THEN NR!Overflow(s, md)
                ELSE [res |-> [s |-> s, e |-> e + 1, f |-> 0], fe |-> NR!Flags(e, m, ls)]
BY NarrowIsFormat, NR!NeighbourFields

(* The code's own overflow to the narrow format.                           *)
LEMMA NarrowOverflows ==
  ASSUME NEW s \in {0, 1}, NEW md \in Modes
  PROVE  /\ NR!Overflow(s, md) = Beyond(NarrowFracBits, NarrowBias, s, md)
         /\ NR!Ref!Overflows(s, md) = Beyond(NarrowFracBits, NarrowBias, s, md)
<1>1. NR!ExpMax - 1 = 2 * NR!Bias /\ NR!ExpMax = 2 * NR!Bias + 1 /\ NarrowBias = NR!Bias
      /\ NR!ImplicitBit = Pow2[NarrowFracBits]
  BY NarrowParts
<1>2. NR!Overflow(s, md) = Beyond(NarrowFracBits, NarrowBias, s, md)
  <2>1. NR!OverflowResult(s, md) =
          IF ToInfinity(s, md) THEN [s |-> s, e |-> NR!ExpMax, f |-> 0]
          ELSE [s |-> s, e |-> NR!ExpMax - 1, f |-> NR!ImplicitBit - 1]
    BY DEF NR!OverflowResult, ToInfinity, Modes, NR!MaxFinite, NR!SignedInf
  <2>. QED BY <1>1, <2>1, Zenon DEF Beyond, NR!Overflow
<1>3. NR!Ref!Overflows(s, md) = NR!Overflow(s, md)
  BY NarrowIsFormat, NarrowParts, NR!SameOverflow
<1>. QED BY <1>2, <1>3

(* A number that a jammed one stands for is cut where the jammed one is.   *)
LEMMA JamCut ==
  ASSUME NEW s \in {0, 1}, NEW md \in Modes, NEW x \in Nat, NEW S \in Nat, NEW Z \in Nat, Z >= 1,
         Stands(x, S, Z, 2)
  PROVE  CutAt(s, x \div 8, S, 8 * Z, KeptUp(s, x, md), x % 8 # 0, md)
<1>. DEFINE m == x \div 8
            r == x % 8
            D == 8 * Z
<1>1. m \in Nat /\ r \in 0..7 /\ x = 8 * m + r
  OBVIOUS
<1>2. KeptUp(s, x, md) = Upwards(s, m, r # 0, 4 <= r, r = 4, md) /\ KeptUp(s, x, md) \in BOOLEAN
  BY RoundUpIs DEF KeptUp
<1>3. D \in Nat /\ D >= 1
  OBVIOUS
<1>. HIDE DEF m, r, D
<1>4. /\ x < 2 * (4 * m) <=> S < (2 * (4 * m)) * Z
      /\ x = 2 * (4 * m) <=> S = (2 * (4 * m)) * Z
      /\ x < 2 * (4 * (m + 1)) <=> S < (2 * (4 * (m + 1))) * Z
      /\ x < 2 * (4 * m + 2) <=> S < (2 * (4 * m + 2)) * Z
      /\ x = 2 * (4 * m + 2) <=> S = (2 * (4 * m + 2)) * Z
  <2>1. 4 * m \in Int /\ 4 * (m + 1) \in Int /\ 4 * m + 2 \in Int
    BY <1>1
  <2>. QED BY <2>1 DEF Stands
<1>5. /\ (2 * (4 * m)) * Z = m * D /\ (2 * (4 * (m + 1))) * Z = (m + 1) * D
      /\ 2 * ((2 * (4 * m + 2)) * Z) = (2 * m + 1) * D
      /\ m * D \in Nat /\ (m + 1) * D \in Nat /\ (2 * m + 1) * D \in Nat
      /\ (2 * (4 * m + 2)) * Z \in Nat
  <2>1. /\ (2 * (4 * m)) * Z = m * (8 * Z) /\ (2 * (4 * (m + 1))) * Z = (m + 1) * (8 * Z)
        /\ 2 * ((2 * (4 * m + 2)) * Z) = (2 * m + 1) * (8 * Z)
    BY <1>1, Z3
  <2>2. m * D \in Nat /\ (m + 1) * D \in Nat /\ (2 * m + 1) * D \in Nat
    BY <1>1, <1>3
  <2>3. (2 * (4 * m + 2)) * Z \in Nat
    <3>1. 2 * (4 * m + 2) \in Nat
      BY <1>1
    <3>. QED BY <3>1
  <2>. QED BY <2>1, <2>2, <2>3 DEF D
<1>. DEFINE half == (2 * (4 * m + 2)) * Z
            low == m * D
            high == (m + 1) * D
            middle == (2 * m + 1) * D
<1>6. /\ low \in Nat /\ high \in Nat /\ middle \in Nat /\ half \in Nat /\ 2 * half = middle
      /\ x < 8 * m <=> S < low
      /\ x = 8 * m <=> S = low
      /\ x < 8 * m + 8 <=> S < high
      /\ x < 8 * m + 4 <=> S < half
      /\ x = 8 * m + 4 <=> S = half
  <2>1. 2 * (4 * m) = 8 * m /\ 2 * (4 * (m + 1)) = 8 * m + 8 /\ 2 * (4 * m + 2) = 8 * m + 4
    BY <1>1
  <2>. QED BY <1>4, <1>5, <2>1
<1>. HIDE DEF half, low, high, middle
<1>7. /\ low <= S /\ S < high
      /\ (S # low) <=> (r # 0)
      /\ (2 * S >= middle) <=> (4 <= r)
      /\ (2 * S = middle) <=> (r = 4)
  BY <1>1, <1>6
<1>. DEFINE l1 == r # 0
            h1 == 4 <= r
            t1 == r = 4
            l2 == S # low
            h2 == 2 * S >= middle
            t2 == 2 * S = middle
<1>8. /\ l1 \in BOOLEAN /\ h1 \in BOOLEAN /\ t1 \in BOOLEAN /\ l2 \in BOOLEAN /\ h2 \in BOOLEAN
      /\ t2 \in BOOLEAN
  OBVIOUS
<1>9. (l1 <=> l2) /\ (h1 <=> h2) /\ (t1 <=> t2)
  BY <1>7
<1>10. KeptUp(s, x, md) = Upwards(s, m, l1, h1, t1, md)
  BY <1>2, Zenon
<1>. HIDE DEF l1, h1, t1, l2, h2, t2
<1>11. Upwards(s, m, l1, h1, t1, md) = Upwards(s, m, l2, h2, t2, md)
  BY <1>8, <1>9, UpwardsAlike
<1>12. KeptUp(s, x, md) = Upwards(s, m, S # low, 2 * S >= middle, 2 * S = middle, md)
  BY <1>10, <1>11, Zenon DEF l2, h2, t2
<1>13. (r # 0) <=> (S # low)
  BY <1>9, Zenon DEF l1, l2
<1>14. (r # 0) \in BOOLEAN
  BY <1>8, Zenon DEF l1
<1>15. CutAt(s, m, S, D, KeptUp(s, x, md), r # 0, md)
  <2>1. low <= S /\ S < high
    BY <1>7
  <2>. QED BY <1>1, <1>2, <1>3, <1>12, <1>13, <1>14, <2>1, Zenon DEF CutAt, low, high, middle
<1>. QED BY <1>15, Zenon DEF m, r, D

LEMMA NarrowLeading ==
  ASSUME NEW v \in Values, Regular(v)
  PROVE  /\ Dropped \in Nat /\ Dropped <= MaxShift
         /\ Leading3(v) \in Nat /\ 8 * Pow2[NarrowFracBits] <= Leading3(v)
         /\ Leading3(v) < Pow2[NarrowFracBits + 4] /\ Leading3(v) < Pow2[BigBits]
         /\ Sig(v) < Pow2[BigBits]
<1>. DEFINE f == NarrowFracBits
            d == Dropped
            S == Sig(v)
            x == Leading3(v)
            P == Pow2[f]
<1>1. /\ d \in Nat /\ f \in Nat /\ d <= MaxShift /\ f + 4 <= BigBits /\ BigBits <= MaxShift
      /\ (f + 3) + d = FracBits /\ (f + 4) + d = FracBits + 1 /\ FracBits + 1 <= BigBits
      /\ FracBits + 1 <= MaxShift /\ f + 3 \in Nat /\ f + 4 \in Nat /\ FracBits + 1 \in Nat
      /\ d \in 0..MaxShift /\ BigBits \in 0..MaxShift /\ FracBits + 1 \in 0..MaxShift
      /\ f + 4 \in 0..MaxShift /\ FracBits \in 0..MaxShift
  BY NarrowWidths, OneIs DEF Dropped
<1>2. S \in Nat /\ Pow2[FracBits] <= S /\ S < Pow2[FracBits + 1]
  BY SigWidth
<1>3. Pow2[FracBits + 1] <= Pow2[BigBits] /\ Pow2[f + 4] <= Pow2[BigBits]
  BY <1>1, OneIs, Pow2Monotone
<1>4. /\ Pow2[d] \in Nat /\ Pow2[d] >= 1 /\ Pow2[BigBits] \in Nat /\ Pow2[FracBits + 1] \in Nat
      /\ Pow2[f + 4] \in Nat /\ Pow2[FracBits] \in Nat
  BY <1>1, Pow2Positive
<1>5. P \in Nat /\ P >= 1 /\ Pow2[f + 3] = 8 * P /\ Pow2[f + 4] = 16 * P
  BY <1>1, WidePowers
<1>6. Pow2[FracBits] = (8 * P) * Pow2[d] /\ Pow2[FracBits + 1] = (16 * P) * Pow2[d]
  <2>1. (f + 3) + d <= MaxShift /\ (f + 4) + d <= MaxShift
    BY <1>1
  <2>2. Pow2[(f + 3) + d] = Pow2[f + 3] * Pow2[d] /\ Pow2[(f + 4) + d] = Pow2[f + 4] * Pow2[d]
    BY <1>1, <2>1, Pow2Sum, Zenon
  <2>. QED BY <1>1, <1>5, <2>2
<1>7. S < Pow2[BigBits]
  BY <1>2, <1>3, <1>4
<1>8. x \in Nat
  BY <1>1, <1>2, JamNatural DEF Leading3
<1>9. /\ x < 2 * (4 * P) <=> S < (2 * (4 * P)) * Pow2[d]
      /\ x < 2 * (8 * P) <=> S < (2 * (8 * P)) * Pow2[d]
  <2>1. 4 * P \in Int /\ 8 * P \in Int
    BY <1>5
  <2>2. x = ShrJam(S, d)
    BY DEF Leading3
  <2>. HIDE DEF x, S, P, d
  <2>. QED BY <1>1, <1>2, <1>7, <2>1, <2>2, BigJamSide
<1>10. 2 * (4 * P) = 8 * P /\ 2 * (8 * P) = 16 * P
  BY <1>5
<1>. HIDE DEF x, S, P, d, f
<1>11. 8 * P <= x /\ x < 16 * P
  <2>1. /\ x < 8 * P <=> S < Pow2[FracBits]
        /\ x < 16 * P <=> S < Pow2[FracBits + 1]
    BY <1>6, <1>9, <1>10
  <2>. QED BY <1>2, <1>4, <1>5, <1>8, <2>1
<1>12. x < Pow2[f + 4] /\ x < Pow2[BigBits]
  BY <1>3, <1>4, <1>5, <1>8, <1>11
<1>. QED BY <1>1, <1>7, <1>8, <1>11, <1>12 DEF x, S, P, d, f

(* Two jams in a row are one.                                              *)
LEMMA NarrowStands ==
  ASSUME NEW v \in Values, Regular(v)
  PROVE  /\ NarrowAt(v) \in Int /\ NarrowAt(v) - Exponent(v) \in Nat
         /\ NarrowAt(v) >= 1 - NarrowBias /\ (NarrowAt(v) = 1 - NarrowBias \/ NarrowAt(v) = Exponent(v))
         /\ NarrowShift(v) \in Nat /\ NarrowShift(v) + 3 <= MaxShift
         /\ NarrowKept(v) \in Nat /\ Stands(NarrowKept(v), Sig(v), Pow2[NarrowShift(v)], 2)
         /\ NarrowAt(v) = Exponent(v) => 8 * Pow2[NarrowFracBits] <= NarrowKept(v)
<1>. DEFINE j == NarrowAt(v) - Exponent(v)
            d == Dropped
            S == Sig(v)
            ext == Leading3(v)
            x == NarrowKept(v)
            P == Pow2[NarrowFracBits]
<1>1. /\ Exponent(v) \in (1 - Bias - FracBits)..Bias /\ S \in Nat
      /\ NarrowBias \in Nat /\ NarrowBias >= 1
  BY SigWidth, NarrowParts
<1>2. /\ d \in Nat /\ d <= MaxShift /\ ext \in Nat /\ ext < Pow2[BigBits] /\ S < Pow2[BigBits]
      /\ 8 * P <= ext
  BY NarrowLeading
<1>3. NarrowAt(v) = IF Exponent(v) < 1 - NarrowBias THEN 1 - NarrowBias ELSE Exponent(v)
  BY DEF NarrowAt, Lowest
<1>4. /\ NarrowAt(v) \in Int /\ j \in Nat
      /\ NarrowAt(v) >= 1 - NarrowBias /\ (NarrowAt(v) = 1 - NarrowBias \/ NarrowAt(v) = Exponent(v))
      /\ j <= Bias + FracBits
  BY <1>1, <1>3, OneIs
<1>5. d <= FracBits
  BY NarrowWidths, OneIs DEF Dropped
<1>6. j + d \in Nat /\ (j + d) + 3 <= MaxShift /\ j <= MaxShift /\ d + j \in Nat
      /\ d + j <= MaxShift /\ j \in 0..MaxShift /\ d \in 0..MaxShift /\ j + d = d + j
  BY <1>2, <1>4, <1>5, OneIs
<1>7. x = ShrJam(ext, j)
  BY DEF NarrowKept, Kept, NarrowAt
<1>8. ext = ShrJam(S, d)
  BY DEF Leading3
<1>9. NarrowShift(v) = j + d
  BY DEF NarrowShift
<1>10. Pow2[j] \in Nat /\ Pow2[d] \in Nat /\ Pow2[j + d] = Pow2[j] * Pow2[d]
  <2>1. Pow2[j + d] = Pow2[j] * Pow2[d]
    BY <1>2, <1>4, <1>6, Pow2Sum
  <2>. QED BY <1>6, <2>1, Pow2Positive
<1>11. x \in Nat
  BY <1>2, <1>4, <1>6, <1>7, JamNatural
<1>. HIDE DEF j, d, S, ext, x, P
<1>12. Stands(x, S, Pow2[j + d], 2)
  <2>. SUFFICES ASSUME NEW y \in Int
       PROVE  /\ x < 2 * y <=> S < (2 * y) * Pow2[j + d]
              /\ x = 2 * y <=> S = (2 * y) * Pow2[j + d]
    BY DEF Stands
  <2>. DEFINE w == y * Pow2[j]
  <2>1. w \in Int /\ (2 * y) * Pow2[j] = 2 * w /\ (2 * w) * Pow2[d] = (2 * y) * Pow2[j + d]
    <3>. DEFINE J == Pow2[j]
                E == Pow2[d]
    <3>1. J \in Nat /\ E \in Nat /\ Pow2[j + d] = J * E
      BY <1>10
    <3>. HIDE DEF J, E
    <3>2. y * J \in Int /\ (2 * y) * J = 2 * (y * J) /\ (2 * (y * J)) * E = (2 * y) * (J * E)
      BY <3>1, Z3
    <3>. QED BY <3>1, <3>2 DEF J, E
  <2>2. /\ x < 2 * y <=> ext < (2 * y) * Pow2[j]
        /\ x = 2 * y <=> ext = (2 * y) * Pow2[j]
    BY <1>2, <1>4, <1>6, <1>7, BigJamSide
  <2>. HIDE DEF w
  <2>3. /\ ext < 2 * w <=> S < (2 * w) * Pow2[d]
        /\ ext = 2 * w <=> S = (2 * w) * Pow2[d]
    BY <1>1, <1>2, <1>8, <2>1, BigJamSide
  <2>. QED BY <2>1, <2>2, <2>3, Zenon
<1>13. ASSUME NarrowAt(v) = Exponent(v) PROVE 8 * P <= x
  <2>1. j = 0 /\ Pow2[0] = 1
    BY <1>1, <1>13, SmallPowers DEF j
  <2>2. P \in Nat
    <3>1. NarrowFracBits \in 0..MaxShift
      BY NarrowWidths, OneIs
    <3>. QED BY <3>1, Pow2Positive DEF P
  <2>3. x < 2 * (4 * P) <=> ext < (2 * (4 * P)) * Pow2[j]
    <3>1. 4 * P \in Int
      BY <2>2
    <3>. QED BY <1>2, <1>4, <1>6, <1>7, <3>1, BigJamSide
  <2>4. 2 * (4 * P) = 8 * P /\ (2 * (4 * P)) * 1 = 8 * P /\ 8 * P \in Nat
    BY <2>2
  <2>. QED BY <1>2, <1>11, <2>1, <2>3, <2>4
<1>. QED BY <1>4, <1>6, <1>9, <1>11, <1>12, <1>13 DEF j, x, S, P

LEMMA NarrowFlags ==
  ASSUME NEW k, NEW m, NEW lost \in BOOLEAN
  PROVE  /\ (NR!Flags(k, m, lost) \ {"underflow"}) \cup {} = Told(lost)
         /\ (NR!Flags(k, m, lost) \ {"underflow"})
              \cup (IF "inexact" \in NR!Flags(k, m, lost) THEN {"underflow"} ELSE {}) = ToldTiny(lost)
<1>. DEFINE g == NR!Flags(k, m, lost)
<1>1. /\ lost => g = {"inexact"} \/ g = {"inexact", "underflow"}
      /\ ~ lost => g = {}
  <2>1. g = IF ~ lost THEN {}
            ELSE IF k = 1 /\ m < NR!ImplicitBit THEN {"inexact", "underflow"} ELSE {"inexact"}
    BY DEF NR!Flags
  <2>. HIDE DEF g
  <2>. QED BY <2>1, Zenon
<1>. HIDE DEF g
<1>2. /\ (g \ {"underflow"}) \cup {} = Told(lost)
      /\ (g \ {"underflow"}) \cup (IF "inexact" \in g THEN {"underflow"} ELSE {}) = ToldTiny(lost)
  <2>1. CASE lost
    BY <1>1, <2>1 DEF Told, ToldTiny
  <2>2. CASE ~ lost
    BY <1>1, <2>2 DEF Told, ToldTiny
  <2>. QED BY <2>1, <2>2
<1>. QED BY <1>2 DEF g

LEMMA LateNarrowNormal ==
  ASSUME NEW s, NEW e, e # 0, NEW f, NEW k, NEW m, NEW lost \in BOOLEAN
  PROVE  Late([res |-> [s |-> s, e |-> e, f |-> f], fe |-> NR!Flags(k, m, lost)]) =
           [res |-> [s |-> s, e |-> e, f |-> f], fe |-> Told(lost)]
<1>1. Late([res |-> [s |-> s, e |-> e, f |-> f], fe |-> NR!Flags(k, m, lost)]) =
        [res |-> [s |-> s, e |-> e, f |-> f], fe |-> (NR!Flags(k, m, lost) \ {"underflow"}) \cup {}]
  BY DEF Late
<1>2. (NR!Flags(k, m, lost) \ {"underflow"}) \cup {} = Told(lost)
  BY NarrowFlags
<1>. QED BY <1>1, <1>2

LEMMA LateNarrowTiny ==
  ASSUME NEW s, NEW f, NEW k, NEW m, NEW lost \in BOOLEAN
  PROVE  Late([res |-> [s |-> s, e |-> 0, f |-> f], fe |-> NR!Flags(k, m, lost)]) =
           [res |-> [s |-> s, e |-> 0, f |-> f], fe |-> ToldTiny(lost)]
<1>1. Late([res |-> [s |-> s, e |-> 0, f |-> f], fe |-> NR!Flags(k, m, lost)]) =
        [res |-> [s |-> s, e |-> 0, f |-> f],
         fe |-> (NR!Flags(k, m, lost) \ {"underflow"})
                  \cup (IF "inexact" \in NR!Flags(k, m, lost) THEN {"underflow"} ELSE {})]
  BY DEF Late
<1>2. (NR!Flags(k, m, lost) \ {"underflow"})
        \cup (IF "inexact" \in NR!Flags(k, m, lost) THEN {"underflow"} ELSE {}) = ToldTiny(lost)
  BY NarrowFlags
<1>. QED BY <1>1, <1>2

LEMMA LateBeyond ==
  ASSUME NEW frac, NEW bias \in Nat, bias >= 1, NEW s, NEW md
  PROVE  Late(Beyond(frac, bias, s, md)) = Beyond(frac, bias, s, md)
<1>. DEFINE v == IF ToInfinity(s, md) THEN [s |-> s, e |-> 2 * bias + 1, f |-> 0]
                 ELSE [s |-> s, e |-> 2 * bias, f |-> Pow2[frac] - 1]
<1>1. v.e # 0
  <2>1. 2 * bias + 1 # 0 /\ 2 * bias # 0
    OBVIOUS
  <2>. QED BY <2>1
<1>2. Beyond(frac, bias, s, md) = [res |-> v, fe |-> {"overflow", "inexact"}]
  BY DEF Beyond
<1>. HIDE DEF v
<1>3. Late([res |-> v, fe |-> {"overflow", "inexact"}]) =
        [res |-> v, fe |-> ({"overflow", "inexact"} \ {"underflow"}) \cup {}]
  BY <1>1 DEF Late
<1>4. ({"overflow", "inexact"} \ {"underflow"}) \cup {} = {"overflow", "inexact"}
  OBVIOUS
<1>. QED BY <1>2, <1>3, <1>4

LEMMA NarrowDeliveredIs ==
  ASSUME NEW v \in Values, Regular(v), NEW md \in Modes
  PROVE  LET x == NarrowKept(v)
             e == NarrowAt(v)
             n == NarrowUnits(v, md)
             lost == x % 8 # 0
             P == Pow2[NarrowFracBits]
         IN
         /\ n \in Nat /\ n <= 2 * P /\ x \div 8 \in Nat /\ x \div 8 < 2 * P
         /\ e = 1 - NarrowBias \/ P <= x \div 8
         /\ e > NarrowBias => NarrowDelivered(v, md) = Beyond(NarrowFracBits, NarrowBias, v.s, md)
         /\ e <= NarrowBias =>
              /\ n < P => NarrowDelivered(v, md) =
                            [res |-> [s |-> v.s, e |-> 0, f |-> n], fe |-> ToldTiny(lost)]
              /\ P <= n /\ n < 2 * P =>
                   NarrowDelivered(v, md) =
                     [res |-> [s |-> v.s, e |-> e + NarrowBias, f |-> n - P], fe |-> Told(lost)]
              /\ n = 2 * P =>
                   NarrowDelivered(v, md) =
                     IF e = NarrowBias THEN Beyond(NarrowFracBits, NarrowBias, v.s, md)
                     ELSE [res |-> [s |-> v.s, e |-> e + 1 + NarrowBias, f |-> 0], fe |-> Told(lost)]
<1>. DEFINE f == NarrowFracBits
            nb == NarrowBias
            ext == Leading3(v)
            r == RoundExtended(f, nb, v.s, ext, Exponent(v), md)
            x == NarrowKept(v)
            e == NarrowAt(v)
            n == NarrowUnits(v, md)
            lost == x % 8 # 0
            P == Pow2[f]
<1>1. /\ f \in Nat /\ f + 4 <= BigBits /\ nb \in Nat /\ v.s \in {0, 1}
      /\ ext \in Nat /\ ext < Pow2[f + 4] /\ Exponent(v) \in Int
  BY NarrowWidths, NarrowParts, NarrowLeading, RegularFields, SigWidth
<1>2. x = Kept(nb, ext, Exponent(v)) /\ e = Lowest(nb, Exponent(v))
  BY DEF NarrowKept, NarrowAt
<1>3. P \in Nat /\ P >= 1
  BY <1>1, WidePowers
<1>4. /\ x \in Nat /\ e \in Int /\ n \in Nat /\ n <= 2 * P
      /\ r = [inexact |-> lost,
              exponent |-> IF n = 2 * P THEN e + 1 ELSE e,
              sig |-> IF n = 2 * P THEN P ELSE n]
  <2>1. KeptAs(nb, v.s, ext, Exponent(v), md, x, e, n)
    BY <1>2, Zenon DEF KeptAs, NarrowUnits
  <2>. DEFINE s == v.s
              ex == Exponent(v)
  <2>2. s \in {0, 1} /\ ex \in Int /\ KeptAs(nb, s, ext, ex, md, x, e, n)
    BY <1>1, <2>1
  <2>. HIDE DEF s, ex, ext, f, nb, x, e, n
  <2>3. /\ x \in Nat /\ e \in Int /\ n \in Nat /\ n <= 2 * Pow2[f]
        /\ RoundExtended(f, nb, s, ext, ex, md) =
             [inexact |-> x % 8 # 0,
              exponent |-> IF n = 2 * Pow2[f] THEN e + 1 ELSE e,
              sig |-> IF n = 2 * Pow2[f] THEN Pow2[f] ELSE n]
    BY <1>1, <2>2, ExtendedIs
  <2>. QED BY <2>3, Zenon DEF s, ex
<1>5. x \div 8 \in Nat /\ x \div 8 < 2 * P
  BY <1>1, <1>2, KeptBound
<1>6. e = 1 - nb \/ P <= x \div 8
  <2>1. NarrowAt(v) = 1 - NarrowBias \/ NarrowAt(v) = Exponent(v)
    BY NarrowStands
  <2>2. NarrowAt(v) = Exponent(v) => 8 * P <= x
    BY NarrowStands
  <2>3. 8 * P <= x => P <= x \div 8
    BY <1>3, <1>4
  <2>. QED BY <2>1, <2>2, <2>3
<1>7. e = 1 - nb \/ P <= n
  <2>1. x \div 8 <= n
    BY <1>4, <1>5 DEF KeptUnits, NarrowUnits
  <2>. QED BY <1>3, <1>4, <1>5, <1>6, <2>1
<1>8. 1 - nb <= e
  BY NarrowStands
<1>9. lost \in BOOLEAN /\ P = Pow2[f]
  OBVIOUS
<1>. HIDE DEF r, P, n, e, lost, x
<1>10. Carried(f, P, nb, r, lost, e, n)
  BY <1>1, <1>3, <1>4, <1>7, <1>8, <1>9, Zenon DEF Carried
<1>11. NarrowDelivered(v, md) = Deliver(f, nb, v.s, r, md)
  BY Zenon DEF NarrowDelivered, r
<1>. HIDE DEF f, nb, ext
<1>12. /\ e > nb => Deliver(f, nb, v.s, r, md) = Beyond(f, nb, v.s, md)
       /\ e <= nb =>
            /\ n < P => Deliver(f, nb, v.s, r, md) =
                          [res |-> [s |-> v.s, e |-> 0, f |-> n], fe |-> ToldTiny(lost)]
            /\ P <= n /\ n < 2 * P =>
                 Deliver(f, nb, v.s, r, md) =
                   [res |-> [s |-> v.s, e |-> e + nb, f |-> n - P], fe |-> Told(lost)]
            /\ n = 2 * P =>
                 Deliver(f, nb, v.s, r, md) =
                   IF e = nb THEN Beyond(f, nb, v.s, md)
                   ELSE [res |-> [s |-> v.s, e |-> e + 1 + nb, f |-> 0], fe |-> Told(lost)]
  BY <1>10, DeliverIs
<1>. QED BY <1>4, <1>5, <1>6, <1>11, <1>12, Zenon DEF f, nb, P, n, e, lost, x

(* In the range of the narrow format, its reference rounds to the same.    *)
LEMMA NarrowInRange ==
  ASSUME NEW v \in Values, Regular(v), NEW md \in Modes, NarrowAt(v) <= NarrowBias
  PROVE  NarrowDelivered(v, md) = Late(NarrowRef!Round(v.s, Ref!Mag(v), Pow2[UnitDistance], md))
<1>. DEFINE x == NarrowKept(v)
            at == NarrowAt(v)
            nb == NarrowBias
            b == at + nb
            m == x \div 8
            up == KeptUp(v.s, x, md)
            lost == x % 8 # 0
            P == Pow2[NarrowFracBits]
            n == NarrowUnits(v, md)
            S == Sig(v)
            j == NarrowShift(v)
            k == Exponent(v) + Bias - 1
            M == Ref!Mag(v)
            den == Pow2[UnitDistance]
            D == NR!Unit(b) * den
            X == NarrowRef!Round(v.s, M, den, md)
<1>1. /\ at \in Int /\ at - Exponent(v) \in Nat /\ at >= 1 - nb
      /\ (at = 1 - nb \/ at = Exponent(v)) /\ j \in Nat /\ j + 3 <= MaxShift
      /\ x \in Nat /\ Stands(x, S, Pow2[j], 2)
  BY NarrowStands
<1>2. /\ Weighs(S, k, M, 1) /\ M \in Nat /\ Exponent(v) \in (1 - Bias - FracBits)..Bias
      /\ S \in Nat /\ v.s \in {0, 1}
  BY ValueWeighs, RegularFields
<1>3. /\ nb \in Nat /\ nb >= 1 /\ NR!ExpMax = 2 * nb + 1 /\ NR!ImplicitBit = P /\ nb = NR!Bias
  BY NarrowParts
<1>4. b \in 1..(NR!ExpMax - 1) /\ b \in 1..NR!ExpMax
  BY <1>1, <1>3
<1>5. /\ j \in 0..MaxShift /\ 3 \in Nat /\ j + 3 \in Nat /\ InTable(j + 3)
      /\ k + (j + 3) = (b - 1) + UnitDistance /\ b - 1 \in Nat /\ UnitDistance \in Nat
      /\ (b - 1) + UnitDistance <= MaxShift /\ (b - 1) + UnitDistance \in Nat
      /\ InTable(k + (j + 3)) /\ k + (j + 3) >= 0 /\ UnitDistance \in 0..MaxShift
      /\ b - 1 \in 0..MaxShift
  <2>1. j = (at - Exponent(v)) + (FracBits - NarrowFracBits - 3)
    BY DEF NarrowShift, Dropped
  <2>2. /\ UnitDistance \in Nat /\ UnitDistance = (Bias - nb) + (FracBits - NarrowFracBits)
        /\ UnitDistance + 2 * nb + 1 <= MaxShift /\ FracBits \in Nat /\ NarrowFracBits \in Nat
        /\ Bias \in Nat /\ MaxShift \in Nat
    BY <1>3, NarrowWidths, OneIs
  <2>3. k + (j + 3) = (b - 1) + UnitDistance
    BY <1>1, <1>2, <1>3, <2>1, <2>2
  <2>4. b - 1 \in Nat /\ b - 1 <= 2 * nb
    BY <1>1, <1>3
  <2>. HIDE DEF b, j, k
  <2>. QED BY <1>1, <1>3, <2>2, <2>3, <2>4 DEF InTable
<1>6. Pow2[j] \in Nat /\ Pow2[j] >= 1 /\ Pow2[j + 3] = 8 * Pow2[j]
  <2>1. Pow2[j + 3] = Pow2[j] * Pow2[3]
    BY <1>1, <1>5, Pow2Sum
  <2>2. Pow2[3] = 8
    <3>1. Pow2[2 + 1] = 2 * Pow2[2]
      BY Pow2Step, OneIs
    <3>2. 2 + 1 = 3
      OBVIOUS
    <3>. QED BY <3>1, <3>2, SmallPowers
  <2>3. Pow2[j] \in Nat /\ Pow2[j] >= 1
    BY <1>5, Pow2Positive
  <2>. QED BY <2>1, <2>2, <2>3
<1>7. CutAt(v.s, m, S, Pow2[j + 3], up, lost, md)
  <2>. DEFINE Z == Pow2[j]
  <2>1. Z \in Nat /\ Z >= 1 /\ Pow2[j + 3] = 8 * Z /\ Stands(x, S, Z, 2)
    BY <1>1, <1>6
  <2>. HIDE DEF Z, x, S, j
  <2>2. CutAt(v.s, x \div 8, S, 8 * Z, KeptUp(v.s, x, md), x % 8 # 0, md)
    BY <1>1, <1>2, <2>1, JamCut
  <2>. QED BY <2>1, <2>2, Zenon
<1>8. CutShifted(S, j + 3, k, M)
  BY <1>2, <1>5 DEF CutShifted
<1>9. D = Pow2[k + (j + 3)] /\ den \in Nat /\ den >= 1
  <2>1. Pow2[(b - 1) + UnitDistance] = Pow2[b - 1] * Pow2[UnitDistance]
    BY <1>5, Pow2Sum
  <2>2. Pow2[k + (j + 3)] = Pow2[(b - 1) + UnitDistance]
    BY <1>5
  <2>3. D = Pow2[b - 1] * Pow2[UnitDistance]
    BY Zenon DEF NR!Unit
  <2>4. den \in Nat /\ den >= 1
    BY <1>5, Pow2Positive
  <2>. QED BY <2>1, <2>2, <2>3, <2>4
<1>10. CutAt(v.s, m, M, D, up, lost, md)
  <2>. HIDE DEF m, M, up, lost, S, j, k, D
  <2>1. CutAt(v.s, m, M, Pow2[k + (j + 3)], up, lost, md)
    BY <1>7, <1>8, CutCarried, Zenon
  <2>. QED BY <1>9, <2>1
<1>11. /\ n \in Nat /\ n <= 2 * P /\ m \in Nat /\ m < 2 * P /\ (at = 1 - nb \/ P <= m)
       /\ n < P => NarrowDelivered(v, md) =
                     [res |-> [s |-> v.s, e |-> 0, f |-> n], fe |-> ToldTiny(lost)]
       /\ P <= n /\ n < 2 * P =>
            NarrowDelivered(v, md) =
              [res |-> [s |-> v.s, e |-> at + nb, f |-> n - P], fe |-> Told(lost)]
       /\ n = 2 * P =>
            NarrowDelivered(v, md) =
              IF at = nb THEN Beyond(NarrowFracBits, nb, v.s, md)
              ELSE [res |-> [s |-> v.s, e |-> at + 1 + nb, f |-> 0], fe |-> Told(lost)]
  BY NarrowDeliveredIs
<1>12. b = 1 \/ NR!ImplicitBit <= m
  BY <1>1, <1>3, <1>11
<1>13. up \in BOOLEAN /\ lost \in BOOLEAN
  BY <1>1, <1>2, RoundUpIs
<1>14. n = IF up THEN m + 1 ELSE m
  BY DEF KeptUnits, NarrowUnits
<1>15. X = NR!Neighbour(v.s, b, m, up, lost, md)
  <2>1. D = NR!Unit(b) * den
    OBVIOUS
  <2>2. m < 2 * NR!ImplicitBit
    BY <1>3, <1>11
  <2>. HIDE DEF D, m, up, lost, M, den, b
  <2>3. NarrowRef!Round(v.s, M, den, md) = NR!Neighbour(v.s, b, m, up, lost, md)
    BY <1>2, <1>4, <1>9, <1>10, <1>12, <2>1, <2>2, NarrowCut
  <2>. QED BY <2>3
<1>16. /\ n < P => X = [res |-> [s |-> v.s, e |-> 0, f |-> n], fe |-> NR!Flags(b, m, lost)]
       /\ P <= n /\ n < 2 * P =>
            X = [res |-> [s |-> v.s, e |-> b, f |-> n - P], fe |-> NR!Flags(b, m, lost)]
       /\ n = 2 * P =>
            X = IF b + 1 = NR!ExpMax THEN NR!Overflow(v.s, md)
                ELSE [res |-> [s |-> v.s, e |-> b + 1, f |-> 0], fe |-> NR!Flags(b, m, lost)]
  <2>1. m < 2 * NR!ImplicitBit /\ P = NR!ImplicitBit
    BY <1>3, <1>11
  <2>. HIDE DEF m, up, lost, b, n, P, X
  <2>. QED BY <1>4, <1>11, <1>12, <1>13, <1>14, <1>15, <2>1, NarrowFields
<1>17. NR!Overflow(v.s, md) = Beyond(NarrowFracBits, nb, v.s, md)
  BY <1>2, NarrowOverflows
<1>18. Late(Beyond(NarrowFracBits, nb, v.s, md)) = Beyond(NarrowFracBits, nb, v.s, md)
  BY <1>3, LateBeyond
<1>19. /\ b # 0 /\ b + 1 # 0 /\ b = at + nb /\ b + 1 = at + 1 + nb
       /\ (b + 1 = NR!ExpMax <=> at = nb)
  BY <1>1, <1>3
<1>. HIDE DEF n, P, X, b, m, up, lost, x, at, nb, M, den
<1>20. CASE n < P
  <2>1. Late([res |-> [s |-> v.s, e |-> 0, f |-> n], fe |-> NR!Flags(b, m, lost)]) =
          [res |-> [s |-> v.s, e |-> 0, f |-> n], fe |-> ToldTiny(lost)]
    BY <1>13, LateNarrowTiny
  <2>. QED BY <1>11, <1>16, <1>20, <2>1, Zenon DEF X, M, den
<1>21. CASE P <= n /\ n < 2 * P
  <2>1. Late([res |-> [s |-> v.s, e |-> b, f |-> n - P], fe |-> NR!Flags(b, m, lost)]) =
          [res |-> [s |-> v.s, e |-> b, f |-> n - P], fe |-> Told(lost)]
    <3>. DEFINE rest == n - P
    <3>1. b # 0 /\ lost \in BOOLEAN
      BY <1>13, <1>19
    <3>. HIDE DEF rest
    <3>2. Late([res |-> [s |-> v.s, e |-> b, f |-> rest], fe |-> NR!Flags(b, m, lost)]) =
            [res |-> [s |-> v.s, e |-> b, f |-> rest], fe |-> Told(lost)]
      BY <3>1, LateNarrowNormal
    <3>. QED BY <3>2 DEF rest
  <2>. QED BY <1>11, <1>16, <1>19, <1>21, <2>1, Zenon DEF X, M, den
<1>22. CASE n = 2 * P
  <2>1. CASE at = nb
    <3>1. X = Beyond(NarrowFracBits, nb, v.s, md)
      BY <1>16, <1>17, <1>19, <1>22, <2>1, Zenon
    <3>2. NarrowDelivered(v, md) = Beyond(NarrowFracBits, nb, v.s, md)
      BY <1>11, <1>22, <2>1, Zenon
    <3>. QED BY <1>18, <3>1, <3>2, Zenon DEF X, M, den
  <2>2. CASE at # nb
    <3>1. X = [res |-> [s |-> v.s, e |-> b + 1, f |-> 0], fe |-> NR!Flags(b, m, lost)]
      BY <1>16, <1>19, <1>22, <2>2, Zenon
    <3>2. Late([res |-> [s |-> v.s, e |-> b + 1, f |-> 0], fe |-> NR!Flags(b, m, lost)]) =
            [res |-> [s |-> v.s, e |-> b + 1, f |-> 0], fe |-> Told(lost)]
      <4>. DEFINE next == b + 1
      <4>1. next # 0 /\ lost \in BOOLEAN
        BY <1>13, <1>19
      <4>. HIDE DEF next
      <4>2. Late([res |-> [s |-> v.s, e |-> next, f |-> 0], fe |-> NR!Flags(b, m, lost)]) =
              [res |-> [s |-> v.s, e |-> next, f |-> 0], fe |-> Told(lost)]
        BY <4>1, LateNarrowNormal
      <4>. QED BY <4>2 DEF next
    <3>3. NarrowDelivered(v, md) = [res |-> [s |-> v.s, e |-> at + 1 + nb, f |-> 0], fe |-> Told(lost)]
      BY <1>11, <1>22, <2>2, Zenon
    <3>. QED BY <1>19, <3>1, <3>2, <3>3, Zenon DEF X, M, den
  <2>. QED BY <2>1, <2>2
<1>23. P \in Nat
  BY <1>3, NarrowIsFormat, NR!Fields
<1>. QED BY <1>11, <1>20, <1>21, <1>22, <1>23

(* Beyond the range of the narrow format, the reference overflows too.     *)
LEMMA NarrowOver ==
  ASSUME NEW v \in Values, Regular(v), NEW md \in Modes, NarrowAt(v) > NarrowBias
  PROVE  NarrowDelivered(v, md) = Late(NarrowRef!Round(v.s, Ref!Mag(v), Pow2[UnitDistance], md))
<1>. DEFINE E == Exponent(v)
            nb == NarrowBias
            nf == NarrowFracBits
            k == E + Bias - 1
            M == Ref!Mag(v)
            den == Pow2[UnitDistance]
            top == nb + Bias + FracBits
<1>1. /\ nb \in Nat /\ nb >= 1 /\ NR!ExpMax = 2 * nb + 1 /\ NR!ImplicitBit = Pow2[nf] /\ nb = NR!Bias
      /\ nf \in Nat /\ UnitDistance \in Nat /\ UnitDistance = (Bias - nb) + (FracBits - nf)
      /\ UnitDistance + 2 * nb + 1 <= MaxShift /\ v.s \in {0, 1} /\ nf <= FracBits
  <2>1. nb \in Nat /\ nb >= 1 /\ NR!ExpMax = 2 * nb + 1 /\ NR!ImplicitBit = Pow2[nf] /\ nb = NR!Bias
    BY NarrowParts
  <2>2. /\ nf \in Nat /\ UnitDistance \in Nat /\ UnitDistance = (Bias - nb) + (FracBits - nf)
        /\ UnitDistance + 2 * nb + 1 <= MaxShift /\ nf <= FracBits
    BY <2>1, NarrowWidths, OneIs
  <2>. QED BY <2>1, <2>2, RegularFields
<1>2. /\ Weighs(Sig(v), k, M, 1) /\ M \in Nat /\ E \in (1 - Bias - FracBits)..Bias
      /\ Sig(v) \in Nat /\ Pow2[FracBits] <= Sig(v)
  BY ValueWeighs
<1>3. E \in Int /\ E > nb
  <2>1. NarrowAt(v) = 1 - nb \/ NarrowAt(v) = E
    BY NarrowStands
  <2>. QED BY <1>1, <1>2, <2>1
<1>4. /\ k \in Nat /\ FracBits + k \in Nat /\ FracBits + k <= MaxShift /\ top <= FracBits + k
      /\ top \in Nat /\ top <= MaxShift /\ FracBits \in Nat /\ k <= MaxShift /\ 2 * nb \in Nat
      /\ nf + 2 * nb \in Nat /\ (nf + 2 * nb) + UnitDistance = top /\ nf + 2 * nb <= MaxShift
  BY <1>1, <1>2, <1>3, OneIs
<1>5. M >= Pow2[FracBits + k]
  <2>1. Sig(v) * (1 * Over(k)) = M * Under(k)
    BY <1>2 DEF Weighs
  <2>2. Over(k) = Pow2[k] /\ Under(k) = 1
    BY <1>4 DEF Over, Under
  <2>3. Pow2[FracBits + k] = Pow2[FracBits] * Pow2[k]
    BY <1>4, Pow2Sum
  <2>4. Pow2[k] \in Nat /\ Pow2[k] >= 1 /\ Pow2[FracBits] \in Nat
    <3>1. k \in 0..MaxShift /\ FracBits \in 0..MaxShift
      BY <1>4, OneIs
    <3>. QED BY <3>1, Pow2Positive
  <2>5. Sig(v) * Pow2[k] = M
    <3>. DEFINE T == Pow2[k]
                S == Sig(v)
    <3>1. S * (1 * T) = M * 1 /\ T \in Nat /\ S \in Nat
      BY <1>2, <2>1, <2>2, <2>4
    <3>. HIDE DEF T, S, M
    <3>2. S * T = M
      BY <1>2, <3>1
    <3>. QED BY <3>2 DEF T, S
  <2>6. Pow2[FracBits] * Pow2[k] <= Sig(v) * Pow2[k]
    BY <1>2, <2>4, TimesOrder
  <2>. QED BY <2>3, <2>5, <2>6
<1>6. NR!Ref!Magnitude[NR!Ref!InfIndex] * den = Pow2[top]
  <2>1. NR!Ref!Magnitude[NR!ExpMax * NR!ImplicitBit] = NR!ImplicitBit * NR!Unit(NR!ExpMax)
    BY NarrowIsFormat, NR!InfMagnitude
  <2>2. NR!Ref!InfIndex = NR!ExpMax * NR!ImplicitBit
    BY NarrowIsFormat, NR!SameFormat
  <2>3. NR!Unit(NR!ExpMax) = Pow2[2 * nb]
    <3>1. NR!ExpMax - 1 = 2 * nb
      BY <1>1
    <3>. QED BY <3>1, Zenon DEF NR!Unit
  <2>4. Pow2[nf + 2 * nb] = Pow2[nf] * Pow2[2 * nb]
    BY <1>1, <1>4, Pow2Sum
  <2>5. Pow2[(nf + 2 * nb) + UnitDistance] = Pow2[nf + 2 * nb] * Pow2[UnitDistance]
    <3>1. (nf + 2 * nb) + UnitDistance <= MaxShift
      BY <1>4
    <3>. QED BY <1>1, <1>4, <3>1, Pow2Sum, Zenon
  <2>6. (nf + 2 * nb) + UnitDistance = top
    BY <1>4
  <2>. QED BY <1>1, <2>1, <2>2, <2>3, <2>4, <2>5, <2>6, Zenon
<1>7. Pow2[top] <= Pow2[FracBits + k] /\ Pow2[top] \in Nat /\ Pow2[FracBits + k] \in Nat
  <2>1. top \in 0..MaxShift /\ FracBits + k \in 0..MaxShift
    BY <1>4, OneIs
  <2>. QED BY <1>4, <2>1, Pow2Positive, Pow2Monotone
<1>8. M >= NR!Ref!Magnitude[NR!Ref!InfIndex] * den
  BY <1>2, <1>5, <1>6, <1>7
<1>9. NarrowRef!Round(v.s, M, den, md) = NR!Ref!Overflows(v.s, md)
  <2>1. NR!Ref!Round(v.s, M, den, md) = NR!Ref!Overflows(v.s, md)
    BY <1>8, Zenon DEF NR!Ref!Round
  <2>. QED BY <2>1, NarrowRounding
<1>10. NarrowDelivered(v, md) = Beyond(nf, nb, v.s, md)
  BY NarrowDeliveredIs
<1>11. Late(Beyond(nf, nb, v.s, md)) = Beyond(nf, nb, v.s, md)
  BY <1>1, LateBeyond
<1>. QED BY <1>1, <1>9, <1>10, <1>11, NarrowOverflows, Zenon

LEMMA NarrowRight ==
  ASSUME NEW v \in Values, Regular(v), NEW md \in Modes
  PROVE  NarrowDelivered(v, md) = Late(NarrowRef!Round(v.s, Ref!Mag(v), Pow2[UnitDistance], md))
<1>1. NarrowAt(v) \in Int /\ NarrowBias \in Nat
  BY NarrowStands, NarrowParts
<1>. QED BY <1>1, NarrowInRange, NarrowOver

LEMMA NarrowRegularRight ==
  ASSUME CInv, IInv', NarrowRegular
  PROVE  CInv'
<1>1. Is({"to_f64"}) /\ Regular(A)
  BY DEF NarrowRegular
<1>2. pc = "enter" /\ call.op = "to_f64" /\ fe = {} /\ A \in Values /\ call.mode \in Modes /\ A = call.a
  BY <1>1, ConversionFacts, ConversionOperands DEF Is, A
<1>. DEFINE d == NarrowDelivered(A, call.mode)
            x == NarrowRef!Round(A.s, Ref!Mag(A), Pow2[UnitDistance], call.mode)
<1>3. Done(d.res, d.fe)
  BY Zenon DEF NarrowRegular, NarrowDelivered, Leading3, Dropped
<1>4. d = Late(x)
  BY <1>1, <1>2, NarrowRight
<1>. HIDE DEF d
<1>5. d.res = x.res /\ d.fe = (x.fe \ {"underflow"}) \cup FlagIf("underflow", "inexact" \in x.fe /\ x.res.e = 0)
  BY <1>4, Zenon DEF Late, FlagIf
<1>6. ~ IsNaN(A) /\ Regular(A)
  BY <1>1, <1>2, NumberKinds
<1>7. NarrowingGives(call, d.res, d.fe)
  BY <1>2, <1>5, <1>6, Zenon DEF NarrowingGives
<1>8. Gives(call, d.res, d.fe)
  <2>. DEFINE c == call
              op == call.op
              r == d.res
              g == d.fe
  <2>1. op = "to_f64" /\ NarrowingGives(c, r, g) /\ op = c.op
    BY <1>2, <1>7
  <2>. HIDE DEF c, op, r, g
  <2>2. Gives(c, r, g)
    BY <2>1 DEF Gives
  <2>. QED BY <2>2 DEF c, r, g
<1>. QED BY <1>2, <1>3, <1>8, DoneGives

(* The payload bits of the top limb are not all of a quiet double.         *)
LEMMA NarrowSpecialRight ==
  ASSUME CInv, IInv', NarrowSpecial
  PROVE  CInv'
<1>. DEFINE w == IF IsNaN(A) THEN NarrowedNaN(A)
                 ELSE [s |-> A.s, e |-> IF IsInf(A) THEN NarrowMax ELSE 0, f |-> 0]
<1>1. Is({"to_f64"}) /\ ~ Regular(A) /\ Done(w, Signals({A}))
  BY Zenon DEF NarrowSpecial
<1>2. pc = "enter" /\ call.op = "to_f64" /\ fe = {} /\ A \in Values /\ call.mode \in Modes /\ A = call.a
  BY <1>1, ConversionFacts, ConversionOperands DEF Is, A
<1>3. /\ NarrowFormat!ExpMax = NarrowMax /\ NarrowFormat!QuietNaNBit = NarrowQuietBit
      /\ NarrowFormat!ImplicitBit = 2 * NarrowQuietBit /\ NarrowQuietBit \in Nat /\ NarrowQuietBit >= 1
      /\ NarrowMax # 0
  <2>1. /\ NarrowFormat!ExpMax = NarrowMax /\ NarrowFormat!QuietNaNBit = NarrowQuietBit
        /\ NarrowFormat!ImplicitBit = Pow2[NarrowFracBits] /\ NarrowMax = 2 * NR!Bias + 1
        /\ NR!Bias \in Nat
    BY NarrowParts
  <2>2. NarrowFracBits - 1 \in Nat /\ (NarrowFracBits - 1) + 1 = NarrowFracBits
        /\ NarrowFracBits - 1 \in 0..MaxShift /\ NarrowFracBits <= MaxShift
    BY NarrowWidths, OneIs
  <2>3. Pow2[(NarrowFracBits - 1) + 1] = 2 * Pow2[NarrowFracBits - 1]
    BY <2>2, Pow2Step
  <2>4. Pow2[NarrowFracBits - 1] \in Nat /\ Pow2[NarrowFracBits - 1] >= 1
    BY <2>2, Pow2Positive
  <2>. QED BY <2>1, <2>2, <2>3, <2>4 DEF NarrowQuietBit
<1>4. CASE IsNaN(A)
  <2>. DEFINE t == (A.f \div Pow2[FracBits - TopBits]) % NarrowQuietBit
              f == NarrowQuietBit + t
  <2>1. w = [s |-> A.s, e |-> NarrowMax, f |-> f]
    BY <1>4, Zenon DEF NarrowedNaN
  <2>2. f \in Nat /\ f >= NarrowQuietBit /\ f < 2 * NarrowQuietBit
    <3>1. A.f \div Pow2[FracBits - TopBits] \in Int
      <4>1. FracBits - TopBits \in 0..MaxShift
        BY BigAssumption, OneIs DEF BigAssumption
      <4>2. A.f \in Nat
        BY <1>2 DEF Values
      <4>. QED BY <4>1, <4>2, Pow2Positive
    <3>. DEFINE y == A.f \div Pow2[FracBits - TopBits]
    <3>. HIDE DEF y
    <3>2. y % NarrowQuietBit \in Nat /\ y % NarrowQuietBit < NarrowQuietBit
      BY <1>3, <3>1 DEF y
    <3>. QED BY <1>3, <3>2 DEF y
  <2>. HIDE DEF f, w
  <2>3. w.s = A.s /\ w.e = NarrowMax /\ w.f = f
    BY <2>1
  <2>4. NarrowFormat!IsNaN(w)
    BY <1>3, <2>2, <2>3 DEF NarrowFormat!IsNaN
  <2>5. ~ NarrowFormat!IsSNaN(w)
    <3>1. ~ (w.f < NarrowQuietBit)
      BY <1>3, <2>2, <2>3
    <3>. QED BY <1>3, <3>1 DEF NarrowFormat!IsSNaN
  <2>6. NarrowingGives(call, w, Signals({A}))
    BY <1>2, <1>4, <2>3, <2>4, <2>5, Zenon DEF NarrowingGives
  <2>7. Gives(call, w, Signals({A}))
    BY <1>2, <2>6 DEF Gives
  <2>. QED BY <1>1, <1>2, <2>7, DoneGives
<1>5. CASE ~ IsNaN(A)
  <2>1. Signals({A}) = {}
    BY <1>5, <1>2 DEF Signals, IsSNaN
  <2>2. w = IF IsInf(A) THEN NarrowFormat!SignedInf(A.s) ELSE NarrowFormat!SignedZero(A.s)
    BY <1>3, <1>5, Zenon DEF NarrowFormat!SignedInf, NarrowFormat!SignedZero
  <2>. HIDE DEF w
  <2>3. NarrowingGives(call, w, Signals({A}))
    BY <1>1, <1>2, <1>5, <2>1, <2>2, Zenon DEF NarrowingGives
  <2>4. Gives(call, w, Signals({A}))
    BY <1>2, <2>3 DEF Gives
  <2>. QED BY <1>1, <1>2, <2>4, DoneGives
<1>. QED BY <1>4, <1>5

(* A number of the narrow width, at an exponent that doubles have, is one  *)
(* of the wide format, and is delivered as that.                           *)
LEMMA TwoShifts ==
  ASSUME NEW x \in Nat, NEW m \in Nat, NEW n \in Nat, m + n <= MaxShift
  PROVE  (x * Pow2[m]) * Pow2[n] = x * Pow2[m + n]
<1>1. m \in 0..MaxShift /\ n \in 0..MaxShift
  BY OneIs
<1>2. Pow2[m] \in Nat /\ Pow2[n] \in Nat
  BY <1>1, Pow2Positive
<1>3. Pow2[m + n] = Pow2[m] * Pow2[n]
  BY Pow2Sum
<1>. DEFINE p == Pow2[m]
            t == Pow2[n]
<1>. HIDE DEF p, t
<1>4. (x * p) * t = x * (p * t)
  BY <1>2, Z3 DEF p, t
<1>. QED BY <1>3, <1>4 DEF p, t

NarrowWide(mag, k) ==
  /\ mag \in Nat /\ Pow2[NarrowFracBits] <= mag /\ mag < 2 * Pow2[NarrowFracBits]
  /\ k \in Nat /\ UnitDistance - NarrowFracBits <= k /\ k < UnitDistance + 2 * NR!Bias

LEMMA WideValue ==
  ASSUME NEW s \in {0, 1}, NEW mag, NEW k, NarrowWide(mag, k)
  PROVE  \E v \in Values : /\ v.s = s /\ v.e \in 1..(ExpMax - 1)
                           /\ Ref!Mag(v) = mag * Pow2[k]
<1>. DEFINE up == FracBits - NarrowFracBits
            m == mag * Pow2[up]
            e == (k - up) + 1
            P == Pow2[NarrowFracBits]
            v == [s |-> s, e |-> e, f |-> m - ImplicitBit]
<1>1. /\ mag \in Nat /\ P <= mag /\ mag < 2 * P /\ k \in Nat
      /\ UnitDistance - NarrowFracBits <= k /\ k < UnitDistance + 2 * NR!Bias
  BY DEF NarrowWide
<1>2. /\ up \in Nat /\ up \in 0..MaxShift /\ NarrowFracBits \in Nat /\ NarrowFracBits + up = FracBits
      /\ NarrowFracBits + up <= MaxShift /\ NarrowFracBits \in 0..MaxShift /\ FracBits <= MaxShift
  BY NarrowWidths, OneIs
<1>3. e \in 1..(2 * Bias) /\ k - up \in Nat /\ up + (k - up) = k /\ k <= MaxShift /\ e - 1 = k - up
  <2>1. UnitDistance \in Nat /\ UnitDistance >= FracBits /\ NR!Bias + NarrowFracBits <= Bias
        /\ UnitDistance = (Bias - NR!Bias) + (FracBits - NarrowFracBits) /\ NR!Bias \in Nat
        /\ UnitDistance + 2 * NR!Bias + 1 <= MaxShift /\ Bias \in Nat /\ FracBits \in Nat
        /\ MaxShift \in Nat
    BY NarrowWidths, NarrowParts, OneIs
  <2>2. k - up \in Nat
    BY <1>1, <1>2, <2>1
  <2>. QED BY <1>1, <1>2, <2>1, <2>2
<1>4. ExpMax = 2 * Bias + 1 /\ ExpMax \in Nat /\ Bias \in Nat /\ ImplicitBit \in Nat
  BY Fields
<1>5. ImplicitBit = P * Pow2[up] /\ P \in Nat /\ Pow2[up] \in Nat /\ Pow2[up] >= 1
  <2>1. Pow2[NarrowFracBits + up] = Pow2[NarrowFracBits] * Pow2[up]
    BY <1>2, Pow2Sum
  <2>2. Pow2[NarrowFracBits + up] = ImplicitBit
    BY <1>2 DEF ImplicitBit
  <2>. QED BY <1>2, <2>1, <2>2, Pow2Positive
<1>6. m \in Nat /\ ImplicitBit <= m /\ m < 2 * ImplicitBit
  <2>. DEFINE U == Pow2[up]
  <2>1. U \in Nat /\ U >= 1 /\ ImplicitBit = P * U
    BY <1>5
  <2>. HIDE DEF U, P
  <2>2. P * U <= mag * U /\ mag * U \in Nat
    BY <1>1, <1>5, <2>1, TimesOrder DEF P
  <2>3. ~ (2 * P <= mag)
    BY <1>1, <1>5
  <2>4. ~ ((2 * P) * U <= mag * U) /\ (2 * P) * U \in Nat
    <3>1. 2 * P \in Nat
      BY <1>5 DEF P
    <3>. QED BY <1>1, <2>1, <2>3, <3>1, TimesOrder
  <2>5. (2 * P) * U = 2 * (P * U) /\ P \in Nat
    <3>1. P \in Nat
      BY <1>5 DEF P
    <3>. QED BY <2>1, <3>1, Z3
  <2>. QED BY <2>1, <2>2, <2>4, <2>5 DEF U
<1>. HIDE DEF m, e
<1>7. v \in Values /\ v.e < ExpMax /\ v.s = s /\ v.e = e /\ v.f = m - ImplicitBit
  <2>1. m - ImplicitBit \in 0..(ImplicitBit - 1)
    BY <1>4, <1>6
  <2>2. e \in 0..ExpMax /\ e < ExpMax
    BY <1>3, <1>4
  <2>. QED BY <2>1, <2>2 DEF Values
<1>8. Ref!Mag(v) = m * Pow2[e - 1]
  <2>1. e # 0 /\ (m - ImplicitBit) + ImplicitBit = m
    BY <1>3, <1>4, <1>6
  <2>2. Whole(v) = m /\ Binade(v.e) = e
    BY <1>7, <2>1 DEF Whole, Binade
  <2>3. Ref!Mag(v) = Whole(v) * Unit(Binade(v.e))
    BY <1>7, ValueAt
  <2>. QED BY <2>2, <2>3, Zenon DEF Unit
<1>9. Ref!Mag(v) = mag * Pow2[k]
  <2>1. (mag * Pow2[up]) * Pow2[k - up] = mag * Pow2[up + (k - up)]
    <3>1. up + (k - up) <= MaxShift
      BY <1>3
    <3>. QED BY <1>1, <1>2, <1>3, <3>1, TwoShifts, Zenon
  <2>. QED BY <1>3, <1>8, <2>1, Zenon DEF m
<1>10. v.e \in 1..(ExpMax - 1)
  BY <1>3, <1>4, <1>7
<1>. QED BY <1>7, <1>9, <1>10

LEMMA WidePacks ==
  ASSUME NEW v \in Values, v.e \in 1..(ExpMax - 1), NEW mag, NEW k, NarrowWide(mag, k),
         Ref!Mag(v) = mag * Pow2[k]
  PROVE  PackScaled(v.s, mag, (k - Bias) - FracBits + 1, "RNE") = [res |-> v, fe |-> {}]
<1>. DEFINE scale == (k - Bias) - FracBits + 1
            num == Ref!Mag(v)
<1>1. /\ mag \in Nat /\ Pow2[NarrowFracBits] <= mag /\ mag < 2 * Pow2[NarrowFracBits] /\ k \in Nat
      /\ k < UnitDistance + 2 * NR!Bias
  BY DEF NarrowWide
<1>2. /\ NarrowFracBits \in Nat /\ NarrowFracBits \in 0..MaxShift /\ NarrowFracBits + 1 <= BigBits
      /\ k + 1 <= MaxShift /\ NarrowFracBits + 3 <= FracBits /\ NarrowFracBits < BigBits
      /\ NarrowFracBits + 1 \in 0..MaxShift /\ BigBits \in 0..MaxShift
      /\ NarrowFracBits + 1 \in Nat /\ BigBits \in Nat /\ BigBits <= MaxShift
  <2>1. UnitDistance \in Nat /\ NR!Bias \in Nat /\ UnitDistance + 2 * NR!Bias + 1 <= MaxShift
    BY NarrowWidths, NarrowParts
  <2>. QED BY <1>1, <2>1, NarrowWidths, OneIs
<1>3. Pow2[NarrowFracBits + 1] = 2 * Pow2[NarrowFracBits] /\ Pow2[NarrowFracBits] \in Nat
      /\ Pow2[NarrowFracBits] >= 1 /\ Pow2[BigBits] \in Nat /\ Pow2[NarrowFracBits + 1] <= Pow2[BigBits]
  <2>1. Pow2[NarrowFracBits + 1] = 2 * Pow2[NarrowFracBits]
    BY <1>2, Pow2Step
  <2>. QED BY <1>2, <2>1, Pow2Positive, Pow2Monotone
<1>4. mag >= 1 /\ mag < Pow2[BigBits] /\ mag < Pow2[NarrowFracBits + 1]
  BY <1>1, <1>3
<1>5. Highest(mag) \in 0..NarrowFracBits
  <2>1. Highest(mag) \in 0..(BigBits - 1) /\ Highest(mag) < NarrowFracBits + 1
    BY <1>1, <1>2, <1>4, HighestIs
  <2>. QED BY <1>2, <2>1
<1>6. /\ InTable(k) /\ InTable(k + Highest(mag) - FracBits - 3)
      /\ InTable(k + Highest(mag) - FracBits)
      /\ k = scale + Bias + FracBits - 1 /\ scale \in Int /\ k \in 0..MaxShift
  BY <1>1, <1>2, <1>5, OneIs DEF InTable
<1>7. num \in Nat /\ Over(k) = Pow2[k] /\ Under(k) = 1 /\ Pow2[k] \in Nat
  <2>1. Pow2[k] \in Nat
    BY <1>6, Pow2Positive
  <2>2. num \in Nat
    <3>1. num = mag * Pow2[k]
      OBVIOUS
    <3>. HIDE DEF num
    <3>. QED BY <1>1, <2>1, <3>1
  <2>. QED BY <1>1, <2>1, <2>2 DEF Over, Under
<1>8. Weighs(mag, k, num, 1)
  <2>1. mag * (1 * Over(k)) = num * Under(k)
    <3>. DEFINE p == Pow2[k]
    <3>1. num = mag * p /\ Over(k) = p /\ Under(k) = 1 /\ p \in Nat
      BY <1>7
    <3>. HIDE DEF num, p
    <3>2. 1 * p = p /\ num * 1 = num
      BY <1>7, <3>1 DEF num
    <3>. QED BY <3>1, <3>2, Zenon
  <2>. HIDE DEF num
  <2>. QED BY <1>1, <1>6, <1>7, <2>1 DEF Weighs, num
<1>9. v.s \in {0, 1} /\ v.e < ExpMax /\ "RNE" \in Modes /\ v.e # 0
  BY Fields DEF Values, Modes
<1>10. Packs(v.s, mag, scale, "RNE", k, num, 1)
  <2>1. HoldsValue(mag, k, num, 1)
    BY <1>8 DEF HoldsValue
  <2>. HIDE DEF num, scale
  <2>. QED BY <1>1, <1>4, <1>6, <1>9, <2>1 DEF Packs
<1>. HIDE DEF scale
<1>11. PackScaled(v.s, mag, scale, "RNE") = Late(Ref!Round(v.s, num, 1, "RNE"))
  BY <1>10, PackScaledRounds
<1>12. Ref!Round(v.s, num, 1, "RNE") = [res |-> v, fe |-> {}]
  BY <1>9, ExactValue
<1>13. Late([res |-> v, fe |-> {}]) = [res |-> v, fe |-> {}]
  <2>1. ({} \ {"underflow"}) \cup {} = {}
    OBVIOUS
  <2>. QED BY <1>9, <2>1 DEF Late
<1>. QED BY <1>11, <1>12, <1>13 DEF scale

(* The exact value of a number of the narrow format.                       *)
LEMMA NarrowValue ==
  ASSUME NEW v \in Narrow, v.e # NarrowMax
  PROVE  /\ v.e \in 0..(2 * NR!Bias) /\ v.f \in Nat /\ v.f < Pow2[NarrowFracBits] /\ v.s \in {0, 1}
         /\ v.e = 0 => NarrowRef!Mag(v) = v.f
         /\ v.e # 0 => NarrowRef!Mag(v) = (v.f + Pow2[NarrowFracBits]) * Pow2[v.e - 1]
<1>1. /\ NR!ImplicitBit = Pow2[NarrowFracBits] /\ NarrowMax = 2 * NR!Bias + 1 /\ NR!Bias \in Nat
      /\ NR!ExpMax = 2 * NR!Bias + 1 /\ NR!ExpMax = Pow2[NarrowExpBits] - 1
  BY NarrowParts
<1>2. Pow2[NarrowFracBits] \in Nat
  <2>1. NarrowFracBits \in 0..MaxShift
    BY NarrowWidths, OneIs
  <2>. QED BY <2>1, Pow2Positive
<1>3. v \in NR!Values
  BY <1>1 DEF Narrow, NR!Values
<1>4. v.e \in 0..(2 * NR!Bias) /\ v.f \in Nat /\ v.f < Pow2[NarrowFracBits] /\ v.s \in {0, 1} /\ v.e < NR!ExpMax
  BY <1>1, <1>2, <1>3 DEF NR!Values
<1>5. NarrowRef!Mag(v) = NR!Whole(v) * NR!Unit(NR!Binade(v.e))
  BY <1>3, <1>4, NarrowIsFormat, NarrowMag, NR!ValueAt
<1>6. v.e = 0 => NarrowRef!Mag(v) = v.f
  <2>. SUFFICES ASSUME v.e = 0 PROVE NarrowRef!Mag(v) = v.f
    OBVIOUS
  <2>1. NR!Whole(v) = v.f /\ NR!Binade(v.e) = 1
    BY Zenon DEF NR!Whole, NR!Binade
  <2>2. NR!Unit(1) = 1
    BY SmallPowers DEF NR!Unit
  <2>. QED BY <1>4, <1>5, <2>1, <2>2
<1>7. v.e # 0 => NarrowRef!Mag(v) = (v.f + Pow2[NarrowFracBits]) * Pow2[v.e - 1]
  BY <1>1, <1>5, Zenon DEF NR!Whole, NR!Binade, NR!Unit
<1>. QED BY <1>4, <1>6, <1>7

LEMMA WidenGives ==
  ASSUME CInv, IInv', call.op = "from_f64", fe = {}, A \in Narrow, A.e # NarrowMax,
         NEW mag, NEW scale, NEW k, NarrowWide(mag, k), scale = (k - Bias) - FracBits + 1,
         NarrowRef!Mag(A) * Pow2[UnitDistance] = mag * Pow2[k],
         ToPack(A.s, mag, scale, "RNE", {})
  PROVE  CInv'
<1>1. A.s \in {0, 1} /\ A = call.a
  BY NarrowValue DEF A
<1>2. PICK v \in Values : v.s = A.s /\ v.e \in 1..(ExpMax - 1) /\ Ref!Mag(v) = mag * Pow2[k]
  BY <1>1, WideValue
<1>3. PackScaled(A.s, mag, scale, "RNE") = [res |-> v, fe |-> {}]
  BY <1>2, WidePacks
<1>4. Finite(v)
  BY <1>2, Fields DEF Finite, IsNaN, IsInf
<1>5. ~ NarrowFormat!IsNaN(A) /\ ~ NarrowFormat!IsInf(A)
  <2>1. NarrowFormat!ExpMax = NarrowMax
    BY NarrowParts
  <2>. QED BY <2>1 DEF NarrowFormat!IsNaN, NarrowFormat!IsInf
<1>6. WideningGives(call, v, {})
  BY <1>1, <1>2, <1>4, <1>5, Zenon DEF WideningGives
<1>7. Gives(call, v, {})
  <2>. DEFINE c == call
  <2>1. c.op = "from_f64" /\ WideningGives(c, v, {})
    BY <1>6
  <2>. HIDE DEF c
  <2>2. Gives(c, v, {})
    BY <2>1 DEF Gives
  <2>. QED BY <2>2 DEF c
<1>8. LET r == PackScaled(A.s, mag, scale, "RNE") IN Gives(call, r.res, {} \cup r.fe)
  <2>. DEFINE r == PackScaled(A.s, mag, scale, "RNE")
  <2>1. r.res = v /\ {} \cup r.fe = {}
    BY <1>3
  <2>. HIDE DEF r
  <2>2. Gives(call, r.res, {} \cup r.fe)
    BY <1>7, <2>1, Zenon
  <2>. QED BY <2>2 DEF r
<1>. QED BY <1>8, PackPends

LEMMA WidenRegularRight ==
  ASSUME CInv, IInv', WidenRegular
  PROVE  CInv'
<1>. DEFINE h == Highest(A.f)
            shift == NarrowFracBits - h
            UD == UnitDistance
            P == Pow2[NarrowFracBits]
<1>1. /\ pc = "enter" /\ call.op = "from_f64" /\ A.e # NarrowMax /\ ~ (A.e = 0 /\ A.f = 0)
      /\ IF A.e = 0
         THEN ToPack(A.s, Shl(A.f, shift), 1 - NarrowBias - shift - NarrowFracBits, "RNE", {})
         ELSE ToPack(A.s, A.f + P, A.e - NarrowBias - NarrowFracBits, "RNE", {})
  BY DEF WidenRegular, Is
<1>2. call \in Calls /\ fe = {} /\ A \in Narrow
  BY <1>1, ConversionFacts, ConversionOperands
<1>3. /\ A.e \in 0..(2 * NR!Bias) /\ A.f \in Nat /\ A.f < P
      /\ A.e = 0 => NarrowRef!Mag(A) = A.f
      /\ A.e # 0 => NarrowRef!Mag(A) = (A.f + P) * Pow2[A.e - 1]
  BY <1>1, <1>2, NarrowValue
<1>4. /\ NarrowFracBits \in Nat /\ UD \in Nat /\ UD = (Bias - NarrowBias) + (FracBits - NarrowFracBits)
      /\ UD >= FracBits /\ UD >= NarrowFracBits /\ UD + 2 * NR!Bias + 1 <= MaxShift
      /\ NR!Bias \in Nat /\ NR!Bias >= 1 /\ NarrowBias = NR!Bias
      /\ NarrowFracBits + 4 <= BigBits /\ NarrowFracBits \in 0..MaxShift
      /\ Bias \in Nat /\ FracBits \in Nat /\ MaxShift \in Nat /\ BigBits \in Nat /\ BigBits <= MaxShift
  <2>1. NarrowBias = NR!Bias /\ NR!Bias \in Nat /\ NR!Bias >= 1
    BY NarrowParts
  <2>. QED BY <2>1, NarrowWidths, OneIs
<1>5. P \in Nat /\ P >= 1 /\ Pow2[NarrowFracBits + 1] = 2 * P
  BY <1>4, WidePowers
<1>6. CASE A.e # 0
  <2>. DEFINE k == (A.e - 1) + UD
              mag == A.f + P
  <2>1. A.e - 1 \in Nat /\ (A.e - 1) + UD <= MaxShift
        /\ A.e - NarrowBias - NarrowFracBits = (k - Bias) - FracBits + 1
    BY <1>3, <1>4, <1>6
  <2>2. NarrowWide(mag, k)
    BY <1>3, <1>4, <1>5, <1>6 DEF NarrowWide
  <2>3. (mag * Pow2[A.e - 1]) * Pow2[UD] = mag * Pow2[k]
    <3>1. mag \in Nat
      BY <1>3, <1>5
    <3>. HIDE DEF mag
    <3>. QED BY <1>4, <2>1, <3>1, TwoShifts
  <2>4. NarrowRef!Mag(A) * Pow2[UD] = mag * Pow2[k]
    BY <1>3, <1>6, <2>3, Zenon
  <2>5. ToPack(A.s, mag, A.e - NarrowBias - NarrowFracBits, "RNE", {})
    BY <1>1, <1>6, Zenon
  <2>. HIDE DEF mag, k
  <2>. QED BY <1>1, <1>2, <2>1, <2>2, <2>4, <2>5, WidenGives
<1>7. CASE A.e = 0
  <2>. DEFINE k == UD - shift
              mag == Shl(A.f, shift)
  <2>1. A.f >= 1 /\ A.f < Pow2[BigBits]
    <3>1. NarrowFracBits <= BigBits
      BY <1>4
    <3>2. P <= Pow2[BigBits]
      BY <1>4, <3>1, Pow2Monotone
    <3>3. Pow2[BigBits] \in Nat
      BY <1>4, Pow2Positive
    <3>. QED BY <1>1, <1>3, <1>5, <1>7, <3>2, <3>3
  <2>2. h \in 0..(NarrowFracBits - 1) /\ Pow2[h] <= A.f /\ A.f < Pow2[h + 1]
    <3>1. h \in 0..(BigBits - 1) /\ Pow2[h] <= A.f /\ A.f < Pow2[h + 1] /\ h < NarrowFracBits
      BY <1>3, <1>4, <2>1, HighestIs
    <3>. QED BY <1>4, <3>1
  <2>3. /\ shift \in Nat /\ shift >= 1 /\ shift <= NarrowFracBits /\ h \in Nat /\ h + 1 \in Nat
        /\ (h + 1) + shift = NarrowFracBits + 1 /\ (h + 1) + shift <= BigBits /\ shift < BigBits
        /\ h + shift = NarrowFracBits /\ k \in Nat /\ shift + k = UD /\ h + shift <= MaxShift
        /\ UD <= MaxShift /\ h \in 0..MaxShift /\ shift \in 0..MaxShift
    BY <1>4, <2>2
  <2>4. mag = A.f * Pow2[shift] /\ mag < 2 * P /\ mag \in Nat
    <3>1. /\ Shl(A.f, shift) = A.f * Pow2[shift] /\ A.f * Pow2[shift] \in Nat
          /\ A.f * Pow2[shift] < Pow2[(h + 1) + shift]
      <4>. HIDE DEF h, shift
      <4>. QED BY <1>3, <2>2, <2>3, ShlFits
    <3>. QED BY <1>5, <2>3, <3>1
  <2>5. P <= mag
    <3>1. P = Pow2[h] * Pow2[shift]
      BY <2>3, Pow2Sum
    <3>2. Pow2[h] \in Nat /\ Pow2[shift] \in Nat /\ Pow2[shift] >= 1
      BY <2>3, Pow2Positive
    <3>3. Pow2[h] * Pow2[shift] <= A.f * Pow2[shift]
      BY <1>3, <2>2, <3>2, TimesOrder
    <3>. QED BY <2>4, <3>1, <3>3
  <2>6. NarrowWide(mag, k)
    BY <1>4, <2>3, <2>4, <2>5 DEF NarrowWide
  <2>7. NarrowRef!Mag(A) * Pow2[UD] = mag * Pow2[k]
    <3>1. (A.f * Pow2[shift]) * Pow2[k] = A.f * Pow2[shift + k]
      <4>1. shift + k <= MaxShift
        BY <2>3
      <4>. QED BY <1>3, <2>3, <4>1, TwoShifts, Zenon
    <3>. QED BY <1>3, <1>7, <2>3, <2>4, <3>1, Zenon
  <2>8. ToPack(A.s, mag, 1 - NarrowBias - shift - NarrowFracBits, "RNE", {})
    BY <1>1, <1>7, Zenon
  <2>9. 1 - NarrowBias - shift - NarrowFracBits = (k - Bias) - FracBits + 1
    BY <1>4, <2>3
  <2>. HIDE DEF mag, k, shift, h
  <2>. QED BY <1>1, <1>2, <2>6, <2>7, <2>8, <2>9, WidenGives
<1>. QED BY <1>6, <1>7

LEMMA WidenSpecialRight ==
  ASSUME CInv, IInv', WidenSpecial
  PROVE  CInv'
<1>. DEFINE f == Shl(A.f, FracBits - NarrowFracBits)
            nan == [s |-> A.s, e |-> ExpMax, f |-> f]
            w == IF A.f # 0 THEN Quiet(nan) ELSE IF A.e = 0 THEN SignedZero(A.s) ELSE SignedInf(A.s)
<1>1. /\ pc = "enter" /\ call.op = "from_f64" /\ (A.e = NarrowMax \/ (A.e = 0 /\ A.f = 0))
      /\ Done(w, {})
  BY DEF WidenSpecial, Is
<1>2. call \in Calls /\ fe = {} /\ A \in Narrow /\ A = call.a
  BY <1>1, ConversionFacts, ConversionOperands DEF A
<1>3. NarrowFormat!ExpMax = NarrowMax /\ NarrowMax # 0 /\ A.f \in Int
  <2>1. NarrowMax = 2 * NR!Bias + 1 /\ NR!Bias \in Nat
    BY NarrowParts
  <2>2. A.f \in Int
    BY <1>2 DEF Narrow
  <2>. QED BY <2>1, <2>2, NarrowParts
<1>4. ImplicitBit \in Nat /\ QuietNaNBit \in Nat /\ QuietNaNBit >= 1 /\ ExpMax # 0
  <2>1. FracBits - 1 \in 0..MaxShift
    BY OneIs
  <2>. QED BY <2>1, Pow2Positive, Fields DEF QuietNaNBit
<1>5. WideningGives(call, w, {})
  <2>1. CASE A.f # 0
    <3>1. w = Quiet(nan) /\ NarrowFormat!IsNaN(A)
      BY <1>1, <1>3, <2>1 DEF NarrowFormat!IsNaN
    <3>2. f \in Nat
      <4>1. FracBits - NarrowFracBits \in Nat /\ FracBits - NarrowFracBits < BigBits
        BY NarrowWidths, OneIs
      <4>2. NarrowFracBits \in 0..MaxShift
        BY NarrowWidths, OneIs
      <4>3. Pow2[NarrowFracBits] \in Nat
        BY <4>2, Pow2Positive
      <4>4. A.f \in Nat
        BY <1>2, <4>3 DEF Narrow
      <4>. QED BY <4>1, <4>4, ShlBound
    <3>. HIDE DEF f
    <3>3. /\ Quiet(nan).s = A.s /\ Quiet(nan).e = ExpMax
          /\ Quiet(nan).f = IF f < QuietNaNBit THEN f + QuietNaNBit ELSE f
      BY DEF Quiet
    <3>4. IsNaN(Quiet(nan)) /\ ~ IsSNaN(Quiet(nan))
      BY <1>4, <3>2, <3>3 DEF IsNaN, IsSNaN
    <3>. HIDE DEF w, nan
    <3>. QED BY <1>2, <3>1, <3>3, <3>4, Zenon DEF WideningGives
  <2>2. CASE A.f = 0 /\ A.e # 0
    <3>1. w = SignedInf(A.s) /\ NarrowFormat!IsInf(A) /\ ~ NarrowFormat!IsNaN(A)
      BY <1>1, <1>3, <2>2 DEF NarrowFormat!IsNaN, NarrowFormat!IsInf
    <3>2. IsInf(SignedInf(A.s)) /\ SignedInf(A.s).s = A.s
      BY DEF IsInf, SignedInf
    <3>. HIDE DEF w
    <3>. QED BY <1>2, <3>1, <3>2, Zenon DEF WideningGives
  <2>3. CASE A.f = 0 /\ A.e = 0
    <3>1. w = SignedZero(A.s) /\ ~ NarrowFormat!IsInf(A) /\ ~ NarrowFormat!IsNaN(A)
      BY <1>1, <1>3, <2>3 DEF NarrowFormat!IsNaN, NarrowFormat!IsInf
    <3>2. SignedZero(A.s).s = A.s /\ Finite(SignedZero(A.s)) /\ SignedZero(A.s) \in Values
          /\ IsZero(SignedZero(A.s))
      <4>1. A.s \in {0, 1}
        BY <1>2 DEF Narrow
      <4>2. ImplicitBit >= 1
        BY GuardPowers
      <4>. QED BY <1>4, <4>1, <4>2, Fields DEF Finite, IsNaN, IsInf, IsZero, SignedZero, Values
    <3>3. Ref!Mag(SignedZero(A.s)) = 0
      <4>. DEFINE v == SignedZero(A.s)
      <4>1. v \in Values /\ IsZero(v) /\ ~ IsNaN(v)
        BY <3>2 DEF Finite
      <4>. HIDE DEF v
      <4>2. Ref!Mag(v) = 0
        BY <4>1, WordOrder
      <4>. QED BY <4>2 DEF v
    <3>4. NarrowRef!Mag(A) * Pow2[UnitDistance] = 0
      <4>1. NarrowRef!Mag(A) = 0
        BY <1>2, <1>3, <2>3, NarrowValue
      <4>2. Pow2[UnitDistance] \in Nat
        <5>1. UnitDistance \in 0..MaxShift
          BY NarrowWidths, NarrowParts, OneIs
        <5>. QED BY <5>1, Pow2Positive
      <4>. QED BY <4>1, <4>2
    <3>5. Ref!Mag(SignedZero(A.s)) = NarrowRef!Mag(A) * Pow2[UnitDistance]
      BY <3>3, <3>4
    <3>. HIDE DEF w
    <3>. QED BY <1>2, <3>1, <3>2, <3>5, Zenon DEF WideningGives
  <2>. QED BY <2>1, <2>2, <2>3
<1>. HIDE DEF w
<1>6. Gives(call, w, {})
  <2>. DEFINE c == call
  <2>1. c.op = "from_f64" /\ WideningGives(c, w, {})
    BY <1>1, <1>5
  <2>. HIDE DEF c
  <2>2. Gives(c, w, {})
    BY <2>1 DEF Gives
  <2>. QED BY <2>2 DEF c
<1>. QED BY <1>1, <1>2, <1>6, DoneGives

LEMMA ArithmeticComputed ==
  ASSUME IInv, ArithmeticStep
  PROVE  call.op \in Computed
<1>1. \A ops : Is(ops) /\ ops \subseteq Computed => call.op \in Computed
  BY DEF Is
<1>2. /\ Dyadic \subseteq Computed /\ {"sqrt"} \subseteq Computed /\ {"fma"} \subseteq Computed
      /\ {"add", "sub"} \subseteq Computed /\ {"mul"} \subseteq Computed
      /\ {"div"} \subseteq Computed /\ {"remainder"} \subseteq Computed
  BY DEF Computed, Arithmetic, Dyadic
<1>3. CASE NaNOperand \/ (NaNArgument /\ call.op = "sqrt") \/ NaNAmongThree
  BY <1>1, <1>2, <1>3 DEF NaNOperand, NaNAmongThree
<1>4. CASE InfiniteSum \/ ZeroSum \/ SpecialProduct \/ SpecialQuotient
  BY <1>1, <1>2, <1>4 DEF InfiniteSum, ZeroSum, SpecialProduct, SpecialQuotient, Numbers
<1>5. CASE SpecialRoot \/ SpecialRemainder \/ SpecialFma
  BY <1>1, <1>2, <1>5 DEF SpecialRoot, SpecialRemainder, SpecialFma, Numbers
<1>6. CASE NearSum \/ FarSum \/ Multiply
  BY <1>1, <1>2, <1>6 DEF NearSum, FarSum, Multiply, RegularSum, Numbers
<1>7. CASE ProductOnly \/ FusedSum
  BY <1>1, <1>2, <1>7 DEF ProductOnly, FusedSum, RegularFma, Numbers
<1>8. CASE StartDivision \/ StartRoot
  BY <1>1, <1>2, <1>8 DEF StartDivision, StartRoot, Numbers
<1>9. CASE AlreadyRemainder \/ BelowDivisor \/ StartReduction
  BY <1>1, <1>2, <1>9 DEF AlreadyRemainder, BelowDivisor, StartReduction, RegularRemainder, Numbers
<1>10. CASE DivideDigit \/ RootDigit \/ ReduceDigit
  <2>1. call.op \in {"div", "sqrt", "remainder"}
    BY <1>10 DEF DivideDigit, RootDigit, ReduceDigit, IInv, Dividing, Rooting, Reducing
  <2>. QED BY <1>2, <2>1
<1>. QED BY <1>3, <1>4, <1>5, <1>6, <1>7, <1>8, <1>9, <1>10 DEF ArithmeticStep

LEMMA ArithmeticMoves ==
  ASSUME ArithmeticStep
  PROVE  call' = call /\ pc' # "enter"
<1>1. \A at, r, quotient, first :
        Loop(at, r, quotient, first) /\ at # "enter" => call' = call /\ pc' # "enter"
  BY DEF Loop
<1>2. Leaves => call' = call /\ pc' # "enter"
  BY DEF Leaves
<1>3. CASE StartDivision \/ StartRoot \/ StartReduction
  BY <1>1, <1>3 DEF StartDivision, StartRoot, StartReduction
<1>4. CASE (DivideDigit \/ RootDigit \/ ReduceDigit) /\ pos # 0
  <2>1. CASE DivideDigit /\ pos # 0
    BY <2>1 DEF DivideDigit, Loop
  <2>2. CASE RootDigit /\ pos # 0
    BY <2>2 DEF RootDigit, Loop
  <2>3. CASE ReduceDigit /\ pos # 0
    BY <1>1, <1>2, <2>3, ToPackLeaves DEF ReduceDigit
  <2>. QED BY <1>4, <2>1, <2>2, <2>3
<1>5. CASE Leaves
  BY <1>2, <1>5
<1>. QED BY <1>3, <1>4, <1>5, SpecialOperandsLeave, SumsAndProductsLeave, LastDigitLeaves
         DEF ArithmeticStep

LEMMA ConvertedInit == Init => CInv
<1>. SUFFICES ASSUME Init PROVE CInv
  OBVIOUS
<1>1. IInv /\ pc = "enter" /\ fe = {}
  BY TypeInit DEF Init, Fresh
<1>. QED BY <1>1 DEF CInv

LEMMA ConvertedInductive == CInv /\ [Next]_vars => CInv'
<1>. SUFFICES ASSUME CInv, [Next]_vars PROVE CInv'
  OBVIOUS
<1>1. IInv /\ IInv'
  BY Inductive DEF CInv
<1>2. CASE ArithmeticStep
  BY <1>1, <1>2, ArithmeticComputed, ArithmeticMoves, ComputedStays
<1>3. CASE NaNArgument /\ call.op # "sqrt"
  <2>1. call.op = "rint"
    BY <1>3 DEF NaNArgument, Is
  <2>. QED BY <1>1, <1>3, <2>1, RintNaN
<1>4. CASE AlreadyIntegral
  BY <1>1, <1>4, AlreadyIntegralRight
<1>5. CASE RoundToIntegral
  BY <1>1, <1>5, RoundToIntegralRight
<1>6. CASE ToInteger
  BY <1>1, <1>6, ToIntegerRight
<1>7. CASE FromInteger
  BY <1>1, <1>7, FromIntegerRight
<1>8. CASE NarrowSpecial \/ NarrowRegular
  BY <1>1, <1>8, NarrowSpecialRight, NarrowRegularRight
<1>9. CASE WidenSpecial \/ WidenRegular
  BY <1>1, <1>9, WidenSpecialRight, WidenRegularRight
<1>10. CASE Compare
  BY <1>1, <1>10, CompareRight
<1>11. CASE PackStep
  BY <1>1, <1>11, PackStepGives
<1>12. CASE UNCHANGED vars
  <2>1. call' = call /\ pc' = pc /\ fe' = fe /\ z' = z /\ res' = res
    BY <1>12 DEF vars
  <2>. QED BY <1>1, <2>1 DEF CInv
<1>. QED BY <1>2, <1>3, <1>4, <1>5, <1>6, <1>7, <1>8, <1>9, <1>10, <1>11, <1>12
         DEF Next, ArithmeticStep

LEMMA ConvertedKept == Spec => []CInv
  BY ConvertedInit, ConvertedInductive, PTL DEF Spec

LEMMA ConvertedRight == CInv => ExactConversions
<1>. SUFFICES ASSUME CInv PROVE ExactConversions
  OBVIOUS
<1>1. CASE pc = "done"
  BY <1>1, GivesExact DEF CInv
<1>2. CASE pc # "done"
  BY <1>2 DEF ExactConversions, CorrectRint, CorrectToUnsigned, CorrectToSigned,
              CorrectNarrowing, CorrectWidening, CorrectComparison, Returned
<1>. QED BY <1>1, <1>2

(* soft_f256.h:8-10: in every width, for every operand and mode, rint, the *)
(* conversions of binary256 from and to integers and doubles and the       *)
(* comparisons agree with the exact values: one rounding, the integer 0    *)
(* for NaN, the nearest bound and INVALID out of range, INEXACT exactly    *)
(* when something is lost, and a double unchanged.                         *)
THEOREM ExactConversionsAlways == Spec => []ExactConversions
  BY ConvertedKept, ConvertedRight, PTL
=============================================================================

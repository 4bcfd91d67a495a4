--------------------------- MODULE Arith64Proofs ---------------------------
(***************************************************************************)
(* Proofs about Arith64, for every format and every pair of operands: the  *)
(* significand handed to round_and_pack is normalised and stands for the   *)
(* exact result; what is returned, with which flags, is what IEEE 754      *)
(* prescribes.                                                             *)
(***************************************************************************)
EXTENDS Arith64, Rounding64Proofs

IInv == TypeOK /\ Normalised

---------------------------------------------------------------------------
(* The operands of the magnitude operations.                               *)
LEMMA Operands ==
  ASSUME TypeOK, Nonzero
  PROVE  /\ A \in Values /\ A.e < ExpMax /\ ~ IsZero(A) /\ A.s \in {0, 1}
         /\ B \in Values /\ B.e < ExpMax /\ ~ IsZero(B) /\ B.s \in {0, 1}
<1>1. call.a \in Values /\ call.b \in Values
  BY DEF TypeOK, Calls
<1>2. A \in Values /\ B \in Values
  BY <1>1, SpecialResults DEF A, B
<1>3. A.e \in 0..ExpMax /\ B.e \in 0..ExpMax /\ A.s \in {0, 1} /\ B.s \in {0, 1}
  BY <1>2 DEF Values
<1>4. ~ IsNaN(A) /\ ~ IsInf(A) /\ ~ IsNaN(B) /\ ~ IsInf(B) /\ ~ IsZero(A) /\ ~ IsZero(B)
  BY DEF Nonzero, Finite
<1>5. A.e # ExpMax /\ B.e # ExpMax
  BY <1>4 DEF IsNaN, IsInf
<1>. QED BY <1>2, <1>3, <1>4, <1>5, Fields

(* The powers of two around the implicit bit.                              *)
LEMMA Layout ==
  /\ ImplicitAt \in Nat /\ ImplicitAt > 0
  /\ Pow2[ImplicitAt] \in Nat /\ Pow2[ImplicitAt] >= 1
  /\ Pow2[ImplicitAt + 1] = 2 * Pow2[ImplicitAt]
  /\ Pow2[ImplicitAt + 2] = 4 * Pow2[ImplicitAt]
  /\ Pow2[ImplicitAt + 1] <= Pow2[WordBits] /\ Pow2[WordBits] \in Nat
<1>1. /\ ImplicitAt \in Nat /\ ImplicitAt > 0 /\ ImplicitAt + 1 \in Nat
      /\ ImplicitAt \in 0..MaxShift /\ ImplicitAt + 1 <= MaxShift
      /\ (ImplicitAt + 1) + 1 <= MaxShift /\ (ImplicitAt + 1) + 1 = ImplicitAt + 2
      /\ ImplicitAt + 1 <= WordBits /\ WordBits \in Nat /\ WordBits \in 0..MaxShift
      /\ WordBits <= MaxShift
  BY Widths
<1>2. Pow2[ImplicitAt + 1] = 2 * Pow2[ImplicitAt]
  BY <1>1, Pow2Step
<1>3. Pow2[(ImplicitAt + 1) + 1] = 2 * Pow2[ImplicitAt + 1]
  BY <1>1, Pow2Step
<1>4. Pow2[ImplicitAt + 1] <= Pow2[WordBits]
  BY <1>1, Pow2Monotone
<1>5. Pow2[ImplicitAt] \in Nat /\ Pow2[ImplicitAt] >= 1 /\ Pow2[WordBits] \in Nat
  BY <1>1, Pow2Positive
<1>. QED BY <1>1, <1>2, <1>3, <1>4, <1>5

---------------------------------------------------------------------------
(* Steps that deliver a result, and steps that hand a significand on.      *)
LEMMA DoneStep ==
  ASSUME IInv, NEW v \in Values, NEW flags \in SUBSET FlagSet, Done(v, flags)
  PROVE  IInv'
<1>1. /\ pc' = "done" /\ res' = v /\ fe' = fe \cup flags /\ call' = call /\ z' = z
  BY DEF Done
<1>2. fe' \subseteq FlagSet
  BY <1>1 DEF IInv, TypeOK
<1>. QED BY <1>1, <1>2 DEF IInv, TypeOK, Normalised

LEMMA WorkingStep ==
  ASSUME IInv, NEW sign \in {0, 1}, NEW exp \in Int, NEW sig \in Nat,
         Pow2[ImplicitAt] <= sig, sig < Pow2[ImplicitAt + 1], Working(sign, exp, sig)
  PROVE  IInv'
<1>1. /\ pc' = "round" /\ z' = [sign |-> sign, exp |-> exp, sig |-> sig]
      /\ call' = call /\ fe' = fe /\ res' = res
  BY DEF Working
<1>2. z' \in [sign : {0, 1}, exp : Int, sig : Nat] /\ z'.sig = sig
  BY <1>1
<1>. QED BY <1>1, <1>2 DEF IInv, TypeOK, Normalised

(* A sum that carried out of its top bit is shifted back, jamming.         *)
LEMMA CarryStep ==
  ASSUME NEW sum \in Nat, Pow2[ImplicitAt] <= sum, sum < Pow2[ImplicitAt + 2]
  PROVE  /\ BitSet(sum, ImplicitAt + 1) =>
              /\ ShiftRightJamming(sum, 1) \in Nat
              /\ Pow2[ImplicitAt] <= ShiftRightJamming(sum, 1)
              /\ ShiftRightJamming(sum, 1) < Pow2[ImplicitAt + 1]
         /\ ~ BitSet(sum, ImplicitAt + 1) => sum < Pow2[ImplicitAt + 1]
<1>1. /\ ImplicitAt + 1 \in Nat /\ ImplicitAt + 1 < MaxShift
      /\ (ImplicitAt + 1) + 1 = ImplicitAt + 2 /\ ImplicitAt + 1 < WordBits
      /\ ImplicitAt + 1 > 0 /\ (ImplicitAt + 1) - 1 = ImplicitAt /\ 1 \in Nat \ {0}
  BY Widths
<1>2. sum < Pow2[(ImplicitAt + 1) + 1]
  BY <1>1
<1>3. BitSet(sum, ImplicitAt + 1) <=> Pow2[ImplicitAt + 1] <= sum
  BY <1>1, <1>2, TopBit
<1>4. /\ ShiftRightJamming(sum, 1) \in Nat
      /\ ShiftRightJamming(sum, 1) < Pow2[ImplicitAt + 1]
      /\ Pow2[ImplicitAt + 1] <= sum => Pow2[(ImplicitAt + 1) - 1] <= ShiftRightJamming(sum, 1)
  BY <1>1, <1>2, JamHalf
<1>5. Pow2[ImplicitAt + 1] \in Nat
  BY Layout
<1>. QED BY <1>1, <1>3, <1>4, <1>5

(* An operand aligned to its own exponent is unchanged, to a larger one    *)
(* less than the implicit bit.                                             *)
LEMMA AlignedRange ==
  ASSUME NEW v \in Values, v.e < ExpMax, ~ IsZero(v), NEW exp \in Int, Unpack(v).exp <= exp
  PROVE  /\ Aligned(Unpack(v), exp) \in Nat
         /\ Unpack(v).exp = exp => Aligned(Unpack(v), exp) = Unpack(v).sig
         /\ Unpack(v).exp < exp => Aligned(Unpack(v), exp) < Pow2[ImplicitAt]
         /\ Aligned(Unpack(v), exp) < Pow2[ImplicitAt + 1]
<1>1. /\ Unpack(v).sig \in Nat /\ Pow2[ImplicitAt] <= Unpack(v).sig
      /\ Unpack(v).sig < Pow2[ImplicitAt + 1]
  BY UnpackedSig
<1>2. Unpack(v).exp \in Int
  BY UnpackNormalises, Widths, Fields
<1>. DEFINE n == exp - Unpack(v).exp
            x == Unpack(v).sig
<1>3. n \in Nat /\ Aligned(Unpack(v), exp) = ShiftRightJamming(x, n)
  BY <1>2 DEF Aligned
<1>4. CASE n = 0
  BY <1>1, <1>2, <1>3, <1>4, JamZero
<1>5. CASE n # 0
  <2>1. n \in Nat \ {0} /\ Unpack(v).exp # exp
    BY <1>2, <1>3, <1>5
  <2>2. ImplicitAt < WordBits
    BY Widths
  <2>. HIDE DEF n, x
  <2>3. x \in Nat /\ x < Pow2[ImplicitAt + 1]
    BY <1>1 DEF x
  <2>4. ShiftRightJamming(x, n) \in Nat /\ ShiftRightJamming(x, n) < Pow2[ImplicitAt]
    BY <2>1, <2>2, <2>3, Layout, JamHalf
  <2>5. ShiftRightJamming(x, n) < Pow2[ImplicitAt + 1]
    BY <2>4, Layout
  <2>. QED BY <1>3, <2>1, <2>4, <2>5
<1>. QED BY <1>4, <1>5

---------------------------------------------------------------------------
LEMMA AddStep ==
  ASSUME IInv, AddMagnitudes
  PROVE  IInv'
<1>. DEFINE ua == Unpack(A)
            ub == Unpack(B)
            exp == IF ua.exp >= ub.exp THEN ua.exp ELSE ub.exp
            sum == Aligned(ua, exp) + Aligned(ub, exp)
<1>1. /\ A \in Values /\ A.e < ExpMax /\ ~ IsZero(A) /\ A.s \in {0, 1}
      /\ B \in Values /\ B.e < ExpMax /\ ~ IsZero(B)
  BY Operands DEF IInv, AddMagnitudes
<1>2. ua.exp \in Int /\ ub.exp \in Int
  BY <1>1, UnpackNormalises, Widths, Fields
<1>3. exp \in Int /\ ua.exp <= exp /\ ub.exp <= exp /\ (ua.exp = exp \/ ub.exp = exp)
  BY <1>2
<1>4. /\ ua.sig \in Nat /\ Pow2[ImplicitAt] <= ua.sig
      /\ ub.sig \in Nat /\ Pow2[ImplicitAt] <= ub.sig
  BY <1>1, UnpackedSig
<1>5. /\ Aligned(ua, exp) \in Nat /\ Aligned(ua, exp) < Pow2[ImplicitAt + 1]
      /\ Aligned(ub, exp) \in Nat /\ Aligned(ub, exp) < Pow2[ImplicitAt + 1]
      /\ ua.exp = exp => Aligned(ua, exp) = ua.sig
      /\ ub.exp = exp => Aligned(ub, exp) = ub.sig
  <2>. HIDE DEF exp
  <2>. QED BY <1>1, <1>3, AlignedRange
<1>6. sum \in Nat /\ Pow2[ImplicitAt] <= sum /\ sum < Pow2[ImplicitAt + 2]
  <2>. HIDE DEF exp, ua, ub
  <2>. QED BY <1>3, <1>4, <1>5, Layout
<1>7. IF BitSet(sum, ImplicitAt + 1)
      THEN Working(A.s, exp + 1, ShiftRightJamming(sum, 1))
      ELSE Working(A.s, exp, sum)
  BY DEF AddMagnitudes
<1>. HIDE DEF exp, sum, ua, ub
<1>8. CASE BitSet(sum, ImplicitAt + 1)
  <2>1. /\ ShiftRightJamming(sum, 1) \in Nat
        /\ Pow2[ImplicitAt] <= ShiftRightJamming(sum, 1)
        /\ ShiftRightJamming(sum, 1) < Pow2[ImplicitAt + 1]
    BY <1>6, <1>8, CarryStep
  <2>2. exp + 1 \in Int
    BY <1>3
  <2>. QED BY <1>1, <1>7, <1>8, <2>1, <2>2, WorkingStep
<1>9. CASE ~ BitSet(sum, ImplicitAt + 1)
  <2>1. sum < Pow2[ImplicitAt + 1]
    BY <1>6, <1>9, CarryStep
  <2>. QED BY <1>1, <1>3, <1>6, <1>7, <1>9, <2>1, WorkingStep
<1>. QED BY <1>8, <1>9

(* The difference of two operands keeps the sticky bit of the smaller one  *)
(* and is moved up by its leading zeros, however many cancelled.           *)
Swapped == Larger(Unpack(B), Unpack(A))
Big == IF Swapped THEN Unpack(B) ELSE Unpack(A)
Small == IF Swapped THEN Unpack(A) ELSE Unpack(B)
Difference == Big.sig - Aligned(Small, Big.exp)

LEMMA DifferenceRange ==
  ASSUME IInv, SubMagnitudes
  PROVE  /\ Big.exp \in Int /\ Small.exp \in Int /\ Small.exp <= Big.exp
         /\ Unpack(A).exp \in Int /\ Unpack(B).exp \in Int
         /\ Big.sig \in Nat /\ Aligned(Small, Big.exp) \in Nat
         /\ Difference \in Nat /\ Difference < Pow2[ImplicitAt + 1]
<1>. DEFINE ua == Unpack(A)
            ub == Unpack(B)
            swap == Larger(ub, ua)
            big == IF swap THEN ub ELSE ua
            small == IF swap THEN ua ELSE ub
            lo == Aligned(small, big.exp)
            diff == big.sig - lo
<1>1. /\ A \in Values /\ A.e < ExpMax /\ ~ IsZero(A) /\ A.s \in {0, 1}
      /\ B \in Values /\ B.e < ExpMax /\ ~ IsZero(B)
  BY Operands DEF IInv, SubMagnitudes
<1>2. ua.exp \in Int /\ ub.exp \in Int
  BY <1>1, UnpackNormalises, Widths, Fields
<1>3. /\ ua.sig \in Nat /\ Pow2[ImplicitAt] <= ua.sig /\ ua.sig < Pow2[ImplicitAt + 1]
      /\ ub.sig \in Nat /\ Pow2[ImplicitAt] <= ub.sig /\ ub.sig < Pow2[ImplicitAt + 1]
  BY <1>1, UnpackedSig
<1>4. /\ big.exp \in Int /\ small.exp \in Int /\ small.exp <= big.exp
      /\ big.sig \in Nat /\ Pow2[ImplicitAt] <= big.sig /\ big.sig < Pow2[ImplicitAt + 1]
      /\ small.exp = big.exp => small.sig <= big.sig
  <2>. HIDE DEF ua, ub
  <2>. QED BY <1>2, <1>3 DEF Larger
<1>5. /\ lo \in Nat
      /\ small.exp = big.exp => lo = small.sig
      /\ small.exp < big.exp => lo < Pow2[ImplicitAt]
  <2>1. CASE swap
    <3>1. small = Unpack(A) /\ big = ub
      BY <2>1
    <3>. HIDE DEF small, big
    <3>. QED BY <1>1, <1>4, <3>1, AlignedRange
  <2>2. CASE ~ swap
    <3>1. small = Unpack(B) /\ big = ua
      BY <2>2
    <3>. HIDE DEF small, big
    <3>. QED BY <1>1, <1>4, <3>1, AlignedRange
  <2>. QED BY <2>1, <2>2
<1>6. diff \in Nat /\ diff < Pow2[ImplicitAt + 1]
  <2>. HIDE DEF lo, big, small
  <2>. QED BY <1>4, <1>5, Layout
<1>7. /\ big = Big /\ small = Small /\ lo = Aligned(Small, Big.exp) /\ diff = Difference
  BY Zenon DEF Swapped, Big, Small, Difference
<1>. HIDE DEF big, small, lo, diff
<1>. QED BY <1>2, <1>4, <1>5, <1>6, <1>7

LEMMA SubStep ==
  ASSUME IInv, SubMagnitudes
  PROVE  IInv'
<1>. DEFINE ua == Unpack(A)
            ub == Unpack(B)
            swap == Larger(ub, ua)
            big == IF swap THEN ub ELSE ua
            small == IF swap THEN ua ELSE ub
            diff == big.sig - Aligned(small, big.exp)
            shift == Clz(diff) - 2
            sign == IF swap THEN 1 - A.s ELSE A.s
<1>1. A.s \in {0, 1}
  BY Operands DEF IInv, SubMagnitudes
<1>4. big.exp \in Int
  BY DifferenceRange, Zenon DEF Big, Swapped
<1>6. diff \in Nat /\ diff < Pow2[ImplicitAt + 1]
  BY DifferenceRange, Zenon DEF Difference, Big, Small, Swapped
<1>7. IF diff = 0 THEN Done(SignedZero(ZeroSign), {})
                  ELSE Working(sign, big.exp - shift, diff * Pow2[shift])
  BY DEF SubMagnitudes
<1>8. sign \in {0, 1} /\ ZeroSign \in {0, 1}
  BY <1>1 DEF ZeroSign
<1>9. CASE diff = 0
  <2>1. Done(SignedZero(ZeroSign), {})
    BY <1>7, <1>9
  <2>2. SignedZero(ZeroSign) \in Values /\ {} \in SUBSET FlagSet
    BY <1>8, SpecialResults
  <2>. QED BY <2>1, <2>2, DoneStep
<1>10. CASE diff # 0
  <2>. HIDE DEF diff
  <2>1. diff > 0 /\ diff < Pow2[WordBits]
    BY <1>6, <1>10, Layout
  <2>2. PICK h \in 0..(WordBits - 1) :
           Clz(diff) = WordBits - (h + 1) /\ Pow2[h] <= diff /\ diff < Pow2[h + 1]
    BY <1>6, <2>1, ClzWord
  <2>3. h <= ImplicitAt
    <3>1. SUFFICES ASSUME ImplicitAt + 1 <= h PROVE FALSE
      BY <2>2, Widths
    <3>2. h \in Nat /\ h <= MaxShift /\ h \in 0..MaxShift /\ ImplicitAt + 1 \in Nat
      BY Widths
    <3>3. Pow2[ImplicitAt + 1] <= Pow2[h] /\ Pow2[h] \in Nat
      BY <3>1, <3>2, Pow2Monotone, Pow2Step
    <3>. QED BY <1>6, <2>2, <3>3, Layout
  <2>4. shift = ImplicitAt - h
    BY <2>2, Widths
  <2>5. /\ diff * Pow2[ImplicitAt - h] \in Nat
        /\ Pow2[ImplicitAt] <= diff * Pow2[ImplicitAt - h]
        /\ diff * Pow2[ImplicitAt - h] < Pow2[ImplicitAt + 1]
    <3>1. h \in Nat /\ ImplicitAt \in Nat /\ ImplicitAt < MaxShift
      BY <2>2, Widths
    <3>. QED BY <1>6, <2>2, <2>3, <3>1, ShiftToTop
  <2>6. Working(sign, big.exp - shift, diff * Pow2[ImplicitAt - h])
    BY <1>7, <1>10, <2>4
  <2>7. big.exp - shift \in Int
    <3>. HIDE DEF big, shift
    <3>. QED BY <1>4, <2>2, <2>4, Widths
  <2>. HIDE DEF sign, shift, big
  <2>. QED BY <1>8, <2>5, <2>6, <2>7, WorkingStep
<1>. QED BY <1>9, <1>10

(* The product of two significands is cut to one, keeping a sticky bit.    *)
LEMMA MultiplyStep ==
  ASSUME IInv, Multiply
  PROVE  IInv'
<1>. DEFINE ua == Unpack(A)
            ub == Unpack(B)
            x == ua.sig \div Pow2[GuardBits]
            y == ub.sig \div Pow2[GuardBits]
            product == x * y
            carry == BitSet(product, 2 * FracBits + 1)
            shift == FracBits - GuardBits + (IF carry THEN 1 ELSE 0)
            exp == ua.exp + ub.exp - Bias + (IF carry THEN 1 ELSE 0)
            cut == product \div Pow2[shift]
            lost == (product % Pow2[shift]) # 0
<1>1. /\ A \in Values /\ A.e < ExpMax /\ ~ IsZero(A) /\ A.s \in {0, 1}
      /\ B \in Values /\ B.e < ExpMax /\ ~ IsZero(B) /\ B.s \in {0, 1}
  BY Operands DEF IInv, Multiply
<1>2. ua.exp \in Int /\ ub.exp \in Int
  BY <1>1, UnpackNormalises, Widths, Fields
<1>3. /\ x \in Nat /\ Pow2[FracBits] <= x /\ x < Pow2[FracBits + 1]
      /\ y \in Nat /\ Pow2[FracBits] <= y /\ y < Pow2[FracBits + 1]
  BY <1>1, Significand
<1>4. /\ Pow2[FracBits] \in Nat /\ Pow2[FracBits] >= 1
      /\ Pow2[FracBits + 1] = 2 * Pow2[FracBits]
      /\ Pow2[2 * FracBits] = Pow2[FracBits] * Pow2[FracBits]
      /\ Pow2[2 * FracBits] \in Nat
      /\ Pow2[2 * FracBits + 1] = 2 * Pow2[2 * FracBits]
      /\ Pow2[2 * FracBits + 2] = 4 * Pow2[2 * FracBits]
  <2>1. /\ FracBits \in 0..MaxShift /\ FracBits \in Nat /\ FracBits + 1 <= MaxShift
        /\ 2 * FracBits = FracBits + FracBits /\ FracBits + FracBits <= MaxShift
        /\ 2 * FracBits \in Nat /\ 2 * FracBits + 1 \in Nat /\ 2 * FracBits \in 0..MaxShift
        /\ 2 * FracBits + 1 <= MaxShift /\ (2 * FracBits + 1) + 1 <= MaxShift
        /\ (2 * FracBits + 1) + 1 = 2 * FracBits + 2
    BY Widths
  <2>2. Pow2[FracBits + FracBits] = Pow2[FracBits] * Pow2[FracBits]
    BY <2>1, Pow2Sum
  <2>3. Pow2[2 * FracBits + 1] = 2 * Pow2[2 * FracBits]
    BY <2>1, Pow2Step
  <2>4. Pow2[(2 * FracBits + 1) + 1] = 2 * Pow2[2 * FracBits + 1]
    BY <2>1, Pow2Step
  <2>5. Pow2[FracBits + 1] = 2 * Pow2[FracBits] /\ Pow2[2 * FracBits] \in Nat
    BY <2>1, Pow2Step
  <2>. QED BY <2>1, <2>2, <2>3, <2>4, <2>5, Pow2Positive
<1>5. product \in Nat /\ Pow2[2 * FracBits] <= product /\ product < Pow2[2 * FracBits + 2]
  <2>. DEFINE P == Pow2[FracBits]
  <2>1. P \in Nat /\ P >= 1 /\ P <= x /\ x < 2 * P /\ P <= y /\ y < 2 * P /\ x \in Nat /\ y \in Nat
    BY <1>3, <1>4
  <2>2. x * y \in Nat /\ P * P <= x * y /\ x * y < 4 * (P * P)
    <3>. HIDE DEF P, x, y
    <3>1. P * P <= P * y /\ P * y <= x * y
      BY <2>1
    <3>2. x * y < (2 * P) * y /\ (2 * P) * y < (2 * P) * (2 * P)
      BY <2>1
    <3>. QED BY <2>1, <3>1, <3>2
  <2>. QED BY <1>4, <2>2
<1>6. carry <=> Pow2[2 * FracBits + 1] <= product
  <2>1. /\ 2 * FracBits + 1 \in Nat /\ 2 * FracBits + 1 < MaxShift
        /\ (2 * FracBits + 1) + 1 = 2 * FracBits + 2
    BY Widths
  <2>. HIDE DEF product
  <2>. QED BY <1>5, <2>1, TopBit
<1>7. /\ shift \in Nat /\ (ImplicitAt + shift) + 1 <= MaxShift
      /\ carry => ImplicitAt + shift = 2 * FracBits + 1
      /\ ~ carry => ImplicitAt + shift = 2 * FracBits
  <2>. HIDE DEF carry
  <2>1. FracBits >= GuardBits
    BY ProductAssumption DEF ProductAssumption
  <2>. QED BY <2>1, Widths
<1>8. /\ cut \in Nat /\ Pow2[ImplicitAt] <= cut /\ cut < 2 * Pow2[ImplicitAt]
  <2>. HIDE DEF product, carry, shift
  <2>1. Pow2[ImplicitAt + shift] <= product /\ product < Pow2[(ImplicitAt + shift) + 1]
    <3>1. 2 * FracBits \in Nat /\ (2 * FracBits + 1) + 1 = 2 * FracBits + 2
      BY Widths
    <3>2. CASE carry
      BY <1>5, <1>6, <1>7, <3>1, <3>2
    <3>3. CASE ~ carry
      BY <1>4, <1>5, <1>6, <1>7, <3>3
    <3>. QED BY <3>2, <3>3
  <2>2. ImplicitAt \in Nat
    BY Widths
  <2>. QED BY <1>5, <1>7, <2>1, <2>2, DivideRange
<1>9. lost \in BOOLEAN
  OBVIOUS
<1>10. Working(ResultSign, exp, OrSticky(cut, lost))
  BY DEF Multiply
<1>11. exp \in Int /\ ResultSign \in {0, 1}
  <2>. HIDE DEF ua, ub, carry
  <2>. QED BY <1>1, <1>2, Fields DEF ResultSign
<1>. HIDE DEF cut, lost, exp
<1>12. /\ OrSticky(cut, lost) \in Nat
       /\ Pow2[ImplicitAt] <= OrSticky(cut, lost)
       /\ OrSticky(cut, lost) < Pow2[ImplicitAt + 1]
  <2>1. /\ OrSticky(cut, lost) \in Nat /\ cut <= OrSticky(cut, lost)
        /\ OrSticky(cut, lost) < 2 * Pow2[ImplicitAt]
    BY <1>8, <1>9, Layout, StickyBound
  <2>. QED BY <1>8, <2>1, Layout
<1>. QED BY <1>10, <1>11, <1>12, WorkingStep

(* The quotient of significands, the dividend doubled when it is smaller,  *)
(* has its highest bit three above the fraction; no carry is left.         *)
LEMMA QuotientRange ==
  ASSUME NEW n \in Nat, NEW d \in Nat, d > 0, d <= n, n < 2 * d, NEW Q \in Nat, Q >= 1
  PROVE  /\ (n * Q) \div d \in Nat
         /\ Q <= (n * Q) \div d
         /\ (n * Q) \div d < 2 * Q
<1>. DEFINE x == n * Q
            y == x \div d
<1>1. x \in Nat /\ d * Q <= x /\ x < (2 * d) * Q
  BY Z3
<1>. HIDE DEF x
<1>2. y \in Nat /\ d * y <= x /\ x < d * (y + 1)
  BY <1>1
<1>. HIDE DEF y
<1>3. Q <= y
  <2>1. SUFFICES ASSUME y + 1 <= Q PROVE FALSE
    BY <1>2
  <2>2. d * (y + 1) <= d * Q
    BY <1>2, <2>1
  <2>3. d * (y + 1) \in Nat /\ d * Q \in Nat
    BY <1>2
  <2>. QED BY <1>1, <1>2, <2>2, <2>3
<1>4. y < 2 * Q
  <2>1. SUFFICES ASSUME 2 * Q <= y PROVE FALSE
    BY <1>2
  <2>2. d * (2 * Q) <= d * y
    BY <1>2, <2>1
  <2>3. d * (2 * Q) = (2 * d) * Q /\ d * y \in Nat /\ (2 * d) * Q \in Nat
    BY <1>2
  <2>. QED BY <1>1, <1>2, <2>2, <2>3
<1>. QED BY <1>2, <1>3, <1>4 DEF x, y

SigA == Unpack(A).sig \div Pow2[GuardBits]
SigB == Unpack(B).sig \div Pow2[GuardBits]
Dividend == (IF SigA < SigB THEN 2 * SigA ELSE SigA) * Pow2[FracBits + 3]
QuotientExp == Unpack(A).exp - Unpack(B).exp + Bias - (IF SigA < SigB THEN 1 ELSE 0)
QuotientSig == OrSticky((Dividend \div SigB) * Pow2[GuardBits - 3], (Dividend % SigB) # 0)

LEMMA QuotientFits ==
  ASSUME IInv, Divide
  PROVE  /\ Working(ResultSign, QuotientExp, QuotientSig)
         /\ QuotientExp \in Int /\ ResultSign \in {0, 1}
         /\ QuotientSig \in Nat
         /\ Pow2[ImplicitAt] <= QuotientSig /\ QuotientSig < Pow2[ImplicitAt + 1]
<1>. DEFINE ua == Unpack(A)
            ub == Unpack(B)
            x == ua.sig \div Pow2[GuardBits]
            y == ub.sig \div Pow2[GuardBits]
            n == IF x < y THEN 2 * x ELSE x
            num == n * Pow2[FracBits + 3]
            exp == ua.exp - ub.exp + Bias - (IF x < y THEN 1 ELSE 0)
            quotient == num \div y
            lost == (num % y) # 0
            sig == OrSticky(quotient * Pow2[GuardBits - 3], lost)
<1>1. /\ A \in Values /\ A.e < ExpMax /\ ~ IsZero(A) /\ A.s \in {0, 1}
      /\ B \in Values /\ B.e < ExpMax /\ ~ IsZero(B) /\ B.s \in {0, 1}
  BY Operands DEF IInv, Divide
<1>2. ua.exp \in Int /\ ub.exp \in Int
  BY <1>1, UnpackNormalises, Widths, Fields
<1>3. /\ x \in Nat /\ Pow2[FracBits] <= x /\ x < Pow2[FracBits + 1]
      /\ y \in Nat /\ Pow2[FracBits] <= y /\ y < Pow2[FracBits + 1]
  BY <1>1, Significand
<1>4. /\ Pow2[FracBits] \in Nat /\ Pow2[FracBits] >= 1
      /\ Pow2[FracBits + 1] = 2 * Pow2[FracBits]
      /\ Pow2[FracBits + 3] \in Nat /\ Pow2[FracBits + 3] >= 1
      /\ Pow2[GuardBits - 3] \in Nat /\ Pow2[GuardBits - 3] >= 1
      /\ Pow2[ImplicitAt] = Pow2[FracBits + 3] * Pow2[GuardBits - 3]
  <2>1. /\ FracBits \in 0..MaxShift /\ FracBits \in Nat /\ FracBits + 1 <= MaxShift
        /\ FracBits + 3 \in Nat /\ FracBits + 3 \in 0..MaxShift
        /\ GuardBits - 3 \in Nat /\ GuardBits - 3 \in 0..MaxShift
        /\ (FracBits + 3) + (GuardBits - 3) = ImplicitAt /\ ImplicitAt <= MaxShift
    BY Widths
  <2>2. Pow2[(FracBits + 3) + (GuardBits - 3)] = Pow2[FracBits + 3] * Pow2[GuardBits - 3]
    BY <2>1, Pow2Sum
  <2>3. Pow2[FracBits + 1] = 2 * Pow2[FracBits]
    BY <2>1, Pow2Step
  <2>. QED BY <2>1, <2>2, <2>3, Pow2Positive
<1>5. n \in Nat /\ y <= n /\ n < 2 * y /\ y > 0
  <2>. HIDE DEF x, y
  <2>. QED BY <1>3, <1>4
<1>6. quotient \in Nat /\ Pow2[FracBits + 3] <= quotient /\ quotient < 2 * Pow2[FracBits + 3]
  <2>. HIDE DEF n, y
  <2>. QED BY <1>3, <1>4, <1>5, QuotientRange
<1>7. IF BitSet(sig, ImplicitAt + 1)
      THEN Working(ResultSign, exp + 1, ShiftRightJamming(sig, 1))
      ELSE Working(ResultSign, exp, sig)
  BY DEF Divide
<1>8. exp \in Int /\ ResultSign \in {0, 1}
  <2>. HIDE DEF ua, ub
  <2>1. exp \in Int
    BY <1>2, Fields
  <2>. QED BY <1>1, <2>1 DEF ResultSign
<1>9. lost \in BOOLEAN
  OBVIOUS
<1>10. sig \in Nat /\ Pow2[ImplicitAt] <= sig /\ sig < Pow2[ImplicitAt + 1]
  <2>. DEFINE W == Pow2[GuardBits - 3]
              Q == Pow2[FracBits + 3]
              wide == quotient * W
  <2>1. W \in Nat /\ W >= 1 /\ Q \in Nat /\ Pow2[ImplicitAt] = Q * W
        /\ quotient \in Nat /\ Q <= quotient /\ quotient < 2 * Q
    BY <1>4, <1>6
  <2>2. wide \in Nat /\ Q * W <= wide /\ wide < 2 * (Q * W)
    <3>. HIDE DEF W, Q, quotient
    <3>1. Q * W <= quotient * W /\ quotient * W < (2 * Q) * W
      BY <2>1
    <3>. QED BY <2>1, <3>1
  <2>. HIDE DEF wide, lost
  <2>3. wide < 2 * Pow2[ImplicitAt] /\ Pow2[ImplicitAt] <= wide /\ Pow2[ImplicitAt] \in Nat
    BY <2>1, <2>2, Layout
  <2>4. /\ OrSticky(wide, lost) \in Nat /\ wide <= OrSticky(wide, lost)
        /\ OrSticky(wide, lost) < 2 * Pow2[ImplicitAt]
    BY <1>9, <2>2, <2>3, StickyBound
  <2>5. sig = OrSticky(wide, lost)
    BY DEF wide
  <2>. HIDE DEF sig
  <2>. QED BY <2>2, <2>3, <2>4, <2>5, Layout
<1>12. exp = QuotientExp /\ sig = QuotientSig
  BY Zenon DEF QuotientExp, QuotientSig, Dividend, SigA, SigB
<1>. HIDE DEF sig, exp
<1>11. ~ BitSet(sig, ImplicitAt + 1)
  <2>1. /\ ImplicitAt + 1 \in Nat /\ ImplicitAt + 1 < MaxShift
        /\ (ImplicitAt + 1) + 1 = ImplicitAt + 2
    BY Widths
  <2>2. sig < Pow2[(ImplicitAt + 1) + 1]
    BY <1>10, <2>1, Layout
  <2>3. BitSet(sig, ImplicitAt + 1) <=> Pow2[ImplicitAt + 1] <= sig
    BY <1>10, <2>1, <2>2, TopBit
  <2>. QED BY <1>10, <2>3, Layout
<1>. QED BY <1>7, <1>8, <1>10, <1>11, <1>12

LEMMA DivideStep ==
  ASSUME IInv, Divide
  PROVE  IInv'
BY QuotientFits, WorkingStep

---------------------------------------------------------------------------
LEMMA RoundStep ==
  ASSUME IInv, Round
  PROVE  IInv'
<1>1. /\ z.sign \in {0, 1} /\ z.exp \in Int /\ z.sig \in Nat /\ call.mode \in Modes
  BY DEF IInv, TypeOK, Calls
<1>. DEFINE r == RoundAndPack(z.sign, z.exp, z.sig, call.mode)
<1>2. r.res \in Values /\ r.fe \in SUBSET FlagSet
  BY <1>1, RoundAndPackType
<1>3. Done(r.res, r.fe)
  BY DEF Round
<1>. HIDE DEF r
<1>. QED BY <1>2, <1>3, DoneStep

(* The operands that need no arithmetic.                                   *)
LEMMA SpecialStep ==
  ASSUME IInv,
         NaNOperand \/ InfiniteSum \/ InfiniteProduct \/ InfiniteQuotient
           \/ ZeroSum \/ ZeroProduct \/ ZeroQuotient
  PROVE  IInv'
<1>1. call.a \in Values /\ call.b \in Values
  BY DEF IInv, TypeOK, Calls
<1>2. A \in Values /\ B \in Values /\ NaNB \in Values
  BY <1>1, SpecialResults DEF A, B, NaNB
<1>3. A.s \in {0, 1} /\ B.s \in {0, 1} /\ ResultSign \in {0, 1} /\ ZeroSign \in {0, 1}
  BY <1>2 DEF Values, ResultSign, ZeroSign
<1>4. {} \in SUBSET FlagSet /\ {"invalid"} \in SUBSET FlagSet /\ {"divbyzero"} \in SUBSET FlagSet
  BY DEF FlagSet
<1>5. /\ CanonicalNaN \in Values
      /\ \A s \in {0, 1} : SignedZero(s) \in Values /\ SignedInf(s) \in Values
      /\ PropagateNaN(A, NaNB) \in Values
  BY <1>2, SpecialResults
<1>6. CASE NaNOperand
  BY <1>4, <1>5, <1>6, DoneStep DEF NaNOperand
<1>7. CASE InfiniteSum
  BY <1>3, <1>4, <1>5, <1>7, DoneStep DEF InfiniteSum
<1>8. CASE InfiniteProduct
  BY <1>3, <1>4, <1>5, <1>8, DoneStep DEF InfiniteProduct
<1>9. CASE InfiniteQuotient
  BY <1>3, <1>4, <1>5, <1>9, DoneStep DEF InfiniteQuotient
<1>10. CASE ZeroSum
  BY <1>2, <1>3, <1>4, <1>5, <1>10, DoneStep DEF ZeroSum
<1>11. CASE ZeroProduct
  BY <1>3, <1>4, <1>5, <1>11, DoneStep DEF ZeroProduct
<1>12. CASE ZeroQuotient
  BY <1>3, <1>4, <1>5, <1>12, DoneStep DEF ZeroQuotient
<1>. QED BY <1>6, <1>7, <1>8, <1>9, <1>10, <1>11, <1>12

LEMMA InitHolds == Init => IInv
<1>. SUFFICES ASSUME Init PROVE IInv
  OBVIOUS
<1>1. NoWork \in [sign : {0, 1}, exp : Int, sig : Nat]
  BY DEF NoWork
<1>. QED BY <1>1, SpecialResults DEF Init, IInv, TypeOK, Normalised, FlagSet

LEMMA Inductive == IInv /\ [Next]_vars => IInv'
<1>. SUFFICES ASSUME IInv, [Next]_vars PROVE IInv'
  OBVIOUS
<1>1. CASE UNCHANGED vars
  BY <1>1 DEF vars, IInv, TypeOK, Normalised
<1>. QED BY <1>1, SpecialStep, AddStep, SubStep, MultiplyStep, DivideStep, RoundStep DEF Next

---------------------------------------------------------------------------
(* The working state of add, sub, mul and div, for every format.           *)
THEOREM Invariance == Spec => []IInv
  BY InitHolds, Inductive, PTL DEF Spec

(* Whatever is called with whatever operands, in whatever mode and with    *)
(* either NaN policy, the result is a value of the format: no carry spills *)
(* into its exponent or sign field.                                        *)
THEOREM TypeCorrect == Spec => []TypeOK
<1>1. IInv => TypeOK
  BY DEF IInv
<1>. QED BY <1>1, Invariance, PTL

(* The significand round_and_pack is called with is normalised, for every  *)
(* format with at least three guard bits: the alignment of additions, the  *)
(* cancellation of subtractions, the cut of products and the quotient of   *)
(* divisions all end with the implicit bit at its place.                   *)
THEOREM NormalisedAlways == Spec => []Normalised
<1>1. IInv => Normalised
  BY DEF IInv
<1>. QED BY <1>1, Invariance, PTL

---------------------------------------------------------------------------
(* The answer.  Before rounding, the significand and exponent stand for    *)
(* the exact result, which IEEE 754 says to round.                         *)
Prepared ==
  \E num \in Nat, den \in Nat :
     /\ den >= 1 /\ Scalable(z.exp) /\ StandsFor(z.exp, z.sig, num, den, Half)
     /\ Expected = Ref!Round(z.sign, num, den, call.mode)

Answered == Agree(res, Expected.res) /\ fe = Expected.fe

RInv ==
  /\ IInv
  /\ pc = "enter" => fe = {}
  /\ pc = "round" => fe = {} /\ Prepared
  /\ pc = "done" => Answered

LEMMA DoneAnswers ==
  ASSUME RInv, IInv', pc \in {"enter", "round"}, NEW v, NEW flags, Done(v, flags),
         Agree(v, Expected.res), flags = Expected.fe
  PROVE  RInv'
<1>1. /\ pc' = "done" /\ res' = v /\ fe' = flags /\ call' = call
  <2>1. fe = {}
    BY DEF RInv
  <2>. QED BY <2>1 DEF Done
<1>2. Expected' = Expected
  BY <1>1 DEF Expected
<1>3. Answered'
  BY <1>1, <1>2 DEF Answered, Agree
<1>. QED BY <1>1, <1>3 DEF RInv

LEMMA WorkingPrepares ==
  ASSUME RInv, IInv', pc = "enter", NEW sign, NEW exp, NEW sig, Working(sign, exp, sig),
         NEW num \in Nat, NEW den \in Nat, den >= 1,
         Scalable(exp), StandsFor(exp, sig, num, den, Half),
         Expected = Ref!Round(sign, num, den, call.mode)
  PROVE  RInv'
<1>1. /\ pc' = "round" /\ z'.exp = exp /\ z'.sig = sig /\ z'.sign = sign
      /\ fe' = {} /\ call' = call
  BY DEF Working, RInv
<1>2. Expected' = Expected
  BY <1>1 DEF Expected
<1>3. Prepared'
  BY <1>1, <1>2 DEF Prepared
<1>. QED BY <1>1, <1>3 DEF RInv

(* What IEEE 754 prescribes, in terms of the operands the code works with. *)
LEMMA ExpectedNaN ==
  ASSUME TypeOK, IsNaN(A) \/ IsNaN(B)
  PROVE  /\ IsNaN(call.a) \/ IsNaN(call.b)
         /\ Expected = Ref!NaNResult(call.a, call.b)
<1>1. (IsNaN(B) <=> IsNaN(call.b)) /\ A = call.a
  BY DEF A, B, Neg, IsNaN, TypeOK, Calls, Values
<1>2. IsNaN(call.a) \/ IsNaN(call.b)
  BY <1>1
<1>3. Ref!IsNaN(call.a) \/ Ref!IsNaN(call.b)
  BY <1>2, SameClasses
<1>4. /\ Ref!Add(call.a, call.b, call.mode) = Ref!NaNResult(call.a, call.b)
      /\ Ref!Subtract(call.a, call.b, call.mode) = Ref!NaNResult(call.a, call.b)
      /\ Ref!Multiply(call.a, call.b, call.mode) = Ref!NaNResult(call.a, call.b)
      /\ Ref!Divide(call.a, call.b, call.mode) = Ref!NaNResult(call.a, call.b)
  BY <1>3 DEF Ref!Add, Ref!Subtract, Ref!Multiply, Ref!Divide
<1>5. call.op \in {"add", "sub", "mul", "div"}
  BY DEF TypeOK, Calls, Ops
<1>. QED BY <1>2, <1>4, <1>5 DEF Expected

LEMMA ExpectedNumber ==
  ASSUME TypeOK, ~ IsNaN(A), ~ IsNaN(B)
  PROVE  /\ Additive => Expected = Ref!Add(A, B, call.mode)
         /\ call.op = "mul" => Expected = Ref!Multiply(A, B, call.mode)
         /\ call.op = "div" => Expected = Ref!Divide(A, B, call.mode)
<1>1. (IsNaN(B) <=> IsNaN(call.b)) /\ A = call.a
  BY DEF A, B, Neg, IsNaN, TypeOK, Calls, Values
<1>2. ~ Ref!IsNaN(call.a) /\ ~ Ref!IsNaN(call.b) /\ Ref!Neg(call.b) = Neg(call.b)
  BY <1>1, SameClasses
<1>3. Ref!Subtract(call.a, call.b, call.mode) = Ref!Add(call.a, Neg(call.b), call.mode)
  BY <1>2 DEF Ref!Subtract
<1>4. call.op # "sub" => B = call.b
  BY DEF B
<1>5. call.op = "sub" => B = Neg(call.b)
  BY DEF B
<1>. QED BY <1>1, <1>3, <1>4, <1>5 DEF Expected, Additive

---------------------------------------------------------------------------
(* The operands that need no arithmetic.                                   *)
LEMMA NaNAnswer ==
  ASSUME RInv, IInv', NaNOperand
  PROVE  RInv'
<1>. DEFINE a == call.a
            b == call.b
            v == PropagateNaN(A, NaNB)
            flags == IF IsSNaN(A) \/ IsSNaN(B) THEN {"invalid"} ELSE {}
<1>1. TypeOK /\ pc = "enter" /\ (IsNaN(A) \/ IsNaN(B)) /\ Done(v, flags)
  BY DEF RInv, IInv, NaNOperand
<1>2. /\ a \in Values /\ b \in Values /\ call.propagate \in BOOLEAN
      /\ A = a /\ (IsNaN(B) <=> IsNaN(b)) /\ (IsSNaN(B) <=> IsSNaN(b))
  BY <1>1 DEF A, B, Neg, IsNaN, IsSNaN, TypeOK, Calls, Values
<1>3. Expected = Ref!NaNResult(a, b) /\ (IsNaN(a) \/ IsNaN(b))
  BY <1>1, ExpectedNaN
<1>4. Ref!NaNResult(a, b) =
        [res |-> IF IsNaN(a) THEN Quiet(a) ELSE Quiet(b),
         fe |-> IF IsSNaN(a) \/ IsSNaN(b) THEN {"invalid"} ELSE {}]
  BY <1>3, SameClasses DEF Ref!NaNResult, Ref!Result, Ref!PropagateNaN
<1>5. flags = Expected.fe
  BY <1>2, <1>3, <1>4
<1>6. Expected.res = IF IsNaN(a) THEN Quiet(a) ELSE Quiet(b)
  BY <1>3, <1>4
<1>7. Agree(v, Expected.res)
  <2>1. CASE IsNaN(a)
    <3>1. v = Quiet(a)
      BY <1>2, <2>1 DEF PropagateNaN
    <3>. QED BY <1>6, <2>1, <3>1 DEF Agree
  <2>2. CASE ~ IsNaN(a) /\ IsNaN(b) /\ (NaNB = b)
    <3>1. v = Quiet(b)
      BY <1>2, <2>2 DEF PropagateNaN
    <3>. QED BY <1>6, <2>2, <3>1 DEF Agree
  <2>3. CASE ~ IsNaN(a) /\ IsNaN(b) /\ NaNB # b
    <3>1. ~ call.propagate /\ NaNB = Neg(b)
      BY <2>3 DEF NaNB, B
    <3>2. IsNaN(Neg(b))
      BY <1>2, <2>3 DEF IsNaN, Neg, Values
    <3>3. v = Quiet(Neg(b))
      BY <1>2, <2>3, <3>1, <3>2 DEF PropagateNaN
    <3>4. QuietNaNBit \in Nat
      BY SpecialResults DEF CanonicalNaN, Values
    <3>5. /\ IsNaN(Quiet(b)) /\ IsNaN(Quiet(Neg(b))) /\ Quiet(b).f = Quiet(Neg(b)).f
      <4>1. b.f \in Nat /\ b.f # 0 /\ b.e = ExpMax /\ Neg(b).f = b.f /\ Neg(b).e = ExpMax
        BY <1>2, <2>3, Fields DEF IsNaN, Neg, Values
      <4>2. Quiet(b).e = ExpMax /\ Quiet(Neg(b)).e = ExpMax
        BY <1>2, <4>1 DEF Quiet, Neg, Values
      <4>3. /\ Quiet(b).f = (IF b.f < QuietNaNBit THEN b.f + QuietNaNBit ELSE b.f)
            /\ Quiet(Neg(b)).f = (IF b.f < QuietNaNBit THEN b.f + QuietNaNBit ELSE b.f)
        BY <1>2, <4>1 DEF Quiet, Neg, Values
      <4>4. (IF b.f < QuietNaNBit THEN b.f + QuietNaNBit ELSE b.f) # 0
        BY <3>4, <4>1
      <4>. QED BY <4>2, <4>3, <4>4 DEF IsNaN
    <3>. QED BY <1>6, <2>3, <3>1, <3>3, <3>5 DEF Agree
  <2>. QED BY <1>3, <2>1, <2>2, <2>3
<1>. HIDE DEF v, flags
<1>. QED BY <1>1, <1>5, <1>7, DoneAnswers

LEMMA InfiniteAnswer ==
  ASSUME RInv, IInv', InfiniteSum \/ InfiniteProduct \/ InfiniteQuotient
  PROVE  RInv'
<1>1. /\ TypeOK /\ pc = "enter" /\ ~ IsNaN(A) /\ ~ IsNaN(B) /\ (IsInf(A) \/ IsInf(B))
  BY DEF RInv, IInv, InfiniteSum, InfiniteProduct, InfiniteQuotient
<1>2. A \in Values /\ B \in Values
  BY <1>1, SpecialResults DEF A, B, TypeOK, Calls
<1>3. \A v \in Values : IsInf(v) => v = SignedInf(v.s)
  BY DEF IsInf, SignedInf, Values
<1>4. /\ ~ Ref!IsNaN(A) /\ ~ Ref!IsNaN(B)
      /\ (Ref!IsInf(A) <=> IsInf(A)) /\ (Ref!IsInf(B) <=> IsInf(B))
      /\ (Ref!IsZero(A) <=> IsZero(A)) /\ (Ref!IsZero(B) <=> IsZero(B))
      /\ Ref!CanonicalNaN = CanonicalNaN
      /\ \A s : Ref!SignedZero(s) = SignedZero(s) /\ Ref!SignedInf(s) = SignedInf(s)
  BY <1>1, SameClasses, SameFormat
<1>5. Ref!Invalid = [res |-> CanonicalNaN, fe |-> {"invalid"}]
  BY <1>4 DEF Ref!Invalid, Ref!Result
<1>6. \A v : (IsInf(v) => ~ IsZero(v)) /\ (IsZero(v) => ~ IsInf(v))
  BY Fields DEF IsInf, IsZero
<1>7. CASE InfiniteSum
  <2>1. Expected = Ref!Add(A, B, call.mode)
    BY <1>1, <1>7, ExpectedNumber DEF InfiniteSum
  <2>2. CASE IsInf(A) /\ IsInf(B) /\ A.s # B.s
    <3>1. Done(CanonicalNaN, {"invalid"})
      BY <1>7, <2>2 DEF InfiniteSum
    <3>2. Expected = [res |-> CanonicalNaN, fe |-> {"invalid"}]
      BY <1>4, <1>5, <2>1, <2>2 DEF Ref!Add
    <3>. QED BY <1>1, <3>1, <3>2, DoneAnswers DEF Agree
  <2>3. CASE ~ (IsInf(A) /\ IsInf(B) /\ A.s # B.s)
    <3>1. Done(SignedInf(IF IsInf(A) THEN A.s ELSE B.s), {})
      BY <1>7, <2>3 DEF InfiniteSum
    <3>2. Expected = [res |-> IF IsInf(A) THEN A ELSE B, fe |-> {}]
      BY <1>1, <1>4, <2>1, <2>3 DEF Ref!Add, Ref!Result
    <3>3. SignedInf(IF IsInf(A) THEN A.s ELSE B.s) = Expected.res /\ {} = Expected.fe
      BY <1>1, <1>2, <1>3, <3>2
    <3>. QED BY <1>1, <3>1, <3>3, DoneAnswers DEF Agree
  <2>. QED BY <2>2, <2>3
<1>8. CASE InfiniteProduct
  <2>1. Expected = Ref!Multiply(A, B, call.mode)
    BY <1>1, <1>8, ExpectedNumber DEF InfiniteProduct
  <2>2. CASE IsZero(A) \/ IsZero(B)
    <3>1. Done(CanonicalNaN, {"invalid"})
      BY <1>8, <2>2 DEF InfiniteProduct
    <3>2. Expected = [res |-> CanonicalNaN, fe |-> {"invalid"}]
      BY <1>1, <1>4, <1>5, <1>6, <2>1, <2>2 DEF Ref!Multiply
    <3>. QED BY <1>1, <3>1, <3>2, DoneAnswers DEF Agree
  <2>3. CASE ~ (IsZero(A) \/ IsZero(B))
    <3>1. Done(SignedInf(ResultSign), {})
      BY <1>8, <2>3 DEF InfiniteProduct
    <3>2. Expected = [res |-> SignedInf(ResultSign), fe |-> {}]
      BY <1>1, <1>4, <2>1, <2>3 DEF Ref!Multiply, Ref!Result, Ref!SignOf, ResultSign
    <3>. QED BY <1>1, <3>1, <3>2, DoneAnswers DEF Agree
  <2>. QED BY <2>2, <2>3
<1>9. CASE InfiniteQuotient
  <2>1. Expected = Ref!Divide(A, B, call.mode)
    BY <1>1, <1>9, ExpectedNumber DEF InfiniteQuotient
  <2>2. CASE IsInf(A) /\ IsInf(B)
    <3>1. Done(CanonicalNaN, {"invalid"})
      BY <1>9, <2>2 DEF InfiniteQuotient
    <3>2. Expected = [res |-> CanonicalNaN, fe |-> {"invalid"}]
      BY <1>4, <1>5, <2>1, <2>2 DEF Ref!Divide
    <3>. QED BY <1>1, <3>1, <3>2, DoneAnswers DEF Agree
  <2>3. CASE IsInf(A) /\ ~ IsInf(B)
    <3>1. Done(SignedInf(ResultSign), {})
      BY <1>9, <2>3 DEF InfiniteQuotient
    <3>2. Expected = [res |-> SignedInf(ResultSign), fe |-> {}]
      BY <1>1, <1>4, <1>6, <2>1, <2>3 DEF Ref!Divide, Ref!Result, Ref!SignOf, ResultSign
    <3>. QED BY <1>1, <3>1, <3>2, DoneAnswers DEF Agree
  <2>4. CASE ~ IsInf(A)
    <3>1. Done(SignedZero(ResultSign), {})
      BY <1>9, <2>4 DEF InfiniteQuotient
    <3>2. Expected = [res |-> SignedZero(ResultSign), fe |-> {}]
      BY <1>1, <1>4, <1>6, <2>1, <2>4 DEF Ref!Divide, Ref!Result, Ref!SignOf, ResultSign
    <3>. QED BY <1>1, <3>1, <3>2, DoneAnswers DEF Agree
  <2>. QED BY <2>2, <2>3, <2>4
<1>. QED BY <1>7, <1>8, <1>9

LEMMA ExpectedSum ==
  ASSUME TypeOK, Finite, Additive, NEW x, x = Ref!Signed(A) + Ref!Signed(B)
  PROVE  /\ A \in Values /\ A.e < ExpMax /\ A.s \in {0, 1}
         /\ B \in Values /\ B.e < ExpMax /\ B.s \in {0, 1}
         /\ call.mode \in Modes
         /\ x = 0 => Expected =
              [res |-> SignedZero(IF A.s = B.s THEN A.s ELSE ZeroSign), fe |-> {}]
         /\ x # 0 => Expected = Ref!RoundInteger(x, call.mode)
<1>1. A \in Values /\ B \in Values /\ call.mode \in Modes
  BY SpecialResults DEF A, B, TypeOK, Calls
<1>2. ~ IsNaN(A) /\ ~ IsNaN(B) /\ ~ IsInf(A) /\ ~ IsInf(B)
  BY DEF Finite
<1>3. A.e # ExpMax /\ B.e # ExpMax
  BY <1>2 DEF IsNaN, IsInf
<1>4. A.e \in 0..ExpMax /\ B.e \in 0..ExpMax /\ A.s \in {0, 1} /\ B.s \in {0, 1}
  BY <1>1 DEF Values
<1>5. Expected = Ref!Add(A, B, call.mode)
  BY <1>2, ExpectedNumber
<1>6. /\ ~ Ref!IsNaN(A) /\ ~ Ref!IsNaN(B) /\ ~ Ref!IsInf(A) /\ ~ Ref!IsInf(B)
      /\ \A s : Ref!SignedZero(s) = SignedZero(s)
  BY <1>2, SameClasses, SameFormat
<1>7. x = 0 => Expected = Ref!Result(Ref!ZeroSum(A.s, B.s, call.mode), {})
  BY <1>5, <1>6 DEF Ref!Add
<1>8. Ref!ZeroSum(A.s, B.s, call.mode) = SignedZero(IF A.s = B.s THEN A.s ELSE ZeroSign)
  BY <1>6 DEF Ref!ZeroSum, ZeroSign
<1>9. x # 0 => Expected = Ref!RoundInteger(x, call.mode)
  BY <1>5, <1>6 DEF Ref!Add
<1>. QED BY <1>1, <1>3, <1>4, <1>7, <1>8, <1>9, Fields DEF Ref!Result

LEMMA ZeroAnswer ==
  ASSUME RInv, IInv', ZeroSum \/ ZeroProduct \/ ZeroQuotient
  PROVE  RInv'
<1>1. TypeOK /\ pc = "enter" /\ Finite /\ (IsZero(A) \/ IsZero(B))
  BY DEF RInv, IInv, ZeroSum, ZeroProduct, ZeroQuotient
<1>2. ~ IsNaN(A) /\ ~ IsNaN(B) /\ ~ IsInf(A) /\ ~ IsInf(B)
  BY <1>1 DEF Finite
<1>3. /\ ~ Ref!IsNaN(A) /\ ~ Ref!IsNaN(B) /\ ~ Ref!IsInf(A) /\ ~ Ref!IsInf(B)
      /\ (Ref!IsZero(A) <=> IsZero(A)) /\ (Ref!IsZero(B) <=> IsZero(B))
      /\ Ref!CanonicalNaN = CanonicalNaN
      /\ \A s : Ref!SignedZero(s) = SignedZero(s) /\ Ref!SignedInf(s) = SignedInf(s)
  BY <1>2, SameClasses, SameFormat
<1>4. CASE ZeroSum
  <2>. DEFINE x == Ref!Signed(A) + Ref!Signed(B)
              v == IF IsZero(A) /\ IsZero(B) THEN SignedZero(IF A.s = B.s THEN A.s ELSE ZeroSign)
                   ELSE IF IsZero(A) THEN B ELSE A
  <2>1. Additive /\ Done(v, {})
    BY <1>4 DEF ZeroSum
  <2>2. /\ A \in Values /\ A.e < ExpMax /\ A.s \in {0, 1}
        /\ B \in Values /\ B.e < ExpMax /\ B.s \in {0, 1}
        /\ call.mode \in Modes
        /\ x = 0 => Expected =
             [res |-> SignedZero(IF A.s = B.s THEN A.s ELSE ZeroSign), fe |-> {}]
        /\ x # 0 => Expected = Ref!RoundInteger(x, call.mode)
    BY <1>1, <2>1, ExpectedSum
  <2>3. Expected = [res |-> v, fe |-> {}]
    <3>1. CASE IsZero(A) /\ IsZero(B)
      <4>1. x = 0
        BY <2>2, <3>1, SignedFacts
      <4>. QED BY <2>2, <3>1, <4>1
    <3>2. CASE IsZero(A) /\ ~ IsZero(B)
      <4>1. /\ Ref!Mag(B) \in Nat /\ Ref!Mag(B) >= 1
            /\ x = (IF B.s = 0 THEN Ref!Mag(B) ELSE -Ref!Mag(B))
        BY <2>2, <3>2, SignedFacts
      <4>. HIDE DEF x
      <4>2. x # 0 /\ Ref!RoundInteger(x, call.mode) = Ref!Round(B.s, Ref!Mag(B), 1, call.mode)
        BY <2>2, <4>1, IntegerRounds
      <4>3. Ref!Round(B.s, Ref!Mag(B), 1, call.mode) = [res |-> B, fe |-> {}]
        BY <2>2, ExactValue
      <4>. QED BY <2>2, <3>2, <4>2, <4>3
    <3>3. CASE ~ IsZero(A) /\ IsZero(B)
      <4>1. /\ Ref!Mag(A) \in Nat /\ Ref!Mag(A) >= 1
            /\ x = (IF A.s = 0 THEN Ref!Mag(A) ELSE -Ref!Mag(A))
        BY <2>2, <3>3, SignedFacts
      <4>. HIDE DEF x
      <4>2. x # 0 /\ Ref!RoundInteger(x, call.mode) = Ref!Round(A.s, Ref!Mag(A), 1, call.mode)
        BY <2>2, <4>1, IntegerRounds
      <4>3. Ref!Round(A.s, Ref!Mag(A), 1, call.mode) = [res |-> A, fe |-> {}]
        BY <2>2, ExactValue
      <4>. QED BY <2>2, <3>3, <4>2, <4>3
    <3>. QED BY <1>1, <3>1, <3>2, <3>3
  <2>. HIDE DEF v
  <2>. QED BY <1>1, <2>1, <2>3, DoneAnswers DEF Agree
<1>5. CASE ZeroProduct
  <2>1. Expected = Ref!Multiply(A, B, call.mode)
    BY <1>1, <1>2, <1>5, ExpectedNumber DEF ZeroProduct
  <2>2. Done(SignedZero(ResultSign), {})
    BY <1>5 DEF ZeroProduct
  <2>3. Expected = [res |-> SignedZero(ResultSign), fe |-> {}]
    BY <1>1, <1>3, <2>1 DEF Ref!Multiply, Ref!Result, Ref!SignOf, ResultSign
  <2>. QED BY <1>1, <2>2, <2>3, DoneAnswers DEF Agree
<1>6. CASE ZeroQuotient
  <2>1. Expected = Ref!Divide(A, B, call.mode)
    BY <1>1, <1>2, <1>6, ExpectedNumber DEF ZeroQuotient
  <2>2. CASE IsZero(A) /\ IsZero(B)
    <3>1. Done(CanonicalNaN, {"invalid"})
      BY <1>6, <2>2 DEF ZeroQuotient
    <3>2. Expected = [res |-> CanonicalNaN, fe |-> {"invalid"}]
      BY <1>3, <2>1, <2>2 DEF Ref!Divide, Ref!Invalid, Ref!Result
    <3>. QED BY <1>1, <3>1, <3>2, DoneAnswers DEF Agree
  <2>3. CASE ~ IsZero(A) /\ IsZero(B)
    <3>1. Done(SignedInf(ResultSign), {"divbyzero"})
      BY <1>6, <2>3 DEF ZeroQuotient
    <3>2. Expected = [res |-> SignedInf(ResultSign), fe |-> {"divbyzero"}]
      BY <1>3, <2>1, <2>3 DEF Ref!Divide, Ref!Result, Ref!SignOf, ResultSign
    <3>. QED BY <1>1, <3>1, <3>2, DoneAnswers DEF Agree
  <2>4. CASE IsZero(A) /\ ~ IsZero(B)
    <3>1. Done(SignedZero(ResultSign), {})
      BY <1>6, <2>4 DEF ZeroQuotient
    <3>2. Expected = [res |-> SignedZero(ResultSign), fe |-> {}]
      BY <1>3, <2>1, <2>4 DEF Ref!Divide, Ref!Result, Ref!SignOf, ResultSign
    <3>. QED BY <1>1, <3>1, <3>2, DoneAnswers DEF Agree
  <2>. QED BY <1>1, <2>2, <2>3, <2>4
<1>. QED BY <1>4, <1>5, <1>6

(* round_and_pack answers, when what it is given stands for the result.    *)
LEMMA RoundAnswer ==
  ASSUME RInv, IInv', Round
  PROVE  RInv'
<1>1. /\ IInv /\ pc = "round" /\ Prepared
      /\ z.sign \in {0, 1} /\ z.exp \in Int /\ z.sig \in Nat /\ call.mode \in Modes
      /\ Pow2[ImplicitAt] <= z.sig /\ z.sig < Pow2[ImplicitAt + 1]
  BY DEF RInv, Round, IInv, TypeOK, Calls, Normalised
<1>. DEFINE r == RoundAndPack(z.sign, z.exp, z.sig, call.mode)
<1>2. Done(r.res, r.fe)
  BY DEF Round
<1>3. r = Expected
  <2>1. PICK num \in Nat, den \in Nat :
           /\ den >= 1 /\ Scalable(z.exp) /\ StandsFor(z.exp, z.sig, num, den, Half)
           /\ Expected = Ref!Round(z.sign, num, den, call.mode)
    BY <1>1 DEF Prepared
  <2>2. RoundAndPack(z.sign, z.exp, z.sig, call.mode) = Ref!Round(z.sign, num, den, call.mode)
    <3>. DEFINE sign == z.sign
                exp == z.exp
                sig == z.sig
                mode == call.mode
    <3>1. /\ sign \in {0, 1} /\ sig \in Nat /\ mode \in Modes /\ den >= 1
          /\ Pow2[ImplicitAt] <= sig /\ sig < Pow2[ImplicitAt + 1]
          /\ Scalable(exp) /\ StandsFor(exp, sig, num, den, Half)
      BY <1>1, <2>1
    <3>. HIDE DEF sign, exp, sig, mode
    <3>2. RoundAndPack(sign, exp, sig, mode) = Ref!Round(sign, num, den, mode)
      BY <3>1, RoundsCorrectly
    <3>. QED BY <3>2 DEF sign, exp, sig, mode
  <2>. QED BY <2>1, <2>2
<1>. HIDE DEF r
<1>. QED BY <1>1, <1>2, <1>3, DoneAnswers DEF Agree

LEMMA AddAnswer ==
  ASSUME RInv, IInv', AddMagnitudes
  PROVE  RInv'
<1>. DEFINE ua == Unpack(A)
            ub == Unpack(B)
            exp == IF ua.exp >= ub.exp THEN ua.exp ELSE ub.exp
            sum == Aligned(ua, exp) + Aligned(ub, exp)
            num == Ref!Mag(A) + Ref!Mag(B)
            x == Ref!Signed(A) + Ref!Signed(B)
<1>1. /\ TypeOK /\ pc = "enter" /\ Finite /\ Additive /\ A.s = B.s
      /\ A \in Values /\ A.e < ExpMax /\ ~ IsZero(A) /\ A.s \in {0, 1}
      /\ B \in Values /\ B.e < ExpMax /\ ~ IsZero(B) /\ call.mode \in Modes
  BY Operands DEF RInv, IInv, AddMagnitudes, Nonzero, TypeOK, Calls
<1>2. num \in Nat /\ num >= 1 /\ x = (IF A.s = 0 THEN num ELSE -num)
  <2>1. /\ Ref!Mag(A) \in Nat /\ Ref!Mag(A) >= 1 /\ Ref!Mag(B) \in Nat /\ Ref!Mag(B) >= 1
        /\ A.s = 0 => Ref!Signed(A) = Ref!Mag(A) /\ Ref!Signed(B) = Ref!Mag(B)
        /\ A.s = 1 => Ref!Signed(A) = -Ref!Mag(A) /\ Ref!Signed(B) = -Ref!Mag(B)
    BY <1>1, SignedFacts
  <2>. DEFINE p == Ref!Mag(A)
              q == Ref!Mag(B)
  <2>2. p \in Nat /\ q \in Nat /\ p >= 1 /\ q >= 1
    BY <2>1
  <2>. HIDE DEF p, q
  <2>3. p + q \in Nat /\ p + q >= 1 /\ (-p) + (-q) = -(p + q)
    BY <2>2
  <2>. QED BY <1>1, <2>1, <2>3 DEF p, q
<1>3. Expected = Ref!Round(A.s, num, 1, call.mode)
  <2>1. x # 0 => Expected = Ref!RoundInteger(x, call.mode)
    BY <1>1, ExpectedSum
  <2>. HIDE DEF x, num
  <2>2. x # 0 /\ Ref!RoundInteger(x, call.mode) = Ref!Round(A.s, num, 1, call.mode)
    BY <1>1, <1>2, IntegerRounds
  <2>. QED BY <2>1, <2>2
<1>4. PICK q \in Nat : Half = 4 * q /\ Guard = 2 * Half /\ Half \in Nat
  BY GuardPowers
<1>5. /\ exp \in Int /\ Scalable(exp) /\ exp <= ExpMax /\ ua.exp \in Int /\ ub.exp \in Int
      /\ StandsFor(exp, sum, num, 1, Half)
  <2>. DEFINE h == 2 * q
              T == Half
  <2>1. h \in Nat /\ T \in Nat /\ T = 2 * h /\ Guard = T * 2
    BY <1>4
  <2>2. /\ ua.exp \in (1 - FracBits)..(ExpMax - 1) /\ ub.exp \in (1 - FracBits)..(ExpMax - 1)
        /\ ua.sig \in Nat /\ ub.sig \in Nat
    BY <1>1, UnpackNormalises, UnpackedSig
  <2>3. ua.exp \in Int /\ ub.exp \in Int /\ ua.exp <= ExpMax /\ ub.exp <= ExpMax
    BY <2>2, Widths, Fields
  <2>4. ShiftRightJamming(ua.sig, 0) = ua.sig /\ ShiftRightJamming(ub.sig, 0) = ub.sig
    BY <2>2, JamZero
  <2>. HIDE DEF h, T
  <2>5. CASE ua.exp >= ub.exp
    <3>1. exp = ua.exp /\ exp - ua.exp = 0
      BY <2>3, <2>5
    <3>2. sum = ua.sig + ShiftRightJamming(ub.sig, ua.exp - ub.exp)
      BY <2>4, <3>1 DEF Aligned
    <3>. DEFINE a == Unpack(A).exp
                b == Unpack(B).exp
    <3>3. b <= a
      BY <2>3, <2>5
    <3>. HIDE DEF a, b
    <3>4. a = Unpack(A).exp /\ b = Unpack(B).exp
      BY DEF a, b
    <3>5. /\ Scalable(a)
          /\ StandsFor(a, Unpack(A).sig + ShiftRightJamming(Unpack(B).sig, a - b),
                       Ref!Mag(A) + Ref!Mag(B), 1, T)
      BY <1>1, <2>1, <3>3, <3>4, OperandsStand
    <3>. QED BY <2>3, <3>1, <3>2, <3>5 DEF T, a, b
  <2>6. CASE ~ (ua.exp >= ub.exp)
    <3>1. exp = ub.exp /\ exp - ub.exp = 0
      BY <2>3, <2>6
    <3>2. sum = ShiftRightJamming(ua.sig, ub.exp - ua.exp) + ub.sig
      BY <2>4, <3>1 DEF Aligned
    <3>. DEFINE a == Unpack(B).exp
                b == Unpack(A).exp
    <3>3. b <= a /\ a \in Int /\ b \in Int
      BY <2>3, <2>6
    <3>. HIDE DEF a, b
    <3>4. a = Unpack(B).exp /\ b = Unpack(A).exp
      BY DEF a, b
    <3>5. /\ Scalable(a) /\ a - b <= MaxShift
          /\ StandsFor(a, Unpack(B).sig + ShiftRightJamming(Unpack(A).sig, a - b),
                       Ref!Mag(B) + Ref!Mag(A), 1, T)
      BY <1>1, <2>1, <3>3, <3>4, OperandsStand
    <3>6. Ref!Mag(A) + Ref!Mag(B) = Ref!Mag(B) + Ref!Mag(A)
      BY <1>1, SignedFacts
    <3>7. ShiftRightJamming(ua.sig, a - b) \in Nat
      <4>1. ua.sig < Pow2[ImplicitAt + 1] /\ ImplicitAt + 1 \in 1..WordBits /\ a - b \in Nat
        BY <1>1, <3>3, UnpackedSig, Widths
      <4>. QED BY <2>2, <4>1, JamBound
    <3>8. sum = ub.sig + ShiftRightJamming(ua.sig, a - b)
      <4>. DEFINE j == ShiftRightJamming(ua.sig, a - b)
                  k == ub.sig
      <4>1. sum = j + k /\ j \in Nat /\ k \in Nat
        BY <2>2, <3>2, <3>4, <3>7
      <4>. HIDE DEF j, k, sum
      <4>2. sum = k + j
        BY <4>1
      <4>. QED BY <4>2 DEF j, k
    <3>. QED BY <2>3, <3>1, <3>5, <3>6, <3>8 DEF T, a, b
  <2>. QED BY <2>5, <2>6
<1>6. IF BitSet(sum, ImplicitAt + 1)
      THEN Working(A.s, exp + 1, ShiftRightJamming(sum, 1))
      ELSE Working(A.s, exp, sum)
  BY DEF AddMagnitudes
<1>7. sum \in Nat /\ sum < Pow2[ImplicitAt + 2]
  <2>1. exp \in Int /\ ua.exp <= exp /\ ub.exp <= exp
    BY <1>5
  <2>. HIDE DEF exp
  <2>2. /\ Aligned(ua, exp) \in Nat /\ Aligned(ua, exp) < Pow2[ImplicitAt + 1]
        /\ Aligned(ub, exp) \in Nat /\ Aligned(ub, exp) < Pow2[ImplicitAt + 1]
    BY <1>1, <2>1, AlignedRange
  <2>. HIDE DEF ua, ub
  <2>. QED BY <2>2, Layout
<1>. HIDE DEF exp, sum, num, x
<1>8. CASE BitSet(sum, ImplicitAt + 1)
  <2>1. Working(A.s, exp + 1, ShiftRightJamming(sum, 1))
    BY <1>6, <1>8
  <2>2. sum < Pow2[WordBits]
    <3>1. /\ ImplicitAt + 2 \in Nat /\ WordBits \in Nat /\ ImplicitAt + 2 <= WordBits
          /\ WordBits <= MaxShift /\ ImplicitAt + 2 \in 0..MaxShift /\ WordBits \in 0..MaxShift
      BY Widths
    <3>2. /\ Pow2[ImplicitAt + 2] <= Pow2[WordBits] /\ Pow2[ImplicitAt + 2] \in Nat
          /\ Pow2[WordBits] \in Nat
      BY <3>1, Pow2Monotone, Pow2Step
    <3>. QED BY <1>7, <3>2
  <2>3. Scalable(exp + 1) /\ 1 <= MaxShift
    BY <1>5, Fields, Widths DEF Scalable
  <2>. DEFINE h == 2 * q
              T == Half
  <2>4. h \in Nat /\ T \in Nat /\ T = 2 * h /\ StandsFor(exp, sum, num, 1, T)
    BY <1>4, <1>5
  <2>. HIDE DEF h, T
  <2>5. StandsFor(exp + 1, ShiftRightJamming(sum, 1), num, 1, T)
    BY <1>2, <1>5, <1>7, <2>2, <2>3, <2>4, JamStands
  <2>6. 1 \in Nat /\ 1 >= 1 /\ StandsFor(exp + 1, ShiftRightJamming(sum, 1), num, 1, Half)
    BY <2>5 DEF T
  <2>. QED BY <1>1, <1>2, <1>3, <2>1, <2>3, <2>6, WorkingPrepares
<1>9. CASE ~ BitSet(sum, ImplicitAt + 1)
  <2>1. Working(A.s, exp, sum)
    BY <1>6, <1>9
  <2>2. 1 \in Nat /\ 1 >= 1
    OBVIOUS
  <2>. QED BY <1>1, <1>2, <1>3, <1>5, <2>1, <2>2, WorkingPrepares
<1>. QED BY <1>8, <1>9

(* The larger operand gives the sign, and a cancelled difference is zero   *)
(* exactly when the operands are of equal magnitude.                       *)
LEMMA SubAnswer ==
  ASSUME RInv, IInv', SubMagnitudes
  PROVE  RInv'
<1>. DEFINE ua == Unpack(A)
            ub == Unpack(B)
            swap == Larger(ub, ua)
            v == IF swap THEN B ELSE A
            w == IF swap THEN A ELSE B
            big == Unpack(v)
            small == Unpack(w)
            diff == big.sig - Aligned(small, big.exp)
            shift == Clz(diff) - 2
            sign == IF swap THEN 1 - A.s ELSE A.s
            num == Ref!Mag(v) - Ref!Mag(w)
            x == Ref!Signed(A) + Ref!Signed(B)
<1>1. /\ TypeOK /\ pc = "enter" /\ Finite /\ Additive /\ A.s # B.s
      /\ A \in Values /\ A.e < ExpMax /\ ~ IsZero(A) /\ A.s \in {0, 1}
      /\ B \in Values /\ B.e < ExpMax /\ ~ IsZero(B) /\ B.s \in {0, 1} /\ call.mode \in Modes
  BY Operands DEF RInv, IInv, SubMagnitudes, Nonzero, TypeOK, Calls
<1>2. IF diff = 0 THEN Done(SignedZero(ZeroSign), {})
                  ELSE Working(sign, big.exp - shift, diff * Pow2[shift])
  BY DEF SubMagnitudes
<1>3. /\ v \in Values /\ v.e < ExpMax /\ ~ IsZero(v)
      /\ w \in Values /\ w.e < ExpMax /\ ~ IsZero(w)
  BY <1>1
<1>4. /\ big.exp \in Int /\ small.exp \in Int /\ small.exp <= big.exp
      /\ big.sig \in Nat /\ Pow2[ImplicitAt] <= big.sig /\ big.sig < Pow2[ImplicitAt + 1]
      /\ small.exp = big.exp => small.sig <= big.sig
  <2>1. ua.exp \in Int /\ ub.exp \in Int
    BY <1>1, UnpackNormalises, Widths, Fields
  <2>2. /\ ua.sig \in Nat /\ Pow2[ImplicitAt] <= ua.sig /\ ua.sig < Pow2[ImplicitAt + 1]
        /\ ub.sig \in Nat /\ Pow2[ImplicitAt] <= ub.sig /\ ub.sig < Pow2[ImplicitAt + 1]
    BY <1>1, UnpackedSig
  <2>3. /\ swap => big = ub /\ small = ua
        /\ ~ swap => big = ua /\ small = ub
    OBVIOUS
  <2>. HIDE DEF ua, ub, big, small, v, w
  <2>. QED BY <2>1, <2>2, <2>3 DEF Larger
<1>5. /\ Aligned(small, big.exp) \in Nat
      /\ small.exp = big.exp => Aligned(small, big.exp) = small.sig
      /\ small.exp < big.exp => Aligned(small, big.exp) < Pow2[ImplicitAt]
  <2>. HIDE DEF v, w
  <2>1. small = Unpack(w)
    OBVIOUS
  <2>. HIDE DEF big, small
  <2>. QED BY <1>3, <1>4, <2>1, AlignedRange
<1>6. diff \in Nat /\ diff < Pow2[ImplicitAt + 1]
  <2>. HIDE DEF v, w, big, small
  <2>. DEFINE lo == Aligned(small, big.exp)
  <2>1. /\ lo \in Nat /\ (small.exp = big.exp => lo = small.sig)
        /\ (small.exp < big.exp => lo < Pow2[ImplicitAt]) /\ diff = big.sig - lo
    BY <1>5
  <2>. HIDE DEF lo, diff
  <2>. QED BY <1>4, <2>1, Layout
<1>7. /\ diff = 0 <=> Ref!Mag(v) = Ref!Mag(w)
      /\ diff > 0 => num >= 1
      /\ \A h \in 0..ImplicitAt :
           Pow2[h] <= diff /\ diff < Pow2[h + 1] =>
             /\ Scalable(big.exp - (ImplicitAt - h))
             /\ StandsFor(big.exp - (ImplicitAt - h), diff * Pow2[ImplicitAt - h], num, 1, Half)
  <2>. HIDE DEF v, w
  <2>. DEFINE a == Unpack(v).exp
              b == Unpack(w).exp
              d == diff
  <2>1. b <= a /\ d \in Nat /\ d = Unpack(v).sig - ShiftRightJamming(Unpack(w).sig, a - b)
    BY <1>4, <1>6 DEF Aligned
  <2>2. a = Unpack(v).exp /\ b = Unpack(w).exp
    OBVIOUS
  <2>. HIDE DEF a, b, d
  <2>3. /\ d = 0 <=> Ref!Mag(v) = Ref!Mag(w)
        /\ d > 0 => Ref!Mag(v) - Ref!Mag(w) >= 1
        /\ \A h \in 0..ImplicitAt :
             Pow2[h] <= d /\ d < Pow2[h + 1] =>
               /\ Scalable(a - (ImplicitAt - h))
               /\ StandsFor(a - (ImplicitAt - h), d * Pow2[ImplicitAt - h],
                            Ref!Mag(v) - Ref!Mag(w), 1, Half)
    BY <1>3, <2>1, <2>2, DifferenceStands
  <2>. QED BY <2>3 DEF a, d
<1>8. /\ Ref!Mag(A) \in Nat /\ Ref!Mag(B) \in Nat
      /\ A.s = 0 => Ref!Signed(A) = Ref!Mag(A) /\ Ref!Signed(B) = -Ref!Mag(B)
      /\ A.s = 1 => Ref!Signed(A) = -Ref!Mag(A) /\ Ref!Signed(B) = Ref!Mag(B)
  BY <1>1, SignedFacts
<1>9. num \in Int /\ sign \in {0, 1} /\ x = (IF sign = 0 THEN num ELSE -num)
  <2>. DEFINE p == Ref!Mag(A)
              q == Ref!Mag(B)
  <2>1. /\ p \in Nat /\ q \in Nat
        /\ x = (IF A.s = 0 THEN p + (-q) ELSE (-p) + q)
        /\ num = IF swap THEN q - p ELSE p - q
    BY <1>1, <1>8
  <2>. HIDE DEF p, q, x, num, swap
  <2>2. CASE swap
    <3>1. p + (-q) = -(q - p) /\ (-p) + q = q - p /\ q - p \in Int
      BY <2>1
    <3>. QED BY <1>1, <2>1, <2>2, <3>1
  <2>3. CASE ~ swap
    <3>1. p + (-q) = p - q /\ (-p) + q = -(p - q) /\ p - q \in Int
      BY <2>1
    <3>. QED BY <1>1, <2>1, <2>3, <3>1
  <2>. QED BY <2>2, <2>3
<1>10. /\ x = 0 => Expected = [res |-> SignedZero(ZeroSign), fe |-> {}]
       /\ x # 0 => Expected = Ref!RoundInteger(x, call.mode)
  BY <1>1, ExpectedSum
<1>11. CASE diff = 0
  <2>1. Done(SignedZero(ZeroSign), {})
    BY <1>2, <1>11
  <2>2. x = 0
    <3>1. num <= 0 /\ num >= 0 /\ num \in Int
      <4>1. Ref!Mag(v) = Ref!Mag(w) /\ Ref!Mag(v) \in Int /\ Ref!Mag(w) \in Int
        BY <1>7, <1>8, <1>11
      <4>. HIDE DEF v, w
      <4>. QED BY <4>1
    <3>. HIDE DEF num, x
    <3>2. num = 0 /\ -num = 0
      BY <3>1
    <3>. QED BY <1>9, <3>2
  <2>. QED BY <1>1, <1>10, <2>1, <2>2, DoneAnswers DEF Agree
<1>12. CASE diff # 0
  <2>. HIDE DEF v, w, x, sign
  <2>1. diff > 0 /\ diff < Pow2[WordBits] /\ diff \in Nat
    BY <1>6, <1>12, Layout
  <2>. HIDE DEF diff, num, big
  <2>2. PICK h \in 0..(WordBits - 1) :
           Clz(diff) = WordBits - (h + 1) /\ Pow2[h] <= diff /\ diff < Pow2[h + 1]
    BY <2>1, ClzWord
  <2>3. h <= ImplicitAt
    <3>1. SUFFICES ASSUME ImplicitAt + 1 <= h PROVE FALSE
      BY <2>2, Widths
    <3>2. h \in Nat /\ h <= MaxShift /\ h \in 0..MaxShift /\ ImplicitAt + 1 \in Nat
      BY Widths
    <3>3. Pow2[ImplicitAt + 1] <= Pow2[h] /\ Pow2[h] \in Nat
      BY <3>1, <3>2, Pow2Monotone, Pow2Step
    <3>. QED BY <1>6, <2>2, <3>3, Layout
  <2>4. shift = ImplicitAt - h /\ h \in 0..ImplicitAt
    BY <2>2, <2>3, Widths
  <2>5. Working(sign, big.exp - (ImplicitAt - h), diff * Pow2[ImplicitAt - h])
    BY <1>2, <1>12, <2>4
  <2>6. /\ num \in Nat /\ num >= 1
        /\ Scalable(big.exp - (ImplicitAt - h))
        /\ StandsFor(big.exp - (ImplicitAt - h), diff * Pow2[ImplicitAt - h], num, 1, Half)
    BY <1>7, <1>9, <2>1, <2>2, <2>4
  <2>7. Expected = Ref!Round(sign, num, 1, call.mode)
    <3>1. x # 0 /\ Ref!RoundInteger(x, call.mode) = Ref!Round(sign, num, 1, call.mode)
      BY <1>9, <2>6, IntegerRounds
    <3>. QED BY <1>10, <3>1
  <2>8. 1 \in Nat /\ 1 >= 1
    OBVIOUS
  <2>. QED BY <1>1, <2>5, <2>6, <2>7, <2>8, WorkingPrepares
<1>. QED BY <1>11, <1>12

(* The exact product and quotient, of the sign of the code.                *)
LEMMA ExpectedProduct ==
  ASSUME TypeOK, Nonzero, NEW M, M = Ref!Mag(A), NEW N, N = Ref!Mag(B)
  PROVE  /\ call.op = "mul" =>
              Expected = Ref!RoundScaled(ResultSign, Ref!Odd(M) * Ref!Odd(N),
                                         Ref!Twos(M) + Ref!Twos(N) - Ref!LogOne, 1, call.mode)
         /\ call.op = "div" =>
              Expected = Ref!RoundScaled(ResultSign, Ref!Odd(M),
                                         Ref!Twos(M) - Ref!Twos(N) + Ref!LogOne,
                                         Ref!Odd(N), call.mode)
<1>1. /\ ~ Ref!IsNaN(A) /\ ~ Ref!IsInf(A) /\ ~ Ref!IsZero(A)
      /\ ~ Ref!IsNaN(B) /\ ~ Ref!IsInf(B) /\ ~ Ref!IsZero(B)
  BY SameClasses DEF Nonzero, Finite
<1>2. /\ call.op = "mul" => Expected = Ref!Multiply(A, B, call.mode)
      /\ call.op = "div" => Expected = Ref!Divide(A, B, call.mode)
  BY ExpectedNumber DEF Nonzero, Finite
<1>3. Ref!SignOf(A, B) = ResultSign
  BY DEF Ref!SignOf, ResultSign
<1>4. Ref!Multiply(A, B, call.mode) =
        Ref!RoundScaled(ResultSign, Ref!Odd(M) * Ref!Odd(N),
                        Ref!Twos(M) + Ref!Twos(N) - Ref!LogOne, 1, call.mode)
  BY <1>1, <1>3, Zenon DEF Ref!Multiply
<1>5. Ref!Divide(A, B, call.mode) =
        Ref!RoundScaled(ResultSign, Ref!Odd(M), Ref!Twos(M) - Ref!Twos(N) + Ref!LogOne,
                        Ref!Odd(N), call.mode)
  BY <1>1, <1>3, Zenon DEF Ref!Divide
<1>. QED BY <1>2, <1>4, <1>5

LEMMA MultiplyAnswer ==
  ASSUME RInv, IInv', Multiply
  PROVE  RInv'
<1>. DEFINE ua == Unpack(A)
            ub == Unpack(B)
            p == ua.sig \div Pow2[GuardBits]
            q == ub.sig \div Pow2[GuardBits]
            product == p * q
            carry == BitSet(product, 2 * FracBits + 1)
            c == IF carry THEN 1 ELSE 0
            d == FracBits - GuardBits + c
            S == Pow2[d]
            e == ua.exp + ub.exp - Bias + c
            sig == OrSticky((p * q) \div S, ((p * q) % S) # 0)
            M == Ref!Mag(A)
            N == Ref!Mag(B)
<1>1. /\ TypeOK /\ pc = "enter" /\ Nonzero /\ call.op = "mul"
      /\ A \in Values /\ A.e < ExpMax /\ ~ IsZero(A)
      /\ B \in Values /\ B.e < ExpMax /\ ~ IsZero(B)
  BY Operands DEF RInv, IInv, Multiply, Nonzero
<1>2. WideTable /\ FracBits >= GuardBits
  BY TableAssumption, ProductAssumption DEF TableAssumption, ProductAssumption, WideTable
<1>3. p \in Nat /\ Unpack(A).sig = p * Guard /\ q \in Nat /\ Unpack(B).sig = q * Guard
  BY <1>1, UnpackedUnits
<1>4. Working(ResultSign, e, sig)
  BY DEF Multiply
<1>5. c \in {0, 1}
  OBVIOUS
<1>6. e = Unpack(A).exp + Unpack(B).exp - Bias + c
  OBVIOUS
<1>. HIDE DEF carry, p, q, c
<1>7. S \in Nat /\ S >= 1 /\ S * Guard = Pow2[FracBits + c]
  <2>1. d \in Nat /\ d + GuardBits = FracBits + c /\ FracBits + c <= MaxShift
        /\ d \in 0..MaxShift /\ GuardBits \in Nat
    BY <1>2, <1>5, Widths
  <2>. HIDE DEF d
  <2>2. Pow2[d + GuardBits] = Pow2[d] * Pow2[GuardBits]
    BY <2>1, Pow2Sum
  <2>. QED BY <2>1, <2>2, Pow2Positive DEF Guard
<1>8. PICK num \in Nat, den \in Nat :
        /\ den >= 1 /\ num * Pow2[Ref!LogOne] = (M * N) * den
        /\ Ref!RoundScaled(ResultSign, Ref!Odd(M) * Ref!Odd(N),
                           Ref!Twos(M) + Ref!Twos(N) - Ref!LogOne, 1, call.mode) =
             Ref!Round(ResultSign, num, den, call.mode)
  <2>1. M = Ref!Mag(A) /\ N = Ref!Mag(B)
    OBVIOUS
  <2>. HIDE DEF M, N
  <2>. QED BY <1>1, <1>2, <2>1, ExactProduct
<1>9. Expected = Ref!Round(ResultSign, num, den, call.mode)
  <2>1. M = Ref!Mag(A) /\ N = Ref!Mag(B)
    OBVIOUS
  <2>. HIDE DEF M, N
  <2>2. Expected = Ref!RoundScaled(ResultSign, Ref!Odd(M) * Ref!Odd(N),
                                   Ref!Twos(M) + Ref!Twos(N) - Ref!LogOne, 1, call.mode)
    BY <1>1, <2>1, ExpectedProduct
  <2>. QED BY <1>8, <2>2
<1>10. Scalable(e) /\ StandsFor(e, sig, num, den, Half)
  <2>1. num * Pow2[Ref!LogOne] = (Ref!Mag(A) * Ref!Mag(B)) * den /\ den >= 1
    BY <1>8
  <2>. HIDE DEF e, S
  <2>. QED BY <1>1, <1>2, <1>3, <1>5, <1>6, <1>7, <2>1, ProductStands
<1>. HIDE DEF e, sig
<1>. QED BY <1>1, <1>4, <1>8, <1>9, <1>10, WorkingPrepares

LEMMA DivideAnswer ==
  ASSUME RInv, IInv', Divide
  PROVE  RInv'
<1>. DEFINE ua == Unpack(A)
            ub == Unpack(B)
            p == ua.sig \div Pow2[GuardBits]
            q == ub.sig \div Pow2[GuardBits]
            c == IF p < q THEN 1 ELSE 0
            n == IF p < q THEN 2 * p ELSE p
            Q == Pow2[FracBits + 3]
            R == n * Q
            W == Pow2[GuardBits - 3]
            e == ua.exp - ub.exp + Bias - c
            sig == OrSticky((R \div q) * W, (R % q) # 0)
            M == Ref!Mag(A)
            N == Ref!Mag(B)
<1>1. /\ TypeOK /\ pc = "enter" /\ Nonzero /\ call.op = "div"
      /\ A \in Values /\ A.e < ExpMax /\ ~ IsZero(A)
      /\ B \in Values /\ B.e < ExpMax /\ ~ IsZero(B)
  BY Operands DEF RInv, IInv, Divide, Nonzero
<1>2. WideTable
  BY TableAssumption DEF TableAssumption, WideTable
<1>3. /\ p \in Nat /\ Unpack(A).sig = p * Guard
      /\ q \in Nat /\ q >= 1 /\ Unpack(B).sig = q * Guard
  BY <1>1, UnpackedUnits
<1>4. Working(ResultSign, e, sig)
  <2>1. Working(ResultSign, QuotientExp, QuotientSig)
    BY QuotientFits DEF RInv
  <2>2. e = QuotientExp /\ sig = QuotientSig
    BY Zenon DEF QuotientExp, QuotientSig, Dividend, SigA, SigB
  <2>. HIDE DEF e, sig
  <2>. QED BY <2>1, <2>2
<1>5. c \in {0, 1} /\ e = Unpack(A).exp - Unpack(B).exp + Bias - c
  OBVIOUS
<1>6. Q \in Nat /\ W \in Nat /\ W >= 1 /\ Half = 4 * W /\ R \in Nat
      /\ R * W = (p * Guard) * Pow2[FracBits + c]
  <2>1. /\ FracBits + 3 \in 0..MaxShift /\ GuardBits - 3 \in 0..MaxShift /\ GuardBits - 3 \in Nat
        /\ (GuardBits - 3) + 2 = GuardBits - 1 /\ GuardBits - 1 <= MaxShift
        /\ FracBits \in Nat /\ FracBits + 1 <= MaxShift /\ 3 \in Nat /\ FracBits + 3 <= MaxShift
        /\ FracBits \in 0..MaxShift /\ 0 + 1 = 1 /\ 1 + 1 = 2 /\ 2 + 1 = 3 /\ 2 <= MaxShift /\ 1 <= MaxShift
        /\ 3 <= MaxShift
    BY Widths
  <2>2. Pow2[2] = 4 /\ Pow2[3] = 8 /\ Pow2[1] = 2
    <3>1. Pow2[0] = 1 /\ Pow2[0 + 1] = 2 * Pow2[0] /\ Pow2[1 + 1] = 2 * Pow2[1]
          /\ Pow2[2 + 1] = 2 * Pow2[2]
      BY <2>1, Pow2Step
    <3>. QED BY <3>1
  <2>3. Half = W * 4
    <3>1. Pow2[(GuardBits - 3) + 2] = Pow2[GuardBits - 3] * Pow2[2]
      BY <2>1, Pow2Sum
    <3>. QED BY <2>1, <2>2, <3>1 DEF Half
  <2>4. Q = Pow2[FracBits] * 8
    BY <2>1, <2>2, Pow2Sum
  <2>5. Pow2[FracBits + 1] = 2 * Pow2[FracBits] /\ FracBits + 0 = FracBits
    BY <2>1, Pow2Step
  <2>6. Q \in Nat /\ W \in Nat /\ W >= 1 /\ Pow2[FracBits] \in Nat
    BY <2>1, Pow2Positive
  <2>7. Guard = 2 * Half /\ Guard \in Nat
    BY GuardPowers
  <2>. DEFINE F == Pow2[FracBits]
              K == Pow2[FracBits + c]
  <2>8. (c = 0 /\ n = p /\ K = F) \/ (c = 1 /\ n = 2 * p /\ K = 2 * F)
    BY <2>5
  <2>. HIDE DEF p, q, c, n, Q, W, F, K
  <2>9. F \in Nat /\ Q = F * 8 /\ Half = 4 * W /\ Half = W * 4 /\ Guard = 8 * W
    BY <2>3, <2>4, <2>6, <2>7 DEF F
  <2>10. n \in Nat
    BY <1>3, <2>8
  <2>11. (n * Q) * W = (p * Guard) * K
    <3>1. CASE c = 0 /\ n = p /\ K = F
      <4>1. (p * (F * 8)) * W = (p * (8 * W)) * F
        BY <1>3, <2>6, <2>9, Z3
      <4>. QED BY <2>9, <3>1, <4>1
    <3>2. CASE c = 1 /\ n = 2 * p /\ K = 2 * F
      <4>1. ((2 * p) * (F * 8)) * W = (p * (8 * W)) * (2 * F)
        BY <1>3, <2>6, <2>9, Z3
      <4>. QED BY <2>9, <3>2, <4>1
    <3>. QED BY <2>8, <3>1, <3>2
  <2>12. n * Q \in Nat
    BY <2>6, <2>10
  <2>. QED BY <2>6, <2>9, <2>11, <2>12 DEF K
<1>. HIDE DEF p, q, c, n, Q, W, R
<1>7. PICK num \in Nat, den \in Nat :
        /\ den >= 1 /\ num * N = (M * Pow2[Ref!LogOne]) * den
        /\ Ref!RoundScaled(ResultSign, Ref!Odd(M), Ref!Twos(M) - Ref!Twos(N) + Ref!LogOne,
                           Ref!Odd(N), call.mode) =
             Ref!Round(ResultSign, num, den, call.mode)
  <2>1. M = Ref!Mag(A) /\ N = Ref!Mag(B)
    OBVIOUS
  <2>. HIDE DEF M, N
  <2>. QED BY <1>1, <1>2, <2>1, ExactQuotient
<1>8. Expected = Ref!Round(ResultSign, num, den, call.mode)
  <2>1. M = Ref!Mag(A) /\ N = Ref!Mag(B)
    OBVIOUS
  <2>. HIDE DEF M, N
  <2>2. Expected = Ref!RoundScaled(ResultSign, Ref!Odd(M),
                                   Ref!Twos(M) - Ref!Twos(N) + Ref!LogOne,
                                   Ref!Odd(N), call.mode)
    BY <1>1, <2>1, ExpectedProduct
  <2>. QED BY <1>7, <2>2
<1>9. Scalable(e) /\ StandsFor(e, sig, num, den, Half)
  <2>1. num * Ref!Mag(B) = (Ref!Mag(A) * Pow2[Ref!LogOne]) * den /\ den >= 1
    BY <1>7
  <2>. HIDE DEF e
  <2>2. Quotes(A, B, c, e, p, q, R, W, num, den)
    BY <1>1, <1>3, <1>5, <1>6, <2>1 DEF Quotes
  <2>. QED BY <1>2, <2>2, QuotientStands
<1>. HIDE DEF e, sig
<1>. QED BY <1>1, <1>4, <1>7, <1>8, <1>9, WorkingPrepares

---------------------------------------------------------------------------
LEMMA AnswersInit == Init => RInv
<1>. SUFFICES ASSUME Init PROVE RInv
  OBVIOUS
<1>1. IInv
  BY InitHolds
<1>. QED BY <1>1 DEF Init, RInv

LEMMA AnswersInductive == RInv /\ [Next]_vars => RInv'
<1>. SUFFICES ASSUME RInv, [Next]_vars PROVE RInv'
  OBVIOUS
<1>1. IInv'
  BY Inductive DEF RInv
<1>2. CASE UNCHANGED vars
  BY <1>1, <1>2 DEF vars, RInv, Prepared, Answered, Expected, Agree
<1>3. CASE NaNOperand
  BY <1>1, <1>3, NaNAnswer
<1>4. CASE InfiniteSum \/ InfiniteProduct \/ InfiniteQuotient
  BY <1>1, <1>4, InfiniteAnswer
<1>5. CASE ZeroSum \/ ZeroProduct \/ ZeroQuotient
  BY <1>1, <1>5, ZeroAnswer
<1>6. CASE AddMagnitudes
  BY <1>1, <1>6, AddAnswer
<1>7. CASE SubMagnitudes
  BY <1>1, <1>7, SubAnswer
<1>8. CASE Multiply
  BY <1>1, <1>8, MultiplyAnswer
<1>9. CASE Divide
  BY <1>1, <1>9, DivideAnswer
<1>10. CASE Round
  BY <1>1, <1>10, RoundAnswer
<1>. QED BY <1>2, <1>3, <1>4, <1>5, <1>6, <1>7, <1>8, <1>9, <1>10 DEF Next

(* RInv is an inductive invariant of the specification.                    *)
THEOREM AnswersInvariance == Spec => []RInv
<1>. QED BY AnswersInit, AnswersInductive, PTL DEF Spec

(* For every format, every pair of operands and every mode: sf64_add_r,    *)
(* sf64_sub_r, sf64_mul_r and sf64_div_r of arithmetic.cpp return the      *)
(* correctly rounded exact result, subnormal, overflowing and special ones *)
(* included.                                                               *)
THEOREM CorrectlyRoundedAlways == Spec => []CorrectlyRounded
<1>1. RInv => CorrectlyRounded
  BY DEF RInv, Answered, CorrectlyRounded
<1>. QED BY <1>1, AnswersInvariance, PTL

(* Likewise they raise exactly the flags IEEE 754 prescribes, underflow    *)
(* when the exact result is tiny before rounding.                          *)
THEOREM ExactFlagsAlways == Spec => []ExactFlags
<1>1. RInv => ExactFlags
  BY DEF RInv, Answered, ExactFlags
<1>. QED BY <1>1, AnswersInvariance, PTL

---------------------------------------------------------------------------
(* The round-to-nearest-even copies of internal_arith.h: what they return  *)
(* is what the code returns in that mode.                                  *)
Copied ==
  CASE call.op = "add" -> Rne!AddRne(call.a, call.b)
    [] call.op = "sub" -> Rne!SubRne(call.a, call.b, call.propagate)
    [] call.op = "mul" -> Rne!MulRne(call.a, call.b)
    [] call.op = "div" -> Rne!DivRne(call.a, call.b)

CInv ==
  /\ RInv
  /\ call.mode = "RNE" =>
       /\ pc = "round" => Copied = RoundAndPack(z.sign, z.exp, z.sig, "RNE")
       /\ pc = "done" => Copied = [res |-> res, fe |-> fe]

LEMMA CopyDone ==
  ASSUME CInv, RInv', pc \in {"enter", "round"}, NEW v, NEW flags, Done(v, flags),
         call.mode = "RNE" => Copied = [res |-> v, fe |-> flags]
  PROVE  CInv'
<1>1. pc' = "done" /\ res' = v /\ call' = call
  BY DEF Done
<1>2. fe' = flags
  <2>1. fe = {}
    BY DEF CInv, RInv
  <2>. QED BY <2>1 DEF Done
<1>3. Copied' = Copied
  BY <1>1 DEF Copied
<1>. QED BY <1>1, <1>2, <1>3 DEF CInv

LEMMA CopyWorking ==
  ASSUME CInv, RInv', pc = "enter", NEW sign, NEW exp, NEW sig, Working(sign, exp, sig),
         call.mode = "RNE" => Copied = Rne!RoundAndPackRne(sign, exp, sig)
  PROVE  CInv'
<1>1. /\ pc' = "round" /\ z'.exp = exp /\ z'.sig = sig /\ z'.sign = sign /\ call' = call
  BY DEF Working
<1>2. sign \in {0, 1} /\ exp \in Int /\ sig \in Nat /\ sig < Pow2[ImplicitAt + 1]
  BY <1>1 DEF RInv, IInv, TypeOK, Normalised
<1>3. Rne!RoundAndPackRne(sign, exp, sig) = RoundAndPack(sign, exp, sig, "RNE")
  BY <1>2, CopiedRoundAndPack
<1>4. Copied' = Copied
  BY <1>1 DEF Copied
<1>. QED BY <1>1, <1>3, <1>4 DEF CInv

(* The copy of the operation, for the operands the code works with.        *)
LEMMA CopiedOperation ==
  ASSUME TypeOK, ~ IsNaN(A), ~ IsNaN(B)
  PROVE  /\ Additive => Copied = Rne!AddRne(A, B)
         /\ call.op = "mul" => Copied = Rne!MulRne(A, B)
         /\ call.op = "div" => Copied = Rne!DivRne(A, B)
<1>1. (IsNaN(B) <=> IsNaN(call.b)) /\ A = call.a
  BY DEF A, B, Neg, IsNaN, TypeOK, Calls, Values
<1>2. ~ Rne!AnyNaN(call.a, call.b) /\ Rne!Neg(call.b) = Neg(call.b)
  BY <1>1, CopiedClasses DEF Rne!AnyNaN
<1>3. Rne!SubRne(call.a, call.b, call.propagate) = Rne!AddRne(call.a, Neg(call.b))
  BY <1>2, Zenon DEF Rne!SubRne
<1>4. (call.op # "sub" => B = call.b) /\ (call.op = "sub" => B = Neg(call.b))
  BY DEF B
<1>. QED BY <1>1, <1>3, <1>4 DEF Copied, Additive

LEMMA NaNCopied ==
  ASSUME CInv, RInv', NaNOperand
  PROVE  CInv'
<1>. DEFINE a == call.a
            b == call.b
            v == PropagateNaN(A, NaNB)
            flags == IF IsSNaN(A) \/ IsSNaN(B) THEN {"invalid"} ELSE {}
            Outcome(x, y) == [res |-> PropagateNaN(x, y),
                              fe |-> IF IsSNaN(x) \/ IsSNaN(y) THEN {"invalid"} ELSE {}]
<1>1. TypeOK /\ pc = "enter" /\ (IsNaN(A) \/ IsNaN(B)) /\ Done(v, flags)
  BY DEF CInv, RInv, IInv, NaNOperand
<1>2. /\ a \in Values /\ b \in Values /\ call.propagate \in BOOLEAN
      /\ call.op \in {"add", "sub", "mul", "div"} /\ (call.propagate => call.op = "sub")
      /\ A = a /\ (IsNaN(B) <=> IsNaN(b)) /\ (IsSNaN(B) <=> IsSNaN(b))
  BY <1>1 DEF A, B, Neg, IsNaN, IsSNaN, TypeOK, Calls, Values, Ops
<1>3. \A x, y : Rne!NaNOutcome(x, y) = Outcome(x, y)
  BY CopiedClasses, SameHelpers, Zenon
     DEF Rne!NaNOutcome, Rne!Outcome, Rne!PropagateNaN, PropagateNaN
<1>4. ASSUME NEW y, IsNaN(y) <=> IsNaN(b)
      PROVE  /\ Rne!AnyNaN(a, y) /\ Rne!AddRne(a, y) = Outcome(a, y)
             /\ Rne!MulRne(a, y) = Outcome(a, y) /\ Rne!DivRne(a, y) = Outcome(a, y)
  <2>1. Rne!AnyNaN(a, y)
    BY <1>1, <1>2, <1>4, CopiedClasses DEF Rne!AnyNaN
  <2>2. /\ Rne!AddRne(a, y) = Rne!NaNOutcome(a, y)
        /\ Rne!MulRne(a, y) = Rne!NaNOutcome(a, y)
        /\ Rne!DivRne(a, y) = Rne!NaNOutcome(a, y)
    BY <2>1, Zenon DEF Rne!AddRne, Rne!MulRne, Rne!DivRne
  <2>. QED BY <1>3, <2>1, <2>2, Zenon
<1>5. Copied = [res |-> v, fe |-> flags]
  <2>1. CASE call.op # "sub"
    <3>1. B = b /\ NaNB = b
      BY <1>2, <2>1 DEF B, NaNB
    <3>2. Copied = Outcome(a, b)
      BY <1>2, <1>4, <2>1 DEF Copied
    <3>. QED BY <1>2, <3>1, <3>2
  <2>2. CASE call.op = "sub" /\ call.propagate
    <3>1. NaNB = b
      BY <2>2 DEF NaNB
    <3>2. Copied = Rne!SubRne(a, b, call.propagate)
      BY <2>2 DEF Copied
    <3>3. Rne!SubRne(a, b, call.propagate) = Rne!NaNOutcome(a, b)
      BY <1>4, <2>2, Zenon DEF Rne!SubRne
    <3>. QED BY <1>2, <1>3, <3>1, <3>2, <3>3
  <2>3. CASE call.op = "sub" /\ ~ call.propagate
    <3>1. B = Neg(b) /\ NaNB = B /\ Rne!Neg(b) = Neg(b)
      BY <2>3, CopiedClasses DEF B, NaNB
    <3>2. Copied = Rne!SubRne(a, b, call.propagate)
      BY <2>3 DEF Copied
    <3>3. Rne!SubRne(a, b, call.propagate) = Rne!AddRne(a, B)
      BY <2>3, <3>1, Zenon DEF Rne!SubRne
    <3>4. Rne!AddRne(a, B) = Outcome(a, B)
      BY <1>2, <1>4
    <3>. QED BY <1>2, <3>1, <3>2, <3>3, <3>4
  <2>. QED BY <1>2, <2>1, <2>2, <2>3
<1>. HIDE DEF v, flags
<1>. QED BY <1>1, <1>5, CopyDone

LEMMA InfiniteCopied ==
  ASSUME CInv, RInv', InfiniteSum \/ InfiniteProduct \/ InfiniteQuotient
  PROVE  CInv'
<1>1. /\ TypeOK /\ pc = "enter" /\ ~ IsNaN(A) /\ ~ IsNaN(B) /\ (IsInf(A) \/ IsInf(B))
  BY DEF CInv, RInv, IInv, InfiniteSum, InfiniteProduct, InfiniteQuotient
<1>2. /\ ~ Rne!AnyNaN(A, B)
      /\ (Rne!IsInf(A) <=> IsInf(A)) /\ (Rne!IsInf(B) <=> IsInf(B))
      /\ (Rne!IsZero(A) <=> IsZero(A)) /\ (Rne!IsZero(B) <=> IsZero(B))
      /\ \A s : Rne!SignedZero(s) = SignedZero(s) /\ Rne!SignedInf(s) = SignedInf(s)
      /\ Rne!Invalid = [res |-> CanonicalNaN, fe |-> {"invalid"}]
      /\ \A v : Rne!Quietly(v) = [res |-> v, fe |-> {}]
      /\ Rne!SignOf(A, B) = ResultSign
  BY <1>1, CopiedClasses, SameHelpers
     DEF Rne!AnyNaN, Rne!Invalid, Rne!Quietly, Rne!Outcome, Rne!SignOf, ResultSign
<1>3. (IsInf(A) => ~ IsZero(A)) /\ (IsInf(B) => ~ IsZero(B))
  BY Fields DEF IsInf, IsZero
<1>4. CASE InfiniteSum
  <2>1. Copied = Rne!AddRne(A, B)
    BY <1>1, <1>4, CopiedOperation DEF InfiniteSum
  <2>2. CASE IsInf(A) /\ IsInf(B) /\ A.s # B.s
    <3>1. Done(CanonicalNaN, {"invalid"})
      BY <1>4, <2>2 DEF InfiniteSum
    <3>2. Copied = [res |-> CanonicalNaN, fe |-> {"invalid"}]
      BY <1>2, <2>1, <2>2 DEF Rne!AddRne
    <3>. QED BY <1>1, <3>1, <3>2, CopyDone
  <2>3. CASE ~ (IsInf(A) /\ IsInf(B) /\ A.s # B.s)
    <3>1. Done(SignedInf(IF IsInf(A) THEN A.s ELSE B.s), {})
      BY <1>4, <2>3 DEF InfiniteSum
    <3>2. Copied = [res |-> SignedInf(IF IsInf(A) THEN A.s ELSE B.s), fe |-> {}]
      BY <1>1, <1>2, <2>1, <2>3 DEF Rne!AddRne
    <3>. QED BY <1>1, <3>1, <3>2, CopyDone
  <2>. QED BY <2>2, <2>3
<1>5. CASE InfiniteProduct
  <2>1. Copied = Rne!MulRne(A, B)
    BY <1>1, <1>5, CopiedOperation DEF InfiniteProduct
  <2>2. CASE IsZero(A) \/ IsZero(B)
    <3>1. Done(CanonicalNaN, {"invalid"})
      BY <1>5, <2>2 DEF InfiniteProduct
    <3>2. Copied = [res |-> CanonicalNaN, fe |-> {"invalid"}]
      BY <1>1, <1>2, <2>1, <2>2 DEF Rne!MulRne
    <3>. QED BY <1>1, <3>1, <3>2, CopyDone
  <2>3. CASE ~ (IsZero(A) \/ IsZero(B))
    <3>1. Done(SignedInf(ResultSign), {})
      BY <1>5, <2>3 DEF InfiniteProduct
    <3>2. Copied = [res |-> SignedInf(ResultSign), fe |-> {}]
      BY <1>1, <1>2, <2>1, <2>3 DEF Rne!MulRne
    <3>. QED BY <1>1, <3>1, <3>2, CopyDone
  <2>. QED BY <2>2, <2>3
<1>6. CASE InfiniteQuotient
  <2>1. Copied = Rne!DivRne(A, B)
    BY <1>1, <1>6, CopiedOperation DEF InfiniteQuotient
  <2>2. CASE IsInf(A) /\ IsInf(B)
    <3>1. Done(CanonicalNaN, {"invalid"})
      BY <1>6, <2>2 DEF InfiniteQuotient
    <3>2. Copied = [res |-> CanonicalNaN, fe |-> {"invalid"}]
      BY <1>2, <2>1, <2>2 DEF Rne!DivRne
    <3>. QED BY <1>1, <3>1, <3>2, CopyDone
  <2>3. CASE IsInf(A) /\ ~ IsInf(B)
    <3>1. Done(SignedInf(ResultSign), {})
      BY <1>6, <2>3 DEF InfiniteQuotient
    <3>2. Copied = [res |-> SignedInf(ResultSign), fe |-> {}]
      BY <1>2, <1>3, <2>1, <2>3 DEF Rne!DivRne
    <3>. QED BY <1>1, <3>1, <3>2, CopyDone
  <2>4. CASE ~ IsInf(A)
    <3>1. Done(SignedZero(ResultSign), {})
      BY <1>6, <2>4 DEF InfiniteQuotient
    <3>2. Copied = [res |-> SignedZero(ResultSign), fe |-> {}]
      BY <1>1, <1>2, <1>3, <2>1, <2>4 DEF Rne!DivRne
    <3>. QED BY <1>1, <3>1, <3>2, CopyDone
  <2>. QED BY <2>2, <2>3, <2>4
<1>. QED BY <1>4, <1>5, <1>6

LEMMA ZeroCopied ==
  ASSUME CInv, RInv', ZeroSum \/ ZeroProduct \/ ZeroQuotient
  PROVE  CInv'
<1>1. /\ TypeOK /\ pc = "enter" /\ ~ IsNaN(A) /\ ~ IsNaN(B) /\ ~ IsInf(A) /\ ~ IsInf(B)
      /\ (IsZero(A) \/ IsZero(B))
  BY DEF CInv, RInv, IInv, ZeroSum, ZeroProduct, ZeroQuotient, Finite
<1>2. /\ ~ Rne!AnyNaN(A, B) /\ ~ Rne!IsInf(A) /\ ~ Rne!IsInf(B)
      /\ (Rne!IsZero(A) <=> IsZero(A)) /\ (Rne!IsZero(B) <=> IsZero(B))
      /\ \A s : Rne!SignedZero(s) = SignedZero(s) /\ Rne!SignedInf(s) = SignedInf(s)
      /\ Rne!Invalid = [res |-> CanonicalNaN, fe |-> {"invalid"}]
      /\ \A v : Rne!Quietly(v) = [res |-> v, fe |-> {}]
      /\ Rne!SignOf(A, B) = ResultSign
  BY <1>1, CopiedClasses, SameHelpers
     DEF Rne!AnyNaN, Rne!Invalid, Rne!Quietly, Rne!Outcome, Rne!SignOf, ResultSign
<1>3. CASE ZeroSum
  <2>. DEFINE v == IF IsZero(A) /\ IsZero(B) THEN SignedZero(IF A.s = B.s THEN A.s ELSE ZeroSign)
                   ELSE IF IsZero(A) THEN B ELSE A
  <2>1. Additive /\ Done(v, {})
    BY <1>3 DEF ZeroSum
  <2>2. Copied = Rne!AddRne(A, B)
    BY <1>1, <2>1, CopiedOperation
  <2>3. call.mode = "RNE" => Copied = [res |-> v, fe |-> {}]
    <3>. SUFFICES ASSUME call.mode = "RNE" PROVE Copied = [res |-> v, fe |-> {}]
      OBVIOUS
    <3>1. ZeroSign = 0
      BY DEF ZeroSign
    <3>. QED BY <1>1, <1>2, <2>2, <3>1 DEF Rne!AddRne
  <2>. HIDE DEF v
  <2>. QED BY <1>1, <2>1, <2>3, CopyDone
<1>4. CASE ZeroProduct
  <2>1. Copied = Rne!MulRne(A, B)
    BY <1>1, <1>4, CopiedOperation DEF ZeroProduct
  <2>2. Done(SignedZero(ResultSign), {})
    BY <1>4 DEF ZeroProduct
  <2>3. Copied = [res |-> SignedZero(ResultSign), fe |-> {}]
    BY <1>1, <1>2, <2>1 DEF Rne!MulRne
  <2>. QED BY <1>1, <2>2, <2>3, CopyDone
<1>5. CASE ZeroQuotient
  <2>1. Copied = Rne!DivRne(A, B)
    BY <1>1, <1>5, CopiedOperation DEF ZeroQuotient
  <2>2. CASE IsZero(A) /\ IsZero(B)
    <3>1. Done(CanonicalNaN, {"invalid"})
      BY <1>5, <2>2 DEF ZeroQuotient
    <3>2. Copied = [res |-> CanonicalNaN, fe |-> {"invalid"}]
      BY <1>2, <2>1, <2>2 DEF Rne!DivRne
    <3>. QED BY <1>1, <3>1, <3>2, CopyDone
  <2>3. CASE ~ IsZero(A) /\ IsZero(B)
    <3>1. Done(SignedInf(ResultSign), {"divbyzero"})
      BY <1>5, <2>3 DEF ZeroQuotient
    <3>2. Copied = [res |-> SignedInf(ResultSign), fe |-> {"divbyzero"}]
      BY <1>2, <2>1, <2>3 DEF Rne!DivRne, Rne!Outcome
    <3>. QED BY <1>1, <3>1, <3>2, CopyDone
  <2>4. CASE IsZero(A) /\ ~ IsZero(B)
    <3>1. Done(SignedZero(ResultSign), {})
      BY <1>5, <2>4 DEF ZeroQuotient
    <3>2. Copied = [res |-> SignedZero(ResultSign), fe |-> {}]
      BY <1>2, <2>1, <2>4 DEF Rne!DivRne
    <3>. QED BY <1>1, <3>1, <3>2, CopyDone
  <2>. QED BY <1>1, <2>2, <2>3, <2>4
<1>. QED BY <1>3, <1>4, <1>5

(* Finite operands other than zero, taken apart.                           *)
LEMMA CopiedMagnitudes ==
  ASSUME CInv, Nonzero, NEW x, x = Unpack(A), NEW y, y = Unpack(B)
  PROVE  /\ Additive /\ A.s = B.s => Copied = Rne!AddUnpackedRne(A.s, x, y)
         /\ Additive /\ A.s # B.s => Copied = Rne!SubUnpackedRne(A.s, x, y)
         /\ call.op = "mul" => Copied = Rne!MulUnpackedRne(ResultSign, x, y)
         /\ call.op = "div" => Copied = Rne!DivUnpackedRne(ResultSign, x, y)
         /\ \A u, exp : Rne!Aligned(u, exp) = Aligned(u, exp)
<1>1. TypeOK /\ ~ IsNaN(A) /\ ~ IsNaN(B)
  BY DEF CInv, RInv, IInv, Nonzero, Finite
<1>2. /\ ~ Rne!AnyNaN(A, B) /\ ~ Rne!IsInf(A) /\ ~ Rne!IsInf(B)
      /\ ~ Rne!IsZero(A) /\ ~ Rne!IsZero(B) /\ Rne!SignOf(A, B) = ResultSign
  BY CopiedClasses DEF Nonzero, Finite, Rne!AnyNaN, Rne!SignOf, ResultSign
<1>3. Rne!Unpack(A) = x /\ Rne!Unpack(B) = y
  BY <1>1, Operands, CopiedUnpack
<1>4. /\ A.s = B.s => Rne!AddRne(A, B) = Rne!AddUnpackedRne(A.s, x, y)
      /\ A.s # B.s => Rne!AddRne(A, B) = Rne!SubUnpackedRne(A.s, x, y)
  BY <1>2, <1>3, Zenon DEF Rne!AddRne, Rne!AddMagnitudesRne, Rne!SubMagnitudesRne
<1>5. Rne!MulRne(A, B) = Rne!MulUnpackedRne(ResultSign, x, y)
  BY <1>2, <1>3, Zenon DEF Rne!MulRne, Rne!MulCoreRne
<1>6. Rne!DivRne(A, B) = Rne!DivUnpackedRne(ResultSign, x, y)
  BY <1>2, <1>3, Zenon DEF Rne!DivRne, Rne!DivCoreRne
<1>7. \A u, exp : Rne!Aligned(u, exp) = Aligned(u, exp)
  BY SameJamming, Zenon DEF Rne!Aligned, Aligned
<1>. QED BY <1>1, <1>4, <1>5, <1>6, <1>7, CopiedOperation

LEMMA AddCopied ==
  ASSUME CInv, RInv', AddMagnitudes
  PROVE  CInv'
<1>. DEFINE x == Unpack(A)
            y == Unpack(B)
            exp == IF x.exp >= y.exp THEN x.exp ELSE y.exp
            sum == Aligned(x, exp) + Aligned(y, exp)
            carry == BitSet(sum, ImplicitAt + 1)
<1>1. pc = "enter" /\ Nonzero /\ Additive /\ A.s = B.s
  BY DEF AddMagnitudes, Nonzero
<1>2. IF carry THEN Working(A.s, exp + 1, ShiftRightJamming(sum, 1)) ELSE Working(A.s, exp, sum)
  BY DEF AddMagnitudes
<1>3. Copied = Rne!AddUnpackedRne(A.s, x, y) /\ \A u, e : Rne!Aligned(u, e) = Aligned(u, e)
  BY <1>1, CopiedMagnitudes
<1>. HIDE DEF x, y
<1>4. Rne!CommonExp(x, y) = exp
  BY DEF Rne!CommonExp
<1>. HIDE DEF exp
<1>5. Rne!AddUnpackedRne(A.s, x, y) = Rne!CarryAndPackRne(A.s, exp, sum)
  BY <1>3, <1>4, Zenon DEF Rne!AddUnpackedRne
<1>6. (Rne!BitSet(sum, Rne!ImplicitAt + 1) <=> carry)
      /\ Rne!ShiftRightJamming(sum, 1) = ShiftRightJamming(sum, 1)
  BY SameHelpers, SameJamming
<1>. HIDE DEF sum, carry
<1>7. Rne!CarryAndPackRne(A.s, exp, sum) =
        IF carry THEN Rne!RoundAndPackRne(A.s, exp + 1, ShiftRightJamming(sum, 1))
        ELSE Rne!RoundAndPackRne(A.s, exp, sum)
  BY <1>6, Zenon DEF Rne!CarryAndPackRne
<1>8. CASE carry
  <2>1. Working(A.s, exp + 1, ShiftRightJamming(sum, 1))
    BY <1>2, <1>8
  <2>2. Copied = Rne!RoundAndPackRne(A.s, exp + 1, ShiftRightJamming(sum, 1))
    BY <1>3, <1>5, <1>7, <1>8
  <2>. QED BY <1>1, <2>1, <2>2, CopyWorking
<1>9. CASE ~ carry
  <2>1. Working(A.s, exp, sum)
    BY <1>2, <1>9
  <2>2. Copied = Rne!RoundAndPackRne(A.s, exp, sum)
    BY <1>3, <1>5, <1>7, <1>9
  <2>. QED BY <1>1, <2>1, <2>2, CopyWorking
<1>. QED BY <1>8, <1>9

LEMMA MultiplyCopied ==
  ASSUME CInv, RInv', Multiply
  PROVE  CInv'
<1>. DEFINE x == Unpack(A)
            y == Unpack(B)
            p == x.sig \div Pow2[GuardBits]
            q == y.sig \div Pow2[GuardBits]
            product == p * q
            carry == BitSet(product, 2 * FracBits + 1)
            c == IF carry THEN 1 ELSE 0
            S == Pow2[FracBits - GuardBits + c]
            e == x.exp + y.exp - Bias
            sig == OrSticky(product \div S, (product % S) # 0)
<1>1. pc = "enter" /\ Nonzero /\ call.op = "mul"
  BY DEF Multiply, Nonzero
<1>2. Working(ResultSign, x.exp + y.exp - Bias + c, sig)
  BY DEF Multiply
<1>3. Copied = Rne!MulUnpackedRne(ResultSign, x, y)
  BY <1>1, CopiedMagnitudes
<1>4. x.exp + y.exp - Bias + c = e + c
  OBVIOUS
<1>5. Rne!Significand(x) = p /\ Rne!Significand(y) = q /\ Rne!Bias = Bias
  BY SameHelpers DEF Rne!Significand
<1>6. Rne!Top(product) = c
  BY SameHelpers, Zenon DEF Rne!Top
<1>7. Rne!MulUnpackedRne(ResultSign, x, y) = Rne!ProductRne(ResultSign, e, product, c)
  <2>. HIDE DEF p, q, c
  <2>. QED BY <1>5, <1>6, Zenon DEF Rne!MulUnpackedRne
<1>8. Rne!ProductRne(ResultSign, e, product, c) = Rne!RoundAndPackRne(ResultSign, e + c, sig)
  <2>. HIDE DEF product, c, e
  <2>. QED BY SameHelpers, Zenon DEF Rne!ProductRne
<1>9. Copied = Rne!RoundAndPackRne(ResultSign, x.exp + y.exp - Bias + c, sig)
  BY <1>3, <1>4, <1>7, <1>8
<1>. HIDE DEF x, y, sig, c
<1>. QED BY <1>1, <1>2, <1>9, CopyWorking

LEMMA DivideCopied ==
  ASSUME CInv, RInv', Divide
  PROVE  CInv'
<1>. DEFINE x == Unpack(A)
            y == Unpack(B)
            e == x.exp - y.exp + Bias
            Sig(n) == OrSticky((n \div SigB) * Pow2[GuardBits - 3], (n % SigB) # 0)
<1>1. pc = "enter" /\ Nonzero /\ call.op = "div" /\ IInv
  BY DEF Divide, Nonzero, CInv, RInv
<1>2. /\ Working(ResultSign, QuotientExp, QuotientSig)
      /\ QuotientSig \in Nat /\ QuotientSig < Pow2[ImplicitAt + 1]
  BY <1>1, QuotientFits
<1>3. Copied = Rne!DivUnpackedRne(ResultSign, x, y)
  BY <1>1, CopiedMagnitudes
<1>4. Rne!DivUnpackedRne(ResultSign, x, y) = Rne!DivSignificandsRne(ResultSign, e, SigA, SigB)
  BY SameHelpers, Zenon DEF Rne!DivUnpackedRne, Rne!Significand, SigA, SigB
<1>5. Rne!DivSignificandsRne(ResultSign, e, SigA, SigB) =
        Rne!QuotientRne(ResultSign, QuotientExp, Dividend, SigB)
  <2>1. /\ A \in Values /\ A.e < ExpMax /\ ~ IsZero(A) /\ B \in Values /\ B.e < ExpMax /\ ~ IsZero(B)
    BY <1>1, Operands DEF IInv
  <2>2. SigA \in Nat
    BY <2>1, UnpackedUnits DEF SigA
  <2>3. x.exp \in Int /\ y.exp \in Int /\ Bias \in Int
    BY <2>1, UnpackNormalises, Widths, Fields
  <2>4. Pow2[FracBits + 4] = 2 * Pow2[FracBits + 3] /\ Pow2[FracBits + 3] \in Nat
    <3>1. FracBits + 3 \in Nat /\ (FracBits + 3) + 1 = FracBits + 4 /\ (FracBits + 3) + 1 <= MaxShift
          /\ FracBits + 3 \in 0..MaxShift
      BY Widths
    <3>. QED BY <3>1, Pow2Step
  <2>5. CASE SigA < SigB
    <3>1. QuotientExp = e - 1
      <4>1. QuotientExp = x.exp - y.exp + Bias - 1
        BY <2>5 DEF QuotientExp
      <4>. HIDE DEF x, y
      <4>. QED BY <2>3, <4>1
    <3>2. Dividend = SigA * Pow2[FracBits + 4]
      <4>1. Dividend = (2 * SigA) * Pow2[FracBits + 3]
        BY <2>5 DEF Dividend
      <4>. DEFINE f == Pow2[FracBits + 3]
      <4>2. f \in Nat /\ Pow2[FracBits + 4] = 2 * f /\ Dividend = (2 * SigA) * f
        BY <2>4, <4>1
      <4>. HIDE DEF f
      <4>. QED BY <2>2, <4>2
    <3>3. Rne!DivSignificandsRne(ResultSign, e, SigA, SigB) =
            Rne!QuotientRne(ResultSign, e - 1, SigA * Pow2[FracBits + 4], SigB)
      BY <2>5, Zenon DEF Rne!DivSignificandsRne
    <3>. QED BY <3>1, <3>2, <3>3
  <2>6. CASE ~ (SigA < SigB)
    <3>1. QuotientExp = e
      <4>1. QuotientExp = x.exp - y.exp + Bias - 0
        BY <2>6 DEF QuotientExp
      <4>. HIDE DEF x, y
      <4>. QED BY <2>3, <4>1
    <3>2. Dividend = SigA * Pow2[FracBits + 3]
      BY <2>6 DEF Dividend
    <3>3. Rne!DivSignificandsRne(ResultSign, e, SigA, SigB) =
            Rne!QuotientRne(ResultSign, e, SigA * Pow2[FracBits + 3], SigB)
      BY <2>6, Zenon DEF Rne!DivSignificandsRne
    <3>. QED BY <3>1, <3>2, <3>3
  <2>. QED BY <2>5, <2>6
<1>6. Rne!QuotientRne(ResultSign, QuotientExp, Dividend, SigB) =
        Rne!CarryAndPackRne(ResultSign, QuotientExp, QuotientSig)
  BY SameHelpers, Zenon DEF Rne!QuotientRne, QuotientSig
<1>7. ~ Rne!BitSet(QuotientSig, Rne!ImplicitAt + 1)
  <2>1. /\ ImplicitAt + 1 \in Nat /\ ImplicitAt + 1 < MaxShift
        /\ (ImplicitAt + 1) + 1 = ImplicitAt + 2
    BY Widths
  <2>2. QuotientSig < Pow2[(ImplicitAt + 1) + 1]
    BY <1>2, <2>1, Layout
  <2>3. BitSet(QuotientSig, ImplicitAt + 1) <=> Pow2[ImplicitAt + 1] <= QuotientSig
    BY <1>2, <2>1, <2>2, TopBit
  <2>. QED BY <1>2, <2>3, Layout, SameHelpers
<1>8. Copied = Rne!RoundAndPackRne(ResultSign, QuotientExp, QuotientSig)
  <2>1. Rne!CarryAndPackRne(ResultSign, QuotientExp, QuotientSig) =
          Rne!RoundAndPackRne(ResultSign, QuotientExp, QuotientSig)
    BY <1>7, Zenon DEF Rne!CarryAndPackRne
  <2>. QED BY <1>3, <1>4, <1>5, <1>6, <2>1
<1>. QED BY <1>1, <1>2, <1>8, CopyWorking

LEMMA RoundCopied ==
  ASSUME CInv, RInv', Round
  PROVE  CInv'
<1>. DEFINE r == RoundAndPack(z.sign, z.exp, z.sig, call.mode)
<1>1. pc = "round" /\ Done(r.res, r.fe) /\ call.mode \in Modes
      /\ z.sign \in {0, 1} /\ z.exp \in Int /\ z.sig \in Nat
  BY DEF Round, CInv, RInv, IInv, TypeOK, Calls
<1>2. call.mode = "RNE" => Copied = r
  BY <1>1 DEF CInv
<1>3. r = [res |-> r.res, fe |-> r.fe]
  BY DEF RoundAndPack, Pack, Overflow
<1>. HIDE DEF r
<1>. QED BY <1>1, <1>2, <1>3, CopyDone

(* The copy subtracts in the order of the operands and looks at the sign   *)
(* of the difference, the original subtracts the smaller from the larger.  *)
LEMMA SubCopied ==
  ASSUME CInv, RInv', SubMagnitudes
  PROVE  CInv'
<1>. DEFINE x == Unpack(A)
            y == Unpack(B)
            e == IF x.exp >= y.exp THEN x.exp ELSE y.exp
            d == Aligned(x, e) - Aligned(y, e)
            shift == Clz(Difference) - 2
            sign == IF Swapped THEN 1 - A.s ELSE A.s
<1>1. pc = "enter" /\ Nonzero /\ Additive /\ A.s # B.s /\ IInv /\ A.s \in {0, 1}
  BY Operands DEF SubMagnitudes, Nonzero, CInv, RInv, IInv
<1>2. IF Difference = 0 THEN Done(SignedZero(ZeroSign), {})
                        ELSE Working(sign, Big.exp - shift, Difference * Pow2[shift])
  BY Zenon DEF SubMagnitudes, Difference, Big, Small, Swapped
<1>3. Copied = Rne!SubUnpackedRne(A.s, x, y) /\ \A u, f : Rne!Aligned(u, f) = Aligned(u, f)
  BY <1>1, CopiedMagnitudes
<1>4. /\ Big.exp \in Int /\ Small.exp \in Int /\ Small.exp <= Big.exp
      /\ x.exp \in Int /\ y.exp \in Int
      /\ Big.sig \in Nat /\ Aligned(Small, Big.exp) \in Nat /\ Difference \in Nat
  BY <1>1, DifferenceRange
<1>5. /\ Swapped => Big = y /\ Small = x /\ y.exp >= x.exp
      /\ ~ Swapped => Big = x /\ Small = y /\ x.exp >= y.exp
  <2>1. Swapped <=> y.exp > x.exp \/ (y.exp = x.exp /\ y.sig > x.sig)
    BY DEF Swapped, Larger
  <2>2. (Swapped => Big = y /\ Small = x) /\ (~ Swapped => Big = x /\ Small = y)
    BY DEF Big, Small
  <2>3. (Swapped => y.exp >= x.exp) /\ (~ Swapped => x.exp >= y.exp)
    <3>. HIDE DEF x, y
    <3>. QED BY <1>4, <2>1
  <2>. QED BY <2>2, <2>3
<1>. HIDE DEF x, y
<1>6. e = Big.exp /\ Rne!CommonExp(x, y) = e
  <2>1. Rne!CommonExp(x, y) = e
    BY DEF Rne!CommonExp
  <2>2. e = Big.exp
    BY <1>4, <1>5
  <2>. QED BY <2>1, <2>2
<1>7. Aligned(Big, Big.exp) = Big.sig
  <2>1. Big.exp - Big.exp = 0
    BY <1>4
  <2>. QED BY <1>4, <2>1, JamZero DEF Aligned
<1>8. d = (IF Swapped THEN -Difference ELSE Difference)
  <2>. DEFINE big == Big.sig
              small == Aligned(Small, Big.exp)
  <2>1. big \in Nat /\ small \in Nat /\ Difference = big - small
    BY <1>4 DEF Difference
  <2>2. CASE Swapped
    <3>1. d = small - big
      BY <1>5, <1>6, <1>7, <2>2
    <3>. HIDE DEF d, big, small
    <3>. QED BY <2>1, <2>2, <3>1
  <2>3. CASE ~ Swapped
    <3>1. d = big - small
      BY <1>5, <1>6, <1>7, <2>3
    <3>. HIDE DEF d, big, small
    <3>. QED BY <2>1, <2>3, <3>1
  <2>. QED BY <2>2, <2>3
<1>9. Copied = Rne!DifferenceRne(A.s, Big.exp, d)
  <2>1. Rne!SubUnpackedRne(A.s, x, y) = Rne!DifferenceRne(A.s, e, d)
    <3>. HIDE DEF e
    <3>. QED BY <1>3, <1>6, Zenon DEF Rne!SubUnpackedRne
  <2>. HIDE DEF d, e
  <2>. QED BY <1>3, <1>6, <2>1
<1>. HIDE DEF d, e
<1>10. CASE Difference = 0
  <2>1. Done(SignedZero(ZeroSign), {})
    BY <1>2, <1>10
  <2>2. d = 0
    <3>1. d \in Int /\ d <= 0 /\ d >= 0
      BY <1>4, <1>8, <1>10
    <3>. QED BY <3>1
  <2>3. Copied = [res |-> SignedZero(0), fe |-> {}]
    BY <1>9, <2>2, SameHelpers DEF Rne!DifferenceRne, Rne!Quietly, Rne!Outcome
  <2>4. call.mode = "RNE" => ZeroSign = 0
    BY DEF ZeroSign
  <2>. QED BY <1>1, <2>1, <2>3, <2>4, CopyDone
<1>11. CASE Difference # 0
  <2>1. Working(sign, Big.exp - shift, Difference * Pow2[shift])
    BY <1>2, <1>11
  <2>2. /\ d \in Int /\ d # 0 /\ (d < 0 <=> Swapped)
        /\ (IF d < 0 THEN -d ELSE d) = Difference
    BY <1>4, <1>8, <1>11
  <2>3. Rne!DifferenceRne(A.s, Big.exp, d) =
          Rne!NormalizeAndPackRne(sign, Big.exp, Difference, Rne!Clz(Difference) - 2)
    BY <2>2, Zenon DEF Rne!DifferenceRne
  <2>4. Rne!Clz(Difference) - 2 = shift
    BY SameHelpers
  <2>. HIDE DEF sign, shift
  <2>5. Rne!NormalizeAndPackRne(sign, Big.exp, Difference, shift) =
          Rne!RoundAndPackRne(sign, Big.exp - shift, Difference * Pow2[shift])
    BY Zenon DEF Rne!NormalizeAndPackRne
  <2>6. Copied = Rne!RoundAndPackRne(sign, Big.exp - shift, Difference * Pow2[shift])
    BY <1>9, <2>3, <2>4, <2>5
  <2>. QED BY <1>1, <2>1, <2>6, CopyWorking
<1>. QED BY <1>10, <1>11

LEMMA CopiesInit == Init => CInv
<1>. SUFFICES ASSUME Init PROVE CInv
  OBVIOUS
<1>1. RInv
  BY AnswersInit
<1>. QED BY <1>1 DEF Init, CInv

LEMMA CopiesInductive == CInv /\ [Next]_vars => CInv'
<1>. SUFFICES ASSUME CInv, [Next]_vars PROVE CInv'
  OBVIOUS
<1>1. RInv'
  BY AnswersInductive DEF CInv
<1>2. CASE UNCHANGED vars
  BY <1>1, <1>2 DEF vars, CInv, Copied
<1>3. CASE NaNOperand
  BY <1>1, <1>3, NaNCopied
<1>4. CASE InfiniteSum \/ InfiniteProduct \/ InfiniteQuotient
  BY <1>1, <1>4, InfiniteCopied
<1>5. CASE ZeroSum \/ ZeroProduct \/ ZeroQuotient
  BY <1>1, <1>5, ZeroCopied
<1>6. CASE AddMagnitudes
  BY <1>1, <1>6, AddCopied
<1>7. CASE SubMagnitudes
  BY <1>1, <1>7, SubCopied
<1>8. CASE Multiply
  BY <1>1, <1>8, MultiplyCopied
<1>9. CASE Divide
  BY <1>1, <1>9, DivideCopied
<1>10. CASE Round
  BY <1>1, <1>10, RoundCopied
<1>. QED BY <1>2, <1>3, <1>4, <1>5, <1>6, <1>7, <1>8, <1>9, <1>10 DEF Next

(* internal_arith.h:20 promises inlined copies that are "Bits-in-bits-out  *)
(* identical for every input": for every format, in round-to-nearest-even  *)
(* they return the value and raise the flags of the entries of             *)
(* arithmetic.cpp, with either NaN policy.                                 *)
THEOREM RneIdenticalAlways == Spec => []RneIdentical
<1>1. CInv => RneIdentical
  BY DEF CInv, Copied, RneIdentical
<1>. QED BY <1>1, CopiesInit, CopiesInductive, PTL DEF Spec
=============================================================================

---------------------------- MODULE Fma64Proofs ----------------------------
(***************************************************************************)
(* Proofs about Fma64, for every format and all operands: the frame has    *)
(* room for both operands and their sum, so that no carry is lost, and     *)
(* what is rounded is never zero and gives a value of the format; it is    *)
(* the exact sum rounded once, and the copy of internal_arith.h agrees.    *)
(***************************************************************************)
EXTENDS Fma64, Rounding64Proofs

TypeOK ==
  /\ a \in Values /\ b \in Values /\ c \in Values /\ mode \in Modes
  /\ pc \in {"enter", "round", "done"}
  /\ fe \subseteq FlagSet /\ res \in Values

(* A frame that is handed to the rounding.                                 *)
Framed ==
  pc = "round" => /\ z.sign \in {0, 1} /\ z.exp \in Int
                  /\ z.mag \in Nat /\ z.mag >= 1 /\ z.mag < Pow2[FrameBits]

IInv == TypeOK /\ Framed

---------------------------------------------------------------------------
LEMMA FrameWidths ==
  /\ FrameBits \in Nat /\ FrameBits >= 2 * FracBits + 5 /\ FrameBits < MaxShift
  /\ \A n \in 0..(FrameBits + 1) : n \in Nat /\ n <= MaxShift /\ Pow2[n] \in Nat /\ Pow2[n] >= 1
<1>1. FrameBits \in Nat /\ FrameBits >= 2 * FracBits + 5 /\ FrameBits < MaxShift
  BY FrameAssumption DEF FrameAssumption
<1>2. \A n \in 0..(FrameBits + 1) : n \in 0..MaxShift
  BY <1>1, Widths
<1>. QED BY <1>1, <1>2, Pow2Positive

(* A positive number has a highest bit.                                    *)
LEMMA HighestBitOf ==
  ASSUME NEW x \in Nat, x >= 1, x < Pow2[FrameBits]
  PROVE  /\ HighestBit(x) \in 0..(FrameBits - 1)
         /\ Pow2[HighestBit(x)] <= x /\ x < Pow2[HighestBit(x) + 1]
<1>. DEFINE Above == {n \in 0..FrameBits : x < Pow2[n]}
<1>1. Above \subseteq Nat /\ FrameBits \in Above
  BY FrameWidths
<1>2. PICK n \in Above : \A y \in Above : n <= y
  <2>. HIDE DEF Above
  <2>. QED BY <1>1, Least
<1>3. n \in 0..FrameBits /\ x < Pow2[n]
  BY <1>2
<1>4. n # 0
  BY <1>3, Pow2Step
<1>5. Pow2[n - 1] <= x
  <2>1. n - 1 \in 0..FrameBits /\ n - 1 \notin Above
    BY <1>2, <1>3, <1>4, FrameWidths
  <2>2. Pow2[n - 1] \in Nat
    BY <2>1, FrameWidths
  <2>. QED BY <2>1, <2>2
<1>. DEFINE h == n - 1
<1>6. h \in 0..FrameBits /\ Pow2[h] <= x /\ x < Pow2[h + 1]
  BY <1>3, <1>4, <1>5, FrameWidths
<1>7. /\ HighestBit(x) \in 0..FrameBits
      /\ Pow2[HighestBit(x)] <= x /\ x < Pow2[HighestBit(x) + 1]
  <2>. HIDE DEF h
  <2>. QED BY <1>6 DEF HighestBit
<1>8. HighestBit(x) # FrameBits
  BY <1>7, FrameWidths
<1>. QED BY <1>7, <1>8, FrameWidths

(* The magnitudes that are laid into a frame, and where they are laid.     *)
LEMMA Magnitudes ==
  ASSUME TypeOK, Finite, ~ ZeroProduct
  PROVE  /\ Product \in Nat /\ Product >= 1 /\ Product < Pow2[FrameBits]
         /\ HighestBit(Product) \in 0..(2 * FracBits + 1) /\ Product < Pow2[HighestBit(Product) + 1]
         /\ ProductExp \in Int
         /\ ~ IsZero(c) =>
              /\ Mantissa(c) \in Nat /\ Mantissa(c) >= 1 /\ Mantissa(c) < Pow2[FracBits + 1]
              /\ Exponent(c) \in Int
<1>1. ASSUME NEW v \in Values, ~ IsNaN(v), ~ IsInf(v), ~ IsZero(v)
      PROVE  /\ Mantissa(v) \in Nat /\ Pow2[FracBits] <= Mantissa(v)
             /\ Mantissa(v) < Pow2[FracBits + 1] /\ Exponent(v) \in Int
  <2>1. v.e < ExpMax
    BY <1>1, Fields DEF Values, IsNaN, IsInf
  <2>2. Unpack(v).exp \in (1 - FracBits)..(ExpMax - 1)
    BY <1>1, <2>1, UnpackNormalises
  <2>. QED BY <1>1, <2>1, <2>2, Significand, Fields, Widths DEF Mantissa, Exponent
<1>2. /\ a \in Values /\ ~ IsNaN(a) /\ ~ IsInf(a) /\ ~ IsZero(a)
      /\ b \in Values /\ ~ IsNaN(b) /\ ~ IsInf(b) /\ ~ IsZero(b)
      /\ c \in Values /\ ~ IsNaN(c) /\ ~ IsInf(c)
  BY DEF TypeOK, Finite, Numbers, AnyNaN, ZeroProduct
<1>3. Pow2[FracBits] \in Nat /\ Pow2[FracBits] >= 1 /\ Pow2[FracBits + 1] \in Nat
  BY Widths, FrameWidths
<1>. DEFINE x == Mantissa(a)
            y == Mantissa(b)
            u == Pow2[FracBits]
            w == Pow2[FracBits + 1]
<1>4. /\ x \in Nat /\ y \in Nat /\ u <= x /\ x < w /\ u <= y /\ y < w
      /\ Exponent(a) \in Int /\ Exponent(b) \in Int /\ u \in Nat /\ u >= 1 /\ w \in Nat
  BY <1>1, <1>2, <1>3
<1>5. /\ 2 * FracBits + 2 \in Nat /\ 2 * FracBits + 2 <= FrameBits
      /\ (FracBits + 1) + (FracBits + 1) = 2 * FracBits + 2
      /\ 2 * FracBits + 2 \in 0..(FrameBits + 1) /\ FracBits + 1 \in Nat
      /\ (FracBits + 1) + (FracBits + 1) <= MaxShift
  BY Widths, FrameWidths
<1>6. Pow2[2 * FracBits + 2] = w * w
  BY <1>5, Pow2Sum
<1>7. x * y \in Nat /\ x * y >= 1 /\ x * y < w * w
  <2>. HIDE DEF x, y, u, w
  <2>1. x * y <= x * w /\ x * w < w * w
    BY <1>4
  <2>2. x * y >= 1 * 1
    BY <1>4
  <2>. QED BY <1>4, <2>1, <2>2
<1>8. Product = x * y
  BY DEF Product
<1>. HIDE DEF x, y, w
<1>9. Product \in Nat /\ Product >= 1 /\ Product < Pow2[2 * FracBits + 2]
  BY <1>6, <1>7, <1>8
<1>10. Pow2[2 * FracBits + 2] <= Pow2[FrameBits] /\ Pow2[FrameBits] \in Nat
       /\ Pow2[2 * FracBits + 2] \in Nat
  BY <1>5, FrameWidths, Pow2Monotone
<1>11. Product < Pow2[FrameBits]
  BY <1>9, <1>10
<1>12. /\ HighestBit(Product) \in 0..(FrameBits - 1)
       /\ Pow2[HighestBit(Product)] <= Product /\ Product < Pow2[HighestBit(Product) + 1]
  BY <1>9, <1>11, HighestBitOf
<1>. DEFINE h == HighestBit(Product)
<1>. HIDE DEF h
<1>13. h <= 2 * FracBits + 1
  <2>1. SUFFICES ASSUME 2 * FracBits + 2 <= h PROVE FALSE
    BY <1>5, <1>12, Widths DEF h
  <2>2. h \in Nat /\ h <= MaxShift /\ Pow2[h] \in Nat
    BY <1>12, FrameWidths DEF h
  <2>3. Pow2[2 * FracBits + 2] <= Pow2[h]
    BY <1>5, <2>1, <2>2, Pow2Monotone
  <2>. QED BY <1>9, <1>10, <1>12, <2>2, <2>3 DEF h
<1>14. ProductExp \in Int
  BY <1>4, Widths DEF ProductExp
<1>15. ~ IsZero(c) => /\ Mantissa(c) \in Nat /\ Mantissa(c) >= 1 /\ Mantissa(c) < Pow2[FracBits + 1]
                      /\ Exponent(c) \in Int
  BY <1>1, <1>2, <1>3
<1>. QED BY <1>9, <1>11, <1>12, <1>13, <1>14, <1>15, Widths DEF h

(* A magnitude whose highest bit is at most two below the top is laid      *)
(* below the two headroom bits, and never becomes zero.                    *)
LEMMA LaidFits ==
  ASSUME NEW mag \in Nat, mag >= 1, NEW h \in 0..(FrameBits - 2), mag < Pow2[h + 1],
         NEW exp \in Int, FrameTop \in Int, exp + h <= FrameTop - 2
  PROVE  Laid(mag, exp) \in Nat /\ Laid(mag, exp) >= 1 /\ Laid(mag, exp) < Pow2[FrameBits - 2]
<1>. DEFINE right == FrameExp - exp
            top == FrameBits - 2
<1>1. /\ right \in Int /\ h + 1 - right <= top /\ top \in Nat /\ top >= 1 /\ h + 1 \in Nat
      /\ h + 1 <= FrameBits /\ top - 1 \in Nat /\ top <= MaxShift /\ top \in 0..(FrameBits + 1)
      /\ top - 1 \in 0..(FrameBits + 1)
  BY FrameWidths, Widths DEF FrameExp
<1>. HIDE DEF right
<1>2. Pow2[top] = 2 * Pow2[top - 1] /\ Pow2[top - 1] \in Nat /\ Pow2[top - 1] >= 1
  <2>1. Pow2[(top - 1) + 1] = 2 * Pow2[top - 1] /\ (top - 1) + 1 = top
    BY <1>1, Pow2Step
  <2>. QED BY <1>1, <2>1, FrameWidths
<1>3. Pow2[h + 1] \in Nat /\ Pow2[top] \in Nat
  BY <1>1, FrameWidths
<1>4. CASE right <= 0
  <2>. DEFINE k == -right
  <2>1. k \in Nat /\ (h + 1) + k <= top /\ h + 1 <= MaxShift
    BY <1>1, <1>4, FrameWidths
  <2>2. Laid(mag, exp) = mag * Pow2[k]
    BY <1>4 DEF Laid, right
  <2>. HIDE DEF k, top
  <2>3. mag * Pow2[k] \in Nat /\ mag * Pow2[k] < Pow2[top] /\ mag <= mag * Pow2[k]
    BY <1>1, <2>1, ShiftedBelow
  <2>. DEFINE y == mag * Pow2[k]
  <2>4. y \in Nat /\ y < Pow2[top] /\ mag <= y /\ Laid(mag, exp) = y
    BY <2>2, <2>3
  <2>. HIDE DEF y
  <2>. QED BY <2>4 DEF top
<1>5. CASE right >= FrameBits
  <2>1. Laid(mag, exp) = 1
    BY <1>1, <1>5, FrameWidths DEF Laid, right
  <2>. QED BY <1>2, <2>1
<1>6. CASE right > 0 /\ right < FrameBits
  <2>. DEFINE P == Pow2[right]
              y == mag \div P
              lost == (mag % P) # 0
  <2>1. P \in Nat /\ P >= 1 /\ right \in Nat /\ right \in 0..(FrameBits + 1)
    BY <1>1, <1>6, FrameWidths
  <2>2. Laid(mag, exp) = OrSticky(y, lost) /\ lost \in BOOLEAN
    <3>1. lost \in BOOLEAN
      OBVIOUS
    <3>2. ~ (right <= 0) /\ ~ (right >= FrameBits)
      BY <1>1, <1>6, FrameWidths
    <3>3. Laid(mag, exp) = OrSticky(y, lost)
      BY <3>2, Zenon DEF Laid, right
    <3>. QED BY <3>1, <3>3
  <2>3. y \in Nat /\ mag = P * y + (mag % P) /\ mag % P \in 0..(P - 1)
    <3>. HIDE DEF P
    <3>. QED BY <2>1
  <2>4. y < Pow2[top]
    BY <1>1, <1>6, <2>1, FrameWidths, QuotientBelow
  <2>5. y >= 1 \/ lost
    <3>. HIDE DEF P
    <3>1. y = 0 => mag = mag % P
      <4>. HIDE DEF y
      <4>1. y = 0 => P * y = 0
        BY <2>1
      <4>. QED BY <2>3, <4>1
    <3>. QED BY <2>3, <3>1
  <2>. HIDE DEF y, lost
  <2>6. /\ OrSticky(y, lost) \in Nat /\ y <= OrSticky(y, lost)
        /\ OrSticky(y, lost) < 2 * Pow2[top - 1]
    BY <1>2, <2>2, <2>3, <2>4, StickyBound
  <2>7. OrSticky(y, lost) >= 1
    BY <2>3, <2>5, <2>6 DEF OrSticky
  <2>. QED BY <1>2, <2>2, <2>6, <2>7
<1>. QED BY <1>1, <1>4, <1>5, <1>6, FrameWidths

---------------------------------------------------------------------------
(* Both operands of a sum are laid below the two headroom bits.            *)
LEMMA LaidOperands ==
  ASSUME TypeOK, Finite, ~ ZeroProduct, ~ IsZero(c)
  PROVE  /\ Laid(Product, ProductExp) \in 1..(Pow2[FrameBits - 2] - 1)
         /\ Laid(Mantissa(c), Exponent(c) - FracBits) \in 1..(Pow2[FrameBits - 2] - 1)
         /\ Pow2[FrameBits - 2] \in Nat /\ Pow2[FrameBits] = 4 * Pow2[FrameBits - 2]
         /\ FrameExp \in Int
<1>. DEFINE h == HighestBit(Product)
            e == Exponent(c)
            m == Mantissa(c)
<1>1. /\ Product \in Nat /\ Product >= 1 /\ h \in 0..(2 * FracBits + 1)
      /\ Product < Pow2[h + 1] /\ ProductExp \in Int
      /\ m \in Nat /\ m >= 1 /\ m < Pow2[FracBits + 1] /\ e \in Int
  BY Magnitudes
<1>. DEFINE x == ProductExp + h
            top == IF x > e THEN x ELSE e
<1>2. FrameTop = top + 2
  BY DEF FrameTop
<1>. HIDE DEF h, e, m
<1>3. /\ FrameTop \in Int /\ ProductExp + h <= FrameTop - 2
      /\ (e - FracBits) + FracBits <= FrameTop - 2 /\ e - FracBits \in Int
      /\ h \in 0..(FrameBits - 2) /\ FracBits \in 0..(FrameBits - 2)
  BY <1>1, <1>2, Widths, FrameWidths
<1>4. Pow2[FrameBits - 2] \in Nat /\ Pow2[FrameBits] = 4 * Pow2[FrameBits - 2]
  <2>1. /\ FrameBits - 2 \in Nat /\ (FrameBits - 2) + 1 <= MaxShift
        /\ ((FrameBits - 2) + 1) + 1 <= MaxShift /\ ((FrameBits - 2) + 1) + 1 = FrameBits
        /\ (FrameBits - 2) + 1 \in Nat /\ FrameBits - 2 \in 0..(FrameBits + 1)
    BY FrameWidths, Widths
  <2>2. /\ Pow2[(FrameBits - 2) + 1] = 2 * Pow2[FrameBits - 2]
        /\ Pow2[((FrameBits - 2) + 1) + 1] = 2 * Pow2[(FrameBits - 2) + 1]
    BY <2>1, Pow2Step
  <2>. QED BY <2>1, <2>2, FrameWidths
<1>5. /\ Laid(Product, ProductExp) \in Nat /\ Laid(Product, ProductExp) >= 1
      /\ Laid(Product, ProductExp) < Pow2[FrameBits - 2]
  BY <1>1, <1>3, LaidFits
<1>6. /\ Laid(m, e - FracBits) \in Nat /\ Laid(m, e - FracBits) >= 1
      /\ Laid(m, e - FracBits) < Pow2[FrameBits - 2]
  BY <1>1, <1>3, LaidFits
<1>7. FrameExp \in Int
  BY <1>3, FrameWidths DEF FrameExp
<1>. QED BY <1>4, <1>5, <1>6, <1>7 DEF m, e

LEMMA FrameRoom == TypeOK => FrameFits
<1>. SUFFICES ASSUME TypeOK, pc = "enter", Finite, ~ ZeroProduct, ~ IsZero(c)
              PROVE  /\ Laid(Product, ProductExp) < Pow2[FrameBits - 2]
                     /\ Laid(Mantissa(c), Exponent(c) - FracBits) < Pow2[FrameBits - 2]
  BY DEF FrameFits
<1>. QED BY LaidOperands

---------------------------------------------------------------------------
(* Steps that deliver a value, and steps that hand on a frame.             *)
LEMMA DoneStep ==
  ASSUME IInv, NEW v \in Values, NEW flags \in SUBSET FlagSet, Done(v, flags)
  PROVE  IInv'
  BY DEF IInv, TypeOK, Framed, Done

LEMMA CombineStep ==
  ASSUME IInv, Combine
  PROVE  IInv'
<1>. DEFINE p == Laid(Product, ProductExp)
            r == Laid(Mantissa(c), Exponent(c) - FracBits)
            half == Pow2[FrameBits - 2]
<1>1. TypeOK /\ Finite /\ ~ ZeroProduct /\ ~ IsZero(c) /\ pc = "enter"
  BY DEF Combine, IInv, Finite, Numbers
<1>2. /\ p \in 1..(half - 1) /\ r \in 1..(half - 1) /\ half \in Nat
      /\ Pow2[FrameBits] = 4 * half /\ FrameExp \in Int
  BY <1>1, LaidOperands
<1>3. ProductSign \in {0, 1} /\ c.s \in {0, 1} /\ ZeroSign \in {0, 1}
  <2>1. a.s \in {0, 1} /\ b.s \in {0, 1} /\ c.s \in {0, 1}
    BY <1>1 DEF TypeOK, Values
  <2>. QED BY <2>1 DEF ProductSign, ZeroSign
<1>4. \/ Frame(c.s, (p + r) % Pow2[FrameBits], FrameExp)
      \/ Done(SignedZero(ZeroSign), {})
      \/ p > r /\ Frame(ProductSign, p - r, FrameExp)
      \/ ~ (p > r) /\ p # r /\ Frame(c.s, r - p, FrameExp)
  BY DEF Combine
<1>. HIDE DEF p, r, half
<1>5. \A sign \in {0, 1}, mag \in 1..(Pow2[FrameBits] - 1) :
         Frame(sign, mag, FrameExp) => IInv'
  <2>. SUFFICES ASSUME NEW sign \in {0, 1}, NEW mag \in 1..(Pow2[FrameBits] - 1),
                       Frame(sign, mag, FrameExp)
                PROVE  IInv'
    OBVIOUS
  <2>1. TypeOK'
    BY <1>1 DEF TypeOK, Frame
  <2>2. z'.sign = sign /\ z'.mag = mag /\ z'.exp = FrameExp
    BY DEF Frame
  <2>3. Framed'
    BY <1>2, <2>2 DEF Framed
  <2>. QED BY <2>1, <2>3 DEF IInv
<1>6. (p + r) % Pow2[FrameBits] = p + r
  <2>1. (p + r) % (4 * half) = p + r
    BY <1>2
  <2>. QED BY <1>2, <2>1
<1>7. CASE Frame(c.s, (p + r) % Pow2[FrameBits], FrameExp)
  <2>1. p + r \in 1..(Pow2[FrameBits] - 1)
    BY <1>2
  <2>. QED BY <1>3, <1>5, <1>6, <1>7, <2>1
<1>8. CASE Done(SignedZero(ZeroSign), {})
  <2>1. SignedZero(ZeroSign) \in Values
    BY <1>3, SpecialResults
  <2>. QED BY <1>8, <2>1, DoneStep
<1>9. CASE p > r /\ Frame(ProductSign, p - r, FrameExp)
  <2>1. p - r \in 1..(Pow2[FrameBits] - 1)
    BY <1>2, <1>9
  <2>. QED BY <1>3, <1>5, <1>9, <2>1
<1>10. CASE ~ (p > r) /\ p # r /\ Frame(c.s, r - p, FrameExp)
  <2>1. r - p \in 1..(Pow2[FrameBits] - 1)
    BY <1>2, <1>10
  <2>. QED BY <1>3, <1>5, <1>10, <2>1
<1>. QED BY <1>4, <1>7, <1>8, <1>9, <1>10

---------------------------------------------------------------------------
(* What is left above the rounding position is a number; below the normal  *)
(* range it is less than an implicit bit.                                  *)
LEMMA TruncatedWidth ==
  ASSUME IInv, pc = "round", Subnormal => TargetLsb < FrameBits
  PROVE  /\ Truncated \in Nat /\ Biased \in Int
         /\ Subnormal => Truncated < ImplicitBit
<1>1. z.exp \in Int /\ z.mag \in Nat /\ z.mag >= 1 /\ z.mag < Pow2[FrameBits]
  BY DEF IInv, Framed
<1>. DEFINE h == HighestBit(z.mag)
            t == TargetLsb
<1>2. h \in 0..(FrameBits - 1) /\ z.mag < Pow2[h + 1]
  BY <1>1, HighestBitOf
<1>. HIDE DEF h
<1>3. Biased \in Int /\ Biased = z.exp + h + Bias
  BY <1>1, <1>2, Fields, FrameWidths DEF Biased, h
<1>4. t = IF Biased < 1 THEN 1 - Bias - FracBits - z.exp ELSE h - FracBits
  BY DEF TargetLsb, LeastExp, Subnormal, h
<1>5. /\ t \in Int /\ t < FrameBits /\ h + 1 \in Nat /\ h + 1 <= MaxShift
      /\ -t <= FracBits
      /\ Biased < 1 => (h + 1) - t <= FracBits
  <2>1. CASE Biased < 1
    <3>1. t < FrameBits
      BY <2>1 DEF Subnormal
    <3>. QED BY <1>1, <1>2, <1>3, <1>4, <2>1, <3>1, Fields, Widths, FrameWidths
  <2>2. CASE ~ (Biased < 1)
    BY <1>1, <1>2, <1>3, <1>4, <2>2, Fields, Widths, FrameWidths
  <2>. QED BY <2>1, <2>2
<1>. HIDE DEF t
<1>. DEFINE top == IF Biased < 1 THEN FracBits ELSE FrameBits + FracBits + 1
<1>6. Truncated = IF t <= 0 THEN z.mag * Pow2[-t] ELSE z.mag \div Pow2[t]
  BY DEF Truncated, t
<1>7. Truncated \in Nat
  <2>1. CASE t <= 0
    <3>1. Pow2[-t] \in Nat
      BY <1>5, <2>1, Widths, FrameWidths
    <3>. QED BY <1>1, <1>6, <2>1, <3>1
  <2>2. CASE t > 0
    <3>1. Pow2[t] \in Nat /\ Pow2[t] >= 1
      BY <1>5, <2>2, FrameWidths
    <3>2. z.mag \div Pow2[t] \in Nat
      BY <1>1, <3>1
    <3>. QED BY <1>5, <1>6, <2>2, <3>2
  <2>. QED BY <1>5, <2>1, <2>2
<1>8. ASSUME Subnormal PROVE Truncated < ImplicitBit
  <2>1. (h + 1) - t <= FracBits /\ FracBits \in Nat /\ FracBits <= MaxShift
    BY <1>5, <1>8, Widths DEF Subnormal
  <2>2. CASE t <= 0
    <3>. DEFINE k == -t
    <3>1. k \in Nat /\ (h + 1) + k <= FracBits
      BY <1>5, <2>1, <2>2
    <3>. HIDE DEF k
    <3>2. z.mag * Pow2[k] < Pow2[FracBits]
      BY <1>1, <1>2, <1>5, <2>1, <3>1, ShiftedBelow
    <3>. QED BY <1>6, <2>2, <3>2, Fields DEF k
  <2>3. CASE t > 0
    <3>1. t \in Nat /\ t <= MaxShift
      BY <1>5, <2>3, FrameWidths
    <3>2. z.mag \div Pow2[t] < Pow2[FracBits]
      BY <1>1, <1>2, <1>5, <2>1, <3>1, QuotientBelow
    <3>. QED BY <1>5, <1>6, <2>3, <3>2, Fields
  <2>. QED BY <1>5, <2>2, <2>3
<1>. QED BY <1>3, <1>7, <1>8

LEMMA RoundStep ==
  ASSUME IInv, RoundFarBelow \/ RoundSubnormal \/ RoundNormal
  PROVE  IInv'
<1>1. /\ pc = "round" /\ z.sign \in {0, 1} /\ mode \in Modes
  BY DEF IInv, TypeOK, Framed, RoundFarBelow, RoundSubnormal, RoundNormal
<1>2. ImplicitBit \in Nat /\ ImplicitBit >= 2
  <2>1. 0 + 1 <= MaxShift /\ 1 <= FracBits /\ FracBits <= MaxShift /\ FracBits \in Nat
    BY Widths
  <2>2. Pow2[0 + 1] = 2 * Pow2[0]
    BY <2>1, Pow2Step
  <2>3. Pow2[1] <= Pow2[FracBits]
    BY <2>1, Pow2Monotone
  <2>. QED BY <2>2, <2>3, Pow2Step, Fields
<1>3. \A m \in Nat : Stored(m) \in 0..(ImplicitBit - 1)
  BY <1>2 DEF Stored
<1>4. CASE RoundFarBelow
  <2>. DEFINE away == (mode = "RUP" /\ z.sign = 0) \/ (mode = "RDN" /\ z.sign = 1)
              f == IF away THEN 1 ELSE 0
              v == [s |-> z.sign, e |-> 0, f |-> f]
  <2>1. Done(v, {"underflow", "inexact"})
    BY <1>4 DEF RoundFarBelow
  <2>2. f \in 0..(ImplicitBit - 1)
    BY <1>2
  <2>. HIDE DEF f
  <2>3. v \in Values
    BY <1>1, <2>2, Fields DEF Values
  <2>4. {"underflow", "inexact"} \in SUBSET FlagSet
    BY DEF FlagSet
  <2>. HIDE DEF v
  <2>. QED BY <2>1, <2>3, <2>4, DoneStep
<1>5. CASE RoundSubnormal
  <2>. DEFINE m == RoundedMantissa
              v == [s |-> z.sign, e |-> m \div ImplicitBit, f |-> Stored(m)]
              flags == IF FrameRoundBit \/ FrameSticky THEN {"underflow", "inexact"} ELSE {}
  <2>1. Done(v, flags) /\ Subnormal /\ TargetLsb < FrameBits
    BY <1>5 DEF RoundSubnormal
  <2>2. Truncated \in Nat /\ Truncated < ImplicitBit
    BY <1>1, <2>1, TruncatedWidth
  <2>3. m \in Nat /\ m <= ImplicitBit
    BY <1>2, <2>2 DEF RoundedMantissa
  <2>. HIDE DEF m
  <2>4. m \div ImplicitBit \in 0..ExpMax
    <3>1. CASE m = ImplicitBit
      <4>1. m \div ImplicitBit = 1
        BY <1>2, <3>1
      <4>. QED BY <4>1, Fields
    <3>2. CASE m < ImplicitBit
      <4>1. m \div ImplicitBit = 0
        BY <1>2, <2>3, <3>2
      <4>. QED BY <4>1, Fields
    <3>. QED BY <1>2, <2>3, <3>1, <3>2
  <2>5. v \in Values
    BY <1>1, <1>3, <2>3, <2>4 DEF Values
  <2>6. flags \in SUBSET FlagSet
    BY DEF FlagSet
  <2>. HIDE DEF v, flags
  <2>. QED BY <2>1, <2>5, <2>6, DoneStep
<1>6. CASE RoundNormal
  <2>. DEFINE carry == BitSet(RoundedMantissa, FracBits + 1)
              field == IF carry THEN Biased + 1 ELSE Biased
              o == Overflow(z.sign, mode)
              v == [s |-> z.sign, e |-> field, f |-> Stored(RoundedMantissa)]
              flags == IF FrameRoundBit \/ FrameSticky THEN {"inexact"} ELSE {}
  <2>1. ~ Subnormal /\ IF Biased >= ExpMax \/ field >= ExpMax THEN Done(o.res, o.fe) ELSE Done(v, flags)
    BY <1>6 DEF RoundNormal
  <2>2. Truncated \in Nat /\ Biased \in Int /\ Biased >= 1
    <3>1. Truncated \in Nat /\ Biased \in Int
      BY <1>1, <2>1, TruncatedWidth
    <3>. QED BY <2>1, <3>1 DEF Subnormal
  <2>3. RoundedMantissa \in Nat
    BY <2>2 DEF RoundedMantissa
  <2>4. o.res \in Values /\ o.fe \in SUBSET FlagSet
    BY <1>1, OverflowType
  <2>5. flags \in SUBSET FlagSet
    BY DEF FlagSet
  <2>. HIDE DEF carry, o, flags
  <2>6. ASSUME ~ (Biased >= ExpMax \/ field >= ExpMax) PROVE v \in Values
    <3>1. field \in 0..ExpMax
      BY <2>2, <2>6, Fields
    <3>. HIDE DEF field
    <3>. QED BY <1>1, <1>3, <2>3, <3>1 DEF Values
  <2>. HIDE DEF field, v
  <2>. QED BY <2>1, <2>4, <2>5, <2>6, DoneStep
<1>. QED BY <1>4, <1>5, <1>6

LEMMA SpecialStep ==
  ASSUME IInv, Undefined \/ NaNOperand \/ InfiniteProduct \/ InfiniteAddend \/ AddendOnly
  PROVE  IInv'
<1>1. a \in Values /\ b \in Values /\ c \in Values /\ a.s \in {0, 1} /\ b.s \in {0, 1} /\ c.s \in {0, 1}
  BY DEF IInv, TypeOK, Values
<1>2. ProductSign \in {0, 1} /\ ZeroSign \in {0, 1}
  BY <1>1 DEF ProductSign, ZeroSign
<1>3. {"invalid"} \in SUBSET FlagSet /\ {} \in SUBSET FlagSet
  BY DEF FlagSet
<1>4. CASE Undefined
  BY <1>3, <1>4, SpecialResults, DoneStep DEF Undefined
<1>5. CASE NaNOperand
  <2>. DEFINE v == IF IsNaN(a) \/ IsNaN(b) THEN PropagateNaN(a, b) ELSE Quiet(c)
              flags == IF IsSNaN(a) \/ IsSNaN(b) \/ IsSNaN(c) THEN {"invalid"} ELSE {}
  <2>1. Done(v, flags) /\ AnyNaN
    BY <1>5 DEF NaNOperand
  <2>2. v \in Values
    <3>1. IsNaN(c) => PropagateNaN(c, c) = Quiet(c)
      BY DEF PropagateNaN
    <3>2. PropagateNaN(c, c) \in Values /\ PropagateNaN(a, b) \in Values
      BY <1>1, SpecialResults
    <3>. QED BY <2>1, <3>1, <3>2 DEF AnyNaN
  <2>3. flags \in SUBSET FlagSet
    BY <1>3
  <2>. HIDE DEF v, flags
  <2>. QED BY <2>1, <2>2, <2>3, DoneStep
<1>6. CASE InfiniteProduct
  BY <1>2, <1>3, <1>6, SpecialResults, DoneStep DEF InfiniteProduct
<1>7. CASE InfiniteAddend
  BY <1>1, <1>3, <1>7, SpecialResults, DoneStep DEF InfiniteAddend
<1>8. CASE AddendOnly
  <2>. DEFINE v == IF ~IsZero(c) THEN c
                   ELSE SignedZero(IF ProductSign = c.s THEN c.s ELSE ZeroSign)
  <2>1. v \in Values
    BY <1>1, <1>2, SpecialResults
  <2>2. Done(v, {})
    BY <1>8 DEF AddendOnly
  <2>. HIDE DEF v
  <2>. QED BY <1>3, <2>1, <2>2, DoneStep
<1>. QED BY <1>4, <1>5, <1>6, <1>7, <1>8

LEMMA ProductOnlyStep ==
  ASSUME IInv, ProductOnly
  PROVE  IInv'
<1>1. TypeOK /\ Finite /\ ~ ZeroProduct
  BY DEF IInv, ProductOnly
<1>2. /\ Product \in Nat /\ Product >= 1 /\ Product < Pow2[FrameBits] /\ ProductExp \in Int
  BY <1>1, Magnitudes
<1>3. ProductSign \in {0, 1}
  BY <1>1 DEF TypeOK, Values, ProductSign
<1>4. z' = [sign |-> ProductSign, mag |-> Product, exp |-> ProductExp]
  BY DEF ProductOnly, Frame
<1>5. TypeOK'
  BY <1>1 DEF TypeOK, ProductOnly, Frame
<1>6. Framed'
  BY <1>2, <1>3, <1>4 DEF Framed
<1>. QED BY <1>5, <1>6 DEF IInv

LEMMA TypeInit == Init => IInv
  BY SpecialResults DEF Init, IInv, TypeOK, Framed, FlagSet

LEMMA Inductive == IInv /\ [Next]_vars => IInv'
<1>. SUFFICES ASSUME IInv, [Next]_vars PROVE IInv'
  OBVIOUS
<1>1. CASE UNCHANGED vars
  BY <1>1 DEF vars, IInv, TypeOK, Framed
<1>. QED BY <1>1, SpecialStep, ProductOnlyStep, CombineStep, RoundStep DEF Next

---------------------------------------------------------------------------
THEOREM Invariance == Spec => []IInv
  BY TypeInit, Inductive, PTL DEF Spec

(* The result of sf64_fma_r is a value of the format and its flags are     *)
(* flags, whatever the operands and the mode.                              *)
THEOREM TypeCorrect == Spec => []TypeOK
<1>1. IInv => TypeOK
  BY DEF IInv
<1>. QED BY <1>1, Invariance, PTL

(* The frame of a fused multiply-add always has room for both operands and *)
(* their sum.                                                              *)
THEOREM FrameAlwaysFits == Spec => []FrameFits
<1>1. IInv => FrameFits
  BY FrameRoom DEF IInv
<1>. QED BY <1>1, Invariance, PTL

(* A number laid into the frame: exactly when it is shifted to the left,   *)
(* and otherwise on the right side of every even number of bits 0.         *)
LEMMA LaidStands ==
  ASSUME NEW mag, mag >= 1, mag < Pow2[FrameBits], NEW exp \in Int, FrameExp \in Int,
         exp - FrameExp <= FrameBits, NEW f, f = FrameExp - LeastExp, InTable(f),
         NEW num, NEW den, Weighs(mag, exp - LeastExp, num, den)
  PROVE  /\ exp >= FrameExp => Weighs(Laid(mag, exp), f, num, den)
         /\ Stands(Laid(mag, exp), num * Under(f), den * Over(f), 2)
<1>. DEFINE right == FrameExp - exp
            k == exp - LeastExp
            X == num * Under(f)
            Y == den * Over(f)
<1>1. /\ LeastExp \in Int /\ k \in Int /\ f \in Int /\ right \in Int /\ f = k + right
      /\ FrameBits \in Nat /\ FrameBits < MaxShift /\ MaxShift \in Nat /\ FrameBits >= 1
  BY Widths, Fields, FrameWidths DEF LeastExp
<1>2. /\ Over(f) \in Nat /\ Over(f) >= 1 /\ Under(f) \in Nat
      /\ num \in Nat /\ den \in Nat /\ den >= 1 /\ mag \in Nat /\ Weighs(mag, k, num, den)
      /\ InTable(k)
  BY OverUnder DEF Weighs
<1>3. X \in Nat /\ Y \in Nat /\ Y >= 1
  <2>. DEFINE o == Over(f)
  <2>1. o \in Nat /\ o >= 1
    BY <1>2
  <2>. HIDE DEF o
  <2>2. den * o >= 1 * 1 /\ den * o \in Nat
    BY <1>2, <2>1
  <2>. QED BY <1>2, <2>2 DEF o
<1>. HIDE DEF right, k
<1>4. CASE right <= 0
  <2>. DEFINE n == -right
  <2>1. n \in Nat /\ InTable(n) /\ k = f + n
    BY <1>1, <1>4 DEF InTable, right
  <2>2. Laid(mag, exp) = mag * Pow2[n]
    BY <1>4 DEF Laid, right
  <2>. HIDE DEF n
  <2>3. Weighs(mag * Pow2[n], f, num, den)
    BY <1>2, <2>1, FinerFrame
  <2>4. mag * Pow2[n] \in Int /\ (mag * Pow2[n]) * Y = X
    BY <2>3 DEF Weighs
  <2>. HIDE DEF X, Y
  <2>5. 2 \in Nat /\ X \in Int
    BY <1>3
  <2>6. Stands(mag * Pow2[n], X, Y, 2)
    BY <1>3, <2>4, <2>5, ExactStands
  <2>. QED BY <2>2, <2>3, <2>6 DEF X, Y
<1>5. CASE right > 0 /\ right < FrameBits
  <2>. DEFINE p == Pow2[right]
  <2>1. right \in Nat /\ InTable(right)
    BY <1>1, <1>5 DEF InTable
  <2>2. p \in Nat /\ p >= 1 /\ mag * Y = X * p
    BY <1>1, <1>2, <2>1, CoarserFrame
  <2>3. Laid(mag, exp) = OrSticky(mag \div p, (mag % p) # 0)
    <3>1. ~ (right <= 0) /\ ~ (right >= FrameBits)
      BY <1>1, <1>5
    <3>. QED BY <3>1, Zenon DEF Laid, right
  <2>. HIDE DEF p, X, Y
  <2>4. Stands(OrSticky(mag \div p, (mag % p) # 0), mag, p, 2)
    BY <1>2, <2>2, CutStands
  <2>5. Stands(OrSticky(mag \div p, (mag % p) # 0), X, Y, 2)
    <3>1. mag \in Int /\ X \in Int /\ 2 \in Nat
      BY <1>2, <1>3
    <3>. QED BY <1>3, <2>2, <2>4, <3>1, SameRatio
  <2>6. ~ (exp >= FrameExp)
    BY <1>5 DEF right
  <2>. QED BY <2>3, <2>5, <2>6 DEF X, Y
<1>6. CASE right >= FrameBits
  <2>1. InTable(FrameBits) /\ k + FrameBits <= f
    BY <1>1, <1>6 DEF InTable
  <2>2. X < Y /\ X >= 1
    BY <1>1, <1>2, <2>1, BelowFrame
  <2>3. Laid(mag, exp) = 1
    <3>1. ~ (right <= 0)
      BY <1>1, <1>6
    <3>. QED BY <1>6, <3>1, Zenon DEF Laid, right
  <2>. HIDE DEF X, Y
  <2>4. Stands(1, X, Y, 2)
    <3>. SUFFICES ASSUME NEW y \in Int
                  PROVE  /\ 1 < 2 * y <=> X < (2 * y) * Y
                         /\ 1 = 2 * y <=> X = (2 * y) * Y
      BY DEF Stands
    <3>. DEFINE t == 2 * y
    <3>1. t \in Int /\ (t >= 2 \/ t <= 0)
      OBVIOUS
    <3>. HIDE DEF t
    <3>2. CASE t >= 2
      <4>1. t * Y >= 2 * Y /\ t * Y \in Int
        BY <1>3, <3>1, <3>2
      <4>. QED BY <1>3, <2>2, <3>1, <3>2, <4>1 DEF t
    <3>3. CASE t <= 0
      <4>1. t * Y <= 0 * Y /\ t * Y \in Int
        BY <1>3, <3>1, <3>3
      <4>. QED BY <1>3, <2>2, <3>1, <3>3, <4>1 DEF t
    <3>. QED BY <3>1, <3>2, <3>3
  <2>5. ~ (exp >= FrameExp)
    BY <1>1, <1>6 DEF right
  <2>. QED BY <2>3, <2>4, <2>5 DEF X, Y
<1>. QED BY <1>1, <1>4, <1>5, <1>6

LEMMA FactorWeighs ==
  ASSUME NEW v \in Values, v.e < ExpMax, ~ IsZero(v)
  PROVE  /\ Weighs(Mantissa(v), Unpack(v).exp - 1, Ref!Mag(v), 1)
         /\ Exponent(v) - FracBits - LeastExp = Unpack(v).exp - 1
         /\ Unpack(v).exp \in (1 - FracBits)..(ExpMax - 1)
         /\ Mantissa(v) \in Nat /\ Pow2[FracBits] <= Mantissa(v) /\ Mantissa(v) < Pow2[FracBits + 1]
<1>. DEFINE e == Unpack(v).exp
            p == Mantissa(v)
            M == Ref!Mag(v)
            o == Over(e - 1)
            u == Under(e - 1)
            g == Guard
<1>1. e \in (1 - FracBits)..(ExpMax - 1)
  BY UnpackNormalises
<1>2. Exponent(v) - FracBits - LeastExp = e - 1
  BY <1>1, Widths, Fields DEF Exponent, LeastExp
<1>3. Pow2[FracBits] <= p /\ p < Pow2[FracBits + 1] /\ p \in Nat
  BY Significand DEF Mantissa
<1>4. Unpack(v).sig = p * g
  BY UnpackedUnits DEF Mantissa
<1>5. /\ M \in Nat /\ Unpack(v).sig * Down(e) = M * Up(e)
  BY OperandMagnitude
<1>6. Up(e) = g * u /\ Down(e) = o
  BY <1>1, Widths, Fields, ScaleOf
<1>7. InTable(e - 1)
  BY <1>1, Widths, Fields DEF InTable
<1>8. o \in Nat /\ u \in Nat /\ g \in Nat /\ g >= 1
  BY <1>7, OverUnder, GuardPowers
<1>9. (p * g) * o = M * (g * u)
  BY <1>4, <1>5, <1>6
<1>. HIDE DEF e, p, M, o, u, g
<1>10. p * (1 * o) = M * u
  <2>. DEFINE x == p * o
              y == M * u
  <2>1. x \in Nat /\ y \in Nat /\ x * g = y * g
    <3>1. (p * g) * o = (p * o) * g /\ M * (g * u) = (M * u) * g
      BY <1>3, <1>5, <1>8, Z3
    <3>. QED BY <1>3, <1>5, <1>8, <1>9, <3>1
  <2>2. p * (1 * o) = x
    BY <1>8
  <2>. HIDE DEF x, y
  <2>3. x = y
    BY <1>8, <2>1
  <2>. QED BY <2>2, <2>3 DEF y
<1>11. Weighs(p, e - 1, M, 1)
  BY <1>3, <1>5, <1>7, <1>10 DEF Weighs, o, u
<1>. QED BY <1>1, <1>2, <1>3, <1>11 DEF e, p, M

LEMMA ProductWeighs ==
  ASSUME a \in Values, a.e < ExpMax, ~ IsZero(a), b \in Values, b.e < ExpMax, ~ IsZero(b),
         NEW num \in Nat, NEW den \in Nat, den >= 1,
         num * Pow2[Ref!LogOne] = (Ref!Mag(a) * Ref!Mag(b)) * den
  PROVE  Weighs(Product, ProductExp - LeastExp, num, den)
<1>. DEFINE i == Unpack(a).exp - 1
            j == Unpack(b).exp - 1
            l == Ref!LogOne
            k == (i + (0 - l)) + j
            p == Mantissa(a)
            q == Mantissa(b)
            M == Ref!Mag(a)
            N == Ref!Mag(b)
<1>1. /\ Weighs(p, i, M, 1) /\ Weighs(q, j, N, 1)
      /\ Unpack(a).exp \in (1 - FracBits)..(ExpMax - 1)
      /\ Unpack(b).exp \in (1 - FracBits)..(ExpMax - 1)
  BY FactorWeighs
<1>2. l = FracBits + Bias - 1
  BY SameFormat
<1>3. ProductExp - LeastExp = k
  BY <1>1, <1>2, Widths, Fields DEF ProductExp, Exponent, LeastExp
<1>4. Product = p * q
  BY DEF Product
<1>5. num * Pow2[l] = (M * N) * den
  OBVIOUS
<1>6. /\ i \in Int /\ j \in Int /\ l \in Nat /\ 0 \in Nat /\ k \in Int
      /\ InTable(i) /\ InTable(j) /\ InTable(0) /\ InTable(l) /\ InTable(i + (0 - l)) /\ InTable(k)
  BY <1>1, <1>2, Widths, Fields, FrameWidths, TableAssumption DEF InTable, TableAssumption
<1>. HIDE DEF i, j, l, p, q, M, N
<1>7. ((Under(i) * Under(j)) * Over(k)) * Pow2[l] = ((Over(i) * Over(j)) * Under(k)) * Pow2[0]
  <2>1. k = (i + (0 - l)) + j
    OBVIOUS
  <2>. HIDE DEF k
  <2>. QED BY <1>6, <2>1, Balance
<1>. HIDE DEF k
<1>. DEFINE ui == Under(i)
            uj == Under(j)
            uk == Under(k)
            oi == Over(i)
            oj == Over(j)
            ok == Over(k)
            h == Pow2[l]
<1>8. /\ ui \in Nat /\ uj \in Nat /\ uk \in Nat /\ oi \in Nat /\ oj \in Nat /\ ok \in Nat /\ h \in Nat
      /\ oi >= 1 /\ oj >= 1 /\ h >= 1
  <2>1. l \in 0..MaxShift
    BY <1>6, Widths DEF InTable
  <2>. QED BY <1>6, <2>1, OverUnder, Pow2Positive
<1>9. ((ui * uj) * ok) * h = (oi * oj) * uk
  <2>1. Pow2[0] = 1
    BY Pow2Step
  <2>2. (oi * oj) * uk \in Nat
    BY <1>8
  <2>. QED BY <1>7, <2>1, <2>2
<1>10. /\ p \in Nat /\ q \in Nat /\ M \in Nat /\ N \in Nat /\ p * (1 * oi) = M * ui /\ q * (1 * oj) = N * uj
  BY <1>1 DEF Weighs
<1>11. num * h = (M * N) * den
  BY <1>5
<1>. HIDE DEF ui, uj, uk, oi, oj, ok, h
<1>12. p * oi = M * ui /\ q * oj = N * uj
  BY <1>8, <1>10
<1>13. (p * q) * (den * ok) = num * uk
  <2>. DEFINE x == (p * q) * (den * ok)
              y == num * uk
              w == (oi * oj) * h
  <2>1. x * w = ((p * oi) * (q * oj)) * ((den * ok) * h)
    BY <1>8, <1>10, Z3
  <2>2. ((M * ui) * (N * uj)) * ((den * ok) * h) = ((M * N) * den) * (((ui * uj) * ok) * h)
    BY <1>8, <1>10, Z3
  <2>3. (num * h) * ((oi * oj) * uk) = y * w
    BY <1>8, <1>10, Z3
  <2>4. x * w = y * w
    BY <1>9, <1>11, <1>12, <2>1, <2>2, <2>3
  <2>5. x \in Nat /\ y \in Nat /\ w \in Nat /\ w >= 1
    <3>1. oi * oj \in Nat /\ oi * oj >= 1
      <4>1. oi * oj >= 1 * 1
        BY <1>8
      <4>. QED BY <1>8, <4>1
    <3>. DEFINE t == oi * oj
    <3>. HIDE DEF t
    <3>2. t * h >= 1 * 1 /\ t * h \in Nat
      BY <1>8, <3>1 DEF t
    <3>. QED BY <1>8, <1>10, <3>2 DEF t
  <2>. HIDE DEF x, y, w
  <2>6. x = y
    BY <2>4, <2>5
  <2>. QED BY <2>6 DEF x, y
<1>14. p * q \in Nat
  BY <1>10
<1>. QED BY <1>3, <1>4, <1>6, <1>13, <1>14 DEF ok, uk, Weighs

---------------------------------------------------------------------------
(* The larger operand reaches the bit below the headroom, is shifted at    *)
(* least one place to the left and so loses nothing; what loses bits is    *)
(* less than half as large.                                                *)
LEMMA LaidLarge ==
  ASSUME NEW mag \in Nat, NEW h \in 0..(FrameBits - 4), Pow2[h] <= mag, mag < Pow2[h + 1],
         NEW exp \in Int, FrameExp \in Int, exp + h = FrameExp + (FrameBits - 3)
  PROVE  /\ exp >= FrameExp /\ exp - FrameExp <= FrameBits
         /\ Laid(mag, exp) \in Nat /\ Pow2[FrameBits - 3] <= Laid(mag, exp)
         /\ \E y \in Nat : Laid(mag, exp) = 2 * y
<1>. DEFINE t == FrameBits - 3
            n == t - h
<1>1. /\ FrameBits \in Nat /\ FrameBits < MaxShift /\ t \in Nat /\ h \in Nat /\ n \in Nat /\ n >= 1
      /\ MaxShift \in Nat
      /\ h <= t /\ t < MaxShift /\ FrameExp - exp = -n /\ n <= FrameBits
  BY Widths, FrameWidths
<1>2. Laid(mag, exp) = mag * Pow2[n]
  <2>1. FrameExp - exp <= 0 /\ -(FrameExp - exp) = n
    BY <1>1
  <2>. HIDE DEF n
  <2>. QED BY <2>1 DEF Laid
<1>3. mag * Pow2[n] \in Nat /\ Pow2[t] <= mag * Pow2[n]
  <2>. HIDE DEF t
  <2>. QED BY <1>1, ShiftToTop
<1>4. \E y \in Nat : mag * Pow2[n] = 2 * y
  <2>. DEFINE j == n - 1
              r == Pow2[j]
  <2>1. j \in Nat /\ j + 1 = n /\ j + 1 <= MaxShift /\ j \in 0..MaxShift
    BY <1>1
  <2>. HIDE DEF j, n
  <2>2. Pow2[n] = 2 * r /\ r \in Nat
    BY <2>1, Pow2Step
  <2>. HIDE DEF r
  <2>3. mag * r \in Nat /\ mag * (2 * r) = 2 * (mag * r)
    BY <2>2
  <2>. QED BY <2>2, <2>3
<1>5. exp >= FrameExp /\ exp - FrameExp <= FrameBits
  BY <1>1
<1>. HIDE DEF n
<1>. QED BY <1>2, <1>3, <1>4, <1>5

LEMMA LaidSmall ==
  ASSUME NEW mag \in Nat, mag < Pow2[FrameBits - 3], NEW exp \in Int, FrameExp \in Int,
         exp < FrameExp
  PROVE  Laid(mag, exp) \in Nat /\ Laid(mag, exp) < Pow2[FrameBits - 4]
<1>. DEFINE right == FrameExp - exp
            t == FrameBits - 4
            u == t - 1
            h == FrameBits - 3
<1>1. /\ right \in Int /\ right >= 1 /\ FrameBits < MaxShift /\ FrameBits >= 9 /\ FrameBits \in Nat
      /\ t \in Nat /\ u \in Nat /\ t <= MaxShift /\ u + 1 = t /\ u + 1 <= MaxShift
      /\ h \in Nat /\ h <= MaxShift /\ h = t + 1 /\ MaxShift \in Nat
  BY Widths, FrameWidths
<1>2. mag < Pow2[h]
  OBVIOUS
<1>. HIDE DEF right, t, u, h
<1>3. Pow2[t] = 2 * Pow2[u] /\ Pow2[u] \in Nat /\ Pow2[u] >= 1 /\ Pow2[t] \in Nat
  <2>1. u \in 0..MaxShift /\ t \in 0..MaxShift
    BY <1>1
  <2>2. Pow2[u + 1] = 2 * Pow2[u]
    BY <1>1, Pow2Step
  <2>. QED BY <1>1, <2>1, <2>2, Pow2Positive
<1>4. CASE right >= FrameBits
  <2>1. Laid(mag, exp) = 1
    <3>1. ~ (right <= 0)
      BY <1>1
    <3>. QED BY <1>4, <3>1, Zenon DEF Laid, right
  <2>. QED BY <1>3, <2>1 DEF t
<1>5. CASE right < FrameBits
  <2>. DEFINE y == mag \div Pow2[right]
              lost == (mag % Pow2[right]) # 0
  <2>1. right \in Nat /\ right <= MaxShift /\ h - right <= t
    BY <1>1, <1>5
  <2>2. y \in Nat /\ y < Pow2[t]
    BY <1>1, <1>2, <2>1, QuotientBelow
  <2>3. Laid(mag, exp) = OrSticky(y, lost)
    <3>1. ~ (right <= 0) /\ ~ (right >= FrameBits)
      BY <1>1, <1>5
    <3>. QED BY <3>1, Zenon DEF Laid, right
  <2>4. lost \in BOOLEAN
    OBVIOUS
  <2>. HIDE DEF y, lost
  <2>5. OrSticky(y, lost) \in Nat /\ OrSticky(y, lost) < 2 * Pow2[u]
    BY <1>3, <2>2, <2>4, StickyBound
  <2>. QED BY <1>3, <2>3, <2>5 DEF t
<1>. QED BY <1>1, <1>4, <1>5

(* What a frame has to keep for the rounding: the exact number, or enough  *)
(* bits above the jammed one.                                              *)
Holds(mag, k, num, den) ==
  \/ Weighs(mag, k, num, den)
  \/ /\ mag \in Nat /\ Pow2[FrameBits - 4] <= mag /\ InTable(k)
     /\ num \in Nat /\ den \in Nat /\ den >= 1
     /\ Stands(mag, num * Under(k), den * Over(k), 2)

LEMMA PairHolds ==
  ASSUME NEW p, NEW f, NEW num, NEW den, Weighs(p, f, num, den), Pow2[FrameBits - 3] <= p,
         \E y \in Nat : p = 2 * y, NEW q \in Nat, NEW s \in Nat,
         Stands(q, s * Under(f), den * Over(f), 2),
         q < Pow2[FrameBits - 4] \/ Weighs(q, f, s, den)
  PROVE  /\ Holds(p + q, f, num + s, den)
         /\ p > q => num > s /\ Holds(p - q, f, num - s, den)
         /\ q > p => s > num /\ Holds(q - p, f, s - num, den)
         /\ p = q => num = s
<1>. DEFINE u == Under(f)
            o == Over(f)
            P == num * u
            R == s * u
            Q == den * o
            w == Pow2[FrameBits - 4]
<1>1. /\ p \in Nat /\ num \in Nat /\ den \in Nat /\ den >= 1 /\ InTable(f) /\ p * Q = P
  BY DEF Weighs
<1>2. u \in Nat /\ u >= 1 /\ o \in Nat /\ o >= 1
  BY <1>1, OverUnder
<1>3. w \in Nat /\ w >= 1 /\ 2 * w <= p
  <2>. DEFINE t == FrameBits - 4
  <2>1. t \in Nat /\ t + 1 = FrameBits - 3 /\ t + 1 <= MaxShift /\ t \in 0..MaxShift
    BY Widths, FrameWidths
  <2>2. Pow2[t] \in Nat /\ Pow2[t] >= 1 /\ Pow2[t + 1] <= p
    BY <2>1, Pow2Positive
  <2>. HIDE DEF t
  <2>3. Pow2[t + 1] = 2 * Pow2[t]
    BY <2>1, Pow2Step
  <2>. QED BY <2>2, <2>3 DEF t
<1>4. q < w \/ q * Q = R
  BY DEF Weighs
<1>5. Stands(q, R, Q, 2)
  OBVIOUS
<1>. HIDE DEF u, o, w
<1>6. P \in Nat /\ R \in Nat /\ Q \in Nat /\ Q >= 1
  <2>1. den * o >= 1 * 1
    BY <1>1, <1>2
  <2>. QED BY <1>1, <1>2, <2>1
<1>7. P + R = (num + s) * u /\ P - R = (num - s) * u /\ R - P = (s - num) * u
  BY <1>1, <1>2, Z3
<1>8. /\ P = R <=> num = s
      /\ P > R <=> num > s
      /\ R > P <=> s > num
  <2>1. num > s => num * u > s * u
    BY <1>1, <1>2
  <2>2. s > num => s * u > num * u
    BY <1>1, <1>2
  <2>3. num = s \/ num > s \/ s > num
    BY <1>1
  <2>. QED BY <1>1, <1>2, <1>6, <2>1, <2>2, <2>3
<1>. HIDE DEF P, R, Q
<1>9. /\ Stands(p + q, P + R, Q, 2) /\ Stands(p - q, P - R, Q, 2) /\ Stands(q - p, R - P, Q, 2)
      /\ p = q <=> P = R
      /\ p > q <=> P > R
  <2>1. EvenAndExact(p, P, Q)
    BY <1>1, <1>6 DEF EvenAndExact
  <2>. QED BY <1>1, <1>5, <1>6, <2>1, SumStands
<1>10. q > p <=> R > P
  BY <1>1, <1>6, <1>9
<1>11. num + s \in Nat /\ (num > s => num - s \in Nat) /\ (s > num => s - num \in Nat)
  BY <1>1
<1>12. CASE q * Q = R
  <2>1. /\ (p + q) * Q = P + R
        /\ (p - q) * Q = P - R
        /\ (q - p) * Q = R - P
    BY <1>1, <1>6, <1>12, Z3
  <2>2. /\ p + q \in Nat
        /\ p > q => p - q \in Nat
        /\ q > p => q - p \in Nat
    BY <1>1
  <2>3. Weighs(p + q, f, num + s, den)
    BY <1>1, <1>7, <1>11, <2>1, <2>2 DEF Weighs, Q, u, o
  <2>4. p > q => Weighs(p - q, f, num - s, den)
    <3>. SUFFICES ASSUME p > q PROVE Weighs(p - q, f, num - s, den)
      OBVIOUS
    <3>1. num > s
      BY <1>8, <1>9
    <3>. QED BY <1>1, <1>7, <1>11, <2>1, <2>2, <3>1 DEF Weighs, Q, u, o
  <2>5. q > p => Weighs(q - p, f, s - num, den)
    <3>. SUFFICES ASSUME q > p PROVE Weighs(q - p, f, s - num, den)
      OBVIOUS
    <3>1. s > num
      BY <1>8, <1>10
    <3>. QED BY <1>1, <1>7, <1>11, <2>1, <2>2, <3>1 DEF Weighs, Q, u, o
  <2>. QED BY <1>8, <1>9, <1>10, <2>3, <2>4, <2>5 DEF Holds
<1>13. CASE q < w
  <2>1. p > q /\ p + q \in Nat /\ p - q \in Nat /\ w <= p + q /\ w <= p - q
    BY <1>1, <1>3, <1>13
  <2>2. num > s /\ num - s \in Nat
    BY <1>8, <1>9, <1>11, <2>1
  <2>3. Stands(p + q, (num + s) * u, Q, 2) /\ Stands(p - q, (num - s) * u, Q, 2)
    BY <1>7, <1>9
  <2>4. ~ (q > p) /\ p # q
    BY <1>1, <2>1
  <2>5. Holds(p + q, f, num + s, den) /\ Holds(p - q, f, num - s, den)
    BY <1>1, <1>11, <2>1, <2>2, <2>3 DEF Holds, w, Q, u, o
  <2>. QED BY <2>2, <2>4, <2>5
<1>. QED BY <1>4, <1>12, <1>13

(* The frame of a sum: where it lies, and what it holds.                   *)
LEMMA FrameHolds ==
  ASSUME TypeOK, Finite, ~ ZeroProduct, ~ IsZero(c),
         NEW num \in Nat, NEW den \in Nat, den >= 1,
         num * Pow2[Ref!LogOne] = (Ref!Mag(a) * Ref!Mag(b)) * den,
         NEW s, s = Ref!Mag(c) * den, NEW f, f = FrameExp - LeastExp,
         NEW p, p = Laid(Product, ProductExp),
         NEW q, q = Laid(Mantissa(c), Exponent(c) - FracBits)
  PROVE  /\ InTable(f) /\ f + FrameBits - FracBits <= MaxShift /\ s \in Nat
         /\ Holds(p + q, f, num + s, den)
         /\ p > q => num > s /\ Holds(p - q, f, num - s, den)
         /\ q > p => s > num /\ Holds(q - p, f, s - num, den)
         /\ p = q => num = s
<1>. DEFINE h == HighestBit(Product)
            e == Exponent(c)
            m == Mantissa(c)
            g == e - FracBits
            x == ProductExp + h
<1>1. /\ a \in Values /\ a.e < ExpMax /\ ~ IsZero(a)
      /\ b \in Values /\ b.e < ExpMax /\ ~ IsZero(b)
      /\ c \in Values /\ c.e < ExpMax /\ ~ IsZero(c)
  BY Fields DEF TypeOK, Finite, Numbers, AnyNaN, ZeroProduct, IsNaN, IsInf, Values
<1>2. /\ Product \in Nat /\ Product >= 1 /\ Product < Pow2[FrameBits]
      /\ h \in 0..(2 * FracBits + 1) /\ Product < Pow2[h + 1] /\ ProductExp \in Int
      /\ Pow2[h] <= Product
  BY Magnitudes, HighestBitOf
<1>3. /\ m \in Nat /\ Pow2[FracBits] <= m /\ m < Pow2[FracBits + 1] /\ m >= 1
      /\ Weighs(m, g - LeastExp, Ref!Mag(c), 1) /\ e \in Int
      /\ e >= 1 - FracBits - Bias /\ e <= Bias
  <2>1. FracBits \in 0..MaxShift
    BY Widths
  <2>2. /\ Weighs(m, Unpack(c).exp - 1, Ref!Mag(c), 1) /\ g - LeastExp = Unpack(c).exp - 1
        /\ Unpack(c).exp \in (1 - FracBits)..(ExpMax - 1)
        /\ m \in Nat /\ Pow2[FracBits] <= m /\ m < Pow2[FracBits + 1]
    BY <1>1, FactorWeighs
  <2>3. Pow2[FracBits] \in Nat /\ Pow2[FracBits] >= 1
    BY <2>1, Pow2Positive
  <2>4. e = Unpack(c).exp - Bias
    BY DEF Exponent
  <2>. HIDE DEF e, m, g
  <2>. QED BY <2>2, <2>3, <2>4, Widths, Fields
<1>4. ProductExp <= 2 * Bias - 2 * FracBits
  <2>1. /\ Unpack(a).exp \in (1 - FracBits)..(ExpMax - 1)
        /\ Unpack(b).exp \in (1 - FracBits)..(ExpMax - 1)
    BY <1>1, FactorWeighs
  <2>. QED BY <2>1, Widths, Fields DEF ProductExp, Exponent
<1>5. Weighs(Product, ProductExp - LeastExp, num, den)
  BY <1>1, ProductWeighs
<1>6. Weighs(m, g - LeastExp, s, den) /\ s \in Nat
  <2>. HIDE DEF m, g
  <2>1. Weighs(m, g - LeastExp, Ref!Mag(c) * den, 1 * den)
    BY <1>3, WeighsTimes
  <2>. QED BY <2>1 DEF Weighs
<1>7. FrameTop = (IF x > e THEN x ELSE e) + 2
  BY DEF FrameTop
<1>. HIDE DEF h, e, m, x
<1>8. /\ FrameTop \in Int /\ FrameExp \in Int /\ FrameExp = FrameTop - (FrameBits - 1)
      /\ f \in Int /\ f = FrameTop - FrameBits + Bias + FracBits
      /\ FrameTop >= 3 - FracBits - Bias /\ FrameTop <= 2 * Bias + 3
  BY <1>2, <1>3, <1>4, <1>7, Widths, Fields, FrameWidths DEF FrameExp, LeastExp, x
<1>9. InTable(f) /\ f + FrameBits - FracBits <= MaxShift
  BY <1>8, Widths, Fields, FrameWidths, TableAssumption DEF InTable, TableAssumption
<1>10. /\ FracBits \in 0..(FrameBits - 4) /\ h \in 0..(FrameBits - 4)
  BY <1>2, Widths, FrameWidths
<1>11. m < Pow2[FrameBits] /\ m < Pow2[FrameBits - 3] /\ Product < Pow2[FrameBits - 3]
  <2>. DEFINE t == FrameBits - 3
              i == FracBits + 1
              j == h + 1
  <2>1. /\ t \in Nat /\ t <= MaxShift /\ i \in Nat /\ j \in Nat /\ i <= t /\ j <= t
        /\ FrameBits \in Nat /\ t <= FrameBits /\ FrameBits <= MaxShift
        /\ i \in 0..MaxShift /\ j \in 0..MaxShift /\ t \in 0..MaxShift /\ FrameBits \in 0..MaxShift
    BY <1>10, Widths, FrameWidths
  <2>2. m < Pow2[i] /\ Product < Pow2[j]
    BY <1>2, <1>3
  <2>. HIDE DEF t, i, j
  <2>3. Pow2[i] <= Pow2[t] /\ Pow2[j] <= Pow2[t] /\ Pow2[t] <= Pow2[FrameBits]
    BY <2>1, Pow2Monotone
  <2>4. Pow2[i] \in Nat /\ Pow2[j] \in Nat /\ Pow2[t] \in Nat /\ Pow2[FrameBits] \in Nat
    BY <2>1, Pow2Positive
  <2>. QED BY <1>2, <1>3, <2>2, <2>3, <2>4 DEF t
<1>12. g \in Int /\ g = e - FracBits
  BY <1>3, Widths
<1>. HIDE DEF g
<1>13. CASE x > e
  <2>1. ProductExp + h = FrameExp + (FrameBits - 3) /\ g - FrameExp <= FrameBits
    BY <1>2, <1>3, <1>7, <1>8, <1>10, <1>12, <1>13, Widths, FrameWidths DEF x
  <2>2. /\ ProductExp >= FrameExp /\ ProductExp - FrameExp <= FrameBits
        /\ p \in Nat /\ Pow2[FrameBits - 3] <= p /\ \E y \in Nat : p = 2 * y
    BY <1>2, <1>8, <1>10, <2>1, LaidLarge
  <2>3. Weighs(p, f, num, den)
    BY <1>2, <1>5, <1>8, <1>9, <2>2, LaidStands
  <2>4. /\ g >= FrameExp => Weighs(q, f, s, den)
        /\ Stands(q, s * Under(f), den * Over(f), 2)
    BY <1>3, <1>6, <1>8, <1>9, <1>11, <1>12, <2>1, LaidStands DEF m, e
  <2>5. q \in Nat /\ (q < Pow2[FrameBits - 4] \/ Weighs(q, f, s, den))
    <3>1. CASE g >= FrameExp
      BY <2>4, <3>1 DEF Weighs
    <3>2. CASE g < FrameExp
      BY <1>3, <1>8, <1>11, <1>12, <3>2, LaidSmall DEF m, e
    <3>. QED BY <1>8, <1>12, <3>1, <3>2
  <2>7. /\ Holds(p + q, f, num + s, den)
        /\ p > q => num > s /\ Holds(p - q, f, num - s, den)
        /\ q > p => s > num /\ Holds(q - p, f, s - num, den)
        /\ p = q => num = s
    BY <1>6, <2>2, <2>3, <2>4, <2>5, PairHolds
  <2>. QED BY <1>6, <1>9, <2>7
<1>14. CASE ~ (x > e)
  <2>1. g + FracBits = FrameExp + (FrameBits - 3) /\ ProductExp - FrameExp <= FrameBits
    BY <1>2, <1>3, <1>7, <1>8, <1>10, <1>12, <1>14, Widths, FrameWidths DEF x
  <2>2. /\ g >= FrameExp /\ g - FrameExp <= FrameBits
        /\ q \in Nat /\ Pow2[FrameBits - 3] <= q /\ \E y \in Nat : q = 2 * y
    BY <1>3, <1>8, <1>10, <1>12, <2>1, LaidLarge DEF m, e
  <2>3. Weighs(q, f, s, den)
    BY <1>3, <1>6, <1>8, <1>9, <1>11, <1>12, <2>2, LaidStands DEF m, e
  <2>4. /\ ProductExp >= FrameExp => Weighs(p, f, num, den)
        /\ Stands(p, num * Under(f), den * Over(f), 2)
    BY <1>2, <1>5, <1>8, <1>9, <2>1, LaidStands
  <2>5. p \in Nat /\ (p < Pow2[FrameBits - 4] \/ Weighs(p, f, num, den))
    <3>1. CASE ProductExp >= FrameExp
      BY <2>4, <3>1 DEF Weighs
    <3>2. CASE ProductExp < FrameExp
      BY <1>2, <1>8, <1>11, <3>2, LaidSmall
    <3>. QED BY <1>2, <1>8, <3>1, <3>2
  <2>7. /\ Holds(q + p, f, s + num, den)
        /\ q > p => s > num /\ Holds(q - p, f, s - num, den)
        /\ p > q => num > s /\ Holds(p - q, f, num - s, den)
        /\ q = p => s = num
    BY <2>2, <2>3, <2>4, <2>5, PairHolds
  <2>8. q + p = p + q /\ s + num = num + s
    BY <1>6, <2>2, <2>5
  <2>. QED BY <1>6, <1>9, <2>7, <2>8
<1>. QED BY <1>13, <1>14

---------------------------------------------------------------------------
(* The rounding.  The exponent field asked for is FieldAt, its last place  *)
(* is bit TargetLsb of the frame.                                          *)
FrameUnit == z.exp - LeastExp
FieldAt == IF Subnormal THEN 1 ELSE Biased

FrameOf(num, den) ==
  /\ Holds(z.mag, FrameUnit, num, den)
  /\ FrameUnit + HighestBit(z.mag) - FracBits <= MaxShift

LEMMA FramePlace ==
  ASSUME IInv, pc = "round", NEW num, NEW den, FrameOf(num, den)
  PROVE  /\ z.mag \in Nat /\ z.mag >= 1 /\ z.mag < Pow2[FrameBits] /\ z.sign \in {0, 1} /\ mode \in Modes
         /\ num \in Nat /\ den \in Nat /\ den >= 1 /\ InTable(FrameUnit)
         /\ HighestBit(z.mag) \in 0..(FrameBits - 1)
         /\ Pow2[HighestBit(z.mag)] <= z.mag /\ z.mag < Pow2[HighestBit(z.mag) + 1]
         /\ Biased \in Int /\ FieldAt \in Nat /\ FieldAt >= 1 /\ InTable(FieldAt - 1)
         /\ TargetLsb \in Int /\ InTable(TargetLsb) /\ FrameUnit + TargetLsb = FieldAt - 1
         /\ Subnormal <=> Biased < 1
         /\ Subnormal => FieldAt = 1
         /\ ~ Subnormal => FieldAt = Biased /\ TargetLsb = HighestBit(z.mag) - FracBits
         /\ TargetLsb < 2 => Weighs(z.mag, FrameUnit, num, den)
<1>. DEFINE h == HighestBit(z.mag)
            k == FrameUnit
<1>1. /\ z.mag \in Nat /\ z.mag >= 1 /\ z.mag < Pow2[FrameBits] /\ z.exp \in Int
      /\ z.sign \in {0, 1} /\ mode \in Modes
  BY DEF IInv, TypeOK, Framed
<1>2. h \in 0..(FrameBits - 1) /\ Pow2[h] <= z.mag /\ z.mag < Pow2[h + 1]
  BY <1>1, HighestBitOf
<1>3. num \in Nat /\ den \in Nat /\ den >= 1 /\ InTable(k) /\ k + h - FracBits <= MaxShift
  BY DEF FrameOf, Holds, Weighs
<1>4. LeastExp = 1 - Bias - FracBits /\ k = z.exp - LeastExp /\ Biased = z.exp + h + Bias
  BY DEF LeastExp, FrameUnit, Biased
<1>5. /\ TargetLsb = IF Subnormal THEN LeastExp - z.exp ELSE h - FracBits
      /\ FieldAt = IF Subnormal THEN 1 ELSE Biased
      /\ Subnormal <=> Biased < 1
  BY DEF TargetLsb, FieldAt, Subnormal
<1>. HIDE DEF h, k
<1>6. k \in Int /\ k <= MaxShift /\ -k <= MaxShift /\ Biased = k + h + 1 - FracBits /\ Biased \in Int
  BY <1>1, <1>2, <1>3, <1>4, Widths, Fields, FrameWidths DEF InTable
<1>. DEFINE Place == /\ FieldAt \in Nat /\ FieldAt >= 1 /\ InTable(FieldAt - 1)
                      /\ TargetLsb \in Int /\ InTable(TargetLsb) /\ k + TargetLsb = FieldAt - 1
<1>7. ASSUME Subnormal PROVE Place /\ FieldAt = 1
  <2>1. TargetLsb = -k /\ FieldAt = 1 /\ Biased < 1
    BY <1>1, <1>4, <1>5, <1>7, Widths, Fields
  <2>. QED BY <1>2, <1>6, <2>1, Widths, FrameWidths DEF InTable
<1>8. ASSUME ~ Subnormal PROVE Place /\ FieldAt = Biased /\ TargetLsb = h - FracBits
  <2>1. TargetLsb = h - FracBits /\ FieldAt = Biased /\ Biased >= 1
    BY <1>5, <1>6, <1>8
  <2>. QED BY <1>2, <1>3, <1>6, <2>1, Widths, FrameWidths DEF InTable
<1>9. TargetLsb >= h - FracBits
  <2>1. CASE Subnormal
    <3>1. TargetLsb = -k /\ Biased < 1
      BY <1>1, <1>4, <1>5, <2>1, Widths, Fields
    <3>. QED BY <1>2, <1>6, <3>1, Widths
  <2>2. CASE ~ Subnormal
    BY <1>2, <1>5, <2>2, Widths
  <2>. QED BY <2>1, <2>2
<1>10. ASSUME ~ Weighs(z.mag, k, num, den)
       PROVE  TargetLsb >= 2
  <2>1. Pow2[FrameBits - 4] <= z.mag
    BY <1>10 DEF FrameOf, Holds, k
  <2>2. h + 1 > FrameBits - 4
    <3>. DEFINE t == FrameBits - 4
                j == h + 1
    <3>1. j \in Nat /\ t \in Nat /\ t <= MaxShift /\ j \in 0..MaxShift /\ t \in 0..MaxShift
      BY <1>2, Widths, FrameWidths
    <3>2. Pow2[t] <= z.mag /\ z.mag < Pow2[j]
      BY <1>2, <2>1
    <3>. HIDE DEF j, t
    <3>3. j <= t => Pow2[j] <= Pow2[t]
      BY <3>1, Pow2Monotone
    <3>4. Pow2[j] \in Nat /\ Pow2[t] \in Nat
      BY <3>1, Pow2Positive
    <3>5. j > t
      BY <1>1, <3>1, <3>2, <3>3, <3>4
    <3>. QED BY <3>5 DEF j, t
  <2>3. TargetLsb \in Int
    BY <1>7, <1>8
  <2>. QED BY <1>2, <1>9, <2>2, <2>3, Widths, FrameWidths
<1>11. TargetLsb < 2 => Weighs(z.mag, k, num, den)
  <2>1. TargetLsb \in Int
    BY <1>7, <1>8
  <2>. QED BY <1>10, <2>1
<1>. HIDE DEF Place
<1>12. /\ h \in 0..(FrameBits - 1) /\ Pow2[h] <= z.mag /\ z.mag < Pow2[h + 1]
       /\ Biased \in Int /\ InTable(k) /\ Place
       /\ Subnormal => FieldAt = 1
       /\ ~ Subnormal => FieldAt = Biased /\ TargetLsb = h - FracBits
  BY <1>2, <1>3, <1>6, <1>7, <1>8
<1>. QED BY <1>1, <1>3, <1>5, <1>11, <1>12 DEF h, k, Place

(* The bits that are dropped tell on which side of every multiple of half  *)
(* a last place the exact number lies.                                     *)
LEMMA FrameSide ==
  ASSUME IInv, pc = "round", NEW num, NEW den, FrameOf(num, den), TargetLsb >= 1,
         NEW H, H = Pow2[TargetLsb - 1], NEW D, D = Unit(FieldAt) * den, NEW y \in Int
  PROVE  /\ z.mag < H * y <=> 2 * num < y * D
         /\ z.mag = H * y <=> 2 * num = y * D
<1>. DEFINE mag == z.mag
            k == FrameUnit
            t == TargetLsb
            e == FieldAt
            o == Over(k)
            u == Under(k)
            E == Unit(e)
<1>1. /\ mag \in Nat /\ num \in Nat /\ den \in Nat /\ den >= 1 /\ InTable(k)
      /\ e \in Nat /\ e >= 1 /\ InTable(e - 1) /\ t \in Int /\ InTable(t) /\ k + t = e - 1
      /\ t < 2 => Weighs(mag, k, num, den)
      /\ t >= 1 /\ k \in Int
  BY FramePlace DEF InTable
<1>2. FrameOf(num, den)
  OBVIOUS
<1>. HIDE DEF t, k, e
<1>3. o \in Nat /\ o >= 1 /\ u \in Nat /\ u >= 1
  BY <1>1, OverUnder
<1>4. E \in Nat /\ E >= 1 /\ (o * Pow2[t]) = u * E
  <2>1. e - 1 \in 0..MaxShift /\ t \in Nat /\ InTable(k + t)
    BY <1>1 DEF InTable
  <2>2. (Over(k) * Pow2[t]) * Under(k + t) = Under(k) * Over(k + t)
    BY <1>1, <2>1, OverSum
  <2>3. Under(k + t) = 1 /\ Over(k + t) = E
    BY <1>1 DEF Under, Over, Unit
  <2>4. Pow2[t] \in Nat /\ E \in Nat /\ E >= 1
    <3>1. t \in 0..MaxShift
      BY <1>1, <2>1, Widths DEF InTable
    <3>. QED BY <2>1, <3>1, Pow2Positive DEF Unit
  <2>. HIDE DEF o, u, E
  <2>5. (o * Pow2[t]) * 1 = u * E
    BY <2>2, <2>3 DEF o, u
  <2>. QED BY <1>3, <2>4, <2>5
<1>5. Pow2[t] = 2 * H /\ H \in Nat /\ H >= 1
  <2>. DEFINE i == t - 1
  <2>1. i \in Nat /\ i + 1 = t /\ i + 1 <= MaxShift /\ i \in 0..MaxShift /\ H = Pow2[i]
    BY <1>1, Widths DEF InTable, t
  <2>. HIDE DEF i
  <2>2. Pow2[i + 1] = 2 * Pow2[i]
    BY <2>1, Pow2Step
  <2>. QED BY <2>1, <2>2, Pow2Positive
<1>6. num * u \in Int /\ den * o \in Nat /\ den * o >= 1
  <2>1. den * o >= 1 * 1
    BY <1>1, <1>3
  <2>. QED BY <1>1, <1>3, <2>1
<1>7. Stands(mag, num * u, den * o, H)
  <2>1. CASE Weighs(mag, k, num, den)
    <3>1. mag * (den * o) = num * u /\ mag \in Int
      BY <1>1, <2>1 DEF Weighs
    <3>. DEFINE P == num * u
                Q == den * o
    <3>. HIDE DEF P, Q, mag
    <3>2. P \in Int /\ Q \in Nat /\ Q >= 1 /\ mag * Q = P /\ mag \in Int /\ H \in Nat
      BY <1>5, <1>6, <3>1 DEF P, Q
    <3>3. Stands(mag, P, Q, H)
      BY <3>2, ExactStands
    <3>. QED BY <3>3 DEF P, Q
  <2>2. CASE ~ Weighs(mag, k, num, den)
    <3>. DEFINE j == t - 2
                n == t - 1
    <3>1. t >= 2 /\ j \in Nat /\ n = j + 1 /\ j + 1 <= MaxShift /\ j \in 0..MaxShift /\ H = Pow2[n]
      BY <1>1, <2>2, Widths DEF InTable, t
    <3>2. Stands(mag, num * u, den * o, 2)
      BY <1>2, <2>2 DEF FrameOf, Holds, k
    <3>. HIDE DEF j, n
    <3>3. Pow2[j + 1] = 2 * Pow2[j] /\ Pow2[j] \in Nat
      BY <3>1, Pow2Step
    <3>. DEFINE w == Pow2[j]
                P == num * u
                Q == den * o
    <3>4. H = 2 * w /\ w \in Int /\ Stands(mag, P, Q, 2) /\ 2 \in Int
      BY <3>1, <3>2, <3>3
    <3>. HIDE DEF w, P, Q, mag
    <3>5. Stands(mag, P, Q, 2 * w)
      BY <3>4, Coarser
    <3>. QED BY <3>4, <3>5 DEF P, Q
  <2>. QED BY <2>1, <2>2
<1>8. /\ mag < H * y <=> num * u < (H * y) * (den * o)
      /\ mag = H * y <=> num * u = (H * y) * (den * o)
  BY <1>7 DEF Stands
<1>9. D = E * den
  BY DEF E, e
<1>. HIDE DEF mag, o, u, E
<1>10. 2 * ((H * y) * (den * o)) = (y * D) * u
  <2>1. 2 * ((H * y) * (den * o)) = (y * den) * (o * (2 * H))
    BY <1>1, <1>3, <1>5, Z3
  <2>2. (y * den) * (u * E) = (y * (E * den)) * u
    BY <1>1, <1>3, <1>4, Z3
  <2>. QED BY <1>4, <1>5, <1>9, <2>1, <2>2
<1>. DEFINE X == num * u
            Y == (H * y) * (den * o)
            x == 2 * num
            v == y * D
<1>11. X \in Int /\ Y \in Int /\ x \in Int /\ v \in Int /\ 2 * X = x * u /\ 2 * Y = v * u
  <2>1. H * y \in Int /\ D \in Nat
    BY <1>1, <1>4, <1>5, <1>9
  <2>2. Y \in Int /\ v \in Int
    <3>. DEFINE r == H * y
                s == den * o
    <3>1. r \in Int /\ s \in Int
      BY <1>6, <2>1
    <3>. HIDE DEF r, s
    <3>2. r * s \in Int
      BY <3>1
    <3>. QED BY <2>1, <3>2 DEF r, s
  <2>3. 2 * (num * u) = (2 * num) * u
    BY <1>1, <1>3
  <2>. QED BY <1>1, <1>6, <1>10, <2>2, <2>3
<1>12. (mag < H * y <=> X < Y) /\ (mag = H * y <=> X = Y)
  BY <1>8
<1>. HIDE DEF X, Y, x, v
<1>13. (X < Y <=> x < v) /\ (X = Y <=> x = v)
  <2>1. x < v => x * u < v * u
    BY <1>3, <1>11
  <2>2. v < x => v * u < x * u
    BY <1>3, <1>11
  <2>3. x < v \/ x = v \/ v < x
    BY <1>11
  <2>. QED BY <1>3, <1>11, <2>1, <2>2, <2>3
<1>. QED BY <1>12, <1>13 DEF x, v, mag

(* What is known of a magnitude m cut at the last place D of the result.   *)
KeptOf(m, num, D) ==
  /\ m \in Nat /\ m * D <= num /\ num < (m + 1) * D
  /\ (FrameRoundBit \/ FrameSticky) <=> num # m * D
  /\ FrameRoundBit <=> 2 * num >= (2 * m + 1) * D
  /\ FrameSticky => 2 * num # (2 * m + 1) * D
  /\ FrameRoundBit /\ ~ FrameSticky => 2 * num = (2 * m + 1) * D

LEMMA FrameCut ==
  ASSUME IInv, pc = "round", NEW num, NEW den, FrameOf(num, den), TargetLsb >= 1,
         NEW D, D = Unit(FieldAt) * den
  PROVE  KeptOf(Truncated, num, D)
<1>. DEFINE mag == z.mag
            t == TargetLsb
            i == t - 1
            H == Pow2[i]
<1>1. /\ mag \in Nat /\ num \in Nat /\ den \in Nat /\ t \in Int /\ InTable(t) /\ t >= 1
      /\ FieldAt \in Nat /\ FieldAt >= 1 /\ InTable(FieldAt - 1)
  BY FramePlace
<1>2. /\ i \in Nat /\ i + 1 = t /\ i + 1 <= MaxShift /\ i \in 0..MaxShift
      /\ FieldAt - 1 \in 0..MaxShift
  BY <1>1, Widths DEF InTable
<1>3. D \in Nat
  BY <1>1, <1>2, Pow2Positive DEF Unit
<1>4. H \in Nat /\ H >= 1 /\ Pow2[t] = 2 * H
  <2>. HIDE DEF i
  <2>1. Pow2[i + 1] = 2 * Pow2[i]
    BY <1>2, Pow2Step
  <2>. QED BY <1>2, <2>1, Pow2Positive
<1>5. \A y \in Int : /\ mag < H * y <=> 2 * num < y * D
                     /\ mag = H * y <=> 2 * num = y * D
  BY FrameSide
<1>6. /\ FrameRoundBit <=> (mag \div H) % 2 = 1
      /\ t >= 2 => (FrameSticky <=> (mag % H) # 0)
      /\ t = 1 => ~ FrameSticky /\ H = 1
  <2>1. FrameRoundBit <=> (mag \div H) % 2 = 1
    BY <1>1 DEF FrameRoundBit, BitSet
  <2>2. t >= 2 => (FrameSticky <=> (mag % H) # 0)
    BY DEF FrameSticky
  <2>3. t = 1 => ~ FrameSticky /\ i = 0
    BY DEF FrameSticky
  <2>. QED BY <2>1, <2>2, <2>3, Pow2Step
<1>7. Truncated = mag \div Pow2[t]
  BY <1>1 DEF Truncated
<1>. HIDE DEF mag, t, H
<1>8. Truncated = mag \div (2 * H)
  BY <1>4, <1>7
<1>9. FrameSticky <=> (mag % H) # 0
  <2>1. H = 1 => mag % H = 0
    BY <1>1
  <2>. QED BY <1>1, <1>6, <2>1
<1>10. PICK m \in Nat, r \in Nat :
           /\ m = mag \div (2 * H) /\ r < 2 * H /\ mag = m * (2 * H) + r
           /\ (mag \div H) % 2 = 1 <=> H <= r
           /\ (mag % H) # 0 <=> r # 0 /\ r # H
  BY <1>1, <1>4, CutAtHalf
<1>11. Truncated = m /\ (FrameRoundBit <=> H <= r) /\ (FrameSticky <=> r # 0 /\ r # H)
  BY <1>6, <1>8, <1>9, <1>10
<1>12. /\ ~ (mag < H * (2 * m)) /\ (mag = H * (2 * m) <=> r = 0)
       /\ mag < H * (2 * m + 1) <=> ~ (H <= r)
       /\ mag = H * (2 * m + 1) <=> r = H
       /\ mag < H * (2 * m + 2)
  <2>. DEFINE w == H * m
  <2>1. w \in Nat /\ H * (2 * m) = 2 * w /\ H * (2 * m + 1) = 2 * w + H /\ H * (2 * m + 2) = 2 * w + 2 * H
        /\ mag = 2 * w + r
    <3>1. /\ H * m \in Nat /\ H * (2 * m) = 2 * (H * m) /\ H * (2 * m + 1) = 2 * (H * m) + H
          /\ H * (2 * m + 2) = 2 * (H * m) + 2 * H /\ m * (2 * H) = 2 * (H * m)
      BY <1>4, Z3
    <3>. QED BY <1>10, <3>1
  <2>. HIDE DEF w
  <2>2. r \in Nat /\ r < 2 * H
    BY <1>10
  <2>. QED BY <1>4, <2>1, <2>2
<1>13. /\ ~ (2 * num < (2 * m) * D) /\ (2 * num = (2 * m) * D <=> r = 0)
       /\ 2 * num < (2 * m + 1) * D <=> ~ (H <= r)
       /\ 2 * num = (2 * m + 1) * D <=> r = H
       /\ 2 * num < (2 * m + 2) * D
  <2>1. 2 * m \in Int /\ 2 * m + 1 \in Int /\ 2 * m + 2 \in Int
    OBVIOUS
  <2>. QED BY <1>5, <1>12, <2>1
<1>14. /\ m * D <= num /\ num < (m + 1) * D /\ (num = m * D <=> r = 0)
       /\ 2 * num >= (2 * m + 1) * D <=> H <= r
  <2>. DEFINE w == m * D
  <2>1. /\ w \in Nat /\ m * D = w /\ (2 * m) * D = 2 * w /\ (2 * m + 2) * D = 2 * w + 2 * D
        /\ (m + 1) * D = w + D /\ (2 * m + 1) * D = 2 * w + D
    BY <1>3
  <2>. HIDE DEF w
  <2>2. /\ ~ (2 * num < 2 * w) /\ (2 * num = 2 * w <=> r = 0)
        /\ 2 * num < 2 * w + D <=> ~ (H <= r)
        /\ 2 * num < 2 * w + 2 * D
    BY <1>13, <2>1
  <2>3. /\ w <= num /\ num < w + D /\ (num = w <=> r = 0)
        /\ 2 * num >= 2 * w + D <=> H <= r
    <3>1. w \in Nat
      BY <2>1
    <3>. QED BY <1>1, <1>3, <2>2, <3>1
  <2>. QED BY <2>1, <2>3
<1>15. H <= r => r # 0
  BY <1>4
<1>. HIDE DEF KeptOf
<1>16. KeptOf(m, num, D)
  BY <1>4, <1>11, <1>13, <1>14, <1>15 DEF KeptOf
<1>. QED BY <1>11, <1>16

(* Nothing is cut when the last place of the result is above bit 0.        *)
LEMMA FrameWhole ==
  ASSUME IInv, pc = "round", NEW num, NEW den, FrameOf(num, den), TargetLsb <= 0,
         NEW D, D = Unit(FieldAt) * den
  PROVE  KeptOf(Truncated, num, D)
<1>. DEFINE mag == z.mag
            k == FrameUnit
            n == -TargetLsb
            e == FieldAt
            m == mag * Pow2[n]
<1>1. /\ mag \in Nat /\ num \in Nat /\ den \in Nat /\ den >= 1
      /\ e \in Nat /\ e >= 1 /\ InTable(e - 1) /\ TargetLsb \in Int /\ InTable(TargetLsb)
      /\ k + TargetLsb = e - 1 /\ Weighs(mag, k, num, den) /\ InTable(k)
  BY FramePlace
<1>2. n \in Nat /\ InTable(n) /\ k = (e - 1) + n /\ e - 1 \in 0..MaxShift
  BY <1>1 DEF InTable
<1>3. Truncated = m
  BY DEF Truncated
<1>. HIDE DEF mag, k, n, e
<1>4. Pow2[n] \in Nat /\ Weighs(mag * Pow2[n], e - 1, num, den)
  <2>. DEFINE f == e - 1
  <2>1. InTable(f) /\ k = f + n
    BY <1>1, <1>2
  <2>. HIDE DEF f
  <2>2. Pow2[n] \in Nat /\ Weighs(mag * Pow2[n], f, num, den)
    BY <1>1, <1>2, <2>1, FinerFrame
  <2>. QED BY <2>2 DEF f
<1>5. Over(e - 1) = Unit(e) /\ Under(e - 1) = 1 /\ Unit(e) \in Nat /\ Unit(e) >= 1
  BY <1>1, <1>2, Pow2Positive DEF Over, Under, Unit
<1>. HIDE DEF m
<1>6. m \in Nat /\ m * (den * Over(e - 1)) = num * Under(e - 1)
  BY <1>4 DEF m, Weighs
<1>7. D = den * Unit(e) /\ D \in Nat /\ D >= 1
  <2>1. den * Unit(e) >= 1 * 1
    BY <1>1, <1>5
  <2>. QED BY <1>1, <1>5, <2>1 DEF e
<1>8. m * D = num
  BY <1>1, <1>5, <1>6, <1>7
<1>9. ~ FrameRoundBit /\ ~ FrameSticky
  BY <1>1 DEF FrameRoundBit, FrameSticky
<1>10. (m + 1) * D = num + D /\ (2 * m + 1) * D = 2 * num + D
  BY <1>1, <1>6, <1>7, <1>8
<1>11. KeptOf(m, num, D)
  BY <1>1, <1>6, <1>7, <1>8, <1>9, <1>10 DEF KeptOf
<1>. QED BY <1>3, <1>11

LEMMA FrameKept ==
  ASSUME IInv, pc = "round", NEW num, NEW den, FrameOf(num, den), NEW D, D = Unit(FieldAt) * den
  PROVE  KeptOf(Truncated, num, D)
<1>1. TargetLsb >= 1 \/ TargetLsb <= 0
  BY FramePlace
<1>. QED BY <1>1, FrameCut, FrameWhole

(* ShouldRoundUp takes the direction the exact number asks for.            *)
LEMMA FrameRoundsUp ==
  ASSUME NEW s \in {0, 1}, NEW md \in Modes, NEW num, NEW D, NEW m, KeptOf(m, num, D)
  PROVE  ShouldRoundUp(s, FrameRoundBit, FrameSticky, m % 2 = 1, md)
           <=> Upwards(s, m, num # m * D, 2 * num >= (2 * m + 1) * D,
                       2 * num = (2 * m + 1) * D, md)
<1>. DEFINE lost == num # m * D
            half == 2 * num >= (2 * m + 1) * D
            tie == 2 * num = (2 * m + 1) * D
<1>1. /\ (FrameRoundBit \/ FrameSticky) <=> lost
      /\ FrameRoundBit <=> half
      /\ FrameSticky => ~ tie
      /\ FrameRoundBit /\ ~ FrameSticky => tie
  BY DEF KeptOf
<1>2. /\ FrameRoundBit \in BOOLEAN /\ FrameSticky \in BOOLEAN
      /\ lost \in BOOLEAN /\ half \in BOOLEAN /\ tie \in BOOLEAN
  BY DEF FrameRoundBit, FrameSticky, BitSet
<1>. HIDE DEF lost, half, tie
<1>3. ShouldRoundUp(s, FrameRoundBit, FrameSticky, m % 2 = 1, md) <=> Upwards(s, m, lost, half, tie, md)
  BY <1>1, <1>2, SameDirection
<1>. QED BY <1>3 DEF lost, half, tie

---------------------------------------------------------------------------
(* The significand of a normal result has its highest bit at FracBits.     *)
LEMMA NormalWidth ==
  ASSUME IInv, pc = "round", ~ Subnormal
  PROVE  /\ Truncated \in Nat /\ ImplicitBit <= Truncated /\ Truncated < 2 * ImplicitBit
         /\ ImplicitBit \in Nat
<1>. DEFINE mag == z.mag
            h == HighestBit(z.mag)
            t == TargetLsb
<1>1. /\ mag \in Nat /\ mag >= 1 /\ mag < Pow2[FrameBits]
      /\ h \in 0..(FrameBits - 1) /\ Pow2[h] <= mag /\ mag < Pow2[h + 1]
  <2>1. z.mag \in Nat /\ z.mag >= 1 /\ z.mag < Pow2[FrameBits]
    BY DEF IInv, Framed
  <2>. QED BY <2>1, HighestBitOf
<1>2. t = h - FracBits /\ ImplicitBit = Pow2[FracBits] /\ ImplicitBit \in Nat
  BY Fields DEF TargetLsb
<1>3. Truncated = IF t <= 0 THEN mag * Pow2[-t] ELSE mag \div Pow2[t]
  BY DEF Truncated
<1>4. 2 * ImplicitBit = Pow2[FracBits + 1]
  BY <1>2, Pow2Step, Widths
<1>. HIDE DEF mag, h, t
<1>5. CASE t <= 0
  <2>1. /\ h \in Nat /\ FracBits \in Nat /\ h <= FracBits /\ FracBits < MaxShift /\ -t = FracBits - h
    BY <1>1, <1>2, <1>5, Widths, FrameWidths
  <2>2. /\ mag * Pow2[FracBits - h] \in Nat /\ Pow2[FracBits] <= mag * Pow2[FracBits - h]
        /\ mag * Pow2[FracBits - h] < Pow2[FracBits + 1]
    BY <1>1, <2>1, ShiftToTop
  <2>. QED BY <1>2, <1>3, <1>4, <1>5, <2>1, <2>2
<1>6. CASE ~ (t <= 0)
  <2>1. t \in Nat /\ FracBits \in Nat /\ h = FracBits + t /\ (FracBits + t) + 1 <= MaxShift
    BY <1>1, <1>2, <1>6, Widths, FrameWidths
  <2>2. /\ mag \div Pow2[t] \in Nat /\ Pow2[FracBits] <= mag \div Pow2[t]
        /\ mag \div Pow2[t] < 2 * Pow2[FracBits]
    BY <1>1, <2>1, DivideRange
  <2>. QED BY <1>2, <1>3, <1>6, <2>2
<1>. QED BY <1>5, <1>6

(* Which way the frame is rounded, and by how much it is off.              *)
FrameLost(num, den) == num # Truncated * (Unit(FieldAt) * den)
FrameUp(num, den) ==
  LET D == Unit(FieldAt) * den
  IN  Upwards(z.sign, Truncated, num # Truncated * D, 2 * num >= (2 * Truncated + 1) * D,
              2 * num = (2 * Truncated + 1) * D, mode)

LEMMA FrameRounds ==
  ASSUME IInv, pc = "round", NEW num, NEW den, FrameOf(num, den)
  PROVE  /\ (FrameRoundBit \/ FrameSticky) <=> FrameLost(num, den)
         /\ ShouldRoundUp(z.sign, FrameRoundBit, FrameSticky, Truncated % 2 = 1, mode)
              <=> FrameUp(num, den)
         /\ RoundedMantissa = (IF FrameUp(num, den) THEN Truncated + 1 ELSE Truncated)
         /\ FrameUp(num, den) \in BOOLEAN
<1>. DEFINE D == Unit(FieldAt) * den
            m == Truncated
<1>1. z.sign \in {0, 1} /\ mode \in Modes
  BY DEF IInv, TypeOK, Framed
<1>2. KeptOf(m, num, D)
  BY FrameKept
<1>. HIDE DEF D, m
<1>3. (FrameRoundBit \/ FrameSticky) <=> num # m * D
  BY <1>2 DEF KeptOf
<1>4. ShouldRoundUp(z.sign, FrameRoundBit, FrameSticky, m % 2 = 1, mode)
        <=> Upwards(z.sign, m, num # m * D, 2 * num >= (2 * m + 1) * D,
                    2 * num = (2 * m + 1) * D, mode)
  BY <1>1, <1>2, FrameRoundsUp
<1>5. ShouldRoundUp(z.sign, FrameRoundBit, FrameSticky, m % 2 = 1, mode) <=> FrameUp(num, den)
  BY <1>4, Zenon DEF FrameUp, m, D
<1>6. RoundedMantissa = (IF FrameUp(num, den) THEN m + 1 ELSE m)
  BY <1>5, Zenon DEF RoundedMantissa, m
<1>7. FrameUp(num, den) \in BOOLEAN
  <2>1. mode = "RNE" \/ mode = "RTZ" \/ mode = "RUP" \/ mode = "RDN" \/ mode = "RNA"
    BY <1>1 DEF Modes
  <2>. DEFINE lost == num # m * D
              half == 2 * num >= (2 * m + 1) * D
              tie == 2 * num = (2 * m + 1) * D
  <2>2. lost \in BOOLEAN /\ half \in BOOLEAN /\ tie \in BOOLEAN
    OBVIOUS
  <2>. HIDE DEF lost, half, tie
  <2>3. Upwards(z.sign, m, lost, half, tie, mode) \in BOOLEAN
    BY <2>1, <2>2 DEF Upwards
  <2>4. FrameUp(num, den) = Upwards(z.sign, m, lost, half, tie, mode)
    BY Zenon DEF FrameUp, m, D, lost, half, tie
  <2>. QED BY <2>3, <2>4
<1>. QED BY <1>3, <1>5, <1>6, <1>7 DEF FrameLost, m, D

LEMMA FrameNeighbour ==
  ASSUME IInv, pc = "round", NEW num, NEW den, FrameOf(num, den),
         FieldAt < ExpMax, Truncated < 2 * ImplicitBit, FieldAt = 1 \/ ImplicitBit <= Truncated
  PROVE  Ref!Round(z.sign, num, den, mode) =
           Neighbour(z.sign, FieldAt, Truncated, FrameUp(num, den), FrameLost(num, den), mode)
<1>. DEFINE D == Unit(FieldAt) * den
            m == Truncated
            e == FieldAt
            s == z.sign
<1>1. s \in {0, 1} /\ mode \in Modes
  BY DEF IInv, TypeOK, Framed
<1>2. KeptOf(m, num, D)
  BY FrameKept
<1>3. num \in Nat /\ den \in Nat /\ den >= 1 /\ e \in 1..(ExpMax - 1)
  BY FramePlace, Fields
<1>4. D = Unit(e) * den /\ m < 2 * ImplicitBit /\ (e = 1 \/ ImplicitBit <= m)
  OBVIOUS
<1>. HIDE DEF D, m, e, s
<1>5. m \in Nat /\ m * D <= num /\ num < (m + 1) * D
  BY <1>2 DEF KeptOf
<1>6. Ref!Round(s, num, den, mode) =
        Neighbour(s, e, m,
                  Upwards(s, m, num # m * D, 2 * num >= (2 * m + 1) * D,
                          2 * num = (2 * m + 1) * D, mode),
                  num # m * D, mode)
  BY <1>1, <1>3, <1>4, <1>5, RoundAt
<1>. QED BY <1>6, Zenon DEF FrameUp, FrameLost, m, D, e, s

(* The three ways round_and_pack ends, each the rounding of the number the *)
(* frame holds.                                                            *)
FrameAnswers(num, den) == [res |-> res', fe |-> fe'] = Ref!Round(z.sign, num, den, mode)

LEMMA SubnormalRounds ==
  ASSUME IInv, NEW num, NEW den, FrameOf(num, den), RoundSubnormal
  PROVE  FrameAnswers(num, den)
<1>. DEFINE s == z.sign
            m == Truncated
            up == FrameUp(num, den)
            lost == FrameLost(num, den)
            M == RoundedMantissa
            I == ImplicitBit
<1>1. /\ pc = "round" /\ Subnormal /\ TargetLsb < FrameBits
      /\ res' = [s |-> s, e |-> M \div I, f |-> Stored(M)]
      /\ fe' = (IF FrameRoundBit \/ FrameSticky THEN {"underflow", "inexact"} ELSE {})
  BY Zenon DEF RoundSubnormal, Done
<1>2. m \in Nat /\ m < I /\ I \in Nat /\ I >= 4 /\ ExpMax >= 3 /\ ExpMax \in Nat
  BY <1>1, TruncatedWidth, GuardPowers, Fields
<1>3. FieldAt = 1
  BY <1>1 DEF FieldAt
<1>4. (FrameRoundBit \/ FrameSticky <=> lost) /\ M = (IF up THEN m + 1 ELSE m)
  BY <1>1, FrameRounds
<1>5. Ref!Round(s, num, den, mode) = Neighbour(s, 1, m, up, lost, mode)
  BY <1>1, <1>2, <1>3, FrameNeighbour
<1>6. Stored(M) = M % I
  BY DEF Stored
<1>7. up \in BOOLEAN /\ lost \in BOOLEAN
  BY <1>1, FrameRounds DEF FrameLost
<1>. HIDE DEF s, m, up, lost, M, I
<1>8. IndexOf(1, IF up THEN m + 1 ELSE m) = M /\ M \in Nat /\ M <= I
  <2>1. M \in Nat /\ M <= I
    BY <1>2, <1>4, <1>7
  <2>2. IndexOf(1, M) = M
    BY <1>2, <2>1 DEF IndexOf, I
  <2>. QED BY <1>4, <2>1, <2>2
<1>9. M # ExpMax * ImplicitBit
  <2>1. ExpMax * I >= 3 * I
    BY <1>2
  <2>. QED BY <1>2, <1>8, <2>1 DEF I
<1>10. Neighbour(s, 1, m, up, lost, mode) =
         [res |-> [s |-> s, e |-> M \div I, f |-> M % I],
          fe |-> IF ~ lost THEN {} ELSE {"inexact"} \cup {"underflow"}]
  BY <1>2, <1>8, <1>9 DEF Neighbour, I
<1>11. fe' = (IF ~ lost THEN {} ELSE {"inexact"} \cup {"underflow"})
  BY <1>1, <1>4
<1>. QED BY <1>1, <1>5, <1>6, <1>10, <1>11 DEF FrameAnswers, s

LEMMA OverflowRounds ==
  ASSUME IInv, pc = "round", NEW num, NEW den, FrameOf(num, den), ~ Subnormal, Biased >= ExpMax
  PROVE  Ref!Round(z.sign, num, den, mode) = Overflow(z.sign, mode)
<1>. DEFINE m == Truncated
            e == FieldAt
            I == ImplicitBit
            X == Unit(ExpMax)
            E == Unit(e)
<1>1. num \in Nat /\ den \in Nat /\ den >= 1 /\ e \in Nat /\ e >= ExpMax /\ InTable(e - 1)
      /\ z.sign \in {0, 1} /\ mode \in Modes
  BY FramePlace
<1>2. m \in Nat /\ I <= m /\ I \in Nat
  BY NormalWidth
<1>3. X \in Nat /\ E \in Nat /\ X <= E
  <2>. DEFINE i == ExpMax - 1
              j == e - 1
  <2>1. i \in Nat /\ j \in Nat /\ i <= j /\ j <= MaxShift /\ i \in 0..MaxShift /\ j \in 0..MaxShift
    BY <1>1, Fields, Widths DEF InTable
  <2>. HIDE DEF i, j
  <2>2. Pow2[i] <= Pow2[j] /\ Pow2[i] \in Nat /\ Pow2[j] \in Nat
    BY <2>1, Pow2Monotone, Pow2Positive
  <2>. QED BY <2>2 DEF Unit, i, j
<1>4. m * (E * den) <= num
  <2>. DEFINE D == E * den
  <2>1. KeptOf(m, num, D)
    BY FrameKept
  <2>. HIDE DEF D
  <2>2. m * D <= num
    BY <2>1 DEF KeptOf
  <2>. QED BY <2>2 DEF D
<1>5. Ref!Magnitude[Ref!InfIndex] = I * X
  BY InfMagnitude, SameFormat
<1>. HIDE DEF m, e, I, X, E
<1>6. (I * X) * den <= num
  <2>1. X * den \in Nat /\ E * den \in Nat /\ X * den <= E * den
    BY <1>1, <1>3
  <2>. DEFINE x == X * den
              y == E * den
  <2>2. x \in Nat /\ y \in Nat /\ x <= y /\ m * y <= num
    BY <1>4, <2>1
  <2>3. (I * X) * den = I * x
    BY <1>1, <1>2, <1>3, Z3
  <2>. HIDE DEF x, y
  <2>4. I * x <= I * y /\ I * y <= m * y /\ m * y \in Nat /\ I * x \in Nat /\ I * y \in Nat
    BY <1>2, <2>2
  <2>. QED BY <1>1, <2>2, <2>3, <2>4
<1>7. Ref!Round(z.sign, num, den, mode) = Ref!Overflows(z.sign, mode)
  <2>1. num >= Ref!Magnitude[Ref!InfIndex] * den
    <3>. DEFINE x == (I * X) * den
    <3>1. x <= num /\ x \in Nat
      BY <1>1, <1>2, <1>3, <1>6
    <3>. HIDE DEF x
    <3>2. num >= x
      BY <1>1, <3>1
    <3>. QED BY <1>5, <3>2 DEF x
  <2>. QED BY <2>1, Zenon DEF Ref!Round
<1>. QED BY <1>1, <1>7, SameOverflow

LEMMA NormalRounds ==
  ASSUME IInv, NEW num, NEW den, FrameOf(num, den), RoundNormal
  PROVE  FrameAnswers(num, den)
<1>. DEFINE s == z.sign
            m == Truncated
            e == Biased
            up == FrameUp(num, den)
            lost == FrameLost(num, den)
            M == RoundedMantissa
            I == ImplicitBit
            carry == BitSet(M, FracBits + 1)
            field == IF carry THEN e + 1 ELSE e
            o == Overflow(s, mode)
<1>1. pc = "round" /\ ~ Subnormal
  BY DEF RoundNormal
<1>2. /\ e >= ExpMax \/ field >= ExpMax => res' = o.res /\ fe' = o.fe
      /\ ~ (e >= ExpMax \/ field >= ExpMax) =>
           /\ res' = [s |-> s, e |-> field, f |-> Stored(M)]
           /\ fe' = (IF FrameRoundBit \/ FrameSticky THEN {"inexact"} ELSE {})
  BY Zenon DEF RoundNormal, Done
<1>3. /\ m \in Nat /\ I <= m /\ m < 2 * I /\ I \in Nat /\ I >= 4
      /\ ExpMax >= 3 /\ ExpMax \in Nat /\ s \in {0, 1} /\ mode \in Modes
  BY <1>1, NormalWidth, GuardPowers, Fields DEF IInv, TypeOK, Framed
<1>4. e \in Nat /\ e >= 1 /\ FieldAt = e
  BY <1>1, FramePlace
<1>5. (FrameRoundBit \/ FrameSticky <=> lost) /\ M = (IF up THEN m + 1 ELSE m)
  BY <1>1, FrameRounds
<1>6. up \in BOOLEAN /\ lost \in BOOLEAN /\ carry \in BOOLEAN
  BY <1>1, FrameRounds DEF FrameLost, BitSet
<1>7. M \in Nat /\ M <= 2 * I
  BY <1>3, <1>5
<1>8. carry <=> 2 * I <= M
  <2>. DEFINE n == FracBits + 1
  <2>1. n \in Nat /\ n < MaxShift /\ n + 1 <= MaxShift /\ FracBits \in Nat /\ n <= MaxShift
    BY Widths
  <2>2. Pow2[n] = 2 * I
    <3>1. Pow2[FracBits + 1] = 2 * Pow2[FracBits]
      BY <2>1, Pow2Step
    <3>. QED BY <3>1, Fields
  <2>. HIDE DEF n
  <2>3. Pow2[n + 1] = 2 * Pow2[n]
    BY <2>1, Pow2Step
  <2>4. M < Pow2[n + 1]
    <3>. HIDE DEF M, I
    <3>. QED BY <1>3, <1>7, <2>2, <2>3
  <2>5. BitSet(M, n) <=> Pow2[n] <= M
    <3>. HIDE DEF M
    <3>. QED BY <1>7, <2>1, <2>4, TopBit
  <2>. QED BY <2>2, <2>5 DEF n
<1>9. o = [res |-> o.res, fe |-> o.fe]
  BY DEF Overflow
<1>10. Stored(M) = M % I
  BY DEF Stored
<1>11. CASE e >= ExpMax
  <2>1. Ref!Round(s, num, den, mode) = o
    BY <1>1, <1>11, OverflowRounds
  <2>. HIDE DEF o, field
  <2>. QED BY <1>2, <1>9, <1>11, <2>1 DEF FrameAnswers
<1>12. CASE ~ (e >= ExpMax)
  <2>1. e \in 1..(ExpMax - 1) /\ e < ExpMax /\ e \in 1..ExpMax
    BY <1>3, <1>4, <1>12
  <2>2. Ref!Round(s, num, den, mode) = Neighbour(s, e, m, up, lost, mode)
    BY <1>1, <1>3, <1>4, <2>1, FrameNeighbour
  <2>. DEFINE i == IndexOf(e, IF up THEN m + 1 ELSE m)
  <2>3. Neighbour(s, e, m, up, lost, mode) =
          IF up /\ i = ExpMax * I THEN o
          ELSE [res |-> [s |-> s, e |-> i \div I, f |-> i % I],
                fe |-> IF ~ lost THEN {} ELSE {"inexact"}]
    <3>1. ~ (e = 1 /\ m < I)
      BY <1>3
    <3>2. {"inexact"} \cup {} = {"inexact"}
      OBVIOUS
    <3>. QED BY <3>1, <3>2, Zenon DEF Neighbour
  <2>4. i = IndexOf(e, M)
    BY <1>5
  <2>. HIDE DEF s, m, e, up, lost, M, I, carry, o, i
  <2>5. CASE M < 2 * I
    <3>1. field = e /\ field < ExpMax
      BY <1>3, <1>7, <1>8, <2>1, <2>5
    <3>2. e = 1 \/ I <= M
      BY <1>3, <1>5, <1>7
    <3>3. /\ i % I = M % I
          /\ I <= M
          /\ i \div I = e
      <4>1. I <= M
        BY <1>3, <1>5, <1>7
      <4>. QED BY <1>7, <2>1, <2>4, <2>5, <4>1, FieldsOf DEF I
    <3>4. i # ExpMax * I
      <4>1. (ExpMax * I) \div I = ExpMax
        <5>1. (ExpMax * I + 0) \div I = ExpMax
          BY <1>3, Join
        <5>2. ExpMax * I + 0 = ExpMax * I
          BY <1>3
        <5>. QED BY <5>1, <5>2
      <4>. QED BY <2>1, <3>3, <4>1
    <3>5. ~ (e >= ExpMax \/ field >= ExpMax)
      BY <1>3, <1>12, <2>1, <3>1
    <3>6. /\ res' = [s |-> s, e |-> e, f |-> M % I]
          /\ fe' = (IF ~ lost THEN {} ELSE {"inexact"})
      BY <1>2, <1>5, <1>6, <1>10, <3>1, <3>5
    <3>. HIDE DEF field
    <3>. QED BY <2>2, <2>3, <3>3, <3>4, <3>6 DEF FrameAnswers, s
  <2>6. CASE M = 2 * I
    <3>1. carry /\ field = e + 1 /\ up
      BY <1>3, <1>5, <1>6, <1>8, <2>6
    <3>2. i = (e + 1) * I + 0
      <4>1. (e - 1) * I + 2 * I = (e + 1) * I + 0
        BY <1>3, <1>4, Z3
      <4>. QED BY <2>4, <2>6, <4>1 DEF IndexOf, I
    <3>3. i \div I = e + 1 /\ i % I = 0
      BY <1>3, <1>4, <3>2, Join
    <3>4. M % I = 0
      <4>1. (2 * I + 0) % I = 0
        BY <1>3, Join
      <4>. QED BY <1>3, <2>6, <4>1
    <3>5. CASE e + 1 = ExpMax
      <4>1. field >= ExpMax
        BY <1>3, <3>1, <3>5
      <4>2. i = ExpMax * I
        BY <1>3, <3>2, <3>5
      <4>. HIDE DEF field
      <4>. QED BY <1>2, <1>9, <2>2, <2>3, <3>1, <4>1, <4>2 DEF FrameAnswers, s
    <3>6. CASE e + 1 # ExpMax
      <4>1. ~ (e >= ExpMax \/ field >= ExpMax)
        BY <1>3, <2>1, <3>1, <3>6
      <4>2. i # ExpMax * I
        <5>1. (ExpMax * I + 0) \div I = ExpMax
          BY <1>3, Join
        <5>2. ExpMax * I + 0 = ExpMax * I
          BY <1>3
        <5>. QED BY <3>3, <3>6, <5>1, <5>2
      <4>3. /\ res' = [s |-> s, e |-> e + 1, f |-> 0]
            /\ fe' = (IF ~ lost THEN {} ELSE {"inexact"})
        BY <1>2, <1>5, <1>6, <1>10, <3>1, <3>4, <4>1
      <4>. HIDE DEF field
      <4>. QED BY <2>2, <2>3, <3>3, <4>2, <4>3 DEF FrameAnswers, s
    <3>. QED BY <3>5, <3>6
  <2>. QED BY <1>3, <1>7, <2>5, <2>6
<1>. QED BY <1>11, <1>12

LEMMA FarBelowRounds ==
  ASSUME IInv, z.mag < Pow2[FrameBits - 1], NEW num, NEW den, FrameOf(num, den), RoundFarBelow
  PROVE  FrameAnswers(num, den)
<1>. DEFINE s == z.sign
            mag == z.mag
            t == TargetLsb
            m == Truncated
            up == FrameUp(num, den)
            lost == FrameLost(num, den)
            I == ImplicitBit
            away == (mode = "RUP" /\ s = 0) \/ (mode = "RDN" /\ s = 1)
<1>1. /\ pc = "round" /\ t >= FrameBits
      /\ res' = [s |-> s, e |-> 0, f |-> IF away THEN 1 ELSE 0]
      /\ fe' = {"underflow", "inexact"}
  BY Zenon DEF RoundFarBelow, Done
<1>2. /\ mag \in Nat /\ mag >= 1 /\ s \in {0, 1} /\ mode \in Modes
      /\ t \in Int /\ InTable(t) /\ HighestBit(mag) \in 0..(FrameBits - 1)
      /\ Subnormal => FieldAt = 1
      /\ ~ Subnormal => t = HighestBit(mag) - FracBits
  BY <1>1, FramePlace
<1>3. FieldAt = 1
  <2>1. Subnormal
    <3>. HIDE DEF t
    <3>. QED BY <1>1, <1>2, Widths, FrameWidths
  <2>. QED BY <1>2, <2>1
<1>4. /\ I \in Nat /\ I >= 4 /\ ExpMax >= 3 /\ ExpMax \in Nat
  BY GuardPowers, Fields
<1>. DEFINE i == t - 1
<1>5. t \in Nat /\ i \in Nat /\ i + 1 = t /\ i + 1 <= MaxShift /\ i >= FrameBits - 1 /\ FrameBits - 1 \in Nat
      /\ i <= MaxShift /\ t >= 2 /\ i < MaxShift /\ i \in 0..MaxShift
  BY <1>1, <1>2, Widths, FrameWidths DEF InTable
<1>6. mag < Pow2[i] /\ Pow2[i + 1] = 2 * Pow2[i] /\ Pow2[i] \in Nat
  <2>. HIDE DEF i, t, mag
  <2>1. Pow2[FrameBits - 1] <= Pow2[i] /\ Pow2[FrameBits - 1] \in Nat /\ Pow2[i] \in Nat
    <3>1. FrameBits - 1 \in 0..MaxShift
      BY <1>5, Widths
    <3>. DEFINE j == FrameBits - 1
    <3>. HIDE DEF j
    <3>2. j \in Nat /\ j <= i /\ j \in 0..MaxShift
      BY <1>5, <3>1 DEF j
    <3>3. Pow2[j] <= Pow2[i] /\ Pow2[j] \in Nat /\ Pow2[i] \in Nat
      BY <1>5, <3>2, Pow2Monotone, Pow2Positive
    <3>. QED BY <3>3 DEF j
  <2>2. mag < Pow2[FrameBits - 1]
    BY DEF mag
  <2>. QED BY <1>2, <1>5, <2>1, <2>2, Pow2Step
<1>. HIDE DEF t
<1>7. m = 0
  <2>1. m = mag \div Pow2[t] /\ mag < Pow2[t] /\ Pow2[t] \in Nat /\ Pow2[t] >= 1
    BY <1>1, <1>2, <1>5, <1>6 DEF Truncated, t
  <2>. HIDE DEF mag, m
  <2>. DEFINE d == Pow2[t]
  <2>2. m = mag \div d /\ mag < d /\ d \in Nat
    BY <2>1
  <2>. HIDE DEF d
  <2>3. (0 * d + mag) \div d = 0
    BY <1>2, <2>2, Join
  <2>4. 0 * d + mag = mag
    BY <1>2, <2>2
  <2>. QED BY <2>2, <2>3, <2>4
<1>8. ~ FrameRoundBit
  <2>1. BitSet(mag, i) <=> Pow2[i] <= mag
    <3>1. mag < Pow2[i + 1]
      BY <1>2, <1>6
    <3>. HIDE DEF mag, i
    <3>. QED BY <1>2, <1>5, <3>1, TopBit
  <2>2. ~ BitSet(mag, i)
    BY <1>2, <1>6, <2>1
  <2>. QED BY <2>2 DEF FrameRoundBit, t
<1>9. FrameSticky
  <2>. DEFINE d == Pow2[i]
  <2>. HIDE DEF d
  <2>1. mag % d = mag
    <3>1. (0 * d + mag) % d = mag
      BY <1>2, <1>6, Join DEF d
    <3>2. 0 * d + mag = mag
      BY <1>2, <1>6 DEF d
    <3>. QED BY <3>1, <3>2
  <2>2. mag % Pow2[TargetLsb - 1] = mag
    BY <2>1 DEF d, t
  <2>. QED BY <1>2, <1>5, <2>2 DEF FrameSticky, t
<1>10. lost /\ (up <=> away)
  <2>1. /\ (FrameRoundBit \/ FrameSticky) <=> lost
        /\ ShouldRoundUp(s, FrameRoundBit, FrameSticky, m % 2 = 1, mode) <=> up
    BY <1>1, FrameRounds
  <2>2. m % 2 # 1
    BY <1>7
  <2>. HIDE DEF up, lost, m
  <2>3. mode = "RNE" \/ mode = "RTZ" \/ mode = "RUP" \/ mode = "RDN" \/ mode = "RNA"
    BY <1>2 DEF Modes
  <2>4. ShouldRoundUp(s, FALSE, TRUE, FALSE, mode) <=> away
    BY <1>2, <2>3 DEF ShouldRoundUp
  <2>5. ShouldRoundUp(s, FrameRoundBit, FrameSticky, m % 2 = 1, mode)
          <=> ShouldRoundUp(s, FALSE, TRUE, FALSE, mode)
    BY <1>8, <1>9, <2>2 DEF ShouldRoundUp
  <2>. QED BY <1>9, <2>1, <2>4, <2>5
<1>11. Ref!Round(s, num, den, mode) = Neighbour(s, 1, m, up, lost, mode)
  BY <1>1, <1>3, <1>4, <1>7, FrameNeighbour
<1>. HIDE DEF s, m, up, lost, I
<1>12. IndexOf(1, IF up THEN m + 1 ELSE m) = (IF up THEN 1 ELSE 0)
  BY <1>4, <1>7 DEF IndexOf, I
<1>13. /\ 1 \div I = 0 /\ 1 % I = 1 /\ 0 \div I = 0 /\ 0 % I = 0
       /\ 1 # ExpMax * I /\ 0 # ExpMax * I
  <2>1. (0 * I + 1) \div I = 0 /\ (0 * I + 1) % I = 1 /\ (0 * I + 0) \div I = 0 /\ (0 * I + 0) % I = 0
    BY <1>4, Join
  <2>2. 0 * I + 1 = 1 /\ 0 * I + 0 = 0
    BY <1>4
  <2>3. ExpMax * I >= 3 * 4
    BY <1>4
  <2>. QED BY <1>4, <2>1, <2>2, <2>3
<1>14. Neighbour(s, 1, m, up, lost, mode) =
         [res |-> [s |-> s, e |-> 0, f |-> IF up THEN 1 ELSE 0],
          fe |-> {"inexact"} \cup {"underflow"}]
  <2>1. m < I
    BY <1>4, <1>7
  <2>2. CASE up
    BY <1>10, <1>12, <1>13, <2>1, <2>2 DEF Neighbour, I
  <2>3. CASE ~ up
    BY <1>10, <1>12, <1>13, <2>1, <2>3 DEF Neighbour, I
  <2>. QED BY <2>2, <2>3
<1>15. {"inexact"} \cup {"underflow"} = {"underflow", "inexact"}
  OBVIOUS
<1>. QED BY <1>1, <1>10, <1>11, <1>14, <1>15 DEF FrameAnswers, s

---------------------------------------------------------------------------
(* What IEEE 754 prescribes: the exact product is num / den units, to      *)
(* which the addend is brought.                                            *)
Expected == Ref!FusedMultiplyAdd(a, b, c, mode)

ExactlyProduct(num, den) ==
  /\ num \in Nat /\ num >= 1 /\ den \in Nat /\ den >= 1
  /\ num * Pow2[Ref!LogOne] = (Ref!Mag(a) * Ref!Mag(b)) * den

RoundedSum(sum, den) ==
  IF sum = 0 THEN Ref!Result(Ref!ZeroSum(ProductSign, c.s, mode), {})
  ELSE Ref!Round(IF sum < 0 THEN 1 ELSE 0, IF sum < 0 THEN -sum ELSE sum, den, mode)

LEMMA Factors ==
  ASSUME TypeOK, Finite, ~ ZeroProduct
  PROVE  /\ a \in Values /\ a.e < ExpMax /\ ~ IsZero(a) /\ ~ IsNaN(a) /\ ~ IsInf(a)
         /\ b \in Values /\ b.e < ExpMax /\ ~ IsZero(b) /\ ~ IsNaN(b) /\ ~ IsInf(b)
         /\ c \in Values /\ c.e < ExpMax /\ ~ IsNaN(c) /\ ~ IsInf(c)
         /\ ProductSign \in {0, 1} /\ c.s \in {0, 1} /\ ZeroSign \in {0, 1} /\ mode \in Modes
<1>1. /\ a \in Values /\ ~ IsNaN(a) /\ ~ IsInf(a) /\ ~ IsZero(a)
      /\ b \in Values /\ ~ IsNaN(b) /\ ~ IsInf(b) /\ ~ IsZero(b)
      /\ c \in Values /\ ~ IsNaN(c) /\ ~ IsInf(c) /\ mode \in Modes
  BY DEF TypeOK, Finite, Numbers, AnyNaN, ZeroProduct
<1>2. \A v \in Values : ~ IsNaN(v) /\ ~ IsInf(v) => v.e < ExpMax
  BY Fields DEF Values, IsNaN, IsInf
<1>3. ProductSign \in {0, 1} /\ c.s \in {0, 1} /\ ZeroSign \in {0, 1}
  <2>1. a.s \in {0, 1} /\ b.s \in {0, 1} /\ c.s \in {0, 1}
    BY <1>1 DEF Values
  <2>. QED BY <2>1 DEF ProductSign, ZeroSign
<1>. QED BY <1>1, <1>2, <1>3

LEMMA FusedIs ==
  ASSUME TypeOK, Finite, ~ ZeroProduct
  PROVE  \E num \in Nat, den \in Nat :
           /\ ExactlyProduct(num, den)
           /\ Expected = RoundedSum((IF ProductSign = 0 THEN num ELSE -num) + Ref!Signed(c) * den, den)
<1>. DEFINE M == Ref!Mag(a)
            N == Ref!Mag(b)
            n == Ref!Twos(M) + Ref!Twos(N) - Ref!LogOne
            o == Ref!Odd(M) * Ref!Odd(N)
            num == o * Over(n)
            den == Under(n)
            k == IF n < 0 THEN -n ELSE 0
            One == Pow2[Ref!LogOne]
<1>1. /\ a \in Values /\ a.e < ExpMax /\ ~ IsZero(a) /\ ~ IsNaN(a) /\ ~ IsInf(a)
      /\ b \in Values /\ b.e < ExpMax /\ ~ IsZero(b) /\ ~ IsNaN(b) /\ ~ IsInf(b)
      /\ ~ IsNaN(c) /\ ~ IsInf(c)
  BY Factors
<1>2. /\ InTable(n) /\ den \in Nat /\ den >= 1 /\ o \in Nat /\ num \in Nat
      /\ num * One = (M * N) * den
  <2>1. WideTable
    BY TableAssumption DEF TableAssumption, WideTable
  <2>. HIDE DEF M, N, n
  <2>2. M = Ref!Mag(a) /\ N = Ref!Mag(b) /\ n = Ref!Twos(M) + Ref!Twos(N) - Ref!LogOne
    BY DEF M, N, n
  <2>. QED BY <1>1, <2>1, <2>2, OddProduct
<1>3. M \in Nat /\ M >= 1 /\ N \in Nat /\ N >= 1
  BY <1>1, OperandMagnitude
<1>4. One \in Nat
  <2>1. Ref!LogOne \in 0..MaxShift
    BY SameFormat, Fields, Widths
  <2>. QED BY <2>1, Pow2Positive
<1>5. Pow2[k] = den /\ Pow2[n + k] = Over(n)
  <2>. HIDE DEF n
  <2>1. n \in Int
    BY <1>2 DEF InTable
  <2>2. CASE n >= 0
    <3>1. k = 0 /\ n + k = n
      BY <2>1, <2>2
    <3>. QED BY <2>2, <3>1, Pow2Step DEF Over, Under
  <2>3. CASE ~ (n >= 0)
    <3>1. k = -n /\ n + k = 0
      BY <2>1, <2>3
    <3>. QED BY <2>3, <3>1, Pow2Step DEF Over, Under
  <2>. QED BY <2>2, <2>3
<1>. DEFINE product == o * Pow2[n + k]
            sum == (IF Ref!SignOf(a, b) = 0 THEN product ELSE -product) + Ref!Signed(c) * Pow2[k]
<1>6. Expected = IF sum = 0 THEN Ref!Result(Ref!ZeroSum(Ref!SignOf(a, b), c.s, mode), {})
                 ELSE Ref!Round(IF sum < 0 THEN 1 ELSE 0, IF sum < 0 THEN -sum ELSE sum, Pow2[k], mode)
  <2>1. /\ ~ Ref!IsZero(a) /\ ~ Ref!IsNaN(a) /\ ~ Ref!IsInf(a)
        /\ ~ Ref!IsZero(b) /\ ~ Ref!IsNaN(b) /\ ~ Ref!IsInf(b)
        /\ ~ Ref!IsNaN(c) /\ ~ Ref!IsInf(c)
    BY <1>1, SameClasses
  <2>. QED BY <2>1, Zenon DEF Expected, Ref!FusedMultiplyAdd
<1>7. Ref!SignOf(a, b) = ProductSign
  BY DEF Ref!SignOf, ProductSign
<1>. HIDE DEF M, N, n, o, k, One
<1>8. num >= 1
  <2>. HIDE DEF num, den
  <2>1. M * N >= 1 /\ M * N \in Nat
    <3>1. M * N >= 1 * 1
      BY <1>3
    <3>. QED BY <1>3, <3>1
  <2>. DEFINE X == M * N
  <2>. HIDE DEF X
  <2>2. X * den >= 1 * 1
    BY <1>2, <2>1 DEF X
  <2>3. num = 0 => num * One = 0
    BY <1>4
  <2>4. num * One >= 1
    BY <1>2, <2>2 DEF X
  <2>. QED BY <1>2, <2>3, <2>4
<1>9. ExactlyProduct(num, den)
  BY <1>2, <1>8 DEF ExactlyProduct, M, N, One
<1>10. Expected = RoundedSum((IF ProductSign = 0 THEN num ELSE -num) + Ref!Signed(c) * den, den)
  <2>. DEFINE x == (IF ProductSign = 0 THEN num ELSE -num) + Ref!Signed(c) * den
  <2>1. sum = x
    BY <1>5, <1>7
  <2>. HIDE DEF sum, x, num, den
  <2>2. Expected = RoundedSum(x, den)
    BY <1>5, <1>6, <1>7, <2>1, Zenon DEF RoundedSum
  <2>. QED BY <2>2 DEF x
<1>. HIDE DEF num, den
<1>. QED BY <1>2, <1>9, <1>10

(* The exact sum by the signs of product and addend.                       *)
LEMMA SignedSum ==
  ASSUME NEW s \in {0, 1}, NEW n \in Nat, n >= 1, NEW x, x = (IF s = 0 THEN n ELSE -n), NEW den
  PROVE  RoundedSum(x, den) = Ref!Round(s, n, den, mode)
<1>1. /\ x # 0
      /\ (IF x < 0 THEN 1 ELSE 0) = s
      /\ (IF x < 0 THEN -x ELSE x) = n
  <2>1. CASE s = 0
    BY <2>1
  <2>2. CASE s = 1
    <3>1. x = -n
      BY <2>2
    <3>. QED BY <2>2, <3>1
  <2>. QED BY <2>1, <2>2
<1>. QED BY <1>1, Zenon DEF RoundedSum

LEMMA SumBySigns ==
  ASSUME TypeOK, Finite, ~ ZeroProduct, NEW num \in Nat, num >= 1, NEW den \in Nat, den >= 1,
         NEW sum, sum = (IF ProductSign = 0 THEN num ELSE -num) + Ref!Signed(c) * den,
         NEW s, s = Ref!Mag(c) * den
  PROVE  /\ IsZero(c) => RoundedSum(sum, den) = Ref!Round(ProductSign, num, den, mode)
         /\ ~ IsZero(c) /\ ProductSign = c.s =>
              RoundedSum(sum, den) = Ref!Round(c.s, num + s, den, mode)
         /\ ~ IsZero(c) /\ ProductSign # c.s =>
              /\ num = s => RoundedSum(sum, den) = [res |-> SignedZero(ZeroSign), fe |-> {}]
              /\ num > s => RoundedSum(sum, den) = Ref!Round(ProductSign, num - s, den, mode)
              /\ s > num => RoundedSum(sum, den) = Ref!Round(c.s, s - num, den, mode)
<1>1. ProductSign \in {0, 1} /\ c.s \in {0, 1} /\ c \in Values /\ c.e < ExpMax
  BY Factors
<1>. DEFINE p == IF ProductSign = 0 THEN num ELSE -num
            q == Ref!Signed(c) * den
<1>2. /\ IsZero(c) => Ref!Signed(c) = 0
      /\ ~ IsZero(c) => /\ Ref!Mag(c) \in Nat /\ Ref!Mag(c) >= 1
                        /\ c.s = 0 => Ref!Signed(c) = Ref!Mag(c)
                        /\ c.s = 1 => Ref!Signed(c) = -Ref!Mag(c)
  BY <1>1, SignedFacts
<1>3. /\ IsZero(c) => q = 0
      /\ ~ IsZero(c) => s \in Nat /\ s >= 1 /\ q = (IF c.s = 0 THEN s ELSE -s)
  <2>. DEFINE m == Ref!Mag(c)
  <2>1. IsZero(c) => q = 0
    BY <1>2
  <2>2. ASSUME ~ IsZero(c) PROVE s \in Nat /\ s >= 1 /\ q = (IF c.s = 0 THEN s ELSE -s)
    <3>1. m \in Nat /\ m >= 1 /\ s = m * den
      BY <1>2, <2>2
    <3>2. q = (IF c.s = 0 THEN m ELSE -m) * den
      BY <1>1, <1>2, <2>2
    <3>. HIDE DEF m, q
    <3>3. m * den >= 1 * 1 /\ m * den \in Nat /\ (-m) * den = -(m * den)
      BY <3>1
    <3>4. s \in Nat /\ s >= 1
      BY <3>1, <3>3
    <3>. QED BY <1>1, <3>1, <3>2, <3>3, <3>4
  <2>. QED BY <2>1, <2>2
<1>4. sum = p + q
  OBVIOUS
<1>. HIDE DEF q
<1>5. ASSUME IsZero(c)
      PROVE  RoundedSum(sum, den) = Ref!Round(ProductSign, num, den, mode)
  <2>1. sum = (IF ProductSign = 0 THEN num ELSE -num)
    BY <1>1, <1>3, <1>4, <1>5
  <2>. QED BY <1>1, <2>1, SignedSum
<1>6. ASSUME ~ IsZero(c), ProductSign = c.s
      PROVE  RoundedSum(sum, den) = Ref!Round(c.s, num + s, den, mode)
  <2>. DEFINE n == num + s
  <2>1. sum = (IF c.s = 0 THEN n ELSE -n) /\ n \in Nat /\ n >= 1
    BY <1>1, <1>3, <1>4, <1>6
  <2>. HIDE DEF n
  <2>2. RoundedSum(sum, den) = Ref!Round(c.s, n, den, mode)
    BY <1>1, <2>1, SignedSum
  <2>. QED BY <2>2 DEF n
<1>7. ASSUME ~ IsZero(c), ProductSign # c.s
      PROVE  /\ num = s => RoundedSum(sum, den) = [res |-> SignedZero(ZeroSign), fe |-> {}]
             /\ num > s => RoundedSum(sum, den) = Ref!Round(ProductSign, num - s, den, mode)
             /\ s > num => RoundedSum(sum, den) = Ref!Round(c.s, s - num, den, mode)
  <2>1. s \in Nat /\ q = (IF c.s = 0 THEN s ELSE -s)
    BY <1>3, <1>7
  <2>2. ASSUME num = s PROVE RoundedSum(sum, den) = [res |-> SignedZero(ZeroSign), fe |-> {}]
    <3>1. sum = 0
      <4>1. sum <= 0 /\ sum >= 0 /\ sum \in Int
        BY <1>1, <1>4, <1>7, <2>1, <2>2
      <4>. QED BY <4>1
    <3>2. Ref!ZeroSum(ProductSign, c.s, mode) = SignedZero(ZeroSign)
      BY <1>7, SameFormat, Zenon DEF Ref!ZeroSum, ZeroSign
    <3>. QED BY <3>1, <3>2, Zenon DEF RoundedSum, Ref!Result
  <2>3. ASSUME num > s PROVE RoundedSum(sum, den) = Ref!Round(ProductSign, num - s, den, mode)
    <3>. DEFINE n == num - s
    <3>1. sum = (IF ProductSign = 0 THEN n ELSE -n) /\ n \in Nat /\ n >= 1
      BY <1>1, <1>4, <1>7, <2>1, <2>3
    <3>. HIDE DEF n
    <3>2. RoundedSum(sum, den) = Ref!Round(ProductSign, n, den, mode)
      BY <1>1, <3>1, SignedSum
    <3>. QED BY <3>2 DEF n
  <2>4. ASSUME s > num PROVE RoundedSum(sum, den) = Ref!Round(c.s, s - num, den, mode)
    <3>. DEFINE n == s - num
    <3>1. sum = (IF c.s = 0 THEN n ELSE -n) /\ n \in Nat /\ n >= 1
      BY <1>1, <1>4, <1>7, <2>1, <2>4
    <3>. HIDE DEF n
    <3>2. RoundedSum(sum, den) = Ref!Round(c.s, n, den, mode)
      BY <1>1, <3>1, SignedSum
    <3>. QED BY <3>2 DEF n
  <2>. QED BY <2>2, <2>3, <2>4
<1>. QED BY <1>5, <1>6, <1>7

---------------------------------------------------------------------------
(* The answer.  A frame that is handed to the rounding holds the magnitude *)
(* of the exact sum.                                                       *)
Held ==
  pc = "round" =>
    /\ z.mag < Pow2[FrameBits - 1]
    /\ \E num \in Nat, den \in Nat :
         FrameOf(num, den) /\ Expected = Ref!Round(z.sign, num, den, mode)

FInv == IInv /\ Held /\ CorrectFma

LEMMA DoneAnswers ==
  ASSUME IInv', NEW v, NEW flags, Done(v, flags), Expected = [res |-> v, fe |-> flags]
  PROVE  FInv'
<1>1. /\ pc' = "done" /\ res' = v /\ fe' = flags
      /\ a' = a /\ b' = b /\ c' = c /\ mode' = mode
  BY DEF Done
<1>2. CorrectFma'
  BY <1>1 DEF CorrectFma, Expected
<1>. QED BY <1>1, <1>2 DEF FInv, Held

LEMMA FrameHeld ==
  ASSUME IInv', NEW sign, NEW mag, NEW exp, Frame(sign, mag, exp), mag < Pow2[FrameBits - 1],
         NEW num \in Nat, NEW den \in Nat,
         Holds(mag, exp - LeastExp, num, den),
         (exp - LeastExp) + HighestBit(mag) - FracBits <= MaxShift,
         Expected = Ref!Round(sign, num, den, mode)
  PROVE  FInv'
<1>1. /\ pc' = "round" /\ z'.sign = sign /\ z'.mag = mag /\ z'.exp = exp
      /\ a' = a /\ b' = b /\ c' = c /\ mode' = mode
  BY DEF Frame
<1>2. Expected' = Expected
  BY <1>1 DEF Expected
<1>3. FrameOf(num, den)'
  BY <1>1 DEF FrameOf, FrameUnit, LeastExp
<1>4. Held'
  BY <1>1, <1>2, <1>3 DEF Held
<1>. QED BY <1>1, <1>4 DEF FInv, CorrectFma

LEMMA SpecialAnswer ==
  ASSUME FInv, IInv', Undefined \/ NaNOperand \/ InfiniteProduct \/ InfiniteAddend
  PROVE  FInv'
<1>1. /\ TypeOK /\ pc = "enter" /\ a \in Values /\ b \in Values /\ c \in Values
      /\ ProductSign \in {0, 1}
  <2>1. TypeOK
    BY DEF FInv, IInv
  <2>2. a.s \in {0, 1} /\ b.s \in {0, 1} /\ a \in Values /\ b \in Values /\ c \in Values
    BY <2>1 DEF TypeOK, Values
  <2>3. ProductSign \in {0, 1}
    BY <2>2 DEF ProductSign
  <2>. QED BY <2>1, <2>2, <2>3 DEF Undefined, NaNOperand, InfiniteProduct, InfiniteAddend, Numbers
<1>2. /\ \A v : /\ Ref!IsNaN(v) <=> IsNaN(v)
                /\ Ref!IsSNaN(v) <=> IsSNaN(v)
                /\ Ref!IsInf(v) <=> IsInf(v)
                /\ Ref!IsZero(v) <=> IsZero(v)
                /\ Ref!Quiet(v) = Quiet(v)
      /\ Ref!CanonicalNaN = CanonicalNaN
      /\ \A s : Ref!SignedZero(s) = SignedZero(s) /\ Ref!SignedInf(s) = SignedInf(s)
  BY SameClasses, SameFormat
<1>3. Ref!Invalid = [res |-> CanonicalNaN, fe |-> {"invalid"}] /\ Ref!SignOf(a, b) = ProductSign
  BY <1>2 DEF Ref!Invalid, Ref!Result, Ref!SignOf, ProductSign
<1>4. \A v : (IsInf(v) => ~ IsZero(v) /\ ~ IsNaN(v)) /\ (IsZero(v) => ~ IsInf(v) /\ ~ IsNaN(v))
  BY Fields DEF IsInf, IsZero, IsNaN
<1>5. \A v \in Values : IsInf(v) => v = SignedInf(v.s)
  BY DEF IsInf, SignedInf, Values
<1>6. /\ IsInf(SignedInf(ProductSign)) /\ IsZero(SignedZero(ProductSign))
      /\ SignedInf(ProductSign).s = ProductSign
  BY DEF IsInf, IsZero, SignedInf, SignedZero
<1>7. CASE Undefined
  <2>1. Done(CanonicalNaN, {"invalid"}) /\ InvalidProduct
    BY <1>7 DEF Undefined
  <2>2. Expected = Ref!Invalid
    BY <1>2, <2>1, Zenon DEF Expected, Ref!FusedMultiplyAdd, InvalidProduct, InvalidProductOf
  <2>. QED BY <1>3, <2>1, <2>2, DoneAnswers
<1>8. CASE NaNOperand
  <2>. DEFINE v == IF IsNaN(a) \/ IsNaN(b) THEN PropagateNaN(a, b) ELSE Quiet(c)
              flags == IF IsSNaN(a) \/ IsSNaN(b) \/ IsSNaN(c) THEN {"invalid"} ELSE {}
  <2>1. Done(v, flags) /\ AnyNaN /\ ~ InvalidProduct
    BY <1>8 DEF NaNOperand
  <2>2. Ref!PropagateNaN(a, b) = PropagateNaN(a, b)
    BY <1>2, Zenon DEF Ref!PropagateNaN, PropagateNaN
  <2>3. Expected = Ref!Result(IF Ref!IsNaN(a) \/ Ref!IsNaN(b) THEN Ref!PropagateNaN(a, b)
                              ELSE Ref!Quiet(c),
                              IF Ref!IsSNaN(a) \/ Ref!IsSNaN(b) \/ Ref!IsSNaN(c)
                              THEN {"invalid"} ELSE {})
    BY <1>2, <2>1, Zenon
       DEF Expected, Ref!FusedMultiplyAdd, InvalidProduct, InvalidProductOf, AnyNaN
  <2>4. Expected = [res |-> v, fe |-> flags]
    BY <1>2, <2>2, <2>3 DEF Ref!Result
  <2>. HIDE DEF v, flags
  <2>. QED BY <2>1, <2>4, DoneAnswers
<1>9. ASSUME ~ InvalidProduct, ~ AnyNaN, ~ (IsInf(a) \/ IsInf(b)), ~ ZeroProduct, IsInf(c)
      PROVE  Expected = [res |-> c, fe |-> {}]
  <2>1. Expected = Ref!Result(c, {})
    BY <1>2, <1>9, Zenon
       DEF Expected, Ref!FusedMultiplyAdd, InvalidProduct, InvalidProductOf, AnyNaN, ZeroProduct
  <2>. QED BY <2>1 DEF Ref!Result
<1>10. ASSUME ~ InvalidProduct, ~ AnyNaN, IsInf(a) \/ IsInf(b) \/ ZeroProduct
       PROVE  Expected = Ref!Add(IF IsInf(a) \/ IsInf(b) THEN SignedInf(ProductSign)
                                 ELSE SignedZero(ProductSign), c, mode)
  <2>1. Expected = Ref!Add(IF Ref!IsInf(a) \/ Ref!IsInf(b) THEN Ref!SignedInf(Ref!SignOf(a, b))
                           ELSE Ref!SignedZero(Ref!SignOf(a, b)), c, mode)
    BY <1>2, <1>10, Zenon
       DEF Expected, Ref!FusedMultiplyAdd, InvalidProduct, InvalidProductOf, AnyNaN, ZeroProduct
  <2>. QED BY <1>2, <1>3, <2>1
<1>11. CASE InfiniteProduct
  <2>1. /\ ~ InvalidProduct /\ ~ AnyNaN /\ (IsInf(a) \/ IsInf(b)) /\ ~ IsNaN(c)
        /\ IF IsInf(c) /\ c.s # ProductSign THEN Done(CanonicalNaN, {"invalid"})
           ELSE Done(SignedInf(ProductSign), {})
    BY <1>11 DEF InfiniteProduct, Numbers, AnyNaN
  <2>2. Expected = Ref!Add(SignedInf(ProductSign), c, mode)
    BY <1>10, <2>1
  <2>3. CASE IsInf(c) /\ c.s # ProductSign
    <3>1. Expected = Ref!Invalid
      BY <1>2, <1>4, <1>6, <2>1, <2>2, <2>3, Zenon DEF Ref!Add
    <3>. QED BY <1>3, <2>1, <2>3, <3>1, DoneAnswers
  <2>4. CASE ~ (IsInf(c) /\ c.s # ProductSign)
    <3>1. Expected = Ref!Result(SignedInf(ProductSign), {})
      BY <1>2, <1>4, <1>6, <2>1, <2>2, <2>4, Zenon DEF Ref!Add
    <3>2. Expected = [res |-> SignedInf(ProductSign), fe |-> {}]
      BY <3>1 DEF Ref!Result
    <3>. QED BY <2>1, <2>4, <3>2, DoneAnswers
  <2>. QED BY <2>3, <2>4
<1>12. CASE InfiniteAddend
  <2>1. /\ ~ InvalidProduct /\ ~ AnyNaN /\ ~ (IsInf(a) \/ IsInf(b)) /\ IsInf(c)
        /\ Done(SignedInf(c.s), {}) /\ c = SignedInf(c.s)
    BY <1>1, <1>5, <1>12 DEF InfiniteAddend, Numbers
  <2>2. CASE ~ ZeroProduct
    <3>1. Expected = [res |-> SignedInf(c.s), fe |-> {}]
      BY <1>9, <2>1, <2>2
    <3>. QED BY <2>1, <3>1, DoneAnswers
  <2>3. CASE ZeroProduct
    <3>1. Expected = Ref!Add(SignedZero(ProductSign), c, mode)
      BY <1>10, <2>1, <2>3
    <3>2. Expected = Ref!Result(c, {})
      BY <1>2, <1>4, <1>6, <2>1, <3>1, Zenon DEF Ref!Add
    <3>3. Expected = [res |-> SignedInf(c.s), fe |-> {}]
      BY <2>1, <3>2 DEF Ref!Result
    <3>. QED BY <2>1, <3>3, DoneAnswers
  <2>. QED BY <2>2, <2>3
<1>. QED BY <1>7, <1>8, <1>11, <1>12

LEMMA AddendAnswer ==
  ASSUME FInv, IInv', AddendOnly
  PROVE  FInv'
<1>. DEFINE p == SignedZero(ProductSign)
            v == IF ~ IsZero(c) THEN c
                 ELSE SignedZero(IF ProductSign = c.s THEN c.s ELSE ZeroSign)
            x == Ref!Signed(p) + Ref!Signed(c)
<1>1. /\ ~ InvalidProduct /\ ~ AnyNaN /\ ~ IsInf(a) /\ ~ IsInf(b) /\ ~ IsInf(c) /\ ZeroProduct
      /\ ~ IsNaN(c) /\ c \in Values /\ c.s \in {0, 1} /\ mode \in Modes /\ Done(v, {})
      /\ a.s \in {0, 1} /\ b.s \in {0, 1}
  BY DEF AddendOnly, Finite, Numbers, AnyNaN, FInv, IInv, TypeOK, Values
<1>2. ProductSign \in {0, 1}
  BY <1>1 DEF ProductSign
<1>3. /\ p \in Values /\ p.e < ExpMax /\ IsZero(p) /\ ~ IsInf(p) /\ ~ IsNaN(p)
      /\ p.s = ProductSign /\ c.e < ExpMax
  <2>1. p \in Values
    BY <1>2, SpecialResults
  <2>2. p.e = 0 /\ p.f = 0 /\ p.s = ProductSign
    BY DEF SignedZero
  <2>3. c.e < ExpMax
    BY <1>1, Fields DEF Values, IsNaN, IsInf
  <2>. QED BY <2>1, <2>2, <2>3, Fields DEF IsZero, IsInf, IsNaN
<1>4. /\ \A w : /\ Ref!IsNaN(w) <=> IsNaN(w)
                /\ Ref!IsInf(w) <=> IsInf(w)
                /\ Ref!IsZero(w) <=> IsZero(w)
      /\ \A s : Ref!SignedZero(s) = SignedZero(s)
      /\ Ref!SignOf(a, b) = ProductSign
  BY SameClasses, SameFormat DEF Ref!SignOf, ProductSign
<1>5. Expected = Ref!Add(p, c, mode)
  <2>1. Expected = Ref!Add(IF Ref!IsInf(a) \/ Ref!IsInf(b) THEN Ref!SignedInf(Ref!SignOf(a, b))
                           ELSE Ref!SignedZero(Ref!SignOf(a, b)), c, mode)
    BY <1>1, <1>4, Zenon
       DEF Expected, Ref!FusedMultiplyAdd, InvalidProduct, InvalidProductOf, AnyNaN, ZeroProduct
  <2>. QED BY <1>1, <1>4, <2>1
<1>. HIDE DEF p
<1>6. Ref!Add(p, c, mode) =
        IF x = 0 THEN Ref!Result(Ref!ZeroSum(p.s, c.s, mode), {}) ELSE Ref!RoundInteger(x, mode)
  BY <1>1, <1>3, <1>4, Zenon DEF Ref!Add
<1>7. x = 0 + Ref!Signed(c)
  BY <1>3, SignedFacts
<1>. HIDE DEF x
<1>8. Expected = [res |-> v, fe |-> {}]
  <2>1. CASE IsZero(c)
    <3>1. x = 0
      BY <1>1, <1>3, <1>7, <2>1, SignedFacts
    <3>2. Ref!ZeroSum(p.s, c.s, mode) = v
      BY <1>3, <1>4, <2>1, Zenon DEF Ref!ZeroSum, ZeroSign
    <3>. QED BY <1>5, <1>6, <3>1, <3>2 DEF Ref!Result
  <2>2. CASE ~ IsZero(c)
    <3>1. /\ Ref!Mag(c) \in Nat /\ Ref!Mag(c) >= 1
          /\ x = (IF c.s = 0 THEN Ref!Mag(c) ELSE -Ref!Mag(c))
      BY <1>1, <1>3, <1>7, <2>2, SignedFacts
    <3>2. x # 0 /\ Ref!RoundInteger(x, mode) = Ref!Round(c.s, Ref!Mag(c), 1, mode)
      BY <1>1, <3>1, IntegerRounds
    <3>3. Ref!Round(c.s, Ref!Mag(c), 1, mode) = [res |-> c, fe |-> {}]
      BY <1>1, <1>3, ExactValue
    <3>. QED BY <1>5, <1>6, <2>2, <3>2, <3>3
  <2>. QED BY <2>1, <2>2
<1>. HIDE DEF v
<1>. QED BY <1>1, <1>8, DoneAnswers

LEMMA ProductAnswer ==
  ASSUME FInv, IInv', ProductOnly
  PROVE  FInv'
<1>1. /\ TypeOK /\ Finite /\ ~ ZeroProduct /\ IsZero(c)
      /\ Frame(ProductSign, Product, ProductExp)
  BY DEF FInv, IInv, ProductOnly
<1>2. PICK num \in Nat, den \in Nat :
        /\ ExactlyProduct(num, den)
        /\ Expected = RoundedSum((IF ProductSign = 0 THEN num ELSE -num) + Ref!Signed(c) * den, den)
  BY <1>1, FusedIs
<1>3. /\ num >= 1 /\ den >= 1
      /\ num * Pow2[Ref!LogOne] = (Ref!Mag(a) * Ref!Mag(b)) * den
  BY <1>2 DEF ExactlyProduct
<1>4. Expected = Ref!Round(ProductSign, num, den, mode)
  <2>. DEFINE sum == (IF ProductSign = 0 THEN num ELSE -num) + Ref!Signed(c) * den
              s == Ref!Mag(c) * den
  <2>1. Expected = RoundedSum(sum, den)
    BY <1>2
  <2>2. /\ sum = (IF ProductSign = 0 THEN num ELSE -num) + Ref!Signed(c) * den
        /\ s = Ref!Mag(c) * den
    OBVIOUS
  <2>. HIDE DEF sum, s
  <2>. QED BY <1>1, <1>3, <2>1, <2>2, SumBySigns
<1>5. /\ a \in Values /\ a.e < ExpMax /\ ~ IsZero(a)
      /\ b \in Values /\ b.e < ExpMax /\ ~ IsZero(b)
  BY <1>1, Factors
<1>6. Weighs(Product, ProductExp - LeastExp, num, den)
  BY <1>3, <1>5, ProductWeighs
<1>7. Holds(Product, ProductExp - LeastExp, num, den)
  BY <1>6 DEF Holds
<1>8. /\ Product \in Nat /\ Product < Pow2[HighestBit(Product) + 1]
      /\ HighestBit(Product) \in 0..(2 * FracBits + 1) /\ ProductExp \in Int
  BY <1>1, Magnitudes
<1>9. (ProductExp - LeastExp) + HighestBit(Product) - FracBits <= MaxShift
  <2>1. /\ Unpack(a).exp \in (1 - FracBits)..(ExpMax - 1)
        /\ Unpack(b).exp \in (1 - FracBits)..(ExpMax - 1)
    BY <1>5, FactorWeighs
  <2>2. ProductExp = (Unpack(a).exp - Bias) + (Unpack(b).exp - Bias) - 2 * FracBits
    BY DEF ProductExp, Exponent
  <2>3. MaxShift >= 2 * FracBits + 3 * Bias
    BY TableAssumption DEF TableAssumption
  <2>. DEFINE h == HighestBit(Product)
              x == Unpack(a).exp
              y == Unpack(b).exp
  <2>4. /\ h \in 0..(2 * FracBits + 1) /\ x \in Int /\ y \in Int /\ x <= ExpMax - 1 /\ y <= ExpMax - 1
        /\ ProductExp = (x - Bias) + (y - Bias) - 2 * FracBits
    BY <1>8, <2>1, <2>2, Fields, Widths
  <2>. HIDE DEF h, x, y
  <2>5. LeastExp = 1 - Bias - FracBits
    BY DEF LeastExp
  <2>6. (ProductExp - LeastExp) + h - FracBits <= MaxShift
    BY <2>3, <2>4, <2>5, Fields, Widths
  <2>. QED BY <2>6 DEF h
<1>10. Product < Pow2[FrameBits - 1]
  <2>. DEFINE j == HighestBit(Product) + 1
              k == FrameBits - 1
  <2>1. j \in Nat /\ k \in Nat /\ j <= k /\ k <= MaxShift /\ j \in 0..MaxShift /\ k \in 0..MaxShift
    BY <1>8, FrameWidths, Widths
  <2>2. Product < Pow2[j]
    BY <1>8
  <2>. HIDE DEF j, k
  <2>3. Pow2[j] <= Pow2[k] /\ Pow2[j] \in Nat /\ Pow2[k] \in Nat
    BY <2>1, Pow2Monotone, Pow2Positive
  <2>4. Product < Pow2[k]
    BY <1>8, <2>2, <2>3
  <2>. QED BY <2>4 DEF k
<1>. QED BY <1>1, <1>4, <1>7, <1>9, <1>10, FrameHeld

LEMMA CombineAnswer ==
  ASSUME FInv, IInv', Combine
  PROVE  FInv'
<1>. DEFINE p == Laid(Product, ProductExp)
            q == Laid(Mantissa(c), Exponent(c) - FracBits)
            f == FrameExp - LeastExp
            half == Pow2[FrameBits - 2]
<1>1. TypeOK /\ Finite /\ ~ ZeroProduct /\ ~ IsZero(c)
  BY DEF FInv, IInv, Combine
<1>2. IF ProductSign = c.s THEN Frame(c.s, (p + q) % Pow2[FrameBits], FrameExp)
      ELSE IF p = q THEN Done(SignedZero(ZeroSign), {})
      ELSE IF p > q THEN Frame(ProductSign, p - q, FrameExp)
      ELSE Frame(c.s, q - p, FrameExp)
  BY DEF Combine
<1>3. PICK num \in Nat, den \in Nat :
        /\ ExactlyProduct(num, den)
        /\ Expected = RoundedSum((IF ProductSign = 0 THEN num ELSE -num) + Ref!Signed(c) * den, den)
  BY <1>1, FusedIs
<1>4. /\ num >= 1 /\ den >= 1
      /\ num * Pow2[Ref!LogOne] = (Ref!Mag(a) * Ref!Mag(b)) * den
  BY <1>3 DEF ExactlyProduct
<1>. DEFINE s == Ref!Mag(c) * den
            sum == (IF ProductSign = 0 THEN num ELSE -num) + Ref!Signed(c) * den
<1>5. /\ p = Laid(Product, ProductExp) /\ q = Laid(Mantissa(c), Exponent(c) - FracBits)
      /\ f = FrameExp - LeastExp /\ s = Ref!Mag(c) * den /\ Expected = RoundedSum(sum, den)
      /\ sum = (IF ProductSign = 0 THEN num ELSE -num) + Ref!Signed(c) * den
  BY <1>3
<1>6. /\ p \in 1..(half - 1) /\ q \in 1..(half - 1) /\ half \in Nat
      /\ Pow2[FrameBits] = 4 * half /\ FrameExp \in Int
  BY <1>1, LaidOperands
<1>7. Pow2[FrameBits - 1] = 2 * half
  <2>. DEFINE i == FrameBits - 2
  <2>1. i \in Nat /\ i + 1 = FrameBits - 1 /\ i + 1 <= MaxShift
    BY FrameWidths, Widths
  <2>. HIDE DEF i
  <2>2. Pow2[i + 1] = 2 * Pow2[i]
    BY <2>1, Pow2Step
  <2>. QED BY <2>1, <2>2 DEF i
<1>. HIDE DEF p, q, f, s, sum, half
<1>8. /\ InTable(f) /\ f + FrameBits - FracBits <= MaxShift /\ s \in Nat
      /\ Holds(p + q, f, num + s, den)
      /\ p > q => num > s /\ Holds(p - q, f, num - s, den)
      /\ q > p => s > num /\ Holds(q - p, f, s - num, den)
      /\ p = q => num = s
  BY <1>1, <1>4, <1>5, FrameHolds
<1>9. /\ ProductSign = c.s => Expected = Ref!Round(c.s, num + s, den, mode)
      /\ ProductSign # c.s =>
           /\ num = s => Expected = [res |-> SignedZero(ZeroSign), fe |-> {}]
           /\ num > s => Expected = Ref!Round(ProductSign, num - s, den, mode)
           /\ s > num => Expected = Ref!Round(c.s, s - num, den, mode)
  BY <1>1, <1>4, <1>5, SumBySigns
<1>10. ASSUME NEW sign, NEW mag \in Nat, mag >= 1, mag < 2 * half, Frame(sign, mag, FrameExp),
              NEW n \in Nat, Holds(mag, f, n, den), Expected = Ref!Round(sign, n, den, mode)
       PROVE  FInv'
  <2>1. mag < Pow2[FrameBits]
    BY <1>6, <1>10
  <2>2. HighestBit(mag) \in 0..(FrameBits - 1)
    BY <1>10, <2>1, HighestBitOf
  <2>3. f + HighestBit(mag) - FracBits <= MaxShift
    BY <1>8, <2>2, FrameWidths, Widths DEF InTable
  <2>. QED BY <1>5, <1>7, <1>10, <2>3, FrameHeld
<1>11. CASE ProductSign = c.s
  <2>1. (p + q) % Pow2[FrameBits] = p + q
    <3>1. (p + q) % (4 * half) = p + q
      BY <1>6
    <3>. QED BY <1>6, <3>1
  <2>2. Frame(c.s, p + q, FrameExp)
    BY <1>2, <1>11, <2>1
  <2>. DEFINE mag == p + q
              n == num + s
  <2>3. /\ mag \in Nat /\ mag >= 1 /\ mag < 2 * half /\ n \in Nat
        /\ Frame(c.s, mag, FrameExp) /\ Holds(mag, f, n, den)
        /\ Expected = Ref!Round(c.s, n, den, mode)
    BY <1>6, <1>8, <1>9, <1>11, <2>2
  <2>. HIDE DEF mag, n
  <2>. QED BY <1>10, <2>3
<1>12. CASE ProductSign # c.s /\ p = q
  <2>1. Done(SignedZero(ZeroSign), {}) /\ Expected = [res |-> SignedZero(ZeroSign), fe |-> {}]
    BY <1>2, <1>8, <1>9, <1>12
  <2>. QED BY <2>1, DoneAnswers
<1>13. CASE ProductSign # c.s /\ p > q
  <2>1. p # q
    BY <1>6, <1>13
  <2>2. Frame(ProductSign, p - q, FrameExp)
    BY <1>2, <1>13, <2>1
  <2>. DEFINE mag == p - q
              n == num - s
  <2>3. /\ mag \in Nat /\ mag >= 1 /\ mag < 2 * half /\ n \in Nat
        /\ Frame(ProductSign, mag, FrameExp) /\ Holds(mag, f, n, den)
        /\ Expected = Ref!Round(ProductSign, n, den, mode)
    BY <1>6, <1>8, <1>9, <1>13, <2>2
  <2>. HIDE DEF mag, n
  <2>. QED BY <1>10, <2>3
<1>14. CASE ProductSign # c.s /\ q > p
  <2>1. p # q /\ ~ (p > q)
    BY <1>6, <1>14
  <2>2. Frame(c.s, q - p, FrameExp)
    BY <1>2, <1>14, <2>1
  <2>. DEFINE mag == q - p
              n == s - num
  <2>3. /\ mag \in Nat /\ mag >= 1 /\ mag < 2 * half /\ n \in Nat
        /\ Frame(c.s, mag, FrameExp) /\ Holds(mag, f, n, den)
        /\ Expected = Ref!Round(c.s, n, den, mode)
    BY <1>6, <1>8, <1>9, <1>14, <2>2
  <2>. HIDE DEF mag, n
  <2>. QED BY <1>10, <2>3
<1>15. p = q \/ p > q \/ q > p
  BY <1>6
<1>. QED BY <1>11, <1>12, <1>13, <1>14, <1>15

LEMMA RoundAnswer ==
  ASSUME FInv, IInv', RoundFarBelow \/ RoundSubnormal \/ RoundNormal
  PROVE  FInv'
<1>1. pc = "round"
  BY DEF RoundFarBelow, RoundSubnormal, RoundNormal
<1>2. PICK num \in Nat, den \in Nat :
        FrameOf(num, den) /\ Expected = Ref!Round(z.sign, num, den, mode)
  BY <1>1 DEF FInv, Held
<1>3. IInv /\ z.mag < Pow2[FrameBits - 1]
  BY <1>1 DEF FInv, Held
<1>4. FrameAnswers(num, den)
  BY <1>2, <1>3, SubnormalRounds, NormalRounds, FarBelowRounds
<1>5. [res |-> res', fe |-> fe'] = Expected
  BY <1>2, <1>4 DEF FrameAnswers
<1>6. pc' = "done" /\ a' = a /\ b' = b /\ c' = c /\ mode' = mode
  <2>1. ASSUME NEW v, NEW flags, Done(v, flags)
        PROVE  pc' = "done" /\ a' = a /\ b' = b /\ c' = c /\ mode' = mode
    BY <2>1 DEF Done
  <2>2. CASE RoundFarBelow
    BY <2>1, <2>2, Zenon DEF RoundFarBelow
  <2>3. CASE RoundSubnormal
    BY <2>1, <2>3, Zenon DEF RoundSubnormal
  <2>4. CASE RoundNormal
    BY <2>1, <2>4, Zenon DEF RoundNormal
  <2>. QED BY <2>2, <2>3, <2>4
<1>7. CorrectFma'
  BY <1>5, <1>6 DEF CorrectFma, Expected
<1>. QED BY <1>6, <1>7 DEF FInv, Held

LEMMA AnswersInit == Init => FInv
<1>. SUFFICES ASSUME Init PROVE FInv
  OBVIOUS
<1>1. IInv
  BY TypeInit
<1>. QED BY <1>1 DEF Init, FInv, Held, CorrectFma

LEMMA AnswersInductive == FInv /\ [Next]_vars => FInv'
<1>. SUFFICES ASSUME FInv, [Next]_vars PROVE FInv'
  OBVIOUS
<1>1. IInv'
  BY Inductive DEF FInv
<1>2. CASE UNCHANGED vars
  BY <1>1, <1>2 DEF vars, FInv, Held, CorrectFma, FrameOf, FrameUnit, LeastExp, Expected
<1>3. CASE Undefined \/ NaNOperand \/ InfiniteProduct \/ InfiniteAddend
  BY <1>1, <1>3, SpecialAnswer
<1>4. CASE AddendOnly
  BY <1>1, <1>4, AddendAnswer
<1>5. CASE ProductOnly
  BY <1>1, <1>5, ProductAnswer
<1>6. CASE Combine
  BY <1>1, <1>6, CombineAnswer
<1>7. CASE RoundFarBelow \/ RoundSubnormal \/ RoundNormal
  BY <1>1, <1>7, RoundAnswer
<1>. QED BY <1>2, <1>3, <1>4, <1>5, <1>6, <1>7 DEF Next

(* sf64_fma_r of sqrt_fma.cpp is correctly rounded, for every format wide  *)
(* enough for its frame, all operands and every mode: a * b + c is rounded *)
(* once, whatever the frame jams, and exactly the flags of the standard    *)
(* are raised.                                                             *)
THEOREM CorrectFmaAlways == Spec => []CorrectFma
<1>1. FInv => CorrectFma
  BY DEF FInv
<1>. QED BY <1>1, AnswersInit, AnswersInductive, PTL DEF Spec

---------------------------------------------------------------------------
(* The round-to-nearest-even copy, step by step.                           *)
Copied == Copy!FusedRne(a, b, c)

LEMMA CopyHelpers ==
  /\ Copy!ExpMax = ExpMax /\ Copy!ImplicitBit = ImplicitBit /\ Copy!Bias = Bias
  /\ Copy!CanonicalNaN = CanonicalNaN
  /\ \A s : Copy!SignedZero(s) = SignedZero(s) /\ Copy!SignedInf(s) = SignedInf(s)
  /\ \A x, lost : Copy!OrSticky(x, lost) = OrSticky(x, lost)
  /\ \A x, n : Copy!BitSet(x, n) <=> BitSet(x, n)
  /\ \A x : Copy!HighestBit(x) = HighestBit(x)
  /\ Copy!SignOf(a, b) = ProductSign
BY Zenon DEF Copy!ExpMax, ExpMax, Copy!ImplicitBit, ImplicitBit, Copy!Bias, Bias,
       Copy!CanonicalNaN, CanonicalNaN, Copy!QuietNaNBit, QuietNaNBit,
       Copy!SignedZero, SignedZero, Copy!SignedInf, SignedInf,
       Copy!OrSticky, OrSticky, Copy!BitSet, BitSet, Copy!HighestBit, HighestBit,
       Copy!SignOf, ProductSign

LEMMA CopyClasses ==
  ASSUME NEW v
  PROVE  /\ Copy!IsNaN(v) <=> IsNaN(v)
         /\ Copy!IsSNaN(v) <=> IsSNaN(v)
         /\ Copy!IsInf(v) <=> IsInf(v)
         /\ Copy!IsZero(v) <=> IsZero(v)
         /\ Copy!Quiet(v) = Quiet(v)
BY CopyHelpers, Zenon DEF Copy!IsNaN, Copy!IsSNaN, Copy!IsInf, Copy!IsZero, Copy!Quiet,
       IsNaN, IsSNaN, IsInf, IsZero, Quiet, Copy!QuietNaNBit, QuietNaNBit

LEMMA CopyUnpack ==
  ASSUME NEW v \in Values, v.e < ExpMax, ~ IsZero(v)
  PROVE  Copy!Unpack(v) = Unpack(v) /\ Copy!Mant(v) = Mantissa(v)
<1>1. Copy!Unpack(v) = Rne!Unpack(v)
  BY Zenon DEF Copy!Unpack, Rne!Unpack, Copy!Clz, Rne!Clz, Copy!WordBits, Rne!WordBits,
         Copy!ImplicitAt, Rne!ImplicitAt, Copy!ImplicitBit, Rne!ImplicitBit
<1>2. Copy!Unpack(v) = Unpack(v)
  BY <1>1, CopiedUnpack
<1>3. Copy!Mant(v) = Mantissa(v)
  BY <1>2, Zenon DEF Copy!Mant, Copy!Significand, Mantissa
<1>. QED BY <1>2, <1>3

(* The copy compares what is cut off with half a place, the original looks *)
(* at the bits.                                                            *)
LEMMA TieCopied ==
  ASSUME NEW x \in Nat, NEW H \in Nat, H >= 1, NEW G, G = 2 * H, NEW bit, NEW sticky,
         bit <=> (x \div H) % 2 = 1, sticky <=> (x % H) # 0
  PROVE  /\ Copy!TieToEven(x \div G, x % G, H) =
              (IF bit /\ (sticky \/ (x \div G) % 2 = 1) THEN (x \div G) + 1 ELSE x \div G)
         /\ (x % G) # 0 <=> bit \/ sticky
<1>1. PICK m \in Nat, r \in Nat :
           /\ m = x \div (2 * H) /\ r < 2 * H /\ x = m * (2 * H) + r
           /\ (x \div H) % 2 = 1 <=> H <= r
           /\ (x % H) # 0 <=> r # 0 /\ r # H
  BY CutAtHalf
<1>2. G \in Nat /\ x = m * G + r /\ r < G /\ m = x \div G
  BY <1>1
<1>3. x % G = r
  <2>1. (m * G + r) % G = r
    BY <1>2, Join
  <2>. QED BY <1>2, <2>1
<1>4. /\ bit <=> H <= r
      /\ sticky <=> r # 0 /\ r # H
  BY <1>1
<1>5. (r > H \/ (r = H /\ m % 2 = 1)) <=> (bit /\ (sticky \/ m % 2 = 1))
  BY <1>4
<1>6. Copy!TieToEven(m, r, H) = (IF bit /\ (sticky \/ m % 2 = 1) THEN m + 1 ELSE m)
  BY <1>5, Zenon DEF Copy!TieToEven
<1>7. r # 0 <=> bit \/ sticky
  BY <1>4
<1>. QED BY <1>2, <1>3, <1>6, <1>7

LEMMA RoundedFrameCopied ==
  ASSUME IInv, pc = "round", mode = "RNE", TargetLsb < FrameBits, TargetLsb \in Int
  PROVE  /\ Copy!RoundedFrame(z.mag, TargetLsb) = RoundedMantissa
         /\ Copy!LosesBits(z.mag, TargetLsb) <=> FrameRoundBit \/ FrameSticky
<1>. DEFINE t == TargetLsb
            x == z.mag
            odd == Truncated % 2 = 1
<1>1. x \in Nat
  BY DEF IInv, Framed
<1>2. ShouldRoundUp(z.sign, FrameRoundBit, FrameSticky, odd, mode)
        <=> FrameRoundBit /\ (FrameSticky \/ odd)
  BY DEF ShouldRoundUp
<1>3. RoundedMantissa = IF FrameRoundBit /\ (FrameSticky \/ odd) THEN Truncated + 1 ELSE Truncated
  BY <1>2, Zenon DEF RoundedMantissa
<1>4. CASE t <= 0
  <2>1. ~ FrameRoundBit /\ ~ FrameSticky
    BY <1>4 DEF FrameRoundBit, FrameSticky
  <2>2. Copy!RoundedFrame(x, t) = Truncated
    BY <1>4, Zenon DEF Copy!RoundedFrame, Truncated
  <2>3. ~ Copy!LosesBits(x, t)
    BY <1>4 DEF Copy!LosesBits
  <2>. QED BY <1>3, <2>1, <2>2, <2>3
<1>5. CASE t >= 1
  <2>. DEFINE i == t - 1
              H == Pow2[i]
              G == Pow2[t]
  <2>1. i \in Nat /\ i + 1 = t /\ i + 1 <= MaxShift /\ i \in 0..MaxShift /\ ~ (t <= 0) /\ t > 0
    BY <1>5, FrameWidths, Widths
  <2>2. H \in Nat /\ H >= 1 /\ G = 2 * H
    <3>. HIDE DEF i
    <3>1. Pow2[i + 1] = 2 * Pow2[i]
      BY <2>1, Pow2Step
    <3>. QED BY <2>1, <3>1, Pow2Positive
  <2>3. /\ FrameRoundBit <=> (x \div H) % 2 = 1
        /\ t >= 2 => (FrameSticky <=> (x % H) # 0)
        /\ t = 1 => ~ FrameSticky /\ H = 1
    <3>1. FrameRoundBit <=> (x \div H) % 2 = 1
      BY <1>5 DEF FrameRoundBit, BitSet
    <3>2. t >= 2 => (FrameSticky <=> (x % H) # 0)
      BY DEF FrameSticky
    <3>3. t = 1 => ~ FrameSticky /\ i = 0
      BY DEF FrameSticky
    <3>. QED BY <3>1, <3>2, <3>3, Pow2Step
  <2>4. Truncated = x \div G
    BY <2>1 DEF Truncated
  <2>5. /\ Copy!RoundedFrame(x, t) = Copy!TieToEven(x \div G, x % G, H)
        /\ Copy!LosesBits(x, t) <=> (x % G) # 0
    BY <2>1 DEF Copy!RoundedFrame, Copy!LosesBits
  <2>. HIDE DEF x, H, G
  <2>6. FrameSticky <=> (x % H) # 0
    <3>1. H = 1 => x % H = 0
      BY <1>1
    <3>2. t = 1 \/ t >= 2
      BY <1>5
    <3>. QED BY <2>3, <3>1, <3>2
  <2>7. /\ Copy!TieToEven(x \div G, x % G, H) =
             (IF FrameRoundBit /\ (FrameSticky \/ (x \div G) % 2 = 1) THEN (x \div G) + 1
              ELSE x \div G)
        /\ (x % G) # 0 <=> FrameRoundBit \/ FrameSticky
    BY <1>1, <2>2, <2>3, <2>6, TieCopied
  <2>. QED BY <1>3, <2>4, <2>5, <2>7 DEF x
<1>. QED BY <1>4, <1>5

(* The three ways round_and_pack ends, in the copy.                        *)
LEMMA RoundingCopied ==
  ASSUME IInv, mode = "RNE", RoundFarBelow \/ RoundSubnormal \/ RoundNormal
  PROVE  [res |-> res', fe |-> fe'] = Copy!RoundFrameRne(z.sign, z.mag, z.exp)
<1>. DEFINE s == z.sign
            x == z.mag
            t == TargetLsb
            M == RoundedMantissa
            I == ImplicitBit
            lost == FrameRoundBit \/ FrameSticky
<1>1. /\ pc = "round" /\ s \in {0, 1} /\ x \in Nat /\ x >= 1 /\ x < Pow2[FrameBits] /\ z.exp \in Int
  BY DEF IInv, Framed, RoundFarBelow, RoundSubnormal, RoundNormal
<1>2. HighestBit(x) \in 0..(FrameBits - 1)
  BY <1>1, HighestBitOf
<1>3. /\ Biased \in Int /\ Biased = z.exp + HighestBit(x) + Bias
      /\ t = (IF Biased < 1 THEN 1 - Bias - FracBits - z.exp ELSE HighestBit(x) - FracBits)
      /\ Subnormal <=> Biased < 1
  <2>1. Biased = z.exp + HighestBit(x) + Bias
    BY DEF Biased
  <2>2. Biased \in Int
    BY <1>1, <1>2, <2>1, Fields
  <2>3. t = (IF Biased < 1 THEN 1 - Bias - FracBits - z.exp ELSE HighestBit(x) - FracBits)
    BY DEF TargetLsb, LeastExp, Subnormal
  <2>. QED BY <2>1, <2>2, <2>3 DEF Subnormal
<1>4. t \in Int /\ (~ Subnormal => t < FrameBits)
  <2>. HIDE DEF t
  <2>. QED BY <1>1, <1>2, <1>3, Fields, Widths, FrameWidths
<1>5. /\ I \in Nat /\ I >= 4 /\ ExpMax \in Nat /\ ExpMax >= 3
  BY GuardPowers, Fields
<1>6. Copy!RoundFrameRne(s, x, z.exp) =
        IF Biased >= ExpMax THEN [res |-> SignedInf(s), fe |-> {"overflow", "inexact"}]
        ELSE IF t >= FrameBits THEN [res |-> SignedZero(s), fe |-> {"underflow", "inexact"}]
        ELSE IF Biased < 1
        THEN Copy!SubnormalRne(s, Copy!RoundedFrame(x, t), Copy!LosesBits(x, t))
        ELSE Copy!NormalRne(s, Biased, Copy!RoundedFrame(x, t), Copy!LosesBits(x, t))
  <2>. DEFINE msb == HighestBit(x)
              field == Biased
  <2>1. Copy!RoundFrameRne(s, x, z.exp) = Copy!RoundFrameAt(s, x, z.exp, msb, field)
    BY <1>3, CopyHelpers, Zenon DEF Copy!RoundFrameRne
  <2>2. t = (IF field < 1 THEN 1 - Bias - FracBits - z.exp ELSE msb - FracBits)
    BY <1>3
  <2>. HIDE DEF msb, field, t
  <2>3. Copy!RoundFrameAt(s, x, z.exp, msb, field) =
          IF field >= ExpMax THEN [res |-> SignedInf(s), fe |-> {"overflow", "inexact"}]
          ELSE IF t >= FrameBits THEN [res |-> SignedZero(s), fe |-> {"underflow", "inexact"}]
          ELSE IF field < 1
          THEN Copy!SubnormalRne(s, Copy!RoundedFrame(x, t), Copy!LosesBits(x, t))
          ELSE Copy!NormalRne(s, field, Copy!RoundedFrame(x, t), Copy!LosesBits(x, t))
    BY <2>2, CopyHelpers, Zenon DEF Copy!RoundFrameAt, Copy!Outcome
  <2>. QED BY <2>1, <2>3 DEF field
<1>7. t < FrameBits =>
        /\ Copy!RoundedFrame(x, t) = M
        /\ Copy!LosesBits(x, t) <=> lost
  BY <1>1, <1>4, RoundedFrameCopied
<1>8. /\ Copy!SubnormalRne(s, M, lost) =
           [res |-> [s |-> s, e |-> IF BitSet(M, FracBits) THEN 1 ELSE 0, f |-> M % I],
            fe |-> IF lost THEN {"underflow", "inexact"} ELSE {}]
      /\ Copy!NormalRne(s, Biased, M, lost) =
           LET e == IF BitSet(M, FracBits + 1) THEN Biased + 1 ELSE Biased
           IN  IF e >= ExpMax THEN [res |-> SignedInf(s), fe |-> {"overflow", "inexact"}]
               ELSE [res |-> [s |-> s, e |-> e, f |-> M % I],
                     fe |-> IF lost THEN {"inexact"} ELSE {}]
  BY CopyHelpers, Zenon DEF Copy!SubnormalRne, Copy!NormalRne, Copy!Outcome
<1>9. Overflow(s, mode).res = SignedInf(s) /\ Overflow(s, mode).fe = {"overflow", "inexact"}
  BY DEF Overflow, OverflowResult
<1>10. /\ t < FrameBits => Truncated \in Nat
       /\ t < FrameBits => M \in Nat /\ (M = Truncated \/ M = Truncated + 1)
       /\ t < FrameBits /\ Subnormal => M <= I
  <2>1. t < FrameBits => Truncated \in Nat /\ (Subnormal => Truncated < I)
    BY <1>1, TruncatedWidth
  <2>2. M = Truncated \/ M = Truncated + 1
    BY DEF RoundedMantissa
  <2>. HIDE DEF M, I, t
  <2>. QED BY <1>5, <2>1, <2>2
<1>11. Stored(M) = M % I
  BY DEF Stored
<1>12. CASE RoundFarBelow
  <2>1. /\ t >= FrameBits
        /\ res' = [s |-> s, e |-> 0,
                   f |-> IF (mode = "RUP" /\ s = 0) \/ (mode = "RDN" /\ s = 1) THEN 1 ELSE 0]
        /\ fe' = {"underflow", "inexact"}
    BY <1>12, Zenon DEF RoundFarBelow, Done
  <2>2. res' = SignedZero(s)
    BY <2>1 DEF SignedZero
  <2>3. Biased < 1 /\ ~ (Biased >= ExpMax)
    <3>1. Subnormal
      <4>. HIDE DEF t
      <4>. QED BY <1>4, <2>1, FrameWidths
    <3>. QED BY <1>3, <1>5, <3>1
  <2>. HIDE DEF t
  <2>. QED BY <1>6, <2>1, <2>2, <2>3
<1>13. CASE RoundSubnormal
  <2>1. /\ Subnormal /\ t < FrameBits
        /\ res' = [s |-> s, e |-> M \div I, f |-> Stored(M)]
        /\ fe' = (IF lost THEN {"underflow", "inexact"} ELSE {})
    BY <1>13, Zenon DEF RoundSubnormal, Done
  <2>2. Biased < 1 /\ ~ (Biased >= ExpMax) /\ ~ (t >= FrameBits)
    <3>. HIDE DEF t
    <3>. QED BY <1>3, <1>4, <1>5, <2>1, FrameWidths
  <2>3. M \in Nat /\ M <= I
    BY <1>10, <2>1
  <2>4. Copy!RoundFrameRne(s, x, z.exp) = Copy!SubnormalRne(s, M, lost)
    <3>1. Copy!RoundedFrame(x, t) = M /\ (Copy!LosesBits(x, t) <=> lost)
      BY <1>7, <2>1
    <3>2. Copy!SubnormalRne(s, M, Copy!LosesBits(x, t)) = Copy!SubnormalRne(s, M, lost)
      BY <3>1, Zenon DEF Copy!SubnormalRne
    <3>. HIDE DEF s, x, t, M, lost
    <3>. QED BY <1>6, <2>2, <3>1, <3>2
  <2>5. M \div I = (IF BitSet(M, FracBits) THEN 1 ELSE 0)
    <3>1. I = Pow2[FracBits] /\ FracBits \in Nat /\ FracBits < MaxShift /\ FracBits + 1 <= MaxShift
      BY Fields, Widths
    <3>2. Pow2[FracBits + 1] = 2 * Pow2[FracBits]
      BY <3>1, Pow2Step
    <3>. HIDE DEF M, I
    <3>3. BitSet(M, FracBits) <=> I <= M
      <4>1. M < Pow2[FracBits + 1]
        BY <1>5, <2>3, <3>1, <3>2
      <4>. QED BY <2>3, <3>1, <4>1, TopBit
    <3>4. M < I => M \div I = 0
      <4>1. M < I => (0 * I + M) \div I = 0
        BY <1>5, <2>3, Join
      <4>2. 0 * I + M = M
        BY <1>5, <2>3
      <4>. QED BY <4>1, <4>2
    <3>5. M = I => M \div I = 1
      <4>1. (1 * I + 0) \div I = 1
        BY <1>5, Join
      <4>2. 1 * I + 0 = I
        BY <1>5
      <4>. QED BY <4>1, <4>2
    <3>. QED BY <1>5, <2>3, <3>3, <3>4, <3>5
  <2>. HIDE DEF s, x, t, M, lost, I
  <2>6. [res |-> res', fe |-> fe'] = Copy!RoundFrameRne(s, x, z.exp)
    BY <1>8, <1>11, <2>1, <2>4, <2>5
  <2>. QED BY <2>6 DEF s, x
<1>14. CASE RoundNormal
  <2>. DEFINE carry == BitSet(M, FracBits + 1)
              field == IF carry THEN Biased + 1 ELSE Biased
              o == Overflow(s, mode)
  <2>1. ~ Subnormal
    BY <1>14 DEF RoundNormal
  <2>2. /\ Biased >= ExpMax \/ field >= ExpMax => res' = o.res /\ fe' = o.fe
        /\ ~ (Biased >= ExpMax \/ field >= ExpMax) =>
             /\ res' = [s |-> s, e |-> field, f |-> Stored(M)]
             /\ fe' = (IF lost THEN {"inexact"} ELSE {})
    BY <1>14, Zenon DEF RoundNormal, Done
  <2>3. ~ (Biased < 1) /\ t < FrameBits /\ ~ (t >= FrameBits)
    <3>. HIDE DEF t
    <3>. QED BY <1>3, <1>4, <2>1, FrameWidths
  <2>4. ~ (Biased >= ExpMax) =>
          Copy!RoundFrameRne(s, x, z.exp) = Copy!NormalRne(s, Biased, M, lost)
    <3>1. Copy!RoundedFrame(x, t) = M /\ (Copy!LosesBits(x, t) <=> lost)
      BY <1>7, <2>3
    <3>2. Copy!NormalRne(s, Biased, M, Copy!LosesBits(x, t)) = Copy!NormalRne(s, Biased, M, lost)
      BY <3>1, Zenon DEF Copy!NormalRne
    <3>. HIDE DEF s, x, t, M, lost
    <3>. QED BY <1>6, <2>3, <3>1, <3>2
  <2>5. Copy!NormalRne(s, Biased, M, lost) =
          IF field >= ExpMax THEN [res |-> SignedInf(s), fe |-> {"overflow", "inexact"}]
          ELSE [res |-> [s |-> s, e |-> field, f |-> M % I],
                fe |-> IF lost THEN {"inexact"} ELSE {}]
    BY <1>8
  <2>6. o.res = SignedInf(s) /\ o.fe = {"overflow", "inexact"}
    BY <1>9
  <2>. HIDE DEF s, x, t, M, lost, I, carry, field, o
  <2>7. CASE Biased >= ExpMax
    <3>1. res' = SignedInf(s) /\ fe' = {"overflow", "inexact"}
      BY <2>2, <2>6, <2>7
    <3>2. Copy!RoundFrameRne(s, x, z.exp) = [res |-> SignedInf(s), fe |-> {"overflow", "inexact"}]
      BY <1>6, <2>7
    <3>. QED BY <3>1, <3>2 DEF s, x
  <2>8. CASE ~ (Biased >= ExpMax) /\ field >= ExpMax
    <3>1. res' = SignedInf(s) /\ fe' = {"overflow", "inexact"}
      BY <2>2, <2>6, <2>8
    <3>2. Copy!RoundFrameRne(s, x, z.exp) = [res |-> SignedInf(s), fe |-> {"overflow", "inexact"}]
      BY <2>4, <2>5, <2>8
    <3>. QED BY <3>1, <3>2 DEF s, x
  <2>9. CASE ~ (Biased >= ExpMax) /\ ~ (field >= ExpMax)
    <3>1. /\ res' = [s |-> s, e |-> field, f |-> M % I]
          /\ fe' = (IF lost THEN {"inexact"} ELSE {})
      BY <1>11, <2>2, <2>9
    <3>2. Copy!RoundFrameRne(s, x, z.exp) =
            [res |-> [s |-> s, e |-> field, f |-> M % I], fe |-> IF lost THEN {"inexact"} ELSE {}]
      BY <2>4, <2>5, <2>9
    <3>. QED BY <3>1, <3>2 DEF s, x
  <2>. QED BY <2>7, <2>8, <2>9
<1>. QED BY <1>12, <1>13, <1>14

(* The copy hands a frame on like the original.                            *)
Framing ==
  (pc = "round" /\ mode = "RNE") => Copied = Copy!RoundFrameRne(z.sign, z.mag, z.exp)

CInv == IInv /\ Framing /\ RneIdentical

LEMMA DoneCopied ==
  ASSUME NEW v, NEW flags, Done(v, flags), mode = "RNE" => Copied = [res |-> v, fe |-> flags]
  PROVE  Framing' /\ RneIdentical'
<1>1. /\ pc' = "done" /\ res' = v /\ fe' = flags
      /\ a' = a /\ b' = b /\ c' = c /\ mode' = mode
  BY DEF Done
<1>. QED BY <1>1 DEF Framing, RneIdentical, Copied

LEMMA FrameCopied ==
  ASSUME NEW sign, NEW mag, NEW exp, Frame(sign, mag, exp),
         mode = "RNE" => Copied = Copy!RoundFrameRne(sign, mag, exp)
  PROVE  Framing' /\ RneIdentical'
<1>1. /\ pc' = "round" /\ z'.sign = sign /\ z'.mag = mag /\ z'.exp = exp
      /\ a' = a /\ b' = b /\ c' = c /\ mode' = mode
  BY DEF Frame
<1>. QED BY <1>1 DEF Framing, RneIdentical, Copied

(* The copy's cases, in its order.                                         *)
LEMMA CopiedSpecials ==
  /\ InvalidProduct => Copied = [res |-> CanonicalNaN, fe |-> {"invalid"}]
  /\ ~ InvalidProduct /\ AnyNaN =>
       Copied = [res |-> Quiet(IF IsNaN(a) THEN a ELSE IF IsNaN(b) THEN b ELSE c),
                 fe |-> IF IsSNaN(a) \/ IsSNaN(b) \/ IsSNaN(c) THEN {"invalid"} ELSE {}]
  /\ ~ InvalidProduct /\ ~ AnyNaN =>
       /\ IsInf(a) \/ IsInf(b) =>
            Copied = IF IsInf(c) /\ c.s # ProductSign
                     THEN [res |-> CanonicalNaN, fe |-> {"invalid"}]
                     ELSE [res |-> SignedInf(ProductSign), fe |-> {}]
       /\ ~ (IsInf(a) \/ IsInf(b)) =>
            /\ IsInf(c) => Copied = [res |-> c, fe |-> {}]
            /\ ~ IsInf(c) =>
                 /\ ZeroProduct =>
                      Copied = [res |-> IF ~ IsZero(c) THEN c
                                        ELSE SignedZero(IF c.s = ProductSign THEN c.s ELSE 0),
                                fe |-> {}]
                 /\ ~ ZeroProduct => Copied = Copy!FmaCoreRne(a, b, c)
<1>1. \A v : /\ Copy!IsNaN(v) <=> IsNaN(v)
             /\ Copy!IsSNaN(v) <=> IsSNaN(v)
             /\ Copy!IsInf(v) <=> IsInf(v)
             /\ Copy!IsZero(v) <=> IsZero(v)
             /\ Copy!Quiet(v) = Quiet(v)
  BY CopyClasses
<1>2. Copy!Invalid = [res |-> CanonicalNaN, fe |-> {"invalid"}]
  BY CopyHelpers, Zenon DEF Copy!Invalid, Copy!Outcome
<1>3. \A v : Copy!Quietly(v) = [res |-> v, fe |-> {}]
  BY Zenon DEF Copy!Quietly, Copy!Outcome
<1>4. Copy!FmaNaN(a, b, c) =
        [res |-> Quiet(IF IsNaN(a) THEN a ELSE IF IsNaN(b) THEN b ELSE c),
         fe |-> IF IsSNaN(a) \/ IsSNaN(b) \/ IsSNaN(c) THEN {"invalid"} ELSE {}]
  BY <1>1, Zenon DEF Copy!FmaNaN, Copy!Outcome
<1>5. Copied =
        IF (IsInf(a) /\ IsZero(b)) \/ (IsZero(a) /\ IsInf(b))
        THEN [res |-> CanonicalNaN, fe |-> {"invalid"}]
        ELSE IF IsNaN(a) \/ IsNaN(b) \/ IsNaN(c) THEN Copy!FmaNaN(a, b, c)
        ELSE IF IsInf(a) \/ IsInf(b)
        THEN IF IsInf(c) /\ c.s # ProductSign THEN [res |-> CanonicalNaN, fe |-> {"invalid"}]
             ELSE [res |-> SignedInf(ProductSign), fe |-> {}]
        ELSE IF IsInf(c) THEN [res |-> c, fe |-> {}]
        ELSE IF IsZero(a) \/ IsZero(b)
        THEN [res |-> IF ~ IsZero(c) THEN c
                      ELSE SignedZero(IF c.s = ProductSign THEN c.s ELSE 0), fe |-> {}]
        ELSE Copy!FmaCoreRne(a, b, c)
  BY <1>1, <1>2, <1>3, CopyHelpers, Zenon DEF Copied, Copy!FusedRne
<1>6. /\ InvalidProduct <=> (IsInf(a) /\ IsZero(b)) \/ (IsZero(a) /\ IsInf(b))
      /\ AnyNaN <=> IsNaN(a) \/ IsNaN(b) \/ IsNaN(c)
      /\ ZeroProduct <=> IsZero(a) \/ IsZero(b)
  BY Zenon DEF InvalidProduct, InvalidProductOf, AnyNaN, ZeroProduct
<1>7. InvalidProduct => Copied = [res |-> CanonicalNaN, fe |-> {"invalid"}]
  BY <1>5, <1>6, Zenon
<1>8. ~ InvalidProduct /\ AnyNaN => Copied = Copy!FmaNaN(a, b, c)
  BY <1>5, <1>6, Zenon
<1>9. ASSUME ~ InvalidProduct, ~ AnyNaN, IsInf(a) \/ IsInf(b)
      PROVE  Copied = IF IsInf(c) /\ c.s # ProductSign
                      THEN [res |-> CanonicalNaN, fe |-> {"invalid"}]
                      ELSE [res |-> SignedInf(ProductSign), fe |-> {}]
  BY <1>5, <1>6, <1>9, Zenon
<1>10. ASSUME ~ InvalidProduct, ~ AnyNaN, ~ (IsInf(a) \/ IsInf(b)), IsInf(c)
       PROVE  Copied = [res |-> c, fe |-> {}]
  BY <1>5, <1>6, <1>10, Zenon
<1>11. ASSUME ~ InvalidProduct, ~ AnyNaN, ~ (IsInf(a) \/ IsInf(b)), ~ IsInf(c), ZeroProduct
       PROVE  Copied = [res |-> IF ~ IsZero(c) THEN c
                                ELSE SignedZero(IF c.s = ProductSign THEN c.s ELSE 0), fe |-> {}]
  BY <1>5, <1>6, <1>11, Zenon
<1>12. ASSUME ~ InvalidProduct, ~ AnyNaN, ~ (IsInf(a) \/ IsInf(b)), ~ IsInf(c), ~ ZeroProduct
       PROVE  Copied = Copy!FmaCoreRne(a, b, c)
  BY <1>5, <1>6, <1>12, Zenon
<1>. QED BY <1>4, <1>7, <1>8, <1>9, <1>10, <1>11, <1>12

LEMMA SpecialCopied ==
  ASSUME IInv, Undefined \/ NaNOperand \/ InfiniteProduct \/ InfiniteAddend \/ AddendOnly
  PROVE  Framing' /\ RneIdentical'
<1>1. CASE Undefined
  <2>1. Done(CanonicalNaN, {"invalid"}) /\ InvalidProduct
    BY <1>1 DEF Undefined
  <2>. QED BY <2>1, CopiedSpecials, DoneCopied
<1>2. CASE NaNOperand
  <2>. DEFINE v == IF IsNaN(a) \/ IsNaN(b) THEN PropagateNaN(a, b) ELSE Quiet(c)
              w == IF IsNaN(a) THEN a ELSE IF IsNaN(b) THEN b ELSE c
              flags == IF IsSNaN(a) \/ IsSNaN(b) \/ IsSNaN(c) THEN {"invalid"} ELSE {}
  <2>1. Done(v, flags) /\ AnyNaN /\ ~ InvalidProduct
    BY <1>2 DEF NaNOperand
  <2>2. v = Quiet(w)
    BY Zenon DEF PropagateNaN
  <2>3. Copied = [res |-> Quiet(w), fe |-> flags]
    BY <2>1, CopiedSpecials
  <2>. HIDE DEF v, w, flags
  <2>. QED BY <2>1, <2>2, <2>3, DoneCopied
<1>3. CASE InfiniteProduct
  <2>1. /\ ~ InvalidProduct /\ ~ AnyNaN /\ (IsInf(a) \/ IsInf(b))
        /\ IF IsInf(c) /\ c.s # ProductSign THEN Done(CanonicalNaN, {"invalid"})
           ELSE Done(SignedInf(ProductSign), {})
    BY <1>3 DEF InfiniteProduct, Numbers
  <2>2. Copied = IF IsInf(c) /\ c.s # ProductSign
                 THEN [res |-> CanonicalNaN, fe |-> {"invalid"}]
                 ELSE [res |-> SignedInf(ProductSign), fe |-> {}]
    BY <2>1, CopiedSpecials
  <2>3. CASE IsInf(c) /\ c.s # ProductSign
    BY <2>1, <2>2, <2>3, DoneCopied
  <2>4. CASE ~ (IsInf(c) /\ c.s # ProductSign)
    BY <2>1, <2>2, <2>4, DoneCopied
  <2>. QED BY <2>3, <2>4
<1>4. CASE InfiniteAddend
  <2>1. /\ ~ InvalidProduct /\ ~ AnyNaN /\ ~ (IsInf(a) \/ IsInf(b)) /\ IsInf(c)
        /\ Done(SignedInf(c.s), {}) /\ c \in Values
    BY <1>4 DEF InfiniteAddend, Numbers, IInv, TypeOK
  <2>2. c = SignedInf(c.s)
    BY <2>1 DEF IsInf, SignedInf, Values
  <2>3. Copied = [res |-> c, fe |-> {}]
    BY <2>1, CopiedSpecials
  <2>. QED BY <2>1, <2>2, <2>3, DoneCopied
<1>5. CASE AddendOnly
  <2>. DEFINE v == IF ~ IsZero(c) THEN c
                   ELSE SignedZero(IF ProductSign = c.s THEN c.s ELSE ZeroSign)
              w == IF ~ IsZero(c) THEN c
                   ELSE SignedZero(IF c.s = ProductSign THEN c.s ELSE 0)
  <2>1. /\ ~ InvalidProduct /\ ~ AnyNaN /\ ~ (IsInf(a) \/ IsInf(b)) /\ ~ IsInf(c) /\ ZeroProduct
        /\ Done(v, {})
    BY <1>5 DEF AddendOnly, Finite, Numbers
  <2>2. Copied = [res |-> w, fe |-> {}]
    BY <2>1, CopiedSpecials
  <2>3. mode = "RNE" => ZeroSign = 0
    BY DEF ZeroSign
  <2>4. mode = "RNE" => v = w
    BY <2>3, Zenon
  <2>. HIDE DEF v, w
  <2>. QED BY <2>1, <2>2, <2>4, DoneCopied
<1>. QED BY <1>1, <1>2, <1>3, <1>4, <1>5

(* The significands, and a number laid into the frame.                     *)
LEMMA CoreCopied ==
  ASSUME TypeOK, Finite, ~ ZeroProduct
  PROVE  Copied = IF IsZero(c) THEN Copy!RoundFrameRne(ProductSign, Product, ProductExp)
                  ELSE Copy!AlignedRne(ProductSign, Product, ProductExp, c, Exponent(c))
<1>1. /\ a \in Values /\ a.e < ExpMax /\ ~ IsZero(a) /\ b \in Values /\ b.e < ExpMax /\ ~ IsZero(b)
      /\ c \in Values /\ c.e < ExpMax
  BY Factors
<1>2. Copied = Copy!FmaCoreRne(a, b, c)
  BY CopiedSpecials DEF Finite, Numbers
<1>3. /\ Copy!Mant(a) = Mantissa(a) /\ Copy!Unpack(a) = Unpack(a)
      /\ Copy!Mant(b) = Mantissa(b) /\ Copy!Unpack(b) = Unpack(b)
      /\ ~ IsZero(c) => Copy!Unpack(c) = Unpack(c)
      /\ Copy!IsZero(c) <=> IsZero(c)
  BY <1>1, CopyUnpack, CopyClasses
<1>4. Copy!Mant(a) * Copy!Mant(b) = Product
  BY <1>3, Zenon DEF Product
<1>5. Unpack(a).exp + Unpack(b).exp - 2 * (Bias + FracBits) = ProductExp
  <2>. DEFINE x == Unpack(a).exp
              y == Unpack(b).exp
  <2>1. x \in Int /\ y \in Int
    BY <1>1, FactorWeighs
  <2>2. ProductExp = (x - Bias) + (y - Bias) - 2 * FracBits
    BY DEF ProductExp, Exponent
  <2>. HIDE DEF x, y
  <2>3. x + y - 2 * (Bias + FracBits) = (x - Bias) + (y - Bias) - 2 * FracBits
    BY <2>1, Fields, Widths
  <2>. QED BY <2>2, <2>3 DEF x, y
<1>6. ~ IsZero(c) => Copy!Unpack(c).exp - Bias = Exponent(c)
  BY <1>3, Zenon DEF Exponent
<1>7. Copy!Unpack(a).exp + Copy!Unpack(b).exp - 2 * (Bias + FracBits) = ProductExp
  BY <1>3, <1>5
<1>8. CASE IsZero(c)
  <2>1. Copy!FmaCoreRne(a, b, c) = Copy!RoundFrameRne(ProductSign, Product, ProductExp)
    BY <1>3, <1>4, <1>7, <1>8, CopyHelpers, Zenon DEF Copy!FmaCoreRne
  <2>. QED BY <1>2, <1>8, <2>1
<1>9. CASE ~ IsZero(c)
  <2>1. Copy!FmaCoreRne(a, b, c) = Copy!AlignedRne(ProductSign, Product, ProductExp, c, Exponent(c))
    BY <1>3, <1>4, <1>6, <1>7, <1>9, CopyHelpers, Zenon DEF Copy!FmaCoreRne
  <2>. QED BY <1>2, <1>9, <2>1
<1>. QED BY <1>8, <1>9

LEMMA LaidCopied ==
  ASSUME NEW m, NEW e \in Int, FrameExp \in Int
  PROVE  Copy!LaidRne(m, e - FrameExp) = Laid(m, e)
<1>. DEFINE s == e - FrameExp
            r == FrameExp - e
<1>1. /\ r = -s /\ -r = s /\ s \in Int /\ r \in Int
      /\ s >= 0 <=> r <= 0
  OBVIOUS
<1>2. Laid(m, e) = IF r <= 0 THEN m * Pow2[-r]
                   ELSE IF r >= FrameBits THEN 1
                   ELSE OrSticky(m \div Pow2[r], m % Pow2[r] # 0)
  BY Zenon DEF Laid
<1>. HIDE DEF s, r
<1>3. Copy!LaidRne(m, s) = IF s >= 0 THEN m * Pow2[s]
                           ELSE IF -s >= FrameBits THEN 1
                           ELSE OrSticky(m \div Pow2[-s], m % Pow2[-s] # 0)
  BY CopyHelpers, Zenon DEF Copy!LaidRne
<1>4. Copy!LaidRne(m, s) = Laid(m, e)
  <2>1. CASE s >= 0
    BY <1>1, <1>2, <1>3, <2>1
  <2>2. CASE ~ (s >= 0)
    BY <1>1, <1>2, <1>3, <2>2
  <2>. QED BY <2>1, <2>2
<1>. QED BY <1>4 DEF s

LEMMA CombineCopied ==
  ASSUME IInv, Combine
  PROVE  Framing' /\ RneIdentical'
<1>. DEFINE p == Laid(Product, ProductExp)
            q == Laid(Mantissa(c), Exponent(c) - FracBits)
            half == Pow2[FrameBits - 2]
            x == ProductExp + HighestBit(Product)
            y == Exponent(c)
            f == FrameExp
            ps == ProductSign
            sum == (p + q) % Pow2[FrameBits]
<1>1. TypeOK /\ Finite /\ ~ ZeroProduct /\ ~ IsZero(c)
  BY DEF IInv, Combine
<1>2. IF ps = c.s THEN Frame(c.s, sum, f)
      ELSE IF p = q THEN Done(SignedZero(ZeroSign), {})
      ELSE IF p > q THEN Frame(ps, p - q, f)
      ELSE Frame(c.s, q - p, f)
  BY DEF Combine
<1>3. c \in Values /\ c.e < ExpMax
  BY <1>1, Factors
<1>4. p \in Int /\ q \in Int /\ f \in Int
  BY <1>1, LaidOperands
<1>5. ProductExp \in Int /\ y \in Int /\ HighestBit(Product) \in Int /\ x \in Int /\ y - FracBits \in Int
  <2>1. ProductExp \in Int /\ y \in Int /\ HighestBit(Product) \in Int
    BY <1>1, Magnitudes
  <2>. QED BY <2>1, Fields, Widths
<1>6. Copy!Greater(x, y) + 2 - (FrameBits - 1) = f
  <2>1. f = ((IF x > y THEN x ELSE y) + 2) - (FrameBits - 1)
    BY DEF FrameExp, FrameTop
  <2>2. Copy!Greater(x, y) = IF x > y THEN x ELSE y
    BY Zenon DEF Copy!Greater
  <2>. HIDE DEF x, y, f
  <2>. QED BY <1>5, <2>1, <2>2, FrameWidths
<1>7. Copied = Copy!CombinedRne(ps, Copy!LaidRne(Product, ProductExp - f),
                                c.s, Copy!LaidRne(Copy!Mant(c), y - FracBits - f), f)
  <2>1. Copied = Copy!AlignedRne(ps, Product, ProductExp, c, y)
    BY <1>1, CoreCopied
  <2>2. Copy!Greater(ProductExp + Copy!HighestBit(Product), y) + 2 - (FrameBits - 1) = f
    BY <1>6, CopyHelpers
  <2>. HIDE DEF f, y, ps
  <2>. QED BY <2>1, <2>2, Zenon DEF Copy!AlignedRne
<1>8. /\ Copy!LaidRne(Product, ProductExp - f) = p
      /\ Copy!LaidRne(Copy!Mant(c), y - FracBits - f) = q
  <2>1. Copy!Mant(c) = Mantissa(c)
    BY <1>1, <1>3, CopyUnpack
  <2>2. Copy!LaidRne(Mantissa(c), (y - FracBits) - f) = q
    BY <1>4, <1>5, LaidCopied
  <2>3. Copy!LaidRne(Product, ProductExp - f) = p
    BY <1>4, <1>5, LaidCopied
  <2>. QED BY <2>1, <2>2, <2>3
<1>. HIDE DEF p, q, f, x, y, ps
<1>9. Copied =
        IF ps # c.s /\ p = q THEN [res |-> SignedZero(0), fe |-> {}]
        ELSE Copy!RoundFrameRne(IF p > q THEN ps ELSE c.s,
                                IF ps = c.s THEN sum ELSE IF p > q THEN p - q ELSE q - p, f)
  BY <1>7, <1>8, CopyHelpers, Zenon DEF Copy!CombinedRne, Copy!Quietly, Copy!Outcome
<1>. HIDE DEF sum
<1>10. CASE ps = c.s
  <2>1. Copied = Copy!RoundFrameRne(c.s, sum, f)
    BY <1>9, <1>10
  <2>. QED BY <1>2, <1>10, <2>1, FrameCopied
<1>11. CASE ps # c.s /\ p = q
  <2>1. Copied = [res |-> SignedZero(0), fe |-> {}] /\ Done(SignedZero(ZeroSign), {})
    BY <1>2, <1>9, <1>11
  <2>2. mode = "RNE" => ZeroSign = 0
    BY DEF ZeroSign
  <2>. QED BY <2>1, <2>2, DoneCopied
<1>12. CASE ps # c.s /\ p > q
  <2>1. p # q
    BY <1>4, <1>12
  <2>2. Copied = Copy!RoundFrameRne(ps, p - q, f) /\ Frame(ps, p - q, f)
    BY <1>2, <1>9, <1>12, <2>1
  <2>. QED BY <2>2, FrameCopied
<1>13. CASE ps # c.s /\ p # q /\ ~ (p > q)
  <2>1. Copied = Copy!RoundFrameRne(c.s, q - p, f) /\ Frame(c.s, q - p, f)
    BY <1>2, <1>9, <1>13
  <2>. QED BY <2>1, FrameCopied
<1>. QED BY <1>10, <1>11, <1>12, <1>13

LEMMA CopyInductive == CInv /\ [Next]_vars => CInv'
<1>. SUFFICES ASSUME CInv, [Next]_vars PROVE CInv'
  OBVIOUS
<1>1. IInv /\ IInv'
  BY Inductive DEF CInv
<1>. SUFFICES Framing' /\ RneIdentical'
  BY <1>1 DEF CInv
<1>2. CASE UNCHANGED vars
  BY <1>2 DEF vars, CInv, Framing, RneIdentical, Copied
<1>3. CASE Undefined \/ NaNOperand \/ InfiniteProduct \/ InfiniteAddend \/ AddendOnly
  BY <1>1, <1>3, SpecialCopied
<1>4. CASE ProductOnly
  <2>1. /\ TypeOK /\ Finite /\ ~ ZeroProduct /\ IsZero(c)
        /\ Frame(ProductSign, Product, ProductExp)
    BY <1>1, <1>4 DEF IInv, ProductOnly
  <2>2. Copied = Copy!RoundFrameRne(ProductSign, Product, ProductExp)
    BY <2>1, CoreCopied
  <2>. QED BY <2>1, <2>2, FrameCopied
<1>5. CASE Combine
  BY <1>1, <1>5, CombineCopied
<1>6. CASE RoundFarBelow \/ RoundSubnormal \/ RoundNormal
  <2>1. pc = "round"
    BY <1>6 DEF RoundFarBelow, RoundSubnormal, RoundNormal
  <2>2. PICK v, flags : Done(v, flags)
    BY <1>6, Zenon DEF RoundFarBelow, RoundSubnormal, RoundNormal
  <2>3. res' = v /\ fe' = flags
    BY <2>2 DEF Done
  <2>4. mode = "RNE" => [res |-> v, fe |-> flags] = Copied
    BY <1>1, <1>6, <2>1, <2>3, RoundingCopied DEF CInv, Framing
  <2>. QED BY <2>2, <2>4, DoneCopied
<1>. QED BY <1>2, <1>3, <1>4, <1>5, <1>6 DEF Next

(* internal_arith.h:19-20 promises that the copy sf64_fma is built from is *)
(* bit-exact with the round-to-nearest-even mode of sf64_fma_r: the same   *)
(* value and the same flags, for every format and all operands.            *)
THEOREM RneIdenticalAlways == Spec => []RneIdentical
<1>1. Init => CInv
  <2>1. Init => IInv
    BY TypeInit
  <2>. QED BY <2>1 DEF Init, CInv, Framing, RneIdentical
<1>2. CInv => RneIdentical
  BY DEF CInv
<1>. QED BY <1>1, <1>2, CopyInductive, PTL DEF Spec
=============================================================================

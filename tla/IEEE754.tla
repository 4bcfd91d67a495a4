------------------------------- MODULE IEEE754 -------------------------------
(***************************************************************************)
(* IEEE 754 arithmetic by definition, to compare the code with: the exact  *)
(* value of an operation is a fraction, its correctly rounded result is    *)
(* found by comparing that fraction with the values the format has.        *)
(* Magnitudes are counted in units of the least subnormal number, which    *)
(* the table of powers must reach.                                         *)
(***************************************************************************)
EXTENDS Format64

(* The magnitudes from zero to the one infinity stands for when rounding,  *)
(* by bit pattern: pattern i + 1 is the next larger magnitude.             *)
InfIndex == ExpMax * ImplicitBit

Magnitude == [i \in 0..InfIndex |->
                LET e == i \div ImplicitBit
                    f == i % ImplicitBit
                IN  IF e = 0 THEN f ELSE (ImplicitBit + f) * Pow2[e - 1]]

Mag(v) == Magnitude[v.e * ImplicitBit + v.f]
Signed(v) == IF v.s = 0 THEN Mag(v) ELSE -Mag(v)

OfIndex(s, i) == [s |-> s, e |-> i \div ImplicitBit, f |-> i % ImplicitBit]

(* 1.0 is 2^LogOne units.                                                  *)
LogOne == FracBits + Bias - 1

(* The largest magnitude not above num / den < Magnitude[InfIndex]: first  *)
(* its binade, then its fraction.                                          *)
Between(i, num, den, j) == Magnitude[i] * den <= num /\ num < Magnitude[j] * den

FloorIndex(num, den) ==
  LET e == CHOOSE e \in 0..(ExpMax - 1) :
             Between(e * ImplicitBit, num, den, (e + 1) * ImplicitBit)
  IN  CHOOSE i \in (e * ImplicitBit)..((e + 1) * ImplicitBit - 1) :
        Between(i, num, den, i + 1)

(* Whether a fraction strictly between two neighbours goes to the larger.  *)
GoesUp(s, i, num, den, mode) ==
  LET twice == 2 * num
      mid == (Magnitude[i] + Magnitude[i + 1]) * den
  IN  CASE mode = "RTZ" -> FALSE
        [] mode = "RUP" -> s = 0
        [] mode = "RDN" -> s = 1
        [] mode = "RNA" -> twice >= mid
        [] mode = "RNE" -> twice > mid \/ (twice = mid /\ i % 2 = 1)

OverflowTo(s, mode) ==
  IF mode \in {"RNE", "RNA"} \/ (mode = "RUP" /\ s = 0) \/ (mode = "RDN" /\ s = 1)
  THEN SignedInf(s) ELSE MaxFinite(s)

Result(v, flags) == [res |-> v, fe |-> flags]

Overflows(s, mode) == Result(OverflowTo(s, mode), {"overflow", "inexact"})

(* The rounding of (-1)^s * num / den, for num > 0; tininess is detected   *)
(* before rounding.                                                        *)
Round(s, num, den, mode) ==
  IF num >= Magnitude[InfIndex] * den THEN Overflows(s, mode)
  ELSE LET i == FloorIndex(num, den)
           exact == Magnitude[i] * den = num
           j == IF ~exact /\ GoesUp(s, i, num, den, mode) THEN i + 1 ELSE i
           tiny == num < ImplicitBit * den
       IN  IF j = InfIndex THEN Overflows(s, mode)
           ELSE Result(OfIndex(s, j),
                       IF exact THEN {}
                       ELSE {"inexact"} \cup (IF tiny THEN {"underflow"} ELSE {}))

RoundInteger(x, mode) == Round(IF x < 0 THEN 1 ELSE 0, IF x < 0 THEN -x ELSE x, 1, mode)

(* A magnitude is an odd number times a power of two; a product or quotient *)
(* is odd * 2^n / den.                                                      *)
Twos(x) == CHOOSE n \in 0..MaxShift : x % Pow2[n] = 0 /\ x % Pow2[n + 1] # 0
Odd(x) == x \div Pow2[Twos(x)]

RoundScaled(s, odd, n, den, mode) ==
  IF n >= 0 THEN Round(s, odd * Pow2[n], den, mode) ELSE Round(s, odd, den * Pow2[-n], mode)

Invalid == Result(CanonicalNaN, {"invalid"})

(* 6.2.3: the result is the NaN of an operand, quieted.                    *)
NaNResult(a, b) ==
  Result(PropagateNaN(a, b), IF IsSNaN(a) \/ IsSNaN(b) THEN {"invalid"} ELSE {})

(* 6.3: the sign of an exact zero sum.                                     *)
ZeroSum(s, t, mode) == SignedZero(IF s = t THEN s ELSE IF mode = "RDN" THEN 1 ELSE 0)

(* The exact sum of two finite operands, rounded; a zero sum has a sign.   *)
Add(a, b, mode) ==
  IF IsNaN(a) \/ IsNaN(b) THEN NaNResult(a, b)
  ELSE IF IsInf(a) /\ IsInf(b) /\ a.s # b.s THEN Invalid
  ELSE IF IsInf(a) THEN Result(a, {})
  ELSE IF IsInf(b) THEN Result(b, {})
  ELSE LET x == Signed(a) + Signed(b) IN
       IF x = 0 THEN Result(ZeroSum(a.s, b.s, mode), {}) ELSE RoundInteger(x, mode)

(* A NaN operand is not negated.                                          *)
Subtract(a, b, mode) ==
  IF IsNaN(a) \/ IsNaN(b) THEN NaNResult(a, b) ELSE Add(a, Neg(b), mode)

(* The sign of a product or a quotient.                                    *)
SignOf(a, b) == (a.s + b.s) % 2

Multiply(a, b, mode) ==
  IF IsNaN(a) \/ IsNaN(b) THEN NaNResult(a, b)
  ELSE IF (IsInf(a) /\ IsZero(b)) \/ (IsZero(a) /\ IsInf(b)) THEN Invalid
  ELSE IF IsInf(a) \/ IsInf(b) THEN Result(SignedInf(SignOf(a, b)), {})
  ELSE IF IsZero(a) \/ IsZero(b) THEN Result(SignedZero(SignOf(a, b)), {})
  ELSE RoundScaled(SignOf(a, b), Odd(Mag(a)) * Odd(Mag(b)),
                   Twos(Mag(a)) + Twos(Mag(b)) - LogOne, 1, mode)

Divide(a, b, mode) ==
  IF IsNaN(a) \/ IsNaN(b) THEN NaNResult(a, b)
  ELSE IF (IsInf(a) /\ IsInf(b)) \/ (IsZero(a) /\ IsZero(b)) THEN Invalid
  ELSE IF IsInf(a) THEN Result(SignedInf(SignOf(a, b)), {})
  ELSE IF IsInf(b) \/ IsZero(a) THEN Result(SignedZero(SignOf(a, b)), {})
  ELSE IF IsZero(b) THEN Result(SignedInf(SignOf(a, b)), {"divbyzero"})
  ELSE RoundScaled(SignOf(a, b), Odd(Mag(a)), Twos(Mag(a)) - Twos(Mag(b)) + LogOne,
                   Odd(Mag(b)), mode)

(* a * b + c is ((a * b) * 2^k + c * 2^k) / 2^k with k chosen so that the   *)
(* numerator is an integer.                                                *)
FusedMultiplyAdd(a, b, c, mode) ==
  LET n == Twos(Mag(a)) + Twos(Mag(b)) - LogOne
      k == IF n < 0 THEN -n ELSE 0
      product == Odd(Mag(a)) * Odd(Mag(b)) * Pow2[n + k]
      sum == (IF SignOf(a, b) = 0 THEN product ELSE -product) + Signed(c) * Pow2[k]
  IN  IF (IsInf(a) /\ IsZero(b)) \/ (IsZero(a) /\ IsInf(b)) THEN Invalid
      ELSE IF IsNaN(a) \/ IsNaN(b) \/ IsNaN(c)
      THEN Result(IF IsNaN(a) \/ IsNaN(b) THEN PropagateNaN(a, b) ELSE Quiet(c),
                  IF IsSNaN(a) \/ IsSNaN(b) \/ IsSNaN(c) THEN {"invalid"} ELSE {})
      ELSE IF IsInf(a) \/ IsInf(b) \/ IsZero(a) \/ IsZero(b)
      THEN Add(IF IsInf(a) \/ IsInf(b) THEN SignedInf(SignOf(a, b))
               ELSE SignedZero(SignOf(a, b)), c, mode)
      ELSE IF IsInf(c) THEN Result(c, {})
      ELSE IF sum = 0 THEN Result(ZeroSum(SignOf(a, b), c.s, mode), {})
      ELSE Round(IF sum < 0 THEN 1 ELSE 0, IF sum < 0 THEN -sum ELSE sum, Pow2[k], mode)

(* The square root of a magnitude m is the root of m * 2^LogOne; a root is *)
(* below RootLimit, and magnitudes up to there have squares in range.      *)
RootLimit == Pow2[(FracBits + ExpMax + LogOne) \div 2]

RootFloorIndex(square) ==
  CHOOSE i \in 0..(InfIndex - 1) :
    /\ Magnitude[i] < RootLimit
    /\ Magnitude[i] * Magnitude[i] <= square
    /\ square < Magnitude[i + 1] * Magnitude[i + 1]

Sqrt(v, mode) ==
  IF IsNaN(v) THEN NaNResult(v, v)
  ELSE IF IsZero(v) THEN Result(v, {})
  ELSE IF v.s = 1 THEN Invalid
  ELSE IF IsInf(v) THEN Result(v, {})
  ELSE LET square == Mag(v) * Pow2[LogOne]
           i == RootFloorIndex(square)
           exact == Magnitude[i] * Magnitude[i] = square
           mid == Magnitude[i] + Magnitude[i + 1]
           up == CASE mode \in {"RTZ", "RDN"} -> FALSE
                   [] mode = "RUP" -> ~exact
                   [] mode \in {"RNE", "RNA"} -> 4 * square > mid * mid
       IN  Result(OfIndex(0, IF up THEN i + 1 ELSE i), IF exact THEN {} ELSE {"inexact"})

(* The integer next to num / den in the direction of the mode, for num >= 0 *)
(* and a number of sign s.                                                 *)
NearestInteger(s, num, den, mode) ==
  LET n == num \div den
      rest == num % den
      up == CASE mode = "RTZ" -> FALSE
              [] mode = "RUP" -> rest > 0 /\ s = 0
              [] mode = "RDN" -> rest > 0 /\ s = 1
              [] mode = "RNA" -> 2 * rest >= den
              [] mode = "RNE" -> 2 * rest > den \/ (2 * rest = den /\ n % 2 = 1)
  IN  IF up THEN n + 1 ELSE n

(* remainder: the exact a - b * n for the integer n nearest to a / b, the  *)
(* even one of two; a zero has the sign of a.                              *)
Remainder(a, b) ==
  IF IsNaN(a) \/ IsNaN(b) THEN NaNResult(a, b)
  ELSE IF IsInf(a) \/ IsZero(b) THEN Invalid
  ELSE IF IsInf(b) \/ IsZero(a) THEN Result(a, {})
  ELSE LET r == Mag(a) - NearestInteger(0, Mag(a), Mag(b), "RNE") * Mag(b) IN
       IF r = 0 THEN Result(SignedZero(a.s), {})
       ELSE IF r > 0 THEN Round(a.s, r, 1, "RNE") ELSE Round(1 - a.s, -r, 1, "RNE")

(* fmod: the exact a - b * trunc(a / b), with the sign of a.               *)
Fmod(a, b) ==
  IF IsNaN(a) \/ IsNaN(b) THEN NaNResult(a, b)
  ELSE IF IsInf(a) \/ IsZero(b) THEN Invalid
  ELSE IF IsInf(b) THEN Result(a, {})
  ELSE LET r == Mag(a) % Mag(b) IN
       IF r = 0 THEN Result(SignedZero(a.s), {}) ELSE Round(a.s, r, 1, "RNE")
=============================================================================

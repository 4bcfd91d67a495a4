----------------------------- MODULE Integral64 -----------------------------
(***************************************************************************)
(* src/src/rounding.cpp: rounding to an integral value, splitting and      *)
(* scaling, on the bits of a value.  Each operator is the function from    *)
(* operands to result; fract and modf subtract, and raise what that raises.*)
(***************************************************************************)
EXTENDS Reference64

CONSTANTS ScaleClamp,      \* 2100: ldexp's bound of its exponent argument
          IntMin, IntMax   \* INT_MIN, INT_MAX: ilogb of zero, and of NaN and infinity

(* ldexp is blind beyond the clamp; each binary exponent is an exact value.*)
ASSUME IntegralAssumption ==
  /\ ScaleClamp \in Nat /\ ScaleClamp > 2 * Bias + FracBits
  /\ IntMin \in Int /\ IntMin < -(Bias + FracBits)
  /\ IntMax \in Int /\ IntMax > Bias
  /\ Bias + FracBits <= Pow2[FracBits + 1]
  /\ FracBits <= Bias

(* A word without its sign bit, and the value of such a word.              *)
Low(v) == v.e * ImplicitBit + v.f
WithLow(sign, low) == [s |-> sign, e |-> low \div ImplicitBit, f |-> low % ImplicitBit]

Unbiased(v) == v.e - Bias
One(sign) == [s |-> sign, e |-> Bias, f |-> 0]

(* One, in the fraction field of a value with 0 <= Unbiased(v) < FracBits. *)
OneUlp(v) == Pow2[FracBits - Unbiased(v)]

TruncBits(v) ==
  IF v.e = ExpMax \/ Unbiased(v) >= FracBits THEN v
  ELSE IF Unbiased(v) < 0 THEN SignedZero(v.s)
  ELSE [v EXCEPT !.f = v.f - (v.f % OneUlp(v))]

HasFractionalPart(v) ==
  /\ v.e # ExpMax /\ Unbiased(v) < FracBits
  /\ IF Unbiased(v) < 0 THEN ~IsZero(v) ELSE v.f % OneUlp(v) # 0

(* The bit-level increment carries from the fraction into the exponent.    *)
NextIntegerInFraction(t, direction) ==                              \* MUTANT
  IF IsZero(t) THEN One(direction)
  ELSE [t EXCEPT !.f = (t.f + OneUlp(t)) % ImplicitBit]

NextIntegerAway(t, direction) ==
  IF IsZero(t) THEN One(direction)
  ELSE WithLow(t.s, IF t.s = direction THEN Low(t) + OneUlp(t) ELSE Low(t) - OneUlp(t))

Floor(v) == IF HasFractionalPart(v) /\ v.s = 1 THEN NextIntegerAway(TruncBits(v), 1)
            ELSE TruncBits(v)

Ceil(v) == IF HasFractionalPart(v) /\ v.s = 0 THEN NextIntegerAway(TruncBits(v), 0)
           ELSE TruncBits(v)

(* The highest bit of the fractional part, and whether one below it is set.*)
HalfSet(v) == BitSet(v.f, FracBits - Unbiased(v) - 1)
BelowHalfSet(v) == v.f % Pow2[FracBits - Unbiased(v) - 1] # 0

RoundAway(v) ==
  IF v.e = ExpMax \/ ~HasFractionalPart(v) THEN v
  ELSE IF Unbiased(v) < 0 THEN IF Unbiased(v) = -1 THEN One(v.s) ELSE SignedZero(v.s)
  ELSE IF HalfSet(v) THEN NextIntegerAway(TruncBits(v), v.s)
  ELSE TruncBits(v)

(* The lowest integer bit of 1.x is the implicit one.                      *)
Odd(t) == Unbiased(t) = 0 \/ BitSet(t.f, FracBits - Unbiased(t))

Rint(v) ==
  IF v.e = ExpMax \/ ~HasFractionalPart(v) THEN v
  ELSE IF Unbiased(v) < 0
       THEN IF Unbiased(v) = -1 /\ v.f # 0 THEN One(v.s) ELSE SignedZero(v.s)
  ELSE IF HalfSet(v) /\ (BelowHalfSet(v) \/ Odd(TruncBits(v)))
       THEN NextIntegerAway(TruncBits(v), v.s)
  ELSE TruncBits(v)

RintInMode(mode, v) ==
  CASE mode = "RTZ" -> TruncBits(v)
    [] mode = "RUP" -> Ceil(v)
    [] mode = "RDN" -> Floor(v)
    [] mode = "RNA" -> RoundAway(v)
    [] OTHER        -> Rint(v)

---------------------------------------------------------------------------
Quietly(v) == [res |-> v, fe |-> {}]
Subtract(a, b) == Rne!SubRne(a, b, FALSE)

Fract(v) ==
  IF IsNaN(v) THEN Quietly(Quiet(v))
  ELSE IF IsInf(v) THEN Quietly(CanonicalNaN)
  ELSE IF Floor(v) = v THEN Quietly(SignedZero(0))
  ELSE LET r == Subtract(v, Floor(v))
       IN  [r EXCEPT !.res = IF IsZero(@) THEN SignedZero(0) ELSE @]

(* The second result is the integer part stored through iptr.              *)
Modf(v) ==
  IF IsNaN(v) THEN [res |-> Quiet(v), part |-> Quiet(v), fe |-> {}]
  ELSE IF IsInf(v) THEN [res |-> SignedZero(v.s), part |-> v, fe |-> {}]
  ELSE LET r == Subtract(v, TruncBits(v))
       IN  [res |-> IF IsZero(r.res) THEN SignedZero(v.s) ELSE r.res,
            part |-> TruncBits(v), fe |-> r.fe]

---------------------------------------------------------------------------
(* A subnormal number is renormalised first.                               *)
SubnormalShift(v) == Clz(v.f) - (WordBits - 1 - FracBits)
NormalFraction(v) ==
  IF v.e = 0 THEN (v.f * Pow2[SubnormalShift(v)]) % ImplicitBit ELSE v.f
TrueExponent(v) == IF v.e = 0 THEN 1 - Bias - SubnormalShift(v) ELSE Unbiased(v)

Clamped(n) == IF n > ScaleClamp THEN ScaleClamp ELSE IF n < -ScaleClamp THEN -ScaleClamp ELSE n

(* The significand moved below the subnormal range, to nearest even.       *)
RetainedTruncated(mant, n) == mant \div Pow2[n]                     \* MUTANT
Retained(mant, n) ==
  LET kept == mant \div Pow2[n]
      sticky == mant % Pow2[n - 1] # 0
  IN  IF BitSet(mant, n - 1) /\ (sticky \/ kept % 2 = 1) THEN kept + 1 ELSE kept

Ldexp(v, n) ==
  LET exp == TrueExponent(v) + Clamped(n)
      right == 1 - Bias - exp
  IN  IF IsNaN(v) THEN Quiet(v)
      ELSE IF IsInf(v) \/ IsZero(v) THEN v
      ELSE IF exp > Bias THEN SignedInf(v.s)
      ELSE IF right <= 0 THEN [s |-> v.s, e |-> exp + Bias, f |-> NormalFraction(v)]
      ELSE IF right >= WordBits THEN SignedZero(v.s)
      ELSE WithLow(v.s, Retained(ImplicitBit + NormalFraction(v), right))

(* The second result is the exponent stored through exp.                   *)
Frexp(v) ==
  IF IsNaN(v) THEN [res |-> Quiet(v), part |-> 0]
  ELSE IF IsInf(v) \/ IsZero(v) THEN [res |-> v, part |-> 0]
  ELSE [res |-> [s |-> v.s, e |-> Bias - 1, f |-> NormalFraction(v)],
        part |-> TrueExponent(v) + 1]

Ilogb(v) ==
  IF IsZero(v) THEN IntMin ELSE IF v.e = ExpMax THEN IntMax ELSE TrueExponent(v)

(* sf64_from_i32 of an integer that has no more bits than a significand.   *)
FromI32(n) ==
  LET mag == IF n < 0 THEN -n ELSE n
      msb == WordBits - 1 - Clz(mag)
  IN  IF n = 0 THEN SignedZero(0)
      ELSE [s |-> IF n < 0 THEN 1 ELSE 0, e |-> msb + Bias,
            f |-> ((mag * Pow2[FracBits]) \div Pow2[msb]) % ImplicitBit]

Logb(v) ==
  IF IsNaN(v) THEN Quiet(v)
  ELSE IF IsZero(v) THEN SignedInf(1)
  ELSE IF IsInf(v) THEN SignedInf(0)
  ELSE FromI32(Ilogb(v))
=============================================================================

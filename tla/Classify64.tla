----------------------------- MODULE Classify64 -----------------------------
(***************************************************************************)
(* src/src/internal_classify.h: the copies of trunc, ldexp, frexp and fcmp *)
(* that the transcendental functions inline.                               *)
(***************************************************************************)
EXTENDS Format64

CONSTANT ScaleClamp      \* 2100

InternalTrunc(v) ==
  LET unbiased == v.e - Bias
      unit == Pow2[FracBits - unbiased]
  IN  IF v.e = ExpMax \/ unbiased >= FracBits THEN v
      ELSE IF unbiased < 0 THEN SignedZero(v.s)
      ELSE [v EXCEPT !.f = (v.f \div unit) * unit]

(* The fraction and exponent of a nonzero finite value, renormalised.      *)
Renormalised(v) ==
  LET shift == Clz(v.f) - (WordBits - 1 - FracBits)
  IN  IF v.e = 0 THEN [frac |-> (v.f * Pow2[shift]) % ImplicitBit, exp |-> 1 - Bias - shift]
                 ELSE [frac |-> v.f, exp |-> v.e - Bias]

ScaleClamped(n) ==
  IF n > ScaleClamp THEN ScaleClamp ELSE IF n < -ScaleClamp THEN -ScaleClamp ELSE n

(* mant >> right, to nearest even.                                         *)
NearestEven(kept, out, half) ==
  IF out > half \/ (out = half /\ kept % 2 = 1) THEN kept + 1 ELSE kept
SubnormalMant(mant, right) ==
  IF right >= WordBits THEN 0
  ELSE NearestEven(mant \div Pow2[right], mant % Pow2[right], Pow2[right - 1])

(* frac and exp as they come out of the renormalisation, exp scaled.       *)
Scaled(s, frac, exp) ==
  IF exp > Bias THEN SignedInf(s)
  ELSE IF exp > -Bias THEN [s |-> s, e |-> exp + Bias, f |-> frac]
  ELSE LET m == SubnormalMant(ImplicitBit + frac, 1 - Bias - exp)
       IN  [s |-> s, e |-> m \div ImplicitBit, f |-> m % ImplicitBit]

InternalLdexp(v, n) ==
  CASE IsNaN(v) -> Quiet(v)
    [] IsInf(v) \/ IsZero(v) -> v
    [] OTHER -> LET r == Renormalised(v) IN Scaled(v.s, r.frac, r.exp + ScaleClamped(n))

InternalFrexp(v) ==
  CASE IsNaN(v) -> [res |-> Quiet(v), part |-> 0]
    [] IsInf(v) \/ IsZero(v) -> [res |-> v, part |-> 0]
    [] OTHER -> [res |-> [s |-> v.s, e |-> Bias - 1, f |-> Renormalised(v).frac],
                 part |-> Renormalised(v).exp + 1]

(* Words as two's complement integers, all but the sign bit flipped when   *)
(* it is set.                                                              *)
InternalLt(a, b) ==
  LET key(v) == IF v.s = 1 THEN -(v.e * ImplicitBit + v.f + 1) ELSE v.e * ImplicitBit + v.f
  IN  ~(IsZero(a) /\ IsZero(b)) /\ key(a) < key(b)

InternalEqOfWords(a, b) == a = b                                    \* MUTANT
InternalEq(a, b) == a = b \/ (IsZero(a) /\ IsZero(b))

Related(pred, nan, lt, gt, eq) ==
  LET relation == <<eq, gt, ~lt, lt, ~gt, ~eq, TRUE>>
  IN  CASE pred \in 1..7 -> ~nan /\ relation[pred]
        [] pred = 8 -> nan
        [] pred \in 9..15 -> nan \/ relation[pred - 8]
        [] OTHER -> FALSE

InternalFcmp(pred, a, b) ==
  Related(pred, IsNaN(a) \/ IsNaN(b), InternalLt(a, b), InternalLt(b, a), InternalEq(a, b))
=============================================================================

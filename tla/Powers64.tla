------------------------------ MODULE Powers64 ------------------------------
(***************************************************************************)
(* Powers and roots: pow, powr, pown and cbrt of                           *)
(* src/src/sleef/sleef_inv_hyp_pow.cpp, rootn of sleef_special.cpp.        *)
(***************************************************************************)
EXTENDS Kernel64

(* MUTANT of NegativeResult: every integer exponent keeps the sign.        *)
NegativeForIntegers(x, y) == x.s = 1 /\ is_int(y)
NegativeResult(x, y) == x.s = 1 /\ is_int(y) /\ is_odd_int(y)

(* |x|^y = exp(y * log|x|), the product a double-double.                   *)
PowKernel(x, y) ==
  UNION {sf64_internal_expk_dd(ddmul_dd_dd_d(l, y)) : l \in sf64_internal_logk_dd(abs_(x))}

sf64_pow(x, y) ==
  LET negate == NegativeResult(x, y)
      signed(v) == IF negate THEN Neg(v) ELSE v
      below == lt_(abs_(x), One)
  IN  IF IsZero(y) \/ eq_(x, One) THEN Early(One)
      ELSE IF IsNaN(x) \/ IsNaN(y) THEN Early(NaN)
      ELSE IF IsZero(x) THEN Early(signed(IF lt_(y, Zero) THEN Inf ELSE Zero))
      ELSE IF x.s = 1 /\ ~is_int(y) THEN Early(NaN)
      ELSE IF IsInf(x) THEN Early(signed(IF y.s = 0 THEN Inf ELSE Zero))
      ELSE IF IsInf(y)
      THEN Early(IF eq_(abs_(x), One) THEN One ELSE IF below = (y.s = 1) THEN Inf ELSE Zero)
      ELSE Flushed({signed(v) : v \in PowKernel(x, y)})

(* powr raises its flags itself.                                           *)
sf64_powr(x, y) ==
  IF IsNaN(x) \/ IsNaN(y) THEN Early(NaN)
  ELSE IF \/ lt_(x, Zero)
          \/ (IsZero(x) \/ IsInf(x)) /\ IsZero(y)
          \/ eq_(x, One) /\ IsInf(y)
  THEN {Outcome(NaN, {"invalid"})}
  ELSE IF IsZero(x) /\ lt_(y, Zero) THEN {Outcome(Inf, {"divbyzero"})}
  ELSE IF IsZero(x) THEN Early(Zero)
  ELSE sf64_pow(x, y)

sf64_pown(x, n) == sf64_pow(x, FromInt(n))

---------------------------------------------------------------------------
(* |x| = z * 2^(3q) with z in [1/2, 4).                                    *)
CubeSplit(x) ==
  LET u == InternalFrexp(abs_(x))
      rem == u.part % 3
  IN  [z |-> InternalLdexp(u.res, rem), q |-> (u.part - rem) \div 3]

(* The significand of a positive value in [1/2, 4), in units of the last   *)
(* place of one half.                                                      *)
InUnits(v) == (ImplicitBit + v.f) * Pow2[v.e - (Bias - 1)]
TwoUnits == Pow2[FracBits + 2]

(* The two Newton steps: a value next to the cube root, of those in        *)
(* [1/2, 2).                                                               *)
CubeRootKernel(z) ==
  {r \in [s : {0}, e : {Bias - 1, Bias}, f : 0..(ImplicitBit - 1)] :
     LET n == InUnits(r)
         ulp == Pow2[r.e - (Bias - 1)]
         cube(m) == m * m * m
         scaled == InUnits(z) * (TwoUnits \div 2) * (TwoUnits \div 2)
     IN  cube(n - ulp) < scaled /\ scaled < cube(n + ulp)}

sf64_cbrt(x) ==
  IF IsNaN(x) THEN Early(NaN)
  ELSE IF IsZero(x) \/ IsInf(x) THEN Early(x)
  ELSE LET split == CubeSplit(x)
       IN  Flushed(OfSign(x.s, {InternalLdexp(r, split.q) : r \in CubeRootKernel(split.z)}))

---------------------------------------------------------------------------
sf64_rootn(x, n) ==
  LET odd == n % 2 = 1
      signed(v) == IF x.s = 1 /\ odd THEN Neg(v) ELSE v
      powers == sf64_pow(abs_(x), div_(One, FromInt(n)))
  IN  CASE IsNaN(x) \/ n = 0 -> Early(NaN)
        [] ~IsNaN(x) /\ n = 1 -> Early(x)
        [] OTHER ->
             IF IsZero(x) THEN Early(signed(IF n > 0 THEN Zero ELSE Inf))
             ELSE IF IsInf(x)
             THEN IF n < 0 THEN Early(signed(Zero))
                  ELSE IF x.s = 0 \/ odd THEN Early(x) ELSE Early(NaN)
             ELSE IF x.s = 1 /\ ~odd THEN Early(NaN)
             ELSE IF n = 2 THEN Early(sqrt_(x))
             ELSE IF n = 3 THEN sf64_cbrt(x)
             ELSE IF n = -1 THEN Early(div_(One, x))
             ELSE IF eq_(abs_(x), One) THEN Early(signed(One))
             ELSE Flushed({signed(o.res) : o \in powers})
=============================================================================

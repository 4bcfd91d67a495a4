---------------------------- MODULE Elementary64 ----------------------------
(***************************************************************************)
(* Exponentials and logarithms (src/src/sleef/sleef_exp_log.cpp),          *)
(* hyperbolic functions and their inverses (sleef_inv_hyp_pow.cpp), error  *)
(* and gamma functions (sleef_special.cpp), and the native_ exponentials   *)
(* and logarithms of src/src/ocl.cpp.                                      *)
(***************************************************************************)
EXTENDS Kernel64

Cored(early, S) == IF early THEN {Outcome(v, {}) : v \in S} ELSE Flushed(S)
WithSign(x, v) == [v EXCEPT !.s = x.s]
Halved(S) == {mul_(v, Half) : v \in S}

IsExpSpecial(d) == IsNaN(d) \/ gt_(d, Bound.exp_high) \/ lt_(d, Neg(Bound.exp_low))

sf64_exp(x) == Cored(IsExpSpecial(x), sf64_internal_exp_core(x))

(* 2^s for the rest s of x, scaled: exact for an integer.                  *)
Exp2Kernel(s) ==
  IF IsZero(s) THEN {One}
  ELSE IF s.s = 1 THEN Sampled(Bound.root_half, One)
  ELSE Sampled(One, Bound.root_two)

sf64_exp2(x) ==
  IF IsNaN(x) THEN Early(NaN)
  ELSE IF ge_(x, FromInt(Bias + 1)) THEN Early(Inf)
  ELSE IF le_(x, Neg(Bound.exp2_low)) THEN Early(Zero)
  ELSE LET q == Whole!Rint(x)
       IN  Flushed({InternalLdexp(r, ToI32(q)) : r \in Exp2Kernel(sub_(x, q))})

sf64_exp10(x) ==
  IF IsNaN(x) THEN Early(NaN)
  ELSE IF gt_(x, Bound.exp10_high) THEN Early(Inf)
  ELSE IF lt_(x, Neg(Bound.exp10_low)) THEN Early(Zero)
  ELSE Flushed(ExpKernel(x))

(* e^x - 1 of a double-double e^x; the sign of -0 is put back.             *)
Expm1Kernel(x) ==
  IF IsZero(x) THEN {x}
  ELSE IF x.s = 1 THEN {Zero} \cup OfSign(1, Sampled(Least, One))
  ELSE Sampled(IF ge_(x, One) THEN One ELSE Zero, MaxFinite(0))

sf64_expm1(x) ==
  IF IsNaN(x) THEN Early(NaN)
  ELSE IF gt_(x, Bound.exp_high) THEN Early(Inf)
  ELSE IF lt_(x, Neg(Bound.expm1_low)) THEN Early(Neg(One))
  ELSE Flushed(Expm1Kernel(x))

---------------------------------------------------------------------------
sf64_log(x) == Cored(IsLogSpecial(x), sf64_internal_log_core(x))

(* log2 adds the exponent of the reduction unscaled: exact when m is one.  *)
Log2Kernel(x) ==
  LET r == Reduced(x) IN IF r.m = One THEN {FromInt(r.e)} ELSE LogKernel(x)

sf64_log2(x) ==
  IF IsLogSpecial(x) THEN {Outcome(v, {}) : v \in LogSpecial(x)} ELSE Flushed(Log2Kernel(x))
sf64_log10(x) ==
  IF IsLogSpecial(x) THEN {Outcome(v, {}) : v \in LogSpecial(x)} ELSE Flushed(LogKernel(x))

(* The sign of x: the rounding of 1 + x cannot lose it, m = (1+x)/2^e - 1  *)
(* being fused; a subnormal x may vanish when it is divided by 2 + m.      *)
Log1pKernel(x) ==
  IF IsZero(x) THEN {x}
  ELSE OfSign(x.s, Sampled(Least, Bound.log_most)) \cup (IF x.e = 0 THEN {Zero} ELSE {})

sf64_log1p(x) ==
  IF IsNaN(x) \/ lt_(x, Neg(One)) THEN Early(NaN)
  ELSE IF eq_(x, Neg(One)) THEN Early(Neg(Inf))
  ELSE IF IsInf(x) THEN Early(Inf)
  ELSE Flushed(Log1pKernel(x))

Values_(S) == {o.res : o \in S}

---------------------------------------------------------------------------
(* x + x * x^2 * p with p in (0, 1/2].                                     *)
OddSeries(x) == {fma_(mul_(x, mul_(x, x)), p, x) : p \in Sampled(Zero, Half)}
EvenSeries(x) == {fma_(mul_(x, x), p, One) : p \in Sampled(Zero, Half)}

sf64_sinh(x) ==
  LET a == abs_(x)
      exp_of(v) == sf64_internal_exp_core(v)
      (* e^(|x| - ln 2), for what e^|x| is too large to hold *)
      near == sf64_internal_expk_dd(
                ddadd2_dd_dd_d(ddadd2_dd_d_d(a, Neg(Bound.L2U)), Neg(Bound.L2L)))
  IN  IF IsNaN(x) THEN Early(NaN)
      ELSE IF IsInf(x) THEN Early(x)
      ELSE IF lt_(a, One) THEN Flushed(OddSeries(x))
      ELSE IF lt_(a, Bound.sinh_split)
      THEN Flushed(Halved({sub_(e, en) : e \in exp_of(x), en \in exp_of(Neg(x))}))
      ELSE IF gt_(a, Bound.sinh_high) THEN Early(WithSign(x, Inf))
      ELSE IF gt_(a, Bound.cosh_high) THEN Flushed({WithSign(x, v) : v \in near})
      ELSE Flushed({WithSign(x, v) : v \in Halved(exp_of(a))})

sf64_cosh(x) ==
  LET a == abs_(x)
      exp_of(v) == sf64_internal_exp_core(v)
  IN  IF IsNaN(x) THEN Early(NaN)
      ELSE IF IsInf(x) THEN Early(Inf)
      ELSE IF lt_(a, [Half EXCEPT !.e = Bias - 2]) THEN Flushed(EvenSeries(x))
      ELSE IF gt_(a, Bound.cosh_high) THEN Early(Inf)
      ELSE Flushed(Halved({add_(e, en) : e \in exp_of(x), en \in exp_of(Neg(x))}))

(* (e - 1) / (e + 1) with e = e^2x.                                        *)
sf64_tanh(x) ==
  IF IsNaN(x) THEN Early(NaN)
  ELSE IF IsInf(x) THEN Early(WithSign(x, One))
  ELSE IF lt_(abs_(x), Half)
  THEN Flushed({div_(sh, ch) : sh \in OddSeries(x), ch \in EvenSeries(x)})
  ELSE IF gt_(abs_(x), Bound.tanh_high) THEN Early(WithSign(x, One))
  ELSE Flushed({div_(sub_(e, One), add_(e, One)) :
                  e \in sf64_internal_exp_core(mul_(x, Two))})

---------------------------------------------------------------------------
(* The arguments the inverse functions hand to a logarithm, worked out in  *)
(* double-double arithmetic: the square of a large operand overflows.      *)
RootOf(x, c) == LET t == ddadd2_dd_dd_d(ddmul_dd_d_d(x, x), c) IN sqrt_(dd_to_d(t))

AsinhArgument(x) ==
  LET denom == add_(RootOf(x, One), One)
      t == ddmul_dd_dd_d(ddmul_dd_d_d(x, x), div_(One, denom))
  IN  dd_to_d(ddadd2_dd_dd_d(t, x))

sf64_asinh(x) ==
  LET a == abs_(x)
      arg == dd_to_d(ddadd2_dd_d_d(a, RootOf(a, One)))
  IN  IF IsNaN(x) THEN Early(NaN)
      ELSE IF IsInf(x) THEN Early(x)
      ELSE IF le_(a, One) THEN Flushed(Values_(sf64_log1p(AsinhArgument(x))))
      ELSE Flushed({IF x.s = 1 THEN Neg(v) ELSE v : v \in sf64_internal_log_core(arg)})

sf64_acosh(x) ==
  LET xm1 == sub_(x, One)
      near == add_(xm1, sqrt_(mul_(xm1, add_(x, One))))
      arg == dd_to_d(ddadd2_dd_d_d(x, RootOf(x, Neg(One))))
  IN  IF IsNaN(x) \/ lt_(x, One) THEN Early(NaN)
      ELSE IF IsInf(x) THEN Early(Inf)
      ELSE IF eq_(x, One) THEN Early(Zero)
      ELSE IF lt_(x, Two) THEN Flushed(Values_(sf64_log1p(near)))
      ELSE Flushed(sf64_internal_log_core(arg))

sf64_atanh(x) ==
  LET near == div_(mul_(x, Two), sub_(One, x))
      quotient == dddiv_dd_dd_dd(ddadd2_dd_d_d(One, x), ddadd2_dd_d_d(One, Neg(x)))
  IN  IF IsNaN(x) \/ gt_(abs_(x), One) THEN Early(NaN)
      ELSE IF eq_(abs_(x), One) THEN Early(WithSign(x, Inf))
      ELSE IF lt_(abs_(x), Half) THEN Flushed(Halved(Values_(sf64_log1p(near))))
      ELSE Flushed(Halved(sf64_internal_log_core(dd_to_d(quotient))))

---------------------------------------------------------------------------
(* 2/sqrt(pi) times a tiny operand; 1 - e^(...) in the middle; one beyond. *)
sf64_erf(x) ==
  LET a == abs_(x)
  IN  IF IsNaN(x) THEN Early(NaN)
      ELSE IF IsZero(x) THEN Early(x)
      ELSE IF IsInf(x) THEN Early(WithSign(x, One))
      ELSE IF lt_(a, Bound.erf_tiny) THEN Flushed({WithSign(x, mul_(Bound.two_over_root_pi, a))})
      ELSE IF gt_(a, Bound.erf_high) THEN Early(WithSign(x, One))
      ELSE Flushed(OfSign(x.s, Sampled(Least, One)))

(* erfc of |x|, at most one; 2 - that for a negative x.                    *)
ErfcUnreflected(x, r) == r                                          \* MUTANT
ErfcReflected(x, r) == IF x.s = 1 THEN sub_(Two, r) ELSE r

sf64_erfc(x) ==
  LET magnitudes == IF lt_(abs_(x), Bound.erfc_high) THEN Sampled(Zero, One) ELSE {Zero}
  IN  IF IsNaN(x) THEN Early(NaN)
      ELSE IF IsInf(x) THEN Early(IF x.s = 1 THEN Two ELSE Zero)
      ELSE Flushed({ErfcReflected(x, r) : r \in magnitudes})

---------------------------------------------------------------------------
(* gammak gives Gamma(x) as e^clc * div.  A tiny x is lifted by a power of *)
(* two first, and div is 1 / (lifted x); below one half, sin(pi x) of the  *)
(* reflection formula is taken of x modulo the period 2^28.                *)
IsTiny(x) == lt_(abs_(x), Bound.gamma_tiny)
Lift == [One EXCEPT !.e = Bias + LiftBits]
LiftedReciprocal(x) == dddiv_dd_dd_dd(dd(One, Zero), dd(mul_(x, Lift), Zero))

Reflected(x) ==
  LET k == ToI32(InternalTrunc(div_(x, Bound.gamma_period)))
  IN  sub_(x, mul_(FromInt(k), Bound.gamma_period))

(* The sign of div, which below one half is divided by sin(pi x); a gamma  *)
(* that underflows there is a zero of either sign.                         *)
GammaSigns(x) ==
  IF IsTiny(x) THEN {x.s}
  ELSE IF lt_(x, Half) THEN {v.s : v \in sinpi_core(Reflected(x))}
  ELSE {0}

GammaValues(x) ==
  IF IsTiny(x) THEN {dd_to_d(ddmul_dd_dd_dd(dd(Lift, Zero), LiftedReciprocal(x)))}
  ELSE IF ge_(x, Half) THEN Sampled(Half, Inf)
  ELSE UNION {OfSign(s, Sampled(Least, MaxFinite(0))) : s \in GammaSigns(x)}
       \cup (IF x.s = 1 THEN {Zero, Neg(Zero)} ELSE {})

(* What comes out of gammak for an infinity or a pole is not used; past    *)
(* 200, and for a nonnegative x whose gamma cannot be formed, infinity.    *)
tgamma_of(x, r) ==
  IF x.s = 1 /\ (IsInf(x) \/ (lt_(x, Zero) /\ (is_int(x) \/ IsNaN(r)))) THEN NaN
  ELSE IF ge_(x, Neg(MinNormal)) /\ (IsZero(x) \/ gt_(x, Bound.gamma_high) \/ IsNaN(r))
  THEN WithSign(x, Inf)
  ELSE r

sf64_tgamma(x) ==
  IF IsNaN(x) THEN Early(NaN)
  ELSE Flushed({tgamma_of(x, r) : r \in IF IsInf(x) THEN {NaN} ELSE GammaValues(x)})

(* The second result is the sign stored through sign.                      *)
StoredSign(s) == IF s = 1 THEN -1 ELSE 1
Signed_(S, n) == {[res |-> o.res, fe |-> o.fe, part |-> n] : o \in S}

sf64_lgamma_r(x) ==
  IF IsNaN(x) THEN Signed_(Early(NaN), 0)
  ELSE IF IsInf(x) THEN Signed_(Early(Inf), 1)
  ELSE IF lt_(x, Zero) /\ is_int(x) THEN Signed_(Early(Inf), 0)
  ELSE IF IsZero(x) THEN Signed_(Early(Inf), StoredSign(x.s))
  ELSE LET finite == Sampled(Zero, MaxFinite(0))
       IN  UNION {Signed_(Flushed(finite \cup OfSign(1, finite) \cup {Inf}), StoredSign(s)) :
                    s \in GammaSigns(x)}

sf64_lgamma(x) == {Outcome(o.res, o.fe) : o \in sf64_lgamma_r(x)}
=============================================================================

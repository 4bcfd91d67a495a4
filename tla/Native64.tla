------------------------------ MODULE Native64 ------------------------------
(***************************************************************************)
(* The native_ functions of src/src/ocl.cpp: short polynomials of their    *)
(* own beside the elementary functions, between wrappers that flush        *)
(* subnormal numbers when the library is built to (ftz).                   *)
(***************************************************************************)
EXTENDS Powers64, Elementary64, Trig64, Remainder64

ocl_in(ftz, x) == IF ftz /\ x.e = 0 THEN SignedZero(x.s) ELSE x
ocl_out(ftz, x) == ocl_in(ftz, x)
Out(ftz, S) == {[o EXCEPT !.res = ocl_out(ftz, @)] : o \in S}

(* sf64_ocl_div(1.0, 0.0)                                                  *)
Pole == {Outcome(div_(One, Zero), {"divbyzero"})}

(* The quarter turns in x, made nonnegative modulo four.                   *)
Quadrant(n) == n % 4

CosineNear(s) ==
  IF s = 0 THEN {One}
  ELSE IF -QuarterPi < s /\ s < QuarterPi THEN Sampled(Bound.root_half, One)
  ELSE Sampled(Least, Bound.root_half)

native_sin_reduced(angle) ==
  UNION {LET s == angle - (n * HalfPi) IN
         CASE Quadrant(n) = 0 -> SineNear(s)
           [] Quadrant(n) = 1 -> CosineNear(s)
           [] Quadrant(n) = 2 -> Negated(TRUE, SineNear(s))
           [] Quadrant(n) = 3 -> Negated(TRUE, CosineNear(s)) : n \in Nearby(angle, HalfPi)}

native_cos_reduced(angle) ==
  UNION {LET s == angle - (n * HalfPi) IN
         CASE Quadrant(n) = 0 -> CosineNear(s)
           [] Quadrant(n) = 1 -> Negated(TRUE, SineNear(s))
           [] Quadrant(n) = 2 -> Negated(TRUE, CosineNear(s))
           [] Quadrant(n) = 3 -> SineNear(s) : n \in Nearby(angle, HalfPi)}

(* A zero is at angle zero; past 2^20 the accurate function is called.     *)
NativeSine(x, angle) ==
  IF IsNaN(x) \/ IsInf(x) THEN Early(NaN)
  ELSE IF gt_(abs_(x), Bound.native_cutoff) THEN sf64_sin(x, angle)
  ELSE Flushed(native_sin_reduced(IF IsZero(x) THEN 0 ELSE angle))

NativeCosine(x, angle) ==
  IF IsNaN(x) \/ IsInf(x) THEN Early(NaN)
  ELSE IF gt_(abs_(x), Bound.native_cutoff) THEN sf64_cos(x, angle)
  ELSE Flushed(native_cos_reduced(IF IsZero(x) THEN 0 ELSE angle))

sf64_native_sin(ftz, x, angle) == Out(ftz, NativeSine(ocl_in(ftz, x), angle))
sf64_native_cos(ftz, x, angle) == Out(ftz, NativeCosine(ocl_in(ftz, x), angle))
sf64_native_tan(ftz, x, angle) ==
  Out(ftz, {Outcome(div_(s.res, c.res), s.fe \cup c.fe \cup DivRne(s.res, c.res).fe) :
              s \in NativeSine(ocl_in(ftz, x), angle), c \in NativeCosine(ocl_in(ftz, x), angle)})

---------------------------------------------------------------------------
native_exp_core(x) ==
  IF IsNaN(x) THEN Early(NaN)
  ELSE IF IsInf(x) /\ x.s = 1 THEN Early(Zero)
  ELSE IF IsInf(x) \/ gt_(x, Bound.exp_near) THEN Pole
  ELSE IF lt_(x, Neg(Bound.native_exp_low)) THEN Early(Zero)
  ELSE Flushed(ExpKernel(x))

native_log_core(x) ==
  IF IsNaN(x) \/ lt_(x, Zero) THEN Early(NaN)
  ELSE IF IsZero(x) THEN {[o EXCEPT !.res = Neg(@)] : o \in Pole}
  ELSE IF IsInf(x) THEN Pole
  ELSE Flushed(LogKernel(x))

Times(S, c) == {Outcome(mul_(o.res, c), o.fe) : o \in S}
ExpOf(S) == UNION {{[r EXCEPT !.fe = @ \cup o.fe] : r \in native_exp_core(o.res)} : o \in S}

sf64_native_exp(ftz, x) == Out(ftz, native_exp_core(ocl_in(ftz, x)))
sf64_native_exp2(ftz, x) == Out(ftz, ExpOf({MulRne(ocl_in(ftz, x), Bound.L2U)}))
sf64_native_exp10(ftz, x) == Out(ftz, ExpOf({MulRne(ocl_in(ftz, x), Bound.ln10)}))
sf64_native_log(ftz, x) == Out(ftz, native_log_core(ocl_in(ftz, x)))
sf64_native_log2(ftz, x) == Out(ftz, Times(native_log_core(ocl_in(ftz, x)), Bound.log2e))
sf64_native_log10(ftz, x) == Out(ftz, Times(native_log_core(ocl_in(ftz, x)), Bound.log10e))

sf64_ocl_powr(ftz, x, y) == Out(ftz, sf64_powr(ocl_in(ftz, x), ocl_in(ftz, y)))

sf64_native_powr(ftz, x, y) ==
  LET xb == ocl_in(ftz, x)
      yb == ocl_in(ftz, y)
  IN  IF IsNaN(xb) \/ IsNaN(yb) \/ le_(xb, Zero) \/ IsInf(xb) \/ IsInf(yb)
      THEN sf64_ocl_powr(ftz, x, y)
      ELSE Out(ftz, ExpOf(Times(native_log_core(xb), yb)))

(* Flushed once more by the wrapper of each operation.                     *)
sf64_native_sqrt(ftz, x) == {[SqrtRne(ocl_in(ftz, x)) EXCEPT !.res = ocl_out(ftz, @)]}
sf64_rsqrt(x) ==
  LET root == SqrtRne(x)
      quotient == DivRne(One, root.res)
  IN  Outcome(quotient.res, root.fe \cup quotient.fe)
sf64_native_rsqrt(ftz, x) == Out(ftz, {sf64_rsqrt(ocl_in(ftz, x))})
sf64_native_divide(ftz, x, y) ==
  {[DivRne(ocl_in(ftz, x), ocl_in(ftz, y)) EXCEPT !.res = ocl_out(ftz, @)]}
sf64_native_recip(ftz, x) == sf64_native_divide(ftz, One, x)
=============================================================================

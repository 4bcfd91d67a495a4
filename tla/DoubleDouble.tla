---------------------------- MODULE DoubleDouble ----------------------------
(***************************************************************************)
(* src/src/sleef/sleef_common.h and sleef_internal.h: the predicates the   *)
(* elementary functions test their operands with, and double-double        *)
(* arithmetic, on numbers that are the unevaluated sum hi + lo of two      *)
(* values.  Both are built on the nearest-even copies of the arithmetic;   *)
(* the flags those raise go to the caller's accumulator, and are left out. *)
(***************************************************************************)
EXTENDS FmaRne, Classify64

(* The results of the copies, tabulated: Sums[a][b] is AddRne(a, b).res,   *)
(* Products that of MulRne, Quotients that of DivRne, Roots[v] of SqrtRne. *)
CONSTANTS Sums, Products, Quotients, Roots

dd(h, l) == [hi |-> h, lo |-> l]
One == [s |-> 0, e |-> Bias, f |-> 0]

add_(a, b) == Sums[a][b]
sub_(a, b) == IF AnyNaN(a, b) THEN PropagateNaN(a, b) ELSE Sums[a][Neg(b)]
mul_(a, b) == Products[a][b]
div_(a, b) == Quotients[a][b]
fma_(a, b, c) == FusedRne(a, b, c).res
sqrt_(v) == Roots[v]
abs_(v) == [v EXCEPT !.s = 0]

lt_(a, b) == InternalFcmp(4, a, b)
le_(a, b) == InternalFcmp(5, a, b)
gt_(a, b) == InternalFcmp(2, a, b)
ge_(a, b) == InternalFcmp(3, a, b)
eq_(a, b) == InternalFcmp(1, a, b)

(* x - trunc(x) is zero; x is odd when that of its half is not.            *)
is_int(x) == IsZero(sub_(x, InternalTrunc(x)))
is_odd_int(x) ==
  LET half == mul_(x, [One EXCEPT !.e = Bias - 1])
  IN  is_int(x) /\ ~IsZero(sub_(half, InternalTrunc(half)))

---------------------------------------------------------------------------
(* The rounding error of s = a + b: Knuth's six operations, and the three  *)
(* of the ddadd family for |a| >= |b|.                                     *)
TwoSumError(a, b, s) ==
  LET bb == sub_(s, a) IN add_(sub_(a, sub_(s, bb)), sub_(b, bb))
FastTwoSumError(a, b, s) == sub_(b, sub_(s, a))

(* MUTANT of ddadd2_dd_d_d: the cheaper form, whatever the magnitudes.     *)
ddadd2_unordered(a, b) == LET s == add_(a, b) IN dd(s, FastTwoSumError(a, b, s))
ddadd2_dd_d_d(a, b) == LET s == add_(a, b) IN dd(s, TwoSumError(a, b, s))

ddadd2_dd_dd_dd(a, b) ==
  LET t == ddadd2_dd_d_d(a.hi, b.hi) IN dd(t.hi, add_(t.lo, add_(a.lo, b.lo)))
ddadd2_dd_dd_d(a, b) ==
  LET t == ddadd2_dd_d_d(a.hi, b) IN dd(t.hi, add_(t.lo, a.lo))
ddadd2_dd_d_dd(a, b) ==
  LET t == ddadd2_dd_d_d(a, b.hi) IN dd(t.hi, add_(t.lo, b.lo))

ddadd_dd_d_d(a, b) == LET s == add_(a, b) IN dd(s, FastTwoSumError(a, b, s))
ddadd_dd_dd_d(a, b) == LET t == ddadd_dd_d_d(a.hi, b) IN dd(t.hi, add_(t.lo, a.lo))
ddadd_dd_d_dd(a, b) == LET t == ddadd_dd_d_d(a, b.hi) IN dd(t.hi, add_(t.lo, b.lo))
ddadd_dd_dd_dd(a, b) ==
  LET t == ddadd_dd_d_d(a.hi, b.hi) IN dd(t.hi, add_(t.lo, add_(a.lo, b.lo)))

---------------------------------------------------------------------------
(* A fused multiply-add finds the rounding error of a product.             *)
ProductOf(a, b, hi) == dd(hi, fma_(a, b, Neg(hi)))
ddmul_dd_d_d(a, b) == ProductOf(a, b, mul_(a, b))
Adjusted(d, lo) == dd(d.hi, fma_(lo[1], lo[2], d.lo))     \* a product more below
ddmul_dd_dd_d(a, b) == Adjusted(ddmul_dd_d_d(a.hi, b), <<a.lo, b>>)
ddmul_dd_dd_dd(a, b) ==
  Adjusted(Adjusted(ddmul_dd_d_d(a.hi, b.hi), <<a.lo, b.hi>>), <<a.hi, b.lo>>)
ddsqu_dd_dd(a) == Adjusted(ddmul_dd_d_d(a.hi, a.hi), <<a.hi, add_(a.lo, a.lo)>>)

(* One Newton step, with the residue of t = 1 / b.                         *)
Refined(t, residue) == dd(t, mul_(t, residue))
RecOfD(b, t) == Refined(t, fma_(Neg(t), b, One))
RecOfDD(b, t) == Refined(t, fma_(Neg(t), b.lo, fma_(Neg(t), b.hi, One)))
ddrec_dd_d(b) == RecOfD(b, div_(One, b))
ddrec_dd_dd(b) == RecOfDD(b, div_(One, b.hi))
dddiv_dd_dd_dd(n, d) == ddmul_dd_dd_dd(n, ddrec_dd_dd(d))

ddnormalize_dd_dd(a) ==
  LET s == add_(a.hi, a.lo) IN dd(s, add_(sub_(a.hi, s), a.lo))
dd_to_d(a) == add_(a.hi, a.lo)
ddscale_dd_dd_d(d, s) == dd(mul_(d.hi, s), mul_(d.lo, s))
ddneg_dd_dd(a) == dd(Neg(a.hi), Neg(a.lo))
ddabs_dd_dd(a) == IF a.hi.s = 1 THEN ddneg_dd_dd(a) ELSE a
ddsub_dd_dd_dd(a, b) == ddadd2_dd_dd_dd(a, ddneg_dd_dd(b))
=============================================================================

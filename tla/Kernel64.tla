------------------------------ MODULE Kernel64 ------------------------------
(***************************************************************************)
(* What the elementary functions of src/src/sleef/ share: reduction of an  *)
(* argument, and the polynomial kernels.  A function maps operands to the  *)
(* set of outcomes it may have.  Special cases, reductions and the         *)
(* double-double arithmetic around a kernel are as in the code; a kernel's *)
(* own value is any value of Sample on the right side of the few exact     *)
(* points the function passes through.  The fe of an outcome is the set of *)
(* flags the call may raise: none when it returns before its accumulator   *)
(* is flushed, any otherwise.                                              *)
(***************************************************************************)
EXTENDS DoubleDouble

CONSTANTS Sample,           \* values a kernel may return: zero, finite, infinity
          Bound,            \* the thresholds of the functions, by name
          LiftBits,         \* 64: a subnormal argument of a logarithm is lifted by 2^64
          IntMin, IntMax    \* the range of an int

Whole == INSTANCE Integral64

FromInt(n) == Whole!FromI32(n)
Zero == SignedZero(0)
Inf == SignedInf(0)
NaN == CanonicalNaN
Half == [One EXCEPT !.e = Bias - 1]
Two == [One EXCEPT !.e = Bias + 1]

Early(v) == {Outcome(v, {})}
Flushed(S) == {Outcome(v, FlagSet) : v \in S}

OfSign(s, S) == {[v EXCEPT !.s = s] : v \in S}
Sampled(lo, hi) == {v \in Sample : ge_(v, lo) /\ le_(v, hi)}
Least == [Zero EXCEPT !.f = 1]

(* sf64_to_i32 of an integral value: saturated.                            *)
ToI32(v) ==
  LET n == ((ImplicitBit + v.f) * Pow2[v.e - Bias]) \div ImplicitBit
  IN  IF v.e < Bias THEN 0
      ELSE IF n > IntMax THEN IF v.s = 1 THEN IntMin ELSE IntMax
      ELSE IF v.s = 1 THEN -n ELSE n

---------------------------------------------------------------------------
(* e^d: NaN and the ends of the range, then 2^q times a polynomial.  Only  *)
(* next to the upper end can the scaling overflow.                         *)
ExpKernel(d) ==
  IF IsZero(d) THEN {One}
  ELSE IF d.s = 1 THEN Sampled(Zero, IF le_(d, Neg(One)) THEN Half ELSE One)
  ELSE Sampled(IF ge_(d, One) THEN Two ELSE One,
               IF gt_(d, Bound.exp_near) THEN Inf ELSE MaxFinite(0))

sf64_internal_exp_core(d) ==
  IF IsNaN(d) THEN {NaN}
  ELSE IF gt_(d, Bound.exp_high) THEN {Inf}
  ELSE IF lt_(d, Neg(Bound.exp_low)) THEN {Zero}
  ELSE ExpKernel(d)

(* The same of a double-double, for pow and sinh; the comparisons are      *)
(* false of a NaN, which the polynomial then returns.                      *)
sf64_internal_expk_dd(d) ==
  LET collapsed == dd_to_d(d)
  IN  IF IsNaN(collapsed) THEN {NaN} ELSE sf64_internal_exp_core(collapsed)

---------------------------------------------------------------------------
(* The reduction of the logarithms: d = m * 2^e with m in [3/4, 3/2),      *)
(* where e is the exponent field of d * 4/3, also when that overflows; a   *)
(* subnormal d is lifted first.                                            *)
FourThirds == [One EXCEPT !.f = (2 * ImplicitBit + 3) \div 6]
MinNormal == [Zero EXCEPT !.e = 1]

Reduced(d) ==
  LET subnormal == lt_(d, MinNormal)
      lifted == IF subnormal THEN mul_(d, [One EXCEPT !.e = Bias + LiftBits]) ELSE d
      e == mul_(lifted, FourThirds).e - Bias
  IN  [m |-> InternalLdexp(lifted, -e), e |-> IF subnormal THEN e - LiftBits ELSE e]

(* The polynomial in (m - 1) / (m + 1) and the exponent, added up: zero at *)
(* one, and of the sign of d - 1.                                          *)
LogKernel(d) ==
  IF eq_(d, One) THEN {Zero}
  ELSE OfSign(IF lt_(d, One) THEN 1 ELSE 0, Sampled(Bound.log_least, Bound.log_most))

LogSpecial(d) ==
  IF IsNaN(d) \/ lt_(d, Zero) THEN {NaN} ELSE IF IsZero(d) THEN {Neg(Inf)} ELSE {Inf}
IsLogSpecial(d) == IsNaN(d) \/ le_(d, Zero) \/ IsInf(d)

sf64_internal_log_core(d) == IF IsLogSpecial(d) THEN LogSpecial(d) ELSE LogKernel(d)

(* log |d| of a finite nonzero d as a double-double, through frexp.        *)
sf64_internal_logk_dd(d) == {dd(v, Zero) : v \in LogKernel(d)}

---------------------------------------------------------------------------
(* sin(pi d) and cos(pi d) from the octant: 4d = q + t with q even and t   *)
(* in [-1, 1].  Near an even multiple of a quarter turn the value is that  *)
(* of an odd function of t, near an odd one that of an even function.      *)
(* sin(pi t / 4) is between t / sqrt 2 and t pi / 4: the first stands for  *)
(* it.                                                                     *)
OddQuarter(t) == {mul_(t, Bound.root_half)}
EvenQuarter(t) == IF IsZero(t) THEN {One} ELSE Sampled(Bound.root_half, One)

Octant(d) ==
  LET u4 == mul_(d, FromInt(4))
      c == ToI32(Whole!Ceil(u4))
      q == c - (c % 2)
  IN  [q |-> q, t |-> sub_(u4, FromInt(q))]

Negated(flip, S) == IF flip THEN {Neg(v) : v \in S} ELSE S

(* MUTANT of sinpi_core: the sign changes with the odd quarters.           *)
sinpi_core_quarter(d) ==
  LET o == Octant(d)
      odd == (o.q \div 2) % 2 = 1
  IN  Negated(odd, IF odd THEN EvenQuarter(o.t) ELSE OddQuarter(o.t))

sinpi_core(d) ==
  LET o == Octant(d)
      odd == (o.q \div 2) % 2 = 1
  IN  Negated((o.q \div 4) % 2 = 1, IF odd THEN EvenQuarter(o.t) ELSE OddQuarter(o.t))

cospi_core(d) ==
  LET o == Octant(d)
      odd == (o.q \div 2) % 2 = 1
  IN  Negated(((o.q + 2) \div 4) % 2 = 1, IF odd THEN OddQuarter(o.t) ELSE EvenQuarter(o.t))
=============================================================================

---------------------------- MODULE Remainder64 ----------------------------
(***************************************************************************)
(* What sf64_fmod and sf64_remainder of src/src/sleef/sleef_inv_hyp_pow.cpp*)
(* compute between the iterations of their loop: a long division in        *)
(* floating point, one multiple |y| * 2^k at a time, where the sf64_rem of *)
(* Rem64 works on significands.  remainder goes on from fmod's result.     *)
(***************************************************************************)
EXTENDS DoubleDouble

(* A NaN operand is lost in the default build, which returns the canonical *)
(* NaN, and quieted in one that propagates.  A signalling one raises       *)
(* INVALID, as does what IEEE 754 leaves undefined: the only flags that    *)
(* are flushed.                                                            *)
propagate_nan_xy(propagate, a, b) == IF propagate THEN PropagateNaN(a, b) ELSE CanonicalNaN

DivisionUndefined(a, b) == IsInf(a) \/ IsZero(b)
IsDivisionSpecial(a, b) == AnyNaN(a, b) \/ DivisionUndefined(a, b) \/ IsInf(b)
DivisionSpecial(propagate, a, b) ==
  IF AnyNaN(a, b)
  THEN [NaNOutcome(a, b) EXCEPT !.res = propagate_nan_xy(propagate, a, b)]
  ELSE IF DivisionUndefined(a, b) THEN Invalid
  ELSE Quietly(a)

(* The result is the dividend.                                             *)
Below(a, b) == lt_(abs_(a), abs_(b))

FirstMultiple(a, b) == InternalFrexp(a).part - InternalFrexp(b).part
Multiple(b, k) == InternalLdexp(abs_(b), k)
Reduce(rest, multiple) == IF lt_(rest, multiple) THEN rest ELSE sub_(rest, multiple)
SignedLike(a, rest) == IF a.s = 1 THEN Neg(rest) ELSE rest

(* Past half the divisor, or on it with an odd quotient, remainder takes   *)
(* one more multiple away; |r| is compared with |y| - |r|.                 *)
QuotientIsOdd(a, b, r) == is_odd_int(div_(sub_(a, r), b))
PastHalfOnly(a, b, r, d) == lt_(d, abs_(r))                         \* MUTANT
PastHalf(a, b, r, d) == lt_(d, abs_(r)) \/ (eq_(abs_(r), d) /\ QuotientIsOdd(a, b, r))

OneMore(b, r) == IF r.s = 1 THEN add_(r, abs_(b)) ELSE sub_(r, abs_(b))
Nearest(a, b, r) == IF PastHalf(a, b, r, sub_(abs_(b), abs_(r))) THEN OneMore(b, r) ELSE r
=============================================================================

------------------------------ MODULE ArithRne ------------------------------
(***************************************************************************)
(* The round-to-nearest-even copies of the binary64 arithmetic in          *)
(* src/src/internal_arith.h, which sf64_add, sf64_sub, sf64_mul, sf64_div, *)
(* their _ex entries and the transcendental functions inline: each is the  *)
(* function from the operands to the result and the flags raised.          *)
(***************************************************************************)
EXTENDS Format64

Outcome(v, flags) == [res |-> v, fe |-> flags]
Quietly(v) == Outcome(v, {})
Invalid == Outcome(CanonicalNaN, {"invalid"})

(* The first cases of every entry: an operand is a NaN.                    *)
AnyNaN(a, b) == IsNaN(a) \/ IsNaN(b)
NaNOutcome(a, b) ==
  Outcome(PropagateNaN(a, b), IF IsSNaN(a) \/ IsSNaN(b) THEN {"invalid"} ELSE {})

SignOf(a, b) == (a.s + b.s) % 2

(* arith_unpack_finite_nonzero                                             *)
Unpack(v) ==
  LET shift == Clz(v.f) - (WordBits - 1 - FracBits)
  IN  IF v.e = 0 THEN [exp |-> 1 - shift, sig |-> v.f * Pow2[shift + GuardBits]]
                 ELSE [exp |-> v.e, sig |-> (ImplicitBit + v.f) * Pow2[GuardBits]]

(* arith_round_and_pack_rne                                                *)
OverflowRne(sign) == Outcome(SignedInf(sign), {"overflow", "inexact"})

RoundedRne(sig, below) ==
  IF \/ below > Pow2[GuardBits - 1]
     \/ below = Pow2[GuardBits - 1] /\ BitSet(sig, GuardBits)
  THEN sig + Pow2[GuardBits] ELSE sig

FieldRne(e, implicit, mantissa) ==
  IF e = 0 THEN (IF implicit THEN 1 ELSE 0) ELSE IF ~implicit /\ mantissa = 0 THEN 0 ELSE e

PackRne(sign, e, sig, mantissa) ==
  [s |-> sign, e |-> FieldRne(e, BitSet(sig, ImplicitAt), mantissa), f |-> mantissa]

CarriedRne(sign, e, sig, flags) ==
  Outcome(PackRne(sign, e, sig, (sig \div Pow2[GuardBits]) % ImplicitBit), flags)

(* What rounding lost sets the flags; its carry may overflow.              *)
RoundRne(sign, e, below, rounded, tiny) ==
  LET flags == IF below = 0 THEN {} ELSE IF tiny THEN {"underflow", "inexact"} ELSE {"inexact"}
  IN  IF ~BitSet(rounded, ImplicitAt + 1) THEN CarriedRne(sign, e, rounded, flags)
      ELSE IF e + 1 >= ExpMax THEN OverflowRne(sign)
      ELSE CarriedRne(sign, e + 1, ShiftRightJamming(rounded, 1), flags)

ScaledRne(sign, e, sig, tiny) ==
  RoundRne(sign, e, sig % Pow2[GuardBits], RoundedRne(sig, sig % Pow2[GuardBits]), tiny)

RoundAndPackRne(sign, exp, sig) ==
  IF exp >= ExpMax THEN OverflowRne(sign)
  ELSE IF exp <= 0 THEN ScaledRne(sign, 0, ShiftRightJamming(sig, 1 - exp), TRUE)
  ELSE ScaledRne(sign, exp, sig, FALSE)

---------------------------------------------------------------------------
(* Both significands at the larger exponent.                               *)
CommonExp(x, y) == IF x.exp >= y.exp THEN x.exp ELSE y.exp
Aligned(u, exp) == ShiftRightJamming(u.sig, exp - u.exp)

(* A significand with one bit more than it has room for.                   *)
CarryAndPackRne(sign, exp, sig) ==
  IF BitSet(sig, ImplicitAt + 1) THEN RoundAndPackRne(sign, exp + 1, ShiftRightJamming(sig, 1))
  ELSE RoundAndPackRne(sign, exp, sig)

AddUnpackedRne(sign, x, y) ==
  LET exp == CommonExp(x, y) IN CarryAndPackRne(sign, exp, Aligned(x, exp) + Aligned(y, exp))

AddMagnitudesRne(a, b) == AddUnpackedRne(a.s, Unpack(a), Unpack(b))

(* The sign flips when b is the larger of the two.                         *)
NormalizeAndPackRne(sign, exp, sig, norm) == RoundAndPackRne(sign, exp - norm, sig * Pow2[norm])
DifferenceRne(sign, exp, diff) ==
  IF diff = 0 THEN Quietly(SignedZero(0))
  ELSE LET sig == IF diff < 0 THEN -diff ELSE diff
       IN  NormalizeAndPackRne(IF diff < 0 THEN 1 - sign ELSE sign, exp, sig, Clz(sig) - 2)

SubUnpackedRne(sign, x, y) ==
  LET exp == CommonExp(x, y) IN DifferenceRne(sign, exp, Aligned(x, exp) - Aligned(y, exp))

SubMagnitudesRne(a, b) == SubUnpackedRne(a.s, Unpack(a), Unpack(b))

AddRne(a, b) ==
  IF AnyNaN(a, b) THEN NaNOutcome(a, b)
  ELSE IF IsInf(a) /\ IsInf(b) /\ a.s # b.s THEN Invalid
  ELSE IF IsInf(a) \/ IsInf(b) THEN Quietly(SignedInf(IF IsInf(a) THEN a.s ELSE b.s))
  ELSE IF IsZero(a) /\ IsZero(b) THEN Quietly(SignedZero(IF a.s = b.s THEN a.s ELSE 0))
  ELSE IF IsZero(a) THEN Quietly(b)
  ELSE IF IsZero(b) THEN Quietly(a)
  ELSE IF a.s = b.s THEN AddMagnitudesRne(a, b)
  ELSE SubMagnitudesRne(a, b)

(* MUTANT of SubRne: the propagate policy was not carried over.            *)
SubRneNegatesNaN(a, b, propagate) == AddRne(a, Neg(b))

SubRne(a, b, propagate) ==
  IF propagate /\ AnyNaN(a, b) THEN NaNOutcome(a, b) ELSE AddRne(a, Neg(b))

---------------------------------------------------------------------------
Top(product) == IF BitSet(product, 2 * FracBits + 1) THEN 1 ELSE 0
ProductRne(sign, exp, product, top) ==
  LET unit == Pow2[FracBits - GuardBits + top]
  IN  RoundAndPackRne(sign, exp + top, OrSticky(product \div unit, product % unit # 0))

Significand(u) == u.sig \div Pow2[GuardBits]
MulUnpackedRne(sign, x, y) ==
  LET product == Significand(x) * Significand(y)
  IN  ProductRne(sign, x.exp + y.exp - Bias, product, Top(product))

MulCoreRne(a, b) == MulUnpackedRne(SignOf(a, b), Unpack(a), Unpack(b))

MulRne(a, b) ==
  IF AnyNaN(a, b) THEN NaNOutcome(a, b)
  ELSE IF IsInf(a) \/ IsInf(b)
       THEN IF IsZero(a) \/ IsZero(b) THEN Invalid ELSE Quietly(SignedInf(SignOf(a, b)))
  ELSE IF IsZero(a) \/ IsZero(b) THEN Quietly(SignedZero(SignOf(a, b)))
  ELSE MulCoreRne(a, b)

(* n is doubled when it is less than d; a quotient never has a bit more.   *)
QuotientRne(sign, exp, num, d) ==
  CarryAndPackRne(sign, exp, OrSticky((num \div d) * Pow2[GuardBits - 3], num % d # 0))

DivSignificandsRne(sign, exp, n, d) ==
  IF n < d THEN QuotientRne(sign, exp - 1, n * Pow2[FracBits + 4], d)
  ELSE QuotientRne(sign, exp, n * Pow2[FracBits + 3], d)

DivUnpackedRne(sign, x, y) ==
  DivSignificandsRne(sign, x.exp - y.exp + Bias, Significand(x), Significand(y))

DivCoreRne(a, b) == DivUnpackedRne(SignOf(a, b), Unpack(a), Unpack(b))

DivRne(a, b) ==
  IF AnyNaN(a, b) THEN NaNOutcome(a, b)
  ELSE IF (IsInf(a) /\ IsInf(b)) \/ (IsZero(a) /\ IsZero(b)) THEN Invalid
  ELSE IF IsInf(a) THEN Quietly(SignedInf(SignOf(a, b)))
  ELSE IF IsInf(b) \/ IsZero(a) THEN Quietly(SignedZero(SignOf(a, b)))
  ELSE IF IsZero(b) THEN Outcome(SignedInf(SignOf(a, b)), {"divbyzero"})
  ELSE DivCoreRne(a, b)

---------------------------------------------------------------------------
(* arith_isqrt_bits: digits[n] is the state after n iterations.            *)
RootBits == FracBits + 2

Isqrt(radicand) ==
  LET digits[n \in 0..RootBits] ==
        IF n = 0 THEN [rad |-> radicand, rem |-> 0, root |-> 0]
        ELSE LET d == digits[n - 1]
                 ext == 4 * d.rem + d.rad \div Pow2[2 * RootBits - 2]
                 test == 4 * d.root + 1
             IN  [rad |-> (4 * d.rad) % Pow2[2 * RootBits],
                  rem |-> IF ext >= test THEN ext - test ELSE ext,
                  root |-> IF ext >= test THEN 2 * d.root + 1 ELSE 2 * d.root]
  IN  digits[RootBits]

(* The root's lowest bit is the guard bit, the remainder the sticky bits.  *)
(* The two tests of the exponent are the code's; no root fails them.        *)
PackRootRne(e, sig, flags) ==
  Outcome(IF e >= ExpMax THEN SignedInf(0)
          ELSE IF e <= 0 THEN SignedZero(0)
          ELSE [s |-> 0, e |-> e, f |-> sig % ImplicitBit], flags)

RoundRootRne(e, root, guard, sticky) ==
  LET r == IF guard /\ (sticky \/ root % 2 = 1) THEN root + 1 ELSE root
      flags == IF guard \/ sticky THEN {"inexact"} ELSE {}
  IN  IF BitSet(r, FracBits + 1) THEN PackRootRne(e + 1, r \div 2, flags)
      ELSE PackRootRne(e, r, flags)

RootRne(e, isqrt) ==
  RoundRootRne(e, isqrt.root \div 2, isqrt.root % 2 = 1, isqrt.rem # 0)

SqrtUnpackedRne(u) ==
  LET exp == u.exp - Bias
      odd == exp % 2
  IN  RootRne((exp - odd) \div 2 + Bias, Isqrt(Significand(u) * Pow2[FracBits + 2 + odd]))

SqrtCoreRne(v) == SqrtUnpackedRne(Unpack(v))

(* MUTANT of SqrtRne: the sign is looked at before the zero.               *)
SqrtRneSignFirst(v) ==
  IF IsNaN(v) THEN Outcome(Quiet(v), IF IsSNaN(v) THEN {"invalid"} ELSE {})
  ELSE IF v.s = 1 THEN Invalid
  ELSE IF IsZero(v) \/ IsInf(v) THEN Quietly(v)
  ELSE SqrtCoreRne(v)

SqrtRne(v) ==
  IF IsNaN(v) THEN Outcome(Quiet(v), IF IsSNaN(v) THEN {"invalid"} ELSE {})
  ELSE IF IsZero(v) \/ (IsInf(v) /\ v.s = 0) THEN Quietly(v)
  ELSE IF v.s = 1 THEN Invalid
  ELSE SqrtCoreRne(v)
=============================================================================

------------------------------- MODULE FmaRne -------------------------------
(***************************************************************************)
(* sf64_internal_fma_rne of src/src/internal_arith.h, the round-to-        *)
(* nearest-even copy of sf64_fma_r that sf64_fma and the transcendental    *)
(* functions inline.                                                       *)
(***************************************************************************)
EXTENDS ArithRne

CONSTANT FrameBits       \* bits of a U128: 128

HighestBit(x) == CHOOSE n \in 0..FrameBits : Pow2[n] <= x /\ x < Pow2[n + 1]

(* arith_fma_round_and_pack_rne, on mag * 2^exp.                           *)
NormalRne(sign, field, sig, inexact) ==
  LET carry == BitSet(sig, FracBits + 1)
      e == IF carry THEN field + 1 ELSE field
  IN  IF e >= ExpMax THEN Outcome(SignedInf(sign), {"overflow", "inexact"})
      ELSE Outcome([s |-> sign, e |-> e, f |-> sig % ImplicitBit],
                   IF inexact THEN {"inexact"} ELSE {})

SubnormalRne(sign, sig, inexact) ==
  Outcome([s |-> sign, e |-> IF BitSet(sig, FracBits) THEN 1 ELSE 0, f |-> sig % ImplicitBit],
          IF inexact THEN {"underflow", "inexact"} ELSE {})

(* mag / 2^lsb to nearest, ties to even.                                   *)
TieToEven(kept, dropped, half) ==
  IF dropped > half \/ (dropped = half /\ kept % 2 = 1) THEN kept + 1 ELSE kept
RoundedFrame(mag, lsb) ==
  IF lsb <= 0 THEN mag * Pow2[-lsb]
  ELSE TieToEven(mag \div Pow2[lsb], mag % Pow2[lsb], Pow2[lsb - 1])
LosesBits(mag, lsb) == lsb > 0 /\ mag % Pow2[lsb] # 0

(* field is the biased exponent of the highest bit, msb.                   *)
RoundFrameAt(sign, mag, exp, msb, field) ==
  LET lsb == IF field < 1 THEN 1 - Bias - FracBits - exp ELSE msb - FracBits
  IN  IF field >= ExpMax THEN Outcome(SignedInf(sign), {"overflow", "inexact"})
      ELSE IF lsb >= FrameBits THEN Outcome(SignedZero(sign), {"underflow", "inexact"})
      ELSE IF field < 1
      THEN SubnormalRne(sign, RoundedFrame(mag, lsb), LosesBits(mag, lsb))
      ELSE NormalRne(sign, field, RoundedFrame(mag, lsb), LosesBits(mag, lsb))

RoundFrameRne(sign, mag, exp) ==
  LET msb == HighestBit(mag) IN RoundFrameAt(sign, mag, exp, msb, exp + msb + Bias)

---------------------------------------------------------------------------
Mant(v) == Significand(Unpack(v))

LaidRne(mag, shift) ==
  IF shift >= 0 THEN mag * Pow2[shift]
  ELSE IF -shift >= FrameBits THEN 1
  ELSE OrSticky(mag \div Pow2[-shift], mag % Pow2[-shift] # 0)

Greater(x, y) == IF x > y THEN x ELSE y

(* The product p and the addend q, of signs ps and qs, in units of 2^exp.  *)
CombinedRne(ps, p, qs, q, exp) ==
  IF ps # qs /\ p = q THEN Quietly(SignedZero(0))
  ELSE RoundFrameRne(IF p > q THEN ps ELSE qs,
                     IF ps = qs THEN (p + q) % Pow2[FrameBits] ELSE IF p > q THEN p - q ELSE q - p,
                     exp)

AlignedRne(ps, prod, prodExp, c, cExp) ==
  LET exp == Greater(prodExp + HighestBit(prod), cExp) + 2 - (FrameBits - 1)
  IN  CombinedRne(ps, LaidRne(prod, prodExp - exp), c.s, LaidRne(Mant(c), cExp - FracBits - exp), exp)

FmaCoreRne(a, b, c) ==
  LET prod == Mant(a) * Mant(b)
      prodExp == Unpack(a).exp + Unpack(b).exp - 2 * (Bias + FracBits)
  IN  IF IsZero(c) THEN RoundFrameRne(SignOf(a, b), prod, prodExp)
      ELSE AlignedRne(SignOf(a, b), prod, prodExp, c, Unpack(c).exp - Bias)

(* MUTANT of FmaNaN: INVALID looked for in the propagated operand only.    *)
FmaNaNOfPropagated(a, b, c) ==
  LET v == IF IsNaN(a) THEN a ELSE IF IsNaN(b) THEN b ELSE c
  IN  Outcome(Quiet(v), IF IsSNaN(v) THEN {"invalid"} ELSE {})

FmaNaN(a, b, c) ==
  Outcome(Quiet(IF IsNaN(a) THEN a ELSE IF IsNaN(b) THEN b ELSE c),
          IF IsSNaN(a) \/ IsSNaN(b) \/ IsSNaN(c) THEN {"invalid"} ELSE {})

(* sf64_internal_fma_rne                                                   *)
FusedRne(a, b, c) ==
  IF (IsInf(a) /\ IsZero(b)) \/ (IsZero(a) /\ IsInf(b)) THEN Invalid
  ELSE IF IsNaN(a) \/ IsNaN(b) \/ IsNaN(c) THEN FmaNaN(a, b, c)
  ELSE IF IsInf(a) \/ IsInf(b)
  THEN IF IsInf(c) /\ c.s # SignOf(a, b) THEN Invalid ELSE Quietly(SignedInf(SignOf(a, b)))
  ELSE IF IsInf(c) THEN Quietly(c)
  ELSE IF IsZero(a) \/ IsZero(b)
  THEN Quietly(IF ~IsZero(c) THEN c
               ELSE SignedZero(IF c.s = SignOf(a, b) THEN c.s ELSE 0))
  ELSE FmaCoreRne(a, b, c)
=============================================================================

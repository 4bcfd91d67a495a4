------------------------------- MODULE Pack64 -------------------------------
(***************************************************************************)
(* The two ends of a binary64 operation of src/src/arithmetic.cpp:         *)
(* unpack_finite_nonzero takes a value apart into a working exponent and   *)
(* significand, round_and_pack rounds these once and assembles the result. *)
(***************************************************************************)
EXTENDS Format64

(* unpack_finite_nonzero; a subnormal is shifted until its highest bit is  *)
(* at bit FracBits.                                                        *)
NormaliseShiftOffByOne(frac) == Clz(frac) - (WordBits - FracBits)   \* MUTANT
NormaliseShift(frac) == Clz(frac) - (WordBits - 1 - FracBits)

Unpack(v) ==
  IF v.e = 0
  THEN [exp |-> 1 - NormaliseShift(v.f),
        sig |-> v.f * Pow2[NormaliseShift(v.f)] * Pow2[GuardBits]]
  ELSE [exp |-> v.e, sig |-> (v.f + ImplicitBit) * Pow2[GuardBits]]

---------------------------------------------------------------------------
(* round_and_pack.  The significand has its implicit bit at ImplicitAt.    *)

OverflowResult(s, mode) ==
  CASE mode = "RTZ" -> MaxFinite(s)
    [] mode = "RUP" -> IF s = 0 THEN SignedInf(0) ELSE MaxFinite(1)
    [] mode = "RDN" -> IF s # 0 THEN SignedInf(1) ELSE MaxFinite(0)
    [] OTHER        -> SignedInf(s)

Overflow(s, mode) ==
  [res |-> OverflowResult(s, mode), fe |-> {"overflow", "inexact"}]

RoundBit(sig) == BitSet(sig, GuardBits - 1)
StickyBits(sig) == sig % Pow2[GuardBits - 1] # 0
Lsb(sig) == BitSet(sig, GuardBits)
InexactByRoundBit(sig) == RoundBit(sig)                      \* MUTANT
Inexact(sig) == RoundBit(sig) \/ StickyBits(sig)

Rounded(sign, sig, mode) ==
  IF ShouldRoundUp(sign, RoundBit(sig), StickyBits(sig), Lsb(sig), mode)
  THEN sig + Pow2[GuardBits] ELSE sig

(* The fraction field: the implicit bit is masked off.                     *)
FractionUnmasked(sig) == sig \div Pow2[GuardBits]            \* MUTANT
Fraction(sig) == (sig \div Pow2[GuardBits]) % ImplicitBit

(* exp is 0 for a significand already shifted down to the subnormal range. *)
Pack(sign, exp, sig, mode) ==
  LET r == Rounded(sign, sig, mode)
      carry == BitSet(r, ImplicitAt + 1)
      rsig == IF carry THEN ShiftRightJamming(r, 1) ELSE r
      rexp == IF carry THEN exp + 1 ELSE exp
      mantissa == Fraction(rsig)
      implicit == BitSet(rsig, ImplicitAt)
      finalExp == IF rexp = 0 THEN (IF implicit THEN 1 ELSE 0)
                  ELSE IF ~implicit /\ mantissa = 0 THEN 0 ELSE rexp
  IN  IF carry /\ rexp >= ExpMax THEN Overflow(sign, mode)
      ELSE [res |-> [s |-> sign, e |-> finalExp, f |-> mantissa],
            fe |-> IF ~Inexact(sig) THEN {}
                   ELSE {"inexact"} \cup (IF exp = 0 THEN {"underflow"} ELSE {})]

(* A value too small for a normal one is shifted before it is rounded.     *)
RoundAndPack(sign, exp, sig, mode) ==
  IF exp >= ExpMax THEN Overflow(sign, mode)
  ELSE IF exp <= 0 THEN Pack(sign, 0, ShiftRightJamming(sig, 1 - exp), mode)
  ELSE Pack(sign, exp, sig, mode)
=============================================================================

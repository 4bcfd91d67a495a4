------------------------------ MODULE Format64 ------------------------------
(***************************************************************************)
(* The binary interchange format and the bit helpers of src/src/internal.h,*)
(* for any widths.  The code is the instance FracBits = 52, ExpBits = 11,  *)
(* GuardBits = 9: a 64-bit word holds the implicit bit at bit              *)
(* FracBits + GuardBits = 61, an overflow bit above it, the guard bit and  *)
(* the sticky bits in the GuardBits = 9 lowest ones.  A value is the       *)
(* record of its three fields.                                             *)
(***************************************************************************)
EXTENDS Integers

CONSTANTS FracBits,   \* kFracBits
          ExpBits,    \* bits of the exponent field
          GuardBits,  \* bits below the fraction in a working significand
          MaxShift,   \* the greatest exponent of two in use
          Pow2        \* the powers of two: x << n is x * Pow2[n]

WordBits == FracBits + GuardBits + 3          \* 64
ImplicitAt == FracBits + GuardBits            \* 61

ASSUME FormatAssumption ==
  /\ ExpBits \in Nat /\ ExpBits >= 2
  /\ GuardBits \in Nat /\ GuardBits >= 3
  /\ FracBits \in Nat /\ FracBits >= 2
  /\ ExpBits <= WordBits
  /\ MaxShift \in Nat /\ MaxShift >= 2 * WordBits

ASSUME Pow2Assumption ==
  /\ Pow2 \in [0..MaxShift -> Nat]
  /\ Pow2[0] = 1
  /\ \A n \in 0..(MaxShift - 1) : Pow2[n + 1] = 2 * Pow2[n]
  /\ Pow2[ExpBits] + FracBits <= MaxShift

ExpMax == Pow2[ExpBits] - 1                   \* kExpMax
Bias == Pow2[ExpBits - 1] - 1                 \* kExpBias
ImplicitBit == Pow2[FracBits]                 \* kImplicitBit
QuietNaNBit == Pow2[FracBits - 1]             \* kQuietNaNBit

Values == [s : {0, 1}, e : 0..ExpMax, f : 0..(ImplicitBit - 1)]

Modes == {"RNE", "RTZ", "RUP", "RDN", "RNA"}
FlagSet == {"invalid", "divbyzero", "overflow", "underflow", "inexact"}

---------------------------------------------------------------------------
IsNaN(v) == v.e = ExpMax /\ v.f # 0
IsSNaN(v) == IsNaN(v) /\ v.f < QuietNaNBit
IsInf(v) == v.e = ExpMax /\ v.f = 0
IsZero(v) == v.e = 0 /\ v.f = 0

SignedZero(s) == [s |-> s, e |-> 0, f |-> 0]
SignedInf(s) == [s |-> s, e |-> ExpMax, f |-> 0]
MaxFinite(s) == [s |-> s, e |-> ExpMax - 1, f |-> ImplicitBit - 1]
CanonicalNaN == [s |-> 0, e |-> ExpMax, f |-> QuietNaNBit]

Neg(v) == [v EXCEPT !.s = 1 - v.s]

Quiet(v) == [v EXCEPT !.f = IF v.f < QuietNaNBit THEN v.f + QuietNaNBit ELSE v.f]

(* propagate_nan: the first operand's NaN, quieted, before the second's.   *)
PropagateNaN(a, b) ==
  IF IsNaN(a) THEN Quiet(a) ELSE IF IsNaN(b) THEN Quiet(b) ELSE CanonicalNaN

---------------------------------------------------------------------------
(* x | (lost ? 1 : 0)                                                      *)
OrSticky(x, lost) == IF lost /\ x % 2 = 0 THEN x + 1 ELSE x

(* MUTANT of ShiftRightJamming: the bits shifted out are forgotten.        *)
ShiftRightTruncating(x, n) == IF n >= WordBits THEN 0 ELSE x \div Pow2[n]

ShiftRightJamming(x, n) ==
  IF n >= WordBits THEN OrSticky(0, x # 0)
  ELSE OrSticky(x \div Pow2[n], x % Pow2[n] # 0)

(* Leading zeros of a word: WordBits - (index of the highest bit) - 1.     *)
Clz(x) == WordBits - CHOOSE n \in 0..WordBits : /\ x < Pow2[n]
                                                /\ n > 0 => Pow2[n - 1] <= x

BitSet(x, n) == (x \div Pow2[n]) % 2 = 1

ShouldRoundUp(sign, roundBit, sticky, lsb, mode) ==
  CASE mode = "RTZ" -> FALSE
    [] mode = "RUP" -> sign = 0 /\ (roundBit \/ sticky)
    [] mode = "RDN" -> sign # 0 /\ (roundBit \/ sticky)
    [] mode = "RNA" -> roundBit
    [] OTHER        -> roundBit /\ (sticky \/ lsb)
=============================================================================

------------------------------- MODULE Fma64 -------------------------------
(***************************************************************************)
(* sf64_fma_r of src/src/sqrt_fma.cpp: a * b + c rounded once.  The exact  *)
(* product and the addend are laid into one frame of FrameBits bits whose  *)
(* top is two bits above the larger of them; what falls off the bottom is  *)
(* jammed into bit 0.  round_and_pack then rounds a magnitude of any       *)
(* length.                                                                 *)
(***************************************************************************)
EXTENDS Pack64, Reference64

CONSTANT FrameBits       \* bits of a U128: 128

(* Two bits of headroom, a product of 2 FracBits + 2 bits and one bit for  *)
(* the alignment of an addend twice as large as the product.               *)
ASSUME FrameAssumption ==
  FrameBits \in Nat /\ FrameBits >= 2 * FracBits + 5 /\ FrameBits < MaxShift

(* The table of powers reaches from the exact product of the two least     *)
(* numbers to that of the two largest, and past the bottom of any frame.   *)
ASSUME TableAssumption ==
  /\ MaxShift >= 2 * FracBits + 3 * Bias
  /\ MaxShift >= FracBits + Bias + FrameBits

(* The round-to-nearest-even copy.                                         *)
Copy == INSTANCE FmaRne

VARIABLES a, b, c, mode,   \* the arguments
          pc,              \* "enter", "round", "done"
          z,               \* sign, magnitude and exponent of its bit 0
          fe, res

vars == <<a, b, c, mode, pc, z, fe, res>>

NoFrame == [sign |-> 0, mag |-> 0, exp |-> 0]

Init == /\ a \in Values /\ b \in Values /\ c \in Values /\ mode \in Modes
        /\ pc = "enter" /\ z = NoFrame
        /\ fe = {} /\ res = SignedZero(0)

Done(v, flags) == /\ pc' = "done" /\ res' = v /\ fe' = flags
                  /\ UNCHANGED <<a, b, c, mode, z>>

---------------------------------------------------------------------------
ProductSign == (a.s + b.s) % 2

InvalidProductOf(v, w) == IsInf(v) /\ IsZero(w)
InvalidProduct == InvalidProductOf(a, b) \/ InvalidProductOf(b, a)
AnyNaN == IsNaN(a) \/ IsNaN(b) \/ IsNaN(c)
Numbers == pc = "enter" /\ ~InvalidProduct /\ ~AnyNaN
ZeroProduct == IsZero(a) \/ IsZero(b)

(* 0 * infinity is invalid whatever c is, a NaN included.                  *)
Undefined ==
  /\ pc = "enter" /\ InvalidProduct
  /\ Done(CanonicalNaN, {"invalid"})

NaNOperand ==
  /\ pc = "enter" /\ ~InvalidProduct /\ AnyNaN
  /\ Done(IF IsNaN(a) \/ IsNaN(b) THEN PropagateNaN(a, b) ELSE Quiet(c),
          IF IsSNaN(a) \/ IsSNaN(b) \/ IsSNaN(c) THEN {"invalid"} ELSE {})

InfiniteProduct ==
  /\ Numbers /\ (IsInf(a) \/ IsInf(b))
  /\ IF IsInf(c) /\ c.s # ProductSign THEN Done(CanonicalNaN, {"invalid"})
                                      ELSE Done(SignedInf(ProductSign), {})

InfiniteAddend ==
  /\ Numbers /\ ~IsInf(a) /\ ~IsInf(b) /\ IsInf(c)
  /\ Done(SignedInf(c.s), {})

Finite == Numbers /\ ~IsInf(a) /\ ~IsInf(b) /\ ~IsInf(c)

ZeroSign == IF mode = "RDN" THEN 1 ELSE 0

AddendOnly ==
  /\ Finite /\ ZeroProduct
  /\ Done(IF ~IsZero(c) THEN c
          ELSE SignedZero(IF ProductSign = c.s THEN c.s ELSE ZeroSign), {})

---------------------------------------------------------------------------
(* Magnitudes.  A significand has its highest bit at FracBits, a product   *)
(* at 2 FracBits or one above.                                             *)
Mantissa(v) == Unpack(v).sig \div Pow2[GuardBits]
Exponent(v) == Unpack(v).exp - Bias

Product == Mantissa(a) * Mantissa(b)
ProductExp == Exponent(a) + Exponent(b) - 2 * FracBits

HighestBit(x) == CHOOSE n \in 0..FrameBits : Pow2[n] <= x /\ x < Pow2[n + 1]

Frame(sign, mag, exp) == /\ pc' = "round"
                         /\ z' = [sign |-> sign, mag |-> mag, exp |-> exp]
                         /\ UNCHANGED <<a, b, c, mode, fe, res>>

ProductOnly ==
  /\ Finite /\ ~ZeroProduct /\ IsZero(c)
  /\ Frame(ProductSign, Product, ProductExp)

FrameTopOfProduct == ProductExp + HighestBit(Product) + 2            \* MUTANT
FrameTop ==
  LET product == ProductExp + HighestBit(Product)
  IN  (IF product > Exponent(c) THEN product ELSE Exponent(c)) + 2

FrameExp == FrameTop - (FrameBits - 1)

(* A number mag * 2^exp laid into the frame.                               *)
LaidTruncated(mag, exp) ==                                           \* MUTANT
  IF exp >= FrameExp THEN mag * Pow2[exp - FrameExp]
  ELSE IF FrameExp - exp >= FrameBits THEN 0 ELSE mag \div Pow2[FrameExp - exp]
Laid(mag, exp) ==
  LET right == FrameExp - exp IN
  IF right <= 0 THEN mag * Pow2[-right]
  ELSE IF right >= FrameBits THEN 1
  ELSE OrSticky(mag \div Pow2[right], mag % Pow2[right] # 0)

Combine ==
  /\ Finite /\ ~ZeroProduct /\ ~IsZero(c)
  /\ LET p == Laid(Product, ProductExp)
         q == Laid(Mantissa(c), Exponent(c) - FracBits)
     IN  IF ProductSign = c.s THEN Frame(c.s, (p + q) % Pow2[FrameBits], FrameExp)
         ELSE IF p = q THEN Done(SignedZero(ZeroSign), {})
         ELSE IF p > q THEN Frame(ProductSign, p - q, FrameExp)
         ELSE Frame(c.s, q - p, FrameExp)

---------------------------------------------------------------------------
(* round_and_pack of sqrt_fma.cpp.  Biased is the exponent field the       *)
(* highest bit asks for, TargetLsb the bit that becomes the lowest of the  *)
(* result.                                                                 *)
Biased == z.exp + HighestBit(z.mag) + Bias
Subnormal == Biased < 1
LeastExp == 1 - Bias - FracBits                \* -1074
TargetLsb == IF Subnormal THEN LeastExp - z.exp ELSE HighestBit(z.mag) - FracBits

FrameRoundBit == TargetLsb >= 1 /\ BitSet(z.mag, TargetLsb - 1)
FrameSticky == TargetLsb >= 2 /\ z.mag % Pow2[TargetLsb - 1] # 0
Truncated == IF TargetLsb <= 0 THEN z.mag * Pow2[-TargetLsb] ELSE z.mag \div Pow2[TargetLsb]

RoundedMantissa ==
  IF ShouldRoundUp(z.sign, FrameRoundBit, FrameSticky, Truncated % 2 = 1, mode)
  THEN Truncated + 1 ELSE Truncated

(* The implicit bit is masked off.                                         *)
Stored(mantissa) == mantissa % ImplicitBit

(* Everything is below the rounding position.                              *)
RoundFarBelow ==
  /\ pc = "round" /\ TargetLsb >= FrameBits
  /\ LET away == (mode = "RUP" /\ z.sign = 0) \/ (mode = "RDN" /\ z.sign = 1)
     IN  Done([s |-> z.sign, e |-> 0, f |-> IF away THEN 1 ELSE 0], {"underflow", "inexact"})

RoundSubnormal ==
  /\ pc = "round" /\ Subnormal /\ TargetLsb < FrameBits
  /\ Done([s |-> z.sign, e |-> RoundedMantissa \div ImplicitBit,
           f |-> Stored(RoundedMantissa)],
          IF FrameRoundBit \/ FrameSticky THEN {"underflow", "inexact"} ELSE {})

RoundNormal ==
  /\ pc = "round" /\ ~Subnormal
  /\ LET carry == BitSet(RoundedMantissa, FracBits + 1)
         field == IF carry THEN Biased + 1 ELSE Biased
         o == Overflow(z.sign, mode)
     IN  IF Biased >= ExpMax \/ field >= ExpMax THEN Done(o.res, o.fe)
         ELSE Done([s |-> z.sign, e |-> field, f |-> Stored(RoundedMantissa)],
                   IF FrameRoundBit \/ FrameSticky THEN {"inexact"} ELSE {})

Next == \/ Undefined \/ NaNOperand \/ InfiniteProduct \/ InfiniteAddend
        \/ AddendOnly \/ ProductOnly \/ Combine
        \/ RoundFarBelow \/ RoundSubnormal \/ RoundNormal

Spec == Init /\ [][Next]_vars

---------------------------------------------------------------------------
(* The frame has room for the sum: neither operand reaches its two highest *)
(* bits, so that an addition cannot wrap around and lose the carry.        *)
FrameFits ==
  (pc = "enter" /\ Finite /\ ~ZeroProduct /\ ~IsZero(c)) =>
     /\ Laid(Product, ProductExp) < Pow2[FrameBits - 2]
     /\ Laid(Mantissa(c), Exponent(c) - FracBits) < Pow2[FrameBits - 2]

(* sf64_fma_r rounds the exact a * b + c once and raises exactly the flags *)
(* of the standard, whatever the distance of product and addend, also when *)
(* they cancel, and when the result is subnormal.                          *)
CorrectFma == pc = "done" => [res |-> res, fe |-> fe] = Ref!FusedMultiplyAdd(a, b, c, mode)

(* internal_arith.h:19-20: the copy used by sf64_fma is the same function  *)
(* as the round-to-nearest-even mode, flags included.                      *)
RneIdentical ==
  (pc = "done" /\ mode = "RNE") => [res |-> res, fe |-> fe] = Copy!FusedRne(a, b, c)
=============================================================================

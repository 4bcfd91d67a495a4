------------------------------ MODULE Binary256 ------------------------------
(***************************************************************************)
(* The binary256 operations of src/src/fp256/soft_f256.cpp, one call from  *)
(* its operands to its result and flags.  A Big<8> of big_uint.h is a      *)
(* natural number below 2^BigBits; what a left shift pushes above is lost. *)
(* The code is the instance FracBits = 236, ExpBits = 19, BigBits = 512,   *)
(* NearLimit = 274, IntBits = 64, ShortBits = 32, NarrowFracBits = 52,     *)
(* NarrowExpBits = 11.                                                     *)
(***************************************************************************)
EXTENDS Reference64

CONSTANTS BigBits,          \* bits of a Big<8>
          NearLimit,        \* the greatest distance of exponents added exactly
          IntBits,          \* bits of a uint64_t
          ShortBits,        \* bits of a uint32_t
          NarrowFracBits,   \* fraction of a double
          NarrowExpBits,    \* exponent field of a double
          TopBits           \* 12: of the fraction, the bits above bit 32 of its top limb

(* An extended significand has three bits below the fraction.  The widest  *)
(* numbers: an exact near sum, a radicand, a frame of a fused multiply-add, *)
(* an integer.  Farther addends are less than a quarter of the distance to *)
(* a neighbour.  A subnormal double is a normal number.                    *)
ASSUME BigAssumption ==
  /\ GuardBits = 3
  /\ BigBits \in Nat /\ BigBits < MaxShift
  /\ NearLimit \in Nat /\ NearLimit >= FracBits + 2
  /\ BigBits >= FracBits + NearLimit + 2
  /\ BigBits >= 2 * FracBits + 8
  /\ IntBits \in Nat /\ ShortBits \in 1..IntBits /\ IntBits < BigBits
  /\ NarrowFracBits \in Nat /\ NarrowFracBits >= 2 /\ NarrowFracBits + 3 <= FracBits
  /\ NarrowExpBits \in 2..(ExpBits - 1) /\ NarrowExpBits <= NarrowFracBits + 6
  /\ Pow2[NarrowExpBits - 1] + NarrowFracBits <= Pow2[ExpBits - 1]
  /\ TopBits \in 1..FracBits

(* The table of powers reaches every exponent of an exact value.           *)
ASSUME TableAssumption ==
  /\ MaxShift >= BigBits + FracBits + Bias
  /\ MaxShift >= 2 * FracBits + 3 * Bias

VARIABLES call,   \* the operation, its rounding mode and its arguments
          pc,     \* "enter", "divide", "root", "reduce", "pack", "done"
          rem,    \* the remainder of a digit loop
          q,      \* the quotient or the root so far
          pos,    \* the position of the next digit
          z,      \* what pack_scaled is called with
          fe,     \* the flags raised
          res

vars == <<call, pc, rem, q, pos, z, fe, res>>

---------------------------------------------------------------------------
(* big_uint.h.                                                             *)
Shl(x, n) == IF n >= BigBits THEN 0 ELSE (x * Pow2[n]) % Pow2[BigBits]
Shr(x, n) == IF n >= BigBits THEN 0 ELSE x \div Pow2[n]
AnyLow(x, n) == IF n >= BigBits THEN x # 0 ELSE x % Pow2[n] # 0
ShrJamForgetful(x, n) == Shr(x, n)                                   \* MUTANT
ShrJam(x, n) == OrSticky(Shr(x, n), AnyLow(x, n))
Highest(x) == CHOOSE n \in 0..(BigBits - 1) : Pow2[n] <= x /\ x < Pow2[n + 1]

(* decode, of a finite nonzero value.                                      *)
Emin == 1 - Bias
Sig(v) == IF v.e = 0 THEN Shl(v.f, FracBits - Highest(v.f)) ELSE v.f + ImplicitBit
Exponent(v) == IF v.e = 0 THEN Emin - (FracBits - Highest(v.f)) ELSE v.e - Bias

Adjacent(v, towardPositive) ==
  LET word == v.e * ImplicitBit + v.f
      next == IF towardPositive = (v.s = 0) THEN word + 1 ELSE word - 1
  IN  [s |-> v.s, e |-> next \div ImplicitBit, f |-> next % ImplicitBit]

---------------------------------------------------------------------------
(* Rounding, to a format of any fraction and bias: pack_extended, and its  *)
(* copy in to_f64_impl.  An extended significand has three bits below.     *)

RoundUp(sign, guard, sticky, odd, mode) ==
  (guard \/ sticky) /\ ShouldRoundUp(sign, guard, sticky, odd, mode)

RoundExtended(frac, bias, sign, ext, exponent, mode) ==
  LET e == IF exponent < 1 - bias THEN 1 - bias ELSE exponent
      x == ShrJam(ext, e - exponent)
      guard == BitSet(x, 2)
      sticky == x % 4 # 0
      kept == x \div 8
      sig == IF RoundUp(sign, guard, sticky, kept % 2 = 1, mode) THEN kept + 1 ELSE kept
      carry == BitSet(sig, frac + 1)
  IN  [inexact |-> guard \/ sticky,
       exponent |-> IF carry THEN e + 1 ELSE e,
       sig |-> IF carry THEN sig \div 2 ELSE sig]

ToInfinity(sign, mode) ==
  mode \in {"RNE", "RNA"} \/ (mode = "RUP" /\ sign = 0) \/ (mode = "RDN" /\ sign = 1)

(* UNDERFLOW: the result that is delivered is subnormal or zero.           *)
TinyBefore(frac, bias, r) == r.exponent <= 1 - bias                  \* MUTANT
Tiny(frac, bias, r) == r.exponent = 1 - bias /\ ~BitSet(r.sig, frac)

Deliver(frac, bias, sign, r, mode) ==
  IF r.exponent > bias
  THEN [res |-> IF ToInfinity(sign, mode) THEN [s |-> sign, e |-> 2 * bias + 1, f |-> 0]
                ELSE [s |-> sign, e |-> 2 * bias, f |-> Pow2[frac] - 1],
        fe |-> {"overflow", "inexact"}]
  ELSE [res |-> [s |-> sign, f |-> r.sig % Pow2[frac],
                 e |-> IF r.exponent = 1 - bias /\ ~BitSet(r.sig, frac)
                       THEN 0 ELSE r.exponent + bias],
        fe |-> IF ~r.inexact THEN {}
               ELSE {"inexact"} \cup IF Tiny(frac, bias, r) THEN {"underflow"} ELSE {}]

PackExtended(sign, ext, exponent, mode) ==
  Deliver(FracBits, Bias, sign, RoundExtended(FracBits, Bias, sign, ext, exponent, mode), mode)

(* pack_scaled: a magnitude of any length, times 2^scale.                  *)
PackScaled(sign, mag, scale, mode) ==
  LET msb == Highest(mag)
      target == FracBits + 3
  IN  IF mag = 0 THEN [res |-> SignedZero(sign), fe |-> {}]
      ELSE PackExtended(sign, IF msb > target THEN ShrJam(mag, msb - target)
                              ELSE Shl(mag, target - msb), scale + msb, mode)

---------------------------------------------------------------------------
(* Calls.  The entries without a mode run in one of their own.             *)
Arithmetic == {"add", "sub", "mul", "div"}
Narrow == [s : {0, 1}, e : 0..(Pow2[NarrowExpBits] - 1), f : 0..(Pow2[NarrowFracBits] - 1)]
NarrowBias == Pow2[NarrowExpBits - 1] - 1
Unsigned == 0..(Pow2[IntBits] - 1)
Signed == -Pow2[IntBits - 1]..(Pow2[IntBits - 1] - 1)

Call(ops, modes, A, B, C) == [op : ops, mode : modes, a : A, b : B, c : C]
Unused == {SignedZero(0)}

Calls == UNION { Call(Arithmetic, Modes, Values, Values, Unused),
                 Call({"fma"}, Modes, Values, Values, Values),
                 Call({"remainder", "eq", "lt", "le"}, {"RNE"}, Values, Values, Unused),
                 Call({"sqrt", "rint", "to_f64", "to_u64", "to_i64"}, Modes, Values, Unused, Unused),
                 Call({"to_u32", "to_i32"}, {"RTZ"}, Values, Unused, Unused),
                 Call({"from_u64"}, {"RNE"}, Unsigned, Unused, Unused),
                 Call({"from_i64"}, {"RNE"}, Signed, Unused, Unused),
                 Call({"from_f64"}, {"RNE"}, Narrow, Unused, Unused) }

NoWork == [sign |-> 0, mag |-> 0, scale |-> 0, mode |-> "RNE"]

Fresh == /\ pc = "enter" /\ rem = 0 /\ q = 0 /\ pos = 0 /\ z = NoWork
         /\ fe = {} /\ res = SignedZero(0)

Init == call \in Calls /\ Fresh

Is(ops) == pc = "enter" /\ call.op \in ops

(* sf256_sub flips the sign of its second operand, also of a NaN.          *)
A == call.a
B == IF call.op = "sub" THEN Neg(call.b) ELSE call.b
ResultSign == (A.s + B.s) % 2

Done(v, flags) == /\ pc' = "done" /\ res' = v /\ fe' = fe \cup flags
                  /\ UNCHANGED <<call, rem, q, pos, z>>

ToPack(sign, mag, scale, mode, flags) ==
  /\ pc' = "pack" /\ z' = [sign |-> sign, mag |-> mag, scale |-> scale, mode |-> mode]
  /\ fe' = fe \cup flags
  /\ UNCHANGED <<call, rem, q, pos, res>>

Loop(at, r, quotient, first) ==
  /\ pc' = at /\ rem' = r /\ q' = quotient /\ pos' = first
  /\ UNCHANGED <<call, z, fe, res>>

Signals(S) == IF \E v \in S : IsSNaN(v) THEN {"invalid"} ELSE {}

---------------------------------------------------------------------------
(* Operands that are not finite, or zero.                                  *)
Dyadic == Arithmetic \cup {"remainder"}
Finite(v) == ~IsNaN(v) /\ ~IsInf(v)
Regular(v) == Finite(v) /\ ~IsZero(v)

NaNOperand ==
  /\ Is(Dyadic) /\ (IsNaN(A) \/ IsNaN(B))
  /\ Done(PropagateNaN(A, B), Signals({A, B}))

NaNArgument ==
  /\ Is({"sqrt", "rint"}) /\ IsNaN(A)
  /\ Done(Quiet(A), Signals({A}))

(* A third operand is looked at only if neither of the others is a NaN.    *)
NaNAmongThree ==
  /\ Is({"fma"}) /\ \E v \in {A, B, call.c} : IsNaN(v)
  /\ IF IsNaN(A) \/ IsNaN(B) THEN Done(PropagateNaN(A, B), Signals({A, B}))
                             ELSE Done(Quiet(call.c), Signals({call.c}))

Numbers(ops) == Is(ops) /\ ~IsNaN(A) /\ ~IsNaN(B)

InfiniteSum ==
  /\ Numbers({"add", "sub"}) /\ (IsInf(A) \/ IsInf(B))
  /\ IF IsInf(A) /\ IsInf(B) /\ A.s # B.s THEN Done(CanonicalNaN, {"invalid"})
     ELSE Done(IF IsInf(A) THEN A ELSE B, {})

ZeroSign == IF call.mode = "RDN" THEN 1 ELSE 0

SumWithZero(v, w) ==
  IF IsZero(v) /\ IsZero(w) THEN SignedZero(IF v.s = w.s THEN v.s ELSE ZeroSign)
  ELSE IF IsZero(v) THEN w ELSE v

ZeroSum ==
  /\ Numbers({"add", "sub"}) /\ Finite(A) /\ Finite(B) /\ (IsZero(A) \/ IsZero(B))
  /\ Done(SumWithZero(A, B), {})

SpecialProduct ==
  /\ Numbers({"mul"}) /\ ~(Regular(A) /\ Regular(B))
  /\ IF (IsInf(A) /\ IsZero(B)) \/ (IsInf(B) /\ IsZero(A)) THEN Done(CanonicalNaN, {"invalid"})
     ELSE Done(IF IsInf(A) \/ IsInf(B) THEN SignedInf(ResultSign) ELSE SignedZero(ResultSign), {})

SpecialQuotient ==
  /\ Numbers({"div"}) /\ ~(Regular(A) /\ Regular(B))
  /\ CASE (IsInf(A) /\ IsInf(B)) \/ (IsZero(A) /\ IsZero(B)) -> Done(CanonicalNaN, {"invalid"})
       [] IsInf(A) /\ ~IsInf(B)          -> Done(SignedInf(ResultSign), {})
       [] Regular(A) /\ IsZero(B)        -> Done(SignedInf(ResultSign), {"divbyzero"})
       [] OTHER                          -> Done(SignedZero(ResultSign), {})

SpecialRoot ==
  /\ Is({"sqrt"}) /\ ~IsNaN(A) /\ (IsInf(A) \/ IsZero(A) \/ A.s = 1)
  /\ IF A.s = 1 /\ ~IsZero(A) THEN Done(CanonicalNaN, {"invalid"}) ELSE Done(A, {})

SpecialRemainder ==
  /\ Numbers({"remainder"}) /\ ~(Regular(A) /\ Regular(B))
  /\ IF IsInf(A) \/ IsZero(B) THEN Done(CanonicalNaN, {"invalid"}) ELSE Done(A, {})

SpecialFma ==
  /\ Numbers({"fma"}) /\ ~IsNaN(call.c)
  /\ ~(Regular(A) /\ Regular(B) /\ Finite(call.c))
  /\ CASE (IsInf(A) /\ IsZero(B)) \/ (IsInf(B) /\ IsZero(A)) -> Done(CanonicalNaN, {"invalid"})
       [] Finite(A) /\ Finite(B) ->
            Done(IF IsInf(call.c) THEN call.c
                 ELSE SumWithZero(SignedZero(ResultSign), call.c), {})
       [] OTHER ->
            IF IsInf(call.c) /\ call.c.s # ResultSign THEN Done(CanonicalNaN, {"invalid"})
            ELSE Done(SignedInf(ResultSign), {})

---------------------------------------------------------------------------
(* Sums.  Two magnitudes in units of 2^scale.                              *)
Combine(sx, x, sy, y, scale) ==
  IF sx = sy THEN ToPack(sx, (x + y) % Pow2[BigBits], scale, call.mode, {})
  ELSE IF x = y THEN Done(SignedZero(ZeroSign), {})
  ELSE IF x > y THEN ToPack(sx, x - y, scale, call.mode, {})
  ELSE ToPack(sy, y - x, scale, call.mode, {})

RegularSum == Numbers({"add", "sub"}) /\ Regular(A) /\ Regular(B)
Distance == Exponent(A) - Exponent(B)
Near == Distance \in -NearLimit..NearLimit

Common == IF Distance < 0 THEN Exponent(A) ELSE Exponent(B)
Aligned(v) == Shl(Sig(v), Exponent(v) - Common)

NearSum ==
  /\ RegularSum /\ Near
  /\ Combine(A.s, Aligned(A), B.s, Aligned(B), Common - FracBits)

(* The smaller operand only decides to which side the sum lies: a directed *)
(* mode may step to the neighbour.                                         *)
FarSum ==
  /\ RegularSum /\ ~Near
  /\ LET dominant == IF Distance > 0 THEN A ELSE B
         delta == IF Distance > 0 THEN B ELSE A
         step == CASE call.mode = "RUP" -> delta.s = 0
                   [] call.mode = "RDN" -> delta.s = 1
                   [] call.mode = "RTZ" -> delta.s # dominant.s
                   [] OTHER             -> FALSE
         towardPositive == IF call.mode = "RTZ" THEN dominant.s = 1 ELSE delta.s = 0
     IN  Done(IF step THEN Adjacent(dominant, towardPositive) ELSE dominant, {"inexact"})

---------------------------------------------------------------------------
(* Products, and a product and an addend in a frame that leaves three bits *)
(* above the larger.                                                       *)
Product == Sig(A) * Sig(B)
ProductScale == Exponent(A) + Exponent(B) - 2 * FracBits

Multiply ==
  /\ Numbers({"mul"}) /\ Regular(A) /\ Regular(B)
  /\ ToPack(ResultSign, Product, ProductScale, call.mode, {})

RegularFma == Numbers({"fma"}) /\ Regular(A) /\ Regular(B) /\ Finite(call.c)

ProductOnly ==
  /\ RegularFma /\ IsZero(call.c)
  /\ ToPack(ResultSign, Product, ProductScale, call.mode, {})

FrameScale ==
  LET p == ProductScale + Highest(Product)
      top == IF p > Exponent(call.c) THEN p ELSE Exponent(call.c)
  IN  top - (BigBits - 3)

Framed(mag, scale) ==
  IF scale >= FrameScale THEN Shl(mag, scale - FrameScale) ELSE ShrJam(mag, FrameScale - scale)

FusedSum ==
  /\ RegularFma /\ ~IsZero(call.c)
  /\ Combine(ResultSign, Framed(Product, ProductScale),
             call.c.s, Framed(Sig(call.c), Exponent(call.c) - FracBits), FrameScale)

---------------------------------------------------------------------------
(* Digit by digit: quotient, root, remainder.                              *)
FitsStrictly == rem > Sig(B)                                         \* MUTANT
Fits == rem >= Sig(B)
Reduced == IF Fits THEN rem - Sig(B) ELSE rem

QuotientScale ==
  Exponent(A) - Exponent(B) - (IF Sig(A) < Sig(B) THEN 1 ELSE 0) - FracBits - 3

Dividend == IF Sig(A) < Sig(B) THEN Shl(Sig(A), 1) ELSE Sig(A)

StartDivision ==
  /\ Numbers({"div"}) /\ Regular(A) /\ Regular(B)
  /\ Loop("divide", Dividend, 0, FracBits + 3)

DivideDigit ==
  /\ pc = "divide"
  /\ LET digits == IF Fits THEN q + Pow2[pos] ELSE q IN
     IF pos = 0 THEN ToPack(ResultSign, OrSticky(digits, Reduced # 0), QuotientScale, call.mode, {})
     ELSE Loop("divide", Shl(Reduced, 1), digits, pos - 1)

(* The exponent is made even.                                              *)
OddExponent == Exponent(A) % 2
Radicand == Shl(Shl(Sig(A), OddExponent), FracBits + 6)

StartRoot ==
  /\ Is({"sqrt"}) /\ Regular(A) /\ A.s = 0
  /\ Loop("root", 0, 0, FracBits + 3)

Trial == Shl(q, 2) + 1

RootDigit ==
  /\ pc = "root"
  /\ LET r == Shl(rem, 2) + ((Radicand \div Pow2[2 * pos]) % 4)
         left == IF r >= Trial THEN r - Trial ELSE r
         root == Shl(q, 1) + (IF r >= Trial THEN 1 ELSE 0)
     IN  IF pos = 0
         THEN ToPack(0, OrSticky(root, left # 0),
                     (Exponent(A) - OddExponent) \div 2 - FracBits - 3, call.mode, {})
         ELSE Loop("root", left, root, pos - 1)

(* The remainder of the nearest quotient, the even one of two: a remainder *)
(* of more than half the divisor is replaced by its complement.            *)
RegularRemainder == Numbers({"remainder"}) /\ Regular(A) /\ Regular(B)

AlreadyRemainder == RegularRemainder /\ Distance < -1 /\ Done(A, {})

BelowDivisor ==
  /\ RegularRemainder /\ Distance = -1
  /\ LET scale == Exponent(A) - FracBits IN
     IF Sig(A) > Sig(B) THEN ToPack(1 - A.s, Shl(Sig(B), 1) - Sig(A), scale, "RNE", {})
     ELSE ToPack(A.s, Sig(A), scale, "RNE", {})

StartReduction ==
  /\ RegularRemainder /\ Distance >= 0
  /\ Loop("reduce", Sig(A), 0, Distance)

MoreThanHalf(r, odd) == Shl(r, 1) > Sig(B) \/ (Shl(r, 1) = Sig(B) /\ odd)

(* q is whether the last digit of the quotient is 1.                       *)
ReduceDigit ==
  /\ pc = "reduce"
  /\ LET scale == Exponent(B) - FracBits IN
     IF pos > 0 THEN Loop("reduce", Shl(Reduced, 1), IF Fits THEN 1 ELSE 0, pos - 1)
     ELSE IF MoreThanHalf(Reduced, Fits)
     THEN ToPack(1 - A.s, Sig(B) - Reduced, scale, "RNE", {})
     ELSE ToPack(A.s, Reduced, scale, "RNE", {})

---------------------------------------------------------------------------
(* Integers.                                                               *)
(* rounded_integer, of a regular value.                                    *)
RoundedInteger(v, mode) ==
  LET shift == FracBits - Exponent(v)
      mag == Shr(Sig(v), shift)
      guard == shift - 1 < BigBits /\ BitSet(Sig(v), shift - 1)
      sticky == shift > 1 /\ AnyLow(Sig(v), shift - 1)
  IN  IF shift <= 0 THEN [mag |-> Shl(Sig(v), -shift), inexact |-> FALSE]
      ELSE [mag |-> IF RoundUp(v.s, guard, sticky, mag % 2 = 1, mode) THEN mag + 1 ELSE mag,
            inexact |-> guard \/ sticky]

InexactFlag(r) == IF r.inexact THEN {"inexact"} ELSE {}

AlreadyIntegral ==
  /\ Is({"rint"}) /\ ~IsNaN(A) /\ (Regular(A) => Exponent(A) >= FracBits)
  /\ Done(A, {})

RoundToIntegral ==
  /\ Is({"rint"}) /\ Regular(A) /\ Exponent(A) < FracBits
  /\ LET r == RoundedInteger(A, call.mode) IN ToPack(A.s, r.mag, 0, "RNE", InexactFlag(r))

Outcome(n, flags) == [res |-> n, fe |-> flags]
Invalid(n) == Outcome(n, {"invalid"})

(* to_u64_impl and to_i64_impl.                                            *)
GreatestUnsigned == Pow2[IntBits] - 1
ToUnsigned(v, mode) ==
  LET r == RoundedInteger(v, mode) IN
  IF IsNaN(v) THEN Invalid(0)
  ELSE IF IsInf(v) \/ v.s = 1 THEN Invalid(IF v.s = 1 THEN 0 ELSE GreatestUnsigned)
  ELSE IF IsZero(v) THEN Outcome(0, {})
  ELSE IF Exponent(v) >= IntBits \/ r.mag >= Pow2[IntBits] THEN Invalid(GreatestUnsigned)
  ELSE Outcome(r.mag, InexactFlag(r))

ToSigned(v, mode) ==
  LET r == RoundedInteger(v, mode)
      limit == IF v.s = 1 THEN Pow2[IntBits - 1] ELSE Pow2[IntBits - 1] - 1
      saturated == IF v.s = 1 THEN -limit ELSE limit
  IN  IF IsNaN(v) THEN Invalid(0)
      ELSE IF IsInf(v) THEN Invalid(saturated)
      ELSE IF IsZero(v) THEN Outcome(0, {})
      ELSE IF Exponent(v) >= IntBits \/ r.mag > limit THEN Invalid(saturated)
      ELSE Outcome(IF v.s = 1 THEN -r.mag ELSE r.mag, InexactFlag(r))

(* The 32-bit entries saturate what the 64-bit ones return, flags included. *)
Saturated(r, least, greatest) ==
  IF r.res > greatest THEN Outcome(greatest, r.fe \cup {"invalid"})
  ELSE IF r.res < least THEN Outcome(least, r.fe \cup {"invalid"})
  ELSE r

ToInteger ==
  \/ /\ Is({"to_u64"})
     /\ LET r == ToUnsigned(A, call.mode) IN Done(r.res, r.fe)
  \/ /\ Is({"to_i64"})
     /\ LET r == ToSigned(A, call.mode) IN Done(r.res, r.fe)
  \/ /\ Is({"to_u32"})
     /\ LET r == Saturated(ToUnsigned(A, "RTZ"), 0, Pow2[ShortBits] - 1) IN Done(r.res, r.fe)
  \/ /\ Is({"to_i32"})
     /\ LET r == Saturated(ToSigned(A, "RTZ"), -Pow2[ShortBits - 1], Pow2[ShortBits - 1] - 1)
        IN  Done(r.res, r.fe)

FromInteger ==
  /\ Is({"from_u64", "from_i64"})
  /\ IF A < 0 THEN ToPack(1, -A, 0, "RNE", {}) ELSE ToPack(0, A, 0, "RNE", {})

---------------------------------------------------------------------------
(* Doubles.  A NaN keeps the bits of the top limb only.                    *)
NarrowQuietBit == Pow2[NarrowFracBits - 1]
NarrowMax == 2 * NarrowBias + 1

NarrowedNaN(v) ==
  [s |-> v.s, e |-> NarrowMax,
   f |-> NarrowQuietBit + ((v.f \div Pow2[FracBits - TopBits]) % NarrowQuietBit)]

NarrowSpecial ==
  /\ Is({"to_f64"}) /\ ~Regular(A)
  /\ Done(IF IsNaN(A) THEN NarrowedNaN(A)
          ELSE [s |-> A.s, e |-> IF IsInf(A) THEN NarrowMax ELSE 0, f |-> 0], Signals({A}))

NarrowRegular ==
  /\ Is({"to_f64"}) /\ Regular(A)
  /\ LET ext == ShrJam(Sig(A), FracBits - NarrowFracBits - 3)
         r == RoundExtended(NarrowFracBits, NarrowBias, A.s, ext, Exponent(A), call.mode)
         d == Deliver(NarrowFracBits, NarrowBias, A.s, r, call.mode)
     IN  Done(d.res, d.fe)

WidenSpecial ==
  /\ Is({"from_f64"}) /\ (A.e = NarrowMax \/ (A.e = 0 /\ A.f = 0))
  /\ LET nan == [s |-> A.s, e |-> ExpMax, f |-> Shl(A.f, FracBits - NarrowFracBits)]
     IN  Done(IF A.f # 0 THEN Quiet(nan)
              ELSE IF A.e = 0 THEN SignedZero(A.s) ELSE SignedInf(A.s), {})

WidenRegular ==
  /\ Is({"from_f64"}) /\ A.e # NarrowMax /\ ~(A.e = 0 /\ A.f = 0)
  /\ LET shift == NarrowFracBits - Highest(A.f) IN
     IF A.e = 0
     THEN ToPack(A.s, Shl(A.f, shift), 1 - NarrowBias - shift - NarrowFracBits, "RNE", {})
     ELSE ToPack(A.s, A.f + Pow2[NarrowFracBits], A.e - NarrowBias - NarrowFracBits, "RNE", {})

---------------------------------------------------------------------------
(* Comparisons, on the words.                                              *)
WordOf(v) == v.e * ImplicitBit + v.f

Eq(v, w) == ~IsNaN(v) /\ ~IsNaN(w) /\ ((IsZero(v) /\ IsZero(w)) \/ v = w)

LtUnsigned(v, w) == ~IsNaN(v) /\ ~IsNaN(w) /\ WordOf(v) < WordOf(w)  \* MUTANT
Lt(v, w) ==
  /\ ~IsNaN(v) /\ ~IsNaN(w) /\ ~(IsZero(v) /\ IsZero(w))
  /\ IF v.s # w.s THEN v.s = 1
     ELSE IF v.s = 1 THEN WordOf(v) > WordOf(w) ELSE WordOf(v) < WordOf(w)

Compare ==
  /\ Is({"eq", "lt", "le"})
  /\ Done(CASE call.op = "eq" -> Eq(A, B)
            [] call.op = "lt" -> Lt(A, B)
            [] call.op = "le" -> Lt(A, B) \/ Eq(A, B), {})

---------------------------------------------------------------------------
PackStep ==
  /\ pc = "pack"
  /\ LET r == PackScaled(z.sign, z.mag, z.scale, z.mode) IN Done(r.res, r.fe)

Next == \/ NaNOperand \/ NaNArgument \/ NaNAmongThree
        \/ InfiniteSum \/ ZeroSum \/ SpecialProduct \/ SpecialQuotient
        \/ SpecialRoot \/ SpecialRemainder \/ SpecialFma
        \/ NearSum \/ FarSum \/ Multiply \/ ProductOnly \/ FusedSum
        \/ StartDivision \/ DivideDigit \/ StartRoot \/ RootDigit
        \/ AlreadyRemainder \/ BelowDivisor \/ StartReduction \/ ReduceDigit
        \/ AlreadyIntegral \/ RoundToIntegral \/ ToInteger \/ FromInteger
        \/ NarrowSpecial \/ NarrowRegular \/ WidenSpecial \/ WidenRegular
        \/ Compare \/ PackStep

Spec == Init /\ [][Next]_vars

---------------------------------------------------------------------------
(* Between two digits nothing is lost: the dividend is what the quotient   *)
(* found so far accounts for and the remainder; the leading half of the    *)
(* radicand is the square of the root and the remainder, at most twice the *)
(* root; the residue of the remainder is congruent to the dividend and has *)
(* the parity of the quotient with it.  One digit of each position is      *)
(* enough, and no shift pushes a bit out of the 512.                       *)
DivisionKept ==
  pc = "divide" =>
    /\ rem < 2 * Sig(B) /\ q % Pow2[pos + 1] = 0
    /\ Dividend * Pow2[FracBits + 3 - pos] = 2 * (q \div Pow2[pos + 1]) * Sig(B) + rem

RootKept ==
  pc = "root" =>
    /\ rem <= 2 * q
    /\ q * q + rem = Radicand \div Pow2[2 * (pos + 1)]

ReductionKept ==
  pc = "reduce" =>
    LET whole == (Sig(A) * Pow2[Distance - pos]) \div 2 IN
    /\ rem < 2 * Sig(B)
    /\ pos < Distance => /\ rem = 2 * (whole % Sig(B))
                         /\ q = (whole \div Sig(B)) % 2

DigitsKept == DivisionKept /\ RootKept /\ ReductionKept

---------------------------------------------------------------------------
(* The results, against IEEE754 by definition.                             *)
Delivered == [res |-> res, fe |-> fe]
Returned(ops) == pc = "done" /\ call.op \in ops

(* IEEE 754-2008, 7.2: a signalling NaN raises INVALID whichever operand it*)
(* is.  A quiet NaN beside the product of a zero and an infinity may be    *)
(* returned without INVALID (clause c), which soft_f256.cpp chooses.       *)
FusedExpected ==
  IF \E v \in {A, B, call.c} : IsNaN(v)
  THEN Ref!Result(IF IsNaN(A) \/ IsNaN(B) THEN PropagateNaN(A, B) ELSE Quiet(call.c),
                  Signals({A, B, call.c}))
  ELSE Ref!FusedMultiplyAdd(A, B, call.c, call.mode)

Expected ==
  CASE call.op \in {"add", "sub"} -> Ref!Add(A, B, call.mode)
    [] call.op = "mul"            -> Ref!Multiply(A, B, call.mode)
    [] call.op = "div"            -> Ref!Divide(A, B, call.mode)
    [] call.op = "sqrt"           -> Ref!Sqrt(A, call.mode)
    [] call.op = "fma"            -> FusedExpected
    [] call.op = "remainder"      -> Ref!Remainder(A, B)

Computed == Arithmetic \cup {"sqrt", "fma", "remainder"}

(* soft_f256.h: arithmetic is implemented for all five rounding modes.     *)
(* Whatever the operands, add, sub, mul, div, sqrt and fma round the exact *)
(* value once and remainder is exact: no bit is lost in a sum of distant   *)
(* operands, a frame, a quotient or a root, nor is a subnormal result      *)
(* rounded twice.                                                          *)
CorrectlyRounded == Returned(Computed) => res = Expected.res

(* The flags of the same operations: INVALID, DIVBYZERO, OVERFLOW and      *)
(* INEXACT are those of IEEE 754, UNDERFLOW is raised when an inexact      *)
(* result is delivered subnormal or zero; with two exceptions, where the   *)
(* code raises less.  A sum of distant operands raises INEXACT and nothing *)
(* else, also when it steps up to infinity; and fma does not look at its   *)
(* third operand beside a NaN, so that a signalling one raises nothing.    *)
(* SameExceptionModel below has no exceptions, and is refuted.             *)
Distant == call.op \in {"add", "sub"} /\ Regular(A) /\ Regular(B) /\ ~Near
Overlooked == call.op = "fma" /\ (IsNaN(A) \/ IsNaN(B)) /\ IsSNaN(call.c)

ExactFlags ==
  Returned(Computed) =>
    fe = IF Distant THEN {"inexact"}
         ELSE IF Overlooked THEN Signals({A, B})
         ELSE (Expected.fe \ {"underflow"})
                \cup (IF "inexact" \in Expected.fe /\ Expected.res.e = 0
                      THEN {"underflow"} ELSE {})

---------------------------------------------------------------------------
NarrowFormat == INSTANCE Format64 WITH FracBits <- NarrowFracBits, ExpBits <- NarrowExpBits
NarrowRef == INSTANCE IEEE754 WITH FracBits <- NarrowFracBits, ExpBits <- NarrowExpBits
UnitDistance == (Bias + FracBits) - (NarrowBias + NarrowFracBits)

One == Pow2[Ref!LogOne]
Nearest(v) == Ref!NearestInteger(v.s, Ref!Mag(v), One, call.mode)
Integral(v) == Ref!Mag(v) % One = 0
FlagIf(flag, P) == IF P THEN {flag} ELSE {}

(* An integer of FracBits + 1 bits may be beyond the small format.         *)
CorrectRint ==
  Returned({"rint"}) =>
    IF A.e = ExpMax THEN Delivered = Ref!Result(IF IsNaN(A) THEN Quiet(A) ELSE A, Signals({A}))
    ELSE LET n == Nearest(A) * One
             whole == IF n = 0 THEN Ref!Result(SignedZero(A.s), {}) ELSE Ref!Round(A.s, n, 1, "RNE")
         IN  Delivered = Ref!Result(whole.res, whole.fe \cup FlagIf("inexact", ~Integral(A)))

(* A negative number raises INVALID as an unsigned integer, also when it   *)
(* would round to 0, and so does -0.                                       *)
CorrectToUnsigned ==
  Returned({"to_u64", "to_u32"}) =>
    LET greatest == Pow2[IF call.op = "to_u64" THEN IntBits ELSE ShortBits] - 1 IN
    IF IsNaN(A) \/ A.s = 1 THEN Delivered = [res |-> 0, fe |-> {"invalid"}]
    ELSE IF IsInf(A) \/ Nearest(A) > greatest THEN res = greatest /\ "invalid" \in fe
    ELSE Delivered = [res |-> Nearest(A), fe |-> FlagIf("inexact", ~Integral(A))]

CorrectToSigned ==
  Returned({"to_i64", "to_i32"}) =>
    LET limit == Pow2[(IF call.op = "to_i64" THEN IntBits ELSE ShortBits) - 1]
        n == IF A.s = 1 THEN -Nearest(A) ELSE Nearest(A)
    IN  IF IsNaN(A) THEN Delivered = [res |-> 0, fe |-> {"invalid"}]
        ELSE IF IsInf(A) \/ n \notin -limit..(limit - 1)
        THEN res = (IF A.s = 1 THEN -limit ELSE limit - 1) /\ "invalid" \in fe
        ELSE Delivered = [res |-> n, fe |-> FlagIf("inexact", ~Integral(A))]

CorrectNarrowing ==
  Returned({"to_f64"}) =>
    IF IsNaN(A) THEN /\ NarrowFormat!IsNaN(res) /\ ~NarrowFormat!IsSNaN(res) /\ res.s = A.s
                     /\ fe = Signals({A})
    ELSE IF ~Regular(A) THEN /\ fe = {}
                             /\ res = IF IsInf(A) THEN NarrowFormat!SignedInf(A.s)
                                      ELSE NarrowFormat!SignedZero(A.s)
    ELSE LET r == NarrowRef!Round(A.s, Ref!Mag(A), Pow2[UnitDistance], call.mode) IN
         /\ res = r.res
         /\ fe = (r.fe \ {"underflow"})
                   \cup FlagIf("underflow", "inexact" \in r.fe /\ r.res.e = 0)

CorrectWidening ==
  Returned({"from_u64", "from_i64", "from_f64"}) =>
    IF call.op # "from_f64"
    THEN Delivered = IF A = 0 THEN Ref!Result(SignedZero(0), {}) ELSE Ref!RoundInteger(A * One, "RNE")
    ELSE /\ res.s = A.s /\ fe = {}
         /\ IF NarrowFormat!IsNaN(A) THEN IsNaN(res) /\ ~IsSNaN(res)
            ELSE IF NarrowFormat!IsInf(A) THEN IsInf(res)
            ELSE Finite(res) /\ Ref!Mag(res) = NarrowRef!Mag(A) * Pow2[UnitDistance]

CorrectComparison ==
  Returned({"eq", "lt", "le"}) =>
    LET ordered == ~IsNaN(A) /\ ~IsNaN(B)
        less == Ref!Signed(A) < Ref!Signed(B)
        equal == Ref!Signed(A) = Ref!Signed(B)
    IN  res = (ordered /\ CASE call.op = "eq" -> equal
                             [] call.op = "lt" -> less
                             [] call.op = "le" -> less \/ equal)

(* soft_f256.h:8-10: conversion, rint and comparison agree with the exact  *)
(* values in every mode, NaN becomes the integer 0, what is out of range   *)
(* saturates and raises INVALID, and a double becomes itself.              *)
ExactConversions ==
  /\ CorrectRint /\ CorrectToUnsigned /\ CorrectToSigned
  /\ CorrectNarrowing /\ CorrectWidening /\ CorrectComparison

(* README.md:24-25: binary256 has "the same rounding and exception model"  *)
(* as binary64.  There, a finite sum that is delivered as an infinity has  *)
(* raised OVERFLOW, and fma raises INVALID for a signalling NaN "regardless*)
(* of which operand carries the propagated payload" (internal_arith.h:720) *)
(* and for a zero times an infinity, also beside a NaN.                    *)
OverflowSignalled ==
  (Returned({"add", "sub"}) /\ Finite(A) /\ Finite(B) /\ IsInf(res)) => "overflow" \in fe

InvalidSignalled ==
  (Returned({"fma"}) /\ "invalid" \in Ref!FusedMultiplyAdd(A, B, call.c, call.mode).fe) =>
    "invalid" \in fe

SameExceptionModel == OverflowSignalled /\ InvalidSignalled
=============================================================================

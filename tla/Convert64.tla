----------------------------- MODULE Convert64 -----------------------------
(***************************************************************************)
(* src/src/convert.cpp: binary64 from and to the integers of each width    *)
(* and binary32.  Integers saturate and never wrap; binary32 is read by    *)
(* its bits, subnormal numbers included.                                   *)
(***************************************************************************)
EXTENDS Reference64

CONSTANTS IntBits,          \* bits of the widest integers: 64
          IntWidths,        \* widths of the integer types: 8, 16, 32, 64
          NarrowFracBits,   \* 23
          NarrowExpBits     \* 8

(* The format of a float, and IEEE 754 arithmetic in it.                   *)
Narrow == INSTANCE Format64 WITH FracBits <- NarrowFracBits, ExpBits <- NarrowExpBits
NarrowRef == INSTANCE IEEE754 WITH FracBits <- NarrowFracBits, ExpBits <- NarrowExpBits

(* Wide subnormal numbers are below half of the least narrow number, and   *)
(* narrow subnormal numbers are normal wide ones; some integers of the     *)
(* widest type have more bits than a significand, none is too large.       *)
ASSUME ConvertAssumption ==
  /\ NarrowFracBits \in Nat /\ NarrowExpBits \in Nat
  /\ NarrowFracBits >= 2 /\ NarrowFracBits + 2 <= FracBits
  /\ NarrowExpBits >= 2 /\ NarrowExpBits < ExpBits /\ NarrowExpBits <= Narrow!WordBits
  /\ Narrow!Bias + NarrowFracBits < Bias
  /\ IntBits \in Nat /\ FracBits + 2 <= IntBits /\ IntBits <= Bias
  /\ IntWidths \subseteq 1..IntBits /\ IntBits \in IntWidths

VARIABLES call,    \* the operation and its arguments
          pc,      \* "enter", "clamp", "done"
          z,       \* magnitude found, and whether it is beyond any integer
          fe, res

vars == <<call, pc, z, fe, res>>

---------------------------------------------------------------------------
(* Integer types and calls.                                                *)
LeastInt(w, signed) == IF signed THEN -Pow2[w - 1] ELSE 0
GreatestInt(w, signed) == (IF signed THEN Pow2[w - 1] ELSE Pow2[w]) - 1

FromInts == UNION {[op : {"fromInt"}, signed : {signed}, mode : {"RNE"},
                    x : LeastInt(w, signed)..GreatestInt(w, signed)] :
                     w \in IntWidths, signed \in BOOLEAN}
ToInts == [op : {"toInt"}, signed : BOOLEAN, width : IntWidths, v : Values, mode : Modes]
FromNarrows == [op : {"fromNarrow"}, v : Narrow!Values]
ToNarrows == [op : {"toNarrow"}, v : Values, mode : Modes]

NoMagnitude == [mag |-> 0, large |-> FALSE]

Init == /\ call \in FromInts \cup ToInts \cup FromNarrows \cup ToNarrows
        /\ pc = "enter" /\ z = NoMagnitude /\ fe = {} /\ res = 0

Entering(op) == pc = "enter" /\ call.op = op

Done(v, flags) == /\ pc' = "done" /\ res' = v /\ fe' = fe \cup flags
                  /\ UNCHANGED <<call, z>>

(* Position of the highest bit: 63 - clz64, 31 - clz32.                    *)
Msb(x) == CHOOSE n \in 0..(IntBits - 1) : Pow2[n] <= x /\ x < Pow2[n + 1]

(* x with its n >= 1 lowest bits rounded away.                             *)
RoundOff(x, n, sign, mode) ==
  LET top == x \div Pow2[n]
      roundBit == BitSet(x, n - 1)
      sticky == x % Pow2[n - 1] # 0
  IN  [int |-> IF ShouldRoundUp(sign, roundBit, sticky, top % 2 = 1, mode) THEN top + 1 ELSE top,
       exact |-> ~roundBit /\ ~sticky]

Tells(exact) == IF exact THEN {} ELSE {"inexact"}

(* Rounding what is below half of the last place.                          *)
AwayFromZero(sign, mode) == (mode = "RUP" /\ sign = 0) \/ (mode = "RDN" /\ sign = 1)

---------------------------------------------------------------------------
(* Integer to binary64.  A signed integer is widened to 64 bits; negation  *)
(* of the word leaves the least integer as it is, which is its magnitude.  *)
Word == call.x % Pow2[IntBits]
SignBit == IF call.signed /\ BitSet(Word, IntBits - 1) THEN 1 ELSE 0
MagnitudeOfInt == IF SignBit = 1 THEN (Pow2[IntBits] - Word) % Pow2[IntBits] ELSE Word

Value(sign, exp, frac) == [s |-> sign, e |-> exp, f |-> frac]

FromZero == Entering("fromInt") /\ call.x = 0 /\ Done(SignedZero(0), {})

FromShort ==
  /\ Entering("fromInt") /\ call.x # 0
  /\ LET m == Msb(MagnitudeOfInt) IN
     /\ m <= FracBits
     /\ Done(Value(SignBit, m + Bias, (MagnitudeOfInt * Pow2[FracBits - m]) % ImplicitBit), {})

CarriedFraction(rounded) == IF BitSet(rounded, FracBits + 1) THEN 0 ELSE rounded % ImplicitBit
ExponentKept(m, rounded) == m + Bias                                \* MUTANT
ExponentAfter(m, rounded) == IF BitSet(rounded, FracBits + 1) THEN m + Bias + 1 ELSE m + Bias

FromLong ==
  /\ Entering("fromInt") /\ call.x # 0
  /\ LET m == Msb(MagnitudeOfInt)
         r == RoundOff(MagnitudeOfInt, m - FracBits, SignBit, call.mode)
     IN  /\ m > FracBits
         /\ Done(Value(SignBit, ExponentAfter(m, r.int), CarriedFraction(r.int)), Tells(r.exact))

---------------------------------------------------------------------------
(* binary64 to integer: the magnitude, then saturation to the type.        *)
E == call.v.e - Bias
Mant == call.v.f + ImplicitBit

Clamp(mag, large, flags) == /\ pc' = "clamp" /\ z' = [mag |-> mag, large |-> large]
                            /\ fe' = flags
                            /\ UNCHANGED <<call, res>>

NumberToInt == Entering("toInt") /\ call.v.e < ExpMax

ToIntOfNaN == Entering("toInt") /\ IsNaN(call.v) /\ Done(0, {"invalid"})

ToIntOfInf == Entering("toInt") /\ IsInf(call.v) /\ Clamp(Pow2[IntBits] - 1, TRUE, {"invalid"})

ToIntOfZero == NumberToInt /\ IsZero(call.v) /\ Clamp(0, FALSE, {})

BelowHalf ==
  /\ NumberToInt /\ ~IsZero(call.v) /\ (call.v.e = 0 \/ E < -1)
  /\ Clamp(IF AwayFromZero(call.v.s, call.mode) THEN 1 ELSE 0, FALSE, {"inexact"})

HalfToOne ==
  /\ NumberToInt /\ call.v.e # 0 /\ E = -1
  /\ Clamp(IF ShouldRoundUp(call.v.s, TRUE, call.v.f # 0, FALSE, call.mode) THEN 1 ELSE 0,
           FALSE, {"inexact"})

BeyondAnyInt ==
  /\ NumberToInt /\ E > IntBits - 1
  /\ Clamp(Pow2[IntBits] - 1, TRUE, {"invalid"})

WholeNumber ==
  /\ NumberToInt /\ FracBits <= E /\ E <= IntBits - 1
  /\ Clamp(Mant * Pow2[E - FracBits], FALSE, {})

WithFraction ==
  /\ NumberToInt /\ 0 <= E /\ E < FracBits
  /\ LET r == RoundOff(Mant, FracBits - E, call.v.s, call.mode)
     IN  Clamp(r.int, FALSE, Tells(r.exact))

(* fp64_to_signed and fp64_to_unsigned.                                    *)
BoundSymmetric(sign, width, signed) ==                              \* MUTANT
  IF signed THEN GreatestInt(width, TRUE) ELSE IF sign = 1 THEN 0 ELSE GreatestInt(width, FALSE)
Bound(sign, width, signed) ==
  IF sign = 1 THEN -LeastInt(width, signed) ELSE GreatestInt(width, signed)

Saturate ==
  /\ pc = "clamp"
  /\ LET bound == Bound(call.v.s, call.width, call.signed)
         beyond == z.large \/ z.mag > bound
         mag == IF beyond THEN bound ELSE z.mag
     IN  Done(IF call.v.s = 1 THEN -mag ELSE mag, IF beyond THEN {"invalid"} ELSE {})

---------------------------------------------------------------------------
(* binary32 to binary64 is exact.                                          *)
Widening == FracBits - NarrowFracBits

WidenZeroOrInf ==
  /\ Entering("fromNarrow") /\ (Narrow!IsZero(call.v) \/ Narrow!IsInf(call.v))
  /\ Done(Value(call.v.s, IF Narrow!IsZero(call.v) THEN 0 ELSE ExpMax, 0), {})

WidenNaN ==
  /\ Entering("fromNarrow") /\ Narrow!IsNaN(call.v)
  /\ Done(Quiet(Value(call.v.s, ExpMax, call.v.f * Pow2[Widening])),
          IF Narrow!IsSNaN(call.v) THEN {"invalid"} ELSE {})

(* The exponent of a narrow subnormal whose highest bit is at p.           *)
WidenedExp(p) == p + 1 - Narrow!Bias - NarrowFracBits + Bias

WidenSubnormal ==
  /\ Entering("fromNarrow") /\ call.v.e = 0 /\ ~Narrow!IsZero(call.v)
  /\ LET p == Msb(call.v.f) IN
     Done(Value(call.v.s, WidenedExp(p), (call.v.f * Pow2[FracBits - p]) % ImplicitBit), {})

WidenNormal ==
  /\ Entering("fromNarrow") /\ call.v.e \in 1..(Narrow!ExpMax - 1)
  /\ Done(Value(call.v.s, call.v.e + Bias - Narrow!Bias, call.v.f * Pow2[Widening]), {})

---------------------------------------------------------------------------
(* binary64 to binary32.                                                   *)
NewExp == E + Narrow!Bias

NarrowOverflow(sign, mode) ==
  IF mode \in {"RNE", "RNA"} \/ AwayFromZero(sign, mode)
  THEN Narrow!SignedInf(sign) ELSE Narrow!MaxFinite(sign)

NarrowZeroOrInf ==
  /\ Entering("toNarrow") /\ (IsZero(call.v) \/ IsInf(call.v))
  /\ Done(IF IsZero(call.v) THEN Narrow!SignedZero(call.v.s) ELSE Narrow!SignedInf(call.v.s), {})

NarrowNaN ==
  /\ Entering("toNarrow") /\ IsNaN(call.v)
  /\ Done(Narrow!Quiet(Value(call.v.s, Narrow!ExpMax, call.v.f \div Pow2[Widening])),
          IF IsSNaN(call.v) THEN {"invalid"} ELSE {})

(* A wide subnormal, or a number all of whose bits are below the guard     *)
(* position of the least narrow one.                                       *)
Finite == Entering("toNarrow") /\ call.v.e < ExpMax /\ ~IsZero(call.v)
DropShift == Widening + 1 - NewExp
Lost == call.v.e = 0 \/ (NewExp <= 0 /\ DropShift > FracBits + 1)

NarrowTiny ==
  /\ Finite /\ Lost
  /\ Done(Value(call.v.s, 0, IF AwayFromZero(call.v.s, call.mode) THEN 1 ELSE 0),
          {"underflow", "inexact"})

NarrowTooLarge ==
  /\ Finite /\ NewExp >= Narrow!ExpMax
  /\ Done(NarrowOverflow(call.v.s, call.mode), {"overflow", "inexact"})

NarrowNormal ==
  /\ Finite /\ NewExp \in 1..(Narrow!ExpMax - 1)
  /\ LET r == RoundOff(Mant, Widening, call.v.s, call.mode)
         carry == BitSet(r.int, NarrowFracBits + 1)
     IN  IF carry /\ NewExp + 1 >= Narrow!ExpMax
         THEN Done(NarrowOverflow(call.v.s, call.mode), {"overflow", "inexact"})
         ELSE Done(IF carry THEN Value(call.v.s, NewExp + 1, 0)
                   ELSE Value(call.v.s, NewExp, r.int % Narrow!ImplicitBit), Tells(r.exact))

(* Also when the least normal number is reached the value was tiny.        *)
TinyOnlyIfSubnormal(r) ==                                           \* MUTANT
  IF r.exact THEN {}
  ELSE IF BitSet(r.int, NarrowFracBits) THEN {"inexact"} ELSE {"underflow", "inexact"}
TinyFlags(r) == IF r.exact THEN {} ELSE {"underflow", "inexact"}

NarrowSubnormal ==
  /\ Finite /\ NewExp <= 0 /\ ~Lost
  /\ LET r == RoundOff(Mant, DropShift, call.v.s, call.mode) IN
     Done(IF BitSet(r.int, NarrowFracBits) THEN Value(call.v.s, 1, 0)
          ELSE Value(call.v.s, 0, r.int % Narrow!ImplicitBit), TinyFlags(r))

---------------------------------------------------------------------------
Next == \/ FromZero \/ FromShort \/ FromLong
        \/ ToIntOfNaN \/ ToIntOfInf \/ ToIntOfZero \/ BelowHalf \/ HalfToOne
        \/ BeyondAnyInt \/ WholeNumber \/ WithFraction \/ Saturate
        \/ WidenZeroOrInf \/ WidenNaN \/ WidenSubnormal \/ WidenNormal
        \/ NarrowZeroOrInf \/ NarrowNaN \/ NarrowTiny \/ NarrowTooLarge
        \/ NarrowNormal \/ NarrowSubnormal

Spec == Init /\ [][Next]_vars

---------------------------------------------------------------------------
Outcome == [res |-> res, fe |-> fe]
Returned(op) == pc = "done" /\ call.op = op

(* The integer nearest to v in the direction of the mode, and whether it   *)
(* is v.                                                                   *)
ToInteger(v, mode) ==
  LET one == Pow2[Ref!LogOne]
      n == Ref!NearestInteger(v.s, Ref!Mag(v), one, mode)
  IN  [int |-> IF v.s = 1 THEN -n ELSE n, exact |-> Ref!Mag(v) % one = 0]

(* soft_f64.h:204-205: NaN and what is out of range raise INVALID, and     *)
(* discarded fractional bits raise INEXACT; NaN gives 0, out of range the  *)
(* nearer bound of the type, in every mode and for every width.            *)
CorrectToInteger ==
  Returned("toInt") =>
    LET v == call.v
        lo == LeastInt(call.width, call.signed)
        hi == GreatestInt(call.width, call.signed)
        r == ToInteger(v, call.mode)
    IN  IF IsNaN(v) THEN Outcome = [res |-> 0, fe |-> {"invalid"}]
        ELSE IF IsInf(v)
        THEN Outcome = [res |-> IF v.s = 1 THEN lo ELSE hi, fe |-> {"invalid"}]
        ELSE /\ res = (IF r.int < lo THEN lo ELSE IF r.int > hi THEN hi ELSE r.int)
             /\ "invalid" \in fe <=> r.int \notin lo..hi
             /\ "inexact" \in fe <=> ~r.exact
             /\ fe \subseteq {"invalid", "inexact"}

(* An integer of any type becomes the nearest number, ties to even, and    *)
(* raises INEXACT only when it has more bits than a significand.           *)
CorrectFromInteger ==
  Returned("fromInt") =>
    Outcome = IF call.x = 0 THEN [res |-> SignedZero(0), fe |-> {}]
              ELSE Ref!Round(IF call.x < 0 THEN 1 ELSE 0,
                              (IF call.x < 0 THEN -call.x ELSE call.x) * Pow2[Ref!LogOne],
                              1, call.mode)

(* The least narrow number is that many powers of two above the least wide *)
(* one.                                                                    *)
UnitDistance == (Bias + FracBits) - (Narrow!Bias + NarrowFracBits)

(* A number is rounded once to the narrow format, also when it becomes     *)
(* subnormal or overflows; the upper bits of a NaN's payload survive.      *)
CorrectNarrowing ==
  Returned("toNarrow") =>
    LET v == call.v IN
    Outcome = IF IsNaN(v)
              THEN [res |-> Narrow!Quiet([s |-> v.s, e |-> Narrow!ExpMax,
                                          f |-> v.f \div Pow2[FracBits - NarrowFracBits]]),
                    fe |-> IF IsSNaN(v) THEN {"invalid"} ELSE {}]
              ELSE IF IsInf(v) THEN [res |-> Narrow!SignedInf(v.s), fe |-> {}]
              ELSE IF IsZero(v) THEN [res |-> Narrow!SignedZero(v.s), fe |-> {}]
              ELSE NarrowRef!Round(v.s, Ref!Mag(v), Pow2[UnitDistance], call.mode)

(* Every float, subnormal ones included, has exactly its value as a double *)
(* and its NaNs their payload.                                             *)
WideningExact ==
  Returned("fromNarrow") =>
    LET v == call.v IN
    /\ res.s = v.s
    /\ IF Narrow!IsNaN(v)
       THEN /\ IsNaN(res) /\ ~IsSNaN(res)
            /\ res.f % QuietNaNBit = (v.f % Narrow!QuietNaNBit) * Pow2[FracBits - NarrowFracBits]
            /\ fe = IF Narrow!IsSNaN(v) THEN {"invalid"} ELSE {}
       ELSE /\ fe = {}
            /\ IF Narrow!IsInf(v) THEN IsInf(res)
               ELSE ~IsNaN(res) /\ ~IsInf(res)
                      /\ Ref!Mag(res) = NarrowRef!Mag(v) * Pow2[UnitDistance]

(* Between the two formats a value is rounded once on the way down and is  *)
(* kept on the way up.                                                     *)
BetweenFormats == CorrectNarrowing /\ WideningExact
=============================================================================

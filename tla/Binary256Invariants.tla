------------------------ MODULE Binary256Invariants -------------------------
(***************************************************************************)
(* What the proofs about Binary256 maintain and speak of.  IInv: between   *)
(* two digits of a quotient, a root or a remainder nothing is lost.  RInv: *)
(* what waits for pack_scaled rounds to the exact value of the call.       *)
(* CInv: the same of rint, the conversions and the comparisons.            *)
(***************************************************************************)
EXTENDS Binary256, Rounding64Proofs

(* What the loops are entered with.                                        *)
Counting(last) == rem \in Nat /\ q \in Nat /\ pos \in 0..last

Dividing == pc = "divide" =>
  /\ Counting(FracBits + 3) /\ call.op = "div" /\ Regular(A) /\ Regular(B)

(* A root of n digits is below 2^n.                                        *)
Rooting == pc = "root" =>
  /\ Counting(FracBits + 3) /\ call.op = "sqrt" /\ Regular(A) /\ A.s = 0
  /\ q < Pow2[FracBits + 3 - pos]

Reducing == pc = "reduce" =>
  /\ Distance >= 0 /\ Counting(Distance) /\ call.op = "remainder" /\ Regular(A) /\ Regular(B)
  /\ pos = Distance => rem = Sig(A)

IInv == call \in Calls /\ Dividing /\ Rooting /\ Reducing /\ DigitsKept

---------------------------------------------------------------------------
(* Every other step delivers a result or hands a magnitude to pack_scaled. *)
Leaves == call' = call /\ pc' \in {"done", "pack"}

Kept(bias, ext, exponent) == ShrJam(ext, Lowest(bias, exponent) - exponent)

KeptAs(bias, s, ext, exponent, md, x, e, n) ==
  x = Kept(bias, ext, exponent) /\ e = Lowest(bias, exponent) /\ n = KeptUnits(s, x, md)

(* What is delivered, by the units kept.                                   *)
Late(r) ==
  [res |-> r.res,
   fe |-> (r.fe \ {"underflow"})
            \cup (IF "inexact" \in r.fe /\ r.res.e = 0 THEN {"underflow"} ELSE {})]

Beyond(frac, bias, s, md) ==
  [res |-> IF ToInfinity(s, md) THEN [s |-> s, e |-> 2 * bias + 1, f |-> 0]
           ELSE [s |-> s, e |-> 2 * bias, f |-> Pow2[frac] - 1],
   fe |-> {"overflow", "inexact"}]

Carried(frac, P, bias, r, lost, e, n) ==
  /\ frac \in Nat /\ frac + 4 <= BigBits /\ P = Pow2[frac] /\ bias \in Nat
  /\ P \in Nat /\ lost \in BOOLEAN /\ e \in Int /\ 1 - bias <= e
  /\ n \in Nat /\ n <= 2 * P /\ (e = 1 - bias \/ P <= n)
  /\ r = [inexact |-> lost, exponent |-> IF n = 2 * P THEN e + 1 ELSE e,
          sig |-> IF n = 2 * P THEN P ELSE n]

(* pack_scaled rounds once whatever value its magnitude stands for.        *)
Packs(s, mag, scale, md, k, num, den) ==
  /\ s \in {0, 1} /\ md \in Modes
  /\ mag \in Nat /\ mag >= 1 /\ mag < Pow2[BigBits]
  /\ scale \in Int /\ k = scale + Bias + FracBits - 1
  /\ InTable(k + Highest(mag) - FracBits - 3) /\ InTable(k + Highest(mag) - FracBits)
  /\ HoldsValue(mag, k, num, den)

---------------------------------------------------------------------------
(* What an operation answers, when it is done.                             *)
FarCall == call.op \in {"add", "sub"} /\ Regular(A) /\ Regular(B) /\ ~ Near

(* The reference, except that fma does not look at its third operand beside*)
(* a NaN.                                                                  *)
FusedAnswered ==
  IF IsNaN(A) \/ IsNaN(B) THEN Ref!NaNResult(A, B)
  ELSE IF IsNaN(call.c) THEN Ref!NaNResult(call.c, call.c)
  ELSE Ref!FusedMultiplyAdd(A, B, call.c, call.mode)

Answered ==
  CASE call.op \in {"add", "sub"} -> Ref!Add(A, B, call.mode)
    [] call.op = "mul"            -> Ref!Multiply(A, B, call.mode)
    [] call.op = "div"            -> Ref!Divide(A, B, call.mode)
    [] call.op = "sqrt"           -> Ref!Sqrt(A, call.mode)
    [] call.op = "fma"            -> FusedAnswered
    [] call.op = "remainder"      -> Ref!Remainder(A, B)

Answers(v, flags) ==
  call.op \in Computed => /\ v = Answered.res
                          /\ flags = IF FarCall THEN {"inexact"} ELSE Late(Answered).fe

(* What waits for pack_scaled.                                             *)
Waits(w, flags) ==
  call.op \in Computed =>
    /\ flags = {} /\ ~ FarCall
    /\ PackScaled(w.sign, w.mag, w.scale, w.mode) = Late(Answered)

RInv ==
  /\ IInv
  /\ pc \in {"enter", "divide", "root", "reduce"} => fe = {}
  /\ pc = "pack" => Waits(z, fe)
  /\ pc = "done" => Answers(res, fe)

Limits(j) == /\ j \in Int /\ j <= 2 * FracBits + 3 * Bias
             /\ j >= -(BigBits + FracBits + Bias) \/ j >= -(2 * FracBits + 3 * Bias)

(* The two magnitudes that combine hands to pack_scaled or finds equal.    *)
Addends(x, y, k, m, n, den, b) ==
  /\ x \in Nat /\ x >= 1 /\ y \in Nat /\ k \in Int /\ m \in Nat /\ n \in Nat
  /\ b \in Nat /\ b <= BigBits /\ x + y < Pow2[b]
  /\ k - FracBits - 3 >= -(BigBits + FracBits + Bias)
  /\ k + b - FracBits - 1 <= 2 * FracBits + 3 * Bias
  /\ HoldsValue(x + y, k, m + n, den)
  /\ x > y => m > n /\ HoldsValue(x - y, k, m - n, den)
  /\ y > x => n > m /\ HoldsValue(y - x, k, n - m, den)
  /\ x = y => m = n

SumIs(sx, m, sy, n, den) ==
  /\ sx = sy => Answered = Ref!Round(sx, m + n, den, call.mode)
  /\ sx # sy => /\ m = n => Answered = [res |-> SignedZero(ZeroSign), fe |-> {}]
                /\ m > n => Answered = Ref!Round(sx, m - n, den, call.mode)
                /\ n > m => Answered = Ref!Round(sy, n - m, den, call.mode)

ExactlyProduct(num, den) ==
  /\ num \in Nat /\ num >= 1 /\ den \in Nat /\ den >= 1
  /\ num * Pow2[Ref!LogOne] = (Ref!Mag(A) * Ref!Mag(B)) * den

(* The exact product is num / den units, to which the addend is brought.   *)
FusedCall ==
  /\ call \in Calls /\ call.op = "fma" /\ Regular(A) /\ Regular(B) /\ Finite(call.c)

RoundedSum(sum, den) ==
  IF sum = 0 THEN Ref!Result(Ref!ZeroSum(ResultSign, call.c.s, call.mode), {})
  ELSE Ref!Round(IF sum < 0 THEN 1 ELSE 0, IF sum < 0 THEN -sum ELSE sum, den, call.mode)

FusedParts(num, den, sum, s) ==
  /\ sum = (IF ResultSign = 0 THEN num ELSE -num) + Ref!Signed(call.c) * den
  /\ s = Ref!Mag(call.c) * den

(* What a frame makes of a magnitude: the larger operand reaches the bit   *)
(* below the headroom, is shifted to the left and so loses nothing; what   *)
(* loses bits is less than half as large.                                  *)
InFrame(r, f, num, den) ==
  /\ r \in Nat /\ r >= 1 /\ r < Pow2[BigBits - 2] /\ InTable(f)
  /\ num \in Nat /\ den \in Nat /\ den >= 1
  /\ Stands(r, num * Under(f), den * Over(f), 2)
  /\ r < Pow2[BigBits - 4] \/ Weighs(r, f, num, den)

Leading(r, f, num, den) ==
  /\ Weighs(r, f, num, den) /\ Pow2[BigBits - 3] <= r /\ \E y \in Nat : r = 2 * y

FarAnswer(v, w, md) ==
  LET step == CASE md = "RUP" -> w.s = 0
                [] md = "RDN" -> w.s = 1
                [] md = "RTZ" -> w.s # v.s
                [] OTHER      -> FALSE
      towardPositive == IF md = "RTZ" THEN v.s = 1 ELSE w.s = 0
  IN  IF step THEN Adjacent(v, towardPositive) ELSE v

(* The two neighbours, as numbers grow.                                    *)
Above(v) == Adjacent(v, TRUE)

Below(v) == Adjacent(v, FALSE)

Digits == (Dividend * Pow2[FracBits + 3]) \div Sig(B)

Undivided == (Dividend * Pow2[FracBits + 3]) % Sig(B)

ExactlyQuotient(num, den) ==
  /\ num \in Nat /\ den \in Nat /\ den >= 1
  /\ num * Ref!Mag(B) = (Ref!Mag(A) * Pow2[Ref!LogOne]) * den

HalfExponent == (Exponent(A) - OddExponent) \div 2

RootWeight == HalfExponent + Bias - 4

Square == Ref!Mag(A) * Pow2[Ref!LogOne]

(* The binade a root is rounded in, and how many bits of the digits are    *)
(* below the middle of two neighbours.                                     *)
RootBinade == IF HalfExponent + Bias >= 1 THEN HalfExponent + Bias ELSE 1

Spare == RootBinade - 2 - RootWeight

(* The same of the digits and of any number of half units.                 *)
RootDigitsOf(d, r) == d \in Nat /\ r \in Nat /\ r <= 2 * d /\ Radicand = d * d + r

RootOver(d, r) == WithRest(d, r) * Over(RootWeight)

RootUnder == Unit(RootBinade) * Under(RootWeight)

RightSide(d, r, y) ==
  LET h == y * Unit(RootBinade) IN
  /\ 2 * RootOver(d, r) < y * RootUnder <=> 4 * Square < h * h
  /\ 2 * RootOver(d, r) = y * RootUnder <=> 4 * Square = h * h
  /\ 4 * Square = h * h <=> Radicand = (y * Pow2[Spare]) * (y * Pow2[Spare])

(* The units of the binade below a root.                                   *)
UnitsOf(d, r) == WithRest(d, r) \div Pow2[Spare + 1]

(* A digit of a root, whatever its position.                               *)
RootRest == Shl(rem, 2) + ((Radicand \div Pow2[2 * pos]) % 4)

RootNext == Shl(q, 1) + (IF RootRest >= Trial THEN 1 ELSE 0)

RootLeft == IF RootRest >= Trial THEN RootRest - Trial ELSE RootRest

NearestTo(v, md) == Ref!NearestInteger(v.s, Ref!Mag(v), One, md)

---------------------------------------------------------------------------
(* What a conversion, rint or a comparison returns.                        *)
RintGives(c, r, g) ==
  IF c.a.e = ExpMax
  THEN [res |-> r, fe |-> g] = Ref!Result(IF IsNaN(c.a) THEN Quiet(c.a) ELSE c.a, Signals({c.a}))
  ELSE LET n == NearestTo(c.a, c.mode) * One
           whole == IF n = 0 THEN Ref!Result(SignedZero(c.a.s), {})
                    ELSE Ref!Round(c.a.s, n, 1, "RNE")
       IN  [res |-> r, fe |-> g] =
             Ref!Result(whole.res, whole.fe \cup FlagIf("inexact", ~Integral(c.a)))

UnsignedGives(c, r, g) ==
  LET greatest == Pow2[IF c.op = "to_u64" THEN IntBits ELSE ShortBits] - 1 IN
  IF IsNaN(c.a) \/ c.a.s = 1 THEN [res |-> r, fe |-> g] = [res |-> 0, fe |-> {"invalid"}]
  ELSE IF IsInf(c.a) \/ NearestTo(c.a, c.mode) > greatest THEN r = greatest /\ "invalid" \in g
  ELSE [res |-> r, fe |-> g] =
         [res |-> NearestTo(c.a, c.mode), fe |-> FlagIf("inexact", ~Integral(c.a))]

SignedGives(c, r, g) ==
  LET limit == Pow2[(IF c.op = "to_i64" THEN IntBits ELSE ShortBits) - 1]
      n == IF c.a.s = 1 THEN -NearestTo(c.a, c.mode) ELSE NearestTo(c.a, c.mode)
  IN  IF IsNaN(c.a) THEN [res |-> r, fe |-> g] = [res |-> 0, fe |-> {"invalid"}]
      ELSE IF IsInf(c.a) \/ n \notin -limit..(limit - 1)
      THEN r = (IF c.a.s = 1 THEN -limit ELSE limit - 1) /\ "invalid" \in g
      ELSE [res |-> r, fe |-> g] = [res |-> n, fe |-> FlagIf("inexact", ~Integral(c.a))]

NarrowingGives(c, r, g) ==
  IF IsNaN(c.a) THEN /\ NarrowFormat!IsNaN(r) /\ ~NarrowFormat!IsSNaN(r) /\ r.s = c.a.s
                   /\ g = Signals({c.a})
  ELSE IF ~Regular(c.a) THEN /\ g = {}
                           /\ r = IF IsInf(c.a) THEN NarrowFormat!SignedInf(c.a.s)
                                  ELSE NarrowFormat!SignedZero(c.a.s)
  ELSE LET x == NarrowRef!Round(c.a.s, Ref!Mag(c.a), Pow2[UnitDistance], c.mode) IN
       /\ r = x.res
       /\ g = (x.fe \ {"underflow"})
                \cup FlagIf("underflow", "inexact" \in x.fe /\ x.res.e = 0)

IntegerGives(c, r, g) ==
  [res |-> r, fe |-> g] =
    IF c.a = 0 THEN Ref!Result(SignedZero(0), {}) ELSE Ref!RoundInteger(c.a * One, "RNE")

WideningGives(c, r, g) ==
  /\ r.s = c.a.s /\ g = {}
  /\ IF NarrowFormat!IsNaN(c.a) THEN IsNaN(r) /\ ~IsSNaN(r)
     ELSE IF NarrowFormat!IsInf(c.a) THEN IsInf(r)
     ELSE Finite(r) /\ Ref!Mag(r) = NarrowRef!Mag(c.a) * Pow2[UnitDistance]

ComparisonGives(c, r) ==
  LET ordered == ~IsNaN(c.a) /\ ~IsNaN(c.b)
      less == Ref!Signed(c.a) < Ref!Signed(c.b)
      equal == Ref!Signed(c.a) = Ref!Signed(c.b)
  IN  r = (ordered /\ CASE c.op = "eq" -> equal
                        [] c.op = "lt" -> less
                        [] c.op = "le" -> less \/ equal)

Gives(c, r, g) ==
  /\ c.op = "rint" => RintGives(c, r, g)
  /\ c.op \in {"to_u64", "to_u32"} => UnsignedGives(c, r, g)
  /\ c.op \in {"to_i64", "to_i32"} => SignedGives(c, r, g)
  /\ c.op = "to_f64" => NarrowingGives(c, r, g)
  /\ c.op \in {"from_u64", "from_i64"} => IntegerGives(c, r, g)
  /\ c.op = "from_f64" => WideningGives(c, r, g)
  /\ c.op \in {"eq", "lt", "le"} => ComparisonGives(c, r)

---------------------------------------------------------------------------
(* What waits for pack_scaled in a conversion.                             *)
Pending(c, w, flags) ==
  LET r == PackScaled(w.sign, w.mag, w.scale, w.mode) IN Gives(c, r.res, flags \cup r.fe)

CInv ==
  /\ IInv
  /\ pc = "enter" => fe = {}
  /\ pc = "pack" => Pending(call, z, fe)
  /\ pc = "done" => Gives(call, res, fe)

---------------------------------------------------------------------------
(* rint.                                                                   *)
RintRounds(c, r, g) ==
  LET n == NearestTo(c.a, c.mode) * One
      whole == IF n = 0 THEN Ref!Result(SignedZero(c.a.s), {})
               ELSE Ref!Round(c.a.s, n, 1, "RNE")
  IN  [res |-> r, fe |-> g] =
        Ref!Result(whole.res, whole.fe \cup FlagIf("inexact", ~Integral(c.a)))

(* What the narrow format keeps of a significand, and what stands for it.  *)
Dropped == FracBits - NarrowFracBits - 3

Leading3(v) == ShrJam(Sig(v), Dropped)

NarrowKept(v) == Kept(NarrowBias, Leading3(v), Exponent(v))

NarrowAt(v) == Lowest(NarrowBias, Exponent(v))

NarrowShift(v) == (NarrowAt(v) - Exponent(v)) + Dropped

(* to_f64_impl of a regular value.                                         *)
NarrowDelivered(v, md) ==
  LET r == RoundExtended(NarrowFracBits, NarrowBias, v.s, Leading3(v), Exponent(v), md)
  IN  Deliver(NarrowFracBits, NarrowBias, v.s, r, md)

NarrowUnits(v, md) == KeptUnits(v.s, NarrowKept(v), md)

(* The arithmetic is no conversion.                                        *)
ArithmeticStep ==
  \/ NaNOperand \/ (NaNArgument /\ call.op = "sqrt") \/ NaNAmongThree
  \/ InfiniteSum \/ ZeroSum \/ SpecialProduct \/ SpecialQuotient
  \/ SpecialRoot \/ SpecialRemainder \/ SpecialFma
  \/ NearSum \/ FarSum \/ Multiply \/ ProductOnly \/ FusedSum
  \/ StartDivision \/ DivideDigit \/ StartRoot \/ RootDigit
  \/ AlreadyRemainder \/ BelowDivisor \/ StartReduction \/ ReduceDigit
=============================================================================

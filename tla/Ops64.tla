------------------------------- MODULE Ops64 -------------------------------
(***************************************************************************)
(* One call of an operation of rounding.cpp, compare.cpp or classify.cpp.  *)
(* The operands stay in call; an entry with an out pointer stores part.    *)
(* hypot calls five other entries, each of which raises its own flags.     *)
(***************************************************************************)
EXTENDS Order64

Copy == INSTANCE Classify64

(* The table reaches the scaled values that ldexp is compared with.         *)
ASSUME ScalesAssumption == MaxShift >= ScaleClamp + 1 + ExpMax + FracBits

VARIABLES call,   \* the operation and its operands
          pc,     \* "enter", "done"; "ratio" to "root" within hypot
          res,    \* the value returned
          part,   \* what is stored through the out pointer; hypot's value so far
          fe      \* flags raised

vars == <<call, pc, res, part, fe>>

---------------------------------------------------------------------------
(* One past either end of the clamp of ldexp, one past the predicates.     *)
Scales == -(ScaleClamp + 1)..(ScaleClamp + 1)
Predicates == 0..16

Integrals == [op : {"floor", "ceil", "trunc", "round", "rint"}, v : Values]
RoundedIntegrals == [op : {"rint_r"}, v : Values, mode : Modes]
Splits == [op : {"fract", "modf", "frexp", "ilogb", "logb"}, v : Values]
Scalings == [op : {"ldexp"}, v : Values, n : Scales]
Comparisons == [op : {"fcmp"}, a : Values, b : Values, pred : Predicates]
Pairs == [op : {"fmin", "fmax", "fmin_precise", "fmax_precise", "maxmag", "minmag",
                "fdim", "nextafter", "hypot", "copysign"}, a : Values, b : Values]

Init == /\ \/ call \in Integrals \/ call \in RoundedIntegrals \/ call \in Splits
           \/ call \in Scalings \/ call \in Comparisons \/ call \in Pairs
        /\ pc = "enter" /\ res = 0 /\ part = 0 /\ fe = {}

Entering(op) == pc = "enter" /\ call.op = op

ReturnAll(v, stored, flags) == /\ pc' = "done" /\ res' = v /\ part' = stored /\ fe' = flags
                               /\ UNCHANGED call
Return(v) == ReturnAll(v, part, {})

---------------------------------------------------------------------------
(* rounding.cpp                                                            *)
sf64_floor == Entering("floor") /\ Return(Floor(call.v))
sf64_ceil == Entering("ceil") /\ Return(Ceil(call.v))
sf64_trunc == Entering("trunc") /\ Return(TruncBits(call.v))
sf64_round == Entering("round") /\ Return(RoundAway(call.v))
sf64_rint == Entering("rint") /\ Return(Rint(call.v))
sf64_rint_r == Entering("rint_r") /\ Return(RintInMode(call.mode, call.v))

sf64_fract == /\ Entering("fract")
              /\ LET r == Fract(call.v) IN ReturnAll(r.res, part, r.fe)
sf64_modf == /\ Entering("modf")
             /\ LET r == Modf(call.v) IN ReturnAll(r.res, r.part, r.fe)
sf64_frexp == /\ Entering("frexp")
              /\ LET r == Frexp(call.v) IN ReturnAll(r.res, r.part, {})
sf64_ldexp == Entering("ldexp") /\ Return(Ldexp(call.v, call.n))
sf64_ilogb == Entering("ilogb") /\ Return(Ilogb(call.v))
sf64_logb == Entering("logb") /\ Return(Logb(call.v))

(* compare.cpp and classify.cpp                                            *)
sf64_fcmp == /\ Entering("fcmp")
             /\ Return(IF Fcmp(call.pred, call.a, call.b) THEN 1 ELSE 0)
sf64_fmin_precise == Entering("fmin_precise") /\ Return(FminPrecise(call.a, call.b))
sf64_fmax_precise == Entering("fmax_precise") /\ Return(FmaxPrecise(call.a, call.b))
sf64_fmin == Entering("fmin") /\ Return(Fmin(call.a, call.b))
sf64_fmax == Entering("fmax") /\ Return(Fmax(call.a, call.b))
sf64_maxmag == Entering("maxmag") /\ Return(Maxmag(call.a, call.b))
sf64_minmag == Entering("minmag") /\ Return(Minmag(call.a, call.b))
sf64_copysign == Entering("copysign") /\ Return(Copysign(call.a, call.b))
sf64_nextafter == Entering("nextafter") /\ Return(Nextafter(call.a, call.b))

sf64_fdim == /\ Entering("fdim")
             /\ LET r == Fdim(call.a, call.b) IN ReturnAll(r.res, part, r.fe)
---------------------------------------------------------------------------
(* hypot: s * sqrt(1 + (t / s)^2) for the larger magnitude s and the       *)
(* smaller one t.                                                          *)
HypotSpecial ==
  /\ Entering("hypot")
  /\ \/ (IsInf(call.a) \/ IsInf(call.b)) /\ Return(SignedInf(0))
     \/ /\ ~IsInf(call.a) /\ ~IsInf(call.b) /\ Unordered(call.a, call.b)
        /\ Return(CanonicalNaN)
     \/ IsZero(call.a) /\ IsZero(call.b) /\ Return(SignedZero(0))

HypotStep(from, to, r) ==
  /\ pc = from /\ call.op = "hypot"
  /\ pc' = to /\ part' = r.res /\ fe' = fe \cup r.fe
  /\ UNCHANGED <<call, res>>

HypotRatio ==
  /\ Entering("hypot") /\ call.a.e # ExpMax /\ call.b.e # ExpMax
  /\ ~IsZero(call.a) \/ ~IsZero(call.b)
  /\ HypotStep("enter", "ratio", Rne!DivRne(Smaller(call.a, call.b), Larger(call.a, call.b)))

HypotSquare == HypotStep("ratio", "square", Rne!MulRne(part, part))
HypotSum == HypotStep("square", "sum", Rne!AddRne(One(0), part))
HypotRoot == HypotStep("sum", "root", Rne!SqrtRne(part))

HypotScale ==
  /\ pc = "root"
  /\ LET r == Rne!MulRne(Larger(call.a, call.b), part)
     IN  ReturnAll(r.res, part, fe \cup r.fe)

Next == \/ sf64_floor \/ sf64_ceil \/ sf64_trunc \/ sf64_round \/ sf64_rint \/ sf64_rint_r
        \/ sf64_fract \/ sf64_modf \/ sf64_frexp \/ sf64_ldexp \/ sf64_ilogb \/ sf64_logb
        \/ sf64_fcmp \/ sf64_fmin_precise \/ sf64_fmax_precise \/ sf64_fmin \/ sf64_fmax
        \/ sf64_maxmag \/ sf64_minmag \/ sf64_copysign \/ sf64_nextafter
        \/ sf64_fdim \/ HypotSpecial \/ HypotRatio \/ HypotSquare \/ HypotSum
        \/ HypotRoot \/ HypotScale

Spec == Init /\ [][Next]_vars

---------------------------------------------------------------------------
Outcome == [res |-> res, fe |-> fe]
Returned(ops) == pc = "done" /\ call.op \in ops
RefOne == Pow2[Ref!LogOne]

Integral(mode, v) == Ref!NearestInteger(v.s, Ref!Mag(v), RefOne, mode) * RefOne

ModeOf == CASE call.op = "floor" -> "RDN"
            [] call.op = "ceil" -> "RUP"
            [] call.op = "trunc" -> "RTZ"
            [] call.op = "round" -> "RNA"
            [] call.op = "rint" -> "RNE"
            [] call.op = "rint_r" -> call.mode

(* floor, ceil, trunc, round and rint return the integral value next to    *)
(* the operand in their direction, with its sign also when it is zero;     *)
(* infinity comes back unchanged, NaN as a NaN: which one is open here, for*)
(* soft_f64.h:303-325 promises another than rounding.cpp returns.  modf's  *)
(* parts add up to the operand exactly and have its sign.  fract is        *)
(* x - floor(x) rounded once.  soft_f64.h:327-331 calls it exact and less  *)
(* than one: what it raises when that difference is no value, and what it  *)
(* is when the difference rounds to one, is open here as well.             *)
CorrectIntegral ==
  /\ Returned({"floor", "ceil", "trunc", "round", "rint", "rint_r"}) =>
       IF IsNaN(call.v) THEN IsNaN(res)
       ELSE IF IsInf(call.v) THEN res = call.v
       ELSE /\ res.s = call.v.s /\ res.e < ExpMax
            /\ Ref!Mag(res) = Integral(ModeOf, call.v)
  /\ (Returned({"modf"}) /\ call.v.e < ExpMax) =>
       /\ res.s = call.v.s /\ part.s = call.v.s /\ fe = {}
       /\ Ref!Mag(part) = Integral("RTZ", call.v)
       /\ Ref!Mag(res) + Ref!Mag(part) = Ref!Mag(call.v)
  /\ (Returned({"fract"}) /\ call.v.e < ExpMax) =>
       LET rest == Ref!Signed(call.v) % RefOne
           once == IF rest = 0 THEN [res |-> SignedZero(0), fe |-> {}]
                   ELSE Ref!Round(0, rest, 1, "RNE")
       IN  /\ once.res # One(0) => res = once.res
           /\ once.fe = {} => fe = {}

(* ldexp rounds v * 2^n once, also from and to subnormal numbers.  frexp   *)
(* gives a magnitude in [1/2, 1) whose multiple is the operand, which      *)
(* ldexp finds again; ilogb and logb tell its binade.                      *)
ScaledOnce ==
  LET v == call.v
      nonzero == ~IsZero(v) /\ v.e < ExpMax
      times(n) == IF n >= 0 THEN <<Pow2[n], 1>> ELSE <<1, Pow2[-n]>>
  IN  /\ (Returned({"ldexp"}) /\ nonzero) =>
           res = Ref!Round(v.s, Ref!Mag(v) * times(call.n)[1], times(call.n)[2], "RNE").res
      /\ (Returned({"frexp"}) /\ nonzero) =>
           /\ RefOne <= 2 * Ref!Mag(res) /\ Ref!Mag(res) < RefOne
           /\ Ref!Signed(res) * times(part)[1] = Ref!Signed(v) * times(part)[2]
           /\ Ldexp(res, part) = v
      /\ (Returned({"ilogb"}) /\ nonzero) =>
           LET one == RefOne * times(res)[1]
               mag == Ref!Mag(v) * times(res)[2]
           IN  one <= mag /\ mag < 2 * one
      /\ (Returned({"logb"}) /\ nonzero) => Ref!Signed(res) = Ilogb(v) * RefOne

---------------------------------------------------------------------------
(* The four ways two operands can relate, by value; bit i of a predicate   *)
(* asks for the relation with that number.                                 *)
Relates(a, b) ==
  IF IsNaN(a) \/ IsNaN(b) THEN 3
  ELSE IF Ref!Signed(a) < Ref!Signed(b) THEN 2
  ELSE IF Ref!Signed(a) > Ref!Signed(b) THEN 1
  ELSE 0

(* The order of minimum and maximum: by value, -0 below +0.                *)
AtMost(a, b) == Ref!Signed(a) < Ref!Signed(b) \/ (Ref!Signed(a) = Ref!Signed(b) /\ a.s >= b.s)
Smallest(a, b) == IF AtMost(a, b) THEN a ELSE b
Greatest(a, b) == IF AtMost(a, b) THEN b ELSE a

(* Each predicate is true exactly of the relations it asks for, so that    *)
(* the sixteen are eight pairs of complements; minima and maxima are those *)
(* of the order with -0 below +0; fdim is the rounded difference of what   *)
(* is greater.  fmin and its kind return the operand beside a NaN, the     *)
(* precise pair a NaN; which NaN it is, where only a NaN can be returned,  *)
(* is open here: soft_f64.h:180-191, 406-410 promise the canonical one and *)
(* the code returns an operand.                                            *)
OrderedByValue ==
  LET a == call.a
      b == call.b
  IN  /\ Returned({"fcmp"}) =>
           (res = 1 <=> call.pred < 16 /\ BitSet(call.pred, Relates(a, b)))
      /\ (Returned({"fmin", "fmax", "minmag", "maxmag"}) /\ Unordered(a, b)) =>
           IF IsNaN(a) /\ IsNaN(b) THEN IsNaN(res)
           ELSE res = IF IsNaN(a) THEN b ELSE a
      /\ (Returned({"fmin_precise", "fmax_precise"}) /\ Unordered(a, b)) => IsNaN(res)
      /\ (Returned({"fmin", "fmin_precise"}) /\ ~Unordered(a, b)) => res = Smallest(a, b)
      /\ (Returned({"fmax", "fmax_precise"}) /\ ~Unordered(a, b)) => res = Greatest(a, b)
      /\ (Returned({"minmag"}) /\ ~Unordered(a, b)) =>
           res = IF Ref!Mag(a) = Ref!Mag(b) THEN Smallest(a, b)
                 ELSE IF Ref!Mag(a) < Ref!Mag(b) THEN a ELSE b
      /\ (Returned({"maxmag"}) /\ ~Unordered(a, b)) =>
           res = IF Ref!Mag(a) = Ref!Mag(b) THEN Greatest(a, b)
                 ELSE IF Ref!Mag(a) > Ref!Mag(b) THEN a ELSE b
      /\ (Returned({"fdim"}) /\ ~Unordered(a, b)) =>
           Outcome = IF Relates(a, b) = 1 THEN Ref!Subtract(a, b, "RNE")
                     ELSE [res |-> SignedZero(0), fe |-> {}]

(* nextafter moves toward y and skips no value; from equal operands it     *)
(* returns y.  A zero reached from a nonzero value keeps its sign.         *)
Adjacent ==
  (Returned({"nextafter"}) /\ ~Unordered(call.a, call.b)) =>
    LET x == call.a
        y == call.b
        between(u, v, w) == \/ Ref!Signed(u) < Ref!Signed(v) /\ Ref!Signed(v) < Ref!Signed(w)
                            \/ Ref!Signed(w) < Ref!Signed(v) /\ Ref!Signed(v) < Ref!Signed(u)
    IN  IF Relates(x, y) = 0 THEN res = y
        ELSE /\ Ref!Signed(res) = Ref!Signed(y) \/ between(x, res, y)
             /\ \A v \in Values : ~IsNaN(v) => ~between(x, v, res)
             /\ IsZero(res) => res.s = x.s

(* soft_f64.h:455-464: hypot has no spurious overflow or underflow and is  *)
(* within 4 units in the last place (two here); it is exact beside a zero, *)
(* and infinity beats NaN.  (A norm within that distance of the overflow   *)
(* threshold may become infinite.)                                         *)
HypotClose ==
  Returned({"hypot"}) =>
    IF IsInf(call.a) \/ IsInf(call.b) THEN res = SignedInf(0)
    ELSE IF Unordered(call.a, call.b) THEN res = CanonicalNaN
    ELSE LET sum == Ref!Mag(call.a) * Ref!Mag(call.a) + Ref!Mag(call.b) * Ref!Mag(call.b)
             root == CHOOSE i \in 0..Ref!InfIndex :
                       /\ Ref!Magnitude[i] * Ref!Magnitude[i] <= sum
                       /\ i < Ref!InfIndex =>
                            sum < Ref!Magnitude[i + 1] * Ref!Magnitude[i + 1]
         IN  /\ res.s = 0 /\ Low(res) \in (root - 1)..(root + 2)
             /\ IsZero(call.a) => Outcome = [res |-> Fabs(call.b), fe |-> {}]

(* The header's literal copies give what the originals give.               *)
CopiesIdentical ==
  pc = "done" =>
    CASE call.op = "trunc" -> res = Copy!InternalTrunc(call.v)
      [] call.op = "ldexp" -> res = Copy!InternalLdexp(call.v, call.n)
      [] call.op = "frexp" -> [res |-> res, part |-> part] = Copy!InternalFrexp(call.v)
      [] call.op = "fcmp" -> res = 1 <=> Copy!InternalFcmp(call.pred, call.a, call.b)
      [] OTHER -> TRUE
=============================================================================

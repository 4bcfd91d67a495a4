----------------------------- MODULE MCSleef64 -----------------------------
(* Sleef64 on a small format: the remainders on every pair of operands but *)
(* for signs, the functions of one operand on every value, the functions   *)
(* of two on the values where their cases meet.                            *)
EXTENDS Sleef64

MCPow2 == [n \in 0..MaxShift |-> 2 ^ n]
MCIntMin == -IntMax

Ref == INSTANCE IEEE754
RefOne == Pow2[Ref!LogOne]

(* m * 2^x with a full significand m, and m units of the least value.      *)
Normal(m, x) == [s |-> 0, e |-> Bias + FracBits + x, f |-> m - ImplicitBit]
Units(m) == [s |-> 0, e |-> 0, f |-> m]

(* For each threshold of the code, the value that plays its part in this   *)
(* format; the constants of the code, rounded to it.                       *)
MCBound ==
  [exp_near |-> Normal(9, -1), exp_high |-> Normal(11, -1), exp_low |-> Normal(8, 0),
   exp2_low |-> Normal(8, 1), exp10_high |-> Normal(9, -2), exp10_low |-> Normal(14, -2),
   expm1_low |-> Normal(11, -2), sinh_split |-> Normal(8, -2), sinh_high |-> Normal(12, -1),
   cosh_high |-> Normal(10, -1), tanh_high |-> Normal(8, -2), native_exp_low |-> Normal(14, -1),
   log_least |-> Normal(8, -9), log_most |-> Normal(9, 0),
   erf_tiny |-> Normal(8, -6), erf_high |-> Normal(8, -2), erfc_high |-> Normal(10, -2),
   gamma_tiny |-> Normal(8, -8), gamma_period |-> Normal(8, 0), gamma_high |-> Normal(14, -1),
   sinpi_clamp |-> Normal(14, -2), native_cutoff |-> Normal(8, -1),
   root_half |-> Normal(11, -4), root_two |-> Normal(11, -3),
   two_over_root_pi |-> Normal(9, -3), L2U |-> Normal(11, -4), L2L |-> Units(3),
   ln10 |-> Normal(9, -2), log2e |-> Normal(12, -3), log10e |-> Normal(14, -5),
   pi_hi |-> Normal(13, -2), pi_lo |-> Neg(Normal(14, -7)),
   inv_pi_hi |-> Normal(10, -5), inv_pi_lo |-> Units(3)]

MCSample == {SignedZero(0), Units(1), Normal(8, -4), Normal(12, -4), Normal(8, -3),
             Normal(11, -3), Normal(8, -1), MaxFinite(0), SignedInf(0)}

---------------------------------------------------------------------------
Unary == {"exp", "exp2", "exp10", "expm1", "log", "log2", "log10", "log1p",
          "sinh", "cosh", "tanh", "asinh", "acosh", "atanh", "erf", "erfc",
          "tgamma", "lgamma", "lgamma_r", "cbrt", "sinpi", "cospi", "tanpi",
          "asin", "acos", "atan", "asinpi", "acospi", "atanpi"}
NativeUnary == {"native_exp", "native_exp2", "native_exp10", "native_log", "native_log2",
                "native_log10", "native_sqrt", "native_rsqrt", "native_recip"}
Circular == {"sin", "cos", "tan", "sincos"}
NativeCircular == {"native_sin", "native_cos", "native_tan"}

Coarse == {v \in Values : v.f \in {0, ImplicitBit \div 2}}
Edges == {v \in Coarse : v.e \in {0, 1, Bias - 1, Bias, ExpMax - 1, ExpMax}}
PairOperands == {v \in Values : v.s = 0 /\ v.e \in {Bias - 3, Bias, Bias + 2}}
OddAngles == {2 * n + 1 : n \in -18..17}

StartBuild(x, y, op, n, angle, ftz, propagate) ==
  /\ a = x /\ b = y /\ call = Call(op, n, angle, ftz, propagate)
  /\ pc = "enter" /\ sigA = 0 /\ k = 0 /\ fe = {} /\ res = SignedZero(0)
  /\ rest = SignedZero(0) /\ part = SignedZero(0) /\ sign = 0

Start_(x, y, op, n, angle, ftz) == StartBuild(x, y, op, n, angle, ftz, FALSE)
Plain(x, y, op) == Start_(x, y, op, 0, 0, FALSE)
NoOperand == SignedZero(0)

MCInit ==
  \/ \E x \in Values, y \in Values : y.s = 0 /\ Plain(x, y, "rem")
  \/ \E x \in Values, y \in Values : y.s = 0 /\ Plain(x, y, "fmod")
  \/ \E x \in Values, y \in Values : x.s = 0 /\ Plain(x, y, "remainder")
  \/ \E x \in Values, y \in Values, op \in {"fmod", "remainder"} :
       (IsNaN(x) \/ IsNaN(y)) /\ StartBuild(x, y, op, 0, 0, FALSE, TRUE)
  \/ \E x \in Values, op \in Unary \cup NativeUnary, ftz \in BOOLEAN :
       Start_(x, NoOperand, op, 0, 0, ftz)
  \/ \E x \in Coarse, y \in Values, op \in {"pow", "powr"} : Plain(x, y, op)
  \/ \E x \in Edges, y \in Edges, ftz \in BOOLEAN,
        op \in {"pow", "powr", "atan2", "atan2pi", "native_powr", "native_divide"} :
       Start_(x, y, op, 0, 0, ftz)
  \/ \E x \in Values, n \in -4..5, op \in {"pown", "rootn"} :
       Start_(x, NoOperand, op, n, 0, FALSE)
  \/ \E x \in Coarse, y \in Coarse, op \in {"atan2", "atan2pi"} : Plain(x, y, op)
  \/ \E x \in Values, y \in Values, op \in {"atan2", "atan2pi"} :
       x.e = 0 /\ y.e = 0 /\ Plain(x, y, op)
  \/ \E x \in {v \in Values : IsZero(v) \/ v.e = ExpMax}, op \in Circular \cup NativeCircular :
       Plain(x, NoOperand, op)
  \/ \E angle \in OddAngles, far \in BOOLEAN, op \in Circular \cup NativeCircular :
       LET size == Normal(8, IF far THEN 0 ELSE -3) IN
       Start_([size EXCEPT !.s = IF angle < 0 THEN 1 ELSE 0], NoOperand, op, 0, angle, FALSE)
  \/ \E x \in PairOperands, y \in Values, op \in {"ddadd2", "ddmul"} : Plain(x, y, op)

MCSpec == MCInit /\ [][SleefNext]_sleefVars /\ WF_sleefVars(Division)

---------------------------------------------------------------------------
Returned(op) == pc = "done" /\ call.op = op
ReturnedOneOf(ops) == pc = "done" /\ call.op \in ops
Size(v) == Ref!Mag(v)
At(v) == Ref!Signed(v)

(* rem and fmod are exact, carry the sign of the dividend and raise        *)
(* nothing but INVALID, whatever the distance of the exponents and also    *)
(* when the result is subnormal; remainder is the nearest, ties to even.   *)
(* A NaN operand comes out quieted of rem and of the builds that propagate *)
(* it, and as the canonical NaN of fmod and remainder of the default one.  *)
InBuild(outcome) ==
  IF (IsNaN(a) \/ IsNaN(b)) /\ ~call.propagate
  THEN [outcome EXCEPT !.res = CanonicalNaN] ELSE outcome

ExactRemainder ==
  LET outcome == [res |-> res, fe |-> fe]
  IN  /\ Returned("rem") => outcome = Ref!Fmod(a, b)
      /\ Returned("fmod") => outcome = InBuild(Ref!Fmod(a, b))
      /\ Returned("remainder") => outcome = InBuild(Ref!Remainder(a, b))

---------------------------------------------------------------------------
Unit == [s |-> 0, e |-> Bias, f |-> 0]
Finite(v) == v.e # ExpMax
Integral(v) == Finite(v) /\ At(v) % RefOne = 0
OddInteger(v) == Integral(v) /\ (At(v) \div RefOne) % 2 = 1
SideOfOne(r, above) == IF above THEN Size(r) >= RefOne ELSE Size(r) <= RefOne
TimesLogOverflows(y) == IsInf(Products[Bound.log_most][[y EXCEPT !.s = 0]])

(* pow: the cases of soft_f64.h:680-690 and, between them, a result of the *)
(* right sign on the right side of one.  Left open here, as the code does  *)
(* not do what its header says of them and SleefAsDocumented is refuted by *)
(* them: a negative x to an infinite y and minus infinity to a y that is   *)
(* no integer; and whether the result is NaN when the product of y with a  *)
(* logarithm can overflow.                                                 *)
PowAsDocumented(x, y, r) ==
  LET minus == IF x.s = 1 /\ OddInteger(y) THEN 1 ELSE 0
      grows == (Size(x) > RefOne) = (y.s = 0)
  IN  IF IsZero(y) \/ x = Unit THEN r = Unit
      ELSE IF IsNaN(x) \/ IsNaN(y) THEN IsNaN(r)
      ELSE IF IsZero(x) THEN r = IF y.s = 1 THEN SignedInf(minus) ELSE SignedZero(minus)
      ELSE IF x.s = 1 /\ ~Integral(y) THEN Finite(x) /\ Finite(y) => IsNaN(r)
      ELSE IF IsInf(x) \/ IsInf(y)
      THEN r = IF grows THEN SignedInf(minus) ELSE SignedZero(minus)
      ELSE IF IsNaN(r) THEN TimesLogOverflows(y)
      ELSE /\ r.s = minus
           /\ IF Size(x) = RefOne THEN Size(r) = RefOne ELSE SideOfOne(r, grows)

(* powr takes no negative base; what has no limit is invalid.              *)
PowrAsDocumented(x, y, r, flags) ==
  LET nan == IsNaN(x) \/ IsNaN(y)
      noLimit == \/ x.s = 1 /\ ~IsZero(x)
                 \/ (IsZero(x) \/ IsInf(x)) /\ IsZero(y)
                 \/ x = Unit /\ IsInf(y)
  IN  IF nan THEN IsNaN(r) /\ flags = {}
      ELSE IF noLimit THEN IsNaN(r) /\ flags = {"invalid"}
      ELSE IF IsZero(x)
      THEN IF y.s = 1 THEN r = SignedInf(0) /\ flags = {"divbyzero"}
           ELSE r = SignedZero(0) /\ flags = {}
      ELSE PowAsDocumented(x, y, r)

(* rootn: odd roots keep the sign, even roots of negative numbers are NaN. *)
(* Left open here, and refuting SleefAsDocumented: the roots of minus      *)
(* infinity to an even negative n.                                         *)
RootnAsDocumented(x, n, r) ==
  LET minus == IF n % 2 = 1 THEN x.s ELSE 0
      grows == (Size(x) > RefOne) = (n > 0)
  IN  IF IsNaN(x) \/ n = 0 THEN IsNaN(r)
      ELSE IF x.s = 1 /\ n % 2 = 0 /\ ~IsZero(x) THEN IsNaN(r) \/ (IsInf(x) /\ n < 0)
      ELSE IF IsZero(x) \/ IsInf(x)
      THEN r = IF grows THEN SignedInf(minus) ELSE SignedZero(minus)
      ELSE /\ r.s = minus /\ ~IsNaN(r)
           /\ IF Size(x) = RefOne THEN Size(r) = RefOne ELSE SideOfOne(r, grows)

(* The cube of a neighbour of the root is on the other side of x: in units *)
(* of 2^-6 the roots of this format are integers.                          *)
RootOfCube(x, r) ==
  LET n == Size(r) \div 8
      ulp == Pow2[r.e - (Bias - 3)]
      cube(m) == m * m * m
  IN  /\ r.s = x.s
      /\ cube(n - ulp) < Size(x) * Pow2[9] /\ Size(x) * Pow2[9] < cube(n + ulp)

(* Powers and roots are what they are documented to be, but for the cases  *)
(* left open above: the special cases, the sign that depends on the parity *)
(* of the exponent, the side of one on which the result lies, and the cube *)
(* root next to the true one.                                              *)
PowersAsDocumented ==
  /\ Returned("pow") => PowAsDocumented(X, Y, res)
  /\ Returned("powr") => PowrAsDocumented(X, Y, res, fe)
  /\ Returned("pown") =>
       PowAsDocumented(X, Ref!RoundInteger(call.n * RefOne, "RNE").res, res)
  /\ Returned("rootn") => RootnAsDocumented(X, call.n, res)
  /\ Returned("cbrt") => IF Finite(X) /\ ~IsZero(X) THEN RootOfCube(X, res)
                         ELSE IF IsNaN(X) THEN IsNaN(res) ELSE res = X

---------------------------------------------------------------------------
(* In which quadrant, and on which side of its middle, a function of the   *)
(* angle p is, counted in 32nds of a turn.                                 *)
PastMiddle(r, past) ==
  IF past THEN Size(r) >= Size(Bound.root_half) ELSE Size(r) <= Size(Bound.root_half)
SineAt(r, p) == r.s = p \div 16 /\ PastMiddle(r, p % 16 \in 4..12)
CosineAt(r, p) == SineAt(r, (p + 8) % 32)
TangentAt(r, p) == r.s = (p \div 8) % 2 /\ SideOfOne(r, p % 16 \in 4..12)

CircularAt(p) ==
  /\ ReturnedOneOf({"sin", "native_sin", "sincos"}) => SineAt(res, p)
  /\ ReturnedOneOf({"cos", "native_cos"}) => CosineAt(res, p)
  /\ ReturnedOneOf({"tan", "native_tan"}) => TangentAt(res, p)
  /\ Returned("sincos") => CosineAt(part, p)

(* At the ends: no angle in infinity, and the zeros of sine and tangent.   *)
CircularAtEnd ==
  /\ ~Finite(X) => IsNaN(res) /\ (call.op = "sincos" => IsNaN(part))
  /\ IsZero(X) => IF call.op \in {"cos", "native_cos"} THEN res = Unit
                  ELSE IsZero(res) /\ (call.op \notin NativeCircular => res = X)
  /\ IsZero(X) /\ call.op = "sincos" => part = Unit

(* sinpi, cospi and tanpi of t / RefOne half turns, for what is not        *)
(* clamped: the exact zeros, ones and poles, and the sign between them.    *)
SinpiAt(r, t) ==
  LET past == t % RefOne IN
  /\ IsZero(r) = (past = 0)
  /\ ~IsZero(r) => r.s = t \div RefOne
  /\ PastMiddle(r, RefOne <= 4 * past /\ 4 * past <= 3 * RefOne)
  /\ 2 * past = RefOne => Size(r) = RefOne
CospiAt(r, t) == SinpiAt(r, (t + (RefOne \div 2)) % (2 * RefOne))
TanpiAt(r, t) ==
  LET half == 2 * (t % RefOne) IN
  /\ IsZero(r) = (half = 0) /\ IsInf(r) = (half = RefOne)
  /\ half \notin {0, RefOne} => ~IsNaN(r) /\ r.s = half \div RefOne

HalfTurnsAt(t) ==
  /\ Returned("sinpi") => SinpiAt(res, t)
  /\ Returned("cospi") => CospiAt(res, t)
  /\ Returned("tanpi") => TanpiAt(res, t)

(* atan2 has the sign of y and is beyond a quarter turn for a negative x;  *)
(* when the reciprocal of the larger magnitude overflows, it may be NaN    *)
(* here, which refutes SleefAsDocumented.                                  *)
VectorAt(y, x, r, quarter) ==
  LET larger == IF Size(x) > Size(y) THEN x ELSE y
      lost == /\ Finite(x) /\ Finite(y) /\ ~IsZero(x) /\ ~IsZero(y)
              /\ IsInf(Quotients[Unit][[larger EXCEPT !.s = 0]])
  IN  IF IsNaN(x) \/ IsNaN(y) THEN IsNaN(r)
      ELSE IF IsNaN(r) THEN lost
      ELSE /\ ~IsZero(r) => r.s = y.s
           /\ IF x.s = 1 THEN Size(r) >= Size(quarter) ELSE Size(r) <= Size(quarter)

(* Every function of an angle, or with one for a result, picks the right   *)
(* quadrant from the parity of the quotient of its reduction, whichever    *)
(* way it reduces and wherever the quotient was rounded to.                *)
RightQuadrant ==
  /\ pc = "done" /\ call.op \in Circular \cup NativeCircular =>
       IF Finite(X) /\ ~IsZero(X) THEN CircularAt(call.angle % 32) ELSE CircularAtEnd
  /\ ReturnedOneOf({"sinpi", "cospi", "tanpi"}) =>
       IF ~Finite(X) THEN IsNaN(res)
       ELSE ~call.ftz /\ Size(X) <= Size(Bound.sinpi_clamp) => HalfTurnsAt(At(X) % (2 * RefOne))
  /\ Returned("atan2") => VectorAt(X, Y, res, [Bound.pi_hi EXCEPT !.e = @ - 1])
  /\ Returned("atan2") /\ IsZero(X) /\ ~IsNaN(Y) => res.s = X.s
  /\ Returned("atan2pi") => VectorAt(X, Y, res, [Unit EXCEPT !.e = Bias - 1])

---------------------------------------------------------------------------
(* Double-double arithmetic loses nothing: the two halves of a sum add up  *)
(* to the sum of any two operands, those of a product to the product,      *)
(* unless a half overflows or its last place is below the format's; and    *)
(* the logarithm and the power of two are exact where the true value is an *)
(* integer, for every exponent, that of subnormal numbers included.        *)
LastPlace(v) == (IF v.e = 0 THEN 1 ELSE v.e) - Bias - FracBits

ErrorFree ==
  /\ Returned("ddadd2") /\ Finite(Y) /\ Finite(res) => At(res) + At(part) = At(X) + At(Y)
  /\ Returned("ddmul") /\ Finite(Y) /\ Finite(res) /\ LastPlace(X) + LastPlace(Y) >= -Ref!LogOne
       => (At(res) + At(part)) * RefOne = At(X) * At(Y)
  /\ Returned("log2") /\ Finite(X) /\ X.s = 0 =>
       \A n \in 0..MaxShift : Size(X) = Pow2[n] => At(res) = (n - Ref!LogOne) * RefOne
  /\ Returned("exp2") /\ ~call.ftz /\ Integral(X) =>
       \A n \in -Ref!LogOne..Bias : At(X) = n * RefOne => res.s = 0 /\ Size(res) = Pow2[n + Ref!LogOne]

---------------------------------------------------------------------------
SquareOverflows(v) == Finite(v) /\ IsInf(Products[v][v])
BelowMinusOne(v) == At(v) < -RefOne
FloorIsOdd(v) == (At(v) \div RefOne) % 2 = 1
NegativeInteger(v) == Integral(v) /\ At(v) < 0

(* NaN comes out where the function has no value, and nowhere else.  Left  *)
(* open here, and refuting SleefAsDocumented: asinh and acosh of operands  *)
(* whose square overflows.                                                 *)
NaNAsDocumented ==
  /\ ReturnedOneOf({"exp", "exp2", "exp10", "expm1", "sinh", "cosh", "tanh", "erf", "erfc",
                    "atan", "atanpi", "lgamma"}) => IsNaN(res) = IsNaN(X)
  /\ ReturnedOneOf({"log", "log2", "log10", "native_log", "native_log2", "native_log10"}) =>
       IsNaN(res) = (IsNaN(X) \/ At(X) < 0)
  /\ Returned("log1p") => IsNaN(res) = (IsNaN(X) \/ BelowMinusOne(X))
  /\ ReturnedOneOf({"asin", "acos", "atanh", "asinpi", "acospi"}) =>
       IsNaN(res) = (IsNaN(X) \/ Size(X) > RefOne)
  /\ Returned("asinh") => SquareOverflows(X) \/ IsNaN(res) = IsNaN(X)
  /\ Returned("acosh") =>
       IF IsNaN(X) \/ At(X) < RefOne THEN IsNaN(res) ELSE SquareOverflows(X) \/ ~IsNaN(res)

(* The sign of gamma is that of the interval between two poles.  The sign  *)
(* that lgamma_r stores for a zero, a pole, is left open here and refutes  *)
(* SleefAsDocumented; nothing is documented of minus infinity.             *)
GammaSign(x) == IF At(x) < 0 /\ FloorIsOdd(x) THEN 1 ELSE 0

PolesAsDocumented ==
  /\ ReturnedOneOf({"log", "log2", "log10", "native_log"}) /\ IsZero(X) => res = SignedInf(1)
  /\ Returned("log1p") /\ X = Neg(Unit) => res = SignedInf(1)
  /\ Returned("atanh") /\ ~IsNaN(X) /\ Size(X) = RefOne => res = SignedInf(X.s)
  /\ Returned("tgamma") =>
       /\ IsNaN(X) \/ NegativeInteger(X) => IsNaN(res)
       /\ IsZero(X) => res = SignedInf(X.s)
       /\ Finite(X) /\ ~IsZero(X) /\ ~IsNaN(res) /\ ~IsZero(res) => res.s = GammaSign(X)
  /\ Returned("lgamma_r") =>
       IF IsNaN(X) THEN sign = 0
       ELSE IF NegativeInteger(X) THEN sign = 0 /\ res = SignedInf(0)
       ELSE IF IsZero(X) \/ IsInf(X)
       THEN res = SignedInf(0) /\ (X = SignedInf(0) => sign = 1)
       ELSE sign = IF GammaSign(X) = 1 THEN -1 ELSE 1

DomainsAndPoles == NaNAsDocumented /\ PolesAsDocumented

---------------------------------------------------------------------------
(* The sign of the result follows from the operand and its magnitude stays *)
(* on its side of the asymptotes, through every reduction and reflection;  *)
(* called through the wrappers of a flushing build, nothing is subnormal.  *)
(* Left open here: the sign of a zero (asinh of -0 refutes                 *)
(* SleefAsDocumented).                                                     *)
OddFunctions == {"sinh", "tanh", "asinh", "atanh", "erf", "expm1", "log1p",
                 "asin", "atan", "asinpi", "atanpi"}

SignsAndSides ==
  pc = "done" /\ ~IsNaN(res) =>
    /\ call.op \in OddFunctions /\ ~IsZero(res) => res.s = X.s
    /\ call.op \in {"exp", "exp2", "exp10", "native_exp"} =>
         At(res) >= 0 /\ SideOfOne(res, At(X) > 0)
    /\ call.op \in {"log", "log2", "log10", "native_log"} /\ ~IsZero(res) =>
         (res.s = 1) = (At(X) < RefOne)
    /\ call.op = "cosh" => At(res) > 0
    /\ call.op = "acosh" => At(res) >= 0
    /\ call.op \in {"tanh", "erf"} => Size(res) <= RefOne
    /\ call.op = "erfc" =>
         At(res) \in 0..(2 * RefOne) /\ SideOfOne(res, X.s = 1)
    /\ call.op \in {"acos", "acospi"} => At(res) >= 0
    /\ call.ftz => res.e # 0 \/ res.f = 0

---------------------------------------------------------------------------
(* What the header says of results the properties above leave open; the    *)
(* code refutes each.                                                      *)
NoNaN == ~IsNaN(X) /\ ~IsNaN(Y)

(* soft_f64.h:688: "pow(+-inf, y) and pow(x, +-inf) per IEEE 754-2008      *)
(* 9.2.1", which gives neither a NaN unless the other operand is one.      *)
PowOfInfinities ==
  Returned("pow") /\ (IsInf(X) \/ IsInf(Y)) /\ NoNaN => ~IsNaN(res)

(* The table of soft_f64.h:682-689, which calls itself full, has no NaN    *)
(* for a positive x.                                                       *)
PowOfPositives == Returned("pow") /\ Finite(X) /\ X.s = 0 /\ NoNaN => ~IsNaN(res)

(* soft_f64.h:727: rootn of x < 0 is NaN for even n.                       *)
EvenRoots == Returned("rootn") /\ IsInf(X) /\ X.s = 1 /\ call.n % 2 = 0 => IsNaN(res)

(* soft_f64.h:601: asinh has "NaN -> NaN. No domain restriction."          *)
AsinhEverywhere == Returned("asinh") /\ IsNaN(res) => IsNaN(X)

(* soft_f64.h:601: "asinh(+-0) = +-0".                                     *)
AsinhOfZero == Returned("asinh") /\ IsZero(X) => res = X

(* soft_f64.h:606: acosh has the domain x >= 1.                            *)
AcoshOnDomain == Returned("acosh") /\ ~IsNaN(X) /\ At(X) >= RefOne => ~IsNaN(res)

(* soft_f64.h:531: atan2 returns an angle in [-pi, pi].                    *)
Atan2OfNumbers == Returned("atan2") /\ NoNaN => ~IsNaN(res)

(* soft_f64.h:775: lgamma_r stores "0 on NaN/poles", and gamma has a pole  *)
(* in zero, where it is infinite.                                          *)
GammaSignOfZero == Returned("lgamma_r") /\ IsZero(X) => sign = 0

(* The header's table of special cases, as far as the code leaves it.      *)
SleefAsDocumented ==
  /\ PowOfInfinities
  /\ PowOfPositives
  /\ EvenRoots
  /\ AsinhEverywhere
  /\ AsinhOfZero
  /\ AcoshOnDomain
  /\ Atan2OfNumbers
  /\ GammaSignOfZero
=============================================================================

------------------------------ MODULE Sleef64 ------------------------------
(***************************************************************************)
(* The elementary functions as operations of one caller, beside sf64_rem   *)
(* of Rem64: fmod and remainder of Remainder64, which take a step per      *)
(* iteration, and the functions that Native64 brings together, each one    *)
(* step from operands to outcome.                                          *)
(***************************************************************************)
EXTENDS Rem64

CONSTANTS FrameBits, ScaleClamp,                  \* see FmaRne, Classify64
          Sample, Bound, LiftBits, IntMin, IntMax \* and Kernel64

(* A kernel returns a magnitude; a lifted subnormal number is normal.      *)
ASSUME SleefAssumption ==
  /\ Sample \subseteq {v \in Values : v.s = 0 /\ ~IsNaN(v)}
  /\ LiftBits > FracBits

(* The tables of the arithmetic that DoubleDouble leaves open.             *)
LOCAL Copies == INSTANCE ArithRne
Tabulated(Op(_, _)) ==
  CHOOSE f \in {[x \in Values |-> [y \in Values |-> Op(x, y).res]]} :
    f \in [Values -> [Values -> Values]]
Sums == Tabulated(Copies!AddRne)
Products == Tabulated(Copies!MulRne)
Quotients == Tabulated(Copies!DivRne)
Roots == [v \in Values |-> Copies!SqrtRne(v).res]

LOCAL Lib == INSTANCE Native64

VARIABLES call,   \* the operation
          rest,   \* what fmod and remainder have left of the dividend
          part,   \* the value stored through a pointer
          sign    \* the sign lgamma_r stores through its own

sleefVars == <<vars, call, rest, part, sign>>

(* An operation with the rest of its operands, an integer exponent and the *)
(* place of the first operand on the circle, and with the build's options: *)
(* whether it is called through the OpenCL wrapper of a build that flushes *)
(* subnormal numbers, and SOFT_FP64_SNAN_PROPAGATE.                        *)
Call(op, n, angle, ftz, propagate) ==
  [op |-> op, n |-> n, angle |-> angle, ftz |-> ftz, propagate |-> propagate]

SleefInit == /\ Init
             /\ call \in [op : STRING, n : Int, angle : Int, ftz : BOOLEAN, propagate : BOOLEAN]
             /\ rest = SignedZero(0) /\ part = SignedZero(0) /\ sign = 0

Entering(op) == pc = "enter" /\ call.op = op

(* What a wrapper hands in and out: sf64_ocl_name(x) is                    *)
(* ocl_out(sf64_name(ocl_in(x))), values stored through pointers included. *)
X == Lib!ocl_in(call.ftz, a)
Y == Lib!ocl_in(call.ftz, b)
Out(v) == Lib!ocl_out(call.ftz, v)

Return(op, outcomes) ==
  /\ Entering(op)
  /\ \E o \in outcomes : Done(Out(o.res), o.fe)
  /\ UNCHANGED <<call, rest, part, sign>>

OfOne(op, function(_)) == \E x \in {X} : Return(op, function(x))
OfTwo(op, function(_, _)) == \E x \in {X}, y \in {Y} : Return(op, function(x, y))

ReturnTwo(op, outcomes) ==
  /\ Entering(op)
  /\ \E o \in outcomes : Done(Out(o.res), o.fe) /\ part' = Out(o.part)
  /\ UNCHANGED <<call, rest, sign>>

---------------------------------------------------------------------------
EnteringDivision == pc = "enter" /\ call.op \in {"fmod", "remainder"}

SpecialDivision ==
  /\ EnteringDivision /\ Lib!IsDivisionSpecial(a, b)
  /\ LET o == Lib!DivisionSpecial(call.propagate, a, b) IN Done(o.res, o.fe)
  /\ UNCHANGED <<call, rest>>

StartDivision ==
  /\ EnteringDivision /\ ~Lib!IsDivisionSpecial(a, b)
  /\ IF Lib!Below(a, b) THEN pc' = "divided" /\ rest' = a /\ UNCHANGED k
     ELSE pc' = "division" /\ rest' = [a EXCEPT !.s = 0] /\ k' = Lib!FirstMultiple(a, b)
  /\ UNCHANGED <<a, b, sigA, fe, res, call>>

(* The multiple is subtracted when it fits, down to |y| * 2^0.             *)
SubtractMultiple ==
  /\ pc = "division" /\ k >= 0
  /\ \E multiple \in {Lib!Multiple(b, k)} : rest' = Lib!Reduce(rest, multiple)
  /\ k' = k - 1
  /\ UNCHANGED <<a, b, pc, sigA, fe, res, call>>

EndDivision ==
  /\ pc = "division" /\ k < 0
  /\ pc' = "divided" /\ rest' = Lib!SignedLike(a, rest)
  /\ UNCHANGED <<a, b, k, sigA, fe, res, call>>

sf64_fmod == /\ pc = "divided" /\ call.op = "fmod"
             /\ Done(rest, {}) /\ UNCHANGED <<call, rest>>
sf64_remainder == /\ pc = "divided" /\ call.op = "remainder"
                  /\ Done(Lib!Nearest(a, b, rest), {}) /\ UNCHANGED <<call, rest>>
sf64_rem == call.op = "rem" /\ Next /\ UNCHANGED <<call, rest>>

Division ==
  /\ \/ sf64_rem \/ SpecialDivision \/ StartDivision
     \/ SubtractMultiple \/ EndDivision \/ sf64_fmod \/ sf64_remainder
  /\ UNCHANGED <<part, sign>>

---------------------------------------------------------------------------
Exp == OfOne("exp", Lib!sf64_exp)
Exp2 == OfOne("exp2", Lib!sf64_exp2)
Exp10 == OfOne("exp10", Lib!sf64_exp10)
Expm1 == OfOne("expm1", Lib!sf64_expm1)
Log == OfOne("log", Lib!sf64_log)
Log2 == OfOne("log2", Lib!sf64_log2)
Log10 == OfOne("log10", Lib!sf64_log10)
Log1p == OfOne("log1p", Lib!sf64_log1p)
Sinh == OfOne("sinh", Lib!sf64_sinh)
Cosh == OfOne("cosh", Lib!sf64_cosh)
Tanh == OfOne("tanh", Lib!sf64_tanh)
Asinh == OfOne("asinh", Lib!sf64_asinh)
Acosh == OfOne("acosh", Lib!sf64_acosh)
Atanh == OfOne("atanh", Lib!sf64_atanh)
Erf == OfOne("erf", Lib!sf64_erf)
Erfc == OfOne("erfc", Lib!sf64_erfc)
Tgamma == OfOne("tgamma", Lib!sf64_tgamma)
Lgamma == OfOne("lgamma", Lib!sf64_lgamma)
Cbrt == OfOne("cbrt", Lib!sf64_cbrt)
LgammaR ==
  /\ Entering("lgamma_r")
  /\ \E x \in {X} : \E o \in Lib!sf64_lgamma_r(x) : Done(Out(o.res), o.fe) /\ sign' = o.part
  /\ UNCHANGED <<call, rest, part>>
Pow == OfTwo("pow", Lib!sf64_pow)
Powr == OfTwo("powr", Lib!sf64_powr)
Pown == \E x \in {X} : Return("pown", Lib!sf64_pown(x, call.n))
Rootn == \E x \in {X} : Return("rootn", Lib!sf64_rootn(x, call.n))

Sinpi == OfOne("sinpi", Lib!sf64_sinpi)
Cospi == OfOne("cospi", Lib!sf64_cospi)
Tanpi == OfOne("tanpi", Lib!sf64_tanpi)
Asin == OfOne("asin", Lib!sf64_asin)
Acos == OfOne("acos", Lib!sf64_acos)
Atan == OfOne("atan", Lib!sf64_atan)
Asinpi == OfOne("asinpi", Lib!sf64_asinpi)
Acospi == OfOne("acospi", Lib!sf64_acospi)
Atanpi == OfOne("atanpi", Lib!sf64_atanpi)
Atan2 == OfTwo("atan2", Lib!sf64_atan2)
Atan2pi == OfTwo("atan2pi", Lib!sf64_atan2pi)
Sin == \E x \in {X} : Return("sin", Lib!sf64_sin(x, call.angle))
Cos == \E x \in {X} : Return("cos", Lib!sf64_cos(x, call.angle))
Tan == \E x \in {X} : Return("tan", Lib!sf64_tan(x, call.angle))
Sincos == \E x \in {X} : ReturnTwo("sincos", Lib!sf64_sincos(x, call.angle))

NativeSin == Return("native_sin", Lib!sf64_native_sin(call.ftz, a, call.angle))
NativeCos == Return("native_cos", Lib!sf64_native_cos(call.ftz, a, call.angle))
NativeTan == Return("native_tan", Lib!sf64_native_tan(call.ftz, a, call.angle))
NativeExp == Return("native_exp", Lib!sf64_native_exp(call.ftz, a))
NativeExp2 == Return("native_exp2", Lib!sf64_native_exp2(call.ftz, a))
NativeExp10 == Return("native_exp10", Lib!sf64_native_exp10(call.ftz, a))
NativeLog == Return("native_log", Lib!sf64_native_log(call.ftz, a))
NativeLog2 == Return("native_log2", Lib!sf64_native_log2(call.ftz, a))
NativeLog10 == Return("native_log10", Lib!sf64_native_log10(call.ftz, a))
NativeSqrt == Return("native_sqrt", Lib!sf64_native_sqrt(call.ftz, a))
NativeRsqrt == Return("native_rsqrt", Lib!sf64_native_rsqrt(call.ftz, a))
NativeRecip == Return("native_recip", Lib!sf64_native_recip(call.ftz, a))
NativeDivide == Return("native_divide", Lib!sf64_native_divide(call.ftz, a, b))
NativePowr == Return("native_powr", Lib!sf64_native_powr(call.ftz, a, b))

(* The double-double sum and product of two values: hi and lo.             *)
Pair(d) == {[res |-> d.hi, part |-> d.lo, fe |-> {}]}
Ddadd2 == ReturnTwo("ddadd2", Pair(Lib!ddadd2_dd_d_d(a, b)))
Ddmul == ReturnTwo("ddmul", Pair(Lib!ddmul_dd_d_d(a, b)))

SleefNext ==
  \/ Division
  \/ Exp \/ Exp2 \/ Exp10 \/ Expm1
  \/ Log \/ Log2 \/ Log10 \/ Log1p
  \/ Sinh \/ Cosh \/ Tanh \/ Asinh
  \/ Acosh \/ Atanh \/ Erf \/ Erfc
  \/ Tgamma \/ Lgamma \/ Cbrt \/ LgammaR
  \/ Pow \/ Powr \/ Pown \/ Rootn
  \/ Sinpi \/ Cospi \/ Tanpi \/ Asin
  \/ Acos \/ Atan \/ Asinpi \/ Acospi
  \/ Atanpi \/ Atan2 \/ Atan2pi \/ Sin
  \/ Cos \/ Tan \/ Sincos \/ NativeSin
  \/ NativeCos \/ NativeTan \/ NativeExp \/ NativeExp2
  \/ NativeExp10 \/ NativeLog \/ NativeLog2 \/ NativeLog10
  \/ NativeSqrt \/ NativeRsqrt \/ NativeRecip \/ NativeDivide \/ NativePowr
  \/ Ddadd2 \/ Ddmul

(* The caller waits for the result: a loop runs on until it returns.       *)
SleefSpec == SleefInit /\ [][SleefNext]_sleefVars /\ WF_sleefVars(Division)

(* The loops end: sf64_rem's returns early or when k reaches zero, that of *)
(* fmod and remainder when k falls below zero.                             *)
LoopsEnd == (call.op \in {"rem", "fmod", "remainder"}) ~> (pc = "done")
=============================================================================

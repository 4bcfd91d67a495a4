------------------------------ MODULE Arith64 ------------------------------
(***************************************************************************)
(* sf64_add_r, sf64_sub_r, sf64_mul_r and sf64_div_r of                    *)
(* src/src/arithmetic.cpp: one call, from the operands to the result and   *)
(* the flags, in the steps of the code: NaN, infinite and zero operands    *)
(* first, then the magnitudes are combined into a working exponent and     *)
(* significand, and round_and_pack turns these into a value.               *)
(***************************************************************************)
EXTENDS Pack64, Reference64

VARIABLES call,   \* the operation, the rounding mode and the operands, and
                  \* whether the build has SOFT_FP64_SNAN_PROPAGATE
          pc,     \* "enter", "round", "done"
          z,      \* working sign, exponent and significand
          fe,     \* flags in the accumulator
          res     \* the result

vars == <<call, pc, z, fe, res>>

(* A product of significands is shifted right to reach the working layout. *)
ASSUME ProductAssumption == FracBits >= GuardBits

(* The exact product or quotient of two magnitudes, which the results are  *)
(* compared with, is scaled by powers of two of the table.                 *)
ASSUME TableAssumption == MaxShift >= 2 * FracBits + 3 * Bias

Ops == {"add", "sub", "mul", "div"}

NoWork == [sign |-> 0, exp |-> 0, sig |-> 0]

(* Only a subtraction depends on the policy.                               *)
Calls == [op : Ops, mode : Modes, a : Values, b : Values, propagate : {FALSE}]
           \cup [op : {"sub"}, mode : Modes, a : Values, b : Values, propagate : {TRUE}]

Init ==
  /\ call \in Calls
  /\ pc = "enter"
  /\ z = NoWork
  /\ fe = {} /\ res = SignedZero(0)

---------------------------------------------------------------------------
(* Operands.  sf64_sub is an addition of the negated second operand; with  *)
(* the propagate policy NaNs are dispatched before it is negated.          *)

A == call.a
B == IF call.op = "sub" THEN Neg(call.b) ELSE call.b
NaNB == IF call.propagate THEN call.b ELSE B

Additive == call.op \in {"add", "sub"}
ResultSign == (A.s + B.s) % 2
Finite == ~IsNaN(A) /\ ~IsNaN(B) /\ ~IsInf(A) /\ ~IsInf(B)

Done(v, flags) == /\ pc' = "done" /\ res' = v /\ fe' = fe \cup flags
                  /\ UNCHANGED <<call, z>>

NaNOperand ==
  /\ pc = "enter" /\ (IsNaN(A) \/ IsNaN(B))
  /\ Done(PropagateNaN(A, NaNB), IF IsSNaN(A) \/ IsSNaN(B) THEN {"invalid"} ELSE {})

InfiniteSum ==
  /\ pc = "enter" /\ Additive /\ ~IsNaN(A) /\ ~IsNaN(B) /\ (IsInf(A) \/ IsInf(B))
  /\ IF IsInf(A) /\ IsInf(B) /\ A.s # B.s
     THEN Done(CanonicalNaN, {"invalid"})
     ELSE Done(SignedInf(IF IsInf(A) THEN A.s ELSE B.s), {})

InfiniteProduct ==
  /\ pc = "enter" /\ call.op = "mul" /\ ~IsNaN(A) /\ ~IsNaN(B) /\ (IsInf(A) \/ IsInf(B))
  /\ IF IsZero(A) \/ IsZero(B) THEN Done(CanonicalNaN, {"invalid"})
                               ELSE Done(SignedInf(ResultSign), {})

InfiniteQuotient ==
  /\ pc = "enter" /\ call.op = "div" /\ ~IsNaN(A) /\ ~IsNaN(B) /\ (IsInf(A) \/ IsInf(B))
  /\ IF IsInf(A) /\ IsInf(B) THEN Done(CanonicalNaN, {"invalid"})
     ELSE Done(IF IsInf(A) THEN SignedInf(ResultSign) ELSE SignedZero(ResultSign), {})

(* The sign of a sum of zeros of different signs, or of a cancellation.    *)
ZeroSign == IF call.mode = "RDN" THEN 1 ELSE 0

ZeroSum ==
  /\ pc = "enter" /\ Additive /\ Finite /\ (IsZero(A) \/ IsZero(B))
  /\ Done(IF IsZero(A) /\ IsZero(B) THEN SignedZero(IF A.s = B.s THEN A.s ELSE ZeroSign)
          ELSE IF IsZero(A) THEN B ELSE A, {})

ZeroProduct ==
  /\ pc = "enter" /\ call.op = "mul" /\ Finite /\ (IsZero(A) \/ IsZero(B))
  /\ Done(SignedZero(ResultSign), {})

ZeroQuotient ==
  /\ pc = "enter" /\ call.op = "div" /\ Finite /\ (IsZero(A) \/ IsZero(B))
  /\ CASE IsZero(A) /\ IsZero(B)  -> Done(CanonicalNaN, {"invalid"})
       [] ~IsZero(A) /\ IsZero(B) -> Done(SignedInf(ResultSign), {"divbyzero"})
       [] OTHER                   -> Done(SignedZero(ResultSign), {})

---------------------------------------------------------------------------
(* Magnitudes.                                                             *)

Nonzero == pc = "enter" /\ Finite /\ ~IsZero(A) /\ ~IsZero(B)

Working(sign, exp, sig) == /\ pc' = "round"
                           /\ z' = [sign |-> sign, exp |-> exp, sig |-> sig]
                           /\ UNCHANGED <<call, fe, res>>

Larger(x, y) == x.exp > y.exp \/ (x.exp = y.exp /\ x.sig > y.sig)

(* The significand of the operand of smaller exponent, aligned to exp.     *)
Aligned(x, exp) == ShiftRightJamming(x.sig, exp - x.exp)

AddMagnitudes ==
  /\ Nonzero /\ Additive /\ A.s = B.s
  /\ LET ua == Unpack(A)
         ub == Unpack(B)
         exp == IF ua.exp >= ub.exp THEN ua.exp ELSE ub.exp
         sum == Aligned(ua, exp) + Aligned(ub, exp)
     IN  IF BitSet(sum, ImplicitAt + 1)
         THEN Working(A.s, exp + 1, ShiftRightJamming(sum, 1))
         ELSE Working(A.s, exp, sum)

SubMagnitudes ==
  /\ Nonzero /\ Additive /\ A.s # B.s
  /\ LET ua == Unpack(A)
         ub == Unpack(B)
         big == IF Larger(ub, ua) THEN ub ELSE ua
         small == IF Larger(ub, ua) THEN ua ELSE ub
         diff == big.sig - Aligned(small, big.exp)
         shift == Clz(diff) - 2
     IN  IF diff = 0
         THEN Done(SignedZero(ZeroSign), {})
         ELSE Working(IF Larger(ub, ua) THEN 1 - A.s ELSE A.s, big.exp - shift, diff * Pow2[shift])

(* The product of two significands has its highest bit at 2 FracBits + 1   *)
(* or one below.                                                           *)
Multiply ==
  /\ Nonzero /\ call.op = "mul"
  /\ LET ua == Unpack(A)
         ub == Unpack(B)
         product == (ua.sig \div Pow2[GuardBits]) * (ub.sig \div Pow2[GuardBits])
         carry == BitSet(product, 2 * FracBits + 1)
         shift == FracBits - GuardBits + (IF carry THEN 1 ELSE 0)
     IN  Working(ResultSign, ua.exp + ub.exp - Bias + (IF carry THEN 1 ELSE 0),
                 OrSticky(product \div Pow2[shift], product % Pow2[shift] # 0))

Divide ==
  /\ Nonzero /\ call.op = "div"
  /\ LET ua == Unpack(A)
         ub == Unpack(B)
         sigA == ua.sig \div Pow2[GuardBits]
         sigB == ub.sig \div Pow2[GuardBits]
         smaller == sigA < sigB
         num == (IF smaller THEN 2 * sigA ELSE sigA) * Pow2[FracBits + 3]
         exp == ua.exp - ub.exp + Bias - (IF smaller THEN 1 ELSE 0)
         sig == OrSticky((num \div sigB) * Pow2[GuardBits - 3], num % sigB # 0)
     IN  IF BitSet(sig, ImplicitAt + 1)
         THEN Working(ResultSign, exp + 1, ShiftRightJamming(sig, 1))
         ELSE Working(ResultSign, exp, sig)

---------------------------------------------------------------------------
Round ==
  /\ pc = "round"
  /\ LET r == RoundAndPack(z.sign, z.exp, z.sig, call.mode) IN Done(r.res, r.fe)

---------------------------------------------------------------------------
Next == \/ NaNOperand
        \/ InfiniteSum \/ InfiniteProduct \/ InfiniteQuotient
        \/ ZeroSum \/ ZeroProduct \/ ZeroQuotient
        \/ AddMagnitudes \/ SubMagnitudes \/ Multiply \/ Divide
        \/ Round

Spec == Init /\ [][Next]_vars

---------------------------------------------------------------------------
TypeOK ==
  /\ call \in Calls
  /\ pc \in {"enter", "round", "done"}
  /\ z \in [sign : {0, 1}, exp : Int, sig : Nat]
  /\ fe \subseteq FlagSet
  /\ res \in Values

(* Whatever the operands (subnormal, far apart, almost cancelling), the    *)
(* significand handed to round_and_pack has its highest bit at ImplicitAt, *)
(* as the layout comment of arithmetic.cpp says: neither a lost carry nor  *)
(* a missed normalisation, with at least two sticky bits below it.         *)
Normalised ==
  pc = "round" => z.sig >= Pow2[ImplicitAt] /\ z.sig < Pow2[ImplicitAt + 1]

---------------------------------------------------------------------------
(* The result and flags IEEE 754 prescribes for the call.                  *)
Expected ==
  CASE call.op = "add" -> Ref!Add(call.a, call.b, call.mode)
    [] call.op = "sub" -> Ref!Subtract(call.a, call.b, call.mode)
    [] call.op = "mul" -> Ref!Multiply(call.a, call.b, call.mode)
    [] call.op = "div" -> Ref!Divide(call.a, call.b, call.mode)

(* The sign of a propagated NaN is prescribed only by the propagate policy. *)
Agree(v, w) ==
  v = w \/ (~call.propagate /\ IsNaN(v) /\ IsNaN(w) /\ v.f = w.f)

(* sf64_{add,sub,mul,div}_r return the correctly rounded value, whatever   *)
(* the operands, in each of the five modes; so neither the jammed          *)
(* alignment nor the single rounding of subnormal results loses a bit that *)
(* the result depends on.                                                  *)
CorrectlyRounded == pc = "done" => Agree(res, Expected.res)

(* The flags raised are exactly the ones IEEE 754 asks for, with tininess  *)
(* detected before rounding (round_and_pack of arithmetic.cpp).            *)
ExactFlags == pc = "done" => fe = Expected.fe

(* internal_arith.h:20: the inlined copies are "Bits-in-bits-out identical *)
(* for every input" to the round-to-nearest-even mode; flags too.          *)
RneIdentical ==
  (pc = "done" /\ call.mode = "RNE") =>
     [res |-> res, fe |-> fe] =
        CASE call.op = "add" -> Rne!AddRne(call.a, call.b)
          [] call.op = "sub" -> Rne!SubRne(call.a, call.b, call.propagate)
          [] call.op = "mul" -> Rne!MulRne(call.a, call.b)
          [] call.op = "div" -> Rne!DivRne(call.a, call.b)
=============================================================================

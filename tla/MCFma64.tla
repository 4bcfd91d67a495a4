------------------------------ MODULE MCFma64 ------------------------------
(* Fma64 on a small format, against the exact sum of IEEE754 rounded once  *)
(* and against the copy of internal_arith.h.                               *)
EXTENDS Fma64

MCPow2 == [n \in 0..MaxShift |-> 2 ^ n]

(* The factors have the least, the greatest and the middle exponents, where *)
(* products are tiny, huge, or comparable with the addend, which is any    *)
(* value.  The first is positive, the second too unless its exponent is    *)
(* the middle one or it is a zero or an infinity.                          *)
First == {v \in Values : v.s = 0 /\ v.e \in {0, Bias, ExpMax - 1, ExpMax}}
Second == {v \in Values : /\ v.e \in {0, Bias, ExpMax - 1, ExpMax}
                          /\ v.s = 0 \/ v.e = Bias \/ IsZero(v) \/ IsInf(v)}

MCInit == /\ a \in First /\ b \in Second /\ c \in Values /\ mode \in Modes
          /\ pc = "enter" /\ z = NoFrame
          /\ fe = {} /\ res = SignedZero(0)

MCSpec == MCInit /\ [][Next]_vars
=============================================================================

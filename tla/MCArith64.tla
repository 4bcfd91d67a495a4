----------------------------- MODULE MCArith64 -----------------------------
(* Arith64 on a small format, in each mode.                                *)
EXTENDS Arith64

MCPow2 == [n \in 0..MaxShift |-> 2 ^ n]

(* The first operand has the least, the middle or the greatest exponents,  *)
(* and is positive unless it is a zero or an infinity; the second is any   *)
(* value.  So exponents still differ by more than the width of the word.   *)
First == {v \in Values : /\ v.e \in {0, 1, Bias, ExpMax - 1, ExpMax}
                         /\ v.s = 0 \/ IsZero(v) \/ IsInf(v)}

MCCalls == [op : Ops, mode : Modes, a : First, b : Values, propagate : {FALSE}]
             \cup [op : {"sub"}, mode : {"RNE", "RDN"}, a : First, b : Values, propagate : {TRUE}]

MCInit == /\ call \in MCCalls
          /\ pc = "enter" /\ z = NoWork
          /\ fe = {} /\ res = SignedZero(0)

MCSpec == MCInit /\ [][Next]_vars
=============================================================================

----------------------------- MODULE MCSqrt64 -----------------------------
(* Sqrt64 on every operand of a small format in each mode.                 *)
EXTENDS Sqrt64

MCPow2 == [n \in 0..MaxShift |-> 2 ^ n]
=============================================================================

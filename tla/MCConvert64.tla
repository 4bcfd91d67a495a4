---------------------------- MODULE MCConvert64 ----------------------------
(* Convert64 between two small formats and small integers, against exact   *)
(* values.                                                                 *)
EXTENDS Convert64

MCPow2 == [n \in 0..MaxShift |-> 2 ^ n]
=============================================================================

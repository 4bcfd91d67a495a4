------------------------------ MODULE MCOps64 ------------------------------
(* Ops64 on every operand of a small format.                               *)
EXTENDS Ops64

MCPow2 == [n \in 0..MaxShift |-> 2 ^ n]
MCIntMin == -IntMax

---------------------------------------------------------------------------
(* What the documentation says of these entries and the code does not do.  *)

(* soft_f64.h:303-331: "NaN → canonical quiet NaN", of floor, ceil, trunc, *)
(* rint and fract; 183-184, 191 and compare.cpp:16-18, of the precise      *)
(* minimum and maximum; 409, of fmin with two NaNs.                        *)
NaNIsCanonical ==
  /\ (Returned({"floor", "ceil", "trunc", "rint", "fract"}) /\ IsNaN(call.v)) =>
       res = CanonicalNaN
  /\ (Returned({"fmin_precise", "fmax_precise"}) /\ Unordered(call.a, call.b)) =>
       res = CanonicalNaN
  /\ (Returned({"fmin"}) /\ IsNaN(call.a) /\ IsNaN(call.b)) => res = CanonicalNaN

(* soft_f64.h:50-51: "sNaN inputs are quieted on entry and raise INVALID". *)
SignallingSeen ==
  /\ (Returned({"floor", "ceil", "trunc", "round", "rint", "fract", "modf"})
       /\ IsSNaN(call.v)) => ~IsSNaN(res) /\ "invalid" \in fe
  /\ (Returned({"fmin", "fmax", "fmin_precise", "fmax_precise", "fdim", "hypot"})
       /\ (IsSNaN(call.a) \/ IsSNaN(call.b))) => ~IsSNaN(res) /\ "invalid" \in fe

(* soft_f64.h:327-331: fract is "clamped to [0, 1)" and "Exact for finite  *)
(* inputs".                                                                *)
FractExact ==
  (Returned({"fract"}) /\ call.v.e < ExpMax) =>
    /\ Ref!Mag(res) = Ref!Signed(call.v) % RefOne /\ res.s = 0
    /\ "inexact" \notin fe

(* All of it.                                                              *)
OpsAsDocumented == NaNIsCanonical /\ SignallingSeen /\ FractExact
=============================================================================

------------------------------ MODULE MCFenv ------------------------------
(* Small instances of Fenv: the states and the threads are interchangeable. *)
EXTENDS Fenv, TLC

Symmetry == Permutations(Threads) \cup Permutations(States)

(* The rounding mode of a call reaches the flags only through the backend  *)
(* of binary128: the calls of the other families are followed in one mode. *)
ModeOfBackendOnly == \A t \in Threads : call[t].kind # "f128" => call[t].mode = NearEven
=============================================================================

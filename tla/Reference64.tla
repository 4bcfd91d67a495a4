----------------------------- MODULE Reference64 -----------------------------
(***************************************************************************)
(* What the entries of arithmetic.cpp and sqrt_fma.cpp are compared with:  *)
(* IEEE 754 arithmetic by definition, and the round-to-nearest-even copies *)
(* of internal_arith.h.                                                    *)
(***************************************************************************)
EXTENDS Format64

Ref == INSTANCE IEEE754
Rne == INSTANCE ArithRne
=============================================================================

------------------------------- MODULE Loop64 -------------------------------
(***************************************************************************)
(* What a digit-by-digit loop of arithmetic.cpp or sqrt_fma.cpp shares     *)
(* with the other: the place in the code, a loop counter, and what the     *)
(* call delivers.                                                          *)
(***************************************************************************)
VARIABLES pc,   \* "enter", a place within the loop, "done"
          k,    \* iterations or exponent positions to go
          fe,   \* flags raised
          res   \* the result
=============================================================================

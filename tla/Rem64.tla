------------------------------- MODULE Rem64 -------------------------------
(***************************************************************************)
(* sf64_rem of src/src/arithmetic.cpp, the C fmod: a long division of the  *)
(* significands that keeps only the remainder, one exponent position per   *)
(* iteration.  For binary64 the loop can run more than two thousand times. *)
(***************************************************************************)
EXTENDS Pack64, Loop64

VARIABLES a, b,   \* the operands
          sigA    \* what is left of the dividend's significand

vars == <<a, b, pc, sigA, k, fe, res>>

Init == /\ a \in Values /\ b \in Values
        /\ pc = "enter"
        /\ sigA = 0 /\ k = 0
        /\ fe = {} /\ res = SignedZero(0)

(* The significands have their highest bit at FracBits.                    *)
Sig(v) == Unpack(v).sig \div Pow2[GuardBits]
SigB == Sig(b)
Distance == Unpack(a).exp - Unpack(b).exp

Smaller == Distance < 0 \/ (Distance = 0 /\ Sig(a) < SigB)

AnyNaN == IsNaN(a) \/ IsNaN(b)
Undefined == IsInf(a) \/ IsZero(b)

Done(v, flags) == /\ pc' = "done" /\ res' = v /\ fe' = flags
                  /\ UNCHANGED <<a, b, sigA, k>>

NaNOperand ==
  /\ pc = "enter" /\ AnyNaN
  /\ Done(PropagateNaN(a, b), IF IsSNaN(a) \/ IsSNaN(b) THEN {"invalid"} ELSE {})

InvalidOperand ==
  /\ pc = "enter" /\ ~AnyNaN /\ Undefined
  /\ Done(CanonicalNaN, {"invalid"})

(* fmod(x, inf), fmod(0, y) and |a| < |b|: a itself.                       *)
AlreadyReduced ==
  /\ pc = "enter" /\ ~AnyNaN /\ ~Undefined
  /\ IsInf(b) \/ IsZero(a) \/ Smaller
  /\ Done(a, {})

Start ==
  /\ pc = "enter" /\ ~AnyNaN /\ ~Undefined
  /\ ~IsInf(b) /\ ~IsZero(a) /\ ~Smaller
  /\ pc' = "loop" /\ sigA' = Sig(a) /\ k' = Distance
  /\ UNCHANGED <<a, b, fe, res>>

SubtractWhenLarger(x) == IF x > SigB THEN x - SigB ELSE x    \* MUTANT
SubtractWhenFits(x) == IF x >= SigB THEN x - SigB ELSE x

(* On to the next exponent position.                                       *)
ContinueInPlace(r) == pc' = "loop" /\ sigA' = 2 * r /\ k' = k      \* MUTANT
Continue(r) == pc' = "loop" /\ sigA' = 2 * r /\ k' = k - 1

(* One iteration; a remainder of zero is returned at once.                 *)
Iterate ==
  /\ pc = "loop"
  /\ LET r == SubtractWhenFits(sigA) IN
     IF r = 0 THEN Done(SignedZero(a.s), {})
     ELSE /\ IF k = 0 THEN pc' = "normalise" /\ sigA' = r /\ k' = k
                      ELSE Continue(r)
          /\ UNCHANGED <<a, b, fe, res>>

(* The remainder is moved up until its highest bit is at FracBits; the     *)
(* code also has the case of a remainder that must be moved down.          *)
LeftShift(x) == FracBits - (WordBits - 1 - Clz(x))

Normalise ==
  /\ pc = "normalise"
  /\ LET n == LeftShift(sigA)
         sig == IF n < 0 THEN sigA \div Pow2[-n] ELSE sigA * Pow2[n]
         r == RoundAndPack(a.s, Unpack(b).exp - n, sig * Pow2[GuardBits], "RNE")
     IN  Done(r.res, r.fe)

Next == \/ NaNOperand \/ InvalidOperand \/ AlreadyReduced
        \/ Start \/ Iterate \/ Normalise

(* The caller waits for the result: the code runs on until it returns.     *)
Spec == Init /\ [][Next]_vars /\ WF_vars(Next)

---------------------------------------------------------------------------
Unsigned == {n \in Nat : n < Pow2[WordBits]}

TypeOK ==
  /\ a \in Values /\ b \in Values
  /\ pc \in {"enter", "loop", "normalise", "done"}
  /\ sigA \in Unsigned
  /\ k \in 0..(ExpMax + FracBits)
  /\ fe \subseteq FlagSet
  /\ res \in Values

(* The dividend, aligned to the divisor's exponent.                        *)
Dividend == Sig(a) * Pow2[Distance]

(* However many iterations are left, what remains is congruent to the      *)
(* dividend modulo the divisor, and it is less than twice the divisor, so  *)
(* that one subtraction per position is enough and the shift loses no bit  *)
(* (arithmetic.cpp:689-690).  When the loop ends without returning, what   *)
(* remains is the remainder, it is not zero, and it never has to be moved  *)
(* down (the case that "shouldn't happen", arithmetic.cpp:722-723).        *)
RemainderKept ==
  /\ pc = "loop" => /\ sigA < 2 * SigB
                    /\ (sigA * Pow2[k]) % SigB = Dividend % SigB
  /\ pc = "normalise" => /\ sigA = Dividend % SigB
                         /\ sigA > 0 /\ LeftShift(sigA) >= 0
=============================================================================

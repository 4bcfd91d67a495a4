------------------------------ MODULE Sqrt64 ------------------------------
(***************************************************************************)
(* sf64_sqrt_r of src/src/sqrt_fma.cpp: the significand is scaled to an    *)
(* integer of 2 * RootBits bits, isqrt_bits extracts its square root one   *)
(* bit per iteration, and the root is rounded once, the remainder being    *)
(* the sticky bit.                                                         *)
(***************************************************************************)
EXTENDS Pack64, Reference64, Loop64

VARIABLES x, mode,          \* the arguments
          rad, rem, root    \* radicand bits not consumed, remainder, root

rootVars == <<x, mode, pc, rad, rem, root, k, fe, res>>

RootBits == FracBits + 2                       \* kRootBits: 54

(* Half of the exponent of a subnormal number is still a normal exponent.  *)
ASSUME SqrtAssumption == Bias >= FracBits + 1

RootInit == /\ x \in Values /\ mode \in Modes
            /\ pc = "enter"
            /\ rad = 0 /\ rem = 0 /\ root = 0 /\ k = 0
            /\ fe = {} /\ res = SignedZero(0)

Deliver(v, flags) == /\ pc' = "done" /\ res' = v /\ fe' = flags
                     /\ UNCHANGED <<x, mode, rad, rem, root, k>>

---------------------------------------------------------------------------
NaNRoot ==
  /\ pc = "enter" /\ IsNaN(x)
  /\ Deliver(Quiet(x), IF IsSNaN(x) THEN {"invalid"} ELSE {})

NegativeOperand ==
  /\ pc = "enter" /\ ~IsNaN(x) /\ ~IsZero(x) /\ x.s = 1
  /\ Deliver(CanonicalNaN, {"invalid"})

(* +infinity and the two zeros.                                            *)
OwnRoot ==
  /\ pc = "enter" /\ (IsZero(x) \/ (IsInf(x) /\ x.s = 0))
  /\ Deliver(x, {})

Mantissa == Unpack(x).sig \div Pow2[GuardBits]
UnbiasedExp == Unpack(x).exp - Bias

(* (n - 1) / 2 of an odd n and n / 2 of an even one: the floor.            *)
ExpOdd == UnbiasedExp % 2 = 1
HalfExpForgotten == UnbiasedExp                                     \* MUTANT
HalfExp == UnbiasedExp \div 2

RadicandShiftLong == IF ExpOdd THEN FracBits + 4 ELSE FracBits + 3  \* MUTANT
RadicandShift == IF ExpOdd THEN FracBits + 3 ELSE FracBits + 2
Radicand == Mantissa * Pow2[RadicandShift]

StartRoot ==
  /\ pc = "enter" /\ x.s = 0 /\ ~IsNaN(x) /\ ~IsInf(x) /\ ~IsZero(x)
  /\ pc' = "loop"
  /\ rad' = Radicand /\ rem' = 0 /\ root' = 0 /\ k' = RootBits
  /\ UNCHANGED <<x, mode, fe, res>>

---------------------------------------------------------------------------
(* isqrt_bits: the radicand sits at the top of the word, each iteration    *)
(* consumes its two highest bits.                                          *)
NextPair == rad \div Pow2[2 * RootBits - 2]
Extended == 4 * rem + NextPair                 \* (rem << 2) | next_pair
TrialStrict(t) == Extended > t                                      \* MUTANT
Trial(t) == Extended >= t

Digit ==
  /\ pc = "loop"
  /\ LET test == 4 * root + 1 IN
     IF Trial(test) THEN rem' = Extended - test /\ root' = 2 * root + 1
                    ELSE rem' = Extended /\ root' = 2 * root
  /\ rad' = (4 * rad) % Pow2[2 * RootBits]
  /\ k' = k - 1
  /\ pc' = IF k = 1 THEN "round" ELSE "loop"
  /\ UNCHANGED <<x, mode, fe, res>>

---------------------------------------------------------------------------
(* The lowest bit of the root is the round bit.                            *)
Root53 == root \div 2
GuardBit == root % 2 = 1
StickyForgotten == FALSE                                            \* MUTANT
Sticky == rem # 0

RoundedRoot ==
  IF ShouldRoundUp(0, GuardBit, Sticky, Root53 % 2 = 1, mode) THEN Root53 + 1 ELSE Root53

Carry == BitSet(RoundedRoot, FracBits + 1)
NewExp == HalfExp + Bias + (IF Carry THEN 1 ELSE 0)

(* The result, with the two clamps the code keeps "to be defensive".       *)
Clamped(exp, frac) ==
  IF exp >= ExpMax THEN SignedInf(0)
  ELSE IF exp <= 0 THEN SignedZero(0)
  ELSE [s |-> 0, e |-> exp, f |-> frac]

Finish ==
  /\ pc = "round"
  /\ LET sig == IF Carry THEN RoundedRoot \div 2 ELSE RoundedRoot
     IN  Deliver(Clamped(NewExp, sig % ImplicitBit),
              IF GuardBit \/ Sticky THEN {"inexact"} ELSE {})

RootNext == NaNRoot \/ NegativeOperand \/ OwnRoot \/ StartRoot \/ Digit \/ Finish

RootSpec == RootInit /\ [][RootNext]_rootVars

---------------------------------------------------------------------------
RootTypeOK ==
  /\ x \in Values /\ mode \in Modes
  /\ pc \in {"enter", "loop", "round", "done"}
  /\ rad \in Nat /\ rad < Pow2[2 * RootBits]
  /\ rem \in Nat /\ root \in Nat
  /\ k \in 0..RootBits
  /\ fe \subseteq FlagSet
  /\ res \in Values

(* At every iteration the root found so far is the integer square root of  *)
(* the part of the radicand consumed so far and rem is what remains of it, *)
(* so that rem needs one bit more than the root (the comment of isqrt_bits *)
(* at 69-70); when the loop ends all of the radicand is consumed, and the  *)
(* root has exactly the RootBits bits the rounding below assumes.          *)
RootKept ==
  /\ pc = "loop" =>
       /\ rem <= 2 * root
       /\ Radicand * Pow2[2 * (RootBits - k)]
            = (root * root + rem) * Pow2[2 * RootBits] + rad
  /\ pc = "round" =>
       /\ rem <= 2 * root
       /\ Radicand = root * root + rem
       /\ Pow2[RootBits - 1] <= root /\ root < Pow2[RootBits]

(* The clamps are never taken, as sqrt_fma.cpp:302 and :307 say: a root is *)
(* a normal number, also of a subnormal operand and after a carry.         *)
RootIsNormal ==
  pc = "round" => NewExp \in 1..(ExpMax - 1)

(* sf64_sqrt_r returns the correctly rounded root and raises exactly the   *)
(* flags of the standard: one digit beyond the result and a remainder are  *)
(* enough in every mode.                                                   *)
CorrectRoot == pc = "done" => [res |-> res, fe |-> fe] = Ref!Sqrt(x, mode)

(* internal_arith.h:460-461: sf64_sqrt is the "identical algorithm" with   *)
(* the mode folded away.                                                   *)
RneIdentical ==
  (pc = "done" /\ mode = "RNE") => [res |-> res, fe |-> fe] = Rne!SqrtRne(x)
=============================================================================

------------------------------ MODULE Order64 ------------------------------
(***************************************************************************)
(* src/src/compare.cpp and src/src/classify.cpp: the comparison predicates,*)
(* the two families of minimum and maximum, and what is built on them.     *)
(***************************************************************************)
EXTENDS Integral64

(* The words of negative values sort in reverse.  Both files map a word to *)
(* an integer that sorts like its value, -0 just below +0.                 *)
SortKeyUnflipped(v) ==                                              \* MUTANT
  IF v.s = 1 THEN Low(v) - Pow2[FracBits + ExpBits] ELSE Low(v)
SortKey(v) == IF v.s = 1 THEN -1 - Low(v) ELSE Low(v)

OrderedLt(a, b) == ~(IsZero(a) /\ IsZero(b)) /\ SortKey(a) < SortKey(b)
OrderedEq(a, b) == a = b \/ (IsZero(a) /\ IsZero(b))

Unordered(a, b) == IsNaN(a) \/ IsNaN(b)

(* LLVM's predicates: 1 to 6 are false of NaNs, 9 to 14 the same relations *)
(* but true of them; anything else than 0 to 15 is false.                  *)
Relation(pred, a, b) ==
  CASE pred = 0 -> FALSE
    [] pred = 1 -> OrderedEq(a, b)
    [] pred = 2 -> OrderedLt(b, a)
    [] pred = 3 -> ~OrderedLt(a, b)
    [] pred = 4 -> OrderedLt(a, b)
    [] pred = 5 -> ~OrderedLt(b, a)
    [] pred = 6 -> ~OrderedEq(a, b)
    [] pred = 7 -> TRUE

Fcmp(pred, a, b) ==
  IF pred \in 0..7 THEN ~Unordered(a, b) /\ Relation(pred, a, b)
  ELSE pred \in 8..15 /\ (Unordered(a, b) \/ Relation(pred - 8, a, b))

FminPrecise(a, b) ==
  IF Unordered(a, b) THEN PropagateNaN(a, b)
  ELSE IF IsZero(a) /\ IsZero(b) THEN SignedZero(IF a.s = 1 \/ b.s = 1 THEN 1 ELSE 0)
  ELSE IF OrderedLt(a, b) THEN a ELSE b

FmaxPrecise(a, b) ==
  IF Unordered(a, b) THEN PropagateNaN(a, b)
  ELSE IF IsZero(a) /\ IsZero(b) THEN SignedZero(IF a.s = 0 \/ b.s = 0 THEN 0 ELSE 1)
  ELSE IF OrderedLt(a, b) THEN b ELSE a

---------------------------------------------------------------------------
BitLess(a, b) == SortKey(a) < SortKey(b)

Fabs(v) == [v EXCEPT !.s = 0]
Copysign(v, w) == [v EXCEPT !.s = w.s]

Fmin(a, b) ==
  IF IsNaN(a) THEN b
  ELSE IF IsNaN(b) THEN a
  ELSE IF IsZero(a) /\ IsZero(b) THEN IF a.s = 0 /\ b.s = 1 THEN b ELSE a
  ELSE IF BitLess(a, b) THEN a ELSE b

Fmax(a, b) ==
  IF IsNaN(a) THEN b
  ELSE IF IsNaN(b) THEN a
  ELSE IF IsZero(a) /\ IsZero(b) THEN IF a.s = 0 THEN a ELSE b
  ELSE IF BitLess(a, b) THEN b ELSE a

Fdim(a, b) ==
  IF Unordered(a, b) THEN Quietly(CanonicalNaN)
  ELSE IF BitLess(b, a) THEN Subtract(a, b)
  ELSE Quietly(SignedZero(0))

Maxmag(a, b) ==
  IF IsNaN(a) THEN b
  ELSE IF IsNaN(b) THEN a
  ELSE IF BitLess(Fabs(b), Fabs(a)) THEN a
  ELSE IF BitLess(Fabs(a), Fabs(b)) THEN b
  ELSE Fmax(a, b)

Minmag(a, b) ==
  IF IsNaN(a) THEN b
  ELSE IF IsNaN(b) THEN a
  ELSE IF BitLess(Fabs(a), Fabs(b)) THEN a
  ELSE IF BitLess(Fabs(b), Fabs(a)) THEN b
  ELSE Fmin(a, b)

NextafterUnsigned(x, y) ==                                          \* MUTANT
  IF Unordered(x, y) THEN CanonicalNaN
  ELSE IF (IsZero(x) /\ IsZero(y)) \/ x = y THEN y
  ELSE IF IsZero(x) THEN WithLow(y.s, 1)
  ELSE WithLow(x.s, IF BitLess(x, y) THEN Low(x) + 1 ELSE Low(x) - 1)

(* One step of the word, away from zero if y lies in that direction.       *)
Nextafter(x, y) ==
  IF Unordered(x, y) THEN CanonicalNaN
  ELSE IF (IsZero(x) /\ IsZero(y)) \/ x = y THEN y
  ELSE IF IsZero(x) THEN WithLow(y.s, 1)
  ELSE WithLow(x.s, IF (x.s = 0) = BitLess(x, y) THEN Low(x) + 1 ELSE Low(x) - 1)

(* The magnitudes hypot scales by and divides.                             *)
LargerFirst(a, b) == Fabs(a)                                        \* MUTANT
Larger(a, b) == IF BitLess(Fabs(a), Fabs(b)) THEN Fabs(b) ELSE Fabs(a)
Smaller(a, b) == IF BitLess(Fabs(a), Fabs(b)) THEN Fabs(a) ELSE Fabs(b)
=============================================================================

------------------------------- MODULE Trig64 -------------------------------
(***************************************************************************)
(* Trigonometric functions: src/src/sleef/sleef_trig.cpp, and the inverses *)
(* of sleef_inv_hyp_pow.cpp and sleef_special.cpp.                         *)
(*                                                                         *)
(* What the forward functions reduce is the angle of d on the circle,      *)
(* which pi makes unrelated to the digits of d: it is a second argument,   *)
(* an odd number of 32nds of a turn, in either direction (no double is a   *)
(* multiple of pi/2 but zero).  A reduction subtracts a multiple next to   *)
(* the nearest: the quotient is rounded before it is an integer.           *)
(***************************************************************************)
EXTENDS Kernel64

Pi == 16                 \* half a turn, in those units
HalfPi == 8
QuarterPi == 4

(* The integers n with angle / unit rounding to n, the angle being off by  *)
(* at most one.                                                            *)
Nearby(angle, unit) ==
  {n \in -9..9 : LET s == angle - n * unit IN -(unit + 2) <= 2 * s /\ 2 * s <= unit + 2}

(* sin of an angle in [-pi/2, pi/2], and a little beyond.                  *)
SineNear(s) ==
  IF s = 0 THEN {Zero}
  ELSE OfSign(IF s < 0 THEN 1 ELSE 0,
              IF -QuarterPi < s /\ s < QuarterPi THEN Sampled(Least, Bound.root_half)
              ELSE Sampled(Bound.root_half, One))

(* rempi_: the angle less q quarter turns; q is kept modulo four, on a     *)
(* two's complement integer that the two rounding steps add up.            *)
Rempi(angle) ==
  {[s |-> angle - (n * HalfPi), q |-> n % 4] : n \in Nearby(angle, HalfPi)}

(* A quarter turn, of the sign of the rest, out of the rest.               *)
QuarterOff(s) == IF s > 0 THEN s - HalfPi ELSE s + HalfPi
Positive(s) == IF s > 0 THEN 1 ELSE 0

(* The rest and the quotient whose parity flips the sign: by subtracting   *)
(* multiples of pi (small and middle arguments), or from rempi.            *)
SinDirect(angle) == {[s |-> angle - (n * Pi), ql |-> n] : n \in Nearby(angle, Pi)}
SinReduced(angle) ==
  {[s |-> IF r.q % 2 = 1 THEN QuarterOff(r.s) ELSE r.s,
    ql |-> ((r.q * 2) + Positive(r.s) + 1) \div 4] : r \in Rempi(angle)}

sf64_sin(d, angle) ==
  IF IsNaN(d) \/ IsInf(d) THEN Early(NaN)
  ELSE IF IsZero(d) THEN Flushed({d})
  ELSE Flushed(UNION {Negated(r.ql % 2 = 1, SineNear(r.s)) :
                        r \in SinDirect(angle) \cup SinReduced(angle)})

(* cos as a sine: odd quotients of pi/2, of the magnitude of d.            *)
CosDirect(angle) ==
  {[s |-> angle - (((2 * n) + 1) * HalfPi), ql |-> (2 * n) + 1] :
     n \in Nearby(angle - HalfPi, Pi)}

(* MUTANT of CosReduced: the offset of the sine.                           *)
CosReducedAsSin(angle) ==
  {[s |-> IF r.q % 2 = 0 THEN QuarterOff(r.s) ELSE r.s,
    ql |-> ((r.q * 2) + Positive(r.s) + 1) \div 2] : r \in Rempi(angle)}
CosReduced(angle) ==
  {[s |-> IF r.q % 2 = 0 THEN QuarterOff(r.s) ELSE r.s,
    ql |-> ((r.q * 2) + Positive(r.s) + 7) \div 2] : r \in Rempi(angle)}

Magnitude(angle) == IF angle < 0 THEN -angle ELSE angle

sf64_cos(d, angle) ==
  IF IsNaN(d) \/ IsInf(d) THEN Early(NaN)
  ELSE IF IsZero(d) THEN Flushed({One})
  ELSE LET a == Magnitude(angle)
       IN  Flushed(UNION {Negated((r.ql \div 2) % 2 = 0, SineNear(r.s)) :
                            r \in CosDirect(a) \cup CosReduced(a)})

sf64_sincos(d, angle) ==
  {[res |-> s.res, part |-> c.res, fe |-> s.fe \cup c.fe] :
     s \in sf64_sin(d, angle), c \in sf64_cos(d, angle)}

(* tan of the rest, or -1/tan when the quotient is odd.                    *)
TangentNear(s, odd) ==
  LET small == -QuarterPi < s /\ s < QuarterPi
      below == Sampled(Least, Bound.root_half)
      above == Sampled(Bound.root_two, MaxFinite(0))
  IN  OfSign(IF (s < 0) = odd THEN 0 ELSE 1, IF small = odd THEN above ELSE below)

sf64_tan(d, angle) ==
  IF IsNaN(d) \/ IsInf(d) THEN Early(NaN)
  ELSE IF IsZero(d) THEN Flushed({d})
  ELSE Flushed(UNION {TangentNear(r.s, r.q % 2 = 1) : r \in Rempi(angle)})

---------------------------------------------------------------------------
(* sin(pi x) and the like of an x with a fraction left; what is clamped is *)
(* already an integer or too long for the octants.                         *)
Clamped_(x) == gt_(abs_(x), Bound.sinpi_clamp)

sf64_sinpi(x) ==
  IF IsNaN(x) \/ IsInf(x) THEN Early(NaN)
  ELSE IF Clamped_(x) THEN Early(Zero)
  ELSE Flushed(IF x = Neg(Zero) THEN {x} ELSE sinpi_core(x))

sf64_cospi(x) ==
  IF IsNaN(x) \/ IsInf(x) THEN Early(NaN)
  ELSE IF Clamped_(x) THEN Early(One)
  ELSE Flushed(cospi_core(x))

sf64_tanpi(x) ==
  IF IsNaN(x) \/ IsInf(x) THEN Early(NaN)
  ELSE IF Clamped_(x) THEN Early(Zero)
  ELSE Flushed({IF IsZero(c) THEN SignedInf(s.s)
                ELSE dd_to_d(dddiv_dd_dd_dd(dd(s, Zero), dd(c, Zero))) :
                  s \in sinpi_core(x), c \in cospi_core(x)})

---------------------------------------------------------------------------
(* The angle x + x^3 p of a sine x below 1/2, and pi/2 less twice that of  *)
(* the half angle above.                                                   *)
PiDD == dd(Bound.pi_hi, Bound.pi_lo)
HalfPiDD == dd(mul_(Bound.pi_hi, Half), mul_(Bound.pi_lo, Half))
Tail == Sampled(Zero, Half)

ArcSeries(x, x2) == {ddadd2_dd_d_d(x, mul_(x, mul_(x2, p))) : p \in Tail}
IsBig(d) == gt_(abs_(d), Half)
HalfAngleSquared(d) == mul_(sub_(One, abs_(d)), Half)
Arcs(d) == IF IsBig(d) THEN LET x2 == HalfAngleSquared(d) IN ArcSeries(sqrt_(x2), x2)
           ELSE ArcSeries(abs_(d), mul_(abs_(d), abs_(d)))
TwiceArcs(d) == {ddscale_dd_dd_d(u, Two) : u \in Arcs(d)}

sf64_asin(d) ==
  IF IsNaN(d) \/ gt_(abs_(d), One) THEN Early(NaN)
  ELSE LET angles == IF IsBig(d) THEN {ddsub_dd_dd_dd(HalfPiDD, u) : u \in TwiceArcs(d)}
                     ELSE Arcs(d)
       IN  Flushed(Negated(d.s = 1, {dd_to_d(r) : r \in angles}))

sf64_acos(d) ==
  IF IsNaN(d) \/ gt_(abs_(d), One) THEN Early(NaN)
  ELSE LET angles ==
             CASE ~IsBig(d) /\ d.s = 1 -> {ddadd2_dd_dd_dd(HalfPiDD, u) : u \in Arcs(d)}
               [] ~IsBig(d) /\ d.s = 0 -> {ddsub_dd_dd_dd(HalfPiDD, u) : u \in Arcs(d)}
               [] IsBig(d) /\ d.s = 1 -> {ddsub_dd_dd_dd(PiDD, u) : u \in TwiceArcs(d)}
               [] OTHER -> TwiceArcs(d)
       IN  Flushed({dd_to_d(r) : r \in angles})

(* The angle of a vector with nonnegative coordinates: the smaller is      *)
(* divided by the larger, and a quarter turn added when they were swapped. *)
(* (The branch for a negative x is left out: no caller hands one in.)      *)
AtanSwapped(y, x) == lt_(x, y)
AtanOf(s, t) == {ddadd2_dd_dd_dd(s, ddmul_dd_dd_d(ddmul_dd_dd_dd(s, t), Neg(u))) : u \in Tail}
AtanSeries(s) == AtanOf(s, ddnormalize_dd_dd(ddsqu_dd_dd(s)))

atan2k_u1_dd(y, x) ==
  IF AtanSwapped(y, x)
  THEN {ddadd2_dd_dd_dd(HalfPiDD, r) :
          r \in AtanSeries(dddiv_dd_dd_dd(dd(Neg(x), Neg(Zero)), dd(y, Zero)))}
  ELSE AtanSeries(dddiv_dd_dd_dd(dd(y, Zero), dd(x, Zero)))

sf64_atan(d) ==
  IF IsNaN(d) THEN Early(NaN)
  ELSE IF IsInf(d) THEN Early([HalfPiDD.hi EXCEPT !.s = d.s])
  ELSE IF IsZero(d) THEN Early(d)
  ELSE Flushed(Negated(d.s = 1, {dd_to_d(r) : r \in atan2k_u1_dd(abs_(d), One)}))

sf64_atan2(y, x) ==
  LET signed(v) == IF y.s = 1 THEN Neg(v) ELSE v
      pi == Bound.pi_hi
      reflected(r) == IF x.s = 1 THEN sub_(pi, r) ELSE r
  IN  IF IsNaN(x) \/ IsNaN(y) THEN Early(NaN)
      ELSE IF IsZero(y) THEN Early(signed(IF x.s = 1 THEN pi ELSE Zero))
      ELSE IF IsZero(x) THEN Early(signed(HalfPiDD.hi))
      ELSE IF IsInf(x) /\ IsInf(y)
      THEN Early(signed(mul_(pi, IF x.s = 1 THEN [Half EXCEPT !.f = ImplicitBit \div 2]
                                 ELSE [Half EXCEPT !.e = Bias - 2])))
      ELSE IF IsInf(x) THEN Early(signed(IF x.s = 1 THEN pi ELSE Zero))
      ELSE IF IsInf(y) THEN Early(signed(HalfPiDD.hi))
      ELSE Flushed({signed(reflected(dd_to_d(r))) : r \in atan2k_u1_dd(abs_(y), abs_(x))})

(* An angle times 1/pi, in double-double.                                  *)
OverPi(a) ==
  dd_to_d(ddadd2_dd_dd_d(ddmul_dd_d_d(a, Bound.inv_pi_hi), mul_(a, Bound.inv_pi_lo)))
ScaledByPi(S, keep(_)) == {[o EXCEPT !.res = IF keep(@) THEN @ ELSE OverPi(@),
                                     !.fe = IF keep(o.res) THEN @ ELSE FlagSet] : o \in S}
IsSpecial(v) == IsNaN(v) \/ IsInf(v)

sf64_asinpi(x) == ScaledByPi(sf64_asin(x), IsSpecial)
sf64_acospi(x) == ScaledByPi(sf64_acos(x), IsSpecial)
sf64_atanpi(x) == IF IsInf(x) THEN Early([Half EXCEPT !.s = x.s])
                  ELSE ScaledByPi(sf64_atan(x), IsNaN)
sf64_atan2pi(y, x) == ScaledByPi(sf64_atan2(y, x), IsNaN)
=============================================================================

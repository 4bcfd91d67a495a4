# soft-fp in TLA+

TLA+ modules, TLC runs and machine-checked proofs for soft-fp, the
integer-only IEEE-754 library of this repository (`src/`). `PROJECT.json`
lists components, runs, mutants, the definition-to-source map, findings,
hazards and theorems; this file explains them.

    tlc -workers 2 -config MCArith64.cfg MCArith64     # one run
    tlapm Arith64Proofs.tla                            # one module's proofs

## 1. The system

soft-fp is a C/C++ library. A call takes operands and a rounding mode,
returns a result, and raises sticky exception flags. There are no locks, no
I/O, nothing persistent and no messages. What it does have is per-thread
state, caller-owned state, three build-time variants of the flag plumbing, and
a great deal of arithmetic on words where every shift count is a potential
off-by-one.

| component | sources | state | operations |
|---|---|---|---|
| exception-flag environment | `fenv.cpp`, `internal_fenv.h` | a thread-local sticky word per thread; caller-owned `sf64_fe_state_t`; an accumulator on the stack of each call | raise, clear, save, restore (and `_ex` forms); accumulate and flush; direct raise |
| word helpers | `internal.h` | none | fields, classification, NaN policy, jamming shift, count of leading zeros, rounding decision, 128-bit words |
| arithmetic | `arithmetic.cpp` | working exponent and significand of one call | add, sub, mul, div in five modes; rem |
| nearest-even copies | `internal_arith.h` | as above | the same five and sqrt, fma, fixed to nearest even, inlined in the default entries and the transcendental functions |
| square root, fma | `sqrt_fma.cpp` | remainder and root of the digit loop; a 128-bit frame | sqrt, rsqrt, fma |
| conversions | `convert.cpp` | none | to and from integers of 8 to 64 bits and binary32 |
| rounding, scaling | `rounding.cpp` | none | floor, ceil, trunc, round, rint, fract, modf, ldexp, frexp, ilogb, logb |
| comparison, classification | `compare.cpp`, `classify.cpp`, `internal_classify.h` | none | 16 predicates, fmin/fmax families, nextafter, hypot, literal copies |
| OpenCL wrappers | `ocl.cpp` | none | flush-to-zero around each operation, native approximations |
| transcendental functions | `sleef/` | accumulator of one call | trigonometric, exponential, hyperbolic, gamma, error functions; fmod and remainder |
| binary128 | `fp128/` | Berkeley SoftFloat's thread-local rounding mode and flags | a `BackendContext` around each backend call |
| binary256 | `fp256/` | 512-bit working integers of one call | add, sub, mul, div, sqrt, fma, remainder, rint, comparison, conversions |
| C++ wrappers, lanes | `include/` | none | forwarding, lane-wise application |

**How they interact.** Every operation ends in the flag environment, by one of
four routes: the accumulator (binary64), a direct raise (some cold paths), a
store at each raise site (binary256), or the destructor of a context that
translates the backend's flags (binary128). The arithmetic kernels share
`internal.h`; the default entries do not call the mode-parametrised kernels
but their inlined copies. The transcendental functions are built from those copies
and from the literal copies of `internal_classify.h`, through double-double
arithmetic. `remainder` calls `fmod`, `powr`, `pown` and `rootn` call `pow`,
`hypot`, `fract` and the OpenCL wrappers call other operations.

**What is hard.** Interleavings of threads around a non-atomic `|=`; state of
the binary128 backend that outlives a call; flags buffered until a return that
has several paths; alignment, cancellation and renormalisation at extreme
exponent distances; subnormal operands and results; a carry of the rounding
step into the next binade, the first normal number, or overflow; loops that
run thousands of times; literal copies that must stay identical. There is no
crash recovery and no message loss: nothing is persisted or sent.

**What makes each component correct.**

- environment: each flag raised by a call is in the call's destination when it
  returns; no other bag changes; the backend is left as found;
- arithmetic, sqrt, fma, conversions: the result is the correctly rounded one
  and the flags are exactly those of the standard, for every operand and mode;
- copies: identical to the originals, flags included;
- loops: an invariant relates residue and operands at every iteration, and
  the loop ends;
- elementary functions: special cases, domains and poles as documented; the
  quadrant, the sign and the side of an asymptote right whatever the reduction
  rounds to; double-double arithmetic free of error; `fmod` and `remainder`
  exact;
- binary256: the result is the exact value rounded once, its digit loops exact;
- rounding and decomposition: the mathematical definition of each function,
  its range, and the reconstruction of the operand from the parts;
- comparison: the predicates form the complement pairs and the order of the
  standard.

## 2. Plan

In order of importance, each built on the ones before; all of it is in this
directory.

1. `StickyEnv` (abstract), `Fenv` (detailed), proofs, refinement.
2. `Format64`, `Pack64`, `Arith64`, the reference `IEEE754`; type correctness,
   normalisation and correct rounding with exact flags proved.
3. `ArithRne`: the nearest-even copies, proved identical to the originals.
4. `Rem64`: the remainder loop, its invariant proved.
5. `Sqrt64`: the digit loop, its invariant and the correct root proved; the
   copy, proved identical.
6. `Fma64`: the 128-bit frame, its room and the single rounding of the exact
   sum proved; `FmaRne`, its copy, proved identical.
7. `Convert64`: integers and binary32, proved correct.
8. `Integral64`, `Order64`, `Classify64`, composed in `Ops64`.
9. `Binary256`: every operation of `soft_f256.cpp`; the invariants of its
   digit loops, the correct rounding of its arithmetic and its conversions
   proved.
10. `DoubleDouble` and `Kernel64`, on the copies; `Powers64`, `Elementary64`,
    `Trig64`, `Remainder64` on them; `Native64`; all composed in `Sleef64`.

What could be added: the flush-to-zero wrappers around arithmetic and
conversions; 128-bit words as two halves.

## 3. Modules and how they correspond to the code

| module | models | state | actions |
|---|---|---|---|
| `StickyEnv` | the promise of the flag environment (abstract) | a bag of flags per thread and per caller state; per thread the running operation | begin, raise, deliver a part, finish, assign |
| `Fenv` | `fenv.cpp`, `internal_fenv.h`, `raise_flags` of binary256, `BackendContext` of binary128 | the bags, each thread's arguments, accumulator, half-done `\|=`, backend mode and flags, saved backend environment | enter, raise, flush, return of the four routes; the store half of a `\|=`; every accessor |
| `Format64` | the fields, predicates and bit helpers of `internal.h` | none | |
| `Pack64` | `unpack_finite_nonzero` and `round_and_pack` of `arithmetic.cpp` | none | |
| `Arith64` | `sf64_{add,sub,mul,div}_r`, `sub` also with the sNaN-propagating policy | the call; working sign, exponent, significand; flags; result | one per group of early returns; one per magnitude kernel; the rounding |
| `Loop64` | what the next two share | place in the code, loop counter, flags, result | |
| `Rem64` | `sf64_rem` | running residue and iterations to go | the early returns, the start, one iteration, the normalisation |
| `Sqrt64` | `sf64_sqrt_r` and `isqrt_bits` | radicand left, remainder, root, digits to go | the early returns, the start, one digit, the rounding |
| `Fma64` | `sf64_fma_r` and the `round_and_pack` of `sqrt_fma.cpp` | sign, magnitude and exponent of the frame | the early returns, the product alone, the sum in the frame, the three ways of rounding |
| `Convert64` | `convert.cpp` | the call; magnitude found; flags; result | one per group of early returns of the four bodies; the saturation to the type |
| `Integral64`, `Order64` | `rounding.cpp`; `compare.cpp` and `classify.cpp` | none: functions from operands to result | |
| `Ops64` | the entries of those three files | the call; result; what an out pointer receives; flags | one per entry, named as in the code; `sf64_hypot` is the special cases and then one step per arithmetic call it makes |
| `Classify64` | the copies in `internal_classify.h` | none | |
| `ArithRne`, `FmaRne` | the copies in `internal_arith.h` | none: functions from operands to result and flags | |
| `Binary256` | `soft_f256.cpp`, `big_uint.h` | the call; remainder, quotient or root and position of a digit loop; what `pack_scaled` is called with; flags; result | early returns, start and digit of each loop, the exact near sum and the distant one, packing, one per conversion and comparison |
| `DoubleDouble` | `sleef_common.h`, `sleef_internal.h` | none: sums, products, quotients of pairs, over tables of the copies' results | |
| `Kernel64` | what the functions share: reductions, exponential and logarithm kernels, `sinpi_core`, and what a polynomial may return | none: functions from operands to the set of possible outcomes | |
| `Powers64`, `Elementary64`, `Trig64` | pow, powr, pown, rootn, cbrt; exponential, logarithmic, hyperbolic, error and gamma functions; circular functions, their inverses, and those of half turns | none, as above | |
| `Remainder64` | `fmod_impl`, `remainder_impl` between two iterations | none | |
| `Native64` | `ocl.cpp`: flushing, native functions; `sf64_rsqrt` | none | |
| `Sleef64` | the entries of all these, with `Rem64` | the call; the dividend's rest and the multiple to try; result; values stored through pointers; flags | one per function; the start, iteration and end of the division loop |
| `IEEE754` | the reference: exact values as integers times a power of two, one rounding function, the flags of the standard | none | |
| `Reference64` | brings the reference and the nearest-even copies to the modules that state what their results are: `Arith64`, `Sqrt64`, `Fma64`, `Convert64`, `Integral64`, `Order64`, `Ops64`, `Binary256` | none | |
| `MC*` | small instances and the comparisons with the references | | |
| `Binary256Invariants` | what the proofs about `Binary256` maintain and speak of | none | |
| `*Proofs` | theorems and proofs | | |

**Data.** A binary64 value is the record of its three fields. Widths are
constants: the code is the instance `FracBits = 52`, `ExpBits = 11`,
`GuardBits = 9`, `FrameBits = 128`. `x << n` is `x * Pow2[n]` and `x >> n` is
`x \div Pow2[n]`; the table `Pow2` stands for the powers of two because the
SMT backend does not know `^`. Where the code relies on a word not wrapping,
either the word's width is in the type invariant (`Rem64`, `Sqrt64`), or the
highest bit is in an invariant (`Normalised`, `FrameFits`). The two 64-bit halves
of 128-bit words are one integer.

**Steps.** The binary64 operations run on one thread's stack, so their
intermediate states are visible only to themselves; they are modelled in
steps where a loop or the hand-over between kernel and rounding gives an
invariant something to say. An elementary function is one step from operands
to outcome. In `Fenv`, where threads and accessors really
interleave, each `|=` is two steps.

**Elementary functions.** Everything around a polynomial is as in the code:
special cases and their order, thresholds, reductions with the rounding of
their quotients, exact scaling, double-double arithmetic with its overflows,
reflections, recombination. The polynomial itself returns *any* value of
`Sample` on the right side of the exact points the function passes through
(exp 0 = 1, log 1 = 0, the middle of a quadrant), so a property holds only if
it holds for every approximation of that quality; how many units in the last
place it is off is not modelled. Thresholds and constants of the code
are `Bound`, each mapped to the value that plays its part in the small format.
An angle is not computed from the digits of the operand, to which pi is
unrelated: it is a second argument, an odd number of 32nds of a turn, and a
reduction may round the quotient to either neighbour. The flags of an outcome
are those the call *may* raise: none before its accumulator is flushed, any
afterwards.

**NaN operands.** `soft_f64.h:94-97` speaks of a canonical NaN, but arithmetic
returns the first NaN operand, quieted, as `tests/test_snan_payload.cpp`
pins for the default build: that is what `PropagateNaN` models. The option
`SOFT_FP64_SNAN_PROPAGATE` changes two places, both modelled in both builds:
the sign of a NaN subtrahend (`Arith64`) and `propagate_nan_xy`, which loses
the NaN operands of `fmod` and `remainder` in the default build
(`Remainder64`, `ExactRemainder`).

**Flushes.** `AccFlush` is one action for the return paths of all entries, so
`Fenv` shows that what is flushed arrives, and not that each path of each
entry calls `flush()`. Of the elementary functions, the outcomes say which
returns come before the flush and raise nothing (`Early`) and which after it.

**binary256.** A `Big<8>` is a natural number below `2^BigBits`; what a shift
pushes off its top is lost, as in the code, so that a frame that is too narrow
shows as a wrong result. The code is the instance `FracBits = 236`, `ExpBits =
19`, `BigBits = 512`, `NearLimit = 274`.

**One caller at a time.** `Fenv` lets a caller-owned state serve one call at a
time (`Available`). The code has no synchronisation on it, so sharing one
between running calls is a data race of the application, as for any object
passed by pointer.

## 4. Runs and bounds

| run | bounds | shows |
|---|---|---|
| `fenv_tls` | two threads, one state, two flags, two modes | no flag lost, leaked, or seen elsewhere (`Sticky`: a refinement of `StickyEnv`); no `\|=` overwrites a change; the binary128 backend computes in the environment of its call |
| `fenv_explicit` | two threads, two states | as above without thread-local storage, which stays empty |
| `arith64` | 3 fraction, 4 exponent, 3 guard bits; each operation in five modes; a first operand of extreme or middle exponent, positive unless a zero or an infinity, and any second; the sNaN policy for sub in two modes | correctly rounded, exact flags, copies identical |
| `sqrt64` | 4 fraction, 4 exponent bits; every operand, five modes | partial root exact at every digit, clamps dead, correctly rounded, copy identical |
| `fma64` | 2 fraction, 4 exponent bits, a frame of 9 bits; factors of extreme and middle exponents, the first positive, every addend, five modes | one rounding of the exact sum, exact flags, frame wide enough, copy identical |
| `convert64` | 4 fraction, 4 exponent bits, narrowed to 2 and 3; integers of 3 and 7 bits; every value, integer and mode | saturation and INVALID, one rounding, exact flags, exact widening |
| `ops64` | 3 fraction, 3 exponent bits; every operand, pair, predicate, mode and scale up to one past the clamp | nearest integral value, exact parts, one rounding by ldexp, the order of values, neighbours, hypot within two places, copies identical |
| `binary256` | 5 fraction, 3 exponent bits, words of 18 bits, exact sums up to 7 binades apart; extreme and middle fractions in every binade, every fraction in one; five modes where the mode matters | digit loops exact, results rounded once, flags exact but for two exceptions (below), conversions and comparisons exact |
| `sleef64` | 3 fraction, 4 exponent bits; every pair but for signs for the three remainders; every value for the functions of one operand, flushed and not; edge values for those of two; every odd angle in one turn either way | the loops end in the exact remainder, with the NaN of either build; special cases, domains, poles, quadrants, signs and sides as documented but for the cases of `sleef64_claim`; sums and products of double-doubles exact |
| `binary256_claim`, `ops64_claim`, `sleef64_claim` | as their siblings | what README and header say and the code contradicts: violated, and each conjunct of the property is violated alone (section 6) |

**What the passing properties leave open.** Where the code does not do what its
documentation says, a passing property neither demands what is documented nor
what the code does; it leaves the case open, its comment says so, and the
claim run beside it refutes the documented statement:

- `CorrectIntegral`, `OrderedByValue`: which NaN comes out for a NaN, and the
  flags of a signalling one; whether `fract` is below one and exact (it must be
  `x - floor(x)` rounded once). `ops64_claim`.
- `ExactFlags`: a sum of distant operands raises INEXACT alone, and `fma`
  raises nothing for a signalling third operand beside a NaN. These two are
  stated exactly, as exceptions. `binary256_claim`.
- `PowersAsDocumented`: a negative base to an infinity, minus infinity to
  what is no integer, whether a power is NaN when the product in its exponent
  can overflow; even roots of minus infinity to a negative n. `DomainsAndPoles`: asinh
  and acosh of operands whose square overflows, the sign lgamma_r stores for a
  zero. `RightQuadrant`: atan2 when the reciprocal of the larger magnitude
  overflows. `SignsAndSides`: the sign of a zero. `sleef64_claim`.

**Why these bounds are enough to be interesting.** The code depends on the
widths only through the constants of section 3, and the small formats keep the
order of every threshold it compares against: there are subnormal and normal
numbers, exponent distances beyond the width of a word, quiet and signalling
NaNs, overflow and total underflow, odd and even fractions with a tail on
either side of one half. The frame of `fma64` is as narrow as the layout
admits (`FrameAssumption`), so that operands fall off its end as they do in
the code and the rounding position can lie below it. Four exponent bits give
the code's relation of bias and fraction (`SqrtAssumption`). The two formats of
`convert64` keep that wide subnormal numbers vanish below the narrow ones and
that the widest integers exceed a significand (`ConvertAssumption`); in `ops64`
the largest numbers are integral, the others have from none to all of their
fraction below the point, and squares overflow and vanish. Signs are left out
where the code only multiplies them or where swapping both changes nothing but
the sign; an operand of either sign remains on the other side of each sum.
`binary256` keeps the code's relation of word, near limit and fraction with as
little to spare (`BigAssumption`), so that sums, radicands and frames nearly
fill the word and distant operands still occur; the rounding mode of calls
that take none is fixed. In `sleef64` the exponent range is small enough that every function
reaches its overflow, its underflow, its subnormal results and each of its
thresholds, and `Sample` has zero, the least and the greatest number, infinity
and values on both sides of one half, root one half and one. In `Fenv` two
threads and two states are the least with a wrong bag to deliver to; two flags
tell a union from an assignment; two modes tell a restored one from a stale
one, and `ModeOfBackendOnly` follows the second mode in binary128 calls only,
because no other family hands its mode to anything that is shared. The
disabled build has no run: its theorems (section 5) hold for every
`FenvMode`. For the properties proved in section 5 the bounds do not matter.

**Fairness.** Only `Sleef64` has any: weak fairness of `Division`, the steps of
the three remainder operations, because a sequential function that is called
runs on until it returns; the caller waits for it. `LoopsEnd` rests on it.
`Fenv` needs none: what it promises is safety, and an application may stop
anywhere.

**Deadlock** is not checked in the runs of single calls (`CHECK_DEADLOCK
FALSE`), which end when the call returns. It is checked in `Fenv`.

Every property of a passing run has a mutant in `PROJECT.json`: a plausible slip in one
definition that makes that property fail under the same configuration. The
mutated forms stand before the definitions, marked `MUTANT`.

## 5. Proofs

All theorems hold for every value of the constants that satisfies the named
assumptions: `FenvAssumption`, `FormatAssumption` and `Pow2Assumption`, plus
`ProductAssumption` and `TableAssumption` (add, sub, mul, div),
`SqrtAssumption` (sqrt), `FrameAssumption` and `TableAssumption` (fma),
`ConvertAssumption` (conversions), `IntegralAssumption` and `ScalesAssumption`
(rounding to integer, scaling, order), `BigAssumption` and `TableAssumption`
(binary256). The code's widths satisfy all of them; each only says how wide the
words are compared with the format, that a double is a narrower format whose
subnormal numbers are normal in binary256, or that the table `Pow2` reaches as
far as the reference looks into it.

| theorem | says |
|---|---|
| `FenvProofs!TypeCorrect`, `LoadedIsFreshAlways`, `BackendEnvironmentAlways`, `NoThreadLocalFlagsAlways` | the invariants of the `fenv_*` runs for any number of threads, states, flags, modes and each build |
| `FenvProofs!StickyRefinement` | `Fenv` implements `StickyEnv` |
| `Arith64Proofs!TypeCorrect`, `NormalisedAlways` | for every format, results are well-formed and the significand given to `round_and_pack` is normalised |
| `Arith64Proofs!CorrectlyRoundedAlways`, `ExactFlagsAlways` | for every format, operands and mode, add, sub, mul and div return the correctly rounded result and raise exactly its flags |
| `Arith64Proofs!RneIdenticalAlways` | their nearest-even copies return and raise the same |
| `Loops64Proofs!TypeCorrect`, `RemainderAlwaysKept` | for every format, the residue stays in its word, congruent to the dividend and below twice the divisor; what the loop leaves is the remainder |
| `Loops64Proofs!RootTypeCorrect`, `RootAlwaysKept`, `RootAlwaysNormal` | for every format, the partial root is exact at each digit; the final root has exactly the width the rounding assumes; the clamps are dead code |
| `Loops64Proofs!CorrectRootAlways`, `RneIdenticalAlways` | for every format, operand and mode, the root is the correctly rounded one with exact flags; the copy, which computes the digits by recursion, agrees |
| `Fma64Proofs!TypeCorrect`, `FrameAlwaysFits` | for every format, the frame has room for both operands and their sum, so that no carry is lost; the result is well-formed |
| `Fma64Proofs!CorrectFmaAlways`, `RneIdenticalAlways` | for every format, operands and mode, the exact `a * b + c` is rounded once, flags included, whatever the frame jams; the copy agrees |
| `Convert64Proofs!CorrectToIntegerAlways`, `CorrectFromIntegerAlways`, `BetweenFormatsAlways` | for every pair of formats and every set of integer widths, conversions round once, saturate, and raise exactly what they should; widening keeps the value |
| `Ops64Proofs!CorrectIntegralAlways` | for every format, operand and mode, floor to rint return the integer of their direction with the sign of the operand; modf splits exactly, fract rounds once; a NaN gives a NaN |
| `Ops64Proofs!ScaledOnceAlways` | for every format, operand and scale, ldexp rounds once, into and out of the subnormal range and past its clamp; frexp is its inverse; ilogb and logb tell the binade |
| `Ops64Proofs!OrderedByValueAlways`, `AdjacentAlways` | for every format and operands, the sixteen predicates, minima, maxima and fdim are those of the order by value; nextafter skips nothing |
| `Ops64Proofs!CopiesIdenticalAlways` | the header copies of trunc, ldexp, frexp and fcmp agree with the originals |
| `Binary256Proofs!DigitsAlwaysKept` | for every format, nothing is lost between two digits of a quotient, a root or a remainder, and no shift of the loops leaves the big integer |
| `Binary256Proofs!CorrectlyRoundedAlways` | for every format, operands and mode, add, sub, mul, div, sqrt and fma of binary256 return the exact value rounded once, distant operands and jammed frames included, and remainder is that of the nearest quotient |
| `Binary256Proofs!ExactFlagsAlways` | for the same calls, the flags are those of IEEE 754 with UNDERFLOW of the delivered result; except that a sum of distant operands raises INEXACT alone, and that fma does not signal a signalling third operand beside another NaN |
| `Binary256Proofs!ExactConversionsAlways` | for every pair of formats and integer widths, operand and mode, rint and the conversions of binary256 to and from integers and doubles round the exact value once, saturate and raise what they should; a double is widened unchanged; eq, lt and le are the order by value |

**The arguments.** `Fenv`: the invariant adds to the types that a caller state
has one user, that a half-done `|=` belongs to the running call and started
from the value in memory, that what is in the accumulator, in the backend or on
its way to a bag together with what is already there is all that was raised
(`OnTheWay`), and where the backend's environment is (`Backend`). Neither
freshness nor the refinement is inductive without these. Each action has a
lemma that it keeps the invariant and one that it is a step of `StickyEnv` or
a stutter.

`Arith64`: `Normalised` is inductive with the types, but each kernel needs its
own width argument: the aligned sum lies below two implicit bits, the
cancelled difference is moved by exactly its leading zeros, a product of
normalised significands loses at most one position, a quotient of comparable
ones has its highest bit in one of two places.

That results are correctly rounded rests on one relation, `StandsFor`: the
significand handed to the rounding, which may have been jammed, lies on the
same side of every multiple of half a unit as the exact result, and on such a
multiple only if the exact result does. The strengthening `RInv` adds that some
exact fraction whose reference rounding is the expected answer is stood for in
this way (`Prepared`). Each kernel is shown to establish it - a jam of an
aligned operand changes the sum by less than the bits it may fill, the sticky
bit of a product or quotient is set exactly when something is lost - and
`Rounding64Proofs` shows once that `round_and_pack` turns what stands for a
fraction into what the reference prescribes for it. The reference searches the
magnitudes of the format for the two that enclose the fraction; that
there is exactly one such place, and that the code's rounded significand is it,
follows from the value of a bit pattern as a product of a whole number and the
unit of its binade (`MagnitudeAt`, `IndexSplit`), without induction over the
format. The copies are followed next to the original (`CInv`): between kernel
and rounding, what the copy will return is what rounding the same significand
to nearest even returns.

`Rem64`: the strengthening says which operands reach the loop and that the
iterations to go do not exceed the exponent distance. An iteration subtracts
a multiple of the divisor from `residue * 2^k`, so the congruence holds
(`ModSubtract`); from a residue below twice the divisor one subtraction gives
one below the divisor, and its double is below twice the divisor.

`Sqrt64`: with `c` the consumed part of the radicand, `c = root^2 + rem` and
`rem <= 2 root` survive a digit by the identities in `DigitKept`. At the end
`c` is the radicand, whose two highest bits are not both zero
(`RadicandWidth`), so that the root has all its bits (`RootWidth`).
`RootIsNormal` follows from the range of the unpacked exponent. The root is
the correctly rounded one because its last digit is the half-way bit and the
remainder tells whether anything is left (`LastDigit`); there is no tie, the
radicand being a multiple of four. The reference looks for the greatest
magnitude whose square is not above the operand's, which is unique because
squares are ordered (`RootFloorFound`). The copy's recursive digit function
exists and agrees with the loop digit by digit (`DigitsExist`, `InStep`).

`Fma64`: a magnitude of `h + 1` bits in units of `2^exp` is laid below the two
headroom bits because the frame's top is two above the greater of the two
`exp + h` (`LaidFits`), whether it is shifted left, right or jammed to a single
bit; it never becomes zero. So the sum does not wrap and a difference of
unequal magnitudes is positive, which is what the rounding needs to have a
highest bit. Below the normal range what is kept is less than an implicit bit
(`TruncatedWidth`), so that rounding up reaches the least normal number at most.
For the single rounding, a magnitude either weighs exactly as much as the part
of the sum it is, or has been jammed: then the larger operand is exact and even
in the frame, the jammed one less than half as large (`LaidLarge`,
`LaidSmall`), so that their sum and difference stand for the exact ones
(`SumStands`) and still have more bits than the rounding looks at (`Holds`).
The invariant says that the frame handed to the rounding holds a fraction whose
rounding is the expected result (`Held`); `FrameKept` derives the bits that
decide from it, in the three places the rounding position can have. The copy
has no steps of its own, so what is invariant is what it would return from the
frame reached so far (`Framing`).

`Convert64`: `RoundOff` cuts a significand at a multiple of the unit of its
target, which is one for integers, the unit of a binade for long integers and
for the narrow format; `RoundOffCut` says that the bits it looks at decide as
the exact remainder does. What is proved of a format is instantiated for the
narrow one (`NR`). A conversion to an integer takes two steps; between them the
magnitude is the nearest integer or the number is an integer beyond every type
(`Clamped`), from which saturation to the bounds of the type is the nearest
representable integer, with INVALID exactly when the nearest integer is not in
the type.

`Ops64`: a call is over in one step, so the invariant says of a finished call
which function of the operands was returned (`Computed`), and of a running one
that it is hypot; the work is in the lemmas about the functions. A word without
its sign bit is the index of its magnitude (`WordIndex`), magnitudes climb with
the index (`Climbs`), so that comparing words is comparing values and stepping
a word by one skips none (`KeyOrder`, `StepOfOne`). Rounding to an integer cuts
the fraction at the unit of 1.0; the carry of the increment into the exponent
field is the step to the next binade because words are indices (`EveryCut`,
`RintInModeIs`). fract and modf subtract: the copy of the subtraction is shown
correctly rounded from the lemmas of `Arith64` (`AddIs`), and the rest is a
number of the format (`RestRepresentable`), so that modf is exact. ldexp
writes the scaled value as a significand times a power of two (`ScaledBy`) in
one of four places - beyond overflow, normal, subnormal, below half the least
subnormal - and the exponent as clamped lies in the same place as the one the
caller asked for (`ClampedIs`), which is what the clamp may do at most.

`Binary256`: the strengthening says which operands reach each loop, and that a
root of `n` digits is below `2^n`, from which every shift of the root loop is
exact. A digit keeps the identity of its loop: for the quotient by
`q = 2 * 2^pos * k`, for the root by `DigitKept` as in `Sqrt64`, for the
remainder because doubling what remains doubles what it stands for
(`ResidueOf`). Every other step leaves the loops (`Leaves`). That results are
correct is a second invariant on top (`RInv`): what waits for `pack_scaled` is a
number that packs to the rounded value of the call (`Waits`), and what is
delivered is that value with its flags (`Answers`). `PackScaled` is related to the
reference once, for a magnitude that stands for a fraction of units (`Holds`):
it may be jammed as long as it lies on the same side of every even number, in
a frame with three bits below the fraction. Each operation then has to say for
its magnitude what it stands for: the exact sum of aligned operands, the
product, an addend jammed into the frame of fma (where the one with bits left
is at least four times as large), a quotient or a root with the tail of its
remainder, the residue or its complement. The distant sum is the case that does
not pack: the smaller operand is less than a quarter of the distance to a
neighbour, so that only a directed mode moves, and by one word. The root is not
compared with its value but by squares: a root is below a middle of two
neighbours exactly when the radicand is below its square (`RootSides`).
A third invariant (`CInv`) is of the same form for the conversions: what is
delivered, or what `pack_scaled` will deliver, is what the operation promises
(`Gives`, `Pending`). A significand cut at the binary point is the nearest
integer because its guard and tail decide as the exact remainder does
(`PartRounded`), and an integer packs to its own rounding. A conversion to a
double jams twice, once to the three bits below the narrow fraction and again
below the narrow range; both jams stay on the side of every middle (`JamCut`),
so that the code's packing and the reference of the narrow format (`NR`) cut the
same value at the same place. A double is a number of the wide format
(`WideValue`), which packing leaves alone. Comparing words is comparing
magnitudes (`WordOrder`).

`Rounding64Proofs` holds the common lemmas: powers of two, leading zeros,
jamming, unpacking and packing, and that rounding and packing does what the
reference prescribes. Inductions over exponents go through the least
counterexample (`Least`), because the library's induction theorems take an
operator the provers cannot instantiate.

**Only model-checked.** That hypot is close (`HypotClose`: an error analysis of
four rounded steps, which the solvers do not do for every format) and that
`fmod` and `remainder` are exact (`ExactRemainder`). Also the elementary functions, which work over tables
of the small format and any approximation: what their properties say is decided
by those tables. Liveness (`LoopsEnd`) is out of the prover's reach, as is
`ENABLED`. No module uses a RECURSIVE operator.

## 6. Where code and documentation differ

Three runs refute what is documented. The property of each is a conjunction
of the parts named here, and TLC violates each part also when it is checked
alone.

`binary256_claim` (`SameExceptionModel`): `README.md:24-25` gives binary256 the
rounding and exception model of binary64.

- `OverflowSignalled`: a sum of operands more than 274 binades apart raises
  INEXACT and nothing else, also when the greatest finite number steps to
  infinity in a directed mode (`soft_f256.cpp:267-268`).
- `InvalidSignalled`: `fma` raises INVALID neither for a signalling third
  operand when another one is a NaN nor for infinity times zero plus a NaN
  (`soft_f256.cpp:369-372`); that of binary64 raises it for both.

`ops64_claim` (`OpsAsDocumented`):

- `NaNIsCanonical`: `soft_f64.h:303-331` has floor, ceil, trunc, rint and
  fract return the canonical NaN, `:183-191` and `compare.cpp:16-17`
  fmin_precise and fmax_precise, `:409` fmin of two NaNs. They return their
  operand, fract quieted; the first NaN, quieted; the second operand.
- `SignallingSeen`: `soft_f64.h:50-51` says that signalling NaNs are quieted
  and raise INVALID; none of these entries raises it.
- `FractExact`: `soft_f64.h:327-330` says that fract is clamped to [0, 1) and
  exact; of a small negative operand it is 1.0, and inexact
  (`rounding.cpp:350`).

`sleef64_claim` (`SleefAsDocumented`):

- `PowOfInfinities`: `soft_f64.h:688` refers pow with infinities to IEEE
  754-2008. `pow(-2, inf)`, `pow(-1, +-inf)` and `pow(-inf, 0.5)` are NaN,
  because the test of a negative base comes before that of infinities
  (`sleef_inv_hyp_pow.cpp:626`).
- `PowOfPositives`: the "full" table of `soft_f64.h:682-689` has no NaN for a
  positive base. `pow(1e300, +-1e306)` is NaN: the product with the logarithm
  overflows in the high half only (`sleef_inv_hyp_pow.cpp:643`).
- `EvenRoots`: `soft_f64.h:727-728` has even roots of negative numbers NaN;
  `rootn(-inf, -2)` is 0 (`sleef_special.cpp:174`).
- `AsinhEverywhere`, `AcoshOnDomain`: `soft_f64.h:601` and `:606` restrict
  asinh not at all and acosh to x >= 1. Of a finite number whose square
  overflows both are NaN (`sleef_inv_hyp_pow.cpp:896`, `:926`).
- `AsinhOfZero`: `soft_f64.h:601` has asinh keep the sign of a zero; it comes
  back positive.
- `Atan2OfNumbers`: `soft_f64.h:531` has atan2 in [-pi, pi]; it is NaN when the
  larger magnitude is so small that its reciprocal overflows
  (`sleef_inv_hyp_pow.cpp:245`).
- `GammaSignOfZero`: `soft_f64.h:775` has lgamma_r store 0 for a pole; for a
  zero it stores the sign of the zero (`sleef_special.cpp:689`).

Met on the way, without a run of their own. Flags and rounding:

- `fenv.cpp:97-98` says that in the disabled build operations never add flags
  to a caller-owned state; binary128 and binary256 do (`soft_f256.cpp:33`,
  `soft_f128.cpp:79-81`).
- `internal_fenv.h:17-19` and `:48` say that a null state falls back to the
  thread-local bag in the tls build; the accumulator drops the flags, as its
  own comment at `:96-97` says.
- `soft_f256.cpp:178-180` calls its UNDERFLOW tininess after rounding; the test is
  of the delivered result, which is not tininess with an unbounded exponent.
- binary256: `to_u64` of -0 and of every negative number, also those that round
  to 0, raises INVALID; the 32-bit conversions may raise both INVALID and
  INEXACT.
- `internal.h:382-383` says that `propagate_nan` prefers the signalling operand;
  it returns the first one.
- `soft_f64.h:94-97` has arithmetic return the canonical NaN; it propagates the
  operand's, as `tests/test_snan_payload.cpp` expects.
- `soft_f64.h:462-463` says that `hypot` is infinite only on true overflow; it
  may be infinite for a norm just below the greatest finite number, within
  the error `HypotClose` allows.
- `classify.cpp:85` says that `bit_less_nonan` treats -0 as equal to +0. It
  sorts it below; no caller depends on it (`OrderedByValue`).

Elementary functions:

- A negative zero comes back positive from tanpi, asinpi, atan2pi and
  native_sin; log1p, asinh and tan of the least subnormal number are zero.
- cospi and sinpi are 1 and 0 for every operand past 2.5e8, where doubles still
  have several fractional bits; the comment at `sleef_trig.cpp:1832-1835` says less
  than one.
- tgamma of a number just below zero whose reciprocal overflows is NaN, and its
  underflow for negative operands is +0; cosh is infinite from 710 on, short of
  its overflow at 710.47.
- native_exp is infinite already between 709 and 709.78, and its overflow
  raises DIVBYZERO.
- the comment at `sleef_inv_hyp_pow.cpp:77-79` calls `sf64_rem` the IEEE
  remainder; it truncates.

## 7. Not modelled

`PROJECT.json` lists every component with its status. Left out:

- the values of polynomials, whose correctness is a bound on a real-valued
  error; the digits of an angle, and with them the payload of the
  Payne-Hanek reduction;
- Berkeley SoftFloat, which is vendored and computes binary128;
- the limb representation of 128- and 512-bit words;
- the flush-to-zero wrappers around arithmetic, conversions, comparison,
  rounding, fmod and remainder, each of which is a call between two flushes;
- the headers that only forward and the lane-wise wrappers;
- tests, fuzzers, benchmarks.

Two branches of `convert.cpp` are not modelled because no operand reaches
them: the carry past 64 bits at lines 226-231 (the magnitude rounded there has
at most 53 bits) and the zero significand at 498-501 (it has its implicit bit).

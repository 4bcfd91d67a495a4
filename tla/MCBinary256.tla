---------------------------- MODULE MCBinary256 ----------------------------
(* Binary256 on a small format.                                            *)
EXTENDS Binary256

MCPow2 == [n \in 0..MaxShift |-> 2 ^ n]

(* Operands: the extreme fractions and those around the middle, in every   *)
(* binade; every fraction in one binade.                                   *)
Edges == {0, 1, QuietNaNBit - 1, QuietNaNBit, QuietNaNBit + 1, ImplicitBit - 2, ImplicitBit - 1}
Edged == {v \in Values : v.f \in Edges}
Positive(S) == {v \in S : v.s = 0}
Specials == {v \in Edged : v.e = ExpMax \/ IsZero(v)}
Full == {v \in Values : v.e = Bias} \cup Specials
Few == {v \in Values : v.e \in {0, Bias, ExpMax - 1, ExpMax} /\ v.f \in {0, 1, ImplicitBit - 1}}

MCCalls == UNION {
  Call({"add", "mul"}, Modes, Positive(Edged), Edged, Unused),
  Call({"sub"}, {"RDN"}, Edged, Specials \cup Few, Unused),
  Call({"div"}, {"RNE", "RUP"}, Positive(Full), Edged, Unused),
  Call({"fma"}, Modes, Positive(Few), Few, {v \in Edged : v.f \in {0, 1, QuietNaNBit}}),
  Call({"remainder"}, {"RNE"}, Edged, Edged, Unused),
  Call({"eq", "lt", "le"}, {"RNE"}, Edged, Few, Unused),
  Call({"sqrt", "rint", "to_f64", "to_u64", "to_i64"}, Modes, Values, Unused, Unused),
  Call({"to_u32", "to_i32"}, {"RTZ"}, Values, Unused, Unused),
  Call({"from_u64"}, {"RNE"}, Unsigned, Unused, Unused),
  Call({"from_i64"}, {"RNE"}, Signed, Unused, Unused),
  Call({"from_f64"}, {"RNE"}, Narrow, Unused, Unused) }

MCInit == call \in MCCalls /\ Fresh

MCSpec == MCInit /\ [][Next]_vars
=============================================================================

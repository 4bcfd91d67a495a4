CONSTANTS
  Threads = {t1, t2}
  States = {s1, s2}
  Flags = {invalid, inexact}
  Nowhere = Nowhere
  Modes = {RNE, RUP}
  NearEven = RNE
  FenvMode = 2
SYMMETRY Symmetry
SPECIFICATION Spec
INVARIANTS
  NoThreadLocalFlags
PROPERTY Sticky
CONSTRAINT ModeOfBackendOnly

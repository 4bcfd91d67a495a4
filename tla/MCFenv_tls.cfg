CONSTANTS
  Threads = {t1, t2}
  States = {s1}
  Flags = {invalid, inexact}
  Nowhere = Nowhere
  Modes = {RNE, RUP}
  NearEven = RNE
  FenvMode = 1
SYMMETRY Symmetry
SPECIFICATION Spec
INVARIANTS
  TypeOK
  LoadedIsFresh
  BackendEnvironment
PROPERTY Sticky
CONSTRAINT ModeOfBackendOnly

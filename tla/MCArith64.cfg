CONSTANTS
  FracBits = 3
  ExpBits = 4
  GuardBits = 3
  MaxShift = 27
  Pow2 <- MCPow2
SPECIFICATION MCSpec
INVARIANTS
  TypeOK
  Normalised
  CorrectlyRounded
  ExactFlags
  RneIdentical
CHECK_DEADLOCK FALSE

CONSTANTS
  FracBits = 2
  ExpBits = 4
  GuardBits = 3
  MaxShift = 26
  FrameBits = 9
  Pow2 <- MCPow2
SPECIFICATION MCSpec
INVARIANTS
  FrameFits
  CorrectFma
  RneIdentical
CHECK_DEADLOCK FALSE

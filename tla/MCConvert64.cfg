CONSTANTS
  FracBits = 4
  ExpBits = 4
  GuardBits = 3
  MaxShift = 28
  Pow2 <- MCPow2
  IntBits = 7
  IntWidths = {3, 7}
  NarrowFracBits = 2
  NarrowExpBits = 3
SPECIFICATION Spec
INVARIANTS
  CorrectToInteger
  CorrectFromInteger
  BetweenFormats
CHECK_DEADLOCK FALSE

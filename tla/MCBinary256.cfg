CONSTANTS
  FracBits = 5
  ExpBits = 3
  GuardBits = 3
  MaxShift = 26
  Pow2 <- MCPow2
  BigBits = 18
  NearLimit = 7
  IntBits = 3
  ShortBits = 2
  NarrowFracBits = 2
  NarrowExpBits = 2
  TopBits = 2
SPECIFICATION MCSpec
INVARIANTS
  DigitsKept
  CorrectlyRounded
  ExactFlags
  ExactConversions
CHECK_DEADLOCK FALSE

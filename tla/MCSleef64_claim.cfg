CONSTANTS
  FracBits = 3
  ExpBits = 4
  GuardBits = 3
  MaxShift = 26
  FrameBits = 11
  ScaleClamp = 18
  LiftBits = 4
  IntMin <- MCIntMin
  IntMax = 100
  Pow2 <- MCPow2
  Sample <- MCSample
  Bound <- MCBound
SPECIFICATION MCSpec
INVARIANT SleefAsDocumented
CHECK_DEADLOCK FALSE

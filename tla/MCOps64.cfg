CONSTANTS
  FracBits = 3
  ExpBits = 3
  GuardBits = 3
  MaxShift = 24
  Pow2 <- MCPow2
  ScaleClamp = 10
  IntMin <- MCIntMin
  IntMax = 100
SPECIFICATION Spec
INVARIANTS
  CorrectIntegral
  ScaledOnce
  OrderedByValue
  Adjacent
  HypotClose
  CopiesIdentical
CHECK_DEADLOCK FALSE

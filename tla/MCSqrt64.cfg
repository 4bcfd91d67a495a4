CONSTANTS
  FracBits = 4
  ExpBits = 4
  GuardBits = 3
  MaxShift = 28
  Pow2 <- MCPow2
SPECIFICATION RootSpec
INVARIANTS
  RootTypeOK
  RootKept
  RootIsNormal
  CorrectRoot
  RneIdentical
CHECK_DEADLOCK FALSE

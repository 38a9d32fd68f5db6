SPECIFICATION FairSpec
CONSTANTS
  a = a
  b = b
  NoSub = NoSub
  Sub <- MCSub
  Type = "RX"
  Size = 2
  Request <- SharedRequest
  CtrlFlags <- MCCtrlFlags
PROPERTIES
  DestroyCompletes
  FullRingDrains

SPECIFICATION Spec
CONSTANTS
  a = a
  b = b
  NoSub = NoSub
  Sub <- MCSub
  Type = "TX"
  Size = 2
  Request <- MCRequest
  CtrlFlags <- MCCtrlFlags
SYMMETRY Symmetry
INVARIANTS
  StartedQueueLive

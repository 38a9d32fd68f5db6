SPECIFICATION Spec
CONSTANTS
  a = a
  b = b
  NoSub = NoSub
  Sub <- MCSub
  Type = "TX"
  Size = 4
  Request <- MCRequest
  CtrlFlags <- MCCtrlFlags
SYMMETRY Symmetry
INVARIANTS
  StoppedWhenUnused
  TxWindows
  LockHolderRuns
PROPERTIES
  SwptrForward

SPECIFICATION Spec
CONSTANTS
  a = a
  b = b
  NoSub = NoSub
  Sub <- MCSub
  Type = "RX"
  Size = 4
  Request <- MCRequest
  CtrlFlags <- MCCtrlFlags
SYMMETRY Symmetry
INVARIANTS
  CountsExact
  ExclusiveAlone
  RxOrder
PROPERTIES
  SwptrForward

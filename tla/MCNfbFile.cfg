SPECIFICATION FileSpec
CONSTANTS
  k1 = k1
  k2 = k2
  u1 = u1
  u2 = u2
  kernel = kernel
  proc = proc
  dma = dma
  f1 = f1
  f2 = f2
  Client <- MCClient
  App <- MCApp
  KernelApp = kernel
  AppOf <- MCAppOf
  Path <- MCPath
  Feature <- MCFeature
  Request <- MCRequest
  Proc = {"p1", "p2", "b1"}
  Booter = {"b1"}
  Image = {"i1"}
  NoImage = NoImage
  LeakBound = 1
INVARIANTS
  Mutex
  HeldIsListed
  ListedIsHeld
  OneItemPerComp
PROPERTIES
  WaitsForHolder
  AppendAlone
  
CHECK_DEADLOCK FALSE

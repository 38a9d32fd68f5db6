SPECIFICATION Spec
CONSTANTS
    Sizes <- MCSizes
    Burst = 2
    AccMax = 2
    Lens <- MCLens
    Wants = {1, 3, 7}
    Upper <- UpperOfBuffer
    Offset = 3
    Modes = {"sze", "medusa", "calypte", "userspace"}
    GetAgain = {"sze", "medusa"}
    DirtyRestart = {}
INVARIANTS
    RxHeldIntact
    RxNoStarvation
PROPERTIES
    RxFifo

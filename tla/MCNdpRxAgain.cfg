SPECIFICATION Spec
CONSTANTS
    Sizes <- MCSizes
    Burst = 2
    AccMax = 2
    Lens <- MCLens
    Wants = {1, 3, 7}
    Upper <- UpperOfBuffer
    Offset = 3
    Modes = {"calypte"}
    GetAgain = {"calypte"}
    DirtyRestart = {}
INVARIANTS
    RxFilled

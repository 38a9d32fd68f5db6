SPECIFICATION Spec
CONSTANTS
    Sizes <- MCSizes
    Lens <- MCLens
    Counts <- MCCounts
    OtherCounts = {2}
    Upper <- UpperOfBuffer
    Offset = 3
    Modes = {"sze", "medusa", "calypte"}
    GetAgain = {"sze"}
PROPERTIES
    
    TxStopKeepsFrames
    TxCallReturns

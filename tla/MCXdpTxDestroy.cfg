CONSTANTS
    Frame = {"f1", "f2"}
    NoFrame = NoFrame
    XdpWorlds <- MCXdpWorlds
    NbDesc = 8
    Budget = 2
    FragMapFails = "same"
    MidPacket = FALSE
    StopTries = 1
INIT XdpInit
NEXT XdpNext
INVARIANTS XdpAllFreed

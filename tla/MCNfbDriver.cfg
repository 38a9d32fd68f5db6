CONSTANTS
    m1 = m1
    s1 = s1
    t1 = t1
    m2 = m2
    s2 = s2
    Endpoint = {m1, s1, t1, m2, s2}
    Main = {m1, m2}
    NoOne = NoOne
    Dsn <- MCDsn
    PciWorlds <- MCWorlds
    Frame = {"f1", "f2"}
    NoFrame = NoFrame
    XdpWorlds <- MCXdpWorlds
    NbDesc = 8
    Budget = 2
    FragMapFails = "same"
    MidPacket = FALSE
    StopTries = 1
    Pool = {"p1"}
    NoPool = NoPool
    AllocFails <- MCAllocFails
    Buf = {"b1", "b2"}
    NoBuffer = NoBuffer
    BufUpper <- MCBufUpper
    RxDesc = 4
    RxBatch = 2
    RxBudget = 2
    MaxParts = 2
    Sensor = {"t1", "t2"}
    MbWorlds <- MCMbWorlds
    MbCommands = 3
    Tool = {"t1", "t2"}
    File <- MCFile
    BootWorlds <- MCBootWorlds
    Cells = 8
    Align = 2
    Worker <- MCWorker
    Packet <- MCPacket
    ToolWorlds <- MCToolWorlds
    Supply = 4
    FlushAt = 1
    AllocTries = 0
    ZeroRounds = 2
    Slots = 2
    KeyLen = 2
    Bytes = 2
    PmaLanes = 1
    CompClient = {"user", "kernel"}
    CompKernel = {"kernel"}
    Guarded <- MCGuarded
    Unguarded <- MCUnguarded
    CompWorlds <- MCCompWorlds
    RxQueues = 2
    TxQueues = 1
    NetHandles = 3
    NetWorlds <- MCNetWorlds
    MaxFlaws = 1
    Ladders <- MCLadders
SPECIFICATION DriverSpec
INVARIANTS PciAllAttached   XdpHeld XdpPollAlive  XdpRxMatch     CompOwn  
PROPERTIES  BootRunsFile 
CHECK_DEADLOCK FALSE

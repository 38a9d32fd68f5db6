CONSTANTS
    Proc = {"p1", "p2", "b1"}
    Booter = {"b1"}
    Image = {"i1"}
    NoImage = NoImage
    LeakBound = 1
SPECIFICATION DeviceSpec
INVARIANTS ReloadIsLast
CHECK_DEADLOCK FALSE

CONSTANTS
    CycleSpan = 64
    CountSpan = 8
    MaxCycles = 60
    Images <- SumImages
    Reloads <- None
    HostRegs <- None
    HostWords <- None
    HostAddrs <- None
SPECIFICATION SessionSpec
INVARIANT CycleCountExact
CHECK_DEADLOCK FALSE

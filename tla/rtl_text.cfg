CONSTANTS
    CycleSpan = 1024
    CountSpan = 1024
    MaxCycles = 400
    Images <- SumImages
    Reloads <- None
    HostRegs <- None
    HostWords <- None
    HostAddrs <- None
SPECIFICATION SessionSpec
PROPERTY RTLDescribesEffect
CHECK_DEADLOCK FALSE

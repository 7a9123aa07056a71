CONSTANTS
    CycleSpan = 1024
    CountSpan = 1024
    MaxCycles = 36
    Images <- MCImages
    Reloads <- MCReloads
    HostRegs <- None
    HostWords <- None
    HostAddrs <- None
SPECIFICATION SessionSpec
INVARIANT DatapathLatches
PROPERTY ISASpec

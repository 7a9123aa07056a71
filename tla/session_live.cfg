CONSTANTS
    CycleSpan = 216
    CountSpan = 216
    MaxCycles = 216
    Images <- LoopImages
    Reloads <- LoopReloads
    HostRegs <- None
    HostWords <- None
    HostAddrs <- None
SPECIFICATION FairSession
INVARIANT DatapathLatches
PROPERTY InstructionCompletes
INVARIANT SumLoopResult
INVARIANT SumLoopCycles
PROPERTY SumLoopEnds

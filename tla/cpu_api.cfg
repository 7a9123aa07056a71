CONSTANTS
    CycleSpan = 1024
    CountSpan = 1024
    MaxCycles = 10
    Images <- MCImages
    HostRegs <- MCHostRegs
    HostWords <- MCHostWords
    HostAddrs <- MCHostAddrs
SPECIFICATION Spec
INVARIANT TypeOK
INVARIANT CondOneHot
INVARIANT StopFlags
INVARIANT FSMPath
PROPERTY InstructionProgress
PROPERTY UnconditionalBranchTaken
PROPERTY StoppedUntilReset
PROPERTY LitShowsChanges
PROPERTY NumbersFollowController

CONSTANTS
    CycleSpan = 1024
    CountSpan = 1024
    MaxCycles = 130
    LongestInstruction = 9
    Images <- None
    Reloads <- None
    HostRegs <- None
    HostWords <- None
    HostAddrs <- None
    Names <- MCNames
    NumericNames <- MCNumericNames
    NumericValue <- MCNumericValue
    InheritedNames <- None
    NaN = NaN
    Opcodes <- None
    Registers <- None
    Immediates <- None
    Texts <- None
    Trimmed <- NoTexts
    Presets <- AllPresets
    MaxBlocks = 0
    MaxId = 14
SPECIFICATION FairPresets
INVARIANT PresetResults
PROPERTY RunEnds

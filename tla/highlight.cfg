CONSTANTS
    CycleSpan = 1024
    CountSpan = 1024
    MaxCycles = 12
    LongestInstruction = 9
    Images <- None
    Reloads <- None
    HostRegs <- None
    HostWords <- None
    HostAddrs <- None
    Names <- MCNames
    NumericNames <- MCNumericNames
    NumericValue <- MCNumericValue
    InheritedNames <- None
    NaN = NaN
    Opcodes <- DriverOpcodes
    Registers <- None
    Immediates <- None
    Texts <- DriverTexts
    Trimmed <- DriverTrimmed
    Presets <- None
    MaxBlocks = 2
    MaxId = 2
SPECIFICATION FrontendSpec
INVARIANT HighlightsCurrentBlock

CONSTANTS
    Names <- MCNames
    NumericNames <- MCNumericNames
    NumericValue <- MCNumericValue
    InheritedNames <- MCInheritedNames
    NaN = NaN
    Opcodes <- OpcodeNames
    Registers <- EncodeRegisters
    Immediates <- EncodeImmediates
    Texts <- EncodeTexts
    Trimmed <- EncodeTrimmed
    Presets <- None
    MaxBlocks = 1
    MaxId = 1
SPECIFICATION EditorSpec
INVARIANT EncodedFaithfully

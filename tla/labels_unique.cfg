CONSTANTS
    Names <- MCNames
    NumericNames <- MCNumericNames
    NumericValue <- MCNumericValue
    InheritedNames <- MCInheritedNames
    NaN = NaN
    Opcodes <- ClaimOpcodes
    Registers <- None
    Immediates <- ClaimImmediates
    Texts <- ClaimTexts
    Trimmed <- ClaimTrimmed
    Presets <- None
    MaxBlocks = 2
    MaxId = 2
SPECIFICATION EditorSpec
INVARIANT LabelsUnique

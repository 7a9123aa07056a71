CONSTANTS
    Names <- MCNames
    NumericNames <- MCNumericNames
    NumericValue <- MCNumericValue
    InheritedNames <- MCInheritedNames
    NaN = NaN
    Opcodes <- ArrangeOpcodes
    Registers <- ArrangeRegisters
    Immediates <- ArrangeImmediates
    Texts <- ArrangeTexts
    Trimmed <- ArrangeTrimmed
    Presets <- ArrangePresets
    MaxBlocks = 2
    MaxId = 8
SPECIFICATION ListSpec
INVARIANT EditorTypeOK
INVARIANT IdsUnique
INVARIANT ModeReadsOperand
INVARIANT EncodedFaithfully
PROPERTY DropLandsBeforeTarget
INVARIANT ListShowsProgram
PROPERTY EditorSpec

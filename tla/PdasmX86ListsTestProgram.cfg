SPECIFICATION XSpec
CONSTANTS
    Modulus = 1024
    MaxPrefixes = 2
    Sizes <- ProgramSize
    Offsets <- ProgramStart
    CodeSizes <- ProgramSize
    Addresses <- ProgramStart
    X86Lengths <- DecodeLengths
    Bytes <- DecodeBytes
    Known <- ProgramKnown
INVARIANT ListsTestProgram

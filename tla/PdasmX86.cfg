SPECIFICATION XFairSpec
CONSTANTS
    Modulus = 64
    MaxPrefixes = 2
    Sizes <- DecodeSizes
    Offsets <- DecodeOffsets
    CodeSizes <- DecodeCodeSizes
    Addresses <- DecodeAddresses
    X86Lengths <- DecodeLengths
    Bytes <- DecodeBytes
    Known <- NothingKnown
INVARIANT XTypeOK
INVARIANT InstructionBounded
INVARIANT OwnPrefixes
INVARIANT ShownWhole
INVARIANT ListedToTheEnd
INVARIANT OnlyFirstLineIndeterminate
INVARIANT AgreesWithLoader
INVARIANT NoOverread
PROPERTY LinesTile
PROPERTY Listing
PROPERTY DecodeEnds

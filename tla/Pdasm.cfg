SPECIFICATION WFairSpec
CONSTANTS
    Modulus = 1024
    Sizes <- SizeT
    Offsets <- SizeT
    CodeSizes <- SizeT
    Addresses <- SizeT
    MaxPrefixes = 1
    Bytes <- PdasmBytes
    Known <- PdasmKnown
    X86Lengths <- PdasmLengths
    Calls <- PdasmCalls
INVARIANT PTypeOK
INVARIANT SourceReleased
INVARIANT RefusedNeverListed
INVARIANT ListsFirstCode
INVARIANT BinaryListedWhole
INVARIANT AllShowsEverything
INVARIANT ReadsOnlyFile
INVARIANT OneName
PROPERTY Program
PROPERTY PdasmEnds

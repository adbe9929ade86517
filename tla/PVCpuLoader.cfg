SPECIFICATION FairSpec
CONSTANTS
    Words <- LoaderWords
    Tails <- LoaderTails
    MaxWords = 4
    MaxSlots = 8
    Indet = Indet
INVARIANT TypeOK
INVARIANT OffsetInFile
INVARIANT TranslatedIsValidated
INVARIANT ValidatorReadsDefined
INVARIANT RunsWholeFile
INVARIANT DisplacementInMemory
INVARIANT ReachableReleased
INVARIANT CorruptionNeedsGrowth
PROPERTY EndsUnlessValueCut

SPECIFICATION FairSpec
CONSTANTS
    Words <- FewWords
    Tails <- LoaderTails
    MaxWords = 3
    MaxSlots = 8
    Indet = Indet
PROPERTY RefusedIsReported

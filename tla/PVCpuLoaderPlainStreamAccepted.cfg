SPECIFICATION Spec
CONSTANTS
    Words <- LoaderWords
    Tails <- LoaderTails
    MaxWords = 3
    MaxSlots = 8
    Indet = Indet
INVARIANT PlainStreamAccepted

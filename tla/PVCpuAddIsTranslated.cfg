SPECIFICATION MainFairSpec
CONSTANTS
    Words <- TestWords
    Tails <- MainTails
    Commands <- MainCommands
    MaxWords = 6
    MaxSlots = 8
    Indet = Indet
INVARIANT AddIsTranslated

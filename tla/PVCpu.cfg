SPECIFICATION MainFairSpec
CONSTANTS
    Words <- MainWords
    Tails <- MainTails
    Commands <- MainCommands
    MaxWords = 6
    MaxSlots = 8
    Indet = Indet
INVARIANT CompletedIsComplete
PROPERTY Pipeline
PROPERTY MainEnds

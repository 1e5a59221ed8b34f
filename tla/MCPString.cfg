SPECIFICATION FairSpec
CONSTANTS
    Letters = {"a"}
    MaxText = 8
    MaxPiece = 2
    Guess = 1
    Memory = 2
INVARIANTS
    LenIsText
    InBounds
    SomethingToShow
PROPERTIES
    LoopsEnd
    ImplementsDocument

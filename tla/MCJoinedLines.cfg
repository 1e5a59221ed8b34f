SPECIFICATION Spec
CONSTANTS
    Letters = {"a"}
    MaxText = 5
    MaxPiece = 2
    Guess = 1
    Memory = 2
INVARIANTS
    LinesKept

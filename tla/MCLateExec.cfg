SPECIFICATION Spec
CONSTANTS
    Names = {n}
    HEAD = HEAD
    IndentAmount = 1
    MaxDepth = 1
    MaxOptions = 2
    OldBlocks = 2
INVARIANTS
    IndentAsserted

SPECIFICATION Spec
CONSTANTS
    Names = {n}
    HEAD = HEAD
    IndentAmount = 1
    MaxDepth = 7
    GetifaddrsFails = TRUE
    Platforms = {"linux"}
INVARIANT Parseable

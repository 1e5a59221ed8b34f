SPECIFICATION Spec
CONSTANTS
    Names = {n1, n2}
    HEAD = HEAD
    IndentAmount = 2
    MaxDepth = 4
INVARIANTS
    NeverDies
    WellFormed
    IndentFollowsNesting
    CrumbsFollowNesting

SPECIFICATION FairSpec
CONSTANTS
    Node = {a, b, c, d}
    HEAD = HEAD
    Values = {1, 2}
INVARIANTS
    LinksFollowRing
    NoDangling
    SortedAndStable
    LoopTakesAll
PROPERTIES
    CallsEnd

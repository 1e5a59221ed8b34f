CONSTANTS
    Cpus = 5
    Word = 2
    Arbitrary = 2
    CPU_SETSIZE = 4
    MaxGroups = 4
    Room = 2
    Memory = 5
    MaxText = 3
    MaxString = 6
    Interfaces = {i1, i2, i3}
    MaxEntries = 4
    Pids = {1, 2, 3, 4}
    Self = 3
    Attempts = 3
SPECIFICATION FairSpec
INVARIANTS
    ExactList
    LooksInside
    CpusetReleased
    AllGroupsShown
    ReadBack
    RoomMeasured
    FieldsFound
    
    CacheSound
    OwnMac
    AllDisplayed
    Genuine
    FullAncestry
PROPERTIES
    AskingEnds
    LoopsEnd
    WalkEnds

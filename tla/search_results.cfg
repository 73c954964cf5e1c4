SPECIFICATION Spec
CONSTANTS
    Docs = {1, 2}
    Searchers = {1}
    Kinds <- TwoKinds
    Scores = {0, 1}
    TopK = 2
    MinFetch = 30
    SpareBuffers = 1
    MaxWrites = 3
    MaxMerges = 1
INVARIANTS
    SlotsHoldTheirSegments
    SnapshotFollowsBuffer
    DeletedStaysHidden
    ShortResultIsComplete
    NewestMatchWins
    RequiredTermIsCurrent
    
CHECK_DEADLOCK FALSE

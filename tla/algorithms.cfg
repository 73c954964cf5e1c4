SPECIFICATION Spec
CONSTANTS
    ByteBits = 4
    Groups = 2
    Width8 = 3
    Width16 = 4
    Digit = 5
    RadixMin = 3
    MaxID = 2
    Documents = {0, 1, 2, 3, 4, 5, 6, 7}
    Lists <- MCLists
    PerBlock = 2
    Stride = 2
    WalkSteps = 1
    CacheSize = 1
    Addrs <- MCAddrs
    Shards = {0, 1}
    Reports <- MCReports
    MaxChanges = 2
    Jobs <- MCJobs
CHECK_DEADLOCK FALSE
INVARIANTS
    ReadBackAsWritten
    
    IndexHoldsLastVersions
    TopKIsExhaustive
PROPERTIES
    CursorImplements
    RingFollowsMembers

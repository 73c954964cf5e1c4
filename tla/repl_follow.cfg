SPECIFICATION FairSpec
CONSTANTS
    Replicas = {r1}
    RingSize = 2
    ChanSize = 1
    Window = 1
    MaxAttempts = 2
    Faults = {"crash", "stop", "break", "reset", "rotate", "apply"}
    MaxSeq = 3
    MaxWrites = 3
    MaxFaults = 2
INVARIANTS
    TypeOK
    CaughtUpIsEqual
    PositionIsDurable
    StreamIsContiguous
PROPERTIES
    ReseedOnlyWhenFlushed
    Converges

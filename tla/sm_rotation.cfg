SPECIFICATION Spec
CONSTANTS
    Docs = {d1, d2}
    Threads = {t1}
    NoThread = NoThread
    Builders = {b1, b2}
    Batches <- SingleBatches
    Operations = {"index", "flush", "close", "crash"}
    MaxBufferDocs = 9
    SyncWAL = FALSE
    IOErrors = FALSE
    MaxSeq = 4
    MaxStops = 3
SYMMETRY DataSymmetry
INVARIANTS
    TypeOK
    NextSeqIsFresh
    FlushSeqCoversSegment
    RegisteredFilesExist
    
PROPERTIES
    RotationIsSafe
    SegmentsAreImmutable

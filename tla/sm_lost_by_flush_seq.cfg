SPECIFICATION Spec
CONSTANTS
    Docs = {d1, d2}
    Threads = {t1, t2}
    NoThread = NoThread
    Builders = {b1, b2}
    Batches <- SingleBatches
    Operations = {"index", "crash"}
    MaxBufferDocs = 1
    SyncWAL = TRUE
    IOErrors = FALSE
    MaxSeq = 3
    MaxStops = 1
SYMMETRY DataSymmetry
INVARIANTS
    HighWaterIsDurable

SPECIFICATION Spec
CONSTANTS
    Docs = {d1, d2}
    Threads = {t1}
    NoThread = NoThread
    Builders = {b1, b2}
    Batches <- AllBatches
    Operations = {"index", "close", "crash"}
    MaxBufferDocs = 2
    SyncWAL = TRUE
    IOErrors = FALSE
    MaxSeq = 5
    MaxStops = 3
SYMMETRY DataSymmetry
INVARIANTS
    HighWaterIsDurable
    SeqNeverRewinds
PROPERTIES
    ImplementsDurableStore

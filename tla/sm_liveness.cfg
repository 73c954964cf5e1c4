SPECIFICATION FairSpec
CONSTANTS
    Docs = {d1}
    Threads = {t1, t2}
    NoThread = NoThread
    Builders = {b1, b2}
    Batches <- SingleBatches
    Operations = {"index", "bulk", "flush", "gc"}
    MaxBufferDocs = 1
    SyncWAL = TRUE
    IOErrors = TRUE
    MaxSeq = 2
    MaxStops = 0
INVARIANTS
    BuilderOwnership
PROPERTIES
    RequestsComplete

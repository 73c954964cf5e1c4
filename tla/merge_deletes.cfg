SPECIFICATION Spec
CONSTANTS
    Docs = {d1, d2}
    Mergers = {m1, m2}
    Nobody = Nobody
    Policies = {"tier", "expunge", "force"}
    Operations = {"delete"}
    SegmentsPerTier = 2
    MaxMergeAtOnce = 4
    MaxSeq = 5
    MaxFaults = 0
SYMMETRY Symmetry
INVARIANTS
    OnceWrittenStaysDeleted

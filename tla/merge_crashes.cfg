SPECIFICATION Spec
CONSTANTS
    Docs = {d1, d2}
    Mergers = {m1, m2}
    Nobody = Nobody
    Policies = {"tier", "force"}
    Operations = {"crash", "abort"}
    SegmentsPerTier = 1
    MaxMergeAtOnce = 5
    MaxSeq = 4
    MaxFaults = 2
SYMMETRY Symmetry
INVARIANTS
    RegisteredFilesExist
    LatestWriteWins

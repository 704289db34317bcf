CONSTANTS
    Fetches = {f1, f2}
    Seed = seed
    None = none
    Requests = {r1}
    MaxPages = 1
    Overlap = TRUE
    DiskErrors = TRUE
    Interrupts = TRUE
    Crashes = TRUE
SPECIFICATION FairSpec
INVARIANTS IInv SnapshotSurvives QuiescentCacheUsable
PROPERTIES ReadersSeeSnapshots EveryCallEnds
\* Every call ends, and then nothing happens any more.
CHECK_DEADLOCK FALSE

CONSTANTS
    Fetches = {f1, f2, f3}
    Seed = seed
    None = none
    Requests = {r1, r2}
    MaxPages = 1
    Overlap = TRUE
    DiskErrors = FALSE
    Interrupts = FALSE
    Crashes = FALSE
SPECIFICATION Spec
SYMMETRY Symmetry
INVARIANTS HitMatchesRequest NoLitter
\* Every call ends, and then nothing happens any more.
CHECK_DEADLOCK FALSE

CONSTANTS
    d1 = d1
    d2 = d2
    Builds = {b1}
    Dirs = {d1, d2}
    None = none
    MaxPages = 2
    Content <- MCContent
    RawChanges = TRUE
    DiskErrors = FALSE
    Stops = FALSE
SPECIFICATION Spec
INVARIANTS LineageIsTrue
\* Every build ends, and then nothing happens any more.
CHECK_DEADLOCK FALSE

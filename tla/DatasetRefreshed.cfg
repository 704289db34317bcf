CONSTANTS
    d1 = d1
    d2 = d2
    Builds = {b1}
    Dirs = {d1, d2}
    None = none
    MaxPages = 2
    Content <- MCContent
    RawChanges = TRUE
    DiskErrors = TRUE
    Stops = TRUE
SPECIFICATION Spec
INVARIANTS NumbersAreUnique CountsMatchManifest
\* Every build ends, and then nothing happens any more.
CHECK_DEADLOCK FALSE

CONSTANTS
    d1 = d1
    d2 = d2
    Builds = {b1, b2}
    Dirs = {d1, d2}
    None = none
    MaxPages = 2
    Content <- MCContent
    RawChanges = FALSE
    DiskErrors = FALSE
    Stops = FALSE
SPECIFICATION FairSpec
INVARIANTS LineageIsTrue BuildsEndInOrder
PROPERTIES PublishedDatasetsStay BuildEnds
\* Every build ends, and then nothing happens any more.
CHECK_DEADLOCK FALSE

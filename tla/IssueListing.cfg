CONSTANTS
    MaxIssues = 4
    Deletions = TRUE
    PerPage = 1
    MaxPages = 3
    MAX_RETRIES = 3
    MaxWait = 60
    Base = 1
    Cap = 30
    RetryAfter = {0, 60, 61}
    Unset = unset
SPECIFICATION FairSpec
INVARIANTS PatienceIsBounded OverlooksOnlyForDeletions RepeatsOnlyForOpenings
PROPERTIES ListingEnds
\* A listing ends, and then nothing happens any more.
CHECK_DEADLOCK FALSE

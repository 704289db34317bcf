CONSTANTS
    d1 = d1
    d2 = d2
    c1 = c1
    c2 = c2
    x = x
    y = y
    env1 = env1
    env2 = env2
    none = none
    Commands = {b1, b2}
    Given <- MCGiven
    Datasets <- MCDatasets
    Configs <- MCConfigs
    Winner <- MCWinner
    Faults = TRUE
    None = none
SPECIFICATION Spec
SYMMETRY Symmetry
INVARIANTS LineageIsClosed AnswersRequest BundlesAreOneChain
PROPERTIES LitterIsExplained
\* The commands end, and then nothing happens any more.
CHECK_DEADLOCK FALSE

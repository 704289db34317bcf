CONSTANTS
    Labels = {1, 2}
    Times = {1, 2, 3}
    MonthOf <- MCMonthOf
    None = none
    FallbackThreshold = 2
    Datasets <- MCDatasets
    PolicyConfigs <- MCPolicyConfigs
    SplitConfigs <- MCSplitConfigs
    Similarities <- MCSimilarities
    TopKs = {1, 3}
    Cuts <- MCCuts
    Whole = 12
SPECIFICATION Spec
INVARIANTS TargetsAreInUse NoLookAhead TargetsCarryOver UsedMeansDerived RefusalsAreExplained NeighborsAreTheNearest
\* The commands end, and then nothing happens any more.
CHECK_DEADLOCK FALSE

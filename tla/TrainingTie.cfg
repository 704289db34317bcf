CONSTANTS
    Scale = 1680
    Unit = 10
    ServedUnit = 10
    BaselineConfigs <- MCBaselineConfigs
    Validations <- MCValidations
    Tests <- MCTests
    ThresholdConfigs <- MCThresholdConfigs
    AbstentionConfigs <- MCAbstentionConfigs
SPECIFICATION Spec
INVARIANTS StagedIsAccepted
\* The commands end, and then nothing happens any more.
CHECK_DEADLOCK FALSE

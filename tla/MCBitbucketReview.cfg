SPECIFICATION Spec
CONSTANTS
    f1 = f1
    f2 = f2
    Findings <- TwoFindings
    Authors = {"member", "stranger"}
    MaxScanned = 1
    MaxAcked = 1
    MaxCommands = 2
    MaxBehind = 1
    MaxFaults = 1
    FaultKinds <- AllFaults
INVARIANTS
    AckedWasAnswered
    AckedIsRecorded
    HiddenWasAsked
PROPERTIES
    NumbersAsPromised
    DismissalKept
    CommandsSettle
CHECK_DEADLOCK FALSE

SPECIFICATION Spec
CONSTANTS
    high = high
    low = low
    c1 = c1
    Findings <- MCFindings
    Severe <- MCSevere
    Inline <- MCInline
    Commands <- MCCommands
    Words <- MCWords
    ApprovalCeiling = "approve"
    MaxRuns = 2
    MaxFaults = 1
PROPERTIES
    ReadDismissalsSurvive
    DismissedNotPosted
    LastResolutionUnblocks
    ApprovalIsEarned
CHECK_DEADLOCK FALSE

SPECIFICATION ReviewSpec
CONSTANTS
    high = high
    low = low
    Findings <- MCFindings
    Severe <- MCSevereAll
    Inline <- MCInline
    MaxRuns = 2
    MaxFaults = 1
INVARIANT PostFailureKeepsBlock
CHECK_DEADLOCK FALSE

SPECIFICATION ReviewSpec
CONSTANTS
    high = high
    low = low
    Findings <- MCFindings
    Severe <- MCSevere
    Inline <- MCInline
    MaxRuns = 2
    MaxFaults = 2
INVARIANTS CleanRunTidies FindingsStayVisible CleanRunBlocks
PROPERTIES NotApprovedOverOpen
CHECK_DEADLOCK FALSE

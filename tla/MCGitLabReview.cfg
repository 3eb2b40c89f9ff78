SPECIFICATION Spec
CONSTANTS
    Findings <- FewFindings
    AddedLines <- FewDiffs
    MAX_INLINE = 2
    MaxFaults = 1
INVARIANTS
    ReportedIsVisible
    OnlyReportedIsVisible
PROPERTIES
    DuplicatesHeal
CHECK_DEADLOCK FALSE

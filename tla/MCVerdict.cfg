CONSTANTS
    Agents = {"logic", "safety"}
    Analyzers = {"ruff", "eslint", "suppression-check"}
    Standalone = {"suppression-check"}
    MaxLine = 8
    Added = {2, 4, 6}
    Scope = "cap"
    Ruled = {"eslint"}
    Repeats = 1
    JudgePass = TRUE
CONSTANTS
    Answers <- AgentAnswers
    Known <- AnalyzerFindings
SPECIFICATION Spec
CHECK_DEADLOCK FALSE
INVARIANTS
    MergeKeepsSeverity
    ClustersSound
    ApprovalIsEarned
    SkipHidesNoAnswer
PROPERTY
    JudgeOnlyMoves

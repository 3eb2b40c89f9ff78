CONSTANTS
    Writers = {w1, w2, w3}
    Keys = {verdict}
    DedupKeys = {verdict}
    DedupWindow = 0
    MaxCount = 2
    MaxAge = 1
    MaxTime = 2
    MaxRetries = 2
    Commands = {c1, c2, c3}
    MaxFaults = 1
SPECIFICATION BackendSpec
CHECK_DEADLOCK FALSE
INVARIANTS
    LostRacesNeedCommits
    StoredOnce
PROPERTIES
    ImplementsLog
    Returns
    AllTold

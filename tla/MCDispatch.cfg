CONSTANTS
    Agents = {a1, a2, b}
    Premium = {a1, a2}
    HasFallback = TRUE
    Slots = 2
    RetryCount = 1
SPECIFICATION FairSpec
INVARIANTS
    OneResultEach
    RequestsBounded
    RefusalFallsBack
PROPERTIES
    ImplementsTier
    TierEnds

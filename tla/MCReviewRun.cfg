\* Three overlapping runs, two commits, force-pushes included.
CONSTANTS
    Runs = {r1, r2, r3}
    MaxCommits = 2
    MaxComments = 3
SYMMETRY RunSymmetry
SPECIFICATION Spec
CHECK_DEADLOCK FALSE
INVARIANTS
    WatermarkCovered
    LandedRunCoversHead
    KeptCommentIsLive

SPECIFICATION FairSpec
CONSTANTS
    question = question
    answer = answer
    None = None
    Surface <- PairSurface
    Input <- PairInput
    MaxFaults = 2
    MaxCrashes = 1
INVARIANTS
    TypeOK
    NoHitForgotten
    PassedMeansChecked
PROPERTIES
    ModerationEnds
    KnownHitHidden
    OrphanedHitHidden
CHECK_DEADLOCK FALSE

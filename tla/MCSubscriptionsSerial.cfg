SPECIFICATION Spec
CONSTANTS
    low = low
    lower = lower
    mid = mid
    high = high
    admin = admin
    Grant = {low, lower, mid, high, admin}
    Manual = {admin}
    Rank <- MCRank
    Duration <- MCDuration
    Serialised = TRUE
    MaxTime = 8
INVARIANTS
    TypeOK
    NoOverlap
    PaidTimeKept
    BestPlanInForce
PROPERTIES
    BetterPlansStay
CHECK_DEADLOCK FALSE

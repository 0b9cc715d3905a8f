SPECIFICATION Spec
CONSTANTS
    low = low
    lower = lower
    mid = mid
    high = high
    admin = admin
    Grant = {low, lower, mid, high, admin}
    Manual = {admin}
    Rank <- MCRank
    Duration <- MCDuration
    Serialised = FALSE
    MaxTime = 8
INVARIANTS
    PaidTimeKept
CHECK_DEADLOCK FALSE

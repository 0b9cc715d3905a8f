SPECIFICATION SessionSpec
CONSTANTS
    r1 = r1
    r2 = r2
    s1 = s1
    s2 = s2
    Run = {r1, r2}
    Session = {s1, s2}
    RunOf <- MCRunOfApart
    LegacyRun = {}
    MaxActive = 2
    LeaseTicks = 1
    RenewDelay = 0
    Month = {1}
    Limit = {}
    Amount = {0, 1}
    MonthSlip = FALSE
    MaxBalance = 1
    MaxExcess = 0
    MaxInt64 = 3
    Attempts = 2
    MaxFaults = 0
    ContextsExpire = TRUE
INVARIANTS
    FailedSettlementIsMarked
CHECK_DEADLOCK FALSE

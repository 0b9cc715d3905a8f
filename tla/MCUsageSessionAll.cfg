SPECIFICATION SessionSpec
CONSTANTS
    r1 = r1
    r2 = r2
    s1 = s1
    s2 = s2
    Run = {r1}
    Session = {s1, s2}
    RunOf <- MCRunOfTwice
    LegacyRun = {}
    MaxActive = 2
    LeaseTicks = 2
    RenewDelay = 1
    Month = {1}
    Limit = {}
    Amount = {0, 2}
    MonthSlip = FALSE
    MaxBalance = 2
    MaxExcess = 0
    MaxInt64 = 3
    Attempts = 2
    MaxFaults = 4
    ContextsExpire = TRUE
INVARIANTS
    SessionTypeOK
    FinishedRunAccountedFor
    BilledWhatARunCost
    OneHolderPerReservation
PROPERTIES
    ImplementsBilling
    LeasesEnd
    FinishReturns
CHECK_DEADLOCK FALSE

SPECIFICATION Spec
CONSTANTS
    r1 = r1
    r2 = r2
    r3 = r3
    Run = {r1, r2, r3}
    LegacyRun = {}
    MaxActive = 2
    LeaseTicks = 2
    RenewDelay = 1
    Month = {1}
    Limit = {}
    Amount = {1, 2}
    MonthSlip = FALSE
    MaxBalance = 3
    MaxExcess = 0
    MaxInt64 = 3
SYMMETRY MCSymmetry
INVARIANTS
    BalanceMatchesTransactions
    FundsCoverHolds
    LiveLeasesWithinSlots
PROPERTIES
    ChargedOncePerRun
    ReservationLifecycle
CHECK_DEADLOCK FALSE

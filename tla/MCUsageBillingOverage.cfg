SPECIFICATION Spec
CONSTANTS
    r1 = r1
    r2 = r2
    r3 = r3
    Run = {r1, r2}
    LegacyRun = {}
    MaxActive = 2
    LeaseTicks = 1
    RenewDelay = 0
    Month = {1}
    Limit = {2}
    Amount = {0, 1, 2}
    MonthSlip = FALSE
    MaxBalance = 2
    MaxExcess = 0
    MaxInt64 = 4
SYMMETRY MCSymmetry
INVARIANTS
    ReservationsDoNotChangeCharges

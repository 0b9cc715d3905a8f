---------------------------- MODULE UsageBilling ----------------------------
(***************************************************************************)
(* The usage-billing tables of one user: the balance account, the budget   *)
(* reservations of its model runs and the usage ledger.  Every operation   *)
(* of the repository is one transaction, so one action; the operations     *)
(* that read sums lock the account row first, and the others change one    *)
(* reservation row and do not.  A renewal reads the clock before its       *)
(* update, so it may be late: its update knows the time of a while ago.    *)
(*                                                                         *)
(* Callers are unconstrained: any operation may be called for any run at   *)
(* any time, which is what several server processes, retries and late      *)
(* answers amount to.  A call that the code rejects changes nothing and is *)
(* not an action.                                                          *)
(***************************************************************************)
EXTENDS BudgetArithmetic

CONSTANTS
    Run,          \* reference numbers (client run ids): ref_no of a reservation and of a ledger entry
    LegacyRun,    \* those with a pre-upgrade usage_reserve / usage_refund transaction
    MaxActive,    \* UsageReservationMaxActivePerUser
    LeaseTicks,   \* usageReservationTTL, in clock ticks
    RenewDelay,   \* the longest time, in ticks, from a renewal's reading of the clock to its update
    Month,        \* the billing periods (calendar months)
    Limit,        \* the period credits a plan may grant
    Amount,       \* the amounts of money (nanousd) that are requested, billed or deposited
    MonthSlip,    \* may a run start in the month after the one it was authorised in?
    MaxBalance,   \* bound: deposits stop here
    MaxExcess     \* bound: administrators stop lowering the balance here

ASSUME RunAssumption == IsFiniteSet(Run) /\ LegacyRun \subseteq Run
ASSUME MaxActiveAssumption == MaxActive \in Nat \ {0}
ASSUME LeaseTicksAssumption == LeaseTicks \in Nat \ {0}
ASSUME RenewDelayAssumption == RenewDelay \in Nat
ASSUME MonthAssumption == Month \subseteq Nat \ {0}
ASSUME LimitAssumption == Limit \subseteq Nat
ASSUME AmountAssumption == Amount \subseteq Nat
ASSUME MonthSlipAssumption == MonthSlip \in BOOLEAN
ASSUME BoundAssumption == MaxBalance \in Nat /\ MaxExcess \in Nat

VARIABLES
    balance,      \* billing_accounts.balance_nanousd; negative is a debt
    row,          \* billing_usage_reservations, by ref_no
    ledger,       \* billing_usage_ledgers and the usage_debit transaction of each, by ref_no
    deposited,    \* sum of the topup, redemption and admin_set transactions
    excess,       \* history: money taken beyond what was held for it
    reclaimed     \* history: runs that claimed their budget again after their lease had lapsed

vars == <<balance, row, ledger, deposited, excess, reclaimed>>

-----------------------------------------------------------------------------
Modes == {"usage", "period"}

\* The budget terms a reservation is requested under.  Outside period mode
\* there is no period, and its limit stays 0.
Terms == [mode : {"usage"}, month : {0}, limit : {0}]
             \cup [mode : {"period"}, month : Month, limit : Limit]

Statuses == {"none", "active", "settled", "released", "reconciliation"}

\* lease is the time left until expires_at.  Below 0 the lease lapsed that long
\* ago, RenewDelay standing for all times that no renewal under way remembers.
\* It is kept at 0 once the row is no longer active, because expires_at is not
\* read after that.
Lease == (-RenewDelay) .. LeaseTicks

Reservation == [status : Statuses, mode : Modes, balance : Nat, credit : Nat,
                limit : Nat, month : Nat, lease : Lease]

NoReservation == [status |-> "none", mode |-> "usage", balance |-> 0, credit |-> 0,
                  limit |-> 0, month |-> 0, lease |-> 0]

\* month is that of billing_at; period the one whose credit paid for covered
\* (0: none); charged is the amount of the usage_debit transaction (0: none).
Entry == [posted : BOOLEAN, billed : Nat, charged : Nat, covered : Nat,
          month : Nat, period : Nat]

NoEntry == [posted |-> FALSE, billed |-> 0, charged |-> 0, covered |-> 0,
            month |-> 0, period |-> 0]

-----------------------------------------------------------------------------
(***************************************************************************)
(* What the transactions read.                                             *)
(***************************************************************************)

\* (status = active AND expires_at > now) OR status = reconciliation
Occupies(r) == \/ row[r].status = "active" /\ row[r].lease > 0
               \/ row[r].status = "reconciliation"

Occupying == {r \in Run : Occupies(r)}

BalancePart == [r \in Run |-> row[r].balance]
CreditPart  == [r \in Run |-> row[r].credit]
Billed      == [r \in Run |-> ledger[r].billed]
Charged     == [r \in Run |-> ledger[r].charged]
Covered     == [r \in Run |-> ledger[r].covered]

CountActiveUsageReservations == Cardinality(Occupying)

SumActiveBalanceReservations(exclude) == Sum(BalancePart, Occupying \ exclude)

SumActivePeriodCreditReservations(m, exclude) ==
    Sum(CreditPart, {r \in Occupying \ exclude : row[r].month = m})

\* A free model's entry is one with billed = 0 here: it neither counts towards
\* the period nor is charged.
SumPeriodBilledNanousd(m) == Sum(Billed, {r \in Run : ledger[r].month = m})

\* Mutant: what other runs hold is not subtracted.
MutAvailableBalance(exclude) == RemainingNonNegativeBudget(balance, 0, 0)

AvailableBalance(exclude) ==
    RemainingNonNegativeBudget(balance, SumActiveBalanceReservations(exclude), 0)

\* Mutant: what the period already billed is not subtracted.
MutRemainingCreditUnbilled(m, limit, exclude) ==
    RemainingNonNegativeBudget(limit, 0, SumActivePeriodCreditReservations(m, exclude))

\* Mutant: what other runs reserved of the credit is not subtracted.
MutRemainingCreditUnreserved(m, limit, exclude) ==
    RemainingNonNegativeBudget(limit, SumPeriodBilledNanousd(m), 0)

RemainingCredit(m, limit, exclude) ==
    RemainingNonNegativeBudget(limit, SumPeriodBilledNanousd(m),
                               SumActivePeriodCreditReservations(m, exclude))

AvailableCredit(terms, exclude) ==
    IF terms.mode = "period" THEN RemainingCredit(terms.month, terms.limit, exclude) ELSE 0

Available(terms, exclude) ==
    AddNonNegativeInt64(AvailableCredit(terms, exclude), AvailableBalance(exclude))

TermsOf(r) == [mode |-> row[r].mode, month |-> row[r].month, limit |-> row[r].limit]

-----------------------------------------------------------------------------
(***************************************************************************)
(* Reservations.                                                           *)
(***************************************************************************)
Init ==
    /\ balance = 0
    /\ row = [r \in Run |-> NoReservation]
    /\ ledger = [r \in Run |-> NoEntry]
    /\ deposited = 0
    /\ excess = 0
    /\ reclaimed = {}

\* A request for 0 asks for an equal share of what is available.
Grant(terms, requested) ==
    IF requested <= 0
    THEN DivideBudgetAcrossSlots(Available(terms, {}),
                                 MaxActive - CountActiveUsageReservations)
    ELSE requested

\* Mutant: off by one, a run more than there are slots.
MutCanReserve(r, terms, requested) ==
    /\ row[r].status = "none" /\ r \notin LegacyRun
    /\ CountActiveUsageReservations <= MaxActive
    /\ balance >= 0
    /\ Grant(terms, requested) > 0
    /\ Grant(terms, requested) <= Available(terms, {})

\* Mutant: a reservation of the same run is not looked for.
MutCanReserveAgain(r, terms, requested) ==
    /\ r \notin LegacyRun
    /\ CountActiveUsageReservations < MaxActive
    /\ balance >= 0
    /\ Grant(terms, requested) > 0
    /\ Grant(terms, requested) <= Available(terms, {})

CanReserve(r, terms, requested) ==
    /\ row[r].status = "none" /\ r \notin LegacyRun
    /\ CountActiveUsageReservations < MaxActive
    /\ balance >= 0
    /\ Grant(terms, requested) > 0
    /\ Grant(terms, requested) <= Available(terms, {})

ReserveUsageBalance(r, terms, requested) ==
    LET granted == Grant(terms, requested)
        credit  == MinInt64(granted, AvailableCredit(terms, {}))
    IN  /\ CanReserve(r, terms, requested)
        /\ row' = [row EXCEPT ![r] =
                     [status |-> "active", mode |-> terms.mode,
                      balance |-> granted - credit, credit |-> credit,
                      limit |-> terms.limit, month |-> terms.month,
                      lease |-> LeaseTicks]]
        /\ UNCHANGED <<balance, ledger, deposited, excess, reclaimed>>

Live(r) == row[r].status = "active" /\ row[r].lease > 0

\* A requirement the reservation already covers leaves it as it is, so only
\* raises are steps.  The account's debt is not looked at: a negative balance
\* has no available budget.
RaiseUsageBalanceReservation(r, required) ==
    LET credit == MinInt64(required, AvailableCredit(TermsOf(r), {r}))
    IN  /\ Live(r)
        /\ required > AddNonNegativeInt64(row[r].balance, row[r].credit)
        /\ required <= Available(TermsOf(r), {r})
        /\ row' = [row EXCEPT ![r].balance = required - credit, ![r].credit = credit]
        /\ UNCHANGED <<balance, ledger, deposited, excess, reclaimed>>

\* Mutant: a late release also frees a run that awaits reconciliation.
MutReleaseUsageBalanceReservation(r) ==
    /\ row[r].status \in {"active", "reconciliation"}
    /\ row' = [row EXCEPT ![r].status = "released", ![r].lease = 0]
    /\ UNCHANGED <<balance, ledger, deposited, excess, reclaimed>>

ReleaseUsageBalanceReservation(r) ==
    /\ row[r].status = "active"
    /\ row' = [row EXCEPT ![r].status = "released", ![r].lease = 0]
    /\ UNCHANGED <<balance, ledger, deposited, excess, reclaimed>>

\* A row that occupies nothing claims its budget and its slot again, which may
\* have been given to others.
Claims(r) == reclaimed' = reclaimed \cup (IF Occupies(r) THEN {} ELSE {r})

\* The update of a renewal that read the clock late ticks ago.  Reading it has
\* no effect, so it is no step of its own: what has happened since is in the
\* tables.  A lease that lapsed meanwhile is revived, and one that was extended
\* meanwhile is shortened.
RenewUsageBalanceReservation(r, late) ==
    /\ row[r].status = "active" /\ row[r].lease + late > 0
    /\ row' = [row EXCEPT ![r].lease = LeaseTicks - late]
    /\ Claims(r)
    /\ UNCHANGED <<balance, ledger, deposited, excess>>

\* The lease is not consulted: a row whose budget lapsed claims it again.
MarkUsageReservationReconciliationRequired(r) ==
    /\ row[r].status \in {"active", "reconciliation"}
    /\ row' = [row EXCEPT ![r].status = "reconciliation", ![r].lease = 0]
    /\ Claims(r)
    /\ UNCHANGED <<balance, ledger, deposited, excess>>

Tick ==
    /\ \E r \in Run : row[r].status = "active" /\ row[r].lease > -RenewDelay
    /\ row' = [r \in Run |->
                 IF row[r].status = "active" /\ row[r].lease > -RenewDelay
                 THEN [row[r] EXCEPT !.lease = @ - 1]
                 ELSE row[r]]
    /\ UNCHANGED <<balance, ledger, deposited, excess, reclaimed>>

-----------------------------------------------------------------------------
(***************************************************************************)
(* Settlement.  The ledger is unique by (user_id, ref_no): a run that has   *)
(* an entry gets no second one, whether the entry is read back (replay) or *)
(* the insert is refused (ErrDuplicate, and the transaction rolls back).   *)
(***************************************************************************)

\* What the reservation of r has kept others from using since it was granted.
Held(r) == IF Occupies(r) /\ r \notin reclaimed THEN row[r].balance ELSE 0

\* Mutant: a retried call posts the run again.
MutPost(r, entry, held) ==
    /\ ledger' = [ledger EXCEPT ![r] = entry]
    /\ balance' = balance - entry.charged
    /\ excess' = excess + ClampNonNegative(entry.charged - held)
    /\ UNCHANGED <<deposited, reclaimed>>

Post(r, entry, held) ==
    /\ ~ledger[r].posted
    /\ ledger' = [ledger EXCEPT ![r] = entry]
    /\ balance' = balance - entry.charged
    /\ excess' = excess + ClampNonNegative(entry.charged - held)
    /\ UNCHANGED <<deposited, reclaimed>>

\* getUsageReservationForSettlement: an expired lease does not refuse a settlement.
Settleable(r) == row[r].status \in {"active", "reconciliation"}

SettleUsageReservation(r) ==
    row' = [row EXCEPT ![r].status = "settled", ![r].lease = 0]

UsageEntry(cost, m) ==
    [posted |-> TRUE, billed |-> cost, charged |-> cost, covered |-> 0,
     month |-> m, period |-> 0]

\* otherReserved is what the other runs hold of the credit, used what all
\* entries of the period billed, the part paid from the balance included.
PeriodEntry(cost, m, period, limit, exclude) ==
    LET covered == MinInt64(cost, RemainingCredit(period, limit, exclude))
    IN  [posted |-> TRUE, billed |-> cost, charged |-> cost - covered, covered |-> covered,
         month |-> m, period |-> period]

\* AddUsageAndSettleBalance with the reservation of r.
AddUsageAndSettleBalance(r, cost, m) ==
    /\ Settleable(r) /\ row[r].mode = "usage"
    /\ Post(r, UsageEntry(cost, m), Held(r))
    /\ SettleUsageReservation(r)

\* AddUsageAndSettleBalance without a reservation (a model that was free when
\* the run was authorised).
AddUsageWithoutReservation(r, cost, m) ==
    /\ Post(r, UsageEntry(cost, m), 0)
    /\ UNCHANGED row

BillingMonths(period) ==
    {m \in Month : m = period \/ (MonthSlip /\ m = period + 1)}

\* AddPeriodUsageAndSettleOverage with the reservation of r: settled against the
\* reservation's own period and limit (RecordUsageWithAuthorization).
AddPeriodUsageAndSettleOverage(r, cost, m) ==
    /\ Settleable(r) /\ row[r].mode = "period"
    /\ m \in BillingMonths(row[r].month)
    /\ Post(r, PeriodEntry(cost, m, row[r].month, row[r].limit, {r}), Held(r))
    /\ SettleUsageReservation(r)

\* The same without a reservation, against the plan in force at billing_at.
AddPeriodUsageWithoutReservation(r, cost, m, limit) ==
    /\ Post(r, PeriodEntry(cost, m, m, limit, {}), 0)
    /\ UNCHANGED row

\* AddUsage: self mode keeps the ledger and charges nothing.
AddUsage(r, cost, m) ==
    /\ Post(r, [UsageEntry(cost, m) EXCEPT !.charged = 0], 0)
    /\ UNCHANGED row

-----------------------------------------------------------------------------
(***************************************************************************)
(* The account.                                                            *)
(***************************************************************************)

\* SetBillingAccountBalance: an administrator sets the balance, whatever is held.
SetBillingAccountBalance(amount) ==
    LET lowered == ClampNonNegative(balance - amount)
    IN  /\ lowered = 0 \/ excess + lowered <= MaxExcess
        /\ balance' = amount
        /\ deposited' = deposited + (amount - balance)
        /\ excess' = excess + lowered
        /\ UNCHANGED <<row, ledger, reclaimed>>

\* A paid top-up order or a redeemed code.
CreditBalance(amount) ==
    /\ amount > 0 /\ balance + amount <= MaxBalance
    /\ balance' = balance + amount
    /\ deposited' = deposited + amount
    /\ UNCHANGED <<row, ledger, excess, reclaimed>>

Next ==
    \/ \E r \in Run, terms \in Terms, amount \in Amount :
          ReserveUsageBalance(r, terms, amount)
    \/ \E r \in Run, amount \in Amount : RaiseUsageBalanceReservation(r, amount)
    \/ \E r \in Run : ReleaseUsageBalanceReservation(r)
    \/ \E r \in Run, late \in 0 .. RenewDelay : RenewUsageBalanceReservation(r, late)
    \/ \E r \in Run : MarkUsageReservationReconciliationRequired(r)
    \/ \E r \in Run, amount \in Amount, m \in Month : AddUsageAndSettleBalance(r, amount, m)
    \/ \E r \in Run, amount \in Amount, m \in Month : AddUsageWithoutReservation(r, amount, m)
    \/ \E r \in Run, amount \in Amount, m \in Month : AddPeriodUsageAndSettleOverage(r, amount, m)
    \/ \E r \in Run, amount \in Amount, m \in Month, limit \in Limit :
          AddPeriodUsageWithoutReservation(r, amount, m, limit)
    \/ \E r \in Run, amount \in Amount, m \in Month : AddUsage(r, amount, m)
    \/ \E amount \in Amount : SetBillingAccountBalance(amount)
    \/ \E amount \in Amount : CreditBalance(amount)
    \/ Tick

Spec == Init /\ [][Next]_vars

-----------------------------------------------------------------------------
(***************************************************************************)
(* Properties.                                                             *)
(***************************************************************************)

\* Every row of the tables is one the schema can hold.
TypeOK ==
    /\ balance \in Int
    /\ row \in [Run -> Reservation]
    /\ ledger \in [Run -> Entry]
    /\ deposited \in Int
    /\ excess \in Nat
    /\ reclaimed \subseteq Run

\* The balance is what the account's transactions add up to: no settlement,
\* replayed settlement or administrator's correction moves money without one.
BalanceMatchesTransactions == balance = deposited - Sum(Charged, Run)

\* The balance covers every budget that was held without a break, except for
\* what was taken beyond it: charges above a reservation or after its lease
\* lapsed, and cuts by an administrator.  A budget that lapsed and was claimed
\* again, by a late renewal or a mark, is not promised; if it is charged, that
\* counts as excess.  With none of these the balance cannot become negative,
\* however the operations of concurrent runs interleave
\* (repository_reservation.go:78-113).
FundsCoverHolds ==
    balance + excess >= Sum(BalancePart, Occupying \ reclaimed)

\* The period credit that settlements used up is never more than one plan
\* grants, whatever was reserved, released or overdrawn at the same time
\* (repository.go:631-647).
PeriodCreditNotOversold ==
    ~MonthSlip =>
        \A m \in Month : \E limit \in Limit \cup {0} :
            Sum(Covered, {r \in Run : ledger[r].period = m}) <= limit

\* At most MaxActive runs hold a lease that has not lapsed since they were
\* admitted: the count that admits a run cannot be passed by renewals in time,
\* raises or expiries.  Only a late renewal adds to these, by reviving a lease
\* whose slot may have been given away (repository_reservation.go:241-250).
LiveLeasesWithinSlots ==
    Cardinality({r \in Run : Live(r) /\ r \notin reclaimed}) <= MaxActive

\* A default share leaves every other free slot a budget, so that as many runs
\* as there are slots can start together (the test
\* DefaultBudgetAllowsFiveConcurrentCalls, for every budget).
DefaultShareLeavesRoom ==
    LET free == MaxActive - CountActiveUsageReservations
    IN  \A terms \in Terms :
            free > 0 /\ Available(terms, {}) >= free =>
                /\ Grant(terms, 0) > 0
                /\ Available(terms, {}) - Grant(terms, 0) >= free - 1

\* A run is charged at most once: its entry is final, and only the posting of a
\* run's first entry takes money, exactly what the entry says, unless an
\* administrator does.
ChargedOncePerRun ==
    [][/\ \A r \in Run : ledger[r].posted => ledger'[r] = ledger[r]
       /\ balance' < balance =>
            \/ deposited' < deposited
            \/ \E r \in Run : /\ ~ledger[r].posted /\ ledger'[r].posted
                              /\ balance - balance' = ledger'[r].charged]_vars

\* Settled and released reservations are final; one that awaits reconciliation
\* keeps its budget until it is settled; and nothing is settled but by a step
\* that posts the run's entry.
ReservationLifecycle ==
    [][\A r \in Run :
        /\ row[r].status \in {"settled", "released"} => row'[r] = row[r]
        /\ row[r].status = "reconciliation" =>
             /\ row'[r].status \in {"reconciliation", "settled"}
             /\ row'[r].balance = row[r].balance /\ row'[r].credit = row[r].credit
        /\ row[r].status # "settled" /\ row'[r].status = "settled" =>
             ~ledger[r].posted /\ ledger'[r].posted]_vars

\* What is granted or raised fits, together with everything held at that
\* moment, into the balance and into the period's credit; and a live
\* reservation never shrinks.
GrantsAreCovered ==
    [][\A r \in Run :
        /\ row'[r].balance > row[r].balance =>
             SumActiveBalanceReservations({})' <= balance
        /\ \A m \in Month :
             row'[r].month = m /\ row'[r].credit > row[r].credit =>
                 SumPeriodBilledNanousd(m) + SumActivePeriodCreditReservations(m, {})'
                     <= row'[r].limit
        /\ row[r].status = "active" =>
             row'[r].balance + row'[r].credit >= row[r].balance + row[r].credit]_vars

-----------------------------------------------------------------------------
(***************************************************************************)
(* What the source says and the code does not keep; the run                *)
(* period_overcharge exhibits the behaviour.                               *)
(***************************************************************************)

\* repository.go:676: reservations only limit the risk of concurrency, they do
\* not change the amount that is finally charged.  So once a period's
\* reservations are all resolved, the runs that settled paid from the balance
\* what exceeds the plan's credit, and nothing else.
ReservationsDoNotChangeCharges ==
    \A m \in Month :
        LET posted == {r \in Run : ledger[r].month = m}
        IN  /\ \A r \in posted : row[r].status = "settled" /\ row[r].mode = "period"
            /\ \A r \in Run : row[r].month = m => ~Occupies(r)
            => \E limit \in Limit :
                 Sum(Charged, posted) = ClampNonNegative(Sum(Billed, posted) - limit)

=============================================================================

------------------------- MODULE UsageLedgerProofs -------------------------
(***************************************************************************)
(* Money moves once per run, reservations have a life cycle and keep to    *)
(* their slots, the credit of a period is not oversold, and what is        *)
(* granted is covered.                                                     *)
(***************************************************************************)
EXTENDS UsageBillingProofs

-----------------------------------------------------------------------------
(***************************************************************************)
(* The steps of UsageBilling, by what they do to the ledger.               *)
(***************************************************************************)

\* r's first entry is posted, and its reservation, if it is settled, with it.
Posts(r) ==
    \E entry \in Entry, held \in Nat :
        /\ entry.posted
        /\ Post(r, entry, held)
        /\ \/ UNCHANGED row
           \/ Settleable(r) /\ SettleUsageReservation(r)

\* The account is changed by an administrator or a deposit.
Deposits ==
    /\ UNCHANGED <<row, ledger, reclaimed>>
    /\ balance' - deposited' = balance - deposited
    /\ balance' < balance => deposited' < deposited

Renews(r) == \E late \in 0 .. RenewDelay : RenewUsageBalanceReservation(r, late)

\* A reservation changes, and no money moves.
Reserving ==
    /\ UNCHANGED <<balance, ledger, deposited>>
    /\ \/ \E r \in Run, terms \in Terms, amount \in Amount :
             ReserveUsageBalance(r, terms, amount)
       \/ \E r \in Run, amount \in Amount : RaiseUsageBalanceReservation(r, amount)
       \/ \E r \in Run : ReleaseUsageBalanceReservation(r)
       \/ \E r \in Run : Renews(r)
       \/ \E r \in Run : MarkUsageReservationReconciliationRequired(r)
       \/ Tick

LEMMA EntriesPosted ==
    ASSUME NEW cost, NEW m
    PROVE  /\ UsageEntry(cost, m).posted
           /\ [UsageEntry(cost, m) EXCEPT !.charged = 0].posted
           /\ \A period, limit, exclude : PeriodEntry(cost, m, period, limit, exclude).posted
  BY DEF UsageEntry, PeriodEntry

LEMMA StepKinds ==
    ASSUME TypeOK, Next
    PROVE  (\E r \in Run : Posts(r)) \/ Deposits \/ Reserving
<1>1. ASSUME NEW r \in Run, NEW amount \in Amount, NEW m \in Month,
             AddUsageAndSettleBalance(r, amount, m)
      PROVE  Posts(r)
  BY <1>1, EntryTypes, HeldType, EntriesPosted DEF AddUsageAndSettleBalance, Posts
<1>2. ASSUME NEW r \in Run, NEW amount \in Amount, NEW m \in Month,
             AddUsageWithoutReservation(r, amount, m) \/ AddUsage(r, amount, m)
      PROVE  Posts(r)
  BY <1>2, EntryTypes, EntriesPosted DEF AddUsageWithoutReservation, AddUsage, Posts
<1>3. ASSUME NEW r \in Run, NEW amount \in Amount, NEW m \in Month,
             AddPeriodUsageAndSettleOverage(r, amount, m)
      PROVE  Posts(r)
  <2> DEFINE entry == PeriodEntry(amount, m, row[r].month, row[r].limit, {r})
  <2>1. row[r].month \in Nat /\ row[r].limit \in Nat
    BY DEF TypeOK, Reservation
  <2>2. entry \in Entry /\ entry.posted
    BY <2>1, EntryTypes, EntriesPosted
  <2>3. Post(r, entry, Held(r)) /\ Settleable(r) /\ SettleUsageReservation(r)
    BY <1>3 DEF AddPeriodUsageAndSettleOverage
  <2> HIDE DEF entry
  <2> QED BY <2>2, <2>3, HeldType DEF Posts
<1>4. ASSUME NEW r \in Run, NEW amount \in Amount, NEW m \in Month, NEW limit \in Limit,
             AddPeriodUsageWithoutReservation(r, amount, m, limit)
      PROVE  Posts(r)
  <2> DEFINE entry == PeriodEntry(amount, m, m, limit, {})
  <2>1. entry \in Entry /\ entry.posted
    BY EntryTypes, EntriesPosted, MonthAssumption, LimitAssumption
  <2>2. Post(r, entry, 0) /\ UNCHANGED row
    BY <1>4 DEF AddPeriodUsageWithoutReservation
  <2> HIDE DEF entry
  <2> QED BY <2>1, <2>2 DEF Posts
<1>5. ASSUME NEW amount \in Amount, SetBillingAccountBalance(amount)
      PROVE  Deposits
  BY <1>5, AmountAssumption DEF SetBillingAccountBalance, Deposits, TypeOK
<1>6. ASSUME NEW amount \in Amount, CreditBalance(amount)
      PROVE  Deposits
  BY <1>6, AmountAssumption DEF CreditBalance, Deposits, TypeOK
<1>7. ASSUME NEW r \in Run, NEW terms \in Terms, NEW amount \in Amount,
             ReserveUsageBalance(r, terms, amount)
      PROVE  Reserving
  BY <1>7 DEF ReserveUsageBalance, Reserving
<1>8. ASSUME NEW r \in Run, NEW amount \in Amount, RaiseUsageBalanceReservation(r, amount)
      PROVE  Reserving
  BY <1>8 DEF RaiseUsageBalanceReservation, Reserving
<1>9. ASSUME NEW r \in Run, \/ ReleaseUsageBalanceReservation(r)
                            \/ Renews(r)
                            \/ MarkUsageReservationReconciliationRequired(r)
      PROVE  Reserving
  BY <1>9 DEF ReleaseUsageBalanceReservation, Renews, RenewUsageBalanceReservation,
     MarkUsageReservationReconciliationRequired, Reserving
<1>10. CASE Tick
  BY <1>10 DEF Tick, Reserving
<1> QED BY <1>1, <1>2, <1>3, <1>4, <1>5, <1>6, <1>7, <1>8, <1>9, <1>10 DEF Renews, Next

-----------------------------------------------------------------------------
(***************************************************************************)
(* Money.                                                                  *)
(***************************************************************************)
PostedOnce ==
    /\ \A r \in Run : ledger[r].posted => ledger'[r] = ledger[r]
    /\ balance' < balance =>
         \/ deposited' < deposited
         \/ \E r \in Run : /\ ~ledger[r].posted /\ ledger'[r].posted
                           /\ balance - balance' = ledger'[r].charged

LEMMA PostedEntry ==
    ASSUME TypeOK, NEW r \in Run, Posts(r)
    PROVE  /\ ~ledger[r].posted /\ ledger'[r] \in Entry /\ ledger'[r].posted
           /\ \A q \in Run \ {r} : ledger'[q] = ledger[q]
           /\ balance' = balance - ledger'[r].charged
           /\ deposited' = deposited
<1>1. PICK entry \in Entry, held \in Nat : entry.posted /\ Post(r, entry, held)
  BY DEF Posts
<1>2. ledger \in [Run -> Entry] /\ ledger' = [ledger EXCEPT ![r] = entry]
  BY <1>1 DEF Post, TypeOK
<1>3. ledger'[r] = entry /\ \A q \in Run \ {r} : ledger'[q] = ledger[q]
  BY <1>2
<1>4. ~ledger[r].posted /\ balance' = balance - entry.charged /\ deposited' = deposited
  BY <1>1 DEF Post
<1> QED BY <1>1, <1>3, <1>4

LEMMA PostedOnceStep ==
    ASSUME TypeOK, [Next]_vars
    PROVE  PostedOnce
<1>1. ASSUME NEW r \in Run, Posts(r) PROVE PostedOnce
  <2>1. /\ ~ledger[r].posted /\ ledger'[r].posted
        /\ \A q \in Run \ {r} : ledger'[q] = ledger[q]
        /\ balance' = balance - ledger'[r].charged
        /\ ledger'[r].charged \in Nat
    BY <1>1, PostedEntry DEF Entry
  <2>2. balance - balance' = ledger'[r].charged
    BY <2>1 DEF TypeOK
  <2> QED BY <2>1, <2>2 DEF PostedOnce
<1>2. CASE Deposits
  BY <1>2 DEF Deposits, PostedOnce
<1>3. ASSUME UNCHANGED <<balance, ledger>> PROVE PostedOnce
  BY <1>3 DEF PostedOnce, TypeOK
<1>4. Reserving \/ UNCHANGED vars => UNCHANGED <<balance, ledger>>
  BY DEF Reserving, vars
<1> QED BY <1>1, <1>2, <1>3, <1>4, StepKinds

\* However often a settlement is retried or replayed, a run is charged once.
THEOREM ChargedOnce == Spec => ChargedOncePerRun
<1>1. TypeOK /\ [Next]_vars => [PostedOnce]_vars
  BY PostedOnceStep
<1> QED BY <1>1, TypeCorrect, PTL DEF Spec, ChargedOncePerRun, PostedOnce

\* The balance is always what the account's transactions add up to: an entry is
\* posted where none was, and with it leaves exactly what it says.
UnpostedAreFree == \A r \in Run : ~ledger[r].posted => ledger[r].charged = 0

LEMMA ChargedSum ==
    ASSUME TypeOK, TypeOK', NEW r \in Run, \A q \in Run \ {r} : ledger'[q] = ledger[q]
    PROVE  Sum(Charged, Run)' = Sum(Charged, Run) + (ledger'[r].charged - ledger[r].charged)
<1> DEFINE f == Charged
           g == Charged'
<1>1. f \in [Run -> Nat] /\ g \in [Run -> Nat] /\ IsFiniteSet(Run)
  BY RunAssumption DEF TypeOK, Entry, Charged
<1>2. \A q \in Run \ {r} : f[q] = g[q]
  BY DEF Charged
<1>3. f[r] = ledger[r].charged /\ g[r] = ledger'[r].charged
  BY DEF Charged
<1>4. Sum(Charged, Run)' = Sum(g, Run)
  OBVIOUS
<1> HIDE DEF f, g
<1>5. Sum(g, Run) - g[r] = Sum(f, Run) - f[r]
  BY <1>1, <1>2, SumChange
<1>6. Sum(g, Run) \in Nat /\ Sum(f, Run) \in Nat /\ f[r] \in Nat /\ g[r] \in Nat
  BY <1>1, SumType
<1>7. Sum(g, Run) = Sum(f, Run) + (g[r] - f[r])
  BY <1>5, <1>6
<1> QED BY <1>3, <1>4, <1>7 DEF f

\* After any history of settlements, deposits and administrators' changes, the
\* balance is the sum of the account's transactions.
THEOREM BalanceAlwaysMatches == Spec => []BalanceMatchesTransactions
<1> DEFINE IInv == BalanceMatchesTransactions /\ UnpostedAreFree
<1>1. Init => IInv
  <2> SUFFICES ASSUME Init PROVE IInv
    OBVIOUS
  <2>1. Charged = [r \in Run |-> 0] /\ UnpostedAreFree
    BY DEF Init, NoEntry, Charged, UnpostedAreFree
  <2>2. Units(Charged, Run) = {}
    BY <2>1 DEF Units
  <2>3. Sum(Charged, Run) = 0
    BY <2>2, FS_EmptySet DEF Sum
  <2> QED BY <2>1, <2>3 DEF Init, BalanceMatchesTransactions
<1>2. ASSUME TypeOK, TypeOK', IInv, [Next]_vars
      PROVE  IInv'
  <2>1. /\ balance \in Int /\ balance' \in Int /\ deposited \in Int /\ deposited' \in Int
        /\ balance = deposited - Sum(Charged, Run)
    BY <1>2 DEF TypeOK, BalanceMatchesTransactions
  <2>2. Sum(Charged, Run) \in Int
    BY <1>2, PartTypes, RunAssumption, SumType
  <2>3. ASSUME NEW r \in Run, Posts(r) PROVE IInv'
    <3>1. /\ ~ledger[r].posted /\ ledger'[r] \in Entry /\ ledger'[r].posted
          /\ \A q \in Run \ {r} : ledger'[q] = ledger[q]
          /\ balance' = balance - ledger'[r].charged
          /\ deposited' = deposited
      BY <1>2, <2>3, PostedEntry
    <3>2. ledger[r].charged = 0 /\ ledger'[r].charged \in Nat
      BY <1>2, <3>1 DEF UnpostedAreFree, Entry
    <3>3. Sum(Charged, Run)' = Sum(Charged, Run) + (ledger'[r].charged - ledger[r].charged)
      BY <1>2, <3>1, ChargedSum
    <3>4. balance' = deposited' - Sum(Charged, Run)'
      BY <2>1, <2>2, <3>1, <3>2, <3>3
    <3>5. UnpostedAreFree'
      BY <1>2, <3>1 DEF UnpostedAreFree
    <3> QED BY <3>4, <3>5 DEF BalanceMatchesTransactions
  <2>4. ASSUME UNCHANGED ledger, balance' - deposited' = balance - deposited PROVE IInv'
    <3>1. Sum(Charged, Run)' = Sum(Charged, Run)
      BY <2>4 DEF Charged
    <3>2. balance' = deposited' - Sum(Charged, Run)'
      BY <2>1, <2>2, <2>4, <3>1
    <3> QED BY <1>2, <2>4, <3>2 DEF BalanceMatchesTransactions, UnpostedAreFree
  <2>5. Deposits => UNCHANGED ledger /\ balance' - deposited' = balance - deposited
    BY DEF Deposits
  <2>6. Reserving \/ UNCHANGED vars =>
          UNCHANGED ledger /\ balance' - deposited' = balance - deposited
    BY DEF Reserving, vars
  <2> QED BY <1>2, <2>3, <2>4, <2>5, <2>6, StepKinds
<1>3. TypeOK /\ TypeOK' /\ IInv /\ [Next]_vars => IInv'
  BY <1>2
<1>4. IInv => BalanceMatchesTransactions
  OBVIOUS
<1> HIDE DEF IInv
<1> QED BY <1>1, <1>3, <1>4, TypeCorrect, PTL DEF Spec

-----------------------------------------------------------------------------
(***************************************************************************)
(* The life cycle of a reservation.                                        *)
(***************************************************************************)
Lifecycle ==
    \A r \in Run :
        /\ row[r].status \in {"settled", "released"} => row'[r] = row[r]
        /\ row[r].status = "reconciliation" =>
             /\ row'[r].status \in {"reconciliation", "settled"}
             /\ row'[r].balance = row[r].balance /\ row'[r].credit = row[r].credit
        /\ row[r].status # "settled" /\ row'[r].status = "settled" =>
             ~ledger[r].posted /\ ledger'[r].posted

LEMMA LifecycleUnchanged ==
    ASSUME UNCHANGED row
    PROVE  Lifecycle
  BY DEF Lifecycle

\* Only the row of one run changes, and that one as its life cycle allows.
LEMMA LifecycleOfOne ==
    ASSUME TypeOK, NEW r \in Run, NEW rec, row' = [row EXCEPT ![r] = rec],
           row[r].status \in {"none", "active", "reconciliation"},
           row[r].status = "reconciliation" =>
               /\ rec.status \in {"reconciliation", "settled"}
               /\ rec.balance = row[r].balance /\ rec.credit = row[r].credit,
           rec.status = "settled" => ~ledger[r].posted /\ ledger'[r].posted
    PROVE  Lifecycle
<1>1. \A q \in Run : row'[q] = IF q = r THEN rec ELSE row[q]
  BY DEF TypeOK
<1> QED BY <1>1 DEF Lifecycle

LEMMA LifecycleStep ==
    ASSUME TypeOK, [Next]_vars
    PROVE  Lifecycle
<1>1. row \in [Run -> Reservation]
  BY DEF TypeOK
<1>2. ASSUME NEW r \in Run, Posts(r) PROVE Lifecycle
  <2>1. ~ledger[r].posted /\ ledger'[r].posted
    BY <1>2, PostedEntry
  <2>2. CASE Settleable(r) /\ SettleUsageReservation(r)
    <3> DEFINE rec == [row[r] EXCEPT !.status = "settled", !.lease = 0]
    <3>1. row[r] \in Reservation
      BY <1>1
    <3>2. row' = [row EXCEPT ![r] = rec]
      BY <1>1, <2>2 DEF SettleUsageReservation
    <3>3. rec.status = "settled" /\ rec.balance = row[r].balance /\ rec.credit = row[r].credit
      BY <3>1 DEF Reservation
    <3> HIDE DEF rec
    <3> QED BY <2>1, <2>2, <3>2, <3>3, LifecycleOfOne DEF Settleable
  <2> QED BY <1>2, <2>2, LifecycleUnchanged DEF Posts
<1>3. CASE Deposits \/ UNCHANGED vars
  BY <1>3, LifecycleUnchanged DEF Deposits, vars
<1>4. CASE Reserving
  <2>1. ASSUME NEW r \in Run, NEW terms \in Terms, NEW amount \in Amount,
               ReserveUsageBalance(r, terms, amount)
        PROVE  Lifecycle
    BY <2>1, LifecycleOfOne DEF ReserveUsageBalance, CanReserve
  <2>2. ASSUME NEW r \in Run, NEW amount \in Amount, RaiseUsageBalanceReservation(r, amount)
        PROVE  Lifecycle
    <3> DEFINE credit == MinInt64(amount, AvailableCredit(TermsOf(r), {r}))
               rec == [row[r] EXCEPT !.balance = amount - credit, !.credit = credit]
    <3>1. row' = [row EXCEPT ![r].balance = amount - credit, ![r].credit = credit]
          /\ row[r].status = "active"
      BY <2>2 DEF RaiseUsageBalanceReservation, Live
    <3> HIDE DEF credit
    <3>2. row' = [row EXCEPT ![r] = rec]
      BY <1>1, <3>1
    <3>3. rec.status = "active"
      BY <1>1, <3>1 DEF Reservation
    <3> HIDE DEF rec
    <3> QED BY <3>1, <3>2, <3>3, LifecycleOfOne
  <2>3. ASSUME NEW r \in Run, NEW status \in {"released", "reconciliation"},
               row[r].status \in {"active", "reconciliation"},
               row[r].status = "reconciliation" => status = "reconciliation",
               row' = [row EXCEPT ![r].status = status, ![r].lease = 0]
        PROVE  Lifecycle
    <3> DEFINE rec == [row[r] EXCEPT !.status = status, !.lease = 0]
    <3>1. row' = [row EXCEPT ![r] = rec]
      BY <1>1, <2>3
    <3>2. rec.status = status /\ rec.balance = row[r].balance /\ rec.credit = row[r].credit
      BY <1>1 DEF Reservation
    <3> HIDE DEF rec
    <3> QED BY <2>3, <3>1, <3>2, LifecycleOfOne
  <2>4. ASSUME NEW r \in Run, Renews(r)
        PROVE  Lifecycle
    <3>a. PICK late \in 0 .. RenewDelay : RenewUsageBalanceReservation(r, late)
      BY <2>4 DEF Renews
    <3> DEFINE rec == [row[r] EXCEPT !.lease = LeaseTicks - late]
    <3>1. row' = [row EXCEPT ![r] = rec] /\ row[r].status = "active"
      BY <1>1, <3>a DEF RenewUsageBalanceReservation
    <3>2. rec.status = "active"
      BY <1>1, <3>1 DEF Reservation
    <3> HIDE DEF rec
    <3> QED BY <3>1, <3>2, LifecycleOfOne
  <2>5. CASE Tick
    <3>1. ASSUME NEW r \in Run
          PROVE  /\ row'[r].status = row[r].status
                 /\ row'[r].balance = row[r].balance /\ row'[r].credit = row[r].credit
                 /\ row[r].status # "active" => row'[r] = row[r]
      BY <1>1, <2>5 DEF Tick, Reservation
    <3> QED BY <3>1 DEF Lifecycle
  <2> QED BY <1>4, <2>1, <2>2, <2>3, <2>4, <2>5
         DEF Reserving, ReleaseUsageBalanceReservation, MarkUsageReservationReconciliationRequired
<1> QED BY <1>2, <1>3, <1>4, StepKinds

\* Late releases, settlements and marks never change a reservation's outcome,
\* and nothing is settled without its entry in the ledger.
THEOREM LifecycleKept == Spec => ReservationLifecycle
<1>1. TypeOK /\ [Next]_vars => [Lifecycle]_vars
  BY LifecycleStep
<1> QED BY <1>1, TypeCorrect, PTL DEF Spec, ReservationLifecycle, Lifecycle

-----------------------------------------------------------------------------
(***************************************************************************)
(* The slots.  A run that takes one counts the rows that occupy a slot, and *)
(* those are no fewer than the live leases.  A renewal adds to the live     *)
(* leases only when it is late, and then it revives one.                   *)
(***************************************************************************)
Alive == {r \in Run : Live(r) /\ r \notin reclaimed}

LEMMA NoMoreAlive ==
    ASSUME LiveLeasesWithinSlots, Alive' \subseteq Alive
    PROVE  LiveLeasesWithinSlots'
<1>1. IsFiniteSet(Alive) /\ IsFiniteSet(Alive')
  BY SubsetsOfRunFinite DEF Alive
<1>2. Cardinality(Alive') <= Cardinality(Alive)
  BY <1>1, FS_Subset
<1>3. Cardinality(Alive) \in Nat /\ Cardinality(Alive') \in Nat
  BY <1>1, FS_CardinalityType
<1> QED BY <1>2, <1>3, MaxActiveAssumption DEF LiveLeasesWithinSlots, Alive

LEMMA OneMoreAlive ==
    ASSUME TypeOK, NEW r \in Run, Alive' \subseteq Alive \cup {r},
           CountActiveUsageReservations < MaxActive
    PROVE  LiveLeasesWithinSlots'
<1>1. IsFiniteSet(Alive) /\ IsFiniteSet(Occupying) /\ IsFiniteSet(Alive \cup {r})
  BY SubsetsOfRunFinite DEF Alive, Occupying
<1>2. Cardinality(Alive) <= Cardinality(Occupying)
  <2>1. Alive \subseteq Occupying
    BY DEF Alive, Live, Occupying, Occupies
  <2> QED BY <1>1, <2>1, FS_Subset
<1>3. Cardinality(Alive \cup {r}) <= Cardinality(Alive) + 1
  BY <1>1, FS_AddElement, FS_CardinalityType
<1>4. Cardinality(Alive') <= Cardinality(Alive \cup {r})
  BY <1>1, FS_Subset
<1>5. /\ Cardinality(Alive') \in Nat /\ Cardinality(Alive) \in Nat
      /\ Cardinality(Occupying) \in Nat /\ Cardinality(Alive \cup {r}) \in Nat
  <2>1. IsFiniteSet(Alive')
    BY SubsetsOfRunFinite DEF Alive
  <2> QED BY <1>1, <2>1, FS_CardinalityType
<1> QED BY <1>2, <1>3, <1>4, <1>5, MaxActiveAssumption
        DEF CountActiveUsageReservations, LiveLeasesWithinSlots, Alive

LEMMA SlotsStep ==
    ASSUME TypeOK, LiveLeasesWithinSlots, [Next]_vars
    PROVE  LiveLeasesWithinSlots'
<1>1. row \in [Run -> Reservation]
  BY DEF TypeOK
<1>2. CASE UNCHANGED <<row, reclaimed>>
  <2>1. Alive' = Alive
    BY <1>2 DEF Alive, Live
  <2> QED BY <2>1, NoMoreAlive
<1>3. ASSUME NEW r \in Run, SettleUsageReservation(r), UNCHANGED reclaimed
      PROVE  LiveLeasesWithinSlots'
  <2>1. Alive' \subseteq Alive
    BY <1>1, <1>3 DEF SettleUsageReservation, Alive, Live, Reservation
  <2> QED BY <2>1, NoMoreAlive
<1>4. ASSUME NEW r \in Run, NEW terms \in Terms, NEW amount \in Amount,
             ReserveUsageBalance(r, terms, amount)
      PROVE  LiveLeasesWithinSlots'
  <2>1. reclaimed' = reclaimed /\ \A x \in Run \ {r} : row'[x] = row[x]
    BY <1>1, <1>4 DEF ReserveUsageBalance
  <2>2. Alive' \subseteq Alive \cup {r}
    BY <2>1 DEF Alive, Live
  <2> QED BY <1>4, <2>2, OneMoreAlive DEF ReserveUsageBalance, CanReserve
<1>5. ASSUME NEW r \in Run, NEW amount \in Amount, RaiseUsageBalanceReservation(r, amount)
      PROVE  LiveLeasesWithinSlots'
  <2>1. /\ reclaimed' = reclaimed
        /\ \A x \in Run : row'[x].status = row[x].status /\ row'[x].lease = row[x].lease
    BY <1>1, <1>5 DEF RaiseUsageBalanceReservation, Reservation
  <2>2. Alive' = Alive
    BY <2>1 DEF Alive, Live
  <2> QED BY <2>2, NoMoreAlive
<1>6. ASSUME NEW r \in Run, \/ ReleaseUsageBalanceReservation(r)
                            \/ Renews(r)
                            \/ MarkUsageReservationReconciliationRequired(r)
      PROVE  LiveLeasesWithinSlots'
  <2>1. \A x \in Run \ {r} : row'[x] = row[x]
    BY <1>1, <1>6 DEF ReleaseUsageBalanceReservation, Renews, RenewUsageBalanceReservation,
       MarkUsageReservationReconciliationRequired
  <2>2. UNCHANGED reclaimed \/ Claims(r)
    BY <1>6 DEF ReleaseUsageBalanceReservation, Renews, RenewUsageBalanceReservation,
       MarkUsageReservationReconciliationRequired
  <2>3. Live(r)' => Claims(r) /\ row[r].status = "active"
    BY <1>1, <1>6 DEF ReleaseUsageBalanceReservation, Renews, RenewUsageBalanceReservation,
       MarkUsageReservationReconciliationRequired, Live, Reservation
  <2>4. Live(r)' /\ r \notin reclaimed' => Live(r) /\ r \notin reclaimed
    BY <2>3 DEF Claims, Occupies, Live
  <2>5. \A x \in Run \ {r} : Live(x)' /\ x \notin reclaimed' => Live(x) /\ x \notin reclaimed
    BY <2>1, <2>2 DEF Claims, Live
  <2>6. Alive' \subseteq Alive
    BY <2>4, <2>5 DEF Alive
  <2> QED BY <2>6, NoMoreAlive
<1>7. CASE Tick
  <2>1. /\ reclaimed' = reclaimed
        /\ \A x \in Run : /\ row'[x].status = row[x].status
                          /\ row'[x].lease > 0 => row[x].lease > 0
    BY <1>1, <1>7, LeaseTicksAssumption, RenewDelayAssumption DEF Tick, Reservation, Lease
  <2>2. Alive' \subseteq Alive
    BY <2>1 DEF Alive, Live
  <2> QED BY <2>2, NoMoreAlive
<1>8. CASE UNCHANGED vars
  BY <1>2, <1>8 DEF vars
<1>9. ASSUME NEW r \in Run, Posts(r) PROVE LiveLeasesWithinSlots'
  BY <1>2, <1>3, <1>9 DEF Posts, Post
<1>10. CASE Deposits
  BY <1>2, <1>10 DEF Deposits
<1>11. CASE Reserving
  BY <1>4, <1>5, <1>6, <1>7, <1>11 DEF Reserving
<1> QED BY <1>8, <1>9, <1>10, <1>11, StepKinds

\* However renewals, raises and expiries interleave with admissions, no more
\* runs hold a lease that has not lapsed since than a user has slots: what goes
\* beyond is revived by late renewals, and by nothing else.
THEOREM SlotsAreKept == Spec => []LiveLeasesWithinSlots
<1>1. Init => LiveLeasesWithinSlots
  <2>1. ASSUME Init PROVE Alive = {}
    BY <2>1 DEF Init, NoReservation, Alive, Live
  <2> QED BY <2>1, FS_EmptySet, MaxActiveAssumption DEF LiveLeasesWithinSlots, Alive
<1>2. TypeOK /\ LiveLeasesWithinSlots /\ [Next]_vars => LiveLeasesWithinSlots'
  BY SlotsStep
<1> QED BY <1>1, <1>2, TypeCorrect, PTL DEF Spec

\* A default share is at least one unit, and leaves one for each other slot.
THEOREM SharesLeaveRoom == Spec => []DefaultShareLeavesRoom
<1>1. TypeOK => DefaultShareLeavesRoom
  <2> SUFFICES ASSUME TypeOK, NEW terms \in Terms,
                      MaxActive - CountActiveUsageReservations > 0,
                      Available(terms, {}) >= MaxActive - CountActiveUsageReservations
               PROVE  /\ Grant(terms, 0) > 0
                      /\ Available(terms, {}) - Grant(terms, 0)
                            >= MaxActive - CountActiveUsageReservations - 1
    BY DEF DefaultShareLeavesRoom
  <2> DEFINE free == MaxActive - CountActiveUsageReservations
             all == Available(terms, {})
  <2>1. free \in Nat \ {0}
    BY MaxActiveAssumption, ReadTypes
  <2>2. all \in Nat
    <3>1. AvailableCredit(terms, {}) \in Nat /\ AvailableBalance({}) \in Nat
      BY TermsTypes, CreditType, AvailableTypes
    <3> QED BY <3>1, SaturatingAdd DEF Available
  <2>3. Grant(terms, 0) = DivideBudgetAcrossSlots(all, free)
    BY DEF Grant
  <2>4. all >= free
    OBVIOUS
  <2> HIDE DEF all, free
  <2>5. /\ DivideBudgetAcrossSlots(all, free) > 0
        /\ all - DivideBudgetAcrossSlots(all, free) >= free - 1
    BY <2>1, <2>2, <2>4, ShareOfSlots
  <2> QED BY <2>3, <2>5 DEF all, free
<1> QED BY <1>1, TypeCorrect, PTL

-----------------------------------------------------------------------------
(***************************************************************************)
(* The period's credit.  An entry that takes credit is one of the period   *)
(* itself, and bills at least what it takes: the sum of what a period      *)
(* billed, which a settlement subtracts, bounds the credit that is gone.   *)
(***************************************************************************)
RowLimits == \A r \in Run : row[r].limit \in Limit \cup {0}

EntriesMatch ==
    \A r \in Run : /\ ledger[r].covered <= ledger[r].billed
                   /\ ledger[r].period \in {0, ledger[r].month}

CreditInv == RowLimits /\ EntriesMatch /\ PeriodCreditNotOversold

\* The credit that an entry takes fits under the limit next to what is billed.
FitsUnder(entry, limit) ==
    /\ entry \in Entry
    /\ entry.covered <= entry.billed /\ entry.period \in {0, entry.month}
    /\ entry.covered > 0 =>
         entry.covered + SumPeriodBilledNanousd(entry.period) <= limit

LEMMA PeriodEntryFits ==
    ASSUME TypeOK, NEW cost \in Amount, NEW m \in Month, NEW limit \in Nat, NEW exclude
    PROVE  FitsUnder(PeriodEntry(cost, m, m, limit, exclude), limit)
<1> DEFINE rest == RemainingCredit(m, limit, exclude)
           used == SumPeriodBilledNanousd(m)
           covered == MinInt64(cost, rest)
           entry == PeriodEntry(cost, m, m, limit, exclude)
<1>1. cost \in Nat /\ m \in Nat
  BY AmountAssumption, MonthAssumption
<1>2. entry \in Entry
  BY <1>1, EntryTypes
<1>3. /\ entry.covered = covered /\ entry.billed = cost
      /\ entry.month = m /\ entry.period = m
  BY DEF PeriodEntry
<1>4. /\ rest \in Nat /\ used \in Nat
      /\ rest > 0 => rest + used <= limit
  <2> DEFINE held == SumActivePeriodCreditReservations(m, exclude)
  <2>1. used \in Nat /\ held \in Nat
    BY ReadTypes
  <2>2. rest \in Nat /\ (rest > 0 => rest + used + held = limit)
    BY <1>1, AvailableTypes
  <2> HIDE DEF used, held, rest
  <2> QED BY <2>1, <2>2
<1>5. covered \in Nat /\ covered <= cost /\ covered <= rest
  BY <1>1, <1>4, MinType
<1> HIDE DEF rest, used, covered, entry
<1>6. entry.covered > 0 => entry.covered + used <= limit
  BY <1>3, <1>4, <1>5
<1> QED BY <1>2, <1>3, <1>5, <1>6 DEF FitsUnder, used, entry

LEMMA UsageEntryFits ==
    ASSUME TypeOK, NEW cost \in Amount, NEW m \in Month
    PROVE  /\ FitsUnder(UsageEntry(cost, m), 0)
           /\ FitsUnder([UsageEntry(cost, m) EXCEPT !.charged = 0], 0)
<1>1. cost \in Nat
  BY AmountAssumption
<1> QED BY <1>1, EntryTypes DEF FitsUnder, UsageEntry

\* A step posts at most one entry, one that fits under a plan's limit.
Fits(r) ==
    \E limit \in Limit \cup {0}, entry \in Entry :
        FitsUnder(entry, limit) /\ ledger' = [ledger EXCEPT ![r] = entry]

LEMMA StepFits ==
    ASSUME TypeOK, RowLimits, ~MonthSlip, Next
    PROVE  UNCHANGED ledger \/ \E r \in Run : Fits(r)
<1>1. ASSUME NEW r \in Run, NEW amount \in Amount, NEW m \in Month,
             \/ AddUsageAndSettleBalance(r, amount, m)
             \/ AddUsageWithoutReservation(r, amount, m) \/ AddUsage(r, amount, m)
      PROVE  Fits(r)
  BY <1>1, UsageEntryFits, EntryTypes
     DEF AddUsageAndSettleBalance, AddUsageWithoutReservation, AddUsage, Post, Fits
<1>2. ASSUME NEW r \in Run, NEW amount \in Amount, NEW m \in Month,
             AddPeriodUsageAndSettleOverage(r, amount, m)
      PROVE  Fits(r)
  <2> DEFINE limit == row[r].limit
             entry == PeriodEntry(amount, m, m, limit, {r})
  <2>1. m = row[r].month
    BY <1>2 DEF AddPeriodUsageAndSettleOverage, BillingMonths
  <2>2. limit \in Limit \cup {0} /\ limit \in Nat
    <3>1. row[r].limit \in Limit \cup {0}
      BY DEF RowLimits
    <3>2. Limit \cup {0} \subseteq Nat
      BY LimitAssumption
    <3> QED BY <3>1, <3>2
  <2>3. ledger' = [ledger EXCEPT ![r] = entry]
    BY <1>2, <2>1 DEF AddPeriodUsageAndSettleOverage, Post
  <2>4. FitsUnder(entry, limit)
    BY <2>2, PeriodEntryFits
  <2>5. entry \in Entry
    BY <2>4 DEF FitsUnder
  <2> HIDE DEF limit, entry
  <2> QED BY <2>2, <2>3, <2>4, <2>5 DEF Fits
<1>3. ASSUME NEW r \in Run, NEW amount \in Amount, NEW m \in Month, NEW limit \in Limit,
             AddPeriodUsageWithoutReservation(r, amount, m, limit)
      PROVE  Fits(r)
  <2> DEFINE entry == PeriodEntry(amount, m, m, limit, {})
  <2>1. ledger' = [ledger EXCEPT ![r] = entry]
    BY <1>3 DEF AddPeriodUsageWithoutReservation, Post
  <2>2. FitsUnder(entry, limit)
    BY LimitAssumption, PeriodEntryFits
  <2>3. entry \in Entry
    BY <2>2 DEF FitsUnder
  <2> HIDE DEF entry
  <2> QED BY <2>1, <2>2, <2>3 DEF Fits
<1>4. ASSUME NEW r \in Run,
             \/ \E terms \in Terms, amount \in Amount :
                   ReserveUsageBalance(r, terms, amount)
             \/ \E amount \in Amount : RaiseUsageBalanceReservation(r, amount)
             \/ ReleaseUsageBalanceReservation(r) \/ Renews(r)
             \/ MarkUsageReservationReconciliationRequired(r)
      PROVE  UNCHANGED ledger
  BY <1>4 DEF ReserveUsageBalance, RaiseUsageBalanceReservation,
     ReleaseUsageBalanceReservation, Renews, RenewUsageBalanceReservation,
     MarkUsageReservationReconciliationRequired
<1>5. ASSUME NEW amount \in Amount,
             SetBillingAccountBalance(amount) \/ CreditBalance(amount)
      PROVE  UNCHANGED ledger
  BY <1>5 DEF SetBillingAccountBalance, CreditBalance
<1>6. Tick => UNCHANGED ledger
  BY DEF Tick
<1> QED BY <1>1, <1>2, <1>3, <1>4, <1>5, <1>6 DEF Renews, Next

LEMMA RowLimitsStep ==
    ASSUME TypeOK, RowLimits, [Next]_vars
    PROVE  RowLimits'
<1>1. row \in [Run -> Reservation]
  BY DEF TypeOK
<1>2. ASSUME NEW r \in Run, NEW terms \in Terms, NEW amount \in Amount,
             ReserveUsageBalance(r, terms, amount)
      PROVE  RowLimits'
  <2>1. terms.limit \in Limit \cup {0}
    BY DEF Terms
  <2>2. row'[r].limit = terms.limit /\ \A x \in Run \ {r} : row'[x] = row[x]
    BY <1>1, <1>2 DEF ReserveUsageBalance
  <2> QED BY <2>1, <2>2 DEF RowLimits
<1>3. ASSUME \A x \in Run : row'[x].limit = row[x].limit PROVE RowLimits'
  BY <1>3 DEF RowLimits
<1>4. ASSUME NEW r \in Run, NEW amount \in Amount, RaiseUsageBalanceReservation(r, amount)
      PROVE  RowLimits'
  BY <1>1, <1>3, <1>4 DEF RaiseUsageBalanceReservation, Reservation
<1>5. ASSUME NEW r \in Run, \/ ReleaseUsageBalanceReservation(r)
                            \/ Renews(r)
                            \/ MarkUsageReservationReconciliationRequired(r)
                            \/ SettleUsageReservation(r)
      PROVE  RowLimits'
  BY <1>1, <1>3, <1>5 DEF ReleaseUsageBalanceReservation, Renews, RenewUsageBalanceReservation,
     MarkUsageReservationReconciliationRequired, SettleUsageReservation, Reservation
<1>6. Tick => RowLimits'
  BY <1>1, <1>3 DEF Tick, Reservation
<1>7. UNCHANGED row => RowLimits'
  BY <1>3
<1>8. ASSUME NEW r \in Run, Posts(r) PROVE RowLimits'
  BY <1>5, <1>7, <1>8 DEF Posts
<1>9. Deposits => RowLimits'
  BY <1>7 DEF Deposits
<1>10. Reserving => RowLimits'
  BY <1>2, <1>4, <1>5, <1>6 DEF Reserving
<1> QED BY <1>7, <1>8, <1>9, <1>10, StepKinds DEF vars

\* What a period's entries covered is no more than what it billed.
LEMMA CoveredIsBilled ==
    ASSUME TypeOK, EntriesMatch, NEW m \in Month
    PROVE  Sum(Covered, {r \in Run : ledger[r].period = m}) <= SumPeriodBilledNanousd(m)
<1> DEFINE S == {r \in Run : ledger[r].period = m}
           T == {r \in Run : ledger[r].month = m}
<1>1. S \subseteq T /\ IsFiniteSet(T)
  BY SubsetsOfRunFinite, MonthAssumption DEF EntriesMatch
<1>2. \A r \in T : Billed[r] \in Nat
  BY PartTypes
<1>3. \A r \in S : Covered[r] \in Nat /\ Covered[r] <= Billed[r]
  BY PartTypes DEF EntriesMatch, Covered, Billed
<1> HIDE DEF S, T
<1>4. Sum(Covered, S) <= Sum(Billed, T)
  BY <1>1, <1>2, <1>3, SumMonotone
<1> QED BY <1>4 DEF S, T, SumPeriodBilledNanousd

\* Posting an entry adds at most what the entry covers to its period.
LEMMA CoveredOfOne ==
    ASSUME TypeOK, NEW r \in Run, NEW entry \in Entry, NEW m \in Month,
           ledger' = [ledger EXCEPT ![r] = entry]
    PROVE  LET before == Sum(Covered, {q \in Run : ledger[q].period = m})
               after == Sum(Covered, {q \in Run : ledger[q].period = m})'
           IN  /\ before \in Nat /\ after \in Nat
               /\ after <= before + (IF entry.period = m THEN entry.covered ELSE 0)
<1> DEFINE S == {q \in Run : ledger[q].period = m}
           T == S'
           f == Covered
           g == Covered'
<1>1. /\ ledger \in [Run -> Entry] /\ ledger' \in [Run -> Entry]
      /\ ledger'[r] = entry /\ \A q \in Run \ {r} : ledger'[q] = ledger[q]
  BY DEF TypeOK
<1>2. f \in [Run -> Nat] /\ g \in [Run -> Nat] /\ g[r] = entry.covered
  BY <1>1 DEF Covered, Entry
<1>3. S \subseteq Run /\ T \subseteq Run /\ IsFiniteSet(S) /\ IsFiniteSet(T)
  BY SubsetsOfRunFinite
<1>4. S \ {r} = T \ {r} /\ (r \in T <=> entry.period = m)
  BY <1>1
<1>5. \A x \in S \ {r} : f[x] = g[x]
  BY <1>1 DEF Covered
<1>6. Sum(f, S) \in Nat /\ Sum(g, T) \in Nat
  BY <1>2, <1>3, SumOverRunType
<1> HIDE DEF S, T, f, g
<1>7. Sum(g, T) - (IF r \in T THEN g[r] ELSE 0) = Sum(f, S) - (IF r \in S THEN f[r] ELSE 0)
  BY <1>2, <1>3, <1>4, <1>5, SumChange
<1>8. f[r] \in Nat /\ g[r] \in Nat
  BY <1>2
<1>9. Sum(g, T) <= Sum(f, S) + (IF entry.period = m THEN entry.covered ELSE 0)
  BY <1>2, <1>4, <1>6, <1>7, <1>8
<1> QED BY <1>6, <1>9 DEF S, T, f, g

LEMMA CreditStep ==
    ASSUME TypeOK, CreditInv, ~MonthSlip, [Next]_vars
    PROVE  CreditInv'
<1> USE DEF CreditInv
<1>1. RowLimits'
  BY RowLimitsStep
<1>2. CASE UNCHANGED ledger
  BY <1>1, <1>2 DEF EntriesMatch, PeriodCreditNotOversold, Covered
<1>3. ASSUME NEW r \in Run, NEW limit \in Limit \cup {0}, NEW entry \in Entry,
             FitsUnder(entry, limit), ledger' = [ledger EXCEPT ![r] = entry]
      PROVE  CreditInv'
  <2>1. EntriesMatch'
    BY <1>3 DEF EntriesMatch, FitsUnder, TypeOK
  <2>2. ASSUME NEW m \in Month
        PROVE  \E l \in Limit \cup {0} :
                 Sum(Covered, {q \in Run : ledger[q].period = m})' <= l
    <3> DEFINE before == Sum(Covered, {q \in Run : ledger[q].period = m})
               after == Sum(Covered, {q \in Run : ledger[q].period = m})'
    <3>1. /\ before \in Nat /\ after \in Nat
          /\ after <= before + (IF entry.period = m THEN entry.covered ELSE 0)
      BY <1>3, CoveredOfOne
    <3>2. entry.covered \in Nat
      BY DEF Entry
    <3>3. before <= SumPeriodBilledNanousd(m) /\ SumPeriodBilledNanousd(m) \in Nat
      BY CoveredIsBilled, ReadTypes
    <3>4. PICK l \in Limit \cup {0} : before <= l
      BY DEF PeriodCreditNotOversold
    <3>5. l \in Nat /\ limit \in Nat
      BY LimitAssumption
    <3>6. entry.period = m /\ entry.covered > 0 =>
            entry.covered + SumPeriodBilledNanousd(m) <= limit
      BY <1>3 DEF FitsUnder
    <3> HIDE DEF before, after
    <3>7. CASE entry.period = m /\ entry.covered > 0
      <4>1. after <= limit
        BY <3>1, <3>2, <3>3, <3>5, <3>6, <3>7
      <4> QED BY <4>1 DEF after
    <3>8. CASE ~(entry.period = m /\ entry.covered > 0)
      <4>1. after <= l
        BY <3>1, <3>2, <3>4, <3>5, <3>8
      <4> QED BY <4>1 DEF after
    <3> QED BY <3>7, <3>8
  <2>3. PeriodCreditNotOversold'
    BY <2>2 DEF PeriodCreditNotOversold
  <2> QED BY <1>1, <2>1, <2>3
<1>4. CASE Next
  BY <1>2, <1>3, <1>4, StepFits DEF Fits
<1>5. CASE UNCHANGED vars
  BY <1>2, <1>5 DEF vars
<1> QED BY <1>4, <1>5

\* If no run is billed in the month after the one it was authorised in, the
\* settlements of a period never use up more credit than one plan grants.
THEOREM CreditIsNotOversold == Spec => []PeriodCreditNotOversold
<1>1. CASE MonthSlip
  <2>1. PeriodCreditNotOversold
    BY <1>1 DEF PeriodCreditNotOversold
  <2> QED BY <2>1, PTL
<1>2. CASE ~MonthSlip
  <2>1. Init => CreditInv
    <3> SUFFICES ASSUME Init PROVE CreditInv
      OBVIOUS
    <3>1. RowLimits /\ EntriesMatch
      BY DEF Init, NoReservation, NoEntry, RowLimits, EntriesMatch
    <3>2. ASSUME NEW m \in Month PROVE Sum(Covered, {r \in Run : ledger[r].period = m}) = 0
      <4>1. {r \in Run : ledger[r].period = m} = {}
        BY MonthAssumption DEF Init, NoEntry
      <4> QED BY <4>1, SumEmpty
    <3>3. PeriodCreditNotOversold
      BY <3>2 DEF PeriodCreditNotOversold
    <3> QED BY <3>1, <3>3 DEF CreditInv
  <2>2. TypeOK /\ CreditInv /\ [Next]_vars => CreditInv'
    BY <1>2, CreditStep
  <2>3. CreditInv => PeriodCreditNotOversold
    BY DEF CreditInv
  <2> QED BY <2>1, <2>2, <2>3, TypeCorrect, PTL DEF Spec
<1> QED BY <1>1, <1>2

-----------------------------------------------------------------------------
(***************************************************************************)
(* Grants.  Only a reservation and a raise make a part of a row grow, and   *)
(* each part fits next to what the other runs hold of its kind.            *)
(***************************************************************************)
HeldCredit(m) == SumActivePeriodCreditReservations(m, {})

\* The share of a run in the credit that is held of a month.
HeldCreditOf(r, m) == IF Occupies(r) /\ row[r].month = m THEN row[r].credit ELSE 0

LEMMA SumOfOthers ==
    ASSUME NEW r \in Run, NEW S \in SUBSET Run, NEW f \in [Run -> Nat]
    PROVE  /\ Sum(f, S) \in Nat /\ Sum(f, S \ {r}) \in Nat
           /\ Sum(f, S \ {r}) = Sum(f, S) - (IF r \in S THEN f[r] ELSE 0)
<1>1. Sum(f, S) \in Nat /\ Sum(f, S \ {r}) \in Nat /\ f[r] \in Nat
  BY SumOverRunType
<1>2. CASE r \in S
  <2>1. IsFiniteSet(S) /\ \A x \in S : f[x] \in Nat
    BY SubsetsOfRunFinite
  <2> QED BY <1>1, <1>2, <2>1, SumSplit
<1>3. CASE r \notin S
  <2>1. S \ {r} = S
    BY <1>3
  <2> QED BY <1>1, <1>3, <2>1
<1> QED BY <1>2, <1>3

\* What the others hold is the same after a step that changes one row.
LEMMA OthersHoldTheSame ==
    ASSUME TypeOK, TypeOK', NEW r \in Run, NEW m,
           \A x \in Run \ {r} : row'[x] = row[x]
    PROVE  SumActivePeriodCreditReservations(m, {r})'
             = SumActivePeriodCreditReservations(m, {r})
<1> DEFINE S == {q \in Occupying \ {r} : row[q].month = m}
<1>1. S' = S
  BY DEF Occupying, Occupies
<1>2. \A x \in S : CreditPart'[x] = CreditPart[x]
  BY DEF Occupying, CreditPart
<1> HIDE DEF S
<1>3. Sum(CreditPart', S) = Sum(CreditPart, S)
  BY <1>2, SumAgree
<1> QED BY <1>1, <1>3 DEF S, SumActivePeriodCreditReservations

LEMMA CreditGrantCovered ==
    ASSUME TypeOK, TypeOK', NEW r \in Run, NEW part \in Nat, NEW limit \in Nat,
           NEW m \in Nat,
           \A x \in Run \ {r} : row'[x] = row[x],
           row'[r].credit = part, part > 0, part <= RemainingCredit(m, limit, {r})
    PROVE  SumPeriodBilledNanousd(m) + HeldCredit(m)' <= limit
<1> DEFINE others == SumActivePeriodCreditReservations(m, {r})
           rest == RemainingCredit(m, limit, {r})
           used == SumPeriodBilledNanousd(m)
<1>1. rest \in Nat /\ used \in Nat /\ others \in Nat
      /\ (rest > 0 => rest + used + others = limit)
  BY AvailableTypes, ReadTypes
<1>2. others' = others
  BY OthersHoldTheSame
<1>3. /\ HeldCredit(m)' \in Nat /\ HeldCreditOf(r, m)' \in Nat
      /\ others' = HeldCredit(m)' - HeldCreditOf(r, m)'
  <2> DEFINE S == {q \in Occupying' : row'[q].month = m}
             f == CreditPart'
  <2>1. S \in SUBSET Run /\ f \in [Run -> Nat]
    BY DEF Occupying, TypeOK, Reservation, CreditPart
  <2>2. HeldCredit(m)' = Sum(f, S)
    <3>1. {q \in Occupying' \ {} : row'[q].month = m} = S
      OBVIOUS
    <3> QED BY <3>1 DEF HeldCredit, SumActivePeriodCreditReservations
  <2>3. others' = Sum(f, S \ {r})
    <3>1. {q \in Occupying' \ {r} : row'[q].month = m} = S \ {r}
      OBVIOUS
    <3> QED BY <3>1 DEF SumActivePeriodCreditReservations
  <2>4. HeldCreditOf(r, m)' = IF r \in S THEN f[r] ELSE 0
    BY DEF HeldCreditOf, Occupying, CreditPart
  <2>5. f[r] \in Nat
    BY <2>1
  <2> HIDE DEF S, f, others
  <2> QED BY <2>1, <2>2, <2>3, <2>4, <2>5, SumOfOthers
<1>4. HeldCreditOf(r, m)' <= part
  BY DEF HeldCreditOf
<1> HIDE DEF others, rest, used
<1>5. used + HeldCredit(m)' <= limit
  <2>1. part <= rest
    BY DEF rest
  <2> QED BY <1>1, <1>2, <1>3, <1>4, <2>1
<1> QED BY <1>5 DEF used

LEMMA BalanceGrantCovered ==
    ASSUME TypeOK, TypeOK', NEW r \in Run, NEW part \in Nat,
           \A x \in Run \ {r} : row'[x] = row[x],
           row'[r].balance = part, part > 0, part <= AvailableBalance({r})
    PROVE  HeldBalance' <= balance
<1>1. HeldBalance' - Share(r)' = HeldBalance - Share(r)
  BY OneRowHeld
<1>2. SumActiveBalanceReservations({r}) = HeldBalance - Share(r)
  BY HeldByOthers
<1>3. /\ AvailableBalance({r}) \in Nat
      /\ AvailableBalance({r}) > 0 =>
           AvailableBalance({r}) + SumActiveBalanceReservations({r}) = balance
  BY AvailableTypes
<1>4. Share(r)' \in Nat /\ Share(r)' <= part
  BY DEF Share
<1>5. /\ HeldBalance \in Nat /\ HeldBalance' \in Nat
      /\ Share(r) \in Nat /\ balance \in Int
  BY HeldBalanceType, HeldBalanceTypeNext DEF TypeOK, Reservation, Share
<1> QED BY <1>1, <1>2, <1>3, <1>4, <1>5

GrantCoveredOf(r) ==
    /\ row'[r].balance > row[r].balance =>
         SumActiveBalanceReservations({})' <= balance
    /\ \A m \in Month :
         row'[r].month = m /\ row'[r].credit > row[r].credit =>
             SumPeriodBilledNanousd(m) + SumActivePeriodCreditReservations(m, {})'
                 <= row'[r].limit
    /\ row[r].status = "active" =>
         row'[r].balance + row'[r].credit >= row[r].balance + row[r].credit

\* A budget is granted to one run, on its terms.
LEMMA BudgetCovered ==
    ASSUME TypeOK, TypeOK', NEW r \in Run, NEW terms \in AnyTerms, NEW budget \in Nat,
           budget <= Available(terms, {r}),
           NEW credit, credit = MinInt64(budget, AvailableCredit(terms, {r})),
           \A x \in Run \ {r} : row'[x] = row[x],
           row'[r].balance = budget - credit, row'[r].credit = credit,
           row'[r].month = terms.month, row'[r].limit = terms.limit,
           row[r].status = "active" => budget >= row[r].balance + row[r].credit
    PROVE  \A x \in Run : GrantCoveredOf(x)
<1>1. /\ credit \in Nat /\ credit <= AvailableCredit(terms, {r})
      /\ budget - credit \in Nat /\ budget - credit <= AvailableBalance({r})
  BY SplitFits
<1>2. row[r].balance \in Nat /\ row[r].credit \in Nat
  BY DEF TypeOK, Reservation
<1>3. ASSUME row'[r].balance > row[r].balance
      PROVE  SumActiveBalanceReservations({})' <= balance
  <2> DEFINE part == budget - credit
  <2>1. part \in Nat /\ part > 0 /\ part <= AvailableBalance({r}) /\ row'[r].balance = part
    BY <1>1, <1>2, <1>3
  <2> HIDE DEF part
  <2>2. HeldBalance' <= balance
    BY <2>1, BalanceGrantCovered
  <2> QED BY <2>2 DEF HeldBalance
<1>4. ASSUME NEW m \in Month, row'[r].month = m, row'[r].credit > row[r].credit
      PROVE  SumPeriodBilledNanousd(m) + SumActivePeriodCreditReservations(m, {})'
                 <= row'[r].limit
  <2>1. credit > 0 /\ AvailableCredit(terms, {r}) > 0
    <3>1. AvailableCredit(terms, {r}) \in Nat
      BY CreditType
    <3> QED BY <1>1, <1>2, <1>4, <3>1
  <2>2. AvailableCredit(terms, {r}) = RemainingCredit(m, terms.limit, {r})
    BY <1>4, <2>1 DEF AvailableCredit
  <2>3. m \in Nat /\ terms.limit \in Nat
    BY MonthAssumption DEF AnyTerms
  <2>4. SumPeriodBilledNanousd(m) + HeldCredit(m)' <= terms.limit
    BY <1>1, <2>1, <2>2, <2>3, CreditGrantCovered
  <2> QED BY <2>4 DEF HeldCredit
<1>5. row[r].status = "active" =>
        row'[r].balance + row'[r].credit >= row[r].balance + row[r].credit
  BY <1>1, <1>2
<1>6. GrantCoveredOf(r)
  BY <1>3, <1>4, <1>5 DEF GrantCoveredOf
<1>7. ASSUME NEW x \in Run \ {r} PROVE GrantCoveredOf(x)
  <2>1. row'[x] = row[x] /\ row[x].balance \in Nat /\ row[x].credit \in Nat
    BY DEF TypeOK, Reservation
  <2> QED BY <2>1 DEF GrantCoveredOf
<1> QED BY <1>6, <1>7

\* A step that leaves the parts of every row alone grants nothing.
LEMMA NothingGranted ==
    ASSUME TypeOK,
           \A x \in Run : row'[x].balance = row[x].balance /\ row'[x].credit = row[x].credit
    PROVE  \A x \in Run : GrantCoveredOf(x)
<1>1. ASSUME NEW x \in Run PROVE GrantCoveredOf(x)
  <2>1. row[x].balance \in Nat /\ row[x].credit \in Nat
    BY DEF TypeOK, Reservation
  <2> QED BY <2>1 DEF GrantCoveredOf
<1> QED BY <1>1

LEMMA GrantsStep ==
    ASSUME TypeOK, TypeOK', [Next]_vars
    PROVE  \A x \in Run : GrantCoveredOf(x)
<1> DEFINE Same == \A x \in Run : /\ row'[x].balance = row[x].balance
                                  /\ row'[x].credit = row[x].credit
<1>1. row \in [Run -> Reservation]
  BY DEF TypeOK
<1>2. ASSUME NEW r \in Run, NEW terms \in Terms, NEW amount \in Amount,
             ReserveUsageBalance(r, terms, amount)
      PROVE  \A x \in Run : GrantCoveredOf(x)
  <2> DEFINE granted == Grant(terms, amount)
             credit  == MinInt64(granted, AvailableCredit(terms, {r}))
  <2>1. CanReserve(r, terms, amount)
    BY <1>2 DEF ReserveUsageBalance
  <2>2. terms \in AnyTerms /\ granted \in Nat
    BY <2>1, TermsTypes, ReservationTypes
  <2>3. Occupying \ {} = Occupying \ {r}
    BY <2>1 DEF CanReserve, Occupying, Occupies
  <2>4. AvailableBalance({}) = AvailableBalance({r})
    BY <2>3 DEF AvailableBalance, SumActiveBalanceReservations
  <2>5. AvailableCredit(terms, {}) = AvailableCredit(terms, {r})
    BY <2>3 DEF AvailableCredit, RemainingCredit, SumActivePeriodCreditReservations
  <2>6. granted <= Available(terms, {r})
    BY <2>1, <2>4, <2>5 DEF CanReserve, Available
  <2>7. row' = [row EXCEPT ![r] =
                  [status |-> "active", mode |-> terms.mode,
                   balance |-> granted - credit, credit |-> credit,
                   limit |-> terms.limit, month |-> terms.month,
                   lease |-> LeaseTicks]]
    BY <1>2, <2>5 DEF ReserveUsageBalance
  <2>8. row[r].status # "active"
    BY <2>1 DEF CanReserve
  <2>9. credit = MinInt64(granted, AvailableCredit(terms, {r}))
    OBVIOUS
  <2> HIDE DEF granted, credit
  <2>10. /\ \A x \in Run \ {r} : row'[x] = row[x]
         /\ row'[r].balance = granted - credit /\ row'[r].credit = credit
         /\ row'[r].month = terms.month /\ row'[r].limit = terms.limit
    BY <1>1, <2>7
  <2> QED BY <2>2, <2>6, <2>8, <2>9, <2>10, BudgetCovered
<1>3. ASSUME NEW r \in Run, NEW amount \in Amount, RaiseUsageBalanceReservation(r, amount)
      PROVE  \A x \in Run : GrantCoveredOf(x)
  <2> DEFINE credit == MinInt64(amount, AvailableCredit(TermsOf(r), {r}))
             held == AddNonNegativeInt64(row[r].balance, row[r].credit)
  <2>1. amount \in Nat /\ TermsOf(r) \in AnyTerms /\ amount <= Available(TermsOf(r), {r})
    BY <1>3, AmountAssumption, TermsTypes DEF RaiseUsageBalanceReservation
  <2>2. amount >= row[r].balance + row[r].credit
    <3>1. row[r].balance \in Nat /\ row[r].credit \in Nat
      BY <1>1 DEF Reservation
    <3>2. held = MaxInt64 \/ held = row[r].balance + row[r].credit
      BY <3>1, MaxInt64Assumption DEF AddNonNegativeInt64, ClampNonNegative
    <3>3. amount > held
      BY <1>3 DEF RaiseUsageBalanceReservation
    <3>4. Available(TermsOf(r), {r}) <= MaxInt64
      <4>1. /\ AvailableCredit(TermsOf(r), {r}) \in Nat
            /\ AvailableBalance({r}) \in Nat
        BY <2>1, CreditType, AvailableTypes
      <4> QED BY <4>1, MaxInt64Assumption
              DEF Available, AddNonNegativeInt64, ClampNonNegative
    <3>5. Available(TermsOf(r), {r}) \in Nat
      <4>1. /\ AvailableCredit(TermsOf(r), {r}) \in Nat
            /\ AvailableBalance({r}) \in Nat
        BY <2>1, CreditType, AvailableTypes
      <4> QED BY <4>1, SaturatingAdd DEF Available
    <3> HIDE DEF held
    <3> QED BY <2>1, <3>1, <3>2, <3>3, <3>4, <3>5, MaxInt64Assumption
  <2>3. row' = [row EXCEPT ![r].balance = amount - credit, ![r].credit = credit]
    BY <1>3 DEF RaiseUsageBalanceReservation
  <2>4. credit = MinInt64(amount, AvailableCredit(TermsOf(r), {r}))
    OBVIOUS
  <2> HIDE DEF credit
  <2>5. /\ \A x \in Run \ {r} : row'[x] = row[x]
        /\ row'[r].balance = amount - credit /\ row'[r].credit = credit
        /\ row'[r].month = row[r].month /\ row'[r].limit = row[r].limit
    BY <1>1, <2>3 DEF Reservation
  <2>6. TermsOf(r).month = row[r].month /\ TermsOf(r).limit = row[r].limit
    BY DEF TermsOf
  <2> QED BY <2>1, <2>2, <2>4, <2>5, <2>6, BudgetCovered
<1>4. ASSUME NEW r \in Run, \/ ReleaseUsageBalanceReservation(r)
                            \/ Renews(r)
                            \/ MarkUsageReservationReconciliationRequired(r)
                            \/ SettleUsageReservation(r)
      PROVE  Same
  BY <1>1, <1>4 DEF ReleaseUsageBalanceReservation, Renews, RenewUsageBalanceReservation,
     MarkUsageReservationReconciliationRequired, SettleUsageReservation, Reservation
<1>5. Tick => Same
  BY <1>1 DEF Tick, Reservation
<1>6. UNCHANGED row => Same
  OBVIOUS
<1>7. Same => \A x \in Run : GrantCoveredOf(x)
  BY NothingGranted
<1> HIDE DEF Same
<1>8. ASSUME NEW r \in Run, Posts(r) PROVE Same
  BY <1>4, <1>6, <1>8 DEF Posts
<1>9. Deposits => Same
  BY <1>6 DEF Deposits
<1>10. CASE Reserving
  BY <1>2, <1>3, <1>4, <1>5, <1>7, <1>10 DEF Reserving
<1> QED BY <1>6, <1>7, <1>8, <1>9, <1>10, StepKinds DEF vars

\* What is granted or raised fits into the balance and the period's credit next
\* to everything that is held at that moment.
THEOREM GrantsAreKeptCovered == Spec => GrantsAreCovered
<1>1. TypeOK /\ TypeOK' /\ [Next]_vars => [\A r \in Run : GrantCoveredOf(r)]_vars
  BY GrantsStep
<1> QED BY <1>1, TypeCorrect, PTL DEF Spec, GrantsAreCovered, GrantCoveredOf

=============================================================================

------------------------- MODULE UsageBillingProofs -------------------------
(***************************************************************************)
(* Theorems about UsageBilling, for every set of runs, every set of        *)
(* amounts, limits and months, every number of slots, every lease length   *)
(* and every delay of a renewal.                                           *)
(***************************************************************************)
EXTENDS UsageBilling, FiniteSetTheorems, FunctionTheorems, TLAPS

-----------------------------------------------------------------------------
(***************************************************************************)
(* What the helpers of BudgetArithmetic compute, and the laws of Sum.      *)
(***************************************************************************)

\* remainingNonNegativeBudget is limit less what is consumed and reserved, and
\* 0 when these reach it: for limits and amounts that are not negative it is
\* never more than what is left.
THEOREM RemainingBudget ==
    ASSUME NEW limit \in Int, NEW consumed \in Nat, NEW reserved \in Nat
    PROVE  LET rest == RemainingNonNegativeBudget(limit, consumed, reserved)
           IN  /\ rest \in Nat
               /\ rest > 0 => rest + consumed + reserved = limit
               /\ rest = 0 => limit <= consumed + reserved
  BY DEF RemainingNonNegativeBudget, ClampNonNegative

\* addNonNegativeInt64 never exceeds the sum, nor math.MaxInt64, and is exact
\* below it: saturation can refuse a budget but not invent one.
THEOREM SaturatingAdd ==
    ASSUME NEW a \in Nat, NEW b \in Nat
    PROVE  /\ AddNonNegativeInt64(a, b) \in Nat
           /\ AddNonNegativeInt64(a, b) <= a + b
           /\ AddNonNegativeInt64(a, b) <= MaxInt64 \/ AddNonNegativeInt64(a, b) = a + b
           /\ a + b <= MaxInt64 => AddNonNegativeInt64(a, b) = a + b
  BY MaxInt64Assumption DEF AddNonNegativeInt64, ClampNonNegative

LEMMA MinType ==
    ASSUME NEW a \in Nat, NEW b \in Nat
    PROVE  /\ MinInt64(a, b) \in Nat
           /\ MinInt64(a, b) <= a /\ MinInt64(a, b) <= b
           /\ MinInt64(a, b) = a \/ MinInt64(a, b) = b
  BY DEF MinInt64

\* A share of at least one unit, that leaves one for every other slot.
LEMMA ShareOfSlots ==
    ASSUME NEW available \in Nat, NEW slots \in Nat \ {0}, available >= slots
    PROVE  LET share == DivideBudgetAcrossSlots(available, slots)
           IN  /\ share \in Nat /\ share > 0
               /\ available - share >= slots - 1
<1> DEFINE q == available \div slots
           m == available % slots
<1>1. q \in Nat /\ m \in Nat /\ available = slots * q + m
  OBVIOUS
<1>2. m < slots
  OBVIOUS
<1> HIDE DEF q, m
<1>3. q >= 1
  <2>1. q = 0 => slots * q = 0
    OBVIOUS
  <2> QED BY <1>1, <1>2, <2>1
<1>4. slots * q - q >= slots - 1
  <2>1. PICK k \in Nat : q = 1 + k
    <3>1. q - 1 \in Nat /\ q = 1 + (q - 1)
      BY <1>1, <1>3
    <3> QED BY <3>1
  <2>2. PICK n \in Nat : slots = 1 + n
    <3>1. slots - 1 \in Nat /\ slots = 1 + (slots - 1)
      OBVIOUS
    <3> QED BY <3>1
  <2>3. n * k \in Nat /\ slots * q = 1 + k + n + n * k
    BY <2>1, <2>2
  <2> QED BY <2>1, <2>2, <2>3
<1>5. DivideBudgetAcrossSlots(available, slots) = q + (IF m # 0 THEN 1 ELSE 0)
  BY DEF DivideBudgetAcrossSlots, q, m
<1>6. slots * q \in Nat
  BY <1>1
<1> QED BY <1>1, <1>3, <1>4, <1>5, <1>6

-----------------------------------------------------------------------------
LEMMA UnitsFinite ==
    ASSUME NEW S, IsFiniteSet(S), NEW f, \A r \in S : f[r] \in Nat
    PROVE  IsFiniteSet(Units(f, S))
<1> DEFINE Block == [r \in S |-> {r} \X (1 .. f[r])]
           Blocks == {{r} \X (1 .. f[r]) : r \in S}
<1>1. Block \in Surjection(S, Blocks)
  BY DEF Surjection
<1>2. IsFiniteSet(Blocks)
  BY <1>1, FS_Surjection
<1>3. ASSUME NEW B \in Blocks PROVE IsFiniteSet(B)
  <2>1. PICK r \in S : B = {r} \X (1 .. f[r])
    OBVIOUS
  <2>2. IsFiniteSet({r})
    BY FS_Singleton
  <2>3. IsFiniteSet(1 .. f[r])
    BY FS_Interval
  <2> QED BY <2>1, <2>2, <2>3, FS_Product
<1> QED BY <1>2, <1>3, FS_UNION DEF Units

\* A sum is a natural number.
LEMMA SumType ==
    ASSUME NEW S, IsFiniteSet(S), NEW f, \A r \in S : f[r] \in Nat
    PROVE  Sum(f, S) \in Nat
  BY UnitsFinite, FS_CardinalityType DEF Sum

LEMMA SumEmpty ==
    ASSUME NEW f
    PROVE  Sum(f, {}) = 0
<1>1. Units(f, {}) = {}
  BY DEF Units
<1> QED BY <1>1, FS_EmptySet DEF Sum

\* One element's share can be split off.
LEMMA SumSplit ==
    ASSUME NEW S, IsFiniteSet(S), NEW f, \A x \in S : f[x] \in Nat, NEW r \in S
    PROVE  Sum(f, S) = f[r] + Sum(f, S \ {r})
<1> DEFINE Own == {r} \X (1 .. f[r])
           Rest == Units(f, S \ {r})
<1>1. Units(f, S) = Own \cup Rest
  BY DEF Units
<1>2. Own \cap Rest = {}
  BY DEF Units
<1>3. IsFiniteSet(S \ {r})
  BY FS_Difference
<1>4. IsFiniteSet(Rest)
  BY <1>3, UnitsFinite
<1>5. IsFiniteSet(Own) /\ Cardinality(Own) = f[r]
  <2>1. IsFiniteSet({r}) /\ Cardinality({r}) = 1
    BY FS_Singleton
  <2>2. IsFiniteSet(1 .. f[r]) /\ Cardinality(1 .. f[r]) = f[r]
    BY FS_Interval
  <2>3. IsFiniteSet(Own) /\ Cardinality(Own) = 1 * f[r]
    BY <2>1, <2>2, FS_Product
  <2> QED BY <2>3
<1>6. Cardinality(Rest) \in Nat
  BY <1>4, FS_CardinalityType
<1>7. Cardinality(Own \cup Rest) = f[r] + Cardinality(Rest) - Cardinality({})
  <2> HIDE DEF Own, Rest
  <2>1. Cardinality(Own \cup Rest)
          = Cardinality(Own) + Cardinality(Rest) - Cardinality(Own \cap Rest)
    BY <1>4, <1>5, FS_Union
  <2> QED BY <2>1, <1>2, <1>5
<1> QED BY <1>1, <1>6, <1>7, FS_EmptySet DEF Sum

\* Only the values at the summed elements matter.
LEMMA SumAgree ==
    ASSUME NEW S, NEW f, NEW g, \A r \in S : f[r] = g[r]
    PROVE  Sum(f, S) = Sum(g, S)
<1>1. Units(f, S) = Units(g, S)
  BY DEF Units
<1> QED BY <1>1 DEF Sum

\* More elements and larger values do not lower a sum.
LEMMA SumMonotone ==
    ASSUME NEW S, NEW T, IsFiniteSet(T), S \subseteq T, NEW f, NEW g,
           \A r \in T : g[r] \in Nat, \A r \in S : f[r] \in Nat /\ f[r] <= g[r]
    PROVE  Sum(f, S) <= Sum(g, T)
<1>1. Units(f, S) \subseteq Units(g, T)
  BY DEF Units
<1>2. IsFiniteSet(Units(g, T))
  BY UnitsFinite
<1> QED BY <1>1, <1>2, FS_Subset DEF Sum

\* The effect of changing one row on a sum over rows that are selected by their
\* contents: f and S before the change, g and T after it.
LEMMA SumChange ==
    ASSUME NEW S, NEW T, IsFiniteSet(S), IsFiniteSet(T), NEW r,
           S \ {r} = T \ {r},
           NEW f, NEW g, \A x \in S : f[x] \in Nat, \A x \in T : g[x] \in Nat,
           \A x \in S \ {r} : f[x] = g[x]
    PROVE  Sum(g, T) - (IF r \in T THEN g[r] ELSE 0)
             = Sum(f, S) - (IF r \in S THEN f[r] ELSE 0)
<1>1. Sum(f, S \ {r}) = Sum(g, T \ {r})
  BY SumAgree
<1>2. Sum(f, S) = (IF r \in S THEN f[r] ELSE 0) + Sum(f, S \ {r})
  <2>1. CASE r \in S
    BY <2>1, SumSplit
  <2>2. CASE r \notin S
    <3>1. S \ {r} = S
      BY <2>2
    <3>2. Sum(f, S) \in Nat /\ Sum(f, S \ {r}) = Sum(f, S)
      BY <3>1, SumType
    <3> QED BY <2>2, <3>2
  <2> QED BY <2>1, <2>2
<1>3. Sum(g, T) = (IF r \in T THEN g[r] ELSE 0) + Sum(g, T \ {r})
  <2>1. CASE r \in T
    BY <2>1, SumSplit
  <2>2. CASE r \notin T
    <3>1. T \ {r} = T
      BY <2>2
    <3>2. Sum(g, T) \in Nat /\ Sum(g, T \ {r}) = Sum(g, T)
      BY <3>1, SumType
    <3> QED BY <2>2, <3>2
  <2> QED BY <2>1, <2>2
<1>4. Sum(f, S \ {r}) \in Nat
  <2>1. IsFiniteSet(S \ {r})
    BY FS_Difference
  <2> QED BY <2>1, SumType
<1> QED BY <1>1, <1>2, <1>3, <1>4

-----------------------------------------------------------------------------
(***************************************************************************)
(* What the transactions read is a natural number.                         *)
(***************************************************************************)
LEMMA SubsetsOfRunFinite ==
    ASSUME NEW S \in SUBSET Run
    PROVE  IsFiniteSet(S)
  BY RunAssumption, FS_Subset

LEMMA PartTypes ==
    ASSUME TypeOK
    PROVE  /\ BalancePart \in [Run -> Nat] /\ CreditPart \in [Run -> Nat]
           /\ Billed \in [Run -> Nat] /\ Charged \in [Run -> Nat] /\ Covered \in [Run -> Nat]
  BY DEF TypeOK, Reservation, Entry, BalancePart, CreditPart, Billed, Charged, Covered

LEMMA SumOverRunType ==
    ASSUME NEW f \in [Run -> Nat], NEW S \in SUBSET Run
    PROVE  Sum(f, S) \in Nat
  BY SubsetsOfRunFinite, SumType

LEMMA ReadTypes ==
    ASSUME TypeOK, NEW exclude
    PROVE  /\ CountActiveUsageReservations \in Nat
           /\ SumActiveBalanceReservations(exclude) \in Nat
           /\ \A m : SumActivePeriodCreditReservations(m, exclude) \in Nat
           /\ \A m : SumPeriodBilledNanousd(m) \in Nat
<1>1. Occupying \in SUBSET Run /\ IsFiniteSet(Occupying)
  BY SubsetsOfRunFinite DEF Occupying
<1>2. CountActiveUsageReservations \in Nat
  BY <1>1, FS_CardinalityType DEF CountActiveUsageReservations
<1>3. SumActiveBalanceReservations(exclude) \in Nat
  BY <1>1, PartTypes, SumOverRunType DEF SumActiveBalanceReservations
<1>4. ASSUME NEW m PROVE SumActivePeriodCreditReservations(m, exclude) \in Nat
  BY <1>1, PartTypes, SumOverRunType DEF SumActivePeriodCreditReservations
<1>5. ASSUME NEW m PROVE SumPeriodBilledNanousd(m) \in Nat
  BY PartTypes, SumOverRunType DEF SumPeriodBilledNanousd
<1> QED BY <1>2, <1>3, <1>4, <1>5

LEMMA AvailableTypes ==
    ASSUME TypeOK, NEW exclude
    PROVE  /\ AvailableBalance(exclude) \in Nat
           /\ AvailableBalance(exclude) > 0 =>
                AvailableBalance(exclude) + SumActiveBalanceReservations(exclude) = balance
           /\ \A m, limit \in Nat :
                /\ RemainingCredit(m, limit, exclude) \in Nat
                /\ RemainingCredit(m, limit, exclude) > 0 =>
                     RemainingCredit(m, limit, exclude) + SumPeriodBilledNanousd(m)
                         + SumActivePeriodCreditReservations(m, exclude) = limit
<1>1. balance \in Int
  BY DEF TypeOK
<1>2. /\ SumActiveBalanceReservations(exclude) \in Nat
      /\ \A m : SumActivePeriodCreditReservations(m, exclude) \in Nat
      /\ \A m : SumPeriodBilledNanousd(m) \in Nat
  BY ReadTypes
<1>3. /\ AvailableBalance(exclude) \in Nat
      /\ AvailableBalance(exclude) > 0 =>
           AvailableBalance(exclude) + SumActiveBalanceReservations(exclude) + 0 = balance
  BY <1>1, <1>2, RemainingBudget DEF AvailableBalance
<1>4. ASSUME NEW m \in Nat, NEW limit \in Nat
      PROVE  /\ RemainingCredit(m, limit, exclude) \in Nat
             /\ RemainingCredit(m, limit, exclude) > 0 =>
                  RemainingCredit(m, limit, exclude) + SumPeriodBilledNanousd(m)
                      + SumActivePeriodCreditReservations(m, exclude) = limit
  <2> DEFINE used == SumPeriodBilledNanousd(m)
             held == SumActivePeriodCreditReservations(m, exclude)
  <2>1. used \in Nat /\ held \in Nat
    BY <1>2
  <2> HIDE DEF used, held
  <2>2. LET rest == RemainingNonNegativeBudget(limit, used, held)
        IN  rest \in Nat /\ (rest > 0 => rest + used + held = limit)
    BY <2>1, RemainingBudget
  <2> QED BY <2>2 DEF RemainingCredit, used, held
<1> QED BY <1>2, <1>3, <1>4

AnyTerms == [mode : Modes, month : Nat, limit : Nat]

LEMMA TermsTypes ==
    /\ Terms \subseteq AnyTerms
    /\ TypeOK => \A r \in Run : TermsOf(r) \in AnyTerms
<1>1. ASSUME NEW terms \in Terms PROVE terms \in AnyTerms
  <2>1. CASE terms \in [mode : {"usage"}, month : {0}, limit : {0}]
    BY <2>1 DEF AnyTerms, Modes
  <2>2. CASE terms \in [mode : {"period"}, month : Month, limit : Limit]
    BY <2>2, MonthAssumption, LimitAssumption DEF AnyTerms, Modes
  <2> QED BY <2>1, <2>2 DEF Terms
<1>2. ASSUME TypeOK, NEW r \in Run PROVE TermsOf(r) \in AnyTerms
  <2>1. row[r] \in Reservation
    BY <1>2 DEF TypeOK
  <2> QED BY <2>1 DEF AnyTerms, TermsOf, Reservation
<1> QED BY <1>1, <1>2

LEMMA CreditType ==
    ASSUME TypeOK, NEW terms \in AnyTerms, NEW exclude
    PROVE  AvailableCredit(terms, exclude) \in Nat
  BY AvailableTypes DEF AvailableCredit, AnyTerms

\* However a covered budget is split, each part fits into what is available of
\* its kind.
LEMMA SplitFits ==
    ASSUME TypeOK, NEW terms \in AnyTerms, NEW exclude, NEW budget \in Nat,
           budget <= Available(terms, exclude)
    PROVE  LET credit == MinInt64(budget, AvailableCredit(terms, exclude))
           IN  /\ credit \in Nat /\ credit <= AvailableCredit(terms, exclude)
               /\ budget - credit \in Nat /\ budget - credit <= AvailableBalance(exclude)
<1> DEFINE ac == AvailableCredit(terms, exclude)
           ab == AvailableBalance(exclude)
           credit == MinInt64(budget, ac)
<1>1. ac \in Nat /\ ab \in Nat
  BY CreditType, AvailableTypes
<1>2. budget <= AddNonNegativeInt64(ac, ab)
  BY DEF Available
<1> HIDE DEF ac, ab
<1>3. AddNonNegativeInt64(ac, ab) \in Nat /\ AddNonNegativeInt64(ac, ab) <= ac + ab
  BY <1>1, SaturatingAdd
<1>4. /\ credit \in Nat /\ credit <= budget /\ credit <= ac
      /\ credit = budget \/ credit = ac
  BY <1>1, MinType
<1> HIDE DEF credit
<1>5. budget - credit \in Nat /\ budget - credit <= ab
  BY <1>1, <1>2, <1>3, <1>4
<1> QED BY <1>4, <1>5 DEF credit, ac, ab

LEMMA GrantType ==
    ASSUME TypeOK, NEW terms \in AnyTerms, NEW requested \in Nat,
           Grant(terms, requested) > 0
    PROVE  Grant(terms, requested) \in Nat
<1> DEFINE a == Available(terms, {})
           n == MaxActive - CountActiveUsageReservations
<1>1. a \in Nat
  <2>1. AvailableCredit(terms, {}) \in Nat /\ AvailableBalance({}) \in Nat
    BY CreditType, AvailableTypes
  <2> QED BY <2>1, SaturatingAdd DEF Available
<1>2. n \in Int
  BY MaxActiveAssumption, ReadTypes
<1> HIDE DEF a, n
<1>3. DivideBudgetAcrossSlots(a, n) \in Int
  BY <1>1, <1>2 DEF DivideBudgetAcrossSlots
<1>4. Grant(terms, requested) \in Int
  BY <1>3 DEF Grant, a, n
<1> QED BY <1>4

LEMMA ReservationTypes ==
    ASSUME TypeOK, NEW r \in Run, NEW terms \in Terms, NEW requested \in Amount,
           CanReserve(r, terms, requested)
    PROVE  LET granted == Grant(terms, requested)
               credit  == MinInt64(granted, AvailableCredit(terms, {}))
           IN  /\ granted \in Nat /\ credit \in Nat
               /\ credit <= AvailableCredit(terms, {})
               /\ granted - credit \in Nat /\ granted - credit <= AvailableBalance({})
<1>1. terms \in AnyTerms /\ requested \in Nat
  BY TermsTypes, AmountAssumption
<1>2. Grant(terms, requested) \in Nat /\ Grant(terms, requested) <= Available(terms, {})
  BY <1>1, GrantType DEF CanReserve
<1> QED BY <1>1, <1>2, SplitFits

-----------------------------------------------------------------------------
(***************************************************************************)
(* Type correctness.                                                       *)
(***************************************************************************)
LEMMA EntryTypes ==
    ASSUME TypeOK, NEW cost \in Amount, NEW m \in Month
    PROVE  /\ UsageEntry(cost, m) \in Entry
           /\ [UsageEntry(cost, m) EXCEPT !.charged = 0] \in Entry
           /\ \A period, limit \in Nat : \A exclude :
                PeriodEntry(cost, m, period, limit, exclude) \in Entry
<1>1. cost \in Nat /\ m \in Nat
  BY AmountAssumption, MonthAssumption
<1>2. UsageEntry(cost, m) \in Entry /\ [UsageEntry(cost, m) EXCEPT !.charged = 0] \in Entry
  BY <1>1 DEF UsageEntry, Entry
<1>3. ASSUME NEW period \in Nat, NEW limit \in Nat, NEW exclude
      PROVE  PeriodEntry(cost, m, period, limit, exclude) \in Entry
  <2> DEFINE rest == RemainingCredit(period, limit, exclude)
             covered == MinInt64(cost, rest)
  <2>1. rest \in Nat
    BY <1>3, AvailableTypes
  <2> HIDE DEF rest
  <2>2. covered \in Nat /\ cost - covered \in Nat
    BY <1>1, <2>1, MinType
  <2> HIDE DEF covered
  <2>3. [posted |-> TRUE, billed |-> cost, charged |-> cost - covered,
         covered |-> covered, month |-> m, period |-> period] \in Entry
    BY <1>1, <2>2 DEF Entry
  <2> QED BY <2>3 DEF PeriodEntry, covered, rest
<1> QED BY <1>2, <1>3

LEMMA HeldType ==
    ASSUME TypeOK, NEW r \in Run
    PROVE  Held(r) \in Nat
  BY DEF Held, TypeOK, Reservation

\* A posting keeps the account's and the ledger's types.
LEMMA PostTypes ==
    ASSUME TypeOK, NEW r \in Run, NEW entry \in Entry, NEW held \in Nat, Post(r, entry, held)
    PROVE  /\ balance' \in Int /\ ledger' \in [Run -> Entry]
           /\ deposited' \in Int /\ excess' \in Nat /\ reclaimed' \subseteq Run
<1>1. entry.charged \in Nat
  BY DEF Entry
<1>2. ledger' \in [Run -> Entry]
  BY DEF Post, TypeOK
<1>3. balance' \in Int /\ deposited' \in Int
  BY <1>1 DEF Post, TypeOK
<1>4. ClampNonNegative(entry.charged - held) \in Nat
  BY <1>1 DEF ClampNonNegative
<1>5. excess' \in Nat /\ reclaimed' \subseteq Run
  BY <1>4 DEF Post, TypeOK
<1> QED BY <1>2, <1>3, <1>5

\* Leaving the active status keeps the rows' types.
LEMMA ResolvedRowTypes ==
    ASSUME TypeOK, NEW r \in Run, NEW status \in Statuses,
           row' = [row EXCEPT ![r].status = status, ![r].lease = 0]
    PROVE  row' \in [Run -> Reservation]
<1>1. row[r] \in Reservation /\ 0 \in Lease
  BY LeaseTicksAssumption, RenewDelayAssumption DEF TypeOK, Lease
<1>2. [row[r] EXCEPT !.status = status, !.lease = 0] \in Reservation
  BY <1>1 DEF Reservation
<1>3. row' = [row EXCEPT ![r] = [row[r] EXCEPT !.status = status, !.lease = 0]]
  BY <1>1 DEF TypeOK
<1> QED BY <1>2, <1>3 DEF TypeOK

LEMMA SettledRowTypes ==
    ASSUME TypeOK, NEW r \in Run, SettleUsageReservation(r)
    PROVE  row' \in [Run -> Reservation]
<1>1. "settled" \in Statuses
  BY DEF Statuses
<1> QED BY <1>1, ResolvedRowTypes DEF SettleUsageReservation

LEMMA TypeStep ==
    ASSUME TypeOK, [Next]_vars
    PROVE  TypeOK'
<1> USE DEF TypeOK
<1>1. ASSUME NEW r \in Run, NEW terms \in Terms, NEW amount \in Amount,
             ReserveUsageBalance(r, terms, amount)
      PROVE  TypeOK'
  <2> DEFINE granted == Grant(terms, amount)
             credit  == MinInt64(granted, AvailableCredit(terms, {}))
  <2>1. credit \in Nat /\ granted - credit \in Nat
    BY <1>1, ReservationTypes DEF ReserveUsageBalance
  <2> HIDE DEF granted, credit
  <2>2. terms \in AnyTerms
    BY TermsTypes
  <2>3. [status |-> "active", mode |-> terms.mode, balance |-> granted - credit,
         credit |-> credit, limit |-> terms.limit, month |-> terms.month,
         lease |-> LeaseTicks] \in Reservation
    BY <2>1, <2>2, LeaseTicksAssumption, RenewDelayAssumption
       DEF AnyTerms, Reservation, Statuses, Lease
  <2>4. row' = [row EXCEPT ![r] = 
                 [status |-> "active", mode |-> terms.mode, balance |-> granted - credit,
                  credit |-> credit, limit |-> terms.limit, month |-> terms.month,
                  lease |-> LeaseTicks]]
    BY <1>1 DEF ReserveUsageBalance, granted, credit
  <2> QED BY <1>1, <2>3, <2>4 DEF ReserveUsageBalance
<1>2. ASSUME NEW r \in Run, NEW amount \in Amount, RaiseUsageBalanceReservation(r, amount)
      PROVE  TypeOK'
  <2> DEFINE credit == MinInt64(amount, AvailableCredit(TermsOf(r), {r}))
  <2>1. amount \in Nat /\ TermsOf(r) \in AnyTerms
    BY AmountAssumption, TermsTypes
  <2>2. amount <= Available(TermsOf(r), {r})
    BY <1>2 DEF RaiseUsageBalanceReservation
  <2>3. credit \in Nat /\ amount - credit \in Nat
    BY <2>1, <2>2, SplitFits
  <2>4. row' = [row EXCEPT ![r].balance = amount - credit, ![r].credit = credit]
    BY <1>2 DEF RaiseUsageBalanceReservation
  <2> HIDE DEF credit
  <2>5. row' \in [Run -> Reservation]
    BY <2>3, <2>4 DEF Reservation
  <2> QED BY <1>2, <2>5 DEF RaiseUsageBalanceReservation
<1>3. ASSUME NEW r \in Run, ReleaseUsageBalanceReservation(r)
      PROVE  TypeOK'
  <2>1. "released" \in Statuses
    BY DEF Statuses
  <2>2. row' \in [Run -> Reservation]
    BY <1>3, <2>1, ResolvedRowTypes DEF ReleaseUsageBalanceReservation
  <2> QED BY <1>3, <2>2 DEF ReleaseUsageBalanceReservation
<1>4. ASSUME NEW r \in Run, NEW late \in 0 .. RenewDelay,
             RenewUsageBalanceReservation(r, late)
      PROVE  TypeOK'
  <2>1. LeaseTicks - late \in Lease
    BY LeaseTicksAssumption, RenewDelayAssumption DEF Lease
  <2>2. row' \in [Run -> Reservation]
    BY <1>4, <2>1 DEF RenewUsageBalanceReservation, Reservation
  <2> QED BY <1>4, <2>2 DEF RenewUsageBalanceReservation, Claims
<1>5. ASSUME NEW r \in Run, MarkUsageReservationReconciliationRequired(r)
      PROVE  TypeOK'
  <2>1. "reconciliation" \in Statuses
    BY DEF Statuses
  <2>2. row' \in [Run -> Reservation]
    BY <1>5, <2>1, ResolvedRowTypes DEF MarkUsageReservationReconciliationRequired
  <2> QED BY <1>5, <2>2 DEF MarkUsageReservationReconciliationRequired, Claims
<1>6. ASSUME NEW r \in Run, NEW amount \in Amount, NEW m \in Month,
             AddUsageAndSettleBalance(r, amount, m)
      PROVE  TypeOK'
  BY <1>6, EntryTypes, HeldType, PostTypes, SettledRowTypes DEF AddUsageAndSettleBalance
<1>7. ASSUME NEW r \in Run, NEW amount \in Amount, NEW m \in Month,
             AddUsageWithoutReservation(r, amount, m)
      PROVE  TypeOK'
  BY <1>7, EntryTypes, PostTypes DEF AddUsageWithoutReservation
<1>8. ASSUME NEW r \in Run, NEW amount \in Amount, NEW m \in Month,
             AddPeriodUsageAndSettleOverage(r, amount, m)
      PROVE  TypeOK'
  <2> DEFINE entry == PeriodEntry(amount, m, row[r].month, row[r].limit, {r})
  <2>1. row[r].month \in Nat /\ row[r].limit \in Nat
    BY DEF Reservation
  <2>2. entry \in Entry
    BY <2>1, EntryTypes
  <2>3. Post(r, entry, Held(r)) /\ SettleUsageReservation(r)
    BY <1>8 DEF AddPeriodUsageAndSettleOverage
  <2> HIDE DEF entry
  <2> QED BY <2>2, <2>3, HeldType, PostTypes, SettledRowTypes
<1>9. ASSUME NEW r \in Run, NEW amount \in Amount, NEW m \in Month, NEW limit \in Limit,
             AddPeriodUsageWithoutReservation(r, amount, m, limit)
      PROVE  TypeOK'
  <2> DEFINE entry == PeriodEntry(amount, m, m, limit, {})
  <2>1. entry \in Entry
    BY EntryTypes, MonthAssumption, LimitAssumption
  <2>2. Post(r, entry, 0) /\ UNCHANGED row
    BY <1>9 DEF AddPeriodUsageWithoutReservation
  <2> HIDE DEF entry
  <2> QED BY <2>1, <2>2, PostTypes
<1>10. ASSUME NEW r \in Run, NEW amount \in Amount, NEW m \in Month, AddUsage(r, amount, m)
       PROVE  TypeOK'
  BY <1>10, EntryTypes, PostTypes DEF AddUsage
<1>11. ASSUME NEW amount \in Amount, SetBillingAccountBalance(amount)
       PROVE  TypeOK'
  BY <1>11, AmountAssumption DEF SetBillingAccountBalance, ClampNonNegative
<1>12. ASSUME NEW amount \in Amount, CreditBalance(amount)
       PROVE  TypeOK'
  BY <1>12, AmountAssumption DEF CreditBalance
<1>13. CASE Tick
  BY <1>13, LeaseTicksAssumption, RenewDelayAssumption DEF Tick, Reservation, Lease
<1>14. CASE UNCHANGED vars
  BY <1>14 DEF vars
<1> QED
  BY <1>1, <1>2, <1>3, <1>4, <1>5, <1>6, <1>7, <1>8, <1>9, <1>10, <1>11, <1>12,
     <1>13, <1>14 DEF Next

\* Every reachable state is a state the billing schema can hold: no operation
\* writes a negative part of a reservation, a lease beyond the TTL or a
\* negative charge.
THEOREM TypeCorrect == Spec => []TypeOK
<1>1. Init => TypeOK
  BY LeaseTicksAssumption, RenewDelayAssumption
     DEF Init, TypeOK, NoReservation, Reservation, Statuses, Modes, NoEntry, Entry, Lease
<1>2. TypeOK /\ [Next]_vars => TypeOK'
  BY TypeStep
<1> QED BY <1>1, <1>2, PTL DEF Spec

-----------------------------------------------------------------------------
(***************************************************************************)
(* The balance covers what was held without a break.  All that a step can  *)
(* disturb is the share of one run in the sum of these budgets, so the     *)
(* proof follows that share: Held(r) before and after.                     *)
(***************************************************************************)
HeldBalance == SumActiveBalanceReservations({})

PromisedBalance == SumActiveBalanceReservations(reclaimed)

\* The share of a run in HeldBalance; Held(r) is that in PromisedBalance.
Share(r) == IF Occupies(r) THEN row[r].balance ELSE 0

LEMMA HeldBalanceType ==
    ASSUME TypeOK
    PROVE  HeldBalance \in Nat /\ PromisedBalance \in Nat
  BY ReadTypes DEF HeldBalance, PromisedBalance

LEMMA HeldBalanceTypeNext ==
    ASSUME TypeOK'
    PROVE  HeldBalance' \in Nat /\ PromisedBalance' \in Nat
<1>1. BalancePart' \in [Run -> Nat]
  BY DEF TypeOK, Reservation, BalancePart
<1>2. (Occupying \ {})' \in SUBSET Run /\ (Occupying \ reclaimed)' \in SUBSET Run
  BY DEF Occupying
<1> QED
  BY <1>1, <1>2, SumOverRunType
     DEF HeldBalance, PromisedBalance, SumActiveBalanceReservations

\* What a sum over some of the occupying rows becomes when one row changes.
LEMMA OneRowSum ==
    ASSUME TypeOK, TypeOK', NEW r \in Run, \A x \in Run \ {r} : row'[x] = row[x],
           NEW S, NEW T, S \subseteq Run, T \subseteq Run, S \ {r} = T \ {r}
    PROVE  Sum(BalancePart', T) - (IF r \in T THEN row'[r].balance ELSE 0)
             = Sum(BalancePart, S) - (IF r \in S THEN row[r].balance ELSE 0)
<1> DEFINE f == BalancePart
           g == BalancePart'
<1>1. IsFiniteSet(S) /\ IsFiniteSet(T)
  BY SubsetsOfRunFinite
<1>2. f \in [Run -> Nat] /\ g \in [Run -> Nat]
  BY DEF TypeOK, Reservation, BalancePart
<1>3. \A x \in S \ {r} : f[x] = g[x]
  BY DEF BalancePart
<1>4. f[r] = row[r].balance /\ g[r] = row'[r].balance
  BY DEF BalancePart
<1> HIDE DEF f, g
<1>5. Sum(g, T) - (IF r \in T THEN g[r] ELSE 0) = Sum(f, S) - (IF r \in S THEN f[r] ELSE 0)
  BY <1>1, <1>2, <1>3, SumChange
<1> QED BY <1>4, <1>5 DEF f, g

\* A step that changes one row changes the held sum by that row's share.
LEMMA OneRowHeld ==
    ASSUME TypeOK, TypeOK', NEW r \in Run, \A x \in Run \ {r} : row'[x] = row[x]
    PROVE  HeldBalance' - Share(r)' = HeldBalance - Share(r)
<1> DEFINE S == Occupying
           T == Occupying'
<1>1. S \subseteq Run /\ T \subseteq Run /\ S \ {r} = T \ {r}
  BY DEF Occupying, Occupies
<1>2. /\ Share(r) = (IF r \in S THEN row[r].balance ELSE 0)
      /\ Share(r)' = (IF r \in T THEN row'[r].balance ELSE 0)
  BY DEF Share, Occupying
<1>3. HeldBalance = Sum(BalancePart, S) /\ HeldBalance' = Sum(BalancePart', T)
  <2>1. S \ {} = S /\ T \ {} = T
    OBVIOUS
  <2> QED BY <2>1 DEF HeldBalance, SumActiveBalanceReservations
<1> HIDE DEF S, T
<1> QED BY <1>1, <1>2, <1>3, OneRowSum

\* So does one that only lets that run claim its budget again.
LEMMA OneRowPromised ==
    ASSUME TypeOK, TypeOK', NEW r \in Run, \A x \in Run \ {r} : row'[x] = row[x],
           reclaimed' \ {r} = reclaimed \ {r}
    PROVE  PromisedBalance' - Held(r)' = PromisedBalance - Held(r)
<1> DEFINE S == Occupying \ reclaimed
           T == (Occupying \ reclaimed)'
<1>1. S \subseteq Run /\ T \subseteq Run /\ S \ {r} = T \ {r}
  BY DEF Occupying, Occupies
<1>2. /\ Held(r) = (IF r \in S THEN row[r].balance ELSE 0)
      /\ Held(r)' = (IF r \in T THEN row'[r].balance ELSE 0)
  BY DEF Held, Occupying
<1>3. PromisedBalance = Sum(BalancePart, S) /\ PromisedBalance' = Sum(BalancePart', T)
  BY DEF PromisedBalance, SumActiveBalanceReservations
<1> HIDE DEF S, T
<1> QED BY <1>1, <1>2, <1>3, OneRowSum

\* A run's own reservation is what a sum over the others leaves out.
LEMMA BalanceOfOthers ==
    ASSUME TypeOK, NEW r \in Run, NEW S, S \subseteq Run
    PROVE  /\ Sum(BalancePart, S \ {r})
                = Sum(BalancePart, S) - (IF r \in S THEN row[r].balance ELSE 0)
           /\ Sum(BalancePart, S \ {r}) \in Nat
<1>1. IsFiniteSet(S) /\ BalancePart \in [Run -> Nat]
  BY SubsetsOfRunFinite, PartTypes
<1>2. BalancePart[r] = row[r].balance
  BY DEF BalancePart
<1>3. Sum(BalancePart, S \ {r}) \in Nat /\ Sum(BalancePart, S) \in Nat
  BY <1>1, SumOverRunType
<1>4. CASE r \in S
  <2>1. Sum(BalancePart, S) = BalancePart[r] + Sum(BalancePart, S \ {r})
    BY <1>1, <1>4, SumSplit
  <2> QED BY <1>1, <1>2, <1>3, <1>4, <2>1
<1>5. CASE r \notin S
  <2>1. S \ {r} = S
    BY <1>5
  <2> QED BY <1>3, <1>5, <2>1
<1> QED BY <1>4, <1>5

LEMMA HeldByOthers ==
    ASSUME TypeOK, NEW r \in Run
    PROVE  SumActiveBalanceReservations({r}) = HeldBalance - Share(r)
<1>1. Occupying \subseteq Run /\ Occupying \ {} = Occupying
  BY DEF Occupying
<1>2. Sum(BalancePart, Occupying \ {r})
        = Sum(BalancePart, Occupying) - (IF r \in Occupying THEN row[r].balance ELSE 0)
  BY <1>1, BalanceOfOthers
<1> QED BY <1>1, <1>2 DEF HeldBalance, SumActiveBalanceReservations, Share, Occupying

\* Whoever reads what the others hold sees at least what is promised to them.
LEMMA PromisedToOthers ==
    ASSUME TypeOK, NEW r \in Run
    PROVE  PromisedBalance - Held(r) <= SumActiveBalanceReservations({r})
<1> DEFINE S == Occupying \ reclaimed
<1>1. S \subseteq Run /\ Occupying \ {r} \subseteq Run /\ S \ {r} \subseteq Occupying \ {r}
  BY DEF Occupying
<1>2. BalancePart \in [Run -> Nat] /\ IsFiniteSet(Occupying \ {r})
  BY <1>1, PartTypes, SubsetsOfRunFinite
<1>3. Sum(BalancePart, S \ {r}) <= Sum(BalancePart, Occupying \ {r})
  BY <1>1, <1>2, SumMonotone
<1>4. Sum(BalancePart, S \ {r})
        = Sum(BalancePart, S) - (IF r \in S THEN row[r].balance ELSE 0)
  BY <1>1, BalanceOfOthers
<1>5. Held(r) = (IF r \in S THEN row[r].balance ELSE 0)
  BY DEF Held, Occupying
<1>6. PromisedBalance = Sum(BalancePart, S)
  BY DEF PromisedBalance, SumActiveBalanceReservations
<1> HIDE DEF S
<1> QED BY <1>3, <1>4, <1>5, <1>6 DEF SumActiveBalanceReservations

LEMMA UnchangedRowsHeld ==
    ASSUME UNCHANGED <<row, reclaimed>>
    PROVE  PromisedBalance' = PromisedBalance
  BY DEF PromisedBalance, SumActiveBalanceReservations, Occupying, Occupies, BalancePart

\* Time only frees budgets.
LEMMA TickHeld ==
    ASSUME TypeOK, TypeOK', Tick
    PROVE  PromisedBalance' <= PromisedBalance
<1>1. \A r \in Run : row'[r].balance = row[r].balance /\ row'[r].status = row[r].status
                     /\ (row'[r].lease > 0 => row[r].lease > 0)
  BY RenewDelayAssumption, LeaseTicksAssumption DEF Tick, TypeOK, Reservation, Lease
<1> DEFINE S == Occupying \ reclaimed
           T == (Occupying \ reclaimed)'
<1>2. T \subseteq S /\ S \subseteq Run /\ IsFiniteSet(S)
  <2>1. reclaimed' = reclaimed
    BY DEF Tick
  <2> QED BY <1>1, <2>1, SubsetsOfRunFinite DEF Occupying, Occupies
<1>3. BalancePart' = BalancePart /\ BalancePart \in [Run -> Nat]
  BY <1>1, PartTypes DEF BalancePart
<1>4. Sum(BalancePart, T) <= Sum(BalancePart, S)
  BY <1>2, <1>3, SumMonotone
<1> QED BY <1>3, <1>4 DEF PromisedBalance, SumActiveBalanceReservations

\* Posting an entry takes from the balance no more than the held budget, except
\* for what is added to the excess.
LEMMA PostCovered ==
    ASSUME TypeOK, NEW r \in Run, NEW entry \in Entry, NEW held \in Nat, Post(r, entry, held)
    PROVE  balance' + excess' >= balance + excess - held
<1>1. entry.charged \in Nat
  BY DEF Entry
<1> QED BY <1>1 DEF Post, ClampNonNegative, TypeOK

\* A settlement gives the run's own budget back, which pays for what it takes.
LEMMA SettlementCovered ==
    ASSUME TypeOK, TypeOK', FundsCoverHolds, NEW r \in Run, NEW entry \in Entry,
           Post(r, entry, Held(r)), SettleUsageReservation(r)
    PROVE  FundsCoverHolds'
<1>1. \A x \in Run \ {r} : row'[x] = row[x]
  BY DEF SettleUsageReservation, TypeOK
<1>2. Held(r)' = 0
  BY DEF SettleUsageReservation, TypeOK, Held, Occupies
<1>3. PromisedBalance' - Held(r)' = PromisedBalance - Held(r)
  BY <1>1, OneRowPromised DEF Post
<1>4. balance' + excess' >= balance + excess - Held(r)
  BY HeldType, PostCovered
<1>5. /\ PromisedBalance \in Nat /\ PromisedBalance' \in Nat /\ Held(r) \in Nat
      /\ balance \in Int /\ excess \in Int /\ balance' \in Int /\ excess' \in Int
  BY HeldBalanceType, HeldBalanceTypeNext, HeldType DEF TypeOK
<1> QED BY <1>2, <1>3, <1>4, <1>5 DEF FundsCoverHolds, PromisedBalance, SumActiveBalanceReservations

\* A grant is admitted only if it fits, next to what the others hold, into the
\* balance itself.
LEMMA GrantCovered ==
    ASSUME TypeOK, TypeOK', FundsCoverHolds, NEW r \in Run, NEW part \in Nat,
           \A x \in Run \ {r} : row'[x] = row[x],
           row'[r].balance = part,
           part <= AvailableBalance({r}),
           balance' = balance, excess' = excess, reclaimed' = reclaimed
    PROVE  FundsCoverHolds'
<1>1. PromisedBalance' - Held(r)' = PromisedBalance - Held(r)
  BY OneRowPromised
<1>2. /\ PromisedBalance - Held(r) <= SumActiveBalanceReservations({r})
      /\ SumActiveBalanceReservations({r}) \in Nat
  BY PromisedToOthers, ReadTypes
<1>3. AvailableBalance({r}) \in Nat
      /\ (AvailableBalance({r}) > 0 =>
            AvailableBalance({r}) + SumActiveBalanceReservations({r}) = balance)
  BY AvailableTypes
<1>4. Held(r)' \in Nat /\ Held(r)' <= part
  BY DEF Held
<1>5. /\ PromisedBalance \in Nat /\ PromisedBalance' \in Nat /\ Held(r) \in Nat
      /\ balance \in Int /\ excess \in Nat
  BY HeldBalanceType, HeldBalanceTypeNext, HeldType DEF TypeOK
<1>6. balance + excess >= PromisedBalance
  BY DEF FundsCoverHolds, PromisedBalance, SumActiveBalanceReservations
<1>7. balance + excess >= PromisedBalance'
  <2>1. CASE AvailableBalance({r}) > 0
    BY <2>1, <1>1, <1>2, <1>3, <1>4, <1>5
  <2>2. CASE AvailableBalance({r}) = 0
    BY <2>2, <1>1, <1>4, <1>5, <1>6
  <2> QED BY <2>1, <2>2, <1>3
<1> QED BY <1>7 DEF FundsCoverHolds, PromisedBalance, SumActiveBalanceReservations

\* What holds no more and takes nothing keeps the holds covered.
LEMMA NothingMoreHeld ==
    ASSUME TypeOK, TypeOK', FundsCoverHolds,
           PromisedBalance' <= PromisedBalance, balance' + excess' >= balance + excess
    PROVE  FundsCoverHolds'
<1>1. ASSUME NEW a \in Int, NEW b \in Int, NEW c \in Int, NEW d \in Int,
             a <= b, b <= c, c <= d
      PROVE  a <= d
  BY <1>1
<1>2. /\ PromisedBalance \in Int /\ PromisedBalance' \in Int
      /\ balance + excess \in Int /\ balance' + excess' \in Int
  BY HeldBalanceType, HeldBalanceTypeNext DEF TypeOK
<1>3. PromisedBalance <= balance + excess /\ balance + excess <= balance' + excess'
  BY <1>2 DEF FundsCoverHolds, PromisedBalance, SumActiveBalanceReservations, TypeOK
<1>4. PromisedBalance' <= balance' + excess'
  BY <1>1, <1>2, <1>3
<1> QED BY <1>2, <1>4 DEF FundsCoverHolds, PromisedBalance, SumActiveBalanceReservations, TypeOK

LEMMA FundsStep ==
    ASSUME TypeOK, TypeOK', FundsCoverHolds, [Next]_vars
    PROVE  FundsCoverHolds'
<1>0. /\ PromisedBalance \in Nat /\ PromisedBalance' \in Nat
      /\ balance \in Int /\ excess \in Nat /\ balance' \in Int /\ excess' \in Nat
      /\ balance + excess >= PromisedBalance
  BY HeldBalanceType, HeldBalanceTypeNext DEF TypeOK, FundsCoverHolds, PromisedBalance, SumActiveBalanceReservations
<1>a. ASSUME PromisedBalance' <= PromisedBalance, balance' + excess' >= balance + excess
      PROVE  FundsCoverHolds'
  BY <1>a, NothingMoreHeld
<1>1. ASSUME NEW r \in Run, NEW terms \in Terms, NEW amount \in Amount,
             ReserveUsageBalance(r, terms, amount)
      PROVE  FundsCoverHolds'
  <2> DEFINE granted == Grant(terms, amount)
             credit  == MinInt64(granted, AvailableCredit(terms, {}))
  <2>1. CanReserve(r, terms, amount)
    BY <1>1 DEF ReserveUsageBalance
  <2>2. granted - credit \in Nat /\ granted - credit <= AvailableBalance({})
    BY <2>1, ReservationTypes
  <2>3. ~Occupies(r)
    BY <2>1 DEF CanReserve, Occupies
  <2>4. AvailableBalance({}) = AvailableBalance({r})
    <3>1. Occupying \ {} = Occupying \ {r}
      BY <2>3 DEF Occupying
    <3> QED BY <3>1 DEF AvailableBalance, SumActiveBalanceReservations
  <2>5. /\ \A x \in Run \ {r} : row'[x] = row[x]
        /\ row'[r].balance = granted - credit
        /\ balance' = balance /\ excess' = excess /\ reclaimed' = reclaimed
    BY <1>1 DEF ReserveUsageBalance, TypeOK
  <2> HIDE DEF granted, credit
  <2> QED BY <2>2, <2>4, <2>5, GrantCovered
<1>2. ASSUME NEW r \in Run, NEW amount \in Amount, RaiseUsageBalanceReservation(r, amount)
      PROVE  FundsCoverHolds'
  <2> DEFINE credit == MinInt64(amount, AvailableCredit(TermsOf(r), {r}))
  <2>1. amount - credit \in Nat /\ amount - credit <= AvailableBalance({r})
    <3>1. amount \in Nat /\ TermsOf(r) \in AnyTerms /\ amount <= Available(TermsOf(r), {r})
      BY <1>2, AmountAssumption, TermsTypes DEF RaiseUsageBalanceReservation
    <3> QED BY <3>1, SplitFits
  <2>2. row' = [row EXCEPT ![r].balance = amount - credit, ![r].credit = credit]
    BY <1>2 DEF RaiseUsageBalanceReservation
  <2> HIDE DEF credit
  <2>3. /\ \A x \in Run \ {r} : row'[x] = row[x]
        /\ row'[r].balance = amount - credit
    BY <2>2 DEF TypeOK, Reservation
  <2>4. balance' = balance /\ excess' = excess /\ reclaimed' = reclaimed
    BY <1>2 DEF RaiseUsageBalanceReservation
  <2> QED BY <2>1, <2>3, <2>4, GrantCovered
<1>c. ASSUME NEW r \in Run, \A x \in Run \ {r} : row'[x] = row[x],
             reclaimed' \ {r} = reclaimed \ {r}, Held(r)' <= Held(r), Held(r)' \in Nat,
             balance' = balance, excess' = excess
      PROVE  FundsCoverHolds'
  <2>1. PromisedBalance' - Held(r)' = PromisedBalance - Held(r)
    BY <1>c, OneRowPromised
  <2>2. Held(r) \in Nat
    BY HeldType
  <2>3. PromisedBalance' <= PromisedBalance
    BY <1>0, <1>c, <2>1, <2>2
  <2> QED BY <1>0, <1>a, <1>c, <2>3
<1>3. ASSUME NEW r \in Run, ReleaseUsageBalanceReservation(r)
      PROVE  FundsCoverHolds'
  <2>1. \A x \in Run \ {r} : row'[x] = row[x]
    BY <1>3 DEF ReleaseUsageBalanceReservation, TypeOK
  <2>2. Held(r)' = 0 /\ Held(r) \in Nat
    BY <1>3, HeldType DEF ReleaseUsageBalanceReservation, TypeOK, Held, Occupies
  <2>3. balance' = balance /\ excess' = excess /\ reclaimed' = reclaimed
    BY <1>3 DEF ReleaseUsageBalanceReservation
  <2> QED BY <1>c, <2>1, <2>2, <2>3
<1>4. ASSUME NEW r \in Run, NEW late \in 0 .. RenewDelay,
             RenewUsageBalanceReservation(r, late)
      PROVE  FundsCoverHolds'
  <2>1. \A x \in Run \ {r} : row'[x] = row[x]
    BY <1>4 DEF RenewUsageBalanceReservation, TypeOK
  <2>2. /\ row[r].balance \in Nat
        /\ row'[r].balance = row[r].balance /\ row'[r].status = row[r].status
    BY <1>4 DEF RenewUsageBalanceReservation, TypeOK, Reservation
  <2>3. Claims(r) /\ balance' = balance /\ excess' = excess
    BY <1>4 DEF RenewUsageBalanceReservation
  <2>4. reclaimed' \ {r} = reclaimed \ {r}
    BY <2>3 DEF Claims
  <2>5. CASE Occupies(r)
    <3>1. reclaimed' = reclaimed
      BY <2>3, <2>5 DEF Claims
    <3>2. Held(r)' <= Held(r) /\ Held(r)' \in Nat
      BY <2>2, <2>5, <3>1 DEF Held
    <3> QED BY <1>c, <2>1, <2>3, <2>4, <3>2
  <2>6. CASE ~Occupies(r)
    <3>1. r \in reclaimed'
      BY <2>3, <2>6 DEF Claims
    <3>2. Held(r)' = 0 /\ Held(r) = 0
      BY <2>6, <3>1 DEF Held
    <3> QED BY <1>c, <2>1, <2>3, <2>4, <3>2
  <2> QED BY <2>5, <2>6
<1>5. ASSUME NEW r \in Run, MarkUsageReservationReconciliationRequired(r)
      PROVE  FundsCoverHolds'
  <2>1. \A x \in Run \ {r} : row'[x] = row[x]
    BY <1>5 DEF MarkUsageReservationReconciliationRequired, TypeOK
  <2>2. row[r].balance \in Nat /\ row'[r].balance = row[r].balance
    BY <1>5 DEF MarkUsageReservationReconciliationRequired, TypeOK, Reservation
  <2>3. Claims(r) /\ balance' = balance /\ excess' = excess
    BY <1>5 DEF MarkUsageReservationReconciliationRequired
  <2>4. reclaimed' \ {r} = reclaimed \ {r}
    BY <2>3 DEF Claims
  <2>5. CASE Occupies(r)
    <3>1. reclaimed' = reclaimed
      BY <2>3, <2>5 DEF Claims
    <3>2. Held(r)' <= Held(r) /\ Held(r)' \in Nat
      BY <2>2, <2>5, <3>1 DEF Held
    <3> QED BY <1>c, <2>1, <2>3, <2>4, <3>2
  <2>6. CASE ~Occupies(r)
    <3>1. r \in reclaimed'
      BY <2>3, <2>6 DEF Claims
    <3>2. Held(r)' = 0 /\ Held(r) = 0
      BY <2>6, <3>1 DEF Held
    <3> QED BY <1>c, <2>1, <2>3, <2>4, <3>2
  <2> QED BY <2>5, <2>6
<1>6. ASSUME NEW r \in Run, NEW amount \in Amount, NEW m \in Month,
             AddUsageAndSettleBalance(r, amount, m)
      PROVE  FundsCoverHolds'
  BY <1>6, EntryTypes, SettlementCovered DEF AddUsageAndSettleBalance
<1>b. ASSUME NEW r \in Run, NEW entry \in Entry, Post(r, entry, 0), UNCHANGED row
      PROVE  FundsCoverHolds'
  <2>1. PromisedBalance' = PromisedBalance
    BY <1>b, UnchangedRowsHeld DEF Post
  <2>2. balance' + excess' >= balance + excess - 0
    BY <1>b, PostCovered
  <2> QED BY <1>0, <1>a, <2>1, <2>2
<1>7. ASSUME NEW r \in Run, NEW amount \in Amount, NEW m \in Month,
             AddUsageWithoutReservation(r, amount, m)
      PROVE  FundsCoverHolds'
  BY <1>7, <1>b, EntryTypes DEF AddUsageWithoutReservation
<1>8. ASSUME NEW r \in Run, NEW amount \in Amount, NEW m \in Month,
             AddPeriodUsageAndSettleOverage(r, amount, m)
      PROVE  FundsCoverHolds'
  <2> DEFINE entry == PeriodEntry(amount, m, row[r].month, row[r].limit, {r})
  <2>1. row[r].month \in Nat /\ row[r].limit \in Nat
    BY DEF TypeOK, Reservation
  <2>2. entry \in Entry
    BY <2>1, EntryTypes
  <2>3. Post(r, entry, Held(r)) /\ SettleUsageReservation(r)
    BY <1>8 DEF AddPeriodUsageAndSettleOverage
  <2> HIDE DEF entry
  <2> QED BY <2>2, <2>3, SettlementCovered
<1>9. ASSUME NEW r \in Run, NEW amount \in Amount, NEW m \in Month, NEW limit \in Limit,
             AddPeriodUsageWithoutReservation(r, amount, m, limit)
      PROVE  FundsCoverHolds'
  <2> DEFINE entry == PeriodEntry(amount, m, m, limit, {})
  <2>1. entry \in Entry
    BY EntryTypes, MonthAssumption, LimitAssumption
  <2>2. Post(r, entry, 0) /\ UNCHANGED row
    BY <1>9 DEF AddPeriodUsageWithoutReservation
  <2> HIDE DEF entry
  <2> QED BY <2>1, <2>2, <1>b
<1>10. ASSUME NEW r \in Run, NEW amount \in Amount, NEW m \in Month, AddUsage(r, amount, m)
       PROVE  FundsCoverHolds'
  BY <1>10, <1>b, EntryTypes DEF AddUsage
<1>11. ASSUME NEW amount \in Amount, SetBillingAccountBalance(amount)
       PROVE  FundsCoverHolds'
  <2>1. PromisedBalance' = PromisedBalance
    BY <1>11, UnchangedRowsHeld DEF SetBillingAccountBalance
  <2>2. balance' + excess' >= balance + excess
    BY <1>0, <1>11, AmountAssumption DEF SetBillingAccountBalance, ClampNonNegative
  <2> QED BY <1>0, <1>a, <2>1, <2>2
<1>12. ASSUME NEW amount \in Amount, CreditBalance(amount)
       PROVE  FundsCoverHolds'
  <2>1. PromisedBalance' = PromisedBalance
    BY <1>12, UnchangedRowsHeld DEF CreditBalance
  <2>2. balance' + excess' >= balance + excess
    BY <1>0, <1>12, AmountAssumption DEF CreditBalance
  <2> QED BY <1>0, <1>a, <2>1, <2>2
<1>13. CASE Tick
  BY <1>0, <1>13, <1>a, TickHeld DEF Tick
<1>14. CASE UNCHANGED vars
  <2>1. PromisedBalance' = PromisedBalance
    BY <1>14, UnchangedRowsHeld DEF vars
  <2> QED BY <1>0, <1>14, <1>a, <2>1 DEF vars
<1> QED
  BY <1>1, <1>2, <1>3, <1>4, <1>5, <1>6, <1>7, <1>8, <1>9, <1>10, <1>11, <1>12,
     <1>13, <1>14 DEF Next

\* However the transactions of concurrent runs interleave, and however late
\* their renewals are, the balance covers every budget that was held without a
\* break, up to the recorded excess.
THEOREM FundsAlwaysCoverHolds == Spec => []FundsCoverHolds
<1>1. Init => FundsCoverHolds
  <2>1. ASSUME Init PROVE Occupying \ reclaimed = {}
    BY <2>1 DEF Init, NoReservation, Occupying, Occupies
  <2> QED BY <2>1, SumEmpty DEF Init, FundsCoverHolds
<1>2. TypeOK /\ TypeOK' /\ FundsCoverHolds /\ [Next]_vars => FundsCoverHolds'
  BY FundsStep
<1> QED BY <1>1, <1>2, TypeCorrect, PTL DEF Spec

\* As long as nothing was taken beyond what was held for it, there is no debt:
\* the promise that reserving before the call is there to keep.  A budget that
\* a late renewal or a mark claims again makes no debt by itself; a charge
\* against it counts as taken beyond.
THEOREM NoDebtWithoutExcess == Spec => [](excess = 0 => balance >= 0)
<1>1. TypeOK /\ FundsCoverHolds => (excess = 0 => balance >= 0)
  BY HeldBalanceType DEF TypeOK, FundsCoverHolds, PromisedBalance, SumActiveBalanceReservations
<1> QED BY <1>1, TypeCorrect, FundsAlwaysCoverHolds, PTL

=============================================================================

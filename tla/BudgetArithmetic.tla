-------------------------- MODULE BudgetArithmetic --------------------------
(***************************************************************************)
(* The integer arithmetic of the usage budget, as the helpers at the end   *)
(* of repository_reservation.go compute it on int64, and the sum over a    *)
(* set of rows that the SQL aggregates (COALESCE(SUM(x), 0)) return.       *)
(***************************************************************************)
EXTENDS Integers, FiniteSets

CONSTANT MaxInt64        \* math.MaxInt64, where addNonNegativeInt64 saturates

ASSUME MaxInt64Assumption == MaxInt64 \in Nat

ClampNonNegative(a) == IF a < 0 THEN 0 ELSE a

\* Mutant: the smaller of two amounts is not looked for.
MutMinInt64(a, b) == b

MinInt64(a, b) == IF a < b THEN a ELSE b

AddNonNegativeInt64(a, b) ==
    LET x == ClampNonNegative(a)
        y == ClampNonNegative(b)
    IN  IF x > MaxInt64 - y THEN MaxInt64 ELSE x + y

\* Mutant: rounded up even when nothing is left over.
MutDivideBudgetAcrossSlots(available, slots) ==
    IF available <= 0 \/ slots <= 0 THEN 0 ELSE (available \div slots) + 1

\* Rounded up, so that every remaining slot is worth at least one unit as long
\* as there are as many units as slots.
DivideBudgetAcrossSlots(available, slots) ==
    IF available <= 0 \/ slots <= 0
    THEN 0
    ELSE (available \div slots) + (IF available % slots # 0 THEN 1 ELSE 0)

RemainingNonNegativeBudget(limit, consumed, reserved) ==
    IF ClampNonNegative(consumed) + ClampNonNegative(reserved) >= limit
    THEN 0
    ELSE limit - ClampNonNegative(consumed) - ClampNonNegative(reserved)

-----------------------------------------------------------------------------
(***************************************************************************)
(* Sum(f, S) is the sum of f[r] over the r in S, for a finite S and natural *)
(* values.  It counts the units that the rows of S stand for, one pair     *)
(* <<r, i>> for each i in 1 .. f[r]: a definition without recursion, whose *)
(* laws follow from the cardinality theorems of finite sets.               *)
(***************************************************************************)
Units(f, S) == UNION {{r} \X (1 .. f[r]) : r \in S}

Sum(f, S) == Cardinality(Units(f, S))

=============================================================================

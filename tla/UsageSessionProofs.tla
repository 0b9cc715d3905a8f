------------------------- MODULE UsageSessionProofs -------------------------
(***************************************************************************)
(* Sessions implement UsageBilling, no two of them share a reservation,    *)
(* every finished run is accounted for, and a run is billed its cost.      *)
(***************************************************************************)
EXTENDS UsageSession, UsageLedgerProofs

-----------------------------------------------------------------------------
(***************************************************************************)
(* Sessions change the tables only through the operations of UsageBilling. *)
(***************************************************************************)
BillingStep == [Next]_vars

LEMMA SettlementIsBilling ==
    ASSUME NEW s \in Session, session[s].cost \in Amount, Settlement(s)
    PROVE  Next
<1>1. RunOf[s] \in Run
  BY RunOfAssumption
<1> QED BY <1>1 DEF Settlement, Next

LEMMA StepIsBilling ==
    ASSUME NEW s \in Session, Step(s), In(s, "settling") => session[s].cost \in Amount
    PROVE  BillingStep
<1>1. RunOf[s] \in Run
  BY RunOfAssumption
<1>2. CASE Begin(s) \/ BeginReplyLost(s)
  BY <1>1, <1>2 DEF Begin, BeginReplyLost, BillingStep, Next, vars
<1>3. CASE Raise(s) \/ Renew(s)
  BY <1>1, <1>3 DEF Raise, Renew, BillingStep, Next
<1>4. CASE Finish(s) \/ Abandon(s) \/ ContextExpires(s)
  BY <1>4 DEF Finish, Abandon, ContextExpires, BillingStep
<1>5. CASE BuildLedger(s) \/ BuildRefused(s) \/ BuildFault(s)
  BY <1>5 DEF BuildLedger, BuildRefused, BuildFault, BillingStep
<1>6. CASE Settle(s) \/ SettleReplyLost(s)
  BY <1>6, SettlementIsBilling DEF Settle, SettleReplyLost, BillingStep
<1>7. CASE SettleFault(s) \/ SettleRefused(s) \/ MarkRefused(s)
  BY <1>7 DEF SettleFault, SettleRefused, MarkRefused, BillingStep
<1>8. CASE Mark(s) \/ MarkFault(s)
  BY <1>1, <1>8 DEF Mark, MarkFault, BillingStep, Next
<1>9. CASE Release(s) \/ ReleaseFault(s)
  BY <1>1, <1>9 DEF Release, ReleaseFault, BillingStep, Next
<1> QED BY <1>2, <1>3, <1>4, <1>5, <1>6, <1>7, <1>8, <1>9 DEF Step, Settling

-----------------------------------------------------------------------------
(***************************************************************************)
(* What the process knows of its requests: the shape of the records, that  *)
(* a session which settles has the cost of a billable result, and that     *)
(* nobody goes on after the last attempt of an operation.                  *)
(***************************************************************************)
CallingPhases == {"building", "settling", "marking"}

SoundRecord(rec) ==
    /\ rec.billable => rec.cost \in Amount
    /\ rec.phase \in CallingPhases => rec.billable
    /\ rec.attempt = Attempts => rec.phase = "closed"

SessionInv ==
    /\ session \in [Session -> SessionType]
    /\ \A s \in Session : SoundRecord(session[s])

LEMMA OneSession ==
    ASSUME SessionInv, NEW s \in Session, NEW rec \in SessionType, SoundRecord(rec),
           session' = [session EXCEPT ![s] = rec]
    PROVE  SessionInv'
<1>1. session' \in [Session -> SessionType]
  BY DEF SessionInv
<1>2. ASSUME NEW t \in Session PROVE SoundRecord(session'[t])
  <2>1. session'[t] = IF t = s THEN rec ELSE session[t]
    BY DEF SessionInv
  <2> QED BY <2>1 DEF SessionInv
<1> QED BY <1>1, <1>2 DEF SessionInv

\* The ways in which a step changes the record of its session.
LEMMA GotoKeeps ==
    ASSUME SessionInv, NEW s \in Session, NEW phase \in Phases, Goto(s, phase),
           phase \in CallingPhases => session[s].billable
    PROVE  SessionInv'
<1> DEFINE rec == [session[s] EXCEPT !.phase = phase, !.attempt = 0]
<1>1. /\ session[s] \in SessionType /\ SoundRecord(session[s])
      /\ 0 \in 0 .. Attempts /\ 0 # Attempts
  BY AttemptsAssumption DEF SessionInv
<1>2. rec \in SessionType /\ SoundRecord(rec)
  BY <1>1 DEF SessionType, SoundRecord
<1>3. session' = [session EXCEPT ![s] = rec]
  BY DEF Goto, SessionInv
<1> QED BY <1>2, <1>3, OneSession

LEMMA FailKeeps ==
    ASSUME SessionInv, NEW s \in Session, Fail(s)
    PROVE  SessionInv'
<1> DEFINE rec == [session[s] EXCEPT !.phase = "closed", !.failed = TRUE]
<1>1. session[s] \in SessionType /\ SoundRecord(session[s])
  BY DEF SessionInv
<1>2. rec \in SessionType /\ SoundRecord(rec)
  BY <1>1 DEF SessionType, SoundRecord, Phases, CallingPhases
<1>3. session' = [session EXCEPT ![s] = rec]
  BY DEF Fail, SessionInv
<1> QED BY <1>2, <1>3, OneSession

LEMMA RetryKeeps ==
    ASSUME SessionInv, NEW s \in Session, session[s].attempt + 1 < Attempts,
           session' = [session EXCEPT ![s].attempt = @ + 1]
    PROVE  SessionInv'
<1> DEFINE rec == [session[s] EXCEPT !.attempt = session[s].attempt + 1]
<1>1. session[s] \in SessionType /\ SoundRecord(session[s])
  BY DEF SessionInv
<1>2. rec \in SessionType /\ SoundRecord(rec)
  BY <1>1, AttemptsAssumption DEF SessionType, SoundRecord
<1>3. session' = [session EXCEPT ![s] = rec]
  BY DEF SessionInv
<1> QED BY <1>2, <1>3, OneSession

LEMMA GiveUpKeeps ==
    ASSUME SessionInv, NEW s \in Session, GiveUp(s), session[s].phase \in CallingPhases
    PROVE  SessionInv'
<1> DEFINE rec == [session[s] EXCEPT !.phase = "closed", !.failed = TRUE,
                                     !.attempt = session[s].attempt + 1]
<1>1. session[s] \in SessionType /\ SoundRecord(session[s])
  BY DEF SessionInv
<1>2. session[s].attempt + 1 \in 0 .. Attempts
  BY <1>1, AttemptsAssumption DEF SessionType, SoundRecord, CallingPhases
<1>3. rec \in SessionType /\ SoundRecord(rec)
  BY <1>1, <1>2 DEF SessionType, SoundRecord, Phases, CallingPhases
<1>4. session' = [session EXCEPT ![s] = rec]
  BY DEF GiveUp, SessionInv
<1> QED BY <1>3, <1>4, OneSession

LEMMA ToMarkKeeps ==
    ASSUME SessionInv, NEW s \in Session, ToMark(s), session[s].phase \in CallingPhases
    PROVE  SessionInv'
<1>1. session[s].billable /\ "marking" \in Phases
  BY DEF SessionInv, SoundRecord, Phases
<1> QED BY <1>1, GotoKeeps, FailKeeps DEF ToMark

LEMMA UnchangedKeeps ==
    ASSUME SessionInv, UNCHANGED session
    PROVE  SessionInv'
  BY DEF SessionInv

-----------------------------------------------------------------------------
(***************************************************************************)
(* Every action keeps the invariant.                                       *)
(***************************************************************************)
LEMMA BeforeTheRunKeeps ==
    ASSUME SessionInv, NEW s \in Session,
           Begin(s) \/ BeginReplyLost(s) \/ Raise(s) \/ Renew(s) \/ Finish(s) \/ Abandon(s)
    PROVE  SessionInv'
<1>1. session[s] \in SessionType /\ SoundRecord(session[s])
  BY DEF SessionInv
<1>2. CASE Begin(s)
  <2>1. PICK reserved \in BOOLEAN :
          session' = [session EXCEPT ![s].phase = "running", ![s].reserved = reserved]
    <3>1. session' = [session EXCEPT ![s].phase = "running"] =>
            session' = [session EXCEPT ![s].phase = "running", ![s].reserved = session[s].reserved]
      BY <1>1 DEF SessionInv, SessionType
    <3> QED BY <1>1, <1>2, <3>1 DEF Begin, SessionType
  <2> DEFINE rec == [session[s] EXCEPT !.phase = "running", !.reserved = reserved]
  <2>2. rec \in SessionType /\ SoundRecord(rec)
    BY <1>1, <1>2 DEF Begin, In, SessionType, SoundRecord, Phases, CallingPhases
  <2>3. session' = [session EXCEPT ![s] = rec]
    BY <2>1 DEF SessionInv
  <2> QED BY <2>2, <2>3, OneSession
<1>3. CASE BeginReplyLost(s)
  BY <1>3, GotoKeeps DEF BeginReplyLost, Phases, CallingPhases
<1>4. CASE Raise(s) \/ Renew(s)
  BY <1>4, UnchangedKeeps DEF Raise, Renew
<1>5. CASE Finish(s)
  <2>1. ASSUME NEW cost \in Amount,
               session' = [session EXCEPT ![s].phase = "building",
                                          ![s].billable = TRUE, ![s].cost = cost]
        PROVE  SessionInv'
    <3> DEFINE rec == [session[s] EXCEPT !.phase = "building", !.billable = TRUE, !.cost = cost]
    <3>1. rec \in SessionType /\ SoundRecord(rec)
      BY <1>1, <1>5 DEF Finish, In, SessionType, SoundRecord, Phases
    <3>2. session' = [session EXCEPT ![s] = rec]
      BY <2>1 DEF SessionInv
    <3> QED BY <3>1, <3>2, OneSession
  <2>2. ASSUME Goto(s, "releasing") PROVE SessionInv'
    BY <2>2, GotoKeeps DEF Phases, CallingPhases
  <2> QED BY <1>5, <2>1, <2>2 DEF Finish
<1>6. CASE Abandon(s)
  BY <1>6, GotoKeeps DEF Abandon, Phases, CallingPhases
<1> QED BY <1>2, <1>3, <1>4, <1>5, <1>6

LEMMA SettlingKeeps ==
    ASSUME SessionInv, NEW s \in Session, Settling(s)
    PROVE  SessionInv'
<1>1. session[s].phase \in CallingPhases
  BY DEF Settling, BuildLedger, BuildRefused, BuildFault, Settle, SettleReplyLost, SettleFault,
         SettleRefused, Mark, MarkFault, MarkRefused, In, CallingPhases
<1>2. session[s].billable
  BY <1>1 DEF SessionInv, SoundRecord
<1>3. CASE BuildLedger(s)
  BY <1>2, <1>3, GotoKeeps DEF BuildLedger, Phases
<1>4. CASE Settle(s)
  BY <1>4, GotoKeeps DEF Settle, Phases, CallingPhases
<1>5. CASE BuildRefused(s) \/ SettleRefused(s)
  BY <1>1, <1>5, ToMarkKeeps DEF BuildRefused, SettleRefused
<1>6. CASE BuildFault(s) \/ SettleReplyLost(s) \/ SettleFault(s)
  BY <1>1, <1>6, ToMarkKeeps, RetryKeeps DEF BuildFault, SettleReplyLost, SettleFault, RetryOr
<1>7. CASE Mark(s) \/ MarkRefused(s)
  BY <1>7, FailKeeps DEF Mark, MarkRefused
<1>8. CASE MarkFault(s)
  BY <1>1, <1>8, GiveUpKeeps, RetryKeeps DEF MarkFault, RetryOr
<1> QED BY <1>3, <1>4, <1>5, <1>6, <1>7, <1>8 DEF Settling

LEMMA StepKeeps ==
    ASSUME SessionInv, NEW s \in Session, Step(s)
    PROVE  SessionInv'
<1>1. CASE ContextExpires(s)
  <2> DEFINE rec == [session[s] EXCEPT !.expired = TRUE]
  <2>1. session[s] \in SessionType /\ SoundRecord(session[s])
    BY DEF SessionInv
  <2>2. rec \in SessionType /\ SoundRecord(rec)
    BY <2>1 DEF SessionType, SoundRecord
  <2>3. session' = [session EXCEPT ![s] = rec]
    BY <1>1 DEF ContextExpires, SessionInv
  <2> QED BY <2>2, <2>3, OneSession
<1>2. CASE Release(s)
  BY <1>2, GotoKeeps DEF Release, Phases, CallingPhases
<1>3. CASE ReleaseFault(s)
  BY <1>3, FailKeeps DEF ReleaseFault
<1> QED BY <1>1, <1>2, <1>3, BeforeTheRunKeeps, SettlingKeeps DEF Step

\* However its calls fail, a session that settles carries the cost of a
\* billable result, and one that has used up its attempts is closed.
THEOREM SessionInvariant == SessionSpec => []SessionInv
<1>1. SessionInit => SessionInv
  BY AttemptsAssumption
     DEF SessionInit, NewSession, SessionInv, SessionType, SoundRecord, Phases, CallingPhases
<1>2. SessionInv /\ [SessionNext]_sessionVars => SessionInv'
  BY StepKeeps, UnchangedKeeps DEF SessionNext, Environment, sessionVars
<1> QED BY <1>1, <1>2, PTL DEF SessionSpec

-----------------------------------------------------------------------------
(***************************************************************************)
(* The refinement.                                                         *)
(***************************************************************************)

LEMMA SessionStepIsBilling ==
    ASSUME SessionInv, NEW s \in Session, Step(s)
    PROVE  BillingStep
<1>1. In(s, "settling") => session[s].cost \in Amount
  BY DEF SessionInv, SoundRecord, CallingPhases, In
<1> QED BY <1>1, StepIsBilling

LEMMA EnvironmentIsBilling == Environment => BillingStep
  BY DEF Environment, BillingStep, Next

\* However requests are resent, retried, timed out or cut off by a crash, what
\* they do to the tables is a behaviour of UsageBilling.
THEOREM SessionsImplementBilling == SessionSpec => ImplementsBilling
<1>1. SessionInit => Init
  BY DEF SessionInit
<1>2. SessionInv /\ [SessionNext]_sessionVars => BillingStep
  <2>1. ASSUME UNCHANGED sessionVars PROVE BillingStep
    BY <2>1 DEF sessionVars, BillingStep
  <2> QED BY <2>1, SessionStepIsBilling, EnvironmentIsBilling DEF SessionNext
<1> QED BY <1>1, <1>2, SessionInvariant, PTL DEF SessionSpec, ImplementsBilling, Spec, BillingStep

\* Of sessions, too: the balance covers every budget that was held without a
\* break, but for the excess.
THEOREM SessionFundsCoverHolds == SessionSpec => []FundsCoverHolds
  BY SessionsImplementBilling, FundsAlwaysCoverHolds, PTL DEF ImplementsBilling

\* The sessions and the tables keep their types.
THEOREM SessionTypeCorrect == SessionSpec => []SessionTypeOK
<1> DEFINE FaultsOK == faults \in 0 .. MaxFaults
<1>1. SessionInit => FaultsOK
  BY FaultsAssumption DEF SessionInit
<1>2. FaultsOK /\ [SessionNext]_sessionVars => FaultsOK'
  <2> SUFFICES ASSUME FaultsOK, [SessionNext]_sessionVars
               PROVE  FaultsOK'
    OBVIOUS
  <2>1. Fault => FaultsOK'
    BY FaultsAssumption DEF Fault
  <2>2. ASSUME NEW s \in Session, Step(s) PROVE Fault \/ UNCHANGED faults
    BY <2>2 DEF Step, Settling, Begin, BeginReplyLost, Raise, Renew, Finish, Abandon,
       ContextExpires, BuildLedger, BuildRefused, BuildFault, Settle, SettleReplyLost,
       SettleFault, SettleRefused, Mark, MarkFault, MarkRefused, Release, ReleaseFault
  <2>3. Environment \/ UNCHANGED sessionVars => UNCHANGED faults
    BY DEF Environment, sessionVars
  <2>4. Fault \/ UNCHANGED faults
    BY <2>2, <2>3 DEF SessionNext
  <2> QED BY <2>1, <2>4
<1>3. TypeOK /\ SessionInv /\ FaultsOK => SessionTypeOK
  BY DEF SessionTypeOK, SessionInv, SoundRecord, In
<1>4. SessionSpec => []TypeOK
  BY SessionsImplementBilling, TypeCorrect, PTL DEF ImplementsBilling
<1> HIDE DEF FaultsOK
<1> QED BY <1>1, <1>2, <1>3, <1>4, SessionInvariant, PTL DEF SessionSpec

-----------------------------------------------------------------------------
(***************************************************************************)
(* One holder per reservation.  A session with a reservation has a row,    *)
(* rows are never removed, and a reservation is made only where none is.   *)
(***************************************************************************)
HoldersHaveRows ==
    \A s \in Session : session[s].reserved => row[RunOf[s]].status # "none"

LEMMA RowsAreKept ==
    ASSUME TypeOK, [Next]_vars, NEW r \in Run, row[r].status # "none"
    PROVE  row'[r].status # "none"
<1>1. row \in [Run -> Reservation] /\ row[r] \in Reservation
  BY DEF TypeOK
<1>2. ASSUME NEW q \in Run, NEW rec, rec.status # "none", row' = [row EXCEPT ![q] = rec]
      PROVE  row'[r].status # "none"
  <2>1. row'[r] = IF r = q THEN rec ELSE row[r]
    BY <1>1, <1>2
  <2> QED BY <1>2, <2>1
<1>3. ASSUME NEW q \in Run, NEW terms \in Terms, NEW amount \in Amount,
             ReserveUsageBalance(q, terms, amount)
      PROVE  row'[r].status # "none"
  BY <1>1, <1>2, <1>3 DEF ReserveUsageBalance
<1>4. ASSUME NEW q \in Run, NEW amount \in Amount, RaiseUsageBalanceReservation(q, amount)
      PROVE  row'[r].status # "none"
  BY <1>1, <1>4 DEF RaiseUsageBalanceReservation, Reservation
<1>5. ASSUME NEW q \in Run,
             \/ ReleaseUsageBalanceReservation(q) \/ Renews(q)
             \/ MarkUsageReservationReconciliationRequired(q) \/ SettleUsageReservation(q)
      PROVE  row'[r].status # "none"
  BY <1>1, <1>5 DEF ReleaseUsageBalanceReservation, Renews, RenewUsageBalanceReservation,
     MarkUsageReservationReconciliationRequired, SettleUsageReservation, Reservation
<1>6. CASE Tick
  BY <1>1, <1>6 DEF Tick, Reservation
<1>7. CASE UNCHANGED row
  BY <1>7
<1>8. ASSUME NEW q \in Run, NEW amount \in Amount, NEW m \in Month,
             \/ AddUsageAndSettleBalance(q, amount, m)
             \/ AddPeriodUsageAndSettleOverage(q, amount, m)
      PROVE  SettleUsageReservation(q)
  BY <1>8 DEF AddUsageAndSettleBalance, AddPeriodUsageAndSettleOverage
<1>9. ASSUME NEW q \in Run, NEW amount \in Amount, NEW m \in Month,
             \/ AddUsageWithoutReservation(q, amount, m) \/ AddUsage(q, amount, m)
             \/ \E limit \in Limit : AddPeriodUsageWithoutReservation(q, amount, m, limit)
      PROVE  UNCHANGED row
  BY <1>9 DEF AddUsageWithoutReservation, AddUsage, AddPeriodUsageWithoutReservation
<1>10. ASSUME NEW amount \in Amount, SetBillingAccountBalance(amount) \/ CreditBalance(amount)
       PROVE  UNCHANGED row
  BY <1>10 DEF SetBillingAccountBalance, CreditBalance
<1>11. CASE UNCHANGED vars
  BY <1>7, <1>11 DEF vars
<1> QED BY <1>3, <1>4, <1>5, <1>6, <1>7, <1>8, <1>9, <1>10, <1>11 DEF Renews, Next

\* No step clears a holder, and a step makes at most its own session one, by
\* reserving a row that was not there.
Reserves(s) ==
    /\ row[RunOf[s]].status = "none" /\ row'[RunOf[s]].status # "none"
    /\ \A t \in Session \ {s} : session'[t].reserved = session[t].reserved

LEMMA HoldersChange ==
    ASSUME TypeOK, SessionInv, NEW s \in Session, Step(s)
    PROVE  \/ \A t \in Session : session'[t].reserved = session[t].reserved
           \/ Reserves(s)
<1> DEFINE Same == \A t \in Session : session'[t].reserved = session[t].reserved
<1>1. session \in [Session -> SessionType] /\ session[s] \in SessionType
  BY DEF SessionInv
<1>2. ASSUME NEW phase, Goto(s, phase) PROVE Same
  BY <1>1, <1>2 DEF Goto, SessionType
<1>3. ASSUME Fail(s) PROVE Same
  BY <1>1, <1>3 DEF Fail, SessionType
<1>4. ASSUME GiveUp(s) \/ session' = [session EXCEPT ![s].attempt = @ + 1] PROVE Same
  BY <1>1, <1>4 DEF GiveUp, SessionType
<1>5. ASSUME NEW cost, session' = [session EXCEPT ![s].phase = "building",
                                          ![s].billable = TRUE, ![s].cost = cost]
      PROVE  Same
  BY <1>1, <1>5 DEF SessionType
<1>6. CASE Begin(s)
  <2>1. CASE session' = [session EXCEPT ![s].phase = "running"]
    BY <1>1, <2>1 DEF SessionType
  <2>2. ASSUME NEW terms \in Terms, NEW amount \in Amount,
               ReserveUsageBalance(RunOf[s], terms, amount),
               session' = [session EXCEPT ![s].phase = "running", ![s].reserved = TRUE]
        PROVE  Reserves(s)
    <3>1. RunOf[s] \in Run /\ row \in [Run -> Reservation]
      BY RunOfAssumption DEF TypeOK
    <3>2. row[RunOf[s]].status = "none" /\ row'[RunOf[s]].status = "active"
      BY <2>2, <3>1 DEF ReserveUsageBalance, CanReserve
    <3>3. \A t \in Session \ {s} : session'[t] = session[t]
      BY <1>1, <2>2
    <3> QED BY <3>2, <3>3 DEF Reserves
  <2> QED BY <1>6, <2>1, <2>2 DEF Begin
<1>7. CASE BeginReplyLost(s) \/ Abandon(s) \/ BuildLedger(s) \/ Settle(s) \/ Release(s)
  BY <1>2, <1>7 DEF BeginReplyLost, Abandon, BuildLedger, Settle, Release
<1>8. CASE Raise(s) \/ Renew(s)
  BY <1>8 DEF Raise, Renew
<1>9. CASE Finish(s)
  BY <1>2, <1>5, <1>9 DEF Finish
<1>10. CASE ContextExpires(s)
  BY <1>1, <1>10 DEF ContextExpires, SessionType
<1>11. CASE BuildRefused(s) \/ SettleRefused(s)
  BY <1>2, <1>3, <1>11 DEF BuildRefused, SettleRefused, ToMark
<1>12. CASE BuildFault(s) \/ SettleReplyLost(s) \/ SettleFault(s)
  BY <1>2, <1>3, <1>4, <1>12 DEF BuildFault, SettleReplyLost, SettleFault, RetryOr, ToMark
<1>13. CASE Mark(s) \/ MarkFault(s) \/ MarkRefused(s) \/ ReleaseFault(s)
  BY <1>3, <1>4, <1>13 DEF Mark, MarkFault, MarkRefused, ReleaseFault, RetryOr
<1> QED BY <1>6, <1>7, <1>8, <1>9, <1>10, <1>11, <1>12, <1>13 DEF Step, Settling

\* Two requests with one run id never hold the reservation both, so neither can
\* renew, raise or release what the other one pays with.
THEOREM OneHolder == SessionSpec => []OneHolderPerReservation
<1> DEFINE IInv == OneHolderPerReservation /\ HoldersHaveRows
<1>1. SessionInit => IInv
  BY DEF SessionInit, NewSession, OneHolderPerReservation, HoldersHaveRows
<1>2. ASSUME TypeOK, SessionInv, BillingStep, IInv,
             \A t \in Session : session'[t].reserved = session[t].reserved
      PROVE  IInv'
  <2>1. \A t \in Session : RunOf[t] \in Run
    BY RunOfAssumption
  <2>2. HoldersHaveRows'
    BY <1>2, <2>1, RowsAreKept DEF HoldersHaveRows, BillingStep
  <2> QED BY <1>2, <2>2 DEF OneHolderPerReservation
<1>3. ASSUME TypeOK, SessionInv, BillingStep, IInv, NEW s \in Session, Reserves(s)
      PROVE  IInv'
  <2>1. \A t \in Session : RunOf[t] \in Run
    BY RunOfAssumption
  <2>2. ASSUME NEW t \in Session, session'[t].reserved, t # s
        PROVE  RunOf[t] # RunOf[s] /\ row'[RunOf[t]].status # "none"
    <3>1. row[RunOf[t]].status # "none"
      BY <1>3, <2>2 DEF Reserves, HoldersHaveRows
    <3> QED BY <1>3, <2>1, <3>1, RowsAreKept DEF Reserves, BillingStep
  <2>3. HoldersHaveRows'
    BY <1>3, <2>2 DEF HoldersHaveRows, Reserves
  <2>4. OneHolderPerReservation'
    BY <1>3, <2>2 DEF OneHolderPerReservation, Reserves
  <2> QED BY <2>3, <2>4
<1>4. ASSUME TypeOK, SessionInv, IInv, SessionNext
      PROVE  IInv'
  <2>1. ASSUME NEW s \in Session, Step(s) PROVE IInv'
    <3>1. BillingStep
      BY <1>4, <2>1, SessionStepIsBilling
    <3> QED BY <1>2, <1>3, <1>4, <2>1, <3>1, HoldersChange
  <2>2. CASE Environment
    BY <1>2, <1>4, <2>2, EnvironmentIsBilling DEF Environment
  <2> QED BY <1>4, <2>1, <2>2 DEF SessionNext
<1>5. ASSUME UNCHANGED sessionVars, IInv PROVE IInv'
  BY <1>5 DEF sessionVars, vars, OneHolderPerReservation, HoldersHaveRows
<1>6. SessionSpec => []TypeOK
  BY SessionsImplementBilling, TypeCorrect, PTL DEF ImplementsBilling
<1>7. TypeOK /\ SessionInv /\ IInv /\ [SessionNext]_sessionVars => IInv'
  BY <1>4, <1>5
<1>8. IInv => OneHolderPerReservation
  OBVIOUS
<1> QED BY <1>1, <1>6, <1>7, <1>8, SessionInvariant, PTL DEF SessionSpec

-----------------------------------------------------------------------------
(***************************************************************************)
(* What a session has achieved, by its phase: the reservation it holds is  *)
(* active until its own settlement, mark or release changes it, since no   *)
(* other session holds it.  A mark that was given up has used its attempts. *)
(***************************************************************************)
Paid(rec, status, entry) ==
    status = "settled" /\ entry.posted /\ entry.billed = rec.cost

AccountedFor(rec, status, entry) ==
    IF rec.billable
    THEN \/ Paid(rec, status, entry) \/ status = "reconciliation"
         \/ rec.expired \/ rec.attempt = Attempts
    ELSE status = "released" \/ rec.failed

Achieved(rec, status, entry) ==
    /\ rec.phase \in {"idle", "refused"} => ~rec.reserved
    /\ rec.phase \in {"idle", "running", "releasing"} => ~rec.billable
    /\ rec.phase = "marking" => rec.reserved
    /\ rec.reserved =>
         /\ status # "none"
         /\ rec.phase \in {"running", "building", "releasing"} => status = "active"
         /\ rec.phase = "settling" => status = "active" \/ Paid(rec, status, entry)
         /\ rec.phase = "marking" =>
              status \in {"active", "reconciliation"} \/ Paid(rec, status, entry)
         /\ rec.phase = "closed" => AccountedFor(rec, status, entry)

SessionAchieved(s) == Achieved(session[s], row[RunOf[s]].status, ledger[RunOf[s]])

AccountInv == \A s \in Session : SessionAchieved(s)

\* What the ways to change a record leave alone.
LEMMA GotoFields ==
    ASSUME SessionInv, NEW s \in Session, NEW phase, Goto(s, phase)
    PROVE  /\ session'[s].phase = phase /\ session'[s].attempt = 0
           /\ session'[s].reserved = session[s].reserved
           /\ session'[s].billable = session[s].billable
           /\ session'[s].cost = session[s].cost
           /\ session'[s].expired = session[s].expired
           /\ session'[s].failed = session[s].failed
           /\ \A t \in Session \ {s} : session'[t] = session[t]
<1>1. session \in [Session -> SessionType] /\ session[s] \in SessionType
  BY DEF SessionInv
<1> QED BY <1>1 DEF Goto, SessionType

LEMMA FailFields ==
    ASSUME SessionInv, NEW s \in Session, Fail(s)
    PROVE  /\ session'[s].phase = "closed" /\ session'[s].failed
           /\ session'[s].attempt = session[s].attempt
           /\ session'[s].reserved = session[s].reserved
           /\ session'[s].billable = session[s].billable
           /\ session'[s].cost = session[s].cost
           /\ session'[s].expired = session[s].expired
           /\ \A t \in Session \ {s} : session'[t] = session[t]
<1>1. session \in [Session -> SessionType] /\ session[s] \in SessionType
  BY DEF SessionInv
<1> QED BY <1>1 DEF Fail, SessionType

LEMMA GiveUpFields ==
    ASSUME SessionInv, NEW s \in Session, GiveUp(s)
    PROVE  /\ session'[s].phase = "closed" /\ session'[s].failed
           /\ session'[s].attempt = session[s].attempt + 1
           /\ session'[s].reserved = session[s].reserved
           /\ session'[s].billable = session[s].billable
           /\ session'[s].cost = session[s].cost
           /\ session'[s].expired = session[s].expired
           /\ \A t \in Session \ {s} : session'[t] = session[t]
<1>1. session \in [Session -> SessionType] /\ session[s] \in SessionType
  BY DEF SessionInv
<1> QED BY <1>1 DEF GiveUp, SessionType

LEMMA RetryFields ==
    ASSUME SessionInv, NEW s \in Session, session' = [session EXCEPT ![s].attempt = @ + 1]
    PROVE  /\ session'[s].attempt = session[s].attempt + 1
           /\ session'[s].phase = session[s].phase
           /\ session'[s].reserved = session[s].reserved
           /\ session'[s].billable = session[s].billable
           /\ session'[s].cost = session[s].cost
           /\ session'[s].expired = session[s].expired
           /\ session'[s].failed = session[s].failed
           /\ \A t \in Session \ {s} : session'[t] = session[t]
<1>1. session \in [Session -> SessionType] /\ session[s] \in SessionType
  BY DEF SessionInv
<1> QED BY <1>1 DEF SessionType

\* A settlement bills what its session observed, and settles the reservation
\* its session holds.
LEMMA SettlementPays ==
    ASSUME SessionTypeOK, NEW s \in Session, Settlement(s)
    PROVE  /\ ledger'[RunOf[s]].posted /\ ledger'[RunOf[s]].billed = session[s].cost
           /\ \A q \in Run \ {RunOf[s]} : ledger'[q] = ledger[q] /\ row'[q] = row[q]
           /\ session[s].reserved => row'[RunOf[s]].status = "settled"
           /\ ~session[s].reserved => row' = row
<1> DEFINE r == RunOf[s]
           c == session[s].cost
<1>1. r \in Run /\ row \in [Run -> Reservation] /\ ledger \in [Run -> Entry]
  BY RunOfAssumption DEF SessionTypeOK, TypeOK
<1>2. ASSUME NEW entry, NEW held, entry.posted, entry.billed = c, Post(r, entry, held)
      PROVE  /\ ledger'[r].posted /\ ledger'[r].billed = c
             /\ \A q \in Run \ {r} : ledger'[q] = ledger[q]
  BY <1>1, <1>2 DEF Post
<1>3. ASSUME SettleUsageReservation(r)
      PROVE  row'[r].status = "settled" /\ \A q \in Run \ {r} : row'[q] = row[q]
  BY <1>1, <1>3 DEF SettleUsageReservation
<1>4. /\ \A m : UsageEntry(c, m).posted /\ UsageEntry(c, m).billed = c
      /\ \A m : /\ [UsageEntry(c, m) EXCEPT !.charged = 0].posted
                /\ [UsageEntry(c, m) EXCEPT !.charged = 0].billed = c
      /\ \A m, period, limit, exclude :
            /\ PeriodEntry(c, m, period, limit, exclude).posted
            /\ PeriodEntry(c, m, period, limit, exclude).billed = c
  BY DEF UsageEntry, PeriodEntry
<1>5. CASE session[s].reserved
  <2>1. PICK m \in Month : \/ AddUsageAndSettleBalance(r, c, m)
                           \/ AddPeriodUsageAndSettleOverage(r, c, m)
    BY <1>5 DEF Settlement
  <2>2. SettleUsageReservation(r)
    BY <2>1 DEF AddUsageAndSettleBalance, AddPeriodUsageAndSettleOverage
  <2>3. \E entry, held : entry.posted /\ entry.billed = c /\ Post(r, entry, held)
    BY <2>1, <1>4 DEF AddUsageAndSettleBalance, AddPeriodUsageAndSettleOverage
  <2> QED BY <1>2, <1>3, <1>5, <2>2, <2>3
<1>6. CASE ~session[s].reserved
  <2>1. PICK m \in Month :
          \/ AddUsageWithoutReservation(r, c, m) \/ AddUsage(r, c, m)
          \/ \E limit \in Limit : AddPeriodUsageWithoutReservation(r, c, m, limit)
    BY <1>6 DEF Settlement
  <2>2. row' = row
    BY <2>1 DEF AddUsageWithoutReservation, AddUsage, AddPeriodUsageWithoutReservation
  <2>3. \E entry, held : entry.posted /\ entry.billed = c /\ Post(r, entry, held)
    BY <2>1, <1>4 DEF AddUsageWithoutReservation, AddUsage, AddPeriodUsageWithoutReservation
  <2> QED BY <1>2, <1>6, <2>2, <2>3
<1> QED BY <1>5, <1>6

\* What the operations a session calls do to the status of reservations.
SameStatus(q) == row'[q].status = row[q].status

LEMMA StatusAfter ==
    ASSUME TypeOK, NEW r \in Run
    PROVE  /\ \A terms \in Terms, amount \in Amount :
                 ReserveUsageBalance(r, terms, amount) =>
                    /\ row[r].status = "none" /\ row'[r].status = "active"
                    /\ \A q \in Run \ {r} : SameStatus(q)
                    /\ UNCHANGED ledger
           /\ (\E amount \in Amount : RaiseUsageBalanceReservation(r, amount))
                  \/ Renews(r) =>
                    (\A q \in Run : SameStatus(q)) /\ UNCHANGED ledger
           /\ ReleaseUsageBalanceReservation(r) =>
                    /\ row[r].status = "active" /\ row'[r].status = "released"
                    /\ \A q \in Run \ {r} : SameStatus(q)
                    /\ UNCHANGED ledger
           /\ MarkUsageReservationReconciliationRequired(r) =>
                    /\ row[r].status \in {"active", "reconciliation"}
                    /\ row'[r].status = "reconciliation"
                    /\ \A q \in Run \ {r} : SameStatus(q)
                    /\ UNCHANGED ledger
<1>1. row \in [Run -> Reservation] /\ \A q \in Run : row[q] \in Reservation
  BY DEF TypeOK
<1>2. ASSUME NEW terms \in Terms, NEW amount \in Amount, ReserveUsageBalance(r, terms, amount)
      PROVE  /\ row[r].status = "none" /\ row'[r].status = "active"
             /\ \A q \in Run \ {r} : SameStatus(q)
             /\ UNCHANGED ledger
  BY <1>1, <1>2 DEF ReserveUsageBalance, CanReserve, SameStatus
<1>3. ASSUME NEW amount \in Amount, RaiseUsageBalanceReservation(r, amount)
      PROVE  (\A q \in Run : SameStatus(q)) /\ UNCHANGED ledger
  BY <1>1, <1>3 DEF RaiseUsageBalanceReservation, SameStatus, Reservation
<1>4. ASSUME Renews(r)
      PROVE  (\A q \in Run : SameStatus(q)) /\ UNCHANGED ledger
  BY <1>1, <1>4 DEF Renews, RenewUsageBalanceReservation, SameStatus, Reservation
<1>5. ASSUME ReleaseUsageBalanceReservation(r)
      PROVE  /\ row[r].status = "active" /\ row'[r].status = "released"
             /\ \A q \in Run \ {r} : SameStatus(q)
             /\ UNCHANGED ledger
  BY <1>1, <1>5 DEF ReleaseUsageBalanceReservation, SameStatus, Reservation
<1>6. ASSUME MarkUsageReservationReconciliationRequired(r)
      PROVE  /\ row[r].status \in {"active", "reconciliation"}
             /\ row'[r].status = "reconciliation"
             /\ \A q \in Run \ {r} : SameStatus(q)
             /\ UNCHANGED ledger
  BY <1>1, <1>6 DEF MarkUsageReservationReconciliationRequired, SameStatus, Reservation
<1> QED BY <1>2, <1>3, <1>4, <1>5, <1>6

\* The record of a session with what its fields are.
LEMMA RecordOf ==
    ASSUME SessionTypeOK, SessionInv, AccountInv, NEW s \in Session
    PROVE  /\ session[s] \in SessionType /\ SoundRecord(session[s]) /\ SessionAchieved(s)
           /\ session[s].attempt \in 0 .. Attempts /\ Attempts \in Nat
           /\ RunOf[s] \in Run /\ TypeOK
           /\ session[s].reserved \in BOOLEAN /\ session[s].billable \in BOOLEAN
<1>1. session[s] \in SessionType /\ SoundRecord(session[s]) /\ SessionAchieved(s)
  BY DEF SessionInv, AccountInv
<1>2. Attempts \in Nat
  BY AttemptsAssumption
<1> QED BY <1>1, <1>2, RunOfAssumption DEF SessionType, SessionTypeOK

-----------------------------------------------------------------------------
(***************************************************************************)
(* The step of a session achieves what its next phase says.                *)
(***************************************************************************)

\* The last attempt failed because the context expired, or as one too many.
LEMMA RetryOrDone ==
    ASSUME SessionTypeOK, SessionInv, AccountInv, NEW s \in Session, NEW next \in BOOLEAN,
           RetryOr(s, next)
    PROVE  \/ session' = [session EXCEPT ![s].attempt = @ + 1]
           \/ next /\ (session[s].expired \/ session[s].attempt + 1 >= Attempts)
<1>1. session[s].attempt \in 0 .. Attempts /\ Attempts \in Nat
  BY RecordOf
<1>2. CASE session[s].attempt + 1 < Attempts /\ ~session[s].expired
  BY <1>2 DEF RetryOr
<1>3. CASE ~(session[s].attempt + 1 < Attempts /\ ~session[s].expired)
  <2>1. next
    BY <1>3 DEF RetryOr
  <2> QED BY <1>1, <1>3, <2>1
<1> QED BY <1>2, <1>3

LEMMA BeforeTheRunAchieves ==
    ASSUME SessionTypeOK, SessionInv, AccountInv, NEW s \in Session,
           Begin(s) \/ BeginReplyLost(s) \/ Raise(s) \/ Renew(s) \/ Finish(s) \/ Abandon(s)
    PROVE  SessionAchieved(s)'
<1> DEFINE r == RunOf[s]
<1>1. /\ session \in [Session -> SessionType] /\ session[s] \in SessionType
      /\ SessionAchieved(s) /\ r \in Run /\ TypeOK
  BY RecordOf DEF SessionInv
<1>2. CASE Begin(s)
  <2>1. ASSUME NEW terms \in Terms, NEW amount \in Amount, ReserveUsageBalance(r, terms, amount),
               session' = [session EXCEPT ![s].phase = "running", ![s].reserved = TRUE]
        PROVE  SessionAchieved(s)'
    <3>1. row'[r].status = "active"
      BY <1>1, <2>1, StatusAfter
    <3>2. session'[s] = [session[s] EXCEPT !.phase = "running", !.reserved = TRUE]
      BY <1>1, <2>1
    <3>3. session'[s].phase = "running"
          /\ session'[s].billable = session[s].billable
      BY <1>1, <3>2 DEF SessionType
    <3> QED BY <1>1, <1>2, <3>1, <3>3 DEF SessionAchieved, Achieved, Begin, In
  <2>2. ASSUME UNCHANGED vars, session' = [session EXCEPT ![s].phase = "running"]
        PROVE  SessionAchieved(s)'
    <3>1. session'[s] = [session[s] EXCEPT !.phase = "running"]
      BY <1>1, <2>2
    <3>2. session'[s].phase = "running"
          /\ session'[s].billable = session[s].billable
          /\ session'[s].reserved = session[s].reserved
      BY <1>1, <3>1 DEF SessionType
    <3> QED BY <1>1, <1>2, <3>2 DEF SessionAchieved, Achieved, Begin, In
  <2> QED BY <1>2, <2>1, <2>2 DEF Begin
<1>3. CASE BeginReplyLost(s)
  <2>1. Goto(s, "refused") /\ In(s, "idle")
    BY <1>3 DEF BeginReplyLost
  <2> QED BY <1>1, <2>1, GotoFields DEF SessionAchieved, Achieved, In
<1>4. CASE Raise(s) \/ Renew(s)
  <2>1. SameStatus(r) /\ UNCHANGED <<ledger, session>>
    BY <1>1, <1>4, StatusAfter DEF Raise, Renew, Renews
  <2> QED BY <1>1, <2>1 DEF SessionAchieved, SameStatus
<1>5. CASE Finish(s)
  <2>1. In(s, "running") /\ UNCHANGED <<row, ledger>>
    BY <1>5 DEF Finish, vars
  <2>2. ASSUME NEW cost \in Amount,
               session' = [session EXCEPT ![s].phase = "building",
                                          ![s].billable = TRUE, ![s].cost = cost]
        PROVE  SessionAchieved(s)'
    <3>1. session'[s] = [session[s] EXCEPT !.phase = "building", !.billable = TRUE, !.cost = cost]
      BY <1>1, <2>2
    <3>2. session'[s].phase = "building"
          /\ session'[s].reserved = session[s].reserved
      BY <1>1, <3>1 DEF SessionType
    <3> QED BY <1>1, <2>1, <3>2 DEF SessionAchieved, Achieved, In
  <2>3. ASSUME Goto(s, "releasing") PROVE SessionAchieved(s)'
    BY <1>1, <2>1, <2>3, GotoFields DEF SessionAchieved, Achieved, In
  <2> QED BY <1>5, <2>2, <2>3 DEF Finish
<1>6. CASE Abandon(s)
  <2>1. Goto(s, "lost") /\ UNCHANGED <<row, ledger>>
        /\ session[s].phase \in {"running", "building", "settling", "marking", "releasing"}
    BY <1>6 DEF Abandon, vars
  <2> QED BY <1>1, <2>1, GotoFields DEF SessionAchieved, Achieved
<1> QED BY <1>2, <1>3, <1>4, <1>5, <1>6

\* A failed settlement is to be marked, its reservation still active or paid.
LEMMA ToMarkAchieves ==
    ASSUME SessionTypeOK, SessionInv, AccountInv, NEW s \in Session, ToMark(s),
           session[s].billable,
           session[s].reserved =>
              \/ row'[RunOf[s]].status = "active"
              \/ Paid(session[s], row'[RunOf[s]].status, ledger'[RunOf[s]])
    PROVE  SessionAchieved(s)'
<1>1. SessionAchieved(s) /\ session[s].reserved \in BOOLEAN
  BY RecordOf
<1>2. CASE session[s].reserved
  <2>1. Goto(s, "marking")
    BY <1>2 DEF ToMark
  <2> QED BY <1>1, <1>2, <2>1, GotoFields DEF SessionAchieved, Achieved, Paid
<1>3. CASE ~session[s].reserved
  <2>1. Fail(s)
    BY <1>3 DEF ToMark
  <2> QED BY <1>1, <1>3, <2>1, FailFields DEF SessionAchieved, Achieved
<1> QED BY <1>2, <1>3

\* A retry leaves the phase, and what it says of the reservation.
LEMMA RetryAchieves ==
    ASSUME SessionTypeOK, SessionInv, AccountInv, NEW s \in Session,
           session' = [session EXCEPT ![s].attempt = @ + 1],
           session[s].phase \in CallingPhases,
           \/ UNCHANGED <<row, ledger>>
           \/ /\ session[s].phase = "settling"
              /\ session[s].reserved =>
                    Paid(session[s], row'[RunOf[s]].status, ledger'[RunOf[s]])
           \/ session[s].phase = "marking" /\ row'[RunOf[s]].status = "reconciliation"
    PROVE  SessionAchieved(s)'
<1>1. SessionAchieved(s) /\ session[s].reserved \in BOOLEAN
  BY RecordOf
<1>2. /\ session'[s].attempt = session[s].attempt + 1
      /\ session'[s].phase = session[s].phase
      /\ session'[s].reserved = session[s].reserved
      /\ session'[s].cost = session[s].cost
  BY RetryFields
<1> QED BY <1>1, <1>2 DEF SessionAchieved, Achieved, Paid, CallingPhases

LEMMA SettlementIsPaid ==
    ASSUME SessionTypeOK, NEW s \in Session, Settlement(s)
    PROVE  session[s].reserved => Paid(session[s], row'[RunOf[s]].status, ledger'[RunOf[s]])
  BY SettlementPays DEF Paid

LEMMA SettlingAchieves ==
    ASSUME SessionTypeOK, SessionInv, AccountInv, NEW s \in Session, Settling(s)
    PROVE  SessionAchieved(s)'
<1> DEFINE r == RunOf[s]
<1>1. /\ SoundRecord(session[s]) /\ SessionAchieved(s)
      /\ session[s].attempt \in 0 .. Attempts /\ Attempts \in Nat
      /\ session[s].reserved \in BOOLEAN /\ session[s].billable \in BOOLEAN
      /\ r \in Run /\ TypeOK
  BY RecordOf
<1>2. session[s].phase \in CallingPhases
  BY DEF Settling, BuildLedger, BuildRefused, BuildFault, Settle, SettleReplyLost, SettleFault,
         SettleRefused, Mark, MarkFault, MarkRefused, In, CallingPhases
<1>3. session[s].billable
  BY <1>1, <1>2 DEF SoundRecord
<1>4. session[s].attempt # Attempts
  BY <1>1, <1>2 DEF SoundRecord, CallingPhases
<1>5. ToMark(s) \in BOOLEAN /\ GiveUp(s) \in BOOLEAN
  BY DEF ToMark, Goto, Fail, GiveUp
<1>6. session[s].reserved =>
        /\ In(s, "building") => row[r].status = "active"
        /\ In(s, "settling") =>
              row[r].status = "active" \/ Paid(session[s], row[r].status, ledger[r])
        /\ In(s, "marking") =>
              \/ row[r].status \in {"active", "reconciliation"}
              \/ Paid(session[s], row[r].status, ledger[r])
  BY <1>1 DEF SessionAchieved, Achieved, In
<1>7. CASE BuildLedger(s)
  <2>1. Goto(s, "settling") /\ UNCHANGED <<row, ledger>> /\ In(s, "building")
    BY <1>7 DEF BuildLedger, vars
  <2> QED BY <1>1, <1>6, <2>1, GotoFields DEF SessionAchieved, Achieved
<1>8. CASE BuildRefused(s) \/ SettleRefused(s)
  <2>1. /\ ToMark(s) /\ UNCHANGED <<row, ledger>>
        /\ In(s, "building") \/ In(s, "settling")
    BY <1>8 DEF BuildRefused, SettleRefused, vars
  <2> QED BY <1>1, <1>3, <1>6, <2>1, ToMarkAchieves DEF Paid
<1>9. CASE BuildFault(s) \/ SettleFault(s)
  <2>1. /\ RetryOr(s, ToMark(s)) /\ UNCHANGED <<row, ledger>>
        /\ In(s, "building") \/ In(s, "settling")
    BY <1>9 DEF BuildFault, SettleFault, vars
  <2>2. CASE session' = [session EXCEPT ![s].attempt = @ + 1]
    BY <1>2, <2>1, <2>2, RetryAchieves
  <2>3. CASE ToMark(s)
    BY <1>3, <1>6, <2>1, <2>3, ToMarkAchieves DEF Paid
  <2> QED BY <1>5, <2>1, <2>2, <2>3, RetryOrDone
<1>10. CASE Settle(s)
  <2>1. Goto(s, "closed") /\ In(s, "settling")
    BY <1>10 DEF Settle
  <2>2. session[s].reserved => Paid(session[s], row'[r].status, ledger'[r])
    <3>1. CASE Settlement(s)
      BY <3>1, SettlementIsPaid
    <3>2. CASE Replayed(s) /\ UNCHANGED vars
      BY <1>6, <2>1, <3>2 DEF Replayed, vars, Paid
    <3> QED BY <1>10, <3>1, <3>2 DEF Settle
  <2> QED BY <1>1, <1>3, <2>1, <2>2, GotoFields DEF SessionAchieved, Achieved, AccountedFor, Paid
<1>11. CASE SettleReplyLost(s)
  <2>1. RetryOr(s, ToMark(s)) /\ In(s, "settling") /\ Settlement(s)
    BY <1>11 DEF SettleReplyLost
  <2>2. session[s].reserved => Paid(session[s], row'[r].status, ledger'[r])
    BY <2>1, SettlementIsPaid
  <2>3. CASE session' = [session EXCEPT ![s].attempt = @ + 1]
    BY <1>2, <2>1, <2>2, <2>3, RetryAchieves DEF In
  <2>4. CASE ToMark(s)
    BY <1>3, <2>1, <2>2, <2>4, ToMarkAchieves
  <2> QED BY <1>5, <2>1, <2>3, <2>4, RetryOrDone
<1>12. CASE Mark(s)
  <2>1. Fail(s) /\ row'[r].status = "reconciliation"
    BY <1>1, <1>12, StatusAfter DEF Mark
  <2> QED BY <1>1, <1>3, <2>1, FailFields DEF SessionAchieved, Achieved, AccountedFor
<1>13. CASE MarkFault(s)
  <2>1. /\ RetryOr(s, GiveUp(s)) /\ In(s, "marking")
        /\ UNCHANGED <<row, ledger>> \/ row'[r].status = "reconciliation"
    BY <1>1, <1>13, StatusAfter DEF MarkFault, vars
  <2>2. CASE session' = [session EXCEPT ![s].attempt = @ + 1]
    BY <1>2, <2>1, <2>2, RetryAchieves DEF In
  <2>3. CASE GiveUp(s) /\ (session[s].expired \/ session[s].attempt + 1 >= Attempts)
    <3>1. row'[r].status # "none"
      BY <1>1, <1>6, <2>1 DEF Paid, SessionAchieved, Achieved, In
    <3>2. session[s].expired \/ session[s].attempt + 1 = Attempts
      BY <1>1, <1>4, <2>3
    <3> QED BY <1>1, <1>3, <2>3, <3>1, <3>2, GiveUpFields
            DEF SessionAchieved, Achieved, AccountedFor
  <2> QED BY <1>5, <2>1, <2>2, <2>3, RetryOrDone
<1>14. CASE MarkRefused(s)
  <2>1. /\ Fail(s) /\ UNCHANGED <<row, ledger>> /\ In(s, "marking")
        /\ session[s].expired \/ row[r].status \notin {"active", "reconciliation"}
    BY <1>14 DEF MarkRefused, vars
  <2> QED BY <1>1, <1>3, <1>6, <2>1, FailFields
          DEF SessionAchieved, Achieved, AccountedFor, Paid
<1> QED BY <1>7, <1>8, <1>9, <1>10, <1>11, <1>12, <1>13, <1>14 DEF Settling

LEMMA StepAchieves ==
    ASSUME SessionTypeOK, SessionInv, AccountInv, NEW s \in Session, Step(s)
    PROVE  SessionAchieved(s)'
<1> DEFINE r == RunOf[s]
<1>1. /\ session \in [Session -> SessionType] /\ session[s] \in SessionType
      /\ SessionAchieved(s) /\ session[s].reserved \in BOOLEAN /\ r \in Run /\ TypeOK
  BY RecordOf DEF SessionInv
<1>2. CASE ContextExpires(s)
  <2>1. /\ UNCHANGED <<row, ledger>>
        /\ session' = [session EXCEPT ![s].expired = TRUE]
        /\ session[s].phase \in CallingPhases
    BY <1>2 DEF ContextExpires, vars, CallingPhases
  <2>2. session'[s] = [session[s] EXCEPT !.expired = TRUE]
    BY <1>1, <2>1
  <2>3. /\ session'[s].phase = session[s].phase
        /\ session'[s].reserved = session[s].reserved /\ session'[s].cost = session[s].cost
        /\ session'[s].billable = session[s].billable
    BY <1>1, <2>2 DEF SessionType
  <2> QED BY <1>1, <2>1, <2>3 DEF SessionAchieved, Achieved, Paid, CallingPhases
<1>3. CASE Release(s)
  <2>1. /\ In(s, "releasing") /\ Goto(s, "closed")
        /\ session[s].reserved => row'[r].status = "released"
    BY <1>1, <1>3, StatusAfter DEF Release, SessionAchieved, Achieved, In
  <2> QED BY <1>1, <2>1, GotoFields DEF SessionAchieved, Achieved, AccountedFor, In
<1>4. CASE ReleaseFault(s)
  <2>1. /\ In(s, "releasing") /\ Fail(s)
        /\ row'[r].status \in {"active", "released"}
    BY <1>1, <1>4, StatusAfter DEF ReleaseFault, vars, SessionAchieved, Achieved, In
  <2>2. ~session[s].billable
    BY <1>1, <2>1 DEF SessionAchieved, Achieved, In
  <2> QED BY <1>1, <2>1, <2>2, FailFields DEF SessionAchieved, Achieved, AccountedFor, In
<1> QED BY <1>2, <1>3, <1>4, BeforeTheRunAchieves, SettlingAchieves DEF Step

-----------------------------------------------------------------------------
(***************************************************************************)
(* What a step leaves of the other sessions.                               *)
(***************************************************************************)

\* A step changes the status of its own reservation only: one its session
\* holds, or one that was not there.
LEMMA StatusChange ==
    ASSUME SessionTypeOK, SessionInv, AccountInv, NEW s \in Session, Step(s), NEW q \in Run
    PROVE  \/ SameStatus(q)
           \/ q = RunOf[s] /\ (session[s].reserved \/ row[q].status = "none")
<1> DEFINE r == RunOf[s]
<1>1. r \in Run /\ TypeOK /\ SessionAchieved(s)
  BY RecordOf
<1>2. CASE UNCHANGED row
  BY <1>2 DEF SameStatus
<1>3. CASE Begin(s) \/ BeginReplyLost(s)
  BY <1>1, <1>2, <1>3, StatusAfter DEF Begin, BeginReplyLost, vars
<1>4. CASE Raise(s) \/ Renew(s)
  BY <1>1, <1>4, StatusAfter DEF Raise, Renew, Renews
<1>5. CASE Finish(s) \/ Abandon(s) \/ ContextExpires(s)
  BY <1>2, <1>5 DEF Finish, Abandon, ContextExpires, vars
<1>6. CASE BuildLedger(s) \/ BuildRefused(s) \/ BuildFault(s) \/ SettleFault(s)
           \/ SettleRefused(s) \/ MarkRefused(s)
  BY <1>2, <1>6 DEF BuildLedger, BuildRefused, BuildFault, SettleFault, SettleRefused,
     MarkRefused, vars
<1>7. CASE Settle(s) \/ SettleReplyLost(s)
  <2>1. CASE Settlement(s)
    BY <2>1, SettlementPays DEF SameStatus
  <2> QED BY <1>2, <1>7, <2>1 DEF Settle, SettleReplyLost, vars
<1>8. CASE Mark(s) \/ MarkFault(s)
  <2>1. session[s].reserved
    BY <1>1, <1>8 DEF Mark, MarkFault, In, SessionAchieved, Achieved
  <2> QED BY <1>1, <1>2, <1>8, <2>1, StatusAfter DEF Mark, MarkFault, vars
<1>9. CASE Release(s) \/ ReleaseFault(s)
  BY <1>1, <1>2, <1>9, StatusAfter DEF Release, ReleaseFault, vars
<1> QED BY <1>3, <1>4, <1>5, <1>6, <1>7, <1>8, <1>9 DEF Step, Settling

LEMMA OthersKept ==
    ASSUME SessionTypeOK, SessionInv, NEW s \in Session, NEW t \in Session \ {s}, Step(s)
    PROVE  session'[t] = session[t]
<1> DEFINE Kept == session'[t] = session[t]
<1>1. session \in [Session -> SessionType]
  BY DEF SessionInv
<1>2. ASSUME NEW phase, Goto(s, phase) PROVE Kept
  BY <1>1, <1>2 DEF Goto
<1>3. ASSUME Fail(s) PROVE Kept
  BY <1>1, <1>3 DEF Fail
<1>4. ASSUME GiveUp(s) \/ session' = [session EXCEPT ![s].attempt = @ + 1] PROVE Kept
  BY <1>1, <1>4 DEF GiveUp
<1>5. CASE Begin(s) \/ Finish(s) \/ ContextExpires(s) \/ Raise(s) \/ Renew(s)
  BY <1>1, <1>2, <1>5 DEF Begin, Finish, ContextExpires, Raise, Renew
<1>6. CASE BeginReplyLost(s) \/ Abandon(s) \/ BuildLedger(s) \/ Settle(s) \/ Release(s)
  BY <1>2, <1>6 DEF BeginReplyLost, Abandon, BuildLedger, Settle, Release
<1>7. CASE BuildRefused(s) \/ SettleRefused(s)
  BY <1>2, <1>3, <1>7 DEF BuildRefused, SettleRefused, ToMark
<1>8. CASE BuildFault(s) \/ SettleReplyLost(s) \/ SettleFault(s)
  BY <1>2, <1>3, <1>4, <1>8 DEF BuildFault, SettleReplyLost, SettleFault, RetryOr, ToMark
<1>9. CASE Mark(s) \/ MarkFault(s) \/ MarkRefused(s) \/ ReleaseFault(s)
  BY <1>3, <1>4, <1>9 DEF Mark, MarkFault, MarkRefused, ReleaseFault, RetryOr
<1> QED BY <1>5, <1>6, <1>7, <1>8, <1>9 DEF Step, Settling

LEMMA OthersAchieved ==
    ASSUME SessionTypeOK, SessionInv, AccountInv, OneHolderPerReservation,
           NEW s \in Session, NEW t \in Session \ {s}, Step(s)
    PROVE  SessionAchieved(t)'
<1> DEFINE q == RunOf[t]
<1>1. /\ session[t] \in SessionType /\ SessionAchieved(t)
      /\ session[t].reserved \in BOOLEAN /\ q \in Run /\ TypeOK
  BY RecordOf
<1>2. session'[t] = session[t]
  BY OthersKept
<1>3. ledger[q].posted => ledger'[q] = ledger[q]
  BY <1>1, SessionStepIsBilling, PostedOnceStep DEF BillingStep, PostedOnce
<1>4. CASE session[t].reserved
  <2>1. row[q].status # "none"
    BY <1>1, <1>4 DEF SessionAchieved, Achieved
  <2>2. q = RunOf[s] => ~session[s].reserved
    BY <1>4 DEF OneHolderPerReservation
  <2>3. SameStatus(q)
    BY <1>1, <2>1, <2>2, StatusChange
  <2> QED BY <1>1, <1>2, <1>3, <2>3
          DEF SessionAchieved, Achieved, AccountedFor, Paid, SameStatus
<1>5. CASE ~session[t].reserved
  BY <1>1, <1>2, <1>5 DEF SessionAchieved, Achieved
<1> QED BY <1>1, <1>4, <1>5

\* Time and the account's deposits leave every reservation's status alone.
LEMMA EnvironmentAchieves ==
    ASSUME SessionTypeOK, AccountInv, Environment \/ UNCHANGED sessionVars
    PROVE  AccountInv'
<1>1. row \in [Run -> Reservation] /\ \A q \in Run : row[q] \in Reservation
  BY DEF SessionTypeOK, TypeOK
<1>2. UNCHANGED <<session, ledger>>
  BY DEF Environment, Tick, CreditBalance, SetBillingAccountBalance, sessionVars, vars
<1>3. ASSUME NEW q \in Run PROVE SameStatus(q)
  <2>1. CASE Tick
    BY <1>1, <2>1 DEF Tick, SameStatus, Reservation
  <2>2. CASE UNCHANGED row
    BY <2>2 DEF SameStatus
  <2> QED BY <2>1, <2>2
          DEF Environment, CreditBalance, SetBillingAccountBalance, sessionVars, vars
<1>4. ASSUME NEW s \in Session PROVE SessionAchieved(s)'
  <2>1. SessionAchieved(s) /\ SameStatus(RunOf[s])
    BY <1>3, RunOfAssumption DEF AccountInv
  <2> QED BY <1>2, <2>1 DEF SessionAchieved, SameStatus
<1> QED BY <1>4 DEF AccountInv

\* No session is past what it has achieved.
THEOREM AccountInvariant == SessionSpec => []AccountInv
<1>1. SessionInit => AccountInv
  BY AttemptsAssumption
     DEF SessionInit, NewSession, AccountInv, SessionAchieved, Achieved
<1>2. /\ SessionTypeOK /\ SessionInv /\ OneHolderPerReservation /\ AccountInv
      /\ [SessionNext]_sessionVars
      => AccountInv'
  <2> SUFFICES ASSUME SessionTypeOK, SessionInv, OneHolderPerReservation, AccountInv,
                      [SessionNext]_sessionVars
               PROVE  AccountInv'
    OBVIOUS
  <2>1. ASSUME NEW s \in Session, Step(s) PROVE AccountInv'
    <3>1. ASSUME NEW t \in Session PROVE SessionAchieved(t)'
      BY <2>1, StepAchieves, OthersAchieved
    <3> QED BY <3>1 DEF AccountInv
  <2> QED BY <2>1, EnvironmentAchieves DEF SessionNext
<1> QED BY <1>1, <1>2, SessionTypeCorrect, SessionInvariant, OneHolder, PTL
        DEF SessionSpec

\* Whatever fails on the way, a session whose Finish returned has left a trace
\* of its run: an entry with its cost and a settled reservation, a reservation
\* that awaits reconciliation, or a released one -- unless its context expired
\* or every attempt of its own mark failed.
THEOREM FinishedRunsAreAccountedFor == SessionSpec => []FinishedRunAccountedFor
<1>1. AccountInv => FinishedRunAccountedFor
  BY DEF AccountInv, SessionAchieved, Achieved, AccountedFor, Paid, FinishedRunAccountedFor, In
<1> QED BY <1>1, AccountInvariant, PTL

-----------------------------------------------------------------------------
(***************************************************************************)
(* What a run is billed.  Only the settlement of a billable session posts  *)
(* an entry, and the cost a session observed is written once.              *)
(***************************************************************************)
LEMMA LedgerChange ==
    ASSUME SessionTypeOK, SessionInv, AccountInv, NEW s \in Session, Step(s)
    PROVE  UNCHANGED ledger \/ (Settlement(s) /\ session[s].billable)
<1>1. /\ RunOf[s] \in Run /\ TypeOK /\ SoundRecord(session[s])
  BY RecordOf
<1>2. CASE Begin(s) \/ BeginReplyLost(s) \/ Raise(s) \/ Renew(s)
  BY <1>1, <1>2, StatusAfter DEF Begin, BeginReplyLost, Raise, Renew, Renews, vars
<1>3. CASE Finish(s) \/ Abandon(s) \/ ContextExpires(s)
  BY <1>3 DEF Finish, Abandon, ContextExpires, vars
<1>4. CASE BuildLedger(s) \/ BuildRefused(s) \/ BuildFault(s) \/ SettleFault(s)
           \/ SettleRefused(s) \/ MarkRefused(s)
  BY <1>4 DEF BuildLedger, BuildRefused, BuildFault, SettleFault, SettleRefused,
     MarkRefused, vars
<1>5. CASE Settle(s) \/ SettleReplyLost(s)
  <2>1. session[s].billable
    BY <1>1, <1>5 DEF Settle, SettleReplyLost, In, SoundRecord, CallingPhases
  <2> QED BY <1>5, <2>1 DEF Settle, SettleReplyLost, vars
<1>6. CASE Mark(s) \/ MarkFault(s) \/ Release(s) \/ ReleaseFault(s)
  BY <1>1, <1>6, StatusAfter DEF Mark, MarkFault, Release, ReleaseFault, vars
<1> QED BY <1>2, <1>3, <1>4, <1>5, <1>6 DEF Step, Settling

SameCost(s) == session'[s].billable /\ session'[s].cost = session[s].cost

LEMMA CostIsKept ==
    ASSUME SessionTypeOK, SessionInv, AccountInv, NEW s \in Session, Step(s),
           NEW t \in Session, session[t].billable
    PROVE  SameCost(t)
<1>1. /\ session \in [Session -> SessionType] /\ session[s] \in SessionType
      /\ SessionAchieved(s)
  BY RecordOf DEF SessionInv
<1>2. CASE t # s
  BY <1>2, OthersKept DEF SameCost
<1>3. CASE t = s
  <2>1. ~In(s, "idle") /\ ~In(s, "running") /\ ~In(s, "releasing")
    BY <1>1, <1>3 DEF SessionAchieved, Achieved, In
  <2>2. ASSUME NEW phase, Goto(s, phase) PROVE SameCost(s)
    BY <1>3, <2>2, GotoFields DEF SameCost
  <2>3. ASSUME Fail(s) PROVE SameCost(s)
    BY <1>3, <2>3, FailFields DEF SameCost
  <2>4. ASSUME GiveUp(s) \/ session' = [session EXCEPT ![s].attempt = @ + 1]
        PROVE  SameCost(s)
    BY <1>3, <2>4, RetryFields, GiveUpFields DEF SameCost
  <2>5. CASE Abandon(s) \/ BuildLedger(s) \/ Settle(s)
    BY <1>3, <2>2, <2>5 DEF Abandon, BuildLedger, Settle
  <2>6. CASE ContextExpires(s)
    <3>1. session'[s] = [session[s] EXCEPT !.expired = TRUE]
      BY <1>1, <2>6 DEF ContextExpires
    <3> QED BY <1>1, <1>3, <3>1 DEF SessionType, SameCost
  <2>7. CASE BuildRefused(s) \/ SettleRefused(s)
    BY <1>3, <2>2, <2>3, <2>7 DEF BuildRefused, SettleRefused, ToMark
  <2>8. CASE BuildFault(s) \/ SettleReplyLost(s) \/ SettleFault(s)
    BY <1>3, <2>2, <2>3, <2>4, <2>8
       DEF BuildFault, SettleReplyLost, SettleFault, RetryOr, ToMark
  <2>9. CASE Mark(s) \/ MarkFault(s) \/ MarkRefused(s)
    BY <1>3, <2>3, <2>4, <2>9 DEF Mark, MarkFault, MarkRefused, RetryOr
  <2> QED BY <2>1, <2>5, <2>6, <2>7, <2>8, <2>9
          DEF Step, Settling, Begin, BeginReplyLost, Raise, Renew, Finish, Release, ReleaseFault
<1> QED BY <1>2, <1>3

\* A run is billed what one of its sessions observed as the cost of a billable
\* result, however often its settlement is tried, replayed or asked for again.
THEOREM RunsAreBilledTheirCost == SessionSpec => []BilledWhatARunCost
<1>1. SessionInit => BilledWhatARunCost
  BY DEF SessionInit, Init, NoEntry, BilledWhatARunCost
<1>2. ASSUME SessionTypeOK, SessionInv, AccountInv, BilledWhatARunCost,
             NEW s \in Session, Step(s)
      PROVE  BilledWhatARunCost'
  <2> SUFFICES ASSUME NEW r \in Run, ledger'[r].posted
               PROVE  \E t \in Session : /\ RunOf[t] = r /\ session'[t].billable
                                         /\ ledger'[r].billed = session'[t].cost
    BY DEF BilledWhatARunCost
  <2>1. CASE ledger'[r] = ledger[r]
    <3>1. PICK t \in Session : /\ RunOf[t] = r /\ session[t].billable
                               /\ ledger[r].billed = session[t].cost
      BY <1>2, <2>1 DEF BilledWhatARunCost
    <3>2. SameCost(t)
      BY <1>2, <3>1, CostIsKept
    <3> QED BY <2>1, <3>1, <3>2 DEF SameCost
  <2>2. CASE r = RunOf[s] /\ Settlement(s) /\ session[s].billable
    <3>1. ledger'[r].billed = session[s].cost
      BY <1>2, <2>2, SettlementPays
    <3>2. SameCost(s)
      BY <1>2, <2>2, CostIsKept
    <3> QED BY <2>2, <3>1, <3>2 DEF SameCost
  <2>3. \/ ledger'[r] = ledger[r]
        \/ r = RunOf[s] /\ Settlement(s) /\ session[s].billable
    BY <1>2, LedgerChange, SettlementPays
  <2> QED BY <2>1, <2>2, <2>3
<1>3. BilledWhatARunCost /\ (Environment \/ UNCHANGED sessionVars) => BilledWhatARunCost'
  <2>1. Environment \/ UNCHANGED sessionVars => UNCHANGED <<ledger, session>>
    BY DEF Environment, Tick, CreditBalance, SetBillingAccountBalance, sessionVars, vars
  <2> QED BY <2>1 DEF BilledWhatARunCost
<1>4. /\ SessionTypeOK /\ SessionInv /\ AccountInv /\ BilledWhatARunCost
      /\ [SessionNext]_sessionVars
      => BilledWhatARunCost'
  BY <1>2, <1>3 DEF SessionNext
<1> QED BY <1>1, <1>4, SessionTypeCorrect, SessionInvariant, AccountInvariant, PTL
        DEF SessionSpec

=============================================================================

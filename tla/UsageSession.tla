---------------------------- MODULE UsageSession ----------------------------
(***************************************************************************)
(* The billing life of model runs: one session per request, from the       *)
(* reservation taken before the response starts to the settlement or the   *)
(* release after the run ended, with its retries, timeouts and crashes.    *)
(* The tables are those of UsageBilling; a session reaches them only       *)
(* through its operations, one transaction a step, so what several         *)
(* sessions do interleaves between any two of them.                        *)
(*                                                                         *)
(* Two sessions may carry the same reference number: a client that resends *)
(* its request, or uses the run id of an earlier one.                      *)
(***************************************************************************)
EXTENDS UsageBilling

CONSTANTS
    Session,         \* requests
    RunOf,           \* the client run id of each
    Attempts,        \* usageBillingRetryAttempts
    MaxFaults,       \* bound: database errors and lost replies in a behaviour
    ContextsExpire   \* can the ten seconds of a settlement run out?

ASSUME RunOfAssumption == RunOf \in [Session -> Run]
ASSUME AttemptsAssumption == Attempts \in Nat \ {0}
ASSUME FaultsAssumption == MaxFaults \in Nat
ASSUME ContextsExpireAssumption == ContextsExpire \in BOOLEAN

VARIABLES
    session,         \* what the process knows of each request
    faults           \* errors so far

sessionVars == <<vars, session, faults>>

-----------------------------------------------------------------------------
\* running: the model is called and the lease renewed; building, settling and
\* marking are the database calls of a settlement that failed so far; lost: the
\* process died, or the handler returned through Close without Finish.
Phases == {"idle", "running", "building", "settling", "marking", "releasing",
           "closed", "refused", "lost"}

\* reserved: the authorization has a reservation; attempt counts the calls of
\* the current operation that failed, and stays when the last of a mark did;
\* expired is the state of the settlement's context; failed: Finish returned an
\* error.
SessionType == [phase : Phases, reserved : BOOLEAN, billable : BOOLEAN, cost : Amount \cup {0},
                attempt : 0 .. Attempts, expired : BOOLEAN, failed : BOOLEAN]

NewSession == [phase |-> "idle", reserved |-> FALSE, billable |-> FALSE, cost |-> 0,
               attempt |-> 0, expired |-> FALSE, failed |-> FALSE]

SessionInit ==
    /\ Init
    /\ session = [s \in Session |-> NewSession]
    /\ faults = 0

In(s, phase) == session[s].phase = phase

Goto(s, phase) ==
    session' = [session EXCEPT ![s].phase = phase, ![s].attempt = 0]

\* Finish returns with the error of the operation that failed last.
Fail(s) == session' = [session EXCEPT ![s].phase = "closed", ![s].failed = TRUE]

\* The same after an attempt that failed, the last one.
GiveUp(s) ==
    session' = [session EXCEPT ![s].phase = "closed", ![s].failed = TRUE,
                               ![s].attempt = @ + 1]

Fault == faults < MaxFaults /\ faults' = faults + 1

-----------------------------------------------------------------------------
(***************************************************************************)
(* Before and during the run.                                              *)
(***************************************************************************)

\* BeginUsageSession: an authorization with a reservation, or without one in
\* self mode and for free models.
Begin(s) ==
    /\ In(s, "idle")
    /\ \/ \E terms \in Terms, amount \in Amount :
             /\ ReserveUsageBalance(RunOf[s], terms, amount)
             /\ session' = [session EXCEPT ![s].phase = "running", ![s].reserved = TRUE]
       \/ /\ session' = [session EXCEPT ![s].phase = "running"]
          /\ UNCHANGED vars
    /\ UNCHANGED faults

\* The transaction committed and its reply was lost, or the client went away
\* meanwhile: the request fails, and its reservation has no session.
BeginReplyLost(s) ==
    /\ In(s, "idle") /\ Fault
    /\ \E terms \in Terms, amount \in Amount :
          ReserveUsageBalance(RunOf[s], terms, amount)
    /\ Goto(s, "refused")

\* ensureUsageBudgetCoversEstimate before an upstream call.  If it fails, the
\* run ends, with or without usage so far.
Raise(s) ==
    /\ In(s, "running") /\ session[s].reserved
    /\ \E amount \in Amount : RaiseUsageBalanceReservation(RunOf[s], amount)
    /\ UNCHANGED <<session, faults>>

\* Mutant: Finish leaves the renewal running.
MutRenew(s) ==
    /\ session[s].reserved
    /\ \E late \in 0 .. RenewDelay :
          /\ row[RunOf[s]].lease <= LeaseTicks - late
          /\ RenewUsageBalanceReservation(RunOf[s], late)
    /\ UNCHANGED <<session, faults>>

\* A tick of the renewal goroutine.  It read the clock after the reservation
\* and the renewal before were written.  Its errors are logged; Finish and
\* Close stop it and wait for the call in progress.
Renew(s) ==
    /\ In(s, "running") /\ session[s].reserved
    /\ \E late \in 0 .. RenewDelay :
          /\ row[RunOf[s]].lease <= LeaseTicks - late
          /\ RenewUsageBalanceReservation(RunOf[s], late)
    /\ UNCHANGED <<session, faults>>

\* Mutant: a run without billable usage is settled too.
MutFinish(s) ==
    /\ In(s, "running")
    /\ \E cost \in Amount, billable \in BOOLEAN :
          session' = [session EXCEPT ![s].phase = "building",
                                     ![s].billable = billable, ![s].cost = cost]
    /\ UNCHANGED <<vars, faults>>

\* Finish: only the first call counts (markFinished).
Finish(s) ==
    /\ In(s, "running")
    /\ \/ \E cost \in Amount :
             session' = [session EXCEPT ![s].phase = "building",
                                        ![s].billable = TRUE, ![s].cost = cost]
       \/ Goto(s, "releasing")
    /\ UNCHANGED <<vars, faults>>

\* The process dies, or the handler leaves without Finish.
Abandon(s) ==
    /\ session[s].phase \in {"running", "building", "settling", "marking", "releasing"}
    /\ Goto(s, "lost")
    /\ UNCHANGED <<vars, faults>>

-----------------------------------------------------------------------------
(***************************************************************************)
(* RecordSendMessageBilling.  Each of its operations is tried Attempts     *)
(* times; all share one context.                                           *)
(***************************************************************************)

\* Mutant: one attempt too many.
MutRetryOr(s, next) ==
    IF session[s].attempt <= Attempts /\ ~session[s].expired
    THEN session' = [session EXCEPT ![s].attempt = @ + 1]
    ELSE next

\* The next attempt, or what follows the last one.
RetryOr(s, next) ==
    IF session[s].attempt + 1 < Attempts /\ ~session[s].expired
    THEN session' = [session EXCEPT ![s].attempt = @ + 1]
    ELSE next

\* markUsageAuthorizationForReconciliation returns at once without a reservation.
ToMark(s) == IF session[s].reserved THEN Goto(s, "marking") ELSE Fail(s)

\* WithTimeout(usageSessionSettleTimeout): once it has passed, every call that
\* is given the context fails with DeadlineExceeded, which is not retried.
ContextExpires(s) ==
    /\ ContextsExpire
    /\ session[s].phase \in {"building", "settling", "marking"}
    /\ ~session[s].expired
    /\ session' = [session EXCEPT ![s].expired = TRUE]
    /\ UNCHANGED <<vars, faults>>

BuildLedger(s) ==
    /\ In(s, "building") /\ ~session[s].expired
    /\ Goto(s, "settling")
    /\ UNCHANGED <<vars, faults>>

\* ErrModelPricingRequired (the price was deleted meanwhile) or an expired
\* context: not retried.
BuildRefused(s) ==
    /\ In(s, "building")
    /\ ToMark(s)
    /\ UNCHANGED <<vars, faults>>

BuildFault(s) ==
    /\ In(s, "building") /\ Fault
    /\ RetryOr(s, ToMark(s))
    /\ UNCHANGED vars

\* RecordUsageWithAuthorization: the first settlement of the run...
Settlement(s) ==
    LET r == RunOf[s]
        c == session[s].cost
    IN  \E m \in Month :
          IF session[s].reserved
          THEN \/ AddUsageAndSettleBalance(r, c, m)
               \/ AddPeriodUsageAndSettleOverage(r, c, m)
          ELSE \/ AddUsageWithoutReservation(r, c, m)
               \/ \E limit \in Limit : AddPeriodUsageWithoutReservation(r, c, m, limit)
               \/ AddUsage(r, c, m)

\* ... or one that finds it settled, and reads the entry back.
Replayed(s) ==
    LET r == RunOf[s]
    IN  IF session[s].reserved THEN row[r].status = "settled" ELSE ledger[r].posted

\* Mutant: the reservation is settled in a transaction of its own.
MutSettle(s) ==
    /\ In(s, "settling") /\ ~session[s].expired
    /\ Settleable(RunOf[s]) /\ SettleUsageReservation(RunOf[s])
    /\ UNCHANGED <<balance, ledger, deposited, excess, reclaimed>>
    /\ Goto(s, "closed")
    /\ UNCHANGED faults

Settle(s) ==
    /\ In(s, "settling") /\ ~session[s].expired
    /\ \/ Settlement(s)
       \/ Replayed(s) /\ UNCHANGED vars
    /\ Goto(s, "closed")
    /\ UNCHANGED faults

\* The transaction committed, the reply did not arrive.
SettleReplyLost(s) ==
    /\ In(s, "settling") /\ ~session[s].expired /\ Fault
    /\ Settlement(s)
    /\ RetryOr(s, ToMark(s))

SettleFault(s) ==
    /\ In(s, "settling") /\ Fault
    /\ RetryOr(s, ToMark(s))
    /\ UNCHANGED vars

\* Mutant: the settlement does not notice that its context has expired.
MutSettleRefused(s) ==
    LET r == RunOf[s]
    IN  /\ In(s, "settling")
        /\ session[s].reserved /\ row[r].status # "settled"
        /\ ledger[r].posted \/ ~Settleable(r)
        /\ ToMark(s)
        /\ UNCHANGED <<vars, faults>>

\* ErrConflict for a row that is neither open nor settled, ErrDuplicate for an
\* entry another session of the run wrote, or an expired context.
SettleRefused(s) ==
    LET r == RunOf[s]
    IN  /\ In(s, "settling")
        /\ \/ session[s].expired
           \/ /\ session[s].reserved /\ row[r].status # "settled"
              /\ ledger[r].posted \/ ~Settleable(r)
        /\ ToMark(s)
        /\ UNCHANGED <<vars, faults>>

Mark(s) ==
    /\ In(s, "marking") /\ ~session[s].expired
    /\ MarkUsageReservationReconciliationRequired(RunOf[s])
    /\ Fail(s)
    /\ UNCHANGED faults

\* Mutant: the mark is not retried.
MutMarkFault(s) ==
    /\ In(s, "marking") /\ Fault
    /\ GiveUp(s)
    /\ UNCHANGED vars

MarkFault(s) ==
    /\ In(s, "marking") /\ Fault
    /\ RetryOr(s, GiveUp(s))
    /\ \/ UNCHANGED vars
       \/ /\ ~session[s].expired
          /\ MarkUsageReservationReconciliationRequired(RunOf[s])

\* No row to mark (the settlement did commit), or an expired context.
MarkRefused(s) ==
    /\ In(s, "marking")
    /\ \/ session[s].expired
       \/ row[RunOf[s]].status \notin {"active", "reconciliation"}
    /\ Fail(s)
    /\ UNCHANGED <<vars, faults>>

\* One call under its own context; a row that is not active is left alone.
Release(s) ==
    /\ In(s, "releasing")
    /\ \/ session[s].reserved /\ ReleaseUsageBalanceReservation(RunOf[s])
       \/ /\ session[s].reserved => row[RunOf[s]].status # "active"
          /\ UNCHANGED vars
    /\ Goto(s, "closed")
    /\ UNCHANGED faults

ReleaseFault(s) ==
    /\ In(s, "releasing") /\ session[s].reserved /\ Fault
    /\ UNCHANGED vars \/ ReleaseUsageBalanceReservation(RunOf[s])
    /\ Fail(s)

-----------------------------------------------------------------------------
Settling(s) ==
    \/ BuildLedger(s) \/ BuildRefused(s) \/ BuildFault(s)
    \/ Settle(s) \/ SettleReplyLost(s) \/ SettleFault(s) \/ SettleRefused(s)
    \/ Mark(s) \/ MarkFault(s) \/ MarkRefused(s)

Step(s) ==
    \/ Begin(s) \/ BeginReplyLost(s) \/ Raise(s) \/ Renew(s) \/ Finish(s) \/ Abandon(s)
    \/ ContextExpires(s) \/ Settling(s) \/ Release(s) \/ ReleaseFault(s)

\* Time, top-ups and administrators.
Environment ==
    /\ \/ Tick
       \/ \E amount \in Amount : \/ CreditBalance(amount)
                                 \/ SetBillingAccountBalance(amount)
    /\ UNCHANGED <<session, faults>>

SessionNext == (\E s \in Session : Step(s)) \/ Environment

\* Time passes, a run ends (every upstream call has a timeout), and the calls
\* of Finish return: retries are bounded and their context expires.  A run need
\* not begin, and nothing makes a renewal happen.
Fairness ==
    /\ WF_sessionVars(Tick /\ UNCHANGED <<session, faults>>)
    /\ \A s \in Session : WF_sessionVars(Finish(s)) /\ WF_sessionVars(Settling(s))
                          /\ WF_sessionVars(Release(s) \/ ReleaseFault(s))

SessionSpec == SessionInit /\ [][SessionNext]_sessionVars /\ Fairness

-----------------------------------------------------------------------------
(***************************************************************************)
(* Properties.                                                             *)
(***************************************************************************)

\* The sessions are records of the declared shape, the tables those of the
\* schema; and nobody goes on after the last attempt of an operation.
SessionTypeOK ==
    /\ TypeOK
    /\ session \in [Session -> SessionType]
    /\ \A s \in Session : session[s].attempt = Attempts => In(s, "closed")
    /\ faults \in 0 .. MaxFaults

\* A session whose Finish returned has left a trace of its run: a billable run
\* is in the ledger with its cost or awaits reconciliation, and a run without
\* usage holds no budget, unless its settlement ran out of time or every
\* attempt of its own mark failed (service_billing.go:226-337).  Failures of
\* the settlement itself, all of its attempts included, are no excuse.
FinishedRunAccountedFor ==
    \A s \in Session :
        LET r == RunOf[s]
        IN  In(s, "closed") /\ session[s].reserved =>
              IF session[s].billable
              THEN \/ ledger[r].posted /\ ledger[r].billed = session[s].cost
                                       /\ row[r].status = "settled"
                   \/ row[r].status = "reconciliation"
                   \/ session[s].expired
                   \/ session[s].attempt = Attempts
              ELSE row[r].status = "released" \/ session[s].failed

\* What a run is billed is what one of its sessions observed as the cost of a
\* billable result: no retry, replay or second request of the run bills it for
\* anything else (service_usage_session.go:57-71).
BilledWhatARunCost ==
    \A r \in Run : ledger[r].posted =>
        \E s \in Session : /\ RunOf[s] = r /\ session[s].billable
                           /\ ledger[r].billed = session[s].cost

\* Two requests never hold the same reservation, so that neither can renew,
\* raise or release what the other one pays with.
OneHolderPerReservation ==
    \A s, t \in Session :
        RunOf[s] = RunOf[t] /\ session[s].reserved /\ session[t].reserved => s = t

\* Sessions change the tables only by the operations of UsageBilling, so that
\* what holds of those for all callers holds of the sessions.
ImplementsBilling == Spec

\* No lease lasts forever: a budget nobody settles, releases or marks is free
\* again in the end, and a finished session does not renew it
\* (service_usage_session.go:139-174).
LeasesEnd == \A r \in Run : []<>~Live(r)

\* Finish returns: every retry loop ends, whatever the database answers.
FinishReturns ==
    \A s \in Session :
        session[s].phase \in {"building", "settling", "marking", "releasing"}
            ~> session[s].phase \in {"closed", "lost"}

\* service_usage_session.go:59: a failed settlement with a reservation is
\* marked for reconciliation at the same time.  The code does not keep this;
\* MCUsageSession's violation run exhibits the behaviour.
FailedSettlementIsMarked ==
    \A s \in Session :
        In(s, "closed") /\ session[s].reserved /\ session[s].billable /\ session[s].failed =>
            row[RunOf[s]].status \in {"reconciliation", "settled"}

=============================================================================

# A verification project for the DEEIX Chat backend

DEEIX Chat is a multi-user chat server over many model providers (Go backend,
Postgres or SQLite, Redis or an in-memory cache) with web and desktop clients.
This directory holds TLA+ models of the parts of the backend whose correctness
depends on how concurrent requests, retries, timeouts and crashes interleave,
the TLC configurations that check them on small instances, and theorems about
them that TLAPS checks for every value of the constants.

Paths are relative to `src/backend/internal/` unless they start with `src/`.

## 1. Inventory

| Component | Code | State | Operations | Hard behaviour | What makes it correct |
|---|---|---|---|---|---|
| Usage billing repository: reservations | `infra/persistence/postgres/billing/repository_reservation.go` | `billing_usage_reservations` (status, balance part, credit part, limit, period, `expires_at`), the account row | reserve, raise, release, renew, mark for reconciliation, settle | concurrent requests of one user; leases that lapse while a run is still going; late releases, settlements and marks | a budget is never promised twice; a run's final state is final |
| Usage billing repository: ledger and account | `infra/persistence/postgres/billing/repository.go` | `billing_accounts.balance_nanousd`, `billing_usage_ledgers` (unique by user and `ref_no`), `balance_transactions` | `AddUsage`, `AddUsageAndSettleBalance`, `AddPeriodUsageAndSettleOverage`, `SetBillingAccountBalance`, credits | replayed settlements, overage computed beside other runs' reservations, administrators | money moves exactly once per run and with a transaction; a plan's credit is spent once |
| Usage sessions | `application/conversation/service_usage_session.go`, `service_billing.go` | `UsageSession` (authorization, `finished`), the renewal goroutine, the settlement's context | Begin, renew, Finish (settle or release), Close | lost replies, bounded retries under one shared timeout, process death, resent requests with the same run id | a finished run is billed, awaits reconciliation, or is released; budgets do not stay locked |
| Billing service | `application/billing/service.go` | none of its own: mode, plans and prices are read | authorise, estimate, record | settings and plans that change between authorisation and settlement | a run is settled under the terms it was authorised under |
| Payment orders and redemption codes | `infra/persistence/postgres/billing/repository.go`, `application/billing/` | `billing_payment_orders`, `billing_redemption_codes` with their counts, `billing_redemptions` | create, webhook, pay; create, change, delete, redeem | repeated, concurrent and late webhooks, races for the last use of a code and with administrators | one credit per paid order, at most the allowed uses |
| Subscriptions | the same repository (`grantSubscriptionOnTimeline` and what it calls), `application/billing/service.go` | `billing_subscriptions`: periods of plans of one user | grant, replace, select the current one | plans that displace, split and push back each other; two grants at once | paid time is kept, plans do not overlap, the best is in force |
| Generation stream | `application/conversation/generation_stream.go`, `infra/cache/{redis,memory}` | leased registration of a run, its events, pending completions | register, publish, subscribe with resume, cancel, finish | take-over of a lease, completion retried until a deadline, cancel against finish | one completion; every subscriber ends |
| Content moderation | `application/contentmoderation/`, its repository, `application/conversation/service_run.go` | a run's moderation state, the status of its messages, recorded hits; in memory the coordinators, the queued checks, the pending blocks | begin, enqueue, report a result, barrier, block, late block, retry, recover stale runs | results after the barrier timed out, failed writes, restarts, a handler and workers that write the same rows | a hit that is known is withdrawn in the end; a run that was not checked is not passed; no run stays open |
| File processing | `application/processing/service.go`, `infra/cache/{redis,memory}` | queue, leases, dead letters, a file's processing attempt | enqueue, read, renew, claim timed-out, settle, dead-letter | two workers on one message, redelivery after success | one attempt's result is stored; every file ends ready or failed |
| Channel routing, circuit breaker | `application/channel/service_routing.go`, `infra/cache/{redis,memory}/channel*.go` | circuits with open-until and probe-until, failure windows, key rotation | check, record failure or success, release probes | late failures of requests sent before the circuit opened, unused probes | one probe at a time; a circuit closes again |
| Conversations, tools, memory, RAG | `application/conversation/` | messages, attachments, snapshots | send, edit, branch, tool loop | mostly data and upstream I/O | - |
| Authentication | `application/auth/` | sessions, refresh tokens, two-factor challenges | log in, refresh, revoke | token reuse, concurrent refresh | - |
| Uploads, object storage, secret rotation | `application/upload/`, `application/secretrotation/` | file objects, quotas, encrypted columns | upload, delete, re-encrypt | partial failure of multi-step passes | - |
| Lifecycle, HTTP transport, clients | `shared/`, `transport/http/`, `src/apps/` | - | order of Begin, deferred Close and Finish; detached contexts | client disconnects | - |

How they interact: a handler calls `BeginUsageSession` (which reserves through
the billing service and repository) before it writes the response, registers a
generation stream, runs the model through channel routing, passes the content
moderation barrier, and calls `Finish` once the run has ended; a deferred
`Close` stops the renewal. All state that several requests share is in the
database or in the cache, and billing of one user is serialised by
`SELECT ... FOR UPDATE` on the account row wherever sums are read.

The hazards of the code, each at its line, are listed in `PROJECT.json`
("hazards"), with the properties that cover them.

## 2. What is modelled

```
BudgetArithmetic          int64 helpers, SQL SUM
  UsageBilling            one user's billing tables; every transaction an action; any caller
    UsageSession          the requests that call it: retries, timeouts, crashes, clock
  UsageBillingProofs      laws of the helpers and of sums, types,
                          held budgets are covered, no debt           (proved)
  UsageLedgerProofs       one charge per run, life cycle of a row,
                          slots, period credit, covered grants        (proved)
  UsageSessionProofs      sessions implement UsageBilling, one holder,
                          finished runs are accounted for             (proved)
Payments                  orders with their webhooks; redemption codes
  PaymentsProofs          one credit per order, codes not overdrawn   (proved)
SubscriptionTimeline      where a piece is placed, what it displaces: pure helpers
  Subscriptions           one user's plans: grants and administrators' changes
    SubscriptionsProofs   no overlap, no time lost, the best plan first (proved)
ContentModeration         one run's checks: handler, workers, recovery loop, crash
  ContentModerationProofs   hits are not forgotten, passed was checked (proved)
FileOutcome               what the file queue promises of a file
  FileProcessing          uploads, the queue's leases, workers, attempts; implements FileOutcome
    FileProcessingProofs  safety part of the promise, one message per file (proved)
GenerationStream          one run's stream: registries, leases, cancels, completions
  GenerationStreamProofs  one runner, one execution's events, kept leases (proved)
MCUsageBilling, MCUsageSession, MCPayments, MCSubscriptions,
MCContentModeration, MCFileProcessing, MCGenerationStream    instances for TLC
```

### UsageBilling: what the tables promise to any caller

One user's tables, because no operation touches two users'. Each repository
method is one transaction and one action. Those that read sums take the lock on
the account row first, so they are serialised; release and mark are single
conditional updates of one row, so atomic as well. A renewal is one too, but it
reads the clock before its update and takes no lock, so its update may be late:
`RenewUsageBalanceReservation(r, late)` tests and writes with the time of `late`
ticks ago, at most `RenewDelay`. Reading the clock has no effect of its own, so
the two statements are one action: whatever the others do between them they
have done before it. A late renewal shortens a lease that was extended meanwhile
and revives one that lapsed, whose budget and slot may be somebody else's by
then. A lease therefore counts on below 0, down to `-RenewDelay`.

| Variable | Code |
|---|---|
| `balance` | `billing_accounts.balance_nanousd` |
| `row[r]` | the reservation with `ref_no = r`; `lease` is the time left until `expires_at` |
| `ledger[r]` | the ledger entry with `ref_no = r`, with the amount of its `usage_debit` transaction (`charged`) and the credit it used (`covered`) |
| `deposited` | the sum of all other transactions of the account |
| `excess` | history variable: money taken beyond what the run had held without a break |
| `reclaimed` | history variable: the runs whose lease had lapsed when a late renewal or a mark made them occupy their budget and slot again |

Time is a clock that lowers every lease (`Tick`); `usageReservationTTL` is
`LeaseTicks` ticks. A call that the code rejects changes nothing and has no
action, except in `UsageSession`, where the caller's reaction to it matters.
Callers are unconstrained: release after settlement, settlement after the lease
lapsed, two settlements of a run, in any order.

Abstractions: amounts are members of a small set of natural numbers (prices,
multipliers and estimates produce arbitrary non-negative amounts); an entry of
a free model is one that bills 0; a period is identified by its month, with its
credit an input that may change between calls; settlement is under the
reservation's own mode, period and limit, which `RecordUsageWithAuthorization`
passes back and `matchesPeriodReservation` verifies.

### UsageSession: the requests

`UsageSession` extends `UsageBilling` by the requests that use it. A session's
`phase` is where its goroutine is: `running` between `Begin` and `Finish`,
`building`, `settling` and `marking` inside `RecordSendMessageBilling`,
`releasing` inside `release`. Every database call may fail or commit with its
reply lost (`Fault`, at most `MaxFaults` times in a behaviour);
`retryUsageBillingOperation` is `RetryOr`; `ContextExpires` is the ten-second
timeout that all calls of one settlement share. `Abandon` is the death of the
process, or a handler that returns through `Close` alone. Two sessions may
carry the same run id: clients resend requests.

Renewal is possible only while `running`: the stop function that `Finish` and
`Close` call waits for the renewal in progress. A session's renewals are one
after the other, so one that is late read the clock after the reservation and
the renewal before were written. `attempt` counts the failed calls of the
operation under way; it is `Attempts` only after a mark that failed every time
(`GiveUp`), which is how `FinishedRunAccountedFor` tells that case from a
settlement that did.

### Payments: money and plans that come in

An order's webhook is two database calls (`CompletePaymentOrder`): one reads
the order and answers at once if it is paid, the other is the transaction that
marks it paid and credits it. `webhooks` are the requests between the two, with
what they read: whether they were `late`. A provider repeats a call that failed,
so there is no bound on the calls, only on those under way (`Handler`). The
two kinds of orders go through two transactions of the same shape; `credits` is
a history variable that counts the effects of either. A redemption, and a change
or deletion of a code, is one transaction that locks the code's row. `left` is
the time until `expired_at` or `expires_at`. The currency of an order, the
billing mode of a code and what they give are left out: none of the rejections
they lead to changes a row. A late payment is refused in a transaction that sets
the order to `expired` and is rolled back (`RefuseLate`): orders stay pending.

### Subscriptions: how a plan is fitted in

`SubscriptionTimeline` has the helpers of `buildSubscriptionTimeline` on sets of
slots instead of sorted lists of segments. What the code's normalisation merges
is an owner's run of slots; a lesser plan's slots that a grant takes come back
as pieces of their own, placed before those that still wait. Its hazards are the
comparisons of ends and beginnings, which slots keep: a segment that ends where
another begins, a cut in the middle, a gap that is too short.

The loop itself is steps of `Subscriptions`: `GrantSubscriptionOnTimeline` reads
the rows and queues the grant, each `Place` takes the head of `queue` and inserts
it into `segments`, and `ApplySubscriptionTimeline` writes what there is when the
queue is empty. The queue is a set whose pieces carry the round that displaced
them and the slots they had, which is their order (`IsHead`); of two pieces that
began together the code takes the one that its sort puts first, the model
either. As steps, the loop has an invariant that can be proved, which a recursive
operator has not. Nothing else reads or writes while a grant places (`Placing`):
the loop works on data of its own, so where the transactions of others fall
between its steps makes no difference to the rows they leave.

`Subscriptions` are the transactions of one user around it. `Begin` is the
statement that finds the rows (`FOR UPDATE`, or the administrator's `UPDATE`):
under READ COMMITTED it waits for the locks on them and sees their newest
version, but not rows inserted after it began. `Serialised` says that
transactions do not overlap, as with SQLite's single connection. `served` and
`revoked` are history variables: what each grant has given the user, and what
administrators took. Transactions take no time (`Tick` waits for them), so
`paidAt`, which the caller reads before, is the model's `now`. Rows without an
end (the free plan) are not represented: grants do not read them and any other
plan comes before them. Plans are neither switched off nor given another rank.

### ContentModeration: what becomes of one run's hits

The actors of one run: the request's goroutine (`handler`), the workers, which
call the moderation provider for one surface each (`task[s]`; a surface is a
text or a set of images of the question, `Input`, or of the answer), and
`cleanupLoop` (`recovery`). Each `phase` is where that goroutine is between two
database calls or locked sections.

| Variable | Code |
|---|---|
| `run.state` | `conversation_runs.moderation_state` |
| `run.user`, `run.withdrawn` | the user message has status `blocked`; the answer's text, attachments and traces are gone |
| `run.stale` | `updated_at` is older than the two minutes of `recoverStaleRuns` (`Age`) |
| `lastHit` | what `GetLatestHitEventByRunID` finds |
| `coord` | the `RunCoordinator`: `blockInfo`, `failedOpen`, `outputEnqueued`, `settled`, `blockHandled`, and whether it is in `Service.coordinators` |
| `pendingBlock` | the run's entry in `Service.pendingBlocks` |

Any database call may fail, and a write that reports an error may have been
committed (`Write`; at most `MaxFaults` times). If the moderation configuration
cannot be read, no check is made and the run fails open (`BeginRun`). A full
queue and an image that cannot be loaded are outcomes of starting a check; the
counters of queue and workers are left out. A check whose policy does not ask
for it stays `none`. Cancelling the generation after an input hit only changes
when the barrier is reached. `Crash` loses everything in memory; the successor
starts with an idle recovery loop and does not resume the request. The loop
does its two jobs one after the other; in the model it may do either whenever
it is idle, and the pass that `StartBackgroundWorkers` makes at once is one of
its turns. The user message is the run's own: runs that reuse an earlier one,
ephemeral runs, and a second process, whose coordinators
`HasActiveCoordinator` cannot see, are left out. `RecoverRunIfStale` has no
caller. Events and their encrypted contents are reduced to the latest hit;
deletion of files and expiry of events change none of these rows.

### FileProcessing: what becomes of an uploaded file

An upload marks its file `queued` and adds a message; a worker leases the
message, claims the file with the token of its attempt, extracts, embeds,
and settles the message, requeues it with the next retry count, or finishes the
file as `failed` and adds the message to the dead letters. Every call to the
database or the queue is a step of its own that may fail, or work with its
answer lost (`Answer`), and a process may crash between any two (`Crash`,
`CrashUpload`).

| Variable | Code |
|---|---|
| `status`, `attempt`, `active` | `processing_status`, `processing_attempt_id`, `status` of the file's row |
| `queue`, `lease`, `dead` | messages not read yet; who holds each message in flight; the dead letters |
| `upload` | where `InitializeUploadedFile` is |
| `pc`, `job`, `redelivered`, `result` | a worker in `handleProcessingMessage`: where it is, its message, `Reclaimed`, what `processFile` returned |
| `faults`, `overtaken` | history variables: what went wrong, bounded together by `MaxFaults` |

A message is its file and its retry count, an attempt's token its worker: see
the module. There is no clock. A message that nobody handles may time out at
any time; one whose handler still renews it does so only if that handler is
*overtaken*: it stalled for the 45 seconds of the lease. `overtaken` counts
these, and the two other ways of losing to a timeout: an uploader that takes a
queued message for a refused one, and `MarkTimedOutFileEmbeddingsFailed` while
the embedding goes on. The promise, `FileOutcome`, is made as long as nobody
was. What the code does afterwards, which TLC shows when `overtaken = 0` is
dropped from the properties:

- a slow worker whose message was claimed by another one takes the file from
  it; the other finds its attempt lost and *settles* the message. If the slow
  worker then ends without an outcome, the file stays in `extracting` without
  a message;
- a first delivery that was slow to claim may claim the file between the reset
  and the requeue of its successor, whose retry then finds it not claimable and
  settles it;
- `forceFinalizeFailed` writes `failed` in any case when the attempt is lost,
  also over a file another worker has just made ready;
- an uploader whose enqueue worked but whose answer was lost marks a file
  failed that a worker makes, or has made, ready.

Also outside the promise: an upload that dies between the row and the message
leaves a file in `queued` that nobody looks for again; and the message of a
deleted file is delivered every 45 seconds for ever, because `processFile` returns an
error without a claim and such a message is neither settled nor retried
(`MessagesEnd` excludes it). Deliveries again after a timeout do not count as
retries.

The queue modelled is the one in Redis, which survives its processes; the one
in memory does the same but is lost with its process. Its limit (`QueueFull`)
may refuse at any time, because it carries other files too. Embeddings asked
for later, with their own queue and their own rows, and processing without a
queue are left out.

### GenerationStream: who runs, and who may say so

An execution is a request that wants to run a generation. It claims the run in
the store, enters it in the registry of its process, generates, writes its
message, publishes a last event, and leaves the registry, whereupon the
stream is completed in the store. The worker that renews the lease, the
expiry of the run and the closing registry may remove it first.

| Variable | Code |
|---|---|
| `stream` | the keys of the run in the store: owner and conversation (`owned`), the lease (`exec`), the cancel marker, whose events are retained (`log`) |
| `phase`, `node`, `live` | where an execution's request is, its process, whether its context is not canceled |
| `message` | status of the execution's assistant message; `stopped` stands for error, interrupted and canceled |
| `final` | `finalizeGeneration`: tried, queued for a retry, done, or given up |
| `local`, `closed` | the run's entry in each registry; whether the registry has been closed |

The store is its Lua scripts, each atomic (`Claimable`, `Taken`, `Completed`,
`Abandoned`, `Appended`). A failing call may have taken effect (`Fails`).
`register` is modelled with all it does between its two critical sections, the
registry may close in between, and `Abandon` undoes a claim. Most duplicate
requests never get here, because `conversation_runs.run_id` is unique; the
registry's tests exercise it without that, and so does the model.

There is no clock here either. The lease (30 s, renewed every 10 s) expires
under an execution that renews it only by a *stall*, which counts among the faults;
under any other at any time. Ownership lasts two hours from the last renewal,
and the model lets it expire once no live execution renews: an execution that
has lost its lease learns so at its next renewal, and ends. The first three
attempts of a completion are one step. Events are reduced to whose they are.

What it leaves out: what a subscriber replays, the feed of active runs,
`resetCurrentEvents` and `cancelForced`. An answer that cannot be written ends
the run with an error (`AnswerLost`); if that cannot be written either, the code
logs it and goes on (`OutcomeLost`): the stream is completed, the message stays
pending until somebody cancels or resumes the run, and `unwritten` remembers it.
A process that dies leaves its message pending until a client asks for the stream. Two
things the model shows that no property states: a message that a cancel, or a
resume that met an error of the store, has set to its "stable terminal state"
(`repository.go:1172`) is overwritten when the run ends with an outcome of its
own, as `UpdateAssistantMessageCompletion` does not look at the status; and the
cancel marker may expire, after 15 minutes, before a silent upstream's next event.

### Not modelled, and why

- Channel routing and the circuit breaker. Its state is a handful of expiry
  times compared with the clock, with other lengths in Redis than in memory; a
  model without a clock would allow everything, and one with it is left for
  later. The two hazards are listed.

- Writing the bill to the message after settlement (`UpdateMessageBilling`) and
  the tasks after billing: they do not change the billing tables. If they fail,
  `Finish` returns an error although the run was settled.
- Requests without a run id: they are not idempotent and the code does not
  retry them.
- With `MonthSlip = TRUE` the model lets a run that was authorised in one month
  be billed in the next (`billing_at` is the start of the run, the reservation's
  period that of its authorisation). The runs use `FALSE`; 3. has the other one.
- Everything else in the inventory that has status `not_modelled` in
  `PROJECT.json`, with its reason there.

## 3. Plan

Done: `UsageBilling`, `UsageSession`, `Payments`, `Subscriptions`,
`ContentModeration`, `FileProcessing` and `GenerationStream`, all with proofs:
every safety property that a run checks is a theorem. Left, in this order:

1. `CircuitBreaker`: circuits with probes and a clock. Theorem: at most one
   live probe.
2. The run of `UsageBilling` with `MonthSlip = TRUE`.
3. A second process, and runs that reuse a user message, in `ContentModeration`;
   the free plan's rows, and plans that are switched off while subscribed, in
   `Subscriptions`; the embedding queue in `FileProcessing`.
4. The composition of `GenerationStream` with `ContentModeration` and
   `UsageSession`: one request from Begin to Finish.
5. That the loop of a grant ends. `PlacingGoesOn` proves that it is never stuck;
   that it does not go on for ever only TLC shows: `round` grows with every
   `Place`, so an endless loop would have endlessly many states.

## 4. Runs

| Run | Instance | Result and what it shows |
|---|---|---|
| `billing_usage` | 3 runs, 2 slots, lease of 2 ticks, renewals up to 1 tick late, amounts 1 and 2, deposits up to a balance of 2, usage mode | holds: `BalanceMatchesTransactions`, `FundsCoverHolds`, `LiveLeasesWithinSlots`, `ChargedOncePerRun`, `ReservationLifecycle` |
| `billing_period` | 2 runs, 2 slots, 2 months, plans of credit 1 and 2, both modes, amounts 0 and 2, deposits up to a balance of 2 | holds: `TypeOK`, `PeriodCreditNotOversold`, `DefaultShareLeavesRoom`, `GrantsAreCovered` |
| `sessions` | 2 requests with one run id, 2 attempts, 4 faults, renewals up to 1 tick late, costs 0 and 2, fairness | holds: `SessionTypeOK`, `FinishedRunAccountedFor`, `BilledWhatARunCost`, `OneHolderPerReservation`, `ImplementsBilling`, `LeasesEnd`, `FinishReturns` |
| `payments` | 2 orders, 2 handlers, 1 code, 2 users, limits 1 and 2, 3 redemptions, lifetimes of 1 tick | holds: `CreditedOncePerOrder`, `CodesNotOverdrawn` |
| `subscriptions_serial` | 4 orders (ranks 1, 1, 2, 3; 3, 2, 2 and 2 slots), 1 administrator's change, 8 slots | holds: `TypeOK`, `NoOverlap`, `PaidTimeKept`, `BestPlanInForce`, `BetterPlansStay` |
| `moderation` | one question, one answer, 2 faults, 1 crash, fairness | holds: `TypeOK`, `NoHitForgotten`, `PassedMeansChecked`, `ModerationEnds`, `KnownHitHidden`, `OrphanedHitHidden` |
| `files` | 1 file, 2 workers, 1 retry, 3 faults, fairness | holds: `FileTypeOK`, `NoFileLost`, `OneMessagePerFile`, `KeepsPromise`, `MessagesEnd` |
| `generation` | 2 executions, 2 processes, 1 fault, fairness | holds: `GenerationTypeOK`, `EventsOfOneExecution`, `OneRunner`, `LeaseKept`, `EndsStand`, `RunsEnd` |
| `period_overcharge` | 2 runs, 2 slots, one month, credit 2 | violated: `ReservationsDoNotChangeCharges` |
| `settlement_timeout` | 2 requests, no fault at all | violated: `FailedSettlementIsMarked` |
| `subscriptions_concurrent` | as `subscriptions_serial`, transactions overlap | violated: `PaidTimeKept` |
| `moderation_overwrite` | one question, one answer, no fault, no crash | violated: `BlockedUserMessageStays` |

**Bounds.** Three runs on two slots is the least in which a slot is taken by one
run while another one's lapsed; two runs are the least that compete for a
credit, two months the least that tell periods apart. A lease of two ticks is
the least that a renewal changes and that a renewal one tick late leaves alive;
one tick, in `billing_period`, the least that can lapse. With one tick of delay
a lease lapses, its slot is taken and its budget granted, and then it is
revived. Amounts 1 and 2 are a part and all of a budget. Amounts 0 and 2, in
`billing_period` and `sessions`, are a request for the default share, a deposit
or budget of 2 that is divided in shares of 1, and runs that cost nothing or
more than their share. Two limits let the plan change between two reservations
of a month (its limit is read outside their transactions); `MaxInt64` is small
enough (3 or 4) that credit and balance together saturate in `billing_period`.
`MaxBalance` stops deposits. `MaxExcess` is 0: administrators only raise the
balance, or clear a debt, in these runs; their cuts are covered by the theorems.
Charges are bounded by the runs, each of which posts once. Two attempts stand
for `usageBillingRetryAttempts`: first and last; with four faults the settlement
can fail on all of its attempts and then the mark on all of its own, or on none,
or on the first only. `sessions` uses usage-mode reservations. One run requested
twice is enough for what sessions do to each other; what other runs do to the
tables is any caller's business, in `UsageBilling`. Period mode differs only in
the arithmetic that `billing_period` checks, and the sessions' steps implement
`UsageBilling` (`SessionsImplementBilling`, proved).

In `payments` two handlers are the least that race for an order, one tick the
least that an order or a code can expire in, and three redemptions use up a
limit of two, by the same user or by two, and are one too many. In the subscription runs four
grants of three ranks can displace each other, be displaced again before they
are over and wait for an equal; eight of the nine slots they are granted can
pass, and every slot but the last be served.

In `files` one file is enough: files share nothing but the queue's order, and
a queue that carries others is `QueueFull` and a late `ReadMessage`. Two workers
are the least that are handed one message, one retry the least that is not the
last, and with three faults a delivery can crash, its successor fail, and
somebody be overtaken.

In `generation` the second execution is registered while the first one runs,
after it was removed, after it was completed, and after its process ended.
With one fault a claim's answer is lost, a completion fails, a lease is lost to
a stall, a write fails or a process dies. `MCBound` leaves out processes that
close with no execution in them, and the end of both processes, after which there
is nobody to ask. `e1` is the execution that is registered first and runs in
`n1`, because executions and processes are interchangeable.

In `moderation` one question and one answer are the least in which a late input
hit takes precedence over an output hit that was handled; with two faults a
withdrawal and its retry both fail; after a second crash nothing is in memory
that was not after the first.

**Symmetry.** Runs are interchangeable in the instances of `UsageBilling`. No symmetry is used where
liveness is checked.

**Deadlock** is not checked where the system really stops: in `billing_usage`
and the session runs every request may have ended,
every run settled and every deposit been made; in the subscription runs all
grants may be made and over; in the moderation runs a closed run is left alone;
in `files` and `generation` everything may be finished.

**Fairness** (`UsageSession`): time passes; a run ends, because every upstream
call has a timeout (`Finish` is weakly fair); and the calls `Finish` makes
return, because its retries are counted and its context expires. Nothing
obliges a request to begin, a renewal to happen, or a process to survive:
`Abandon`, `Renew` and `ContextExpires` are not fair.

**Fairness** (`ContentModeration`): the handler, each worker, either job of the
recovery loop, and time. All calls they make have timeouts (`background.WithTimeout`,
the provider's), the loop has a ticker of ten seconds, and its jobs return. A
run need not begin and a process not die: `BeginRun` and `Crash` are not fair.

**Fairness** (`FileProcessing`): a worker goes on with the message it has, because
extraction and embedding have deadlines and calls return; some worker reads a
queue that is not empty; and a message in flight that nobody handles is
delivered again. The last two are strong: a worker that is idle only between
messages delivered over and over (those of deleted files) comes to each of
them, because one that was delivered again waits its 45 seconds anew. The queue
in memory hands out the one that has waited longest. Redis hands out the idle
message with the lowest id, so there the assumption is that deliveries take less
than the 45 seconds in which those with a lower id come back.
Uploads, deletions and crashes are not fair.

**Fairness** (`GenerationStream`): a request that registers, generates or
returns takes its next step (upstream calls have time limits), and the workers
complete what was finalized. Requests, cancels, resumes, renewals that are
refused, and closing are not fair.

**Where code and comments disagree.** Each of the four violation runs states what
a comment or a test says of the code, and TLC exhibits what the code does.

- `ReservationsDoNotChangeCharges`: a comment in
  `AddPeriodUsageAndSettleOverage` says that reservations do not change the
  amount charged. They do: the credit that other runs have reserved is not
  available to the run that settles, which then pays from the balance, and gets
  nothing back when the others release theirs.
- `FailedSettlementIsMarked`: the comment on `Finish` says that a failed
  settlement with a reservation is marked for reconciliation. If it failed
  because its context expired, the mark is attempted with the same context and
  fails too, without a retry.
- `PaidTimeKept` with overlapping transactions: tests say that a second grant
  of the same tier begins where the first ends, and that displaced time is
  preserved. Two grants committed at the same time on Postgres do not see each
  other's rows, start both at once, and one is wasted. `subscriptions_serial`
  shows that the algorithm itself is right, and `NothingIsGivenTwice` that an
  overlap wastes time but never doubles it.
- `BlockedUserMessageStays`: a comment in `finalizeUserMessage` says that what
  the block path has written must not be overwritten, and a test that a late
  input block includes the user message. If the barrier times out and the input's hit comes
  late, the message is blocked and then set to success when the request ends;
  the run's state `blocked` is overwritten by `failed_open` in the same way. What
  does hold: the answer stays withdrawn (`KnownHitHidden`) and the run is never
  called passed.

One more, without a run: the comment on `UsageReservationMaxActivePerUser` says
it limits how many budgets one user occupies at a time. Marking for
reconciliation does not look at `expires_at`, and a late renewal looks at it with
the time of a while ago, so a run whose lease lapsed takes up a slot, and a
budget, again that were given away meanwhile. What does hold is
`LiveLeasesWithinSlots` for the leases that never lapsed, and `FundsCoverHolds`
for the budgets held without a break.

Each property of a passing run has a mutant in `PROJECT.json`: a plausible slip
in one definition (`Mut...`, next to the definition it replaces) for which the
run finds the property violated.

## 5. Theorems

All for arbitrary finite sets of runs and sessions, arbitrary sets of natural
amounts and limits, any number of slots, attempts and ticks. The assumptions
are the `ASSUME`s of `BudgetArithmetic`, `UsageBilling`, `UsageSession`, `Payments`,
`Subscriptions`, `ContentModeration`, `FileProcessing` and `GenerationStream`;
none says more than that the parameters are natural numbers and finite sets. Three
theorems about subscriptions have a hypothesis besides, `Serialised`: transactions
do not overlap. It is needed, as `subscriptions_concurrent` shows.

- **Sums.** `Sum(f, S)`, what SQL's `SUM` returns, is defined without recursion
  as the cardinality of the set of units that the rows stand for (TLC checks it
  against the fold of the community modules). `UsageBillingProofs` derives from the
  cardinality theorems that it is a natural number, splits off one element,
  depends only on the values, is monotone, and changes by one element's share
  when one row changes.
- **`TypeCorrect`**: `TypeOK` is inductive once the arithmetic is bounded:
  what `remainingNonNegativeBudget`, `minInt64` and the saturating addition
  return is what makes every part of a budget and of a charge non-negative.
- **`FundsAlwaysCoverHolds`**: `balance + excess >= ` the budgets that were held
  without a break, which are those of `Occupying \ reclaimed`. It is inductive
  together with `TypeOK`. A step either holds no more and takes from the balance
  no more than the run's own share of what is promised (`SettlementCovered`,
  `NothingMoreHeld`, `TickHeld`), or was admitted because it fits beside what the
  others occupy, which is at least what they were promised (`GrantCovered`).
  Late renewals and marks add nothing: what they claim again is `reclaimed`.
  `excess` is needed: settlements above the reservation, of a budget whose lease
  lapsed in between, or without a reservation, and administrators really take
  more than was held. It counts money taken and nothing else.
  **`NoDebtWithoutExcess`** is the corollary a reader wants: until such a
  settlement or correction happens, no interleaving leads to a debt, however many
  budgets late renewals revived.
- **`ChargedOnce`, `LifecycleKept`, `BalanceAlwaysMatches`**
  (`UsageLedgerProofs`, as the next three): a ledger entry is final and only its posting takes
  money; final states of a reservation are final and nothing is settled but
  with its entry; the balance is the sum of its transactions.
- **`SlotsAreKept`**, **`SharesLeaveRoom`**: no more runs hold a lease that has
  not lapsed since they were admitted than there are slots, because only an
  admission and a late renewal make a row live, the count of the one includes every
  live row, and what the other revives is `reclaimed`; and as long as a unit for each free slot is available,
  a default share is not empty and leaves one for each of the others (`ShareOfSlots`).
- **`CreditIsNotOversold`**: inductive with two facts about the tables
  (`CreditInv`): a row's limit is one that a plan grants, and an entry uses no
  more credit than it bills, in its own month. A settlement subtracts all that
  the period has billed, so what it covers fits next to what was covered
  before. Without `~MonthSlip` the second fact fails.
- **`GrantsAreKeptCovered`**: what is granted or raised fits next to everything
  that is held at that moment, in the balance and in the period's credit. The
  split of a budget into its two parts is what has to be shown: the credit part
  is limited by the credit, and the rest fits into the balance because the whole
  fits into both.
- **`SessionsImplementBilling`**: every step of `UsageSession` is a step of
  `UsageBilling` or leaves the tables alone. It needs the invariant that a
  session which settles carries the cost of a billable result (`SessionInv`).
  What is proved of all callers therefore holds of the sessions
  (`SessionFundsCoverHolds`).
- **`SessionTypeCorrect`**: sessions keep their types; in particular no retry
  loop passes its number of attempts.
- **`OneHolder`**: two requests with one run id never hold its reservation
  both. The invariant adds that a holder's row exists (`HoldersHaveRows`), which
  needs that rows are never removed (`RowsAreKept`).
- **`FinishedRunsAreAccountedFor`**: for any requests, runs, attempts and faults.
  `AccountInv` says, for each phase, what a session's reservation is while it
  gets there: active until its own settlement, mark or release, and afterwards
  settled with its cost, or to be reconciled. Two arguments carry it. No step of
  another session touches that reservation (`OthersAchieved`), which rests on
  `OneHolder` and on entries being final; and a mark that is given up without an
  expired context was the session's `Attempts`-th failed call of it
  (`RetryOrDone`, `GiveUpKeeps`), while a settlement given up leads to a mark that
  begins to count anew.
- **`RunsAreBilledTheirCost`**: only the settlement of a billable session posts
  an entry (`LedgerChange`), with the cost that session observed, which is
  written once (`CostIsKept`).

- **`CreditedOnce`**, **`CodesKept`** (`PaymentsProofs`): for any orders,
  handlers, codes and users. The first is inductive with the types, because the
  transaction looks at the status again. The second needs that a redemption's
  record is new and is counted once: every recorded number is below the count
  of its code (`RedemptionsNumbered`); and that a code not created yet counts
  none (`NewCodesUnused`).

- **`SubscriptionTypes`**, **`BetterPlansAreKept`**, **`PlacingGoesOn`**
  (`SubscriptionsProofs`, as the next four): for any set of grants, any
  ranks and durations, whether or not transactions overlap. `TypeInv` says that
  the loop works on finitely many slots, that a grant displaces only lesser
  plans, so that all that is in the queue is lesser still, and hence that a better
  row has the slots it had when the grant read the timeline.
- **`NothingIsGivenTwice`**: however transactions overlap, what a grant served,
  has left, and lost to an administrator is at most its duration. It
  counts segments, not slots, because rows may then share a slot
  (`OverlapInv`). A piece that is placed goes into as many slots as it had
  (`PlacementConserves`), and a grant rewrites only the rows it read.
- **`PlansDoNotOverlap`**, **`PaidTimeIsKept`**, **`BestPlanIsInForce`**: with
  `Serialised`. `SerialInv` says of the timeline that no two rows share a slot
  and that from now on only same or better plans come before a plan (`RowsInv`), and of the loop's own copy
  that there is no room before a piece that is still in the queue
  (`SegmentsInv`), which is why the next piece in the order of ranks goes where
  it should; that nothing is lost between the copy, the queue and the
  rows (`Conserved`); and that rows to be written do not exist yet (`NotYetMade`).

- **`PassedRunsWereChecked`** (`ContentModerationProofs`): for any surfaces and
  any number of faults and crashes, a run recorded as passed has no check that
  failed, was lost, or has not reported. `CheckInv` carries it from the
  coordinator to the rows: a failure before the barrier settles leaves
  `failedOpen`, a settled coordinator without it has no check under way, and a
  handler whose verdict is passed comes from such a coordinator.
- **`HitsAreNotForgotten`**: between the report of a hit and the withdrawal of
  the answer there is always someone who is still going to withdraw it. `HitInv`
  adds who owns the hit where ownership passes from one to the other: a hit
  reported before the barrier is in `blockInfo`, one after it was taken as late
  or found a block already handled; and whoever removes the pending block has
  withdrawn the answer before.

- **`FileTypes`**, **`OneMessage`**, **`NoFileIsLost`**,
  **`KeepsPromiseSafely`** (`FileProcessingProofs`): for any files, workers,
  retries and faults. `OneMessage` is inductive once it is known that a worker
  handles what it was handed (`JobsFit`) and that a file's messages begin with
  its upload (`QueueInv`). The other two need to know what a worker that is
  about to settle, requeue or bury its message may rely on: as long as nobody
  was overtaken, a worker past its claim holds both the message and the attempt
  (`Calm`), and so the last message of a file leaves the queue only when the row is
  finished. `KeepsPromiseSafely` is the refinement: every step
  of `FileProcessing` is a step of `FileOutcome` or leaves its outcome alone.
- **`StreamInvariant`** (`GenerationStreamProofs`): for any executions, processes
  and faults. Besides the types and `EventsOfOneExecution` it says what each
  place of an execution implies (`Entries`: it generates only while registered;
  once finalized it is neither live nor registered; its message is pending only
  while it generates, before its outcome is written, after that write failed, or
  after its process died)
  and that a live execution that claimed the stream and has not left it owns
  it, alone (`Owners`).
  From it follow **`OneRunnerAtATime`**, **`OneExecutionsEvents`**,
  **`LeaseIsKept`** and **`EndsDoStand`**. It rests on what the module assumes
  of time: ownership outlives an execution that renews it.

Only model-checked: the liveness properties `LeasesEnd`, `FinishReturns`,
`ModerationEnds`, `KnownHitHidden`, `OrphanedHitHidden`, `MessagesEnd`,
`RunsEnd` and the fairness in `KeepsPromise`
(liveness under fairness is outside what is proved here), and that the loop of
a grant ends.

## 6. Running

```
tlc -workers 2 -config MCUsageBillingUsage.cfg MCUsageBilling
tlc -workers 2 -config MCUsageSessionAll.cfg MCUsageSession
tlc -workers 2 -config MCPaymentsAll.cfg MCPayments
tlc -workers 2 -config MCSubscriptionsSerial.cfg MCSubscriptions
tlc -workers 2 -config MCContentModerationAll.cfg MCContentModeration
tlc -workers 2 -config MCFileProcessing.cfg MCFileProcessing
tlc -workers 2 -config MCGenerationStream.cfg MCGenerationStream
tlapm UsageSessionProofs.tla
tlapm SubscriptionsProofs.tla
```

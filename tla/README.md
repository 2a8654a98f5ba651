# TLA+ specifications of the zsyq backend

zsyq (智算引擎) is a gateway in Go that resells access to AI providers: it holds
upstream accounts, schedules requests on them, meters and bills usage, and sells
balance and subscriptions through payment providers. The code is under
`src/backend/internal`: `handler` (HTTP), `service` (logic), `repository`
(PostgreSQL and Redis), `payment` (providers).

These specifications follow the money and the requests: the payment order from
creation to refund, the idempotency records that protect other side-effecting
requests, and then a request to the gateway from its place in the queue to the
charge for it, with the two caches it depends on, that of OAuth tokens and that
of the scheduler. Several servers, goroutines and background jobs work on the
same rows and keys, the only synchronisation is the `WHERE` clause of an
`UPDATE` or a Redis script, and any command can fail after it took effect.

## 1. Inventory

| Component | State | Operations | Hard parts |
|---|---|---|---|
| Payment orders (`payment_order.go`, `payment_fulfillment.go`, `payment_order_lifecycle.go`, `payment_webhook_handler.go`) | `payment_orders`, redeem codes, `payment_audit_logs`, the payment at the provider | create, callback, verify, cancel, expiry job, retry, fulfil | callbacks resent and concurrent, crash between statements, failure after commit, grace period |
| Refunds (`payment_refund.go`) | the same order; balance or subscription; refunds at the provider | request, prepare, execute, roll back, restore | unconditional updates, lost provider answers, rollback that fails |
| Idempotency (`idempotency.go`, `idempotency_repo.go`, `idempotency_cleanup_service.go`) | one row per scope and key | execute, reclaim, mark, clean up | reclaim races, expiry, crash in processing |
| System operation lock (`system_operation_lock_service.go`) | one row of the same table; a renewal goroutine per holder | acquire, renew, release | lease against renewals, takeover |
| Redeem codes, subscriptions, affiliate rebates | codes, `expires_at`, quotas | redeem, assign or extend, revoke, accrue | read-modify-write outside the transaction |
| Concurrency slots (`concurrency_service.go`, `concurrency_cache.go`) | Redis sorted sets with a TTL, wait counters | acquire, release, wait, clean up at start | slots of dead and of slow requests, commands that fail open |
| Request handling (`gateway_handler.go`, `gateway_helper.go`, `failover_loop.go`, `gateway_service.go`) | slots a handler owes, accounts it excluded, sticky bindings, sessions per account | queue, select, wait, forward, fail over, answer | a slot given back on every path, disconnects, half-written streams |
| Usage billing (`usage_billing_repo.go`, `usage_record_worker_pool.go`, `main.go`) | dedup rows and archive, balances, quotas, the pool's queue | submit, apply, archive, shut down | duplicates across the archive, failed commits, full queue, quota events that are suppressed, forced exit |
| Billing cache (`billing_cache_service.go`, `billing_cache.go`) | cached balance, queue of writes, shared load, circuit breaker | check, load, deduct, invalidate | writes out of order, half-open breaker, a send on a channel that Stop closes |
| OAuth refresh (`oauth_refresh_api.go`, `token_refresh_service.go`, `claude_token_provider.go`, `gemini_token_cache.go`) | credentials in the database, one-time refresh token at the provider, lock with a TTL, cached token | refresh if needed, invalidate, get token | lock without owner, token spent and not stored, stale token cached |
| Scheduler snapshot (`scheduler_snapshot_service.go`, `scheduler_cache.go`, `scheduler_outbox_repo.go`) | outbox, watermark, versioned snapshots per bucket, cached accounts, bucket locks | poll, rebuild, activate, load on a miss | late commits, dedup window, rebuilds that skip, unlocked loads |
| Protocol conversion, authentication, ops, settings, frontend | | | not modelled, see section 8 |

How they interact: `HandlePaymentNotification` and `checkPaid` call
`confirmPayment`, which calls fulfillment, which calls `RedeemService.Redeem` or
`SubscriptionService.AssignOrExtendSubscription` and the affiliate service.
`PaymentOrderExpiryService` calls `cancelCore`, which queries the provider and
may find the order paid. Refunds take the order over once it is COMPLETED. The
idempotency coordinator and the system lock share the table
`idempotency_records` and its repository, and the cleanup job deletes from it.
A request to the gateway is admitted by the billing cache, takes a slot of its
user and of an account the scheduler snapshot offers, obtains the account's
token, is forwarded, and submits a usage record; the charge lowers the cached
balance and, when it crosses a quota of the account, writes an outbox event
(unless one of the account is younger than a second).

What makes each correct: an order is delivered once and only for its payment,
and a recorded payment is not lost; a refund is paid once, and the benefit is
deducted once and given back exactly when the refund failed; a key's side effect
happens once and replays are of the same request; system operations exclude one
another. A limit holds for requests in flight and slots come back; a request is
answered once and ends; usage is charged once per key and not lost; a user with
money is served; a refresh token is presented once; every snapshot becomes
current. `PROJECT.json` lists the hazards, each with its line and the properties
that would catch it.

## 2. Modules

| Module | Models |
|---|---|
| `OrderStatus` | the statuses of an order and the moves of the refund flow |
| `PaymentPromise` | what a payer is promised: captured at most once, delivered at most once, only if captured |
| `PaymentFulfillment` | orders up to delivery, with the refund flow as environment |
| `PaymentRefund` | the refund of one delivered order |
| `IdempotencyStore` | one row of `idempotency_records` and the repository's statements on it |
| `Idempotency` | `IdempotencyCoordinator.Execute` on that row |
| `SystemLock` | `SystemOperationLockService` on that row |
| `ConcurrencySlots` | the Redis scripts on slots and wait counters |
| `GatewayRequest` | the Messages handler on those: queues, selection, forward, failover (extends `ConcurrencySlots`) |
| `BillingLedger` | what billing promises: a key is charged at most once, and its cost leaves the balance in the same step |
| `BillingCache` | the cached balance, its write queue, the shared load and the circuit breaker |
| `UsageBilling` | usage records through pool, transaction, archive and shutdown (extends `BillingCache`, implements `BillingLedger`) |
| `OAuthRefresh` | the OAuth credentials of one account, its locks and its token cache |
| `SchedulerSnapshot` | outbox, watermark, snapshots and rebuilds |
| `MC...` | model values, configurations and symmetry for TLC |
| `...Proofs` | inductive invariants and theorems |

**Steps.** One action is one statement, transaction or provider call; between
two of them every other process may run. A process (worker, admin, request,
operation) has a program counter `pc` named after its next statement and the
local values the code carries across: the order it serves, the status it read,
the time it read. When it returns, these are reset.

**Failures.** A statement ends `ok`, `lost` (an error and no effect) or `late`
(an error after the effect was committed: a cancelled request context, a broken
connection, a failed read after the commit in the same call). `Crash` ends a
process between two statements. `lost`, `late` and `Crash` each count as one
fault, and `MaxFaults` bounds them. Errors that the code ignores are ignored in
the model too.

**`PaymentFulfillment`.** `CreateCount` and `CreateInsert` are the two halves of
`createOrderInTx` (the transaction takes no lock between the count and the
insert); `MaxOrders` bounds how many are opened in a behaviour; `InvokeOk`, `InvokeFail` and `CreateFail` are `invokeProvider` and the
unconditional FAILED after it. `WebhookStart`, `RetryStart`, `CancelStart`,
`ExpireStart` and `VerifyStart` begin a request. `Query`, `Persist` and `Close`
are `checkPaid`; `CancelUpd` is the conditional update of `cancelCore`.
`Confirm`, `ToPaid` and `Already` are `confirmPayment`, `toPaid` and
`alreadyProcessed`; `Exec` and `Lock` the checks and the update to RECHARGING.
`Lookup`, `CreateCode`, `Redeem` and `Rebate` are `doBalance`; `SubCheck` and
`Assign` `doSub`; `Complete` and `Audit` the two statements of `markCompleted`;
`Fail` is `markFailed`; `Reset` the update of `RetryFulfillment`. Payer and
clock are the environment: `Pay` (the right amount or not), `TimesOut`,
`GraceElapses`. `fresh` says whether `updated_at` is within the grace period;
every update of the row renews it, as the ORM does. `RefundMoves` lets the
refund flow make any move `RefundStep` allows; that it makes no other is
`OnlyRefundSteps` of `PaymentRefund`, which is proved: the two specifications
are checked apart and meet in `OrderStatus`.

**`PaymentRefund`.** `RequestStart`/`RequestUpd` are the user's request,
`Prepare` is `PrepareRefund`, the rest `ExecuteRefund` and what it calls, in
its order. The kind of the order is in `sub`, which is "none" for a balance
order, and both kinds are initial. `taken` counts deductions made and not given back, `refunds` those
the provider executed. An amount is only partial or full, and there is
something to deduct or not. A subscription is long enough for the deduction,
would expire by it, has expired, or was deleted.

**`IdempotencyStore`.** The columns of the row are variables, so that the two
users of the table share the statements. A NULL lock is time 0. Ids are not
reused. Each `WHERE` clause is an operator of its own.

**`Idempotency`.** `Execute` of the code from the insert to the mark. A request
reads the clock once, as the code does, and uses that time for its lock, its
expiry and its comparisons. `ExecutionExclusive` and `SucceedsOnce` are stated
until the row first expires and while no request outlives the TTL; what happens
after is in section 6. A key is served by one row, so one key is
modelled. Requests without a key do not reach the store.

**`SystemLock`.** `Create`, `Get` and `Reclaim` are `Acquire`; `Renew` is one
tick of `renewLoop`; `Release` is `Release` with either outcome of the
operation. `Release` closes the stop channel without waiting, so a tick that is
due may follow it (`Released`). `OnTime` keeps the clock from passing a due tick
and from passing an `Acquire` by more than `Stall`; without such an assumption a
lease means nothing. `lapsed` records that a lease ended under its holder.

**Configurations.** The next four modules have a variable `config` that is
chosen in `Init` from the constant `Configs` and never changes. A configuration
says which processes take part, which hazards are switched on and how far the
bounds go, so that one run adds up several small state spaces.

**`ConcurrencySlots`, `GatewayRequest`.** A Redis script is atomic and so one
operator on one key. There is no clock: a slot may expire at any time, and one
that expires in use marks its request `lapsed`. A request follows
`gateway_handler.go` (Messages): `Count`, `AcquireUser`, `Uncount`, `Billing`,
then `SelectAccountWithLoadAwareness`: the sticky account (`SelectSticky` to
`StickyPlan`, layer 1.5), the accounts with room (`Load`, `Pick`, `Session`,
`Bind`, layer 2), a plan to wait (`QueueUp`, layer 3), and `Hydrate`. Then
`CountAccount` to `BindAfterWait` where there is a plan, `Forward`, `Release`,
and what the loop makes of the result (`HandleOutcome`,
`HandleFailoverError`, `UseFallback`, `Exhausted`). Which accounts qualify and
in which order they are tried is left open. A command on the request's context
fails at once when the client is gone; releases and decrements have a context
of their own. A registered session that is idle may expire. `wrapReleaseOnDone` is `ReleaseUserOnDone` and
`ReleaseAccountOnDone`, beside the handler. Failed commands, disconnects, slots
that expire in use and restarts are disturbances, counted and bounded.

**`BillingCache`, `UsageBilling`.** A request passes the breaker and the balance
check (`Check` to `CheckDone`; a miss joins the load that is running, as
singleflight does), is forwarded and submits its record, which the pool runs,
the caller runs when the queue is full, or the handler's fallback runs when the
pool is stopped (`Submit`). `Claim`, `ReadExisting`, `ReadArchive`, `Apply` and
`ApplyFails` are one transaction: an uncommitted key makes another insert of it
wait (`Holds`). `Cleanup` moves a key to the archive. The increment that crosses
the account's limit calls `enqueueSchedulerOutbox`, which writes the event unless
one of the account is younger than a second: `account.recent`, set by the
crossing itself and by `AccountChanges`, reset by `WindowPasses`; `account.notice`
keeps which of the two happened.

Cache writes are queued, and with several workers performed in either order.
`enqueueCacheWrite` is two steps, as it checks `stopped` before it takes the lock
and sends: `CheckStopped` and `Send` for a deduction, `LoadSends` and `LoadDone`
for a load. A full queue or a stopped service leaves a deduction to its caller
(`DeductBalanceCache`); a load drops its write. `Stop` is three steps
(`StopCache`, the variable `channel`): `stopped` is stored, the channel is
closed, and it becomes nil when its workers have emptied it. A send on the closed
channel panics: `execute` (`usage_record_worker_pool.go:304-318`) or the
handler's own recover ends the record (`panicked`), and singleflight raises it in
every request that waits for the load, which the recovery middleware refuses
(`LoadPanics`).

`Sigterm`, `Drained`, `Forced`, `StopPool`, `StopCache` and `Exit` are `main.go`
and `provideCleanup`, whose two `Stop` calls run side by side. `ws` marks a
connection that was hijacked and that `Shutdown` does not wait for: a WebSocket,
or an h2c connection.

**`OAuthRefresh`.** Credentials are numbered as the provider issues them; a
refresh token is good only while it is the newest. `LockLocal` to `Return` are
`RefreshIfNeeded`, called by `ListActive` (the background loop) and
`GetAccessToken` (a request, whose account object may be old). The lock has no
owner: `Return` deletes it whoever set it, and `LockExpires` may end it under a
live holder, as a fault. `Reauthorize` is the administrator's new authorization
of an account in error, taken to happen while no worker is at it.

**`SchedulerSnapshot`.** `Change`, `UpdateCredentials`, `Delete`, `AutoPause`,
`UpdateLastUsed` and `CrossQuota` stand for the repository's methods by what
they write: a row, an event or none, the account in Redis or not. An event has
its id when it is inserted; only `CrossQuota` inserts in a transaction that
commits later. That autocommitted inserts become visible in the order of their
ids is an assumption. `Poll`, `ListAfter`, `HandleEvent` and the steps after it are
`pollOutbox`; `TryLockBucket` to `Unlock` are `rebuildBucket`, and `Fallback`
takes the same steps without the lock. A batch is the set of its ids, taken
smallest first. Of version numbers only the order is kept: `newer` relates the
writers whose version is above the active one, in the order of their versions.

## 3. Runs

Sizes are distinct states. Passing runs:

| Run | Instance | Properties | States |
|---|---|---|---|
| `fulfillment` | a balance and a subscription order of which one is opened, 2 workers, 1 fault, `FairSpec` | `FulfillmentExclusive`, `DeliveredMeansGranted`, `ExtensionsWithinFaults`, `NothingWithoutPayment`, `PaymentSurvives`, `DeliveryIsFinal`, refinement `PromiseSpec`, `PaidIsSettled` | 226 392 |
| `refund` | 2 admins, either kind of order, 2 faults, `FairSpec` | `RefundExclusive`, `RefundsWithinFaults`, `DeductionsWithinFaults`, `OnlyRefundSteps`, `RefundEnds` | 67 674 |
| `idempotency` | 2 requests, 2 payloads, TTL 3, clock to 4, 1 fault | `ReplayIsOwn`, `ExecutionExclusive`, `SucceedsOnce`, `SuccessIsKept` | 337 872 |
| `system_lock` | 2 operations, lease 6, renewal 2, TTL 7, stall 1, clock to 9, 1 fault | `LeaseExclusive`, `CreatorIsRenewed` | 29 988 |
| `gateway` | 2 requests of 2 processes on one account (one of them bound to it, or not) with a disturbance, and one request failing over between 2 accounts and a fallback group, `FairSpec` | `LimitRespected`, `SlotsAreReleased`, `QueuesBounded`, `CountersAreReturned`, `OneAnswer`, `ComesToRest` | 394 376 |
| `billing` | 2 or 3 records, eight configurations (`MCUsageBilling`), `FairSpec` | `TypeOK`, `SkippedWasCharged`, `QuotaNoticed`, `CacheTracksBalance`, `ProbeUnderWay`, `GracefulShutdownKeepsUsage`, refinement `LedgerSpec`, `UsageSettles`, `MoneyIsAdmitted` | 127 283 |
| `oauth` | 2 processes, 2 loops (one with a second attempt) and a request, 3 versions, 1 fault, `FairSpec` | `OneRefresher`, `NoReplay`, `DueIsRefreshed` | 222 053 |
| `scheduler` | up to 2 accounts, 2 buckets, 4 threads, 2 changes, six configurations (`MCSchedulerSnapshot`), `FairSpec` | `WatermarkBehindHandled`, `LockOrdersLoads`, `SnapshotCatchesUp` | 287 534 |

**Bounds.** Two workers, or two admins, are enough for every race of two parties
on one row; a process that has returned starts again, so a third party's request
is also covered when it does not overlap both. `fulfillment` and the later runs
allow one fault because they check liveness on the same instance; `refund`
allows a failure and a failure of its recovery, and the theorems of section 5
remove the bound for every safety property of every passing run. Orders of one
user share only the pending count, so opening one order, of either kind, is
enough for what happens to an order. The clocks run past one expiry of the row
with backoffs before it (`idempotency`), or past one lease with a missed renewal
(`system_lock`).

`gateway`: two requests fill a limit of one and a queue of one, so that every
refusal and every wait happens; failover needs a second account and one
switch to exhaust, and one retry of the same account. `billing`: three records
are two with one key and a third with another fingerprint, or two that cross a
quota with one after the period ends; a queue of one place and a breaker that
opens at the first failure reach the limits at once; a hijacked request and the
pool's records are under way while `Stop` closes the channel, with a cold cache
for the load and a warm one for the deduction. `oauth`: three versions are
the first, the one a racing worker misses and a successor; two processes are
needed since the local mutex keeps one in order. `scheduler`: two processes with
a poller and a rebuilder race for a lock, two buckets share an account, a batch
of one event splits a poll.

Processes are symmetric where no liveness is checked. Deadlock is not checked
where finitely many orders, records or a bounded clock make a stop a normal end;
in `scheduler` and `late_event_skipped`, where the pollers never end, it is.

**Violations.** Each shows that the code does not keep a sentence of the
repository; `PROJECT.json` quotes it.

| Run | Property | What happens |
|---|---|---|
| `acked_unhandled` | `AckedMeansHandled` | an error of the read in `confirmPayment` is answered with success, and the provider stops resending |
| `usage_lost` | `ShutdownKeepsQueue` | `log.Fatalf` after a timed out `Shutdown` skips the deferred cleanup, and with it the pool's queue |
| `stale_token_cached` | `StaleNotCached` | a refresh falls between the version check and the write of the cache |
| `late_event_skipped` | `NothingSkipped` | the watermark passes the id of an event that has not committed |

Every property of a passing run has a mutant in `PROJECT.json`: a definition
changed as a plausible slip would change it, with which TLC finds the property
violated. The mutated forms stand before the definitions they replace.

## 4. Fairness

`PaymentFulfillment!FairSpec`: weak fairness of every worker's next statement
(a goroutine that can run does), and strong fairness of a callback for an order
none of whose callbacks was acknowledged (providers resend until they see
success; strong because all workers may be busy now and then). Nothing is
assumed of payers, polls, the expiry job, admins or retries. `PaymentRefund!FairSpec`:
weak fairness of every admin's next statement. `PaidIsSettled` and `RefundEnds`
promise progress only until a fault happens: after a crash in RECHARGING or
REFUNDING nothing can. `Idempotency` and `SystemLock` state no liveness.

`GatewayRequest!FairSpec`: a handler takes its next step, where its wait timers
and the upstream's timeout are steps; Redis drops a slot nobody holds and an
abandoned wait counter; a starting process finishes its cleanup. Not assumed:
that a slot is ever granted, or that a client goes away.

`UsageBilling!FairSpec`: goroutines run, a statement ends, the TTL of the cached
balance and the breaker's timeout pass, an invalidation that is due happens, and
the steps of a shutdown follow each other. A refused client tries again, since
`MoneyIsAdmitted` speaks of what it then finds. The insert of a key is strongly
fair: PostgreSQL queues those that wait for a row.

`OAuthRefresh!FairSpec`: the background loop lists due accounts again and
again, calls return, and TTLs pass. Strong fairness of the mutex (Go's mutex
does not starve a waiter) and of the lock's expiry, which loops taking the lock
in turn might otherwise put off.

`SchedulerSnapshot!FairSpec`: threads go on, the tickers of the poller and of
the full rebuild fire, and the lock of a dead holder expires. Requests, the
outcome of the lag check and changes are left to chance; `SnapshotCatchesUp`
rests on the full rebuild and not on a lucky event.

## 5. Proofs

TLAPS checks every theorem for all values of the constants: any sets of orders,
workers, admins, requests, accounts and payloads, any times, limits and
configurations, any number of faults. In each module an inductive invariant
`IInv` is shown to hold initially (`InitIInv`), to be kept by each action (one
lemma per action) and so by `Next` (`NextIInv`, in the gateway `NextKeeps`); the
theorems follow from it.

**`PaymentFulfillmentProofs`** (from `SubOrders \subseteq Orders`,
`NoOrder \notin Orders`, `MaxPending`, `MaxOrders` and `MaxFaults` in `Nat`). `FulfillmentExclusive` is not
inductive: a second worker is kept out because the status stays RECHARGING while
one is inside, so `WorkerInv` ties each position to the status and the payment
of its order. Two cases need care. A `late` completion leaves the worker at
`fail` with a delivered order, so `fail` allows both; and FAILED is shared by an
order that never opened and one whose fulfillment failed, so `WorkerInv` and
`CreatorExclusive` show that the unconditional FAILED of a creation meets no
payment. `BalanceInv` makes `granted` a function of the code,
`SubscriptionInv` and `FulfillingInv` count extensions against faults.
Theorems: `TypeCorrect`, `Exclusion`, `Delivery`, `SingleRebate`,
`PaymentFirst`, `PaymentKept`, `ExtensionBound`, `FinalDelivery` (an action
property) and `KeepsPromise`, the refinement of `PaymentPromise`: each action
maps to `Capture`, `Deliver` or a stutter.

**`PaymentRefundProofs`** (from `MaxFaults \in Nat`).
`RefundExclusive` is inductive with the types. `RefundCount` and
`DeductionCount` bound refunds and deductions by faults, more tightly where the
order is refundable again; `Deducted` ties a plan's deduction to `taken`;
`FaultFreeBalance` says which positions are reachable without faults. Theorems:
`RefundTypeCorrect`, `RefundExclusion`, `RefundBound`, `DeductionBound`,
`RestoredWhole`, `RefundStepsOnly`.

**`IdempotencyProofs`** (from positive times, a non-empty set of payloads).
`OwnRow`: ids are not reused and a row never changes its fingerprint, so a
remembered row is one of the request's payload, which with `StoredIsOwn` gives
`ReplayIsOwn` without any assumption on time. `InFlight` and `HoldsRow` give
exclusion until the first expiry, `StaysDone` that a success, recorded or not,
keeps the row from being claimed. `SuccessIsKept` follows from them step by step:
a Mark statement needs no status of the row it finds by id, but before the first
expiry whoever is about to execute one holds that row in processing. Theorems:
`IdempotencyTypeCorrect`, `OwnReplay`, `ExclusiveExecution`, `SingleSuccess`,
`RecordedSuccessKept` (an action property).

**`SystemLockProofs`** (from `Lease <= TTL`, `Stall + RenewInterval < Lease`).
`Prompt` is what `OnTime` keeps true, `HoldsRow` gives exclusion before the
first lapse, and `LoopRuns` bounds how far the next renewal of a creator is
from the end of its lease, one interval later for every fault. Theorems:
`SystemLockTypeCorrect`, `ExclusiveLease`, `FirstLapse` (an action property).

**`GatewayRequestProofs`** (from `GatewayAssumption`: the user is not an account,
every request has a session and a process, configurations have their types).
None of the properties is inductive. `LimitRespected` counts requests and
the script counts members of a Redis set, so `HeldOK` says that the slot a request
will release is still in the set unless it lapsed: the users of a key then map
injectively into its slots, of which `StoreOK` says there are no more than the
limit. For that `SlotsOK` ties every label of the handler to the slots it holds,
and with it `SlotsAreReleased` (`OrphansOK`) is kept: a step leaves a slot behind
only where it counts a failure. `QueuesBounded` needs more than the counter: a
request whose client is gone will join a queue without being counted, so
`QueueOK` bounds the queue together with those that can still do so (`MayJoin`)
by the counter and the disturbances. `AnswerOK` says what was delivered and billed
at every label. The steps of a request are many and differ little in what they do
to this state, so `Moves` summarises a step by its effect on slots (`SameSlots`,
`Takes`, `Leaks`, `Gives`) and on queues (`Stays`, `Joins`, `Unjoins`),
`StepKeeps` shows that any such step keeps `IInv`, and one lemma per action shows
that it is one; expiries, cancellation and restart have lemmas of their own.
`CountersAreReturned`, the opposite bound, is proved over `IInv` in a second
induction: `Counted` is kept because a step either takes nobody out of a queue
(`Elsewhere`, `Within`), or changes the counter with the queue, or counts a
failure (`CounterEffect`). Theorems: `TypeCorrect`, `LimitsHold`, `SlotsReturn`,
`QueuesKeepTheirBound`, `CountersReturn`, `ClientsGetOneAnswer`.

**`UsageBillingProofs`** (from `ConfigsOK`: costs and bounds are natural
numbers; workers, queue size, breaker thresholds and the account's limit are
positive; every record has keys and a cost). `HeldOK` says that a transaction past its claim found
the key in neither table and that no other has it, which makes `ChargesOK`
inductive: a key is recorded in `usage_billing_dedup` or its archive if and only
if it was charged, and then once. `SkippedOK` and `ProbeUnderWay` are inductive
with the types (the channel never reopens: `ChannelSteps`), `QuotaNoticed` with
`AccountOK`: without other events and other periods no event is recent before the
limit is reached. `QueueOK` and `StopOK` say that a shutdown that is
allowed to clean up ends with an empty queue and no running worker.
`CacheTracksBalance` sums the deductions in the write queue, those of records
about to queue theirs and those of records whose send panicked; `TrackOK` adds
to it that, while nothing failed and
nothing was credited, nothing is loaded into the cache, only deductions are
queued, and finitely many records are about to queue one. The section "Sums"
proves what `SumFunction` and `SumFunctionOnSet` of the community modules add up
to, for any finite set: that a sum does not depend on the order in which the fold
chooses, and what taking or adding one element does to it. These are inductions
over data; the library's induction theorems take an operator, so the lemmas state
the claim as membership in a set and take the least counterexample of that set
(`NatInd`, `SubsetInd`, from `WFMin`). Theorems: `TypeCorrect`,
`SkipsWereCharged`, `QuotasAreNoticed`, `CacheIsExact`, `BreakerIsProbed`,
`ShutdownSettles` and `ImplementsLedger`, the refinement of `BillingLedger`: the
commit of a charge maps to `Charge`, a credit to `Credit`, all else to a stutter.

**`OAuthRefreshProofs`** (from `ConstantsOK`: workers have processes, at least one
attempt and one version). `NoReplay` holds until the first fault because what a
worker read under the lock is still the newest version when it presents it:
`ReadHolds`. It is inductive only with exclusion, which `OwnsMutex` gives within a
process whatever fails, and `OwnsLock` across processes: the lock in Redis
names no owner, so `OwnsLock` says that it exists as long as somebody believes to
have it, and that only one does. Theorems: `TypeCorrect`, `TokensAreNotReplayed`
and `RefreshersExclude`, the exclusion itself (`OneRefresher`).

**`SchedulerSnapshotProofs`** (from `SchedulerAssumption`: there is an account and
a bucket, the kinds of thread are disjoint). `WatermarkBehindHandled` depends on
what every poller has read, since all of them write the one watermark:
`CursorOK` says that a poller handled all up to the id it will write, and that
what is below an id of its batch was handled or is in the batch. `LockOrdersLoads`
needs that what the holder of a bucket's lock loaded is not older than the active
snapshot (`RebuildOK`), as long as the lock was not overrun and nobody rebuilds
without it. Theorems: `TypeCorrect`, `NoEventSkipped` and `LoadsAreOrdered` (an
action property).

The type invariants of all modules but `UsageBilling`, `SingleRebate`
(`RebateOnce`) and `RestoredWhole` (`RestoredMeansWhole`) are proved and have no
place in a run any more.

**Only model-checked:** the liveness properties `PaidIsSettled`, `RefundEnds`,
`ComesToRest`, `UsageSettles`, `MoneyIsAdmitted`, `DueIsRefreshed` and
`SnapshotCatchesUp` (liveness under fairness is beyond the prover), and the four
violations, which are counterexamples.

## 6. What the properties do not say

A `late` or `lost` statement is a fault whatever its cause; the specifications
do not say how likely one is. Amounts are abstract, so rounding and fees are not
covered. `ExtensionsWithinFaults` counts extensions of one order; whether two
orders of one user extend the same subscription correctly is left to the planned
`Subscription`. A renewal reads the clock and updates the row in one step, so a
renewal delayed within its two-second timeout is not covered.

`LimitRespected` leaves out requests that outlived the TTL of their slot or lost
it to the startup cleanup of another process, and `QueuesBounded` and the upper
bound of `CountersAreReturned` the time after a restart, which deletes the counters: the code accepts both.
`SlotsAreReleased` allows for the selections that failed after they had a slot
(`dropped`), and `NoReplay` for any fault.

Some consequences of the code are in the models without a run that reports them:

- Two creations may both count the user's pending orders before either inserts,
  so the pending limit can be passed.
- A payment that arrives beyond the grace period is only written to the audit
  log, which `PaidIsSettled` accepts as settled.
- A fault may extend a subscription twice: the SUBSCRIPTION_SUCCESS row that
  `doSub` looks for is written by `markCompleted`, after the update whose failure
  it should survive. Hence the fault in `ExtensionsWithinFaults`.
- An order left RECHARGING by a crash or a failed `markFailed` is refused by
  callback, lock and retry alike, and nobody takes it up.
- Verifying an unpaid order cancels its payment at the provider and leaves the
  order PENDING.
- After a rollback that failed, a second refund that plans no deduction and fails
  at the gateway restores COMPLETED with the subscription deleted. Hence
  `RestoredMeansWhole` speaks of balance orders without faults.
- A request refused because its row is in processing stays refused until the row
  expires, even when `locked_until` has passed; and of two requests that read the
  same expired row the second can reclaim it after the first has succeeded. Hence
  `~expired` in `SucceedsOnce`.
- A reclaimed lock row keeps the fingerprint of the earlier operation, so
  renewals match nothing and its lease ends. Hence `CreatorIsRenewed` speaks of
  the operation that created its row.
- A selection whose account cannot be read after the slot was taken drops the
  release function; the slot stays until its TTL ends.
- `provideCleanup` stops the pool and the billing cache in parallel ("应用层清理步骤可并行执行",
  `wire.go:111`). A record that passed the check of `stopped` then sends on the
  closed channel and panics, which the pool recovers: its deduction is neither
  queued nor made, the rest of `finalizePostUsageBilling` is skipped, and the
  cached balance stays too high until its TTL ends. Hence `CostOf(Panicked)` in
  `CacheTracksBalance`; and since a load may panic the same way without the
  breaker hearing of it, `Sendable` in `ProbeUnderWay`.
- The event of a quota crossing is suppressed when an event of the account is
  younger than a second, though that one may have been handled before the charge
  committed; the comment at `usage_billing_repo.go:322-326` requires a refresh on
  every crossing. Hence `QuotaNoticed` accepts a suppressed event when the account
  has other events or another period. The periodic full rebuild repairs the
  snapshot (`SnapshotCatchesUp`).
- A request on a hijacked connection (a WebSocket, h2c) is not waited for by
  `Shutdown`, and its usage may be lost in an orderly exit. Hence `~ws` in
  `GracefulShutdownKeepsUsage`.
- Layer 2 of the selection and the bind after a wait overwrite the sticky binding
  of a session whose account was skipped, which the bind after a success avoids.

## 7. Plan

1. Further action properties from the invariants of section 5: which steps may
   end a slot or a lease; what a restart keeps.
2. `Subscription`: `AssignOrExtendSubscription`, `ExtendSubscription` and the
   expiry job on one row; which interleavings lose an extension. To be composed
   with `PaymentFulfillment`.
3. Redemption by users, refresh token rotation, the user message queue scripts,
   leases of the WebSocket pool.

## 8. Not modelled

Protocol conversion and forwarding of streams (I/O and formats), provider
clients and signatures, configuration and CRUD services, reporting and backups,
generated code (`ent`), migrations, and the frontend. Of the modelled parts:
model routing, selection without the load batch, the Gemini loop of the handler
and the OpenAI scheduler; usage log rows, rate limit windows, RPM, notifications
and simple mode; the token providers of other platforms; group and bulk events of
the outbox. `PROJECT.json` gives the
reason for each component.

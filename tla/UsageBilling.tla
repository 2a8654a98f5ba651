---------------------------- MODULE UsageBilling -----------------------------
(***************************************************************************)
(* From a forwarded request to its charge: the handler submits a usage     *)
(* record to the bounded worker pool, a worker (or the caller) runs        *)
(* applyUsageBilling, the repository claims the billing key and applies    *)
(* every effect in one transaction, and the cached balance follows.  Old   *)
(* keys move to the archive while this runs, money comes in, and the       *)
(* process is shut down (service/usage_record_worker_pool.go,              *)
(* service/gateway_service.go, repository/usage_billing_repo.go,           *)
(* repository/dashboard_aggregation_repo.go, cmd/server).                  *)
(***************************************************************************)
EXTENDS BillingCache, FiniteSets

CONSTANTS Keys,        \* request ids the user's API key bills under
          Costs        \* what one request can cost

None == "none"

(* Fingerprints of the usage records. *)
Prints == {c.task[t].print : c \in Configs, t \in Tasks}

(* What a configuration holds.  The account has a quota (without one there *)
(* is nothing to notice), and the breaker lets at least one probe through: *)
(* newBillingCircuitBreaker replaces a smaller number.                     *)
ASSUME ConfigsOK ==
    /\ Costs \subseteq Nat /\ None \notin Prints
    /\ \A c \in Configs :
          /\ c.tasks \subseteq Tasks /\ c.balance \in Int
          /\ {c.warm, c.expiry, c.retention, c.periods, c.events, c.shutdown} \subseteq BOOLEAN
          /\ {c.credits, c.faults, c.buffer, c.keyQuota} \subseteq Nat
          /\ {c.workers, c.threshold, c.halfOpen, c.poolQueue, c.poolWorkers,
              c.accountLimit} \subseteq Nat \ {0}
          /\ \A t \in Tasks : /\ {c.task[t].upstream, c.task[t].client} \subseteq Keys
                              /\ c.task[t].cost \in Costs /\ c.task[t].ws \in BOOLEAN

VARIABLES
    server,       \* the process: main.go
    poolStopped,  \* pond.Pool.Stopped()
    queue,        \* usage records waiting for a worker
    mode,         \* how a record is executed, which decides its context
    dedup,        \* usage_billing_dedup: key -> fingerprint
    archive,      \* usage_billing_dedup_archive
    charges,      \* history: committed charges of each key
    apiKey,       \* api_keys: quota_used and status
    account,      \* accounts.extra: quota used in the period, period over;
                  \* scheduler_outbox: an event of the account is younger than
                  \* the dedup window; and how the crossing was announced
    credits,      \* credits committed so far
    invalidations \* cache invalidations that credits still owe

applyVars == <<dedup, archive, charges, apiKey, account>>
poolVars == <<server, poolStopped, queue, mode>>
creditVars == <<credits, invalidations>>
vars == <<config, pc, cacheVars, applyVars, poolVars, creditVars>>

(* resolveUsageBillingRequestID: the pool runs a record under a context of *)
(* its own, which has no client request id; the handler's fallback uses    *)
(* the request's context, which has one.                                   *)
Key(t) == IF mode[t] = "fallback" THEN config.task[t].client ELSE config.task[t].upstream

(* buildUsageBillingFingerprint *)
Fingerprint(t) == config.task[t].print

Cost(t) == config.task[t].cost

Charging == {"claim", "existing", "archive", "effects"}
Finishing == {"finalize", "send", "deduct"}
Applying == Charging \cup Finishing

(* Usage that happened and is not yet charged or given up. *)
Unsettled == {"submit", "queued"} \cup Charging

(* Workers of the pool that are busy. *)
Running == {t \in Tasks : mode[t] = "pool" /\ pc[t] \in Applying}

(* Handlers that http.Server.Shutdown waits for.  A hijacked connection is *)
(* not one of them: ws stands for a WebSocket and for an h2c connection.   *)
Handling(t) ==
    /\ ~config.task[t].ws
    /\ \/ Checking(t) \/ pc[t] \in {"forward", "submit"}
       \/ mode[t] \in {"sync", "fallback"} /\ pc[t] \in Applying

Alive == server \notin {"exited", "killed"}

(* A handler can start: the server accepts, or the connection is open. *)
Accepts(t) == server = "up" \/ config.task[t].ws

-----------------------------------------------------------------------------
(* Requests *)

Arrive(t) ==
    /\ Alive /\ Accepts(t) /\ pc[t] = "idle"
    /\ Check(t) \/ CheckForbidden(t)
    /\ UNCHANGED <<config, applyVars, poolVars, creditVars>>

(* The client tries again. *)
Again(t) ==
    /\ Alive /\ pc[t] = "refused"
    /\ Goto(t, "idle")
    /\ UNCHANGED <<config, cacheVars, applyVars, poolVars, creditVars>>

Eligibility ==
    /\ Alive
    /\ \/ \E t \in Tasks : ReadCache(t) \/ MissCache(t) \/ CheckError(t) \/ CheckDone(t)
       \/ LoadRead \/ LoadSends \/ LoadDone \/ LoadPanics \/ LoadFails
    /\ UNCHANGED <<config, applyVars, poolVars, creditVars>>

(* The upstream answers and the handler is about to submit. *)
Forward(t) ==
    /\ Alive /\ pc[t] = "forward"
    /\ Goto(t, "submit")
    /\ UNCHANGED <<config, cacheVars, applyVars, poolVars, creditVars>>

-----------------------------------------------------------------------------
(* UsageRecordWorkerPool.Submit and submitUsageRecordTask *)

Execute(t, m) ==
    /\ mode' = [mode EXCEPT ![t] = m]
    /\ Goto(t, "claim")
    /\ UNCHANGED queue

QueueFull == Len(queue) >= config.poolQueue

Submit(t) ==
    /\ Alive /\ pc[t] = "submit"
    /\ \/ /\ ~poolStopped
          /\ ~QueueFull \/ Cardinality(Running) < config.poolWorkers
          /\ queue' = Append(queue, t)
          /\ mode' = [mode EXCEPT ![t] = "pool"]
          /\ Goto(t, "queued")
       \/ ~poolStopped /\ QueueFull /\ Execute(t, "sync")
       \/ poolStopped /\ Execute(t, "fallback")
    /\ UNCHANGED <<config, cacheVars, applyVars, server, poolStopped, creditVars>>

(* A worker takes the oldest record. *)
StartWorker ==
    /\ Alive /\ queue # <<>> /\ Cardinality(Running) < config.poolWorkers
    /\ Goto(Head(queue), "claim")
    /\ queue' = Tail(queue)
    /\ UNCHANGED <<config, cacheVars, applyVars, server, poolStopped, mode, creditVars>>

-----------------------------------------------------------------------------
(* usageBillingRepository.Apply *)

(* Mutant: a transaction that does not commit is not rolled back. *)
HoldsUntilCommit(u, k) ==
    pc[u] \in {"archive", "effects", "skipped", "failed"} /\ Key(u) = k

(* An uncommitted row of the key makes another insert of it wait. *)
Holds(u, k) == pc[u] \in {"archive", "effects"} /\ Key(u) = k

Claim(t) ==
    /\ Alive /\ pc[t] = "claim"
    /\ \A u \in Tasks : ~Holds(u, Key(t))
    /\ Goto(t, IF dedup[Key(t)] = None THEN "archive" ELSE "existing")
    /\ UNCHANGED <<config, cacheVars, applyVars, poolVars, creditVars>>

(* The row that was in the way: ours, another request's, or gone by now. *)
ReadExisting(t) ==
    /\ Alive /\ pc[t] = "existing"
    /\ Goto(t, CASE dedup[Key(t)] = Fingerprint(t) -> "skipped"
                 [] dedup[Key(t)] # Fingerprint(t) -> "failed")
    /\ UNCHANGED <<config, cacheVars, applyVars, poolVars, creditVars>>

(* Mutant: the archive is not read. *)
ReadNoArchive(t) ==
    /\ Alive /\ pc[t] = "archive"
    /\ Goto(t, "effects")
    /\ UNCHANGED <<config, cacheVars, applyVars, poolVars, creditVars>>

(* The archive is read after the row is inserted. *)
ReadArchive(t) ==
    /\ Alive /\ pc[t] = "archive"
    /\ Goto(t, CASE archive[Key(t)] = None -> "effects"
                 [] archive[Key(t)] = Fingerprint(t) -> "skipped"
                 [] OTHER -> "failed")
    /\ UNCHANGED <<config, cacheVars, applyVars, poolVars, creditVars>>

(* incrementUsageBillingAPIKeyQuota *)
KeyAfter(c) ==
    [used |-> apiKey.used + c,
     status |-> IF /\ config.keyQuota > 0 /\ apiKey.status = "active"
                   /\ apiKey.used < config.keyQuota
                   /\ apiKey.used + c >= config.keyQuota
                THEN "quota_exhausted" ELSE apiKey.status]

(* incrementUsageBillingAccountQuota: an expired period restarts, and the  *)
(* step that crosses the limit calls enqueueSchedulerOutbox in the same    *)
(* transaction, which writes the event unless one of the account is        *)
(* younger than the dedup window.                                          *)
Crosses(used, c) == used >= config.accountLimit /\ used - c < config.accountLimit

Announced == IF account.recent THEN "suppressed" ELSE "written"

(* Mutant: the crossing is computed from the usage before the restart. *)
AccountCrossesFromOld(c) ==
    LET used == IF account.over THEN c ELSE account.used + c
        crossed == used >= config.accountLimit /\ account.used < config.accountLimit
    IN [used |-> used, over |-> FALSE, recent |-> account.recent \/ crossed,
        notice |-> CASE crossed -> Announced
                     [] ~crossed /\ account.over -> None
                     [] OTHER -> account.notice]

AccountAfter(c) ==
    LET used == IF account.over THEN c ELSE account.used + c
    IN [used |-> used, over |-> FALSE, recent |-> account.recent \/ Crosses(used, c),
        notice |-> CASE Crosses(used, c) -> Announced
                     [] ~Crosses(used, c) /\ account.over -> None
                     [] OTHER -> account.notice]

(* applyUsageBillingEffects and Commit: the row locks make the relative    *)
(* updates of two requests apply one after the other.                      *)
CommitEffects(t) ==
    /\ balance' = balance - Cost(t)
    /\ dedup' = [dedup EXCEPT ![Key(t)] = Fingerprint(t)]
    /\ charges' = [charges EXCEPT ![Key(t)] = @ + 1]
    /\ apiKey' = KeyAfter(Cost(t))
    /\ account' = AccountAfter(Cost(t))

Apply(t) ==
    /\ Alive /\ pc[t] = "effects"
    /\ CommitEffects(t)
    /\ \/ Goto(t, "finalize") /\ UNCHANGED faults
       \/ Goto(t, "failed") /\ Fault       \* committed, but the answer is lost
    /\ UNCHANGED <<config, cache, writes, channel, load, breaker, seen,
                   archive, poolVars, creditVars>>

(* Mutant: the key was claimed in a transaction of its own. *)
ApplyFailsKeepingKey(t) ==
    /\ Alive /\ pc[t] \in Charging /\ Fault
    /\ Goto(t, "failed")
    /\ dedup' = IF pc[t] = "effects" THEN [dedup EXCEPT ![Key(t)] = Fingerprint(t)] ELSE dedup
    /\ UNCHANGED <<config, balance, cache, writes, channel, load, breaker, seen,
                   archive, charges, apiKey, account, poolVars, creditVars>>

(* An error, a missing row or the timeout: everything is rolled back. *)
ApplyFails(t) ==
    /\ Alive /\ pc[t] \in Charging /\ Fault
    /\ Goto(t, "failed")
    /\ UNCHANGED <<config, balance, cache, writes, channel, load, breaker, seen,
                   applyVars, poolVars, creditVars>>

(* finalizePostUsageBilling *)
Finalize(t) ==
    /\ Alive
    /\ QueueDeductBalance(t, Cost(t))
    /\ UNCHANGED <<config, balance, channel, load, breaker, seen,
                   applyVars, poolVars, creditVars>>

-----------------------------------------------------------------------------
(* What happens meanwhile *)

(* CleanupUsageBillingDedup: one statement moves old keys to the archive. *)
Cleanup(k) ==
    /\ config.retention /\ dedup[k] # None
    /\ archive' = [archive EXCEPT ![k] = IF @ = None THEN dedup[k] ELSE @]
    /\ dedup' = [dedup EXCEPT ![k] = None]
    /\ UNCHANGED <<config, pc, cacheVars, charges, apiKey, account, poolVars, creditVars>>

(* The day or week of the account's quota ends. *)
PeriodEnds ==
    /\ config.periods /\ ~account.over
    /\ account' = [account EXCEPT !.over = TRUE]
    /\ UNCHANGED <<config, pc, cacheVars, dedup, archive, charges, apiKey, poolVars,
                   creditVars>>

(* Another change of the account, or another dimension of its quota,       *)
(* writes an event.                                                        *)
AccountChanges ==
    /\ config.events /\ ~account.recent
    /\ account' = [account EXCEPT !.recent = TRUE]
    /\ UNCHANGED <<config, pc, cacheVars, dedup, archive, charges, apiKey, poolVars,
                   creditVars>>

(* schedulerOutboxDedupWindow passes; the event may be handled by then.    *)
WindowPasses ==
    /\ account.recent
    /\ account' = [account EXCEPT !.recent = FALSE]
    /\ UNCHANGED <<config, pc, cacheVars, dedup, archive, charges, apiKey, poolVars,
                   creditVars>>

(* Money comes in; the cached balance is invalidated afterwards. *)
Credit ==
    /\ credits < config.credits
    /\ credits' = credits + 1
    /\ balance' = balance + 1
    /\ invalidations' = invalidations + 1
    /\ UNCHANGED <<config, pc, cache, writes, channel, load, breaker, seen, faults,
                   applyVars, poolVars>>

InvalidateUserBalance ==
    /\ Alive /\ invalidations > 0
    /\ invalidations' = invalidations - 1
    /\ \/ cache' = NoEntry /\ UNCHANGED faults
       \/ Fault /\ UNCHANGED cache
    /\ UNCHANGED <<config, pc, balance, writes, channel, load, breaker, seen,
                   applyVars, poolVars, credits>>

CacheWorker ==
    /\ Alive /\ CacheWrite
    /\ UNCHANGED <<config, applyVars, poolVars, creditVars>>

Expiry == CacheExpires /\ UNCHANGED <<config, applyVars, poolVars, creditVars>>

Cooling == Cool /\ UNCHANGED <<config, applyVars, poolVars, creditVars>>

-----------------------------------------------------------------------------
(* Shutdown: main.go and provideCleanup *)

Sigterm ==
    /\ config.shutdown /\ server = "up"
    /\ server' = "draining"
    /\ UNCHANGED <<config, pc, cacheVars, applyVars, poolStopped, queue, mode, creditVars>>

(* Shutdown returns: every handler is done, and the cleanup starts. *)
Drained ==
    /\ server = "draining"
    /\ \A t \in Tasks : ~Handling(t)
    /\ server' = "cleaning"
    /\ UNCHANGED <<config, pc, cacheVars, applyVars, poolStopped, queue, mode, creditVars>>

(* Shutdown gives up after five seconds; log.Fatalf ends the process       *)
(* without running the deferred cleanup.                                   *)
Forced ==
    /\ server = "draining"
    /\ \E t \in Tasks : Handling(t)
    /\ server' = "killed"
    /\ UNCHANGED <<config, pc, cacheVars, applyVars, poolStopped, queue, mode, creditVars>>

StopPool ==
    /\ server = "cleaning" /\ ~poolStopped
    /\ poolStopped' = TRUE
    /\ UNCHANGED <<config, pc, cacheVars, applyVars, server, queue, mode, creditVars>>

(* BillingCacheService.Stop, beside StopPool: `stopped` is stored, the     *)
(* channel is closed, and set to nil when the workers have emptied it.     *)
StopCache ==
    /\ server = "cleaning"
    /\ \/ channel = "open" /\ channel' = "stopping"
       \/ channel = "stopping" /\ channel' = "closed"
       \/ channel = "closed" /\ writes = <<>> /\ channel' = "nil"
    /\ UNCHANGED <<config, pc, balance, cache, writes, load, breaker, seen, faults,
                   applyVars, poolVars, creditVars>>

(* Mutant: Stop without waiting. *)
PoolStoppedOnly == poolStopped

(* Both Stop calls waited for their workers. *)
PoolDone == poolStopped /\ queue = <<>> /\ Running = {}

Exit ==
    /\ server = "cleaning" /\ PoolDone /\ channel = "nil"
    /\ server' = "exited"
    /\ UNCHANGED <<config, pc, cacheVars, applyVars, poolStopped, queue, mode, creditVars>>

-----------------------------------------------------------------------------
InitialCache(c) == IF c.warm THEN Entry(c.balance) ELSE NoEntry

Init ==
    /\ config \in Configs
    /\ balance = config.balance
    /\ cache = InitialCache(config)
    /\ writes = <<>> /\ channel = "open"
    /\ load = [state |-> "none", value |-> 0]
    /\ breaker = Closed
    /\ pc = [t \in Tasks |-> IF t \in config.tasks THEN "idle" ELSE "absent"]
    /\ seen = [t \in Tasks |-> 0] /\ faults = 0
    /\ server = "up" /\ poolStopped = FALSE /\ queue = <<>>
    /\ mode = [t \in Tasks |-> None]
    /\ dedup = [k \in Keys |-> None] /\ archive = [k \in Keys |-> None]
    /\ charges = [k \in Keys |-> 0]
    /\ apiKey = [used |-> 0, status |-> "active"]
    /\ account = [used |-> 0, over |-> FALSE, recent |-> FALSE, notice |-> None]
    /\ credits = 0 /\ invalidations = 0

Record(t) ==
    \/ Arrive(t) \/ Again(t) \/ Forward(t) \/ Submit(t) \/ Claim(t) \/ ReadExisting(t)
    \/ ReadArchive(t) \/ Apply(t) \/ ApplyFails(t) \/ Finalize(t)

Shutdown == Sigterm \/ Drained \/ Forced \/ StopPool \/ StopCache \/ Exit

Next ==
    \/ \E t \in Tasks : Record(t)
    \/ Eligibility \/ StartWorker
    \/ \E k \in Keys : Cleanup(k)
    \/ PeriodEnds \/ AccountChanges \/ WindowPasses \/ Credit \/ InvalidateUserBalance
    \/ CacheWorker \/ Expiry \/ Cooling
    \/ Shutdown

Spec == Init /\ [][Next]_vars

(* Goroutines are scheduled, the database answers or times out, time       *)
(* passes, and the client comes back.                                      *)
Fairness ==
    /\ \A t \in Tasks :
          /\ WF_vars(Arrive(t)) /\ WF_vars(Again(t)) /\ WF_vars(Forward(t))
          /\ WF_vars(Submit(t)) /\ SF_vars(Claim(t)) /\ WF_vars(ReadExisting(t))
          /\ WF_vars(ReadArchive(t)) /\ WF_vars(Apply(t)) /\ WF_vars(Finalize(t))
    /\ WF_vars(Eligibility) /\ WF_vars(StartWorker) /\ WF_vars(CacheWorker)
    /\ WF_vars(Expiry) /\ WF_vars(Cooling) /\ WF_vars(InvalidateUserBalance)
    /\ WF_vars(Drained) /\ WF_vars(StopPool) /\ WF_vars(StopCache) /\ WF_vars(Exit)

FairSpec == Spec /\ Fairness

-----------------------------------------------------------------------------
Pcs == {"absent", "idle", "get", "load", "got", "error", "refused", "forward", "submit",
        "queued", "skipped", "failed", "charged", "panicked"} \cup Applying

(* Types of the rows, the cache, the breaker and the pool; the queue of    *)
(* the pool holds only records that wait in it.                            *)
TypeOK ==
    /\ config \in Configs
    /\ balance \in Int /\ credits \in Nat /\ invalidations \in Nat /\ faults \in Nat
    /\ cache \in [held : BOOLEAN, value : Int, ttl : BOOLEAN]
    /\ writes \in Seq([kind : {"set", "deduct"}, amount : Int])
    /\ load \in [state : {"none", "started", "read", "send"}, value : Int]
    /\ breaker \in [state : {"closed", "open", "half-open"}, failures : Nat,
                    remaining : Nat, cooled : BOOLEAN]
    /\ pc \in [Tasks -> Pcs] /\ seen \in [Tasks -> Int]
    /\ server \in {"up", "draining", "cleaning", "exited", "killed"}
    /\ poolStopped \in BOOLEAN /\ channel \in {"open", "stopping", "closed", "nil"}
    /\ queue \in Seq(Tasks) /\ \A i \in 1 .. Len(queue) : pc[queue[i]] = "queued"
    /\ mode \in [Tasks -> {None, "pool", "sync", "fallback"}]
    /\ dedup \in [Keys -> Prints \cup {None}] /\ archive \in [Keys -> Prints \cup {None}]
    /\ charges \in [Keys -> Nat]
    /\ apiKey \in [used : Nat, status : {"active", "quota_exhausted"}]
    /\ account \in [used : Nat, over : BOOLEAN, recent : BOOLEAN,
                    notice : {None, "written", "suppressed"}]

Claimed == {k \in Keys : dedup[k] # None \/ archive[k] # None}

Ledger == INSTANCE BillingLedger WITH charged <- Claimed

(* Usage billing implements the ledger: whatever the interleaving of       *)
(* workers with the same request id, of the move to the archive and of     *)
(* failed transactions, a billing key is charged once and in the step that *)
(* records it (Apply, claimUsageBillingKey, CleanupUsageBillingDedup).     *)
LedgerSpec == Ledger!LedgerSpec

(* A record is skipped as a duplicate only if its key really was charged:  *)
(* a transaction that failed leaves no key behind (Apply).                 *)
SkippedWasCharged == \A t \in Tasks : pc[t] = "skipped" => charges[Key(t)] = 1

(* However the increments interleave with each other, with other changes   *)
(* of the account and with the end of the period, the step that takes the  *)
(* account to its limit in a period is noticed as such: it wrote the       *)
(* account's scheduler event, or an event of the account was younger than  *)
(* the dedup window; without another event and another period it wrote it. *)
(* A key at its quota is marked exhausted                                  *)
(* (incrementUsageBillingAccountQuota, enqueueSchedulerOutbox,             *)
(* incrementUsageBillingAPIKeyQuota).                                      *)
QuotaNoticed ==
    /\ account.used >= config.accountLimit =>
          IF config.events \/ config.periods THEN account.notice # None
          ELSE account.notice = "written"
    /\ config.keyQuota > 0 /\ apiKey.used >= config.keyQuota
          => apiKey.status = "quota_exhausted"

Deduction(w) == IF w.kind = "deduct" THEN w.amount ELSE 0
Deductions(s) == SumFunction([i \in 1 .. Len(s) |-> Deduction(s[i])])
CostOf(S) == SumFunctionOnSet([t \in Tasks |-> Cost(t)], S)
Finalizing == {t \in Tasks : pc[t] \in Finishing}
Panicked == {t \in Tasks : pc[t] = "panicked"}
PendingDeductions == Deductions(writes) + CostOf(Finalizing)

(* While an entry stays cached, nothing fails and nothing is credited, the *)
(* cached balance is the account's balance, the deductions on their way    *)
(* and those that were lost: none is dropped when the queue is full or the *)
(* service has stopped, none is made twice, and a deduction is lost only   *)
(* by a record that passed the check of `stopped` and sends when Stop has  *)
(* closed the channel (QueueDeductBalance, enqueueCacheWrite, Stop).       *)
CacheTracksBalance ==
    config.warm /\ ~config.expiry /\ credits = 0 /\ faults = 0 =>
        /\ cache.held
        /\ cache.value = balance + PendingDeductions + CostOf(Panicked)
        /\ Sendable => Panicked = {}

(* Until the cache's channel is closed, a half-open breaker has a probe    *)
(* under way, whose end moves it: it is never left half-open with nobody   *)
(* to close or reopen it (Allow, OnFailure, OnSuccess of                   *)
(* billingCircuitBreaker).                                                 *)
ProbeUnderWay ==
    breaker.state = "half-open" /\ Sendable => \E t \in Tasks : Checking(t)

(* A shutdown in which every handler ended loses no usage record: Stop     *)
(* waits for the queue (UsageRecordWorkerPool.Stop, provideCleanup).       *)
GracefulShutdownKeepsUsage ==
    server = "exited" =>
        \A t \in Tasks : ~config.task[t].ws => pc[t] \notin Unsettled

(* Usage of a running server is settled: charged, skipped as a duplicate   *)
(* or given up on an error; a full queue or a key another worker holds     *)
(* does not block it for ever (Submit, claimUsageBillingKey).              *)
UsageSettles ==
    \A t \in Tasks : pc[t] \in Unsettled ~> pc[t] \notin Unsettled \/ ~Alive

(* A user with money gets through: neither a stale cached balance nor an   *)
(* open breaker refuses the user for good (deductBalanceScript keeps the   *)
(* TTL, the breaker half-opens).                                           *)
MoneyIsAdmitted ==
    \A t \in Tasks : config.expiry /\ pc[t] = "refused"
        ~> pc[t] = "forward" \/ balance <= 0 \/ server # "up"

(* What the worker pool documents: a successful request never loses its    *)
(* accounting record, Stop waits for the queue                             *)
(* (usage_record_worker_pool.go:144, :193).                                *)
ShutdownKeepsQueue ==
    ~Alive => \A t \in Tasks : ~config.task[t].ws => pc[t] # "queued"
=============================================================================

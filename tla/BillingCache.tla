---------------------------- MODULE BillingCache -----------------------------
(***************************************************************************)
(* The eligibility check of one user in front of every request: the        *)
(* balance cached in Redis, the bounded queue of cache writes and its      *)
(* workers, the load that concurrent misses share, and the circuit breaker *)
(* around the check (service/billing_cache_service.go,                     *)
(* repository/billing_cache.go).  A subscription's usage is cached with    *)
(* the same steps, counting up instead of down.                            *)
(***************************************************************************)
EXTENDS Integers, SequencesExt

CONSTANTS Tasks,       \* requests of the user
          Configs      \* the configurations to check, see MCUsageBilling

VARIABLES
    config,       \* the configuration in force, never changes
    balance,      \* users.balance
    cache,        \* billing:balance:<user> in Redis
    writes,       \* cacheWriteChan and the tasks its workers hold, oldest first
    channel,      \* how far BillingCacheService.Stop is, from open to nil
    load,         \* the load that concurrent misses share (singleflight)
    breaker,      \* billingCircuitBreaker
    pc,           \* where each request is
    seen,         \* the balance its check got
    faults        \* database and Redis errors so far

cacheVars == <<balance, cache, writes, channel, load, breaker, seen, faults>>

NoEntry == [held |-> FALSE, value |-> 0, ttl |-> FALSE]
Entry(v) == [held |-> TRUE, value |-> v, ttl |-> TRUE]

(* SetUserBalance: SET with the jittered TTL. *)
SetUserBalance(c, v) == Entry(v)

(* Mutant: the script without its EXPIRE. *)
DeductWithoutExpire(c, a) ==
    IF c.held THEN [Entry(c.value - a) EXCEPT !.ttl = FALSE] ELSE c

(* deductBalanceScript: nothing on a miss; else SET (which drops the TTL)  *)
(* followed by EXPIRE.                                                     *)
DeductUserBalance(c, a) == IF c.held THEN Entry(c.value - a) ELSE c

SetWrite(v) == [kind |-> "set", amount |-> v]
DeductWrite(a) == [kind |-> "deduct", amount |-> a]

(* enqueueCacheWrite loads `stopped`, and later, under the lock that Stop   *)
(* closes the channel under, looks at cacheWriteChan and sends.             *)
Stopped == channel # "open"
Sendable == channel \in {"open", "stopping"}
(* The channel has room, or a worker takes the task at once. *)
Sends == Sendable /\ Len(writes) < config.buffer + config.workers
(* The channel is full, or gone. *)
SendFails == (Sendable /\ Len(writes) >= config.buffer) \/ channel = "nil"
(* A send on a closed channel, in a select with a default as well. *)
SendPanics == channel = "closed"

(* The request is inside CheckBillingEligibility. *)
Checking(t) == pc[t] \in {"get", "load", "got", "error"}

Goto(t, l) == pc' = [pc EXCEPT ![t] = l]

Fault == faults < config.faults /\ faults' = faults + 1

-----------------------------------------------------------------------------
(* The circuit breaker. `cooled` is time.Since(openedAt) >= resetTimeout.  *)

HalfOpen == [state |-> "half-open", failures |-> breaker.failures,
             remaining |-> config.halfOpen - 1, cooled |-> FALSE]

Closed == [state |-> "closed", failures |-> 0, remaining |-> 0, cooled |-> FALSE]

Open(n) == [state |-> "open", failures |-> n, remaining |-> 0, cooled |-> FALSE]

(* Mutant: the probes of a half-open breaker are not counted out. *)
AllowsMoreProbes(b) ==
    \/ breaker.state = "closed" /\ b = breaker
    \/ breaker.state = "open" /\ breaker.cooled /\ b = HalfOpen
    \/ breaker.state = "half-open" /\ b = [breaker EXCEPT !.remaining = @ - 1]

(* Allow: the request is let through, and b is the breaker after it. *)
Allows(b) ==
    \/ breaker.state = "closed" /\ b = breaker
    \/ breaker.state = "open" /\ breaker.cooled /\ b = HalfOpen
    \/ /\ breaker.state = "half-open" /\ breaker.remaining > 0
       /\ b = [breaker EXCEPT !.remaining = @ - 1]

Forbids ==
    \/ breaker.state = "open" /\ ~breaker.cooled
    \/ breaker.state = "half-open" /\ breaker.remaining <= 0

(* Mutant: a failed probe leaves the breaker half-open. *)
FailureIgnoresProbe ==
    IF breaker.state = "half-open" THEN breaker
    ELSE IF breaker.state = "closed" /\ breaker.failures + 1 >= config.threshold
         THEN Open(breaker.failures + 1) ELSE breaker

AfterFailure ==
    CASE breaker.state = "open" -> breaker
      [] breaker.state = "half-open" -> Open(breaker.failures)
      [] breaker.state = "closed" ->
            IF breaker.failures + 1 >= config.threshold
            THEN Open(breaker.failures + 1)
            ELSE [breaker EXCEPT !.failures = @ + 1]

AfterSuccess == Closed

(* resetTimeout passes. *)
Cool ==
    /\ breaker.state = "open" /\ ~breaker.cooled
    /\ breaker' = [breaker EXCEPT !.cooled = TRUE]
    /\ UNCHANGED <<balance, cache, writes, channel, load, pc, seen, faults>>

-----------------------------------------------------------------------------
(* CheckBillingEligibility and GetUserBalance *)

Check(t) ==
    /\ \E b \in {breaker, HalfOpen, [breaker EXCEPT !.remaining = @ - 1]} :
          Allows(b) /\ breaker' = b
    /\ Goto(t, "get")
    /\ UNCHANGED <<balance, cache, writes, channel, load, seen, faults>>

CheckForbidden(t) ==
    /\ Forbids
    /\ Goto(t, "refused")
    /\ UNCHANGED <<balance, cache, writes, channel, load, breaker, seen, faults>>

(* A hit is used as it is. *)
ReadCache(t) ==
    /\ pc[t] = "get" /\ cache.held
    /\ seen' = [seen EXCEPT ![t] = cache.value]
    /\ Goto(t, "got")
    /\ UNCHANGED <<balance, cache, writes, channel, load, breaker, faults>>

(* A miss, or an error of Redis, starts the load or joins the one running. *)
MissCache(t) ==
    /\ pc[t] = "get"
    /\ \/ ~cache.held /\ UNCHANGED faults
       \/ cache.held /\ Fault
    /\ load' = IF load.state = "none" THEN [state |-> "started", value |-> 0] ELSE load
    /\ Goto(t, "load")
    /\ UNCHANGED <<balance, cache, writes, channel, breaker, seen>>

Waiters == {t \in Tasks : pc[t] = "load"}

LoadRead ==
    /\ load.state = "started"
    /\ load' = [state |-> "read", value |-> balance]
    /\ UNCHANGED <<balance, cache, writes, channel, breaker, pc, seen, faults>>

(* The load found the service not stopped and is about to send. *)
LoadSends ==
    /\ load.state = "read" /\ ~Stopped
    /\ load' = [load EXCEPT !.state = "send"]
    /\ UNCHANGED <<balance, cache, writes, channel, breaker, pc, seen, faults>>

(* The value is queued for the cache, or dropped, and handed to all. *)
LoadDone ==
    /\ \/ load.state = "read" /\ Stopped /\ UNCHANGED writes
       \/ load.state = "send" /\ Sends /\ writes' = Append(writes, SetWrite(load.value))
       \/ load.state = "send" /\ SendFails /\ UNCHANGED writes
    /\ load' = [state |-> "none", value |-> 0]
    /\ seen' = [t \in Tasks |-> IF t \in Waiters THEN load.value ELSE seen[t]]
    /\ pc' = [t \in Tasks |-> IF t \in Waiters THEN "got" ELSE pc[t]]
    /\ UNCHANGED <<balance, cache, channel, breaker, faults>>

(* singleflight raises the panic in every waiter; the Recovery middleware  *)
(* ends their requests, and the breaker hears of none of them.             *)
LoadPanics ==
    /\ load.state = "send" /\ SendPanics
    /\ load' = [state |-> "none", value |-> 0]
    /\ pc' = [t \in Tasks |-> IF t \in Waiters THEN "refused" ELSE pc[t]]
    /\ UNCHANGED <<balance, cache, writes, channel, breaker, seen, faults>>

(* The database does not answer: every waiter gets the error. *)
LoadFails ==
    /\ load.state = "started" /\ Fault
    /\ load' = [state |-> "none", value |-> 0]
    /\ pc' = [t \in Tasks |-> IF t \in Waiters THEN "error" ELSE pc[t]]
    /\ UNCHANGED <<balance, cache, writes, channel, breaker, seen>>

CheckError(t) ==
    /\ pc[t] = "error"
    /\ breaker' = AfterFailure
    /\ Goto(t, "refused")
    /\ UNCHANGED <<balance, cache, writes, channel, load, seen, faults>>

CheckDone(t) ==
    /\ pc[t] = "got"
    /\ breaker' = AfterSuccess
    /\ Goto(t, IF seen[t] > 0 THEN "forward" ELSE "refused")
    /\ UNCHANGED <<balance, cache, writes, channel, load, seen, faults>>

-----------------------------------------------------------------------------
(* The cache and its writers *)

(* A worker performs the task it took; up to config.workers run at once,   *)
(* so tasks queued one after the other may be performed in either order.   *)
CacheWrite ==
    \E i \in 1 .. Len(writes) :
        /\ i <= config.workers
        /\ writes' = RemoveAt(writes, i)
        /\ \/ /\ cache' = IF writes[i].kind = "set"
                          THEN SetUserBalance(cache, writes[i].amount)
                          ELSE DeductUserBalance(cache, writes[i].amount)
              /\ UNCHANGED faults
           \/ Fault /\ UNCHANGED cache
        /\ UNCHANGED <<balance, channel, load, breaker, pc, seen>>

(* The TTL passes. *)
CacheExpires ==
    /\ config.expiry /\ cache.held /\ cache.ttl
    /\ cache' = NoEntry
    /\ UNCHANGED <<balance, writes, channel, load, breaker, pc, seen, faults>>

(* Queue...: the write is queued; when the queue is full or the service    *)
(* stopped the caller performs it; and a panic of the send ends the task   *)
(* with the write neither queued nor performed (the pool and the handlers  *)
(* recover it).                                                            *)
CheckStopped(t) ==
    /\ pc[t] = "finalize"
    /\ Goto(t, IF Stopped THEN "deduct" ELSE "send")
    /\ UNCHANGED <<cache, writes, faults>>

(* Mutant: a full queue drops the deduction, as it drops a set. *)
SendOrDrop(t, a) ==
    /\ pc[t] = "send"
    /\ \/ Sends /\ writes' = Append(writes, DeductWrite(a)) /\ Goto(t, "charged")
       \/ SendFails /\ Goto(t, "charged") /\ UNCHANGED writes
       \/ SendPanics /\ Goto(t, "panicked") /\ UNCHANGED writes
    /\ UNCHANGED <<cache, faults>>

Send(t, a) ==
    /\ pc[t] = "send"
    /\ \/ Sends /\ writes' = Append(writes, DeductWrite(a)) /\ Goto(t, "charged")
       \/ SendFails /\ Goto(t, "deduct") /\ UNCHANGED writes
       \/ SendPanics /\ Goto(t, "panicked") /\ UNCHANGED writes
    /\ UNCHANGED <<cache, faults>>

DeductBalanceCache(t, a) ==
    /\ pc[t] = "deduct"
    /\ Goto(t, "charged")
    /\ \/ cache' = DeductUserBalance(cache, a) /\ UNCHANGED faults
       \/ Fault /\ UNCHANGED cache
    /\ UNCHANGED writes

QueueDeductBalance(t, a) == CheckStopped(t) \/ Send(t, a) \/ DeductBalanceCache(t, a)
=============================================================================

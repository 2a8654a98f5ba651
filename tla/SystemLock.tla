----------------------------- MODULE SystemLock -----------------------------
(***************************************************************************)
(* SystemOperationLockService: the lease that keeps the admin's update,    *)
(* rollback and restart of the system apart, kept in one row of            *)
(* idempotency_records (service/system_operation_lock_service.go and       *)
(* handler/admin/system_handler.go).                                       *)
(*                                                                         *)
(* An operation is one request with its operation id, the fingerprint of   *)
(* the row it creates, together with the goroutine that renews its lease.  *)
(***************************************************************************)
EXTENDS IdempotencyStore

CONSTANTS Operations,     \* operation ids, one request each at a time
          NoOperation,
          Lease,          \* ProcessingTimeout
          RenewInterval,  \* a third of it
          TTL,            \* SystemOperationTTL
          Stall,          \* longest time Acquire takes from reading the clock
          MaxTime,        \* bound of the clock
          MaxFaults       \* bound on failed statements and dead servers

ASSUME OperationAssumption == NoOperation \notin Operations
ASSUME LeaseAssumption ==
  /\ {Lease, RenewInterval, TTL, MaxTime} \subseteq Nat \ {0}
  /\ {Stall, MaxFaults} \subseteq Nat
  /\ Lease <= TTL
  /\ Stall + RenewInterval < Lease

VARIABLES
  now,
  pc,        \* per operation: next statement
  started,   \* per operation: the time Acquire read
  recordId,  \* per operation: the row it read or holds
  seen,      \* per operation: the status it read
  renewAt,   \* per operation: next tick of its renewLoop, 0 without one
  faults,
  lapsed     \* history: a lease ended while its operation was running

operationVars == <<pc, started, recordId, seen, renewAt>>
vars == <<row, now, operationVars, faults, lapsed>>

PCs == {"idle", "create", "get", "reclaim", "hold"}

TypeOK ==
  /\ rowId \in Nat /\ lastId \in Nat /\ rowId <= lastId
  /\ fingerprint \in Operations \cup {NoOperation}
  /\ rowStatus \in RowStatuses
  /\ lockedUntil \in Nat /\ expiresAt \in Nat
  /\ now \in 1 .. MaxTime
  /\ pc \in [Operations -> PCs]
  /\ started \in [Operations -> 1 .. MaxTime]
  /\ recordId \in [Operations -> Nat]
  /\ seen \in [Operations -> RowStatuses]
  /\ renewAt \in [Operations -> Nat]
  /\ faults \in 0 .. MaxFaults
  /\ lapsed \in BOOLEAN

Init ==
  /\ NoRow(NoOperation, NoOperation)
  /\ now = 1
  /\ pc = [o \in Operations |-> "idle"]
  /\ started = [o \in Operations |-> 1]
  /\ recordId = [o \in Operations |-> 0]
  /\ seen = [o \in Operations |-> "processing"]
  /\ renewAt = [o \in Operations |-> 0]
  /\ faults = 0
  /\ lapsed = FALSE

-----------------------------------------------------------------------------
Results == {"ok", "lost", "late"}

Outcome(r) ==
  IF r = "ok" THEN UNCHANGED faults
              ELSE faults < MaxFaults /\ faults' = faults + 1

\* The request is over, or its server died.
Gone(o) ==
  /\ pc' = [pc EXCEPT ![o] = "idle"]
  /\ started' = [started EXCEPT ![o] = 1]
  /\ recordId' = [recordId EXCEPT ![o] = 0]
  /\ seen' = [seen EXCEPT ![o] = "processing"]
  /\ renewAt' = [renewAt EXCEPT ![o] = 0]

Goto(o, label) ==
  /\ pc' = [pc EXCEPT ![o] = label]
  /\ UNCHANGED <<started, renewAt>>

\* Acquire returns the lock and starts renewLoop.
Acquired(o, id) ==
  /\ pc' = [pc EXCEPT ![o] = "hold"]
  /\ recordId' = [recordId EXCEPT ![o] = id]
  /\ renewAt' = [renewAt EXCEPT ![o] = now + RenewInterval]
  /\ UNCHANGED <<started, seen>>

Start(o) ==
  /\ pc[o] = "idle"
  /\ renewAt[o] = 0
  /\ pc' = [pc EXCEPT ![o] = "create"]
  /\ started' = [started EXCEPT ![o] = now]
  /\ UNCHANGED <<row, now, recordId, seen, renewAt, faults, lapsed>>

\* Acquire: the insert.
Create(o, r) ==
  /\ pc[o] = "create"
  /\ Outcome(r)
  /\ IF r = "lost" THEN UNCHANGED row
     ELSE CreateProcessing(o, started[o] + Lease, started[o] + TTL)
  /\ \/ r # "ok" /\ Gone(o)
     \/ r = "ok" /\ RowExists /\ Goto(o, "get") /\ UNCHANGED <<recordId, seen>>
     \/ r = "ok" /\ ~RowExists /\ Acquired(o, rowId')
  /\ UNCHANGED <<now, lapsed>>

\* The operation of the row is in progress.
Busy(o) == rowStatus = "processing" /\ lockedUntil > started[o]

\* Acquire: the read of the row that is there already.
Get(o, r) ==
  /\ pc[o] = "get"
  /\ r \in {"ok", "lost"}
  /\ Outcome(r)
  /\ IF r = "lost" \/ ~RowExists \/ Busy(o)
     THEN Gone(o)
     ELSE /\ Goto(o, "reclaim")
          /\ recordId' = [recordId EXCEPT ![o] = rowId]
          /\ seen' = [seen EXCEPT ![o] = rowStatus]
  /\ UNCHANGED <<row, now, lapsed>>

\* Acquire: TryReclaim.  It keeps the earlier operation's fingerprint.
Reclaim(o, r) ==
  /\ pc[o] = "reclaim"
  /\ Outcome(r)
  /\ IF r = "lost" THEN UNCHANGED row
     ELSE TryReclaim(recordId[o], seen[o], started[o], started[o] + Lease,
                     started[o] + TTL)
  /\ IF r = "ok" /\ Reclaimable(recordId[o], seen[o], started[o])
     THEN Acquired(o, recordId[o]) ELSE Gone(o)
  /\ UNCHANGED <<now, lapsed>>

RenewGivesUp(o, r) == r = "ok" /\ Extendable(recordId[o], o)

\* An error keeps the loop running, a lost row ends it.
RenewContinues(o, r) == r = "ok" => Extendable(recordId[o], o)

\* One tick of renewLoop, its last one if the lock has been released.
Renew(o, r) ==
  /\ renewAt[o] # 0
  /\ renewAt[o] <= now
  /\ Outcome(r)
  /\ IF r = "lost" THEN UNCHANGED row
     ELSE ExtendProcessingLock(recordId[o], o, now + Lease, now + TTL)
  /\ renewAt' = [renewAt EXCEPT ![o] = IF pc[o] = "hold" /\ RenewContinues(o, r)
                                       THEN now + RenewInterval ELSE 0]
  /\ recordId' = [recordId EXCEPT ![o] = IF pc[o] = "hold" THEN @ ELSE 0]
  /\ UNCHANGED <<now, pc, started, seen, lapsed>>

\* renewLoop is not waited for: a tick that is due may follow the release.
Released(o) ==
  \/ Gone(o)
  \/ /\ renewAt[o] # 0 /\ renewAt[o] <= now
     /\ pc' = [pc EXCEPT ![o] = "idle"]
     /\ started' = [started EXCEPT ![o] = 1]
     /\ seen' = [seen EXCEPT ![o] = "processing"]
     /\ UNCHANGED <<recordId, renewAt>>

\* The operation ends, well or not; the error of Release is ignored.
Release(o, r) ==
  /\ pc[o] = "hold"
  /\ Outcome(r)
  /\ \/ r = "lost" /\ UNCHANGED row
     \/ r # "lost" /\ MarkSucceeded(recordId[o], NoOperation, now + TTL)
     \/ r # "lost" /\ MarkFailedRetryable(recordId[o], now, now + TTL)
  /\ Released(o)
  /\ UNCHANGED <<now, lapsed>>

Crash(o) ==
  /\ pc[o] # "idle"
  /\ faults < MaxFaults
  /\ faults' = faults + 1
  /\ Gone(o)
  /\ UNCHANGED <<row, now, lapsed>>

Cleanup ==
  /\ DeleteExpired(now)
  /\ UNCHANGED <<now, operationVars, faults, lapsed>>

\* Tickers fire on time and Acquire is not held up for longer than Stall.
OnTime ==
  \A o \in Operations :
    /\ renewAt[o] # 0 => now < renewAt[o]
    /\ pc[o] \in {"create", "get", "reclaim"} => now < started[o] + Stall

Tick ==
  /\ now < MaxTime
  /\ OnTime
  /\ now' = now + 1
  /\ lapsed' = (lapsed \/ \E o \in Operations : pc[o] = "hold" /\ lockedUntil <= now')
  /\ UNCHANGED <<row, operationVars, faults>>

Next ==
  \/ Cleanup
  \/ Tick
  \/ \E o \in Operations :
       \/ Start(o)
       \/ Crash(o)
       \/ \E r \in Results : \/ Create(o, r)
                             \/ Get(o, r)
                             \/ Reclaim(o, r)
                             \/ Renew(o, r)
                             \/ Release(o, r)

Spec == Init /\ [][Next]_vars

-----------------------------------------------------------------------------
Holders == {o \in Operations : pc[o] = "hold"}

\* Two system operations run together only after a lease ended under its
\* holder: neither the insert, nor a reclaim of a released or an abandoned
\* row, nor a release or a cleanup gives the lock away before.
LeaseExclusive == ~lapsed => \A o, q \in Holders : o = q

\* The first lease to end under its holder is that of a holder that took
\* the row over from another operation: an operation that created its row
\* is renewed in time, as long as no more renewals fail than the lease
\* allows.
CreatorIsRenewed ==
  [][~lapsed /\ lapsed' /\ Stall + (faults + 1) * RenewInterval < Lease
       => \E o \in Holders : fingerprint # o]_vars
=============================================================================

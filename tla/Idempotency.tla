---------------------------- MODULE Idempotency ----------------------------
(***************************************************************************)
(* IdempotencyCoordinator.Execute (service/idempotency.go) for one scope   *)
(* and idempotency key: requests that carry the key, with equal or         *)
(* different payloads, run together; the business function behind them     *)
(* succeeds or fails; statements fail with no effect ("lost") or after     *)
(* their effect ("late"); servers die; the cleanup job deletes the row     *)
(* when it has expired.  Every statement is one action, and each request   *)
(* reads the clock once, at its start, as the code does.                   *)
(***************************************************************************)
EXTENDS IdempotencyStore

CONSTANTS Requests,           \* goroutines serving requests with the key
          Payloads,           \* request fingerprints
          Truncated,          \* a stored response cut at MaxStoredResponseLen
          TTL,                \* IdempotencyExecuteOptions.TTL
          ProcessingTimeout,
          FailedRetryBackoff,
          MaxTime,            \* bound of the clock
          MaxFaults           \* bound on failed statements and dead servers

ASSUME TimeAssumption ==
  /\ TTL \in Nat \ {0}
  /\ ProcessingTimeout \in Nat \ {0}
  /\ FailedRetryBackoff \in Nat \ {0}
  /\ MaxTime \in Nat \ {0}
  /\ MaxFaults \in Nat

ASSUME PayloadAssumption == Payloads # {} /\ Truncated \notin Payloads

VARIABLES
  now,
  pc, payload, \* per request: next statement, fingerprint
  started,     \* per request: the time it read
  recordId,    \* per request: the row it read or claimed
  seen,        \* per request: the status it read
  faults,
  validUntil,  \* history: expiry of the last success of the business function
  replies,     \* history: replayed responses, with the payload they answer
  expired,     \* history: the row has been past its expiry
  overran      \* history: a request was served for longer than the TTL

requestVars == <<pc, payload, started, recordId, seen>>
history == <<validUntil, replies, expired, overran>>
vars == <<row, now, requestVars, faults, history>>

ExecutingPCs == {"execute", "markSucceeded", "markFailed"}
PCs == {"idle", "create", "get", "reclaimExpired", "getLatest", "reclaim"}
         \cup ExecutingPCs

TypeOK ==
  /\ rowId \in Nat /\ lastId \in Nat /\ rowId <= lastId
  /\ fingerprint \in Payloads
  /\ rowStatus \in RowStatuses
  /\ lockedUntil \in Nat /\ expiresAt \in Nat
  /\ body \in Payloads \cup {Truncated}
  /\ now \in 1 .. MaxTime
  /\ pc \in [Requests -> PCs]
  /\ payload \in [Requests -> Payloads]
  /\ started \in [Requests -> 1 .. MaxTime]
  /\ recordId \in [Requests -> Nat]
  /\ seen \in [Requests -> RowStatuses]
  /\ faults \in 0 .. MaxFaults
  /\ validUntil \in Nat
  /\ replies \subseteq Payloads \X Payloads
  /\ expired \in BOOLEAN /\ overran \in BOOLEAN

AnyPayload == CHOOSE p \in Payloads : TRUE

Init ==
  /\ NoRow(AnyPayload, AnyPayload)
  /\ now = 1
  /\ pc = [w \in Requests |-> "idle"]
  /\ payload = [w \in Requests |-> AnyPayload]
  /\ started = [w \in Requests |-> 1]
  /\ recordId = [w \in Requests |-> 0]
  /\ seen = [w \in Requests |-> "processing"]
  /\ faults = 0
  /\ validUntil = 0
  /\ replies = {}
  /\ expired = FALSE
  /\ overran = FALSE

-----------------------------------------------------------------------------
Results == {"ok", "lost", "late"}

Outcome(r) ==
  IF r = "ok" THEN UNCHANGED faults
              ELSE faults < MaxFaults /\ faults' = faults + 1

Goto(w, label) ==
  /\ pc' = [pc EXCEPT ![w] = label]
  /\ UNCHANGED <<payload, started>>

\* What a request knew is gone with it.
Return(w) ==
  /\ pc' = [pc EXCEPT ![w] = "idle"]
  /\ payload' = [payload EXCEPT ![w] = AnyPayload]
  /\ started' = [started EXCEPT ![w] = 1]

Forget(w) ==
  /\ recordId' = [recordId EXCEPT ![w] = 0]
  /\ seen' = [seen EXCEPT ![w] = "processing"]

Lock(w) == started[w] + ProcessingTimeout
Expiry(w) == started[w] + TTL

-----------------------------------------------------------------------------
\* Execute up to the record it is about to insert.
Start(w, p) ==
  /\ pc[w] = "idle"
  /\ pc' = [pc EXCEPT ![w] = "create"]
  /\ payload' = [payload EXCEPT ![w] = p]
  /\ started' = [started EXCEPT ![w] = now]
  /\ UNCHANGED <<row, now, recordId, seen, faults, history>>

\* The insert; its caller owns the key exactly if it inserted a row.
Create(w, r) ==
  /\ pc[w] = "create"
  /\ Outcome(r)
  /\ IF r = "lost" THEN UNCHANGED row
                   ELSE CreateProcessing(payload[w], Lock(w), Expiry(w))
  /\ \/ r # "ok" /\ Return(w) /\ Forget(w)
     \/ r = "ok" /\ RowExists /\ Goto(w, "get") /\ UNCHANGED <<recordId, seen>>
     \/ /\ r = "ok" /\ ~RowExists
        /\ Goto(w, "execute")
        /\ recordId' = [recordId EXCEPT ![w] = rowId']
        /\ UNCHANGED seen
  /\ UNCHANGED <<now, history>>

FingerprintUnchecked(w) == TRUE

\* The fingerprint comparison after both reads of an existing row.
SameFingerprint(w) == fingerprint = payload[w]

Reread(w, label) ==
  /\ Goto(w, label)
  /\ recordId' = [recordId EXCEPT ![w] = rowId]
  /\ seen' = [seen EXCEPT ![w] = rowStatus]
  /\ UNCHANGED history

\* A failed attempt may be repeated once its backoff has passed.
BackoffOver(w) == lockedUntil <= started[w]

\* The switch on the status of an existing row: replay, conflict, or reclaim.
Switch(w) ==
  \/ /\ rowStatus = "succeeded"
     /\ Return(w) /\ Forget(w)
     /\ replies' = IF body = Truncated THEN replies
                   ELSE replies \cup {<<payload[w], body>>}
     /\ UNCHANGED <<validUntil, expired, overran>>
  \/ /\ \/ rowStatus = "processing"
        \/ rowStatus = "failed_retryable" /\ ~BackoffOver(w)
     /\ Return(w) /\ Forget(w)
     /\ UNCHANGED history
  \/ /\ rowStatus = "failed_retryable"
     /\ BackoffOver(w)
     /\ Reread(w, "reclaim")

\* The row is missing, is another payload's, or cannot be read.
Refuse(w) == Return(w) /\ Forget(w) /\ UNCHANGED history

\* The read of the row that kept Create from inserting.
Get(w, r) ==
  /\ pc[w] = "get"
  /\ r \in {"ok", "lost"}
  /\ Outcome(r)
  /\ IF r = "lost" \/ ~RowExists \/ ~SameFingerprint(w) THEN Refuse(w)
     ELSE IF expiresAt <= started[w] THEN Reread(w, "reclaimExpired")
     ELSE Switch(w)
  /\ UNCHANGED <<row, now>>

\* TryReclaim of an expired row, from the status that was read.
ReclaimExpired(w, r) ==
  /\ pc[w] = "reclaimExpired"
  /\ Outcome(r)
  /\ IF r = "lost" THEN UNCHANGED row
     ELSE TryReclaim(recordId[w], seen[w], started[w], Lock(w), Expiry(w))
  /\ \/ r # "ok" /\ Return(w) /\ Forget(w)
     \/ /\ r = "ok"
        /\ Goto(w, IF Reclaimable(recordId[w], seen[w], started[w])
                   THEN "execute" ELSE "getLatest")
        /\ UNCHANGED <<recordId, seen>>
  /\ UNCHANGED <<now, history>>

\* The second read, after somebody else reclaimed the row.
GetLatest(w, r) ==
  /\ pc[w] = "getLatest"
  /\ r \in {"ok", "lost"}
  /\ Outcome(r)
  /\ IF r = "lost" \/ ~RowExists \/ ~SameFingerprint(w) THEN Refuse(w)
     ELSE Switch(w)
  /\ UNCHANGED <<row, now>>

\* TryReclaim of a failed attempt.
Reclaim(w, r) ==
  /\ pc[w] = "reclaim"
  /\ Outcome(r)
  /\ IF r = "lost" THEN UNCHANGED row
     ELSE TryReclaim(recordId[w], "failed_retryable", started[w], Lock(w), Expiry(w))
  /\ IF r = "ok" /\ Reclaimable(recordId[w], "failed_retryable", started[w])
     THEN Goto(w, "execute") /\ UNCHANGED <<recordId, seen>>
     ELSE Return(w) /\ Forget(w)
  /\ UNCHANGED <<now, history>>

\* The business function: it succeeds, or fails without an effect.
Execute(w) ==
  /\ pc[w] = "execute"
  /\ \/ Goto(w, "markSucceeded") /\ validUntil' = Expiry(w)
     \/ Goto(w, "markFailed") /\ UNCHANGED validUntil
  /\ UNCHANGED <<row, now, recordId, seen, faults, replies, expired, overran>>

\* The response is stored whole or truncated, or cannot be encoded ("lost").
RecordSuccess(w, r) ==
  /\ pc[w] = "markSucceeded"
  /\ Outcome(r)
  /\ IF r = "lost" THEN UNCHANGED row
     ELSE \E b \in {payload[w], Truncated} :
            MarkSucceeded(recordId[w], b, Expiry(w))
  /\ Return(w) /\ Forget(w)
  /\ UNCHANGED <<now, history>>

RecordFailure(w, r) ==
  /\ pc[w] = "markFailed"
  /\ Outcome(r)
  /\ IF r = "lost" THEN UNCHANGED row
     ELSE MarkFailedRetryable(recordId[w], now + FailedRetryBackoff, Expiry(w))
  /\ Return(w) /\ Forget(w)
  /\ UNCHANGED <<now, history>>

\* The server dies while it serves the request.
Crash(w) ==
  /\ pc[w] # "idle"
  /\ faults < MaxFaults
  /\ faults' = faults + 1
  /\ Return(w) /\ Forget(w)
  /\ UNCHANGED <<row, now, history>>

\* IdempotencyCleanupService.
Cleanup ==
  /\ DeleteExpired(now)
  /\ UNCHANGED <<now, requestVars, faults, history>>

Tick ==
  /\ now < MaxTime
  /\ now' = now + 1
  /\ expired' = (expired \/ (RowExists /\ expiresAt <= now'))
  /\ overran' = \/ overran
                \/ \E w \in Requests : pc[w] # "idle" /\ Expiry(w) <= now'
  /\ UNCHANGED <<row, requestVars, faults, validUntil, replies>>

Step(w) ==
  \/ Execute(w)
  \/ \E r \in Results :
       \/ Create(w, r)
       \/ Get(w, r)
       \/ ReclaimExpired(w, r)
       \/ GetLatest(w, r)
       \/ Reclaim(w, r)
       \/ RecordSuccess(w, r)
       \/ RecordFailure(w, r)

Next ==
  \/ Cleanup
  \/ Tick
  \/ \E w \in Requests : Step(w) \/ Crash(w) \/ \E p \in Payloads : Start(w, p)

Spec == Init /\ [][Next]_vars

-----------------------------------------------------------------------------
Executing == {w \in Requests : pc[w] \in ExecutingPCs}

\* While no request is served for longer than the TTL, and until the row
\* first expires, no two requests with the key are in the business function
\* at the same time: a failed attempt is taken over by one of the requests
\* that saw it, and one that read the row before a second failure is too
\* late for it.
ExecutionExclusive ==
  ~expired /\ ~overran => \A v, w \in Executing : v = w

\* Under the same conditions the business function does not run again
\* after it succeeded, whatever statements fail and servers die: also when
\* the success could not be recorded.
SucceedsOnce ==
  ~expired /\ ~overran /\ now < validUntil => \A w \in Requests : pc[w] # "execute"

\* Under the same conditions a recorded success stays as it was recorded:
\* no late claim, failure or second response of another request overwrites
\* the row, although MarkSucceeded and MarkFailedRetryable find it by its id
\* alone, and later requests get the response that was stored.
SuccessIsKept ==
  [][RowExists /\ rowStatus = "succeeded" /\ ~expired /\ ~overran => UNCHANGED row]_vars

\* A replayed response is that of a request with the same payload, whatever
\* expires, is cleaned up and is reclaimed in between.
ReplayIsOwn == \A reply \in replies : reply[1] = reply[2]
=============================================================================

-------------------------- MODULE IdempotencyStore --------------------------
(***************************************************************************)
(* One row of idempotency_records, the row of one (scope, key), and the    *)
(* statements of repository/idempotency_repo.go on it.  The coordinator    *)
(* of idempotent requests and the system operation lock share the table.   *)
(*                                                                         *)
(* Times are ticks of a clock that starts at 1.  A NULL locked_until is 0: *)
(* every comparison of the code treats it as a time that has passed.       *)
(***************************************************************************)
EXTENDS Naturals

VARIABLES
  rowId,        \* id, 0 when there is no row
  fingerprint,  \* request_fingerprint
  rowStatus,    \* status
  lockedUntil,  \* locked_until
  expiresAt,    \* expires_at
  body,         \* response_body
  lastId        \* the sequence behind id

row == <<rowId, fingerprint, rowStatus, lockedUntil, expiresAt, body, lastId>>

RowStatuses == {"processing", "succeeded", "failed_retryable"}

RowExists == rowId # 0

\* No row yet; the other columns are then never read.
NoRow(anyFingerprint, anyBody) ==
  /\ rowId = 0
  /\ fingerprint = anyFingerprint
  /\ rowStatus = "processing"
  /\ lockedUntil = 0
  /\ expiresAt = 0
  /\ body = anyBody
  /\ lastId = 0

\* Mutant: ON CONFLICT DO UPDATE.
CreateOrReset(f, lock, expiry) ==
  /\ rowId' = IF RowExists THEN rowId ELSE lastId + 1
  /\ lastId' = IF RowExists THEN lastId ELSE lastId + 1
  /\ fingerprint' = IF RowExists THEN fingerprint ELSE f
  /\ rowStatus' = "processing"
  /\ lockedUntil' = lock
  /\ expiresAt' = expiry
  /\ UNCHANGED body

\* INSERT ... ON CONFLICT DO NOTHING, of a row in processing.
CreateProcessing(f, lock, expiry) ==
  IF RowExists
  THEN UNCHANGED row
  ELSE /\ rowId' = lastId + 1
       /\ lastId' = lastId + 1
       /\ fingerprint' = f
       /\ rowStatus' = "processing"
       /\ lockedUntil' = lock
       /\ expiresAt' = expiry
       /\ UNCHANGED body

ReclaimableInAnyStatus(id, from, now) ==
  RowExists /\ rowId = id /\ lockedUntil <= now
ReclaimableWhenLocked(id, from, now) ==
  RowExists /\ rowId = id /\ rowStatus = from

\* The WHERE clause of TryReclaim.
Reclaimable(id, from, now) ==
  RowExists /\ rowId = id /\ rowStatus = from /\ lockedUntil <= now

\* It keeps the row's fingerprint and response.
TryReclaim(id, from, now, lock, expiry) ==
  IF Reclaimable(id, from, now)
  THEN /\ rowStatus' = "processing"
       /\ lockedUntil' = lock
       /\ expiresAt' = expiry
       /\ UNCHANGED <<rowId, fingerprint, body, lastId>>
  ELSE UNCHANGED row

\* The WHERE clause of ExtendProcessingLock.
Extendable(id, f) ==
  RowExists /\ rowId = id /\ rowStatus = "processing" /\ fingerprint = f

ExtendProcessingLock(id, f, lock, expiry) ==
  IF Extendable(id, f)
  THEN /\ lockedUntil' = lock
       /\ expiresAt' = expiry
       /\ UNCHANGED <<rowId, fingerprint, rowStatus, body, lastId>>
  ELSE UNCHANGED row

\* Both Mark statements find the row by its id alone.
MarkSucceeded(id, b, expiry) ==
  IF RowExists /\ rowId = id
  THEN /\ rowStatus' = "succeeded"
       /\ body' = b
       /\ lockedUntil' = 0
       /\ expiresAt' = expiry
       /\ UNCHANGED <<rowId, fingerprint, lastId>>
  ELSE UNCHANGED row

MarkFailedRetryable(id, lock, expiry) ==
  IF RowExists /\ rowId = id
  THEN /\ rowStatus' = "failed_retryable"
       /\ lockedUntil' = lock
       /\ expiresAt' = expiry
       /\ UNCHANGED <<rowId, fingerprint, body, lastId>>
  ELSE UNCHANGED row

\* The cleanup job deletes the row once it has expired.
DeleteExpired(now) ==
  /\ RowExists
  /\ expiresAt <= now
  /\ rowId' = 0
  /\ UNCHANGED <<fingerprint, rowStatus, lockedUntil, expiresAt, body, lastId>>
=============================================================================

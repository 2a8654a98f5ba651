-------------------------- MODULE IdempotencyProofs --------------------------
(***************************************************************************)
(* The safety properties of Idempotency hold for any set of requests and   *)
(* payloads, any times and any number of faults.                           *)
(***************************************************************************)
EXTENDS Idempotency, TLAPS

\* Requests that remember a row they mean to take over or work for.
ClaimPCs == {"reclaimExpired", "reclaim"} \cup ExecutingPCs

\* A request started in the past, and it has not outlived its TTL unless
\* that was noted.
InFlight ==
  \A w \in Requests :
    /\ started[w] <= now
    /\ ~overran /\ pc[w] # "idle" => now < started[w] + TTL

\* Ids are not reused, and a row never changes its fingerprint: the row a
\* request remembers, if it is still there, is one of its own payload.
OwnRow ==
  \A w \in Requests :
    pc[w] \in ClaimPCs =>
      /\ recordId[w] # 0 /\ recordId[w] <= lastId
      /\ rowId = recordId[w] => fingerprint = payload[w]

\* A stored response is one of the row's payload.
StoredIsOwn ==
  RowExists /\ rowStatus = "succeeded" /\ body # Truncated => body = fingerprint

\* Before the first expiry a request in the business function holds the row
\* in processing, and is alone with it.
HoldsRow ==
  ~expired /\ ~overran =>
    /\ RowExists => now < expiresAt
    /\ \A w \in Requests :
         /\ pc[w] \notin {"reclaimExpired", "getLatest"}
         /\ pc[w] \in ExecutingPCs
              => RowExists /\ rowId = recordId[w] /\ rowStatus = "processing"
    /\ \A v, w \in Requests :
         pc[v] \in ExecutingPCs /\ pc[w] \in ExecutingPCs => v = w

\* Before the first expiry a success, recorded or not, keeps the row from
\* being claimed again.
StaysDone ==
  ~expired /\ ~overran /\ validUntil # 0 =>
    /\ RowExists
    /\ rowStatus # "failed_retryable"
    /\ \A w \in Requests : pc[w] \notin {"execute", "markFailed"}

IInv ==
  /\ TypeOK
  /\ InFlight
  /\ OwnRow
  /\ StoredIsOwn
  /\ ReplayIsOwn
  /\ HoldsRow
  /\ StaysDone

-----------------------------------------------------------------------------
LEMMA AnyPayloadType == AnyPayload \in Payloads
  BY PayloadAssumption DEF AnyPayload

(* Preservation of IInv, action by action. *)

LEMMA CleanupStep ==
  ASSUME IInv, Cleanup
  PROVE  IInv'
<1> USE TimeAssumption, PayloadAssumption, AnyPayloadType DEF IInv, TypeOK,
          RowExists, Cleanup, DeleteExpired, row, requestVars, history
<1>1. /\ rowId' \in Nat /\ lastId' \in Nat /\ rowId' <= lastId'
      /\ fingerprint' \in Payloads
      /\ rowStatus' \in RowStatuses
      /\ lockedUntil' \in Nat /\ expiresAt' \in Nat
      /\ body' \in Payloads \cup {Truncated}
  BY DEF RowStatuses
<1>2. /\ pc' \in [Requests -> PCs]
      /\ payload' \in [Requests -> Payloads]
      /\ started' \in [Requests -> 1 .. MaxTime]
      /\ recordId' \in [Requests -> Nat]
      /\ seen' \in [Requests -> RowStatuses]
  BY DEF PCs, ExecutingPCs, RowStatuses
<1>3. /\ now' \in 1 .. MaxTime
      /\ faults' \in 0 .. MaxFaults
      /\ validUntil' \in Nat
  OBVIOUS
<1>4. expired' \in BOOLEAN /\ overran' \in BOOLEAN
  OBVIOUS
<1>5. replies' \subseteq Payloads \X Payloads
  OBVIOUS
<1>6. TypeOK'
  BY <1>1, <1>2, <1>3, <1>4, <1>5
<1>7. InFlight'
  BY DEF InFlight, PCs, ExecutingPCs
<1>8. OwnRow'
  BY DEF OwnRow, ClaimPCs, PCs, ExecutingPCs
<1>9. StoredIsOwn'
  BY DEF StoredIsOwn, OwnRow, ClaimPCs, ExecutingPCs
<1>10. ReplayIsOwn'
  BY DEF ReplayIsOwn, StoredIsOwn
<1>11. HoldsRow'
  BY DEF HoldsRow, InFlight, OwnRow, ClaimPCs, PCs, ExecutingPCs, RowStatuses
<1>12. StaysDone'
  BY DEF StaysDone, HoldsRow, InFlight, PCs, ExecutingPCs, RowStatuses
<1> QED
  BY <1>6, <1>7, <1>8, <1>9, <1>10, <1>11, <1>12

LEMMA TickStep ==
  ASSUME IInv, Tick
  PROVE  IInv'
<1> USE TimeAssumption, PayloadAssumption, AnyPayloadType DEF IInv, TypeOK,
          RowExists, Tick, Expiry, row, requestVars, history
<1>1. /\ rowId' \in Nat /\ lastId' \in Nat /\ rowId' <= lastId'
      /\ fingerprint' \in Payloads
      /\ rowStatus' \in RowStatuses
      /\ lockedUntil' \in Nat /\ expiresAt' \in Nat
      /\ body' \in Payloads \cup {Truncated}
  BY DEF RowStatuses
<1>2. /\ pc' \in [Requests -> PCs]
      /\ payload' \in [Requests -> Payloads]
      /\ started' \in [Requests -> 1 .. MaxTime]
      /\ recordId' \in [Requests -> Nat]
      /\ seen' \in [Requests -> RowStatuses]
  BY DEF PCs, ExecutingPCs, RowStatuses
<1>3. /\ now' \in 1 .. MaxTime
      /\ faults' \in 0 .. MaxFaults
      /\ validUntil' \in Nat
  OBVIOUS
<1>4. expired' \in BOOLEAN /\ overran' \in BOOLEAN
  OBVIOUS
<1>5. replies' \subseteq Payloads \X Payloads
  OBVIOUS
<1>6. TypeOK'
  BY <1>1, <1>2, <1>3, <1>4, <1>5
<1>7. InFlight'
  BY DEF InFlight, PCs, ExecutingPCs
<1>8. OwnRow'
  BY DEF OwnRow, ClaimPCs, PCs, ExecutingPCs
<1>9. StoredIsOwn'
  BY DEF StoredIsOwn, OwnRow, ClaimPCs, ExecutingPCs
<1>10. ReplayIsOwn'
  BY DEF ReplayIsOwn, StoredIsOwn
<1>11. HoldsRow'
  <2> SUFFICES ASSUME ~expired', ~overran' PROVE HoldsRow'
    BY DEF HoldsRow
  <2>1. ~expired /\ ~overran
    OBVIOUS
  <2>2. RowExists => ~(expiresAt <= now')
    OBVIOUS
  <2>3. RowExists' => now' < expiresAt'
    BY <2>2
  <2> QED
    BY <2>1, <2>3 DEF HoldsRow
<1>12. StaysDone'
  BY DEF StaysDone, HoldsRow, InFlight, PCs, ExecutingPCs, RowStatuses
<1> QED
  BY <1>6, <1>7, <1>8, <1>9, <1>10, <1>11, <1>12

LEMMA StartStep ==
  ASSUME IInv, NEW w \in Requests, NEW p \in Payloads, Start(w, p)
  PROVE  IInv'
<1> USE TimeAssumption, PayloadAssumption, AnyPayloadType DEF IInv, TypeOK,
          RowExists, Start, row, requestVars, history
<1>1. /\ rowId' \in Nat /\ lastId' \in Nat /\ rowId' <= lastId'
      /\ fingerprint' \in Payloads
      /\ rowStatus' \in RowStatuses
      /\ lockedUntil' \in Nat /\ expiresAt' \in Nat
      /\ body' \in Payloads \cup {Truncated}
  BY DEF RowStatuses
<1>2. /\ pc' \in [Requests -> PCs]
      /\ payload' \in [Requests -> Payloads]
      /\ started' \in [Requests -> 1 .. MaxTime]
      /\ recordId' \in [Requests -> Nat]
      /\ seen' \in [Requests -> RowStatuses]
  BY DEF PCs, ExecutingPCs, RowStatuses
<1>3. /\ now' \in 1 .. MaxTime
      /\ faults' \in 0 .. MaxFaults
      /\ validUntil' \in Nat
  OBVIOUS
<1>4. expired' \in BOOLEAN /\ overran' \in BOOLEAN
  OBVIOUS
<1>5. replies' \subseteq Payloads \X Payloads
  OBVIOUS
<1>6. TypeOK'
  BY <1>1, <1>2, <1>3, <1>4, <1>5
<1>7. InFlight'
  BY DEF InFlight, PCs, ExecutingPCs
<1>8. OwnRow'
  BY DEF OwnRow, ClaimPCs, PCs, ExecutingPCs
<1>9. StoredIsOwn'
  BY DEF StoredIsOwn, OwnRow, ClaimPCs, ExecutingPCs
<1>10. ReplayIsOwn'
  BY DEF ReplayIsOwn, StoredIsOwn
<1>11. HoldsRow'
  BY DEF HoldsRow, InFlight, OwnRow, ClaimPCs, PCs, ExecutingPCs, RowStatuses
<1>12. StaysDone'
  BY DEF StaysDone, HoldsRow, InFlight, PCs, ExecutingPCs, RowStatuses
<1> QED
  BY <1>6, <1>7, <1>8, <1>9, <1>10, <1>11, <1>12

LEMMA CrashStep ==
  ASSUME IInv, NEW w \in Requests, Crash(w)
  PROVE  IInv'
<1> USE TimeAssumption, PayloadAssumption, AnyPayloadType DEF IInv, TypeOK,
          RowExists, Crash, Return, Forget, row, requestVars, history
<1>1. /\ rowId' \in Nat /\ lastId' \in Nat /\ rowId' <= lastId'
      /\ fingerprint' \in Payloads
      /\ rowStatus' \in RowStatuses
      /\ lockedUntil' \in Nat /\ expiresAt' \in Nat
      /\ body' \in Payloads \cup {Truncated}
  BY DEF RowStatuses
<1>2. /\ pc' \in [Requests -> PCs]
      /\ payload' \in [Requests -> Payloads]
      /\ started' \in [Requests -> 1 .. MaxTime]
      /\ recordId' \in [Requests -> Nat]
      /\ seen' \in [Requests -> RowStatuses]
  BY DEF PCs, ExecutingPCs, RowStatuses
<1>3. /\ now' \in 1 .. MaxTime
      /\ faults' \in 0 .. MaxFaults
      /\ validUntil' \in Nat
  OBVIOUS
<1>4. expired' \in BOOLEAN /\ overran' \in BOOLEAN
  OBVIOUS
<1>5. replies' \subseteq Payloads \X Payloads
  OBVIOUS
<1>6. TypeOK'
  BY <1>1, <1>2, <1>3, <1>4, <1>5
<1>7. InFlight'
  BY DEF InFlight, PCs, ExecutingPCs
<1>8. OwnRow'
  BY DEF OwnRow, ClaimPCs, PCs, ExecutingPCs
<1>9. StoredIsOwn'
  BY DEF StoredIsOwn, OwnRow, ClaimPCs, ExecutingPCs
<1>10. ReplayIsOwn'
  BY DEF ReplayIsOwn, StoredIsOwn
<1>11. HoldsRow'
  BY DEF HoldsRow, InFlight, OwnRow, ClaimPCs, PCs, ExecutingPCs, RowStatuses
<1>12. StaysDone'
  BY DEF StaysDone, HoldsRow, InFlight, PCs, ExecutingPCs, RowStatuses
<1> QED
  BY <1>6, <1>7, <1>8, <1>9, <1>10, <1>11, <1>12

LEMMA ExecuteStep ==
  ASSUME IInv, NEW w \in Requests, Execute(w)
  PROVE  IInv'
<1> USE TimeAssumption, PayloadAssumption, AnyPayloadType DEF IInv, TypeOK,
          RowExists, Execute, Goto, Expiry, row, requestVars, history
<1>1. /\ rowId' \in Nat /\ lastId' \in Nat /\ rowId' <= lastId'
      /\ fingerprint' \in Payloads
      /\ rowStatus' \in RowStatuses
      /\ lockedUntil' \in Nat /\ expiresAt' \in Nat
      /\ body' \in Payloads \cup {Truncated}
  BY DEF RowStatuses
<1>2. /\ pc' \in [Requests -> PCs]
      /\ payload' \in [Requests -> Payloads]
      /\ started' \in [Requests -> 1 .. MaxTime]
      /\ recordId' \in [Requests -> Nat]
      /\ seen' \in [Requests -> RowStatuses]
  BY DEF PCs, ExecutingPCs, RowStatuses
<1>3. /\ now' \in 1 .. MaxTime
      /\ faults' \in 0 .. MaxFaults
      /\ validUntil' \in Nat
  OBVIOUS
<1>4. expired' \in BOOLEAN /\ overran' \in BOOLEAN
  OBVIOUS
<1>5. replies' \subseteq Payloads \X Payloads
  OBVIOUS
<1>6. TypeOK'
  BY <1>1, <1>2, <1>3, <1>4, <1>5
<1>7. InFlight'
  BY DEF InFlight, PCs, ExecutingPCs
<1>8. OwnRow'
  BY DEF OwnRow, ClaimPCs, PCs, ExecutingPCs
<1>9. StoredIsOwn'
  BY DEF StoredIsOwn, OwnRow, ClaimPCs, ExecutingPCs
<1>10. ReplayIsOwn'
  BY DEF ReplayIsOwn, StoredIsOwn
<1>11. HoldsRow'
  BY DEF HoldsRow, InFlight, OwnRow, ClaimPCs, PCs, ExecutingPCs, RowStatuses
<1>12. StaysDone'
  BY DEF StaysDone, HoldsRow, InFlight, PCs, ExecutingPCs, RowStatuses
<1> QED
  BY <1>6, <1>7, <1>8, <1>9, <1>10, <1>11, <1>12

LEMMA CreateStep ==
  ASSUME IInv, NEW w \in Requests, NEW r \in Results, Create(w, r)
  PROVE  IInv'
<1> USE TimeAssumption, PayloadAssumption, AnyPayloadType DEF IInv, TypeOK,
          RowExists, Create, CreateProcessing, Goto, Return, Forget, Lock, Expiry,
          Outcome, Results, row, requestVars, history
<1>1. /\ rowId' \in Nat /\ lastId' \in Nat /\ rowId' <= lastId'
      /\ fingerprint' \in Payloads
      /\ rowStatus' \in RowStatuses
      /\ lockedUntil' \in Nat /\ expiresAt' \in Nat
      /\ body' \in Payloads \cup {Truncated}
  BY DEF RowStatuses
<1>2. /\ pc' \in [Requests -> PCs]
      /\ payload' \in [Requests -> Payloads]
      /\ started' \in [Requests -> 1 .. MaxTime]
      /\ recordId' \in [Requests -> Nat]
      /\ seen' \in [Requests -> RowStatuses]
  BY DEF PCs, ExecutingPCs, RowStatuses
<1>3. /\ now' \in 1 .. MaxTime
      /\ faults' \in 0 .. MaxFaults
      /\ validUntil' \in Nat
  OBVIOUS
<1>4. expired' \in BOOLEAN /\ overran' \in BOOLEAN
  OBVIOUS
<1>5. replies' \subseteq Payloads \X Payloads
  OBVIOUS
<1>6. TypeOK'
  BY <1>1, <1>2, <1>3, <1>4, <1>5
<1>7. InFlight'
  BY DEF InFlight, PCs, ExecutingPCs
<1>8. OwnRow'
  BY DEF OwnRow, ClaimPCs, PCs, ExecutingPCs
<1>9. StoredIsOwn'
  BY DEF StoredIsOwn, OwnRow, ClaimPCs, ExecutingPCs
<1>10. ReplayIsOwn'
  BY DEF ReplayIsOwn, StoredIsOwn
<1>11. HoldsRow'
  BY DEF HoldsRow, InFlight, OwnRow, ClaimPCs, PCs, ExecutingPCs, RowStatuses
<1>12. StaysDone'
  BY DEF StaysDone, HoldsRow, InFlight, PCs, ExecutingPCs, RowStatuses
<1> QED
  BY <1>6, <1>7, <1>8, <1>9, <1>10, <1>11, <1>12

LEMMA GetStep ==
  ASSUME IInv, NEW w \in Requests, NEW r \in Results, Get(w, r)
  PROVE  IInv'
<1> USE TimeAssumption, PayloadAssumption, AnyPayloadType DEF IInv, TypeOK,
          RowExists, Get, Refuse, Reread, Switch, BackoffOver, SameFingerprint, Goto,
          Return, Forget, Outcome, Results, row, requestVars, history
<1>1. /\ rowId' \in Nat /\ lastId' \in Nat /\ rowId' <= lastId'
      /\ fingerprint' \in Payloads
      /\ rowStatus' \in RowStatuses
      /\ lockedUntil' \in Nat /\ expiresAt' \in Nat
      /\ body' \in Payloads \cup {Truncated}
  BY DEF RowStatuses
<1>2. /\ pc' \in [Requests -> PCs]
      /\ payload' \in [Requests -> Payloads]
      /\ started' \in [Requests -> 1 .. MaxTime]
      /\ recordId' \in [Requests -> Nat]
      /\ seen' \in [Requests -> RowStatuses]
  BY DEF PCs, ExecutingPCs, RowStatuses
<1>3. /\ now' \in 1 .. MaxTime
      /\ faults' \in 0 .. MaxFaults
      /\ validUntil' \in Nat
  OBVIOUS
<1>4. expired' \in BOOLEAN /\ overran' \in BOOLEAN
  OBVIOUS
<1>5. replies' \subseteq Payloads \X Payloads
  OBVIOUS
<1>6. TypeOK'
  BY <1>1, <1>2, <1>3, <1>4, <1>5
<1>7. InFlight'
  BY DEF InFlight, PCs, ExecutingPCs
<1>8. OwnRow'
  BY DEF OwnRow, ClaimPCs, PCs, ExecutingPCs
<1>9. StoredIsOwn'
  BY DEF StoredIsOwn, OwnRow, ClaimPCs, ExecutingPCs
<1>10. ReplayIsOwn'
  BY DEF ReplayIsOwn, StoredIsOwn
<1>11. HoldsRow'
  BY DEF HoldsRow, InFlight, OwnRow, ClaimPCs, PCs, ExecutingPCs, RowStatuses
<1>12. StaysDone'
  BY DEF StaysDone, HoldsRow, InFlight, PCs, ExecutingPCs, RowStatuses
<1> QED
  BY <1>6, <1>7, <1>8, <1>9, <1>10, <1>11, <1>12

LEMMA ReclaimExpiredStep ==
  ASSUME IInv, NEW w \in Requests, NEW r \in Results, ReclaimExpired(w, r)
  PROVE  IInv'
<1> USE TimeAssumption, PayloadAssumption, AnyPayloadType DEF IInv, TypeOK,
          RowExists, ReclaimExpired, TryReclaim, Reclaimable, Goto, Return, Forget,
          Lock, Expiry, Outcome, Results, row, requestVars, history
<1>1. /\ rowId' \in Nat /\ lastId' \in Nat /\ rowId' <= lastId'
      /\ fingerprint' \in Payloads
      /\ rowStatus' \in RowStatuses
      /\ lockedUntil' \in Nat /\ expiresAt' \in Nat
      /\ body' \in Payloads \cup {Truncated}
  BY DEF RowStatuses
<1>2. /\ pc' \in [Requests -> PCs]
      /\ payload' \in [Requests -> Payloads]
      /\ started' \in [Requests -> 1 .. MaxTime]
      /\ recordId' \in [Requests -> Nat]
      /\ seen' \in [Requests -> RowStatuses]
  BY DEF PCs, ExecutingPCs, RowStatuses
<1>3. /\ now' \in 1 .. MaxTime
      /\ faults' \in 0 .. MaxFaults
      /\ validUntil' \in Nat
  OBVIOUS
<1>4. expired' \in BOOLEAN /\ overran' \in BOOLEAN
  OBVIOUS
<1>5. replies' \subseteq Payloads \X Payloads
  OBVIOUS
<1>6. TypeOK'
  BY <1>1, <1>2, <1>3, <1>4, <1>5
<1>7. InFlight'
  BY DEF InFlight, PCs, ExecutingPCs
<1>8. OwnRow'
  BY DEF OwnRow, ClaimPCs, PCs, ExecutingPCs
<1>9. StoredIsOwn'
  BY DEF StoredIsOwn, OwnRow, ClaimPCs, ExecutingPCs
<1>10. ReplayIsOwn'
  BY DEF ReplayIsOwn, StoredIsOwn
<1>11. HoldsRow'
  BY DEF HoldsRow, InFlight, OwnRow, ClaimPCs, PCs, ExecutingPCs, RowStatuses
<1>12. StaysDone'
  BY DEF StaysDone, HoldsRow, InFlight, PCs, ExecutingPCs, RowStatuses
<1> QED
  BY <1>6, <1>7, <1>8, <1>9, <1>10, <1>11, <1>12

LEMMA GetLatestStep ==
  ASSUME IInv, NEW w \in Requests, NEW r \in Results, GetLatest(w, r)
  PROVE  IInv'
<1> USE TimeAssumption, PayloadAssumption, AnyPayloadType DEF IInv, TypeOK,
          RowExists, GetLatest, Refuse, Reread, Switch, BackoffOver, SameFingerprint,
          Goto, Return, Forget, Outcome, Results, row, requestVars, history
<1>1. /\ rowId' \in Nat /\ lastId' \in Nat /\ rowId' <= lastId'
      /\ fingerprint' \in Payloads
      /\ rowStatus' \in RowStatuses
      /\ lockedUntil' \in Nat /\ expiresAt' \in Nat
      /\ body' \in Payloads \cup {Truncated}
  BY DEF RowStatuses
<1>2. /\ pc' \in [Requests -> PCs]
      /\ payload' \in [Requests -> Payloads]
      /\ started' \in [Requests -> 1 .. MaxTime]
      /\ recordId' \in [Requests -> Nat]
      /\ seen' \in [Requests -> RowStatuses]
  BY DEF PCs, ExecutingPCs, RowStatuses
<1>3. /\ now' \in 1 .. MaxTime
      /\ faults' \in 0 .. MaxFaults
      /\ validUntil' \in Nat
  OBVIOUS
<1>4. expired' \in BOOLEAN /\ overran' \in BOOLEAN
  OBVIOUS
<1>5. replies' \subseteq Payloads \X Payloads
  OBVIOUS
<1>6. TypeOK'
  BY <1>1, <1>2, <1>3, <1>4, <1>5
<1>7. InFlight'
  BY DEF InFlight, PCs, ExecutingPCs
<1>8. OwnRow'
  BY DEF OwnRow, ClaimPCs, PCs, ExecutingPCs
<1>9. StoredIsOwn'
  BY DEF StoredIsOwn, OwnRow, ClaimPCs, ExecutingPCs
<1>10. ReplayIsOwn'
  BY DEF ReplayIsOwn, StoredIsOwn
<1>11. HoldsRow'
  BY DEF HoldsRow, InFlight, OwnRow, ClaimPCs, PCs, ExecutingPCs, RowStatuses
<1>12. StaysDone'
  BY DEF StaysDone, HoldsRow, InFlight, PCs, ExecutingPCs, RowStatuses
<1> QED
  BY <1>6, <1>7, <1>8, <1>9, <1>10, <1>11, <1>12

LEMMA ReclaimStep ==
  ASSUME IInv, NEW w \in Requests, NEW r \in Results, Reclaim(w, r)
  PROVE  IInv'
<1> USE TimeAssumption, PayloadAssumption, AnyPayloadType DEF IInv, TypeOK,
          RowExists, Reclaim, TryReclaim, Reclaimable, Goto, Return, Forget, Lock,
          Expiry, Outcome, Results, row, requestVars, history
<1>1. /\ rowId' \in Nat /\ lastId' \in Nat /\ rowId' <= lastId'
      /\ fingerprint' \in Payloads
      /\ rowStatus' \in RowStatuses
      /\ lockedUntil' \in Nat /\ expiresAt' \in Nat
      /\ body' \in Payloads \cup {Truncated}
  BY DEF RowStatuses
<1>2. /\ pc' \in [Requests -> PCs]
      /\ payload' \in [Requests -> Payloads]
      /\ started' \in [Requests -> 1 .. MaxTime]
      /\ recordId' \in [Requests -> Nat]
      /\ seen' \in [Requests -> RowStatuses]
  BY DEF PCs, ExecutingPCs, RowStatuses
<1>3. /\ now' \in 1 .. MaxTime
      /\ faults' \in 0 .. MaxFaults
      /\ validUntil' \in Nat
  OBVIOUS
<1>4. expired' \in BOOLEAN /\ overran' \in BOOLEAN
  OBVIOUS
<1>5. replies' \subseteq Payloads \X Payloads
  OBVIOUS
<1>6. TypeOK'
  BY <1>1, <1>2, <1>3, <1>4, <1>5
<1>7. InFlight'
  BY DEF InFlight, PCs, ExecutingPCs
<1>8. OwnRow'
  BY DEF OwnRow, ClaimPCs, PCs, ExecutingPCs
<1>9. StoredIsOwn'
  BY DEF StoredIsOwn, OwnRow, ClaimPCs, ExecutingPCs
<1>10. ReplayIsOwn'
  BY DEF ReplayIsOwn, StoredIsOwn
<1>11. HoldsRow'
  BY DEF HoldsRow, InFlight, OwnRow, ClaimPCs, PCs, ExecutingPCs, RowStatuses
<1>12. StaysDone'
  BY DEF StaysDone, HoldsRow, InFlight, PCs, ExecutingPCs, RowStatuses
<1> QED
  BY <1>6, <1>7, <1>8, <1>9, <1>10, <1>11, <1>12

LEMMA RecordSuccessStep ==
  ASSUME IInv, NEW w \in Requests, NEW r \in Results, RecordSuccess(w, r)
  PROVE  IInv'
<1> USE TimeAssumption, PayloadAssumption, AnyPayloadType DEF IInv, TypeOK,
          RowExists, RecordSuccess, MarkSucceeded, Return, Forget, Expiry, Outcome,
          Results, row, requestVars, history
<1>1. /\ rowId' \in Nat /\ lastId' \in Nat /\ rowId' <= lastId'
      /\ fingerprint' \in Payloads
      /\ rowStatus' \in RowStatuses
      /\ lockedUntil' \in Nat /\ expiresAt' \in Nat
      /\ body' \in Payloads \cup {Truncated}
  BY DEF RowStatuses
<1>2. /\ pc' \in [Requests -> PCs]
      /\ payload' \in [Requests -> Payloads]
      /\ started' \in [Requests -> 1 .. MaxTime]
      /\ recordId' \in [Requests -> Nat]
      /\ seen' \in [Requests -> RowStatuses]
  BY DEF PCs, ExecutingPCs, RowStatuses
<1>3. /\ now' \in 1 .. MaxTime
      /\ faults' \in 0 .. MaxFaults
      /\ validUntil' \in Nat
  OBVIOUS
<1>4. expired' \in BOOLEAN /\ overran' \in BOOLEAN
  OBVIOUS
<1>5. replies' \subseteq Payloads \X Payloads
  OBVIOUS
<1>6. TypeOK'
  BY <1>1, <1>2, <1>3, <1>4, <1>5
<1>7. InFlight'
  BY DEF InFlight, PCs, ExecutingPCs
<1>8. OwnRow'
  BY DEF OwnRow, ClaimPCs, PCs, ExecutingPCs
<1>9. StoredIsOwn'
  BY DEF StoredIsOwn, OwnRow, ClaimPCs, ExecutingPCs
<1>10. ReplayIsOwn'
  BY DEF ReplayIsOwn, StoredIsOwn
<1>11. HoldsRow'
  BY DEF HoldsRow, InFlight, OwnRow, ClaimPCs, PCs, ExecutingPCs, RowStatuses
<1>12. StaysDone'
  BY DEF StaysDone, HoldsRow, InFlight, PCs, ExecutingPCs, RowStatuses
<1> QED
  BY <1>6, <1>7, <1>8, <1>9, <1>10, <1>11, <1>12

LEMMA RecordFailureStep ==
  ASSUME IInv, NEW w \in Requests, NEW r \in Results, RecordFailure(w, r)
  PROVE  IInv'
<1> USE TimeAssumption, PayloadAssumption, AnyPayloadType DEF IInv, TypeOK,
          RowExists, RecordFailure, MarkFailedRetryable, Return, Forget, Expiry,
          Outcome, Results, row, requestVars, history
<1>1. /\ rowId' \in Nat /\ lastId' \in Nat /\ rowId' <= lastId'
      /\ fingerprint' \in Payloads
      /\ rowStatus' \in RowStatuses
      /\ lockedUntil' \in Nat /\ expiresAt' \in Nat
      /\ body' \in Payloads \cup {Truncated}
  BY DEF RowStatuses
<1>2. /\ pc' \in [Requests -> PCs]
      /\ payload' \in [Requests -> Payloads]
      /\ started' \in [Requests -> 1 .. MaxTime]
      /\ recordId' \in [Requests -> Nat]
      /\ seen' \in [Requests -> RowStatuses]
  BY DEF PCs, ExecutingPCs, RowStatuses
<1>3. /\ now' \in 1 .. MaxTime
      /\ faults' \in 0 .. MaxFaults
      /\ validUntil' \in Nat
  OBVIOUS
<1>4. expired' \in BOOLEAN /\ overran' \in BOOLEAN
  OBVIOUS
<1>5. replies' \subseteq Payloads \X Payloads
  OBVIOUS
<1>6. TypeOK'
  BY <1>1, <1>2, <1>3, <1>4, <1>5
<1>7. InFlight'
  BY DEF InFlight, PCs, ExecutingPCs
<1>8. OwnRow'
  BY DEF OwnRow, ClaimPCs, PCs, ExecutingPCs
<1>9. StoredIsOwn'
  BY DEF StoredIsOwn, OwnRow, ClaimPCs, ExecutingPCs
<1>10. ReplayIsOwn'
  BY DEF ReplayIsOwn, StoredIsOwn
<1>11. HoldsRow'
  BY DEF HoldsRow, InFlight, OwnRow, ClaimPCs, PCs, ExecutingPCs, RowStatuses
<1>12. StaysDone'
  BY DEF StaysDone, HoldsRow, InFlight, PCs, ExecutingPCs, RowStatuses
<1> QED
  BY <1>6, <1>7, <1>8, <1>9, <1>10, <1>11, <1>12

-----------------------------------------------------------------------------
(* The theorems. *)

LEMMA InitIInv == Init => IInv
<1> SUFFICES ASSUME Init PROVE IInv
  OBVIOUS
<1> USE TimeAssumption, PayloadAssumption, AnyPayloadType DEF Init, NoRow, RowExists
<1>1. TypeOK
  <2>1. 1 \in 1 .. MaxTime /\ 0 \in 0 .. MaxFaults
    OBVIOUS
  <2>2. /\ rowId \in Nat /\ lastId \in Nat /\ rowId <= lastId
        /\ fingerprint \in Payloads /\ rowStatus \in RowStatuses
        /\ lockedUntil \in Nat /\ expiresAt \in Nat /\ validUntil \in Nat
        /\ body \in Payloads \cup {Truncated}
    BY DEF RowStatuses
  <2>3. /\ pc \in [Requests -> PCs] /\ payload \in [Requests -> Payloads]
        /\ started \in [Requests -> 1 .. MaxTime]
        /\ recordId \in [Requests -> Nat] /\ seen \in [Requests -> RowStatuses]
    BY <2>1 DEF PCs, RowStatuses
  <2>4. expired \in BOOLEAN /\ overran \in BOOLEAN
    OBVIOUS
  <2>5. replies \subseteq Payloads \X Payloads
    OBVIOUS
  <2>6. now \in 1 .. MaxTime /\ faults \in 0 .. MaxFaults
    BY <2>1
  <2> QED
    BY <2>2, <2>3, <2>4, <2>5, <2>6 DEF TypeOK
<1>2. InFlight
  BY DEF InFlight
<1>3. OwnRow
  BY DEF OwnRow, ClaimPCs, ExecutingPCs
<1>4. StoredIsOwn /\ ReplayIsOwn
  BY DEF StoredIsOwn, ReplayIsOwn
<1>5. HoldsRow /\ StaysDone
  BY DEF HoldsRow, StaysDone, ExecutingPCs
<1> QED
  BY <1>1, <1>2, <1>3, <1>4, <1>5 DEF IInv

LEMMA NextIInv == IInv /\ [Next]_vars => IInv'
<1> SUFFICES ASSUME IInv, [Next]_vars PROVE IInv'
  OBVIOUS
<1>1. CASE Cleanup
  BY <1>1, CleanupStep
<1>2. CASE Tick
  BY <1>2, TickStep
<1>3. ASSUME NEW w \in Requests, NEW p \in Payloads, Start(w, p)
      PROVE  IInv'
  BY <1>3, StartStep
<1>4. ASSUME NEW w \in Requests, Crash(w)
      PROVE  IInv'
  BY <1>4, CrashStep
<1>5. ASSUME NEW w \in Requests, Execute(w)
      PROVE  IInv'
  BY <1>5, ExecuteStep
<1>6. ASSUME NEW w \in Requests, NEW r \in Results, Create(w, r)
      PROVE  IInv'
  BY <1>6, CreateStep
<1>7. ASSUME NEW w \in Requests, NEW r \in Results, Get(w, r)
      PROVE  IInv'
  BY <1>7, GetStep
<1>8. ASSUME NEW w \in Requests, NEW r \in Results, ReclaimExpired(w, r)
      PROVE  IInv'
  BY <1>8, ReclaimExpiredStep
<1>9. ASSUME NEW w \in Requests, NEW r \in Results, GetLatest(w, r)
      PROVE  IInv'
  BY <1>9, GetLatestStep
<1>10. ASSUME NEW w \in Requests, NEW r \in Results, Reclaim(w, r)
      PROVE  IInv'
  BY <1>10, ReclaimStep
<1>11. ASSUME NEW w \in Requests, NEW r \in Results, RecordSuccess(w, r)
      PROVE  IInv'
  BY <1>11, RecordSuccessStep
<1>12. ASSUME NEW w \in Requests, NEW r \in Results, RecordFailure(w, r)
      PROVE  IInv'
  BY <1>12, RecordFailureStep
<1>13. CASE UNCHANGED vars
  BY <1>13 DEF vars, row, requestVars, history, IInv, TypeOK, InFlight, OwnRow,
     StoredIsOwn, ReplayIsOwn, HoldsRow, StaysDone, RowExists
<1> QED
  BY <1>1, <1>2, <1>3, <1>4, <1>5, <1>6, <1>7, <1>8, <1>9, <1>10, <1>11, <1>12,
     <1>13
  DEF Next, Step

\* The invariant that carries all the others.
THEOREM IdempotencyInvariant == Spec => []IInv
<1>1. Init => IInv
  BY InitIInv
<1>2. IInv /\ [Next]_vars => IInv'
  BY NextIInv
<1> QED
  BY <1>1, <1>2, PTL DEF Spec

\* The row, the requests and the history keep their types.
THEOREM IdempotencyTypeCorrect == Spec => []TypeOK
<1>1. IInv => TypeOK
  BY DEF IInv
<1> QED
  BY <1>1, IdempotencyInvariant, PTL

\* No replay answers a request with another payload's response.
THEOREM OwnReplay == Spec => []ReplayIsOwn
<1>1. IInv => ReplayIsOwn
  BY DEF IInv
<1> QED
  BY <1>1, IdempotencyInvariant, PTL

\* Until the first expiry, one request at a time executes.
THEOREM ExclusiveExecution == Spec => []ExecutionExclusive
<1>1. IInv => ExecutionExclusive
  BY DEF IInv, HoldsRow, ExecutionExclusive, Executing
<1> QED
  BY <1>1, IdempotencyInvariant, PTL

\* Until the first expiry, nothing executes after a success.
THEOREM SingleSuccess == Spec => []SucceedsOnce
<1>1. IInv => SucceedsOnce
  BY DEF IInv, TypeOK, StaysDone, SucceedsOnce
<1> QED
  BY <1>1, IdempotencyInvariant, PTL

-----------------------------------------------------------------------------
\* Nobody is about to claim or to mark a row that was recorded as a success
\* before the first expiry: a request past a claim holds the row in
\* processing, and one that read a failed row finds its status changed.
LEMMA RecordedRowKept ==
  ASSUME IInv, RowExists, rowStatus = "succeeded", ~expired, ~overran, [Next]_vars
  PROVE  UNCHANGED row
<1> USE DEF IInv, TypeOK
<1>1. \A w \in Requests : pc[w] \notin ExecutingPCs \cup {"reclaimExpired", "getLatest"}
  BY DEF HoldsRow
<1>2. ASSUME NEW w \in Requests, NEW r \in Results, Create(w, r)
      PROVE  UNCHANGED row
  BY <1>2 DEF Create, CreateProcessing
<1>3. ASSUME NEW w \in Requests, NEW r \in Results, Reclaim(w, r)
      PROVE  UNCHANGED row
  BY <1>3 DEF Reclaim, TryReclaim, Reclaimable
<1>4. ASSUME NEW w \in Requests, NEW r \in Results,
             ReclaimExpired(w, r) \/ RecordSuccess(w, r) \/ RecordFailure(w, r)
      PROVE  FALSE
  BY <1>1, <1>4 DEF ReclaimExpired, RecordSuccess, RecordFailure, ExecutingPCs
<1>5. ASSUME Cleanup
      PROVE  FALSE
  BY <1>5 DEF Cleanup, DeleteExpired, HoldsRow
<1>6. ASSUME NEW w \in Requests, NEW r \in Results, Get(w, r) \/ GetLatest(w, r)
      PROVE  UNCHANGED row
  BY <1>6 DEF Get, GetLatest
<1>7. ASSUME NEW w \in Requests, Execute(w) \/ Crash(w) \/ \E p \in Payloads : Start(w, p)
      PROVE  UNCHANGED row
  BY <1>7 DEF Execute, Crash, Start
<1>8. CASE Tick \/ UNCHANGED vars
  BY <1>8 DEF Tick, vars
<1> QED
  BY <1>2, <1>3, <1>4, <1>5, <1>6, <1>7, <1>8 DEF Next, Step

\* Until the first expiry, a recorded success is never overwritten.
THEOREM RecordedSuccessKept == Spec => SuccessIsKept
<1>1. IInv /\ [Next]_vars =>
        [RowExists /\ rowStatus = "succeeded" /\ ~expired /\ ~overran => UNCHANGED row]_vars
  BY RecordedRowKept
<1> QED
  BY <1>1, IdempotencyInvariant, PTL DEF Spec, SuccessIsKept
=============================================================================

--------------------------- MODULE SystemLockProofs ---------------------------
(***************************************************************************)
(* The safety properties of SystemLock hold for any set of operations, any *)
(* lease, renewal interval and TTL that satisfy LeaseAssumption, and any   *)
(* number of faults.                                                       *)
(***************************************************************************)
EXTENDS SystemLock, TLAPS

\* What OnTime keeps true of the requests and the renewal loops.
Prompt ==
  \A o \in Operations :
    /\ started[o] <= now
    /\ pc[o] \in {"create", "get", "reclaim"} => now <= started[o] + Stall
    /\ renewAt[o] # 0 => pc[o] \in {"hold", "idle"} /\ now <= renewAt[o]

\* A locked row outlives its lock.
LockWithinExpiry == RowExists => lockedUntil <= expiresAt

\* Before the first lapse a holder has the row, locked, for itself.
HoldsRow ==
  ~lapsed =>
    /\ \A o \in Operations : pc[o] = "hold" =>
         RowExists /\ rowId = recordId[o] /\ rowStatus = "processing" /\ now < lockedUntil
    /\ \A o, q \in Operations : pc[o] = "hold" /\ pc[q] = "hold" => o = q

\* Before the first lapse the renewal loop of a creator runs, and its next
\* tick is early enough, but for the failed renewals.
LoopRuns ==
  ~lapsed =>
    \A o \in Operations : pc[o] = "hold" /\ fingerprint = o =>
      /\ renewAt[o] # 0
      /\ renewAt[o] + Lease <= lockedUntil + Stall + (faults + 1) * RenewInterval

IInv ==
  /\ TypeOK
  /\ Prompt
  /\ LockWithinExpiry
  /\ HoldsRow
  /\ LoopRuns

LEMMA Constants ==
  /\ Lease \in Nat /\ RenewInterval \in Nat /\ TTL \in Nat /\ MaxTime \in Nat
  /\ Lease # 0 /\ RenewInterval # 0 /\ TTL # 0 /\ MaxTime # 0
  /\ Stall \in Nat /\ MaxFaults \in Nat
  /\ Lease <= TTL /\ Stall + RenewInterval < Lease
  BY LeaseAssumption

-----------------------------------------------------------------------------
(* Preservation of IInv, action by action. *)

LEMMA CleanupStep ==
  ASSUME IInv, Cleanup
  PROVE  IInv'
<1> USE Constants, OperationAssumption DEF IInv, TypeOK, RowExists, Cleanup,
          DeleteExpired, row, operationVars
<1>1. /\ rowId' \in Nat /\ lastId' \in Nat /\ rowId' <= lastId'
      /\ fingerprint' \in Operations \cup {NoOperation}
      /\ rowStatus' \in RowStatuses
      /\ lockedUntil' \in Nat /\ expiresAt' \in Nat
  BY DEF RowStatuses
<1>2. /\ pc' \in [Operations -> PCs]
      /\ started' \in [Operations -> 1 .. MaxTime]
      /\ recordId' \in [Operations -> Nat]
      /\ seen' \in [Operations -> RowStatuses]
      /\ renewAt' \in [Operations -> Nat]
  BY DEF PCs, RowStatuses
<1>3. now' \in 1 .. MaxTime /\ faults' \in 0 .. MaxFaults
  OBVIOUS
<1>4. lapsed' \in BOOLEAN
  OBVIOUS
<1>5. TypeOK'
  BY <1>1, <1>2, <1>3, <1>4
<1>6. Prompt'
  BY DEF Prompt, PCs
<1>7. LockWithinExpiry'
  BY DEF LockWithinExpiry
<1>8. HoldsRow'
  BY DEF HoldsRow, Prompt, LockWithinExpiry, PCs
<1>9. LoopRuns'
  BY DEF LoopRuns, HoldsRow, Prompt, PCs
<1> QED
  BY <1>5, <1>6, <1>7, <1>8, <1>9

LEMMA TickStep ==
  ASSUME IInv, Tick
  PROVE  IInv'
<1> USE Constants, OperationAssumption DEF IInv, TypeOK, RowExists, Tick,
          OnTime, row, operationVars
<1>1. /\ rowId' \in Nat /\ lastId' \in Nat /\ rowId' <= lastId'
      /\ fingerprint' \in Operations \cup {NoOperation}
      /\ rowStatus' \in RowStatuses
      /\ lockedUntil' \in Nat /\ expiresAt' \in Nat
  BY DEF RowStatuses
<1>2. /\ pc' \in [Operations -> PCs]
      /\ started' \in [Operations -> 1 .. MaxTime]
      /\ recordId' \in [Operations -> Nat]
      /\ seen' \in [Operations -> RowStatuses]
      /\ renewAt' \in [Operations -> Nat]
  BY DEF PCs, RowStatuses
<1>3. now' \in 1 .. MaxTime /\ faults' \in 0 .. MaxFaults
  OBVIOUS
<1>4. lapsed' \in BOOLEAN
  OBVIOUS
<1>5. TypeOK'
  BY <1>1, <1>2, <1>3, <1>4
<1>6. Prompt'
  BY DEF Prompt, PCs
<1>7. LockWithinExpiry'
  BY DEF LockWithinExpiry
<1>8. HoldsRow'
  <2> SUFFICES ASSUME ~lapsed' PROVE HoldsRow'
    BY DEF HoldsRow
  <2>1. ~lapsed
    OBVIOUS
  <2>2. \A o \in Operations : pc[o] = "hold" => ~(lockedUntil <= now')
    OBVIOUS
  <2>3. \A o \in Operations : pc'[o] = "hold" => now' < lockedUntil'
    BY <2>2
  <2> QED
    BY <2>1, <2>3 DEF HoldsRow
<1>9. LoopRuns'
  BY DEF LoopRuns, HoldsRow, Prompt, PCs
<1> QED
  BY <1>5, <1>6, <1>7, <1>8, <1>9

LEMMA StartStep ==
  ASSUME IInv, NEW o \in Operations, Start(o)
  PROVE  IInv'
<1> USE Constants, OperationAssumption DEF IInv, TypeOK, RowExists, Start, row,
          operationVars
<1>1. /\ rowId' \in Nat /\ lastId' \in Nat /\ rowId' <= lastId'
      /\ fingerprint' \in Operations \cup {NoOperation}
      /\ rowStatus' \in RowStatuses
      /\ lockedUntil' \in Nat /\ expiresAt' \in Nat
  BY DEF RowStatuses
<1>2. /\ pc' \in [Operations -> PCs]
      /\ started' \in [Operations -> 1 .. MaxTime]
      /\ recordId' \in [Operations -> Nat]
      /\ seen' \in [Operations -> RowStatuses]
      /\ renewAt' \in [Operations -> Nat]
  BY DEF PCs, RowStatuses
<1>3. now' \in 1 .. MaxTime /\ faults' \in 0 .. MaxFaults
  OBVIOUS
<1>4. lapsed' \in BOOLEAN
  OBVIOUS
<1>5. TypeOK'
  BY <1>1, <1>2, <1>3, <1>4
<1>6. Prompt'
  BY DEF Prompt, PCs
<1>7. LockWithinExpiry'
  BY DEF LockWithinExpiry
<1>8. HoldsRow'
  BY DEF HoldsRow, Prompt, LockWithinExpiry, PCs
<1>9. LoopRuns'
  BY DEF LoopRuns, HoldsRow, Prompt, PCs
<1> QED
  BY <1>5, <1>6, <1>7, <1>8, <1>9

LEMMA CrashStep ==
  ASSUME IInv, NEW o \in Operations, Crash(o)
  PROVE  IInv'
<1> USE Constants, OperationAssumption DEF IInv, TypeOK, RowExists, Crash, Gone,
          row, operationVars
<1>1. /\ rowId' \in Nat /\ lastId' \in Nat /\ rowId' <= lastId'
      /\ fingerprint' \in Operations \cup {NoOperation}
      /\ rowStatus' \in RowStatuses
      /\ lockedUntil' \in Nat /\ expiresAt' \in Nat
  BY DEF RowStatuses
<1>2. /\ pc' \in [Operations -> PCs]
      /\ started' \in [Operations -> 1 .. MaxTime]
      /\ recordId' \in [Operations -> Nat]
      /\ seen' \in [Operations -> RowStatuses]
      /\ renewAt' \in [Operations -> Nat]
  BY DEF PCs, RowStatuses
<1>3. now' \in 1 .. MaxTime /\ faults' \in 0 .. MaxFaults
  OBVIOUS
<1>4. lapsed' \in BOOLEAN
  OBVIOUS
<1>5. TypeOK'
  BY <1>1, <1>2, <1>3, <1>4
<1>6. Prompt'
  BY DEF Prompt, PCs
<1>7. LockWithinExpiry'
  BY DEF LockWithinExpiry
<1>8. HoldsRow'
  BY DEF HoldsRow, Prompt, LockWithinExpiry, PCs
<1>9. LoopRuns'
  BY DEF LoopRuns, HoldsRow, Prompt, PCs
<1> QED
  BY <1>5, <1>6, <1>7, <1>8, <1>9

LEMMA CreateStep ==
  ASSUME IInv, NEW o \in Operations, NEW r \in Results, Create(o, r)
  PROVE  IInv'
<1> USE Constants, OperationAssumption DEF IInv, TypeOK, RowExists, Create,
          CreateProcessing, Acquired, Goto, Gone, Outcome, Results, row, operationVars
<1>1. /\ rowId' \in Nat /\ lastId' \in Nat /\ rowId' <= lastId'
      /\ fingerprint' \in Operations \cup {NoOperation}
      /\ rowStatus' \in RowStatuses
      /\ lockedUntil' \in Nat /\ expiresAt' \in Nat
  BY DEF RowStatuses
<1>2. /\ pc' \in [Operations -> PCs]
      /\ started' \in [Operations -> 1 .. MaxTime]
      /\ recordId' \in [Operations -> Nat]
      /\ seen' \in [Operations -> RowStatuses]
      /\ renewAt' \in [Operations -> Nat]
  BY DEF PCs, RowStatuses
<1>3. now' \in 1 .. MaxTime /\ faults' \in 0 .. MaxFaults
  OBVIOUS
<1>4. lapsed' \in BOOLEAN
  OBVIOUS
<1>5. TypeOK'
  BY <1>1, <1>2, <1>3, <1>4
<1>6. Prompt'
  BY DEF Prompt, PCs
<1>7. LockWithinExpiry'
  BY DEF LockWithinExpiry
<1>8. HoldsRow'
  BY DEF HoldsRow, Prompt, LockWithinExpiry, PCs
<1>9. LoopRuns'
  BY DEF LoopRuns, HoldsRow, Prompt, PCs
<1> QED
  BY <1>5, <1>6, <1>7, <1>8, <1>9

LEMMA GetStep ==
  ASSUME IInv, NEW o \in Operations, NEW r \in Results, Get(o, r)
  PROVE  IInv'
<1> USE Constants, OperationAssumption DEF IInv, TypeOK, RowExists, Get, Busy,
          Goto, Gone, Outcome, Results, row, operationVars
<1>1. /\ rowId' \in Nat /\ lastId' \in Nat /\ rowId' <= lastId'
      /\ fingerprint' \in Operations \cup {NoOperation}
      /\ rowStatus' \in RowStatuses
      /\ lockedUntil' \in Nat /\ expiresAt' \in Nat
  BY DEF RowStatuses
<1>2. /\ pc' \in [Operations -> PCs]
      /\ started' \in [Operations -> 1 .. MaxTime]
      /\ recordId' \in [Operations -> Nat]
      /\ seen' \in [Operations -> RowStatuses]
      /\ renewAt' \in [Operations -> Nat]
  BY DEF PCs, RowStatuses
<1>3. now' \in 1 .. MaxTime /\ faults' \in 0 .. MaxFaults
  OBVIOUS
<1>4. lapsed' \in BOOLEAN
  OBVIOUS
<1>5. TypeOK'
  BY <1>1, <1>2, <1>3, <1>4
<1>6. Prompt'
  BY DEF Prompt, PCs
<1>7. LockWithinExpiry'
  BY DEF LockWithinExpiry
<1>8. HoldsRow'
  BY DEF HoldsRow, Prompt, LockWithinExpiry, PCs
<1>9. LoopRuns'
  BY DEF LoopRuns, HoldsRow, Prompt, PCs
<1> QED
  BY <1>5, <1>6, <1>7, <1>8, <1>9

LEMMA ReclaimStep ==
  ASSUME IInv, NEW o \in Operations, NEW r \in Results, Reclaim(o, r)
  PROVE  IInv'
<1> USE Constants, OperationAssumption DEF IInv, TypeOK, RowExists, Reclaim,
          TryReclaim, Reclaimable, Acquired, Gone, Outcome, Results, row,
          operationVars
<1>1. /\ rowId' \in Nat /\ lastId' \in Nat /\ rowId' <= lastId'
      /\ fingerprint' \in Operations \cup {NoOperation}
      /\ rowStatus' \in RowStatuses
      /\ lockedUntil' \in Nat /\ expiresAt' \in Nat
  BY DEF RowStatuses
<1>2. /\ pc' \in [Operations -> PCs]
      /\ started' \in [Operations -> 1 .. MaxTime]
      /\ recordId' \in [Operations -> Nat]
      /\ seen' \in [Operations -> RowStatuses]
      /\ renewAt' \in [Operations -> Nat]
  BY DEF PCs, RowStatuses
<1>3. now' \in 1 .. MaxTime /\ faults' \in 0 .. MaxFaults
  OBVIOUS
<1>4. lapsed' \in BOOLEAN
  OBVIOUS
<1>5. TypeOK'
  BY <1>1, <1>2, <1>3, <1>4
<1>6. Prompt'
  BY DEF Prompt, PCs
<1>7. LockWithinExpiry'
  BY DEF LockWithinExpiry
<1>8. HoldsRow'
  BY DEF HoldsRow, Prompt, LockWithinExpiry, PCs
<1>9. LoopRuns'
  BY DEF LoopRuns, HoldsRow, Prompt, PCs
<1> QED
  BY <1>5, <1>6, <1>7, <1>8, <1>9

LEMMA RenewStep ==
  ASSUME IInv, NEW o \in Operations, NEW r \in Results, Renew(o, r)
  PROVE  IInv'
<1> USE Constants, OperationAssumption DEF IInv, TypeOK, RowExists, Renew,
          ExtendProcessingLock, Extendable, RenewContinues, Outcome, Results, row,
          operationVars
<1>1. /\ rowId' \in Nat /\ lastId' \in Nat /\ rowId' <= lastId'
      /\ fingerprint' \in Operations \cup {NoOperation}
      /\ rowStatus' \in RowStatuses
      /\ lockedUntil' \in Nat /\ expiresAt' \in Nat
  BY DEF RowStatuses
<1>2. /\ pc' \in [Operations -> PCs]
      /\ started' \in [Operations -> 1 .. MaxTime]
      /\ recordId' \in [Operations -> Nat]
      /\ seen' \in [Operations -> RowStatuses]
      /\ renewAt' \in [Operations -> Nat]
  BY DEF PCs, RowStatuses
<1>3. now' \in 1 .. MaxTime /\ faults' \in 0 .. MaxFaults
  OBVIOUS
<1>4. lapsed' \in BOOLEAN
  OBVIOUS
<1>5. TypeOK'
  BY <1>1, <1>2, <1>3, <1>4
<1>6. Prompt'
  BY DEF Prompt, PCs
<1>7. LockWithinExpiry'
  BY DEF LockWithinExpiry
<1>8. HoldsRow'
  BY DEF HoldsRow, Prompt, LockWithinExpiry, PCs
<1>9. LoopRuns'
  BY DEF LoopRuns, HoldsRow, Prompt, PCs
<1> QED
  BY <1>5, <1>6, <1>7, <1>8, <1>9

LEMMA ReleaseStep ==
  ASSUME IInv, NEW o \in Operations, NEW r \in Results, Release(o, r)
  PROVE  IInv'
<1> USE Constants, OperationAssumption DEF IInv, TypeOK, RowExists, Release,
          MarkSucceeded, MarkFailedRetryable, Released, Gone, Outcome, Results,
          row, operationVars
<1>1. /\ rowId' \in Nat /\ lastId' \in Nat /\ rowId' <= lastId'
      /\ fingerprint' \in Operations \cup {NoOperation}
      /\ rowStatus' \in RowStatuses
      /\ lockedUntil' \in Nat /\ expiresAt' \in Nat
  BY DEF RowStatuses
<1>2. /\ pc' \in [Operations -> PCs]
      /\ started' \in [Operations -> 1 .. MaxTime]
      /\ recordId' \in [Operations -> Nat]
      /\ seen' \in [Operations -> RowStatuses]
      /\ renewAt' \in [Operations -> Nat]
  BY DEF PCs, RowStatuses
<1>3. now' \in 1 .. MaxTime /\ faults' \in 0 .. MaxFaults
  OBVIOUS
<1>4. lapsed' \in BOOLEAN
  OBVIOUS
<1>5. TypeOK'
  BY <1>1, <1>2, <1>3, <1>4
<1>6. Prompt'
  BY DEF Prompt, PCs
<1>7. LockWithinExpiry'
  BY DEF LockWithinExpiry
<1>8. HoldsRow'
  BY DEF HoldsRow, Prompt, LockWithinExpiry, PCs
<1>9. LoopRuns'
  BY DEF LoopRuns, HoldsRow, Prompt, PCs
<1> QED
  BY <1>5, <1>6, <1>7, <1>8, <1>9

-----------------------------------------------------------------------------
(* The theorems. *)

LEMMA InitIInv == Init => IInv
<1> SUFFICES ASSUME Init PROVE IInv
  OBVIOUS
<1> USE Constants, OperationAssumption DEF Init, NoRow, RowExists
<1>1. TypeOK
  <2>1. 1 \in 1 .. MaxTime /\ 0 \in 0 .. MaxFaults
    OBVIOUS
  <2>2. /\ rowId \in Nat /\ lastId \in Nat /\ rowId <= lastId
        /\ fingerprint \in Operations \cup {NoOperation}
        /\ rowStatus \in RowStatuses
        /\ lockedUntil \in Nat /\ expiresAt \in Nat
    BY DEF RowStatuses
  <2>3. /\ pc \in [Operations -> PCs] /\ started \in [Operations -> 1 .. MaxTime]
        /\ recordId \in [Operations -> Nat] /\ seen \in [Operations -> RowStatuses]
        /\ renewAt \in [Operations -> Nat]
    BY <2>1 DEF PCs, RowStatuses
  <2>4. lapsed \in BOOLEAN
    OBVIOUS
  <2> QED
    BY <2>1, <2>2, <2>3, <2>4 DEF TypeOK
<1>2. Prompt /\ LockWithinExpiry
  BY DEF Prompt, LockWithinExpiry
<1>3. HoldsRow /\ LoopRuns
  BY DEF HoldsRow, LoopRuns
<1> QED
  BY <1>1, <1>2, <1>3 DEF IInv

LEMMA NextIInv == IInv /\ [Next]_vars => IInv'
<1> SUFFICES ASSUME IInv, [Next]_vars PROVE IInv'
  OBVIOUS
<1>1. CASE Cleanup
  BY <1>1, CleanupStep
<1>2. CASE Tick
  BY <1>2, TickStep
<1>3. ASSUME NEW o \in Operations, Start(o)
      PROVE  IInv'
  BY <1>3, StartStep
<1>4. ASSUME NEW o \in Operations, Crash(o)
      PROVE  IInv'
  BY <1>4, CrashStep
<1>5. ASSUME NEW o \in Operations, NEW r \in Results, Create(o, r)
      PROVE  IInv'
  BY <1>5, CreateStep
<1>6. ASSUME NEW o \in Operations, NEW r \in Results, Get(o, r)
      PROVE  IInv'
  BY <1>6, GetStep
<1>7. ASSUME NEW o \in Operations, NEW r \in Results, Reclaim(o, r)
      PROVE  IInv'
  BY <1>7, ReclaimStep
<1>8. ASSUME NEW o \in Operations, NEW r \in Results, Renew(o, r)
      PROVE  IInv'
  BY <1>8, RenewStep
<1>9. ASSUME NEW o \in Operations, NEW r \in Results, Release(o, r)
      PROVE  IInv'
  BY <1>9, ReleaseStep
<1>10. CASE UNCHANGED vars
  BY <1>10 DEF vars, row, operationVars, IInv, TypeOK, Prompt, LockWithinExpiry,
     HoldsRow, LoopRuns, RowExists
<1> QED
  BY <1>1, <1>2, <1>3, <1>4, <1>5, <1>6, <1>7, <1>8, <1>9, <1>10
  DEF Next

\* The invariant that carries all the others.
THEOREM SystemLockInvariant == Spec => []IInv
<1>1. Init => IInv
  BY InitIInv
<1>2. IInv /\ [Next]_vars => IInv'
  BY NextIInv
<1> QED
  BY <1>1, <1>2, PTL DEF Spec

\* The row, the operations and the clock keep their types.
THEOREM SystemLockTypeCorrect == Spec => []TypeOK
<1>1. IInv => TypeOK
  BY DEF IInv
<1> QED
  BY <1>1, SystemLockInvariant, PTL

\* The lock excludes system operations until a lease ends under its holder.
THEOREM ExclusiveLease == Spec => []LeaseExclusive
<1>1. IInv => LeaseExclusive
  BY DEF IInv, HoldsRow, LeaseExclusive, Holders
<1> QED
  BY <1>1, SystemLockInvariant, PTL

\* Only the clock ends a lease, and a creator was renewed in time.
LEMMA LapseStep ==
  ASSUME IInv, [Next]_vars, ~lapsed, lapsed',
         Stall + (faults + 1) * RenewInterval < Lease
  PROVE  \E o \in Holders : fingerprint # o
<1>1. Tick
  BY DEF Next, vars, Cleanup, Start, Crash, Create, Get, Reclaim, Renew, Release
<1>2. PICK o \in Operations : pc[o] = "hold" /\ lockedUntil <= now'
  BY <1>1 DEF Tick
<1>3. now' = now + 1 /\ (renewAt[o] # 0 => now < renewAt[o])
  BY <1>1 DEF Tick, OnTime
<1>4. CASE fingerprint = o
  <2>1. /\ renewAt[o] # 0
        /\ renewAt[o] + Lease <= lockedUntil + Stall + (faults + 1) * RenewInterval
    BY <1>2, <1>4 DEF IInv, LoopRuns
  <2> DEFINE delay == Stall + (faults + 1) * RenewInterval
  <2>2. delay \in Nat /\ now \in Nat /\ renewAt[o] \in Nat /\ lockedUntil \in Nat
    BY Constants DEF IInv, TypeOK
  <2>3. renewAt[o] + Lease <= lockedUntil + delay /\ delay < Lease
    BY <2>1, Constants DEF IInv, TypeOK
  <2> HIDE DEF delay
  <2> QED
    BY <1>2, <1>3, <2>1, <2>2, <2>3, Constants
<1> QED
  BY <1>2, <1>4 DEF Holders

\* The first lease to end under its holder is one of a row taken over from
\* another operation.
THEOREM FirstLapse == Spec => CreatorIsRenewed
<1>1. IInv /\ [Next]_vars =>
        [~lapsed /\ lapsed' /\ Stall + (faults + 1) * RenewInterval < Lease
           => \E o \in Holders : fingerprint # o]_vars
  BY LapseStep
<1> QED
  BY <1>1, SystemLockInvariant, PTL DEF Spec, CreatorIsRenewed
=============================================================================

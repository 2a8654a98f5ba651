-------------------------- MODULE OAuthRefreshProofs --------------------------
(***************************************************************************)
(* The safety properties of OAuthRefresh hold for any workers, processes,  *)
(* retry limits, number of versions and number of faults.                  *)
(***************************************************************************)
EXTENDS OAuthRefresh, TLAPS

\* attempt never passes the limit while refreshWithRetry is in its loop.
AttemptsLeft ==
  /\ attempt \in [Workers -> Nat]
  /\ \A w \in Background : pc[w] \in Holding \cup {"local"} =>
       attempt[w] <= MaxRetries[ProcessOf[w]]

\* A worker past the local mutex is the one its process's entry names.
OwnsMutex == \A w \in Workers : pc[w] \in Holding => local[ProcessOf[w]] = w

\* Before the first fault the lock exists while a worker believes it has it,
\* one worker at most does, and the critical section is entered with it.
OwnsLock ==
  faults = 0 =>
    /\ \A w \in Workers : pc[w] \in Inside => locked[w]
    /\ \A w \in Workers : locked[w] => lock
    /\ \A w, q \in Workers : locked[w] /\ locked[q] => w = q

\* Before the first fault what a worker read under the lock stays true until it
\* presents it to the provider, and what it got is the newest there is.
ReadHolds ==
  faults = 0 =>
    /\ \A w \in Workers :
         /\ pc[w] = "exchange" => fresh[w] = issued
         /\ pc[w] = "persist" => fresh[w] = issued
         /\ pc[w] \notin {"recover", "invalid", "disable"}
    /\ ~rejected /\ db.status = "active"
    /\ db.version = issued \/ \E w \in Workers : pc[w] = "persist"

IInv == TypeOK /\ AttemptsLeft /\ OwnsMutex /\ OwnsLock /\ ReadHolds

-----------------------------------------------------------------------------
(* Preservation of IInv, action by action. *)

LEMMA Retries ==
  \A w \in Workers : MaxRetries[ProcessOf[w]] \in Nat /\ MaxRetries[ProcessOf[w]] >= 1
  BY ConstantsOK

LEMMA ListActiveStep ==
  ASSUME IInv, NEW w \in Workers, ListActive(w)
  PROVE  IInv'
<1> USE ConstantsOK DEF IInv, TypeOK, NoWorker, NoToken, ListActive, Goto, Set,
          Fault, work
<1>1. /\ db' \in [version : 1 .. issued', due : BOOLEAN, status : {"active", "error"}]
      /\ issued' \in 1 .. MaxVersion /\ cache' \in 0 .. issued'
      /\ faults' \in 0 .. MaxFaults
  OBVIOUS
<1>2. lock' \in BOOLEAN /\ rejected' \in BOOLEAN /\ locked' \in [Workers -> BOOLEAN]
  OBVIOUS
<1>3. /\ pc' \in [Workers -> Pcs]
      /\ local' \in [Processes -> Workers \cup {"none"}]
  BY DEF Pcs, Inside
<1>4. account' \in [Workers -> 1 .. issued'] /\ fresh' \in [Workers -> 1 .. issued']
  OBVIOUS
<1>5. /\ AttemptsLeft'
      /\ \A q \in Workers : attempt'[q] \in 1 .. MaxRetries[ProcessOf[q]] + 1
  <2>1. AttemptsLeft'
    BY Retries DEF AttemptsLeft, Pcs, Holding, Inside, Results
  <2>2. \A q \in Workers : attempt'[q] \in 1 .. MaxRetries[ProcessOf[q]] + 1
    <3> TAKE q \in Workers
    <3>1. attempt'[q] = (IF q = w THEN 1 ELSE attempt[q])
      BY DEF AttemptsLeft
    <3> QED
      BY <3>1, Retries
  <2> QED
    BY <2>1, <2>2
<1>6. OwnsMutex'
  BY DEF OwnsMutex, Pcs, Holding, Inside, Results
<1>7. OwnsLock'
  BY DEF OwnsLock, Pcs, Inside
<1>8. ReadHolds'
  BY DEF ReadHolds, OwnsLock, Pcs, Inside
<1> QED
  BY <1>1, <1>2, <1>3, <1>4, <1>5, <1>6, <1>7, <1>8

LEMMA GetAccessTokenStep ==
  ASSUME IInv, NEW w \in Workers, GetAccessToken(w)
  PROVE  IInv'
<1> USE ConstantsOK DEF IInv, TypeOK, NoWorker, NoToken, GetAccessToken, Goto, Set,
          Fault, Miss, NeedsRefresh, work
<1>1. /\ db' \in [version : 1 .. issued', due : BOOLEAN, status : {"active", "error"}]
      /\ issued' \in 1 .. MaxVersion /\ cache' \in 0 .. issued'
      /\ faults' \in 0 .. MaxFaults
  OBVIOUS
<1>2. lock' \in BOOLEAN /\ rejected' \in BOOLEAN /\ locked' \in [Workers -> BOOLEAN]
  OBVIOUS
<1>3. /\ pc' \in [Workers -> Pcs]
      /\ local' \in [Processes -> Workers \cup {"none"}]
  BY DEF Pcs, Inside
<1>4. account' \in [Workers -> 1 .. issued'] /\ fresh' \in [Workers -> 1 .. issued']
  OBVIOUS
<1>5. /\ AttemptsLeft'
      /\ \A q \in Workers : attempt'[q] \in 1 .. MaxRetries[ProcessOf[q]] + 1
  BY DEF AttemptsLeft, Pcs, Holding, Inside, Results
<1>6. OwnsMutex'
  BY DEF OwnsMutex, Pcs, Holding, Inside, Results
<1>7. OwnsLock'
  BY DEF OwnsLock, Pcs, Inside
<1>8. ReadHolds'
  BY DEF ReadHolds, OwnsLock, Pcs, Inside
<1> QED
  BY <1>1, <1>2, <1>3, <1>4, <1>5, <1>6, <1>7, <1>8

LEMMA LockLocalStep ==
  ASSUME IInv, NEW w \in Workers, LockLocal(w)
  PROVE  IInv'
<1> USE ConstantsOK DEF IInv, TypeOK, NoWorker, NoToken, LockLocal, Goto, Set,
          Fault, work
<1>1. /\ db' \in [version : 1 .. issued', due : BOOLEAN, status : {"active", "error"}]
      /\ issued' \in 1 .. MaxVersion /\ cache' \in 0 .. issued'
      /\ faults' \in 0 .. MaxFaults
  OBVIOUS
<1>2. lock' \in BOOLEAN /\ rejected' \in BOOLEAN /\ locked' \in [Workers -> BOOLEAN]
  OBVIOUS
<1>3. /\ pc' \in [Workers -> Pcs]
      /\ local' \in [Processes -> Workers \cup {"none"}]
  BY DEF Pcs, Inside
<1>4. account' \in [Workers -> 1 .. issued'] /\ fresh' \in [Workers -> 1 .. issued']
  OBVIOUS
<1>5. /\ AttemptsLeft'
      /\ \A q \in Workers : attempt'[q] \in 1 .. MaxRetries[ProcessOf[q]] + 1
  BY DEF AttemptsLeft, Pcs, Holding, Inside, Results
<1>6. OwnsMutex'
  <2>1. \A q \in Workers : pc[q] \in Holding => ProcessOf[q] # ProcessOf[w]
    BY DEF OwnsMutex
  <2>2. \A q \in Workers : ProcessOf[q] # ProcessOf[w] =>
          local'[ProcessOf[q]] = local[ProcessOf[q]] /\ pc'[q] = pc[q]
    OBVIOUS
  <2>3. local'[ProcessOf[w]] = w
    OBVIOUS
  <2>4. \A q \in Workers : q # w => pc'[q] = pc[q]
    OBVIOUS
  <2> QED
    BY <2>1, <2>2, <2>3, <2>4 DEF OwnsMutex
<1>7. OwnsLock'
  BY DEF OwnsLock, Pcs, Inside
<1>8. ReadHolds'
  BY DEF ReadHolds, OwnsLock, Pcs, Inside
<1> QED
  BY <1>1, <1>2, <1>3, <1>4, <1>5, <1>6, <1>7, <1>8

LEMMA AcquireRefreshLockStep ==
  ASSUME IInv, NEW w \in Workers, AcquireRefreshLock(w)
  PROVE  IInv'
<1> USE ConstantsOK DEF IInv, TypeOK, NoWorker, NoToken, AcquireRefreshLock, Goto,
          Set, Fault, work
<1>1. /\ db' \in [version : 1 .. issued', due : BOOLEAN, status : {"active", "error"}]
      /\ issued' \in 1 .. MaxVersion /\ cache' \in 0 .. issued'
      /\ faults' \in 0 .. MaxFaults
  OBVIOUS
<1>2. lock' \in BOOLEAN /\ rejected' \in BOOLEAN /\ locked' \in [Workers -> BOOLEAN]
  <2>1. lock' \in BOOLEAN
    OBVIOUS
  <2>2. rejected' \in BOOLEAN
    OBVIOUS
  <2>3. locked' \in [Workers -> BOOLEAN]
    OBVIOUS
  <2> QED
    BY <2>1, <2>2, <2>3
<1>3. /\ pc' \in [Workers -> Pcs]
      /\ local' \in [Processes -> Workers \cup {"none"}]
  BY DEF Pcs, Inside
<1>4. account' \in [Workers -> 1 .. issued'] /\ fresh' \in [Workers -> 1 .. issued']
  OBVIOUS
<1>5. /\ AttemptsLeft'
      /\ \A q \in Workers : attempt'[q] \in 1 .. MaxRetries[ProcessOf[q]] + 1
  BY DEF AttemptsLeft, Pcs, Holding, Inside, Results
<1>6. OwnsMutex'
  BY DEF OwnsMutex, Pcs, Holding, Inside, Results
<1>7. OwnsLock'
  BY DEF OwnsLock, Pcs, Inside
<1>8. ReadHolds'
  BY DEF ReadHolds, OwnsLock, Pcs, Inside
<1> QED
  BY <1>1, <1>2, <1>3, <1>4, <1>5, <1>6, <1>7, <1>8

LEMMA RereadStep ==
  ASSUME IInv, NEW w \in Workers, Reread(w)
  PROVE  IInv'
<1> USE ConstantsOK DEF IInv, TypeOK, NoWorker, NoToken, Reread, Goto, Set, Fault,
          NeedsRefresh, work
<1>1. /\ db' \in [version : 1 .. issued', due : BOOLEAN, status : {"active", "error"}]
      /\ issued' \in 1 .. MaxVersion /\ cache' \in 0 .. issued'
      /\ faults' \in 0 .. MaxFaults
  OBVIOUS
<1>2. lock' \in BOOLEAN /\ rejected' \in BOOLEAN /\ locked' \in [Workers -> BOOLEAN]
  OBVIOUS
<1>3. /\ pc' \in [Workers -> Pcs]
      /\ local' \in [Processes -> Workers \cup {"none"}]
  BY DEF Pcs, Inside
<1>4. account' \in [Workers -> 1 .. issued'] /\ fresh' \in [Workers -> 1 .. issued']
  OBVIOUS
<1>5. /\ AttemptsLeft'
      /\ \A q \in Workers : attempt'[q] \in 1 .. MaxRetries[ProcessOf[q]] + 1
  BY DEF AttemptsLeft, Pcs, Holding, Inside, Results
<1>6. OwnsMutex'
  BY DEF OwnsMutex, Pcs, Holding, Inside, Results
<1>7. OwnsLock'
  BY DEF OwnsLock, Pcs, Inside
<1>8. ReadHolds'
  BY DEF ReadHolds, OwnsLock, Pcs, Inside
<1> QED
  BY <1>1, <1>2, <1>3, <1>4, <1>5, <1>6, <1>7, <1>8

LEMMA ExchangeStep ==
  ASSUME IInv, NEW w \in Workers, Exchange(w)
  PROVE  IInv'
<1> USE ConstantsOK DEF IInv, TypeOK, NoWorker, NoToken, Exchange, Goto, Set, Fault,
          work
<1>1. /\ db' \in [version : 1 .. issued', due : BOOLEAN, status : {"active", "error"}]
      /\ issued' \in 1 .. MaxVersion /\ cache' \in 0 .. issued'
      /\ faults' \in 0 .. MaxFaults
  OBVIOUS
<1>2. lock' \in BOOLEAN /\ rejected' \in BOOLEAN /\ locked' \in [Workers -> BOOLEAN]
  OBVIOUS
<1>3. /\ pc' \in [Workers -> Pcs]
      /\ local' \in [Processes -> Workers \cup {"none"}]
  BY DEF Pcs, Inside
<1>4. account' \in [Workers -> 1 .. issued'] /\ fresh' \in [Workers -> 1 .. issued']
  OBVIOUS
<1>5. /\ AttemptsLeft'
      /\ \A q \in Workers : attempt'[q] \in 1 .. MaxRetries[ProcessOf[q]] + 1
  BY DEF AttemptsLeft, Pcs, Holding, Inside, Results
<1>6. OwnsMutex'
  BY DEF OwnsMutex, Pcs, Holding, Inside, Results
<1>7. OwnsLock'
  BY DEF OwnsLock, Pcs, Inside
<1>8. ReadHolds'
  BY DEF ReadHolds, OwnsLock, Pcs, Inside
<1> QED
  BY <1>1, <1>2, <1>3, <1>4, <1>5, <1>6, <1>7, <1>8

LEMMA RecoverStep ==
  ASSUME IInv, NEW w \in Workers, Recover(w)
  PROVE  IInv'
<1> USE ConstantsOK DEF IInv, TypeOK, NoWorker, NoToken, Recover, Goto, Set, Fault,
          work
<1>1. /\ db' \in [version : 1 .. issued', due : BOOLEAN, status : {"active", "error"}]
      /\ issued' \in 1 .. MaxVersion /\ cache' \in 0 .. issued'
      /\ faults' \in 0 .. MaxFaults
  OBVIOUS
<1>2. lock' \in BOOLEAN /\ rejected' \in BOOLEAN /\ locked' \in [Workers -> BOOLEAN]
  OBVIOUS
<1>3. /\ pc' \in [Workers -> Pcs]
      /\ local' \in [Processes -> Workers \cup {"none"}]
  BY DEF Pcs, Inside
<1>4. account' \in [Workers -> 1 .. issued'] /\ fresh' \in [Workers -> 1 .. issued']
  OBVIOUS
<1>5. /\ AttemptsLeft'
      /\ \A q \in Workers : attempt'[q] \in 1 .. MaxRetries[ProcessOf[q]] + 1
  BY DEF AttemptsLeft, Pcs, Holding, Inside, Results
<1>6. OwnsMutex'
  BY DEF OwnsMutex, Pcs, Holding, Inside, Results
<1>7. OwnsLock'
  BY DEF OwnsLock, Pcs, Inside
<1>8. ReadHolds'
  BY DEF ReadHolds, OwnsLock, Pcs, Inside
<1> QED
  BY <1>1, <1>2, <1>3, <1>4, <1>5, <1>6, <1>7, <1>8

LEMMA PersistStep ==
  ASSUME IInv, NEW w \in Workers, Persist(w)
  PROVE  IInv'
<1> USE ConstantsOK DEF IInv, TypeOK, NoWorker, NoToken, Persist, Goto, Set, Fault,
          work
<1>1. /\ db' \in [version : 1 .. issued', due : BOOLEAN, status : {"active", "error"}]
      /\ issued' \in 1 .. MaxVersion /\ cache' \in 0 .. issued'
      /\ faults' \in 0 .. MaxFaults
  <2>1. fresh[w] \in 1 .. issued
    OBVIOUS
  <2>2. CASE db' = [db EXCEPT !.version = fresh[w], !.due = FALSE] /\ UNCHANGED faults
    BY <2>1, <2>2
  <2>3. CASE Fault /\ UNCHANGED db
    BY <2>3
  <2> QED
    BY <2>2, <2>3
<1>2. lock' \in BOOLEAN /\ rejected' \in BOOLEAN /\ locked' \in [Workers -> BOOLEAN]
  OBVIOUS
<1>3. /\ pc' \in [Workers -> Pcs]
      /\ local' \in [Processes -> Workers \cup {"none"}]
  BY DEF Pcs, Inside
<1>4. account' \in [Workers -> 1 .. issued'] /\ fresh' \in [Workers -> 1 .. issued']
  OBVIOUS
<1>5. /\ AttemptsLeft'
      /\ \A q \in Workers : attempt'[q] \in 1 .. MaxRetries[ProcessOf[q]] + 1
  BY DEF AttemptsLeft, Pcs, Holding, Inside, Results
<1>6. OwnsMutex'
  BY DEF OwnsMutex, Pcs, Holding, Inside, Results
<1>7. OwnsLock'
  BY DEF OwnsLock, Pcs, Inside
<1>8. ReadHolds'
  <2> SUFFICES ASSUME faults' = 0 PROVE ReadHolds'
    BY DEF ReadHolds
  <2>1. faults = 0 /\ db' = [db EXCEPT !.version = fresh[w], !.due = FALSE]
      /\ pc' = [pc EXCEPT ![w] = "refreshed"]
    OBVIOUS
  <2>2. db'.version = issued /\ db'.status = db.status
    BY <2>1 DEF ReadHolds
  <2>3. \A q \in Workers : q # w => pc[q] \notin Inside
    BY <2>1 DEF OwnsLock, Inside
  <2> QED
    BY <2>1, <2>2, <2>3 DEF ReadHolds, Inside
<1> QED
  BY <1>1, <1>2, <1>3, <1>4, <1>5, <1>6, <1>7, <1>8

LEMMA ReturnStep ==
  ASSUME IInv, NEW w \in Workers, Return(w)
  PROVE  IInv'
<1> USE ConstantsOK DEF IInv, TypeOK, NoWorker, NoToken, Return, Results, Goto, Set, Fault,
          ReleaseRefreshLock, work
<1>1. /\ db' \in [version : 1 .. issued', due : BOOLEAN, status : {"active", "error"}]
      /\ issued' \in 1 .. MaxVersion /\ cache' \in 0 .. issued'
      /\ faults' \in 0 .. MaxFaults
  OBVIOUS
<1>2. lock' \in BOOLEAN /\ rejected' \in BOOLEAN /\ locked' \in [Workers -> BOOLEAN]
  OBVIOUS
<1>3. /\ pc' \in [Workers -> Pcs]
      /\ local' \in [Processes -> Workers \cup {"none"}]
  BY DEF Pcs, Inside
<1>4. account' \in [Workers -> 1 .. issued'] /\ fresh' \in [Workers -> 1 .. issued']
  OBVIOUS
<1>5. /\ AttemptsLeft'
      /\ \A q \in Workers : attempt'[q] \in 1 .. MaxRetries[ProcessOf[q]] + 1
  <2>1. CASE pc[w] = "retryable" /\ w \in Background
    <3>1. attempt[w] \in Nat /\ attempt[w] <= MaxRetries[ProcessOf[w]]
      BY <2>1 DEF AttemptsLeft, Holding, Results
    <3>2. attempt' = [attempt EXCEPT ![w] = attempt[w] + 1] /\ attempt' \in [Workers -> Nat]
      BY <2>1, <3>1 DEF AttemptsLeft
    <3>3. pc' = [pc EXCEPT ![w] = IF attempt[w] < MaxRetries[ProcessOf[w]] THEN "local"
                                   ELSE "unschedule"]
      BY <2>1
    <3>4. \A q \in Workers : attempt'[q] \in 1 .. MaxRetries[ProcessOf[q]] + 1
      <4> TAKE q \in Workers
      <4> QED
        BY <3>1, <3>2, Retries
    <3>5. \A q \in Background : pc'[q] \in Holding \cup {"local"} =>
            attempt'[q] <= MaxRetries[ProcessOf[q]]
      <4> TAKE q \in Background
      <4>1. CASE q = w
        BY <4>1, <3>1, <3>2, <3>3, Retries DEF Holding, Inside, Results
      <4>2. CASE q # w
        BY <4>2, <3>2, <3>3 DEF AttemptsLeft
      <4> QED
        BY <4>1, <4>2
    <3> QED
      BY <3>2, <3>4, <3>5 DEF AttemptsLeft
  <2>2. CASE ~(pc[w] = "retryable" /\ w \in Background)
    BY <2>2 DEF AttemptsLeft, Pcs, Holding, Inside, Results
  <2> QED
    BY <2>1, <2>2
<1>6. OwnsMutex'
  BY DEF OwnsMutex, Pcs, Holding, Inside, Results
<1>7. OwnsLock'
  BY DEF OwnsLock, Pcs, Inside
<1>8. ReadHolds'
  BY DEF ReadHolds, OwnsLock, Pcs, Inside
<1> QED
  BY <1>1, <1>2, <1>3, <1>4, <1>5, <1>6, <1>7, <1>8

LEMMA SetErrorStep ==
  ASSUME IInv, NEW w \in Workers, SetError(w)
  PROVE  IInv'
<1> USE ConstantsOK DEF IInv, TypeOK, NoWorker, NoToken, SetError, Goto, Set, Fault,
          work
<1>1. /\ db' \in [version : 1 .. issued', due : BOOLEAN, status : {"active", "error"}]
      /\ issued' \in 1 .. MaxVersion /\ cache' \in 0 .. issued'
      /\ faults' \in 0 .. MaxFaults
  OBVIOUS
<1>2. lock' \in BOOLEAN /\ rejected' \in BOOLEAN /\ locked' \in [Workers -> BOOLEAN]
  OBVIOUS
<1>3. /\ pc' \in [Workers -> Pcs]
      /\ local' \in [Processes -> Workers \cup {"none"}]
  BY DEF Pcs, Inside
<1>4. account' \in [Workers -> 1 .. issued'] /\ fresh' \in [Workers -> 1 .. issued']
  OBVIOUS
<1>5. /\ AttemptsLeft'
      /\ \A q \in Workers : attempt'[q] \in 1 .. MaxRetries[ProcessOf[q]] + 1
  BY DEF AttemptsLeft, Pcs, Holding, Inside, Results
<1>6. OwnsMutex'
  BY DEF OwnsMutex, Pcs, Holding, Inside, Results
<1>7. OwnsLock'
  BY DEF OwnsLock, Pcs, Inside
<1>8. ReadHolds'
  BY DEF ReadHolds, OwnsLock, Pcs, Inside
<1> QED
  BY <1>1, <1>2, <1>3, <1>4, <1>5, <1>6, <1>7, <1>8

LEMMA SetTempUnschedulableStep ==
  ASSUME IInv, NEW w \in Workers, SetTempUnschedulable(w)
  PROVE  IInv'
<1> USE ConstantsOK DEF IInv, TypeOK, NoWorker, NoToken, SetTempUnschedulable, Goto,
          Set, Fault, work
<1>1. /\ db' \in [version : 1 .. issued', due : BOOLEAN, status : {"active", "error"}]
      /\ issued' \in 1 .. MaxVersion /\ cache' \in 0 .. issued'
      /\ faults' \in 0 .. MaxFaults
  OBVIOUS
<1>2. lock' \in BOOLEAN /\ rejected' \in BOOLEAN /\ locked' \in [Workers -> BOOLEAN]
  OBVIOUS
<1>3. /\ pc' \in [Workers -> Pcs]
      /\ local' \in [Processes -> Workers \cup {"none"}]
  BY DEF Pcs, Inside
<1>4. account' \in [Workers -> 1 .. issued'] /\ fresh' \in [Workers -> 1 .. issued']
  OBVIOUS
<1>5. /\ AttemptsLeft'
      /\ \A q \in Workers : attempt'[q] \in 1 .. MaxRetries[ProcessOf[q]] + 1
  BY DEF AttemptsLeft, Pcs, Holding, Inside, Results
<1>6. OwnsMutex'
  BY DEF OwnsMutex, Pcs, Holding, Inside, Results
<1>7. OwnsLock'
  BY DEF OwnsLock, Pcs, Inside
<1>8. ReadHolds'
  BY DEF ReadHolds, OwnsLock, Pcs, Inside
<1> QED
  BY <1>1, <1>2, <1>3, <1>4, <1>5, <1>6, <1>7, <1>8

LEMMA InvalidateTokenStep ==
  ASSUME IInv, NEW w \in Workers, InvalidateToken(w)
  PROVE  IInv'
<1> USE ConstantsOK DEF IInv, TypeOK, NoWorker, NoToken, InvalidateToken, Goto, Set,
          Fault, work
<1>1. /\ db' \in [version : 1 .. issued', due : BOOLEAN, status : {"active", "error"}]
      /\ issued' \in 1 .. MaxVersion /\ cache' \in 0 .. issued'
      /\ faults' \in 0 .. MaxFaults
  OBVIOUS
<1>2. lock' \in BOOLEAN /\ rejected' \in BOOLEAN /\ locked' \in [Workers -> BOOLEAN]
  OBVIOUS
<1>3. /\ pc' \in [Workers -> Pcs]
      /\ local' \in [Processes -> Workers \cup {"none"}]
  BY DEF Pcs, Inside
<1>4. account' \in [Workers -> 1 .. issued'] /\ fresh' \in [Workers -> 1 .. issued']
  OBVIOUS
<1>5. /\ AttemptsLeft'
      /\ \A q \in Workers : attempt'[q] \in 1 .. MaxRetries[ProcessOf[q]] + 1
  BY DEF AttemptsLeft, Pcs, Holding, Inside, Results
<1>6. OwnsMutex'
  BY DEF OwnsMutex, Pcs, Holding, Inside, Results
<1>7. OwnsLock'
  BY DEF OwnsLock, Pcs, Inside
<1>8. ReadHolds'
  BY DEF ReadHolds, OwnsLock, Pcs, Inside
<1> QED
  BY <1>1, <1>2, <1>3, <1>4, <1>5, <1>6, <1>7, <1>8

LEMMA WaitForCacheStep ==
  ASSUME IInv, NEW w \in Workers, WaitForCache(w)
  PROVE  IInv'
<1> USE ConstantsOK DEF IInv, TypeOK, NoWorker, NoToken, WaitForCache, Goto, Set,
          Fault, Miss, work
<1>1. /\ db' \in [version : 1 .. issued', due : BOOLEAN, status : {"active", "error"}]
      /\ issued' \in 1 .. MaxVersion /\ cache' \in 0 .. issued'
      /\ faults' \in 0 .. MaxFaults
  OBVIOUS
<1>2. lock' \in BOOLEAN /\ rejected' \in BOOLEAN /\ locked' \in [Workers -> BOOLEAN]
  OBVIOUS
<1>3. /\ pc' \in [Workers -> Pcs]
      /\ local' \in [Processes -> Workers \cup {"none"}]
  BY DEF Pcs, Inside
<1>4. account' \in [Workers -> 1 .. issued'] /\ fresh' \in [Workers -> 1 .. issued']
  OBVIOUS
<1>5. /\ AttemptsLeft'
      /\ \A q \in Workers : attempt'[q] \in 1 .. MaxRetries[ProcessOf[q]] + 1
  BY DEF AttemptsLeft, Pcs, Holding, Inside, Results
<1>6. OwnsMutex'
  BY DEF OwnsMutex, Pcs, Holding, Inside, Results
<1>7. OwnsLock'
  BY DEF OwnsLock, Pcs, Inside
<1>8. ReadHolds'
  BY DEF ReadHolds, OwnsLock, Pcs, Inside
<1> QED
  BY <1>1, <1>2, <1>3, <1>4, <1>5, <1>6, <1>7, <1>8

LEMMA CheckTokenVersionStep ==
  ASSUME IInv, NEW w \in Workers, CheckTokenVersion(w)
  PROVE  IInv'
<1> USE ConstantsOK DEF IInv, TypeOK, NoWorker, NoToken, CheckTokenVersion, Goto,
          Set, Fault, work
<1>1. /\ db' \in [version : 1 .. issued', due : BOOLEAN, status : {"active", "error"}]
      /\ issued' \in 1 .. MaxVersion /\ cache' \in 0 .. issued'
      /\ faults' \in 0 .. MaxFaults
  OBVIOUS
<1>2. lock' \in BOOLEAN /\ rejected' \in BOOLEAN /\ locked' \in [Workers -> BOOLEAN]
  OBVIOUS
<1>3. /\ pc' \in [Workers -> Pcs]
      /\ local' \in [Processes -> Workers \cup {"none"}]
  BY DEF Pcs, Inside
<1>4. account' \in [Workers -> 1 .. issued'] /\ fresh' \in [Workers -> 1 .. issued']
  OBVIOUS
<1>5. /\ AttemptsLeft'
      /\ \A q \in Workers : attempt'[q] \in 1 .. MaxRetries[ProcessOf[q]] + 1
  BY DEF AttemptsLeft, Pcs, Holding, Inside, Results
<1>6. OwnsMutex'
  BY DEF OwnsMutex, Pcs, Holding, Inside, Results
<1>7. OwnsLock'
  BY DEF OwnsLock, Pcs, Inside
<1>8. ReadHolds'
  BY DEF ReadHolds, OwnsLock, Pcs, Inside
<1> QED
  BY <1>1, <1>2, <1>3, <1>4, <1>5, <1>6, <1>7, <1>8

LEMMA SetAccessTokenStep ==
  ASSUME IInv, NEW w \in Workers, SetAccessToken(w)
  PROVE  IInv'
<1> USE ConstantsOK DEF IInv, TypeOK, NoWorker, NoToken, SetAccessToken, Goto, Set,
          Fault, work
<1>1. /\ db' \in [version : 1 .. issued', due : BOOLEAN, status : {"active", "error"}]
      /\ issued' \in 1 .. MaxVersion /\ cache' \in 0 .. issued'
      /\ faults' \in 0 .. MaxFaults
  OBVIOUS
<1>2. lock' \in BOOLEAN /\ rejected' \in BOOLEAN /\ locked' \in [Workers -> BOOLEAN]
  OBVIOUS
<1>3. /\ pc' \in [Workers -> Pcs]
      /\ local' \in [Processes -> Workers \cup {"none"}]
  BY DEF Pcs, Inside
<1>4. account' \in [Workers -> 1 .. issued'] /\ fresh' \in [Workers -> 1 .. issued']
  OBVIOUS
<1>5. /\ AttemptsLeft'
      /\ \A q \in Workers : attempt'[q] \in 1 .. MaxRetries[ProcessOf[q]] + 1
  BY DEF AttemptsLeft, Pcs, Holding, Inside, Results
<1>6. OwnsMutex'
  BY DEF OwnsMutex, Pcs, Holding, Inside, Results
<1>7. OwnsLock'
  BY DEF OwnsLock, Pcs, Inside
<1>8. ReadHolds'
  BY DEF ReadHolds, OwnsLock, Pcs, Inside
<1> QED
  BY <1>1, <1>2, <1>3, <1>4, <1>5, <1>6, <1>7, <1>8

LEMMA TokenAgesStep ==
  ASSUME IInv, TokenAges
  PROVE  IInv'
<1> USE ConstantsOK DEF IInv, TypeOK, NoWorker, NoToken, TokenAges, Goto, Set,
          Fault, work
<1>1. /\ db' \in [version : 1 .. issued', due : BOOLEAN, status : {"active", "error"}]
      /\ issued' \in 1 .. MaxVersion /\ cache' \in 0 .. issued'
      /\ faults' \in 0 .. MaxFaults
  OBVIOUS
<1>2. lock' \in BOOLEAN /\ rejected' \in BOOLEAN /\ locked' \in [Workers -> BOOLEAN]
  OBVIOUS
<1>3. /\ pc' \in [Workers -> Pcs]
      /\ local' \in [Processes -> Workers \cup {"none"}]
  BY DEF Pcs, Inside
<1>4. account' \in [Workers -> 1 .. issued'] /\ fresh' \in [Workers -> 1 .. issued']
  OBVIOUS
<1>5. /\ AttemptsLeft'
      /\ \A q \in Workers : attempt'[q] \in 1 .. MaxRetries[ProcessOf[q]] + 1
  BY DEF AttemptsLeft, Pcs, Holding, Inside, Results
<1>6. OwnsMutex'
  BY DEF OwnsMutex, Pcs, Holding, Inside, Results
<1>7. OwnsLock'
  BY DEF OwnsLock, Pcs, Inside
<1>8. ReadHolds'
  BY DEF ReadHolds, OwnsLock, Pcs, Inside
<1> QED
  BY <1>1, <1>2, <1>3, <1>4, <1>5, <1>6, <1>7, <1>8

LEMMA LockExpiresStep ==
  ASSUME IInv, LockExpires
  PROVE  IInv'
<1> USE ConstantsOK DEF IInv, TypeOK, NoWorker, NoToken, LockExpires, Goto, Set,
          Fault, work
<1>1. /\ db' \in [version : 1 .. issued', due : BOOLEAN, status : {"active", "error"}]
      /\ issued' \in 1 .. MaxVersion /\ cache' \in 0 .. issued'
      /\ faults' \in 0 .. MaxFaults
  OBVIOUS
<1>2. lock' \in BOOLEAN /\ rejected' \in BOOLEAN /\ locked' \in [Workers -> BOOLEAN]
  OBVIOUS
<1>3. /\ pc' \in [Workers -> Pcs]
      /\ local' \in [Processes -> Workers \cup {"none"}]
  BY DEF Pcs, Inside
<1>4. account' \in [Workers -> 1 .. issued'] /\ fresh' \in [Workers -> 1 .. issued']
  OBVIOUS
<1>5. /\ AttemptsLeft'
      /\ \A q \in Workers : attempt'[q] \in 1 .. MaxRetries[ProcessOf[q]] + 1
  BY DEF AttemptsLeft, Pcs, Holding, Inside, Results
<1>6. OwnsMutex'
  BY DEF OwnsMutex, Pcs, Holding, Inside, Results
<1>7. OwnsLock'
  BY DEF OwnsLock, Pcs, Inside
<1>8. ReadHolds'
  BY DEF ReadHolds, OwnsLock, Pcs, Inside
<1> QED
  BY <1>1, <1>2, <1>3, <1>4, <1>5, <1>6, <1>7, <1>8

LEMMA CacheExpiresStep ==
  ASSUME IInv, CacheExpires
  PROVE  IInv'
<1> USE ConstantsOK DEF IInv, TypeOK, NoWorker, NoToken, CacheExpires, Goto, Set,
          Fault, work
<1>1. /\ db' \in [version : 1 .. issued', due : BOOLEAN, status : {"active", "error"}]
      /\ issued' \in 1 .. MaxVersion /\ cache' \in 0 .. issued'
      /\ faults' \in 0 .. MaxFaults
  OBVIOUS
<1>2. lock' \in BOOLEAN /\ rejected' \in BOOLEAN /\ locked' \in [Workers -> BOOLEAN]
  OBVIOUS
<1>3. /\ pc' \in [Workers -> Pcs]
      /\ local' \in [Processes -> Workers \cup {"none"}]
  BY DEF Pcs, Inside
<1>4. account' \in [Workers -> 1 .. issued'] /\ fresh' \in [Workers -> 1 .. issued']
  OBVIOUS
<1>5. /\ AttemptsLeft'
      /\ \A q \in Workers : attempt'[q] \in 1 .. MaxRetries[ProcessOf[q]] + 1
  BY DEF AttemptsLeft, Pcs, Holding, Inside, Results
<1>6. OwnsMutex'
  BY DEF OwnsMutex, Pcs, Holding, Inside, Results
<1>7. OwnsLock'
  BY DEF OwnsLock, Pcs, Inside
<1>8. ReadHolds'
  BY DEF ReadHolds, OwnsLock, Pcs, Inside
<1> QED
  BY <1>1, <1>2, <1>3, <1>4, <1>5, <1>6, <1>7, <1>8

LEMMA CrashStep ==
  ASSUME IInv, NEW p \in Processes, Crash(p)
  PROVE  IInv'
<1> USE ConstantsOK DEF IInv, TypeOK, NoWorker, NoToken, Crash, Goto, Set, Fault,
          work
<1>1. /\ db' \in [version : 1 .. issued', due : BOOLEAN, status : {"active", "error"}]
      /\ issued' \in 1 .. MaxVersion /\ cache' \in 0 .. issued'
      /\ faults' \in 0 .. MaxFaults
  OBVIOUS
<1>2. lock' \in BOOLEAN /\ rejected' \in BOOLEAN /\ locked' \in [Workers -> BOOLEAN]
  OBVIOUS
<1>3. /\ pc' \in [Workers -> Pcs]
      /\ local' \in [Processes -> Workers \cup {"none"}]
  BY DEF Pcs, Inside
<1>4. account' \in [Workers -> 1 .. issued'] /\ fresh' \in [Workers -> 1 .. issued']
  OBVIOUS
<1>5. /\ AttemptsLeft'
      /\ \A q \in Workers : attempt'[q] \in 1 .. MaxRetries[ProcessOf[q]] + 1
  BY DEF AttemptsLeft, Pcs, Holding, Inside, Results
<1>6. OwnsMutex'
  BY DEF OwnsMutex, Pcs, Holding, Inside, Results
<1>7. OwnsLock'
  BY DEF OwnsLock, Pcs, Inside
<1>8. ReadHolds'
  BY DEF ReadHolds, OwnsLock, Pcs, Inside
<1> QED
  BY <1>1, <1>2, <1>3, <1>4, <1>5, <1>6, <1>7, <1>8

LEMMA ReauthorizeStep ==
  ASSUME IInv, Reauthorize
  PROVE  IInv'
<1> USE ConstantsOK DEF IInv, TypeOK, NoWorker, NoToken, Reauthorize, Goto, Set,
          Fault, work
<1>1. /\ db' \in [version : 1 .. issued', due : BOOLEAN, status : {"active", "error"}]
      /\ issued' \in 1 .. MaxVersion /\ cache' \in 0 .. issued'
      /\ faults' \in 0 .. MaxFaults
  OBVIOUS
<1>2. lock' \in BOOLEAN /\ rejected' \in BOOLEAN /\ locked' \in [Workers -> BOOLEAN]
  OBVIOUS
<1>3. /\ pc' \in [Workers -> Pcs]
      /\ local' \in [Processes -> Workers \cup {"none"}]
  BY DEF Pcs, Inside
<1>4. account' \in [Workers -> 1 .. issued'] /\ fresh' \in [Workers -> 1 .. issued']
  OBVIOUS
<1>5. /\ AttemptsLeft'
      /\ \A q \in Workers : attempt'[q] \in 1 .. MaxRetries[ProcessOf[q]] + 1
  BY DEF AttemptsLeft, Pcs, Holding, Inside, Results
<1>6. OwnsMutex'
  BY DEF OwnsMutex, Pcs, Holding, Inside, Results
<1>7. OwnsLock'
  BY DEF OwnsLock, Pcs, Inside
<1>8. ReadHolds'
  BY DEF ReadHolds, OwnsLock, Pcs, Inside
<1> QED
  BY <1>1, <1>2, <1>3, <1>4, <1>5, <1>6, <1>7, <1>8

-----------------------------------------------------------------------------
LEMMA InitIInv == Init => IInv
<1> SUFFICES ASSUME Init PROVE IInv
  OBVIOUS
<1> USE ConstantsOK DEF Init, NoWorker, NoToken
<1>1. TypeOK
  <2>1. /\ db \in [version : 1 .. issued, due : BOOLEAN, status : {"active", "error"}]
        /\ issued \in 1 .. MaxVersion /\ cache \in 0 .. issued /\ faults \in 0 .. MaxFaults
    OBVIOUS
  <2>2. lock \in BOOLEAN /\ rejected \in BOOLEAN
    OBVIOUS
  <2>3. pc \in [Workers -> Pcs] /\ locked \in [Workers -> BOOLEAN]
    BY DEF Pcs
  <2>4. local \in [Processes -> Workers \cup {"none"}]
    OBVIOUS
  <2>5. account \in [Workers -> 1 .. issued] /\ fresh \in [Workers -> 1 .. issued]
    OBVIOUS
  <2>6. \A w \in Workers : attempt[w] \in 1 .. MaxRetries[ProcessOf[w]] + 1
    BY Retries
  <2> QED
    BY <2>1, <2>2, <2>3, <2>4, <2>5, <2>6 DEF TypeOK
<1>2. AttemptsLeft
  BY Retries DEF AttemptsLeft
<1>3. OwnsMutex /\ OwnsLock /\ ReadHolds
  BY DEF OwnsMutex, OwnsLock, ReadHolds, Holding, Inside, Results
<1> QED
  BY <1>1, <1>2, <1>3 DEF IInv

LEMMA NextIInv == IInv /\ [Next]_vars => IInv'
<1> SUFFICES ASSUME IInv, [Next]_vars PROVE IInv'
  OBVIOUS
<1>1. CASE \E w \in Workers : Begin(w) \/ Refresh(w)
  <2> PICK w \in Workers : Begin(w) \/ Refresh(w)
    BY <1>1
  <2> QED
    BY ListActiveStep, GetAccessTokenStep, LockLocalStep, AcquireRefreshLockStep, RereadStep,
      ExchangeStep, RecoverStep, PersistStep, ReturnStep, SetErrorStep,
      SetTempUnschedulableStep, InvalidateTokenStep, WaitForCacheStep, CheckTokenVersionStep,
      SetAccessTokenStep DEF Begin, Refresh
<1>2. CASE \E p \in Processes : Crash(p)
  BY <1>2, CrashStep
<1>3. CASE TokenAges \/ LockExpires \/ CacheExpires \/ Reauthorize
  BY <1>3, TokenAgesStep, LockExpiresStep, CacheExpiresStep, ReauthorizeStep
<1>4. CASE UNCHANGED vars
  BY <1>4 DEF vars, work, IInv, TypeOK, AttemptsLeft, OwnsMutex, OwnsLock, ReadHolds
<1> QED
  BY <1>1, <1>2, <1>3, <1>4 DEF Next

\* The inductive invariant holds in every reachable state.
THEOREM Invariance == Spec => []IInv
  BY InitIInv, NextIInv, PTL DEF Spec

\* Rows, locks, workers and their retry counters keep their types; no object a
\* worker holds is newer than what the provider issued (OAuthRefresh).
THEOREM TypeCorrect == Spec => []TypeOK
<1>1. IInv => TypeOK
  BY DEF IInv
<1> QED
  BY <1>1, Invariance, PTL

\* Without a fault no refresh token is presented twice, no account is disabled
\* and the stored token is the live one or about to be (RefreshIfNeeded).
THEOREM TokensAreNotReplayed == Spec => []NoReplay
<1>1. IInv => NoReplay
  BY DEF IInv, ReadHolds, NoReplay
<1> QED
  BY <1>1, Invariance, PTL

\* Whatever fails, one worker of a process at most is between the local mutex
\* and the deferred calls; without a fault, one of all processes is in the
\* critical section (localLocks and AcquireRefreshLock of RefreshIfNeeded).
THEOREM RefreshersExclude == Spec => []OneRefresher
<1>1. IInv => OneRefresher
  BY DEF IInv, OwnsMutex, OwnsLock, OneRefresher
<1> QED
  BY <1>1, Invariance, PTL
=============================================================================

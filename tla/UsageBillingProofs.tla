------------------------- MODULE UsageBillingProofs --------------------------
(***************************************************************************)
(* What usage billing keeps true for every set of requests, of keys, of    *)
(* costs and every configuration: an inductive invariant, what follows     *)
(* from it, and that billing implements the ledger.                        *)
(***************************************************************************)
EXTENDS UsageBilling, FiniteSetTheorems, SequenceTheorems, WellFoundedInduction, TLAPS

\* The statements of a transaction that holds the row of its key.
Claiming == {"archive", "effects"}

\* The queue of the pool holds every waiting record once, for the pool.
QueueOK ==
  /\ \A i, j \in 1 .. Len(queue) : queue[i] = queue[j] => i = j
  /\ \A t \in Tasks : pc[t] = "queued" =>
        mode[t] = "pool" /\ \E i \in 1 .. Len(queue) : queue[i] = t

\* A record that is executed is executed in some mode.
ModeOK == \A t \in Tasks : pc[t] \in Applying => mode[t] # None

\* A transaction that holds a key found it in neither table, and holds it alone.
HeldOK ==
  /\ \A t \in Tasks : pc[t] \in Claiming => dedup[Key(t)] = None
  /\ \A t \in Tasks : pc[t] = "effects" => archive[Key(t)] = None
  /\ \A t, u \in Tasks : pc[t] \in Claiming /\ pc[u] \in Claiming /\ Key(t) = Key(u)
                          => t = u

\* A key is recorded if and only if it was charged, and then once.
ChargesOK == \A k \in Keys : charges[k] = IF k \in Claimed THEN 1 ELSE 0

\* A record is skipped for a key that is recorded.
SkippedOK == \A t \in Tasks : pc[t] = "skipped" => Key(t) \in Claimed

\* With one period and no other event, an event of the account is young only
\* after the crossing.
AccountOK ==
  ~config.events /\ ~config.periods =>
    ~account.over /\ (account.recent => account.used >= config.accountLimit)

\* The cleanup runs when no handler is left, and ends when no worker is.
StopOK ==
  /\ server \in {"cleaning", "exited"} => \A t \in Tasks : ~Handling(t)
  /\ server = "exited" => queue = <<>> /\ Running = {}

\* While nothing fails and nothing expires or is credited.
Undisturbed == config.warm /\ ~config.expiry /\ credits = 0 /\ faults = 0

\* Then the entry stays, so that nothing is loaded and only deductions are queued.
TrackOK ==
  /\ credits = 0 => invalidations = 0
  /\ Undisturbed => /\ load.state = "none"
                    /\ IsFiniteSet(Finalizing) /\ IsFiniteSet(Panicked)
                    /\ \A i \in 1 .. Len(writes) : writes[i].kind = "deduct"
                    /\ CacheTracksBalance

IInv ==
  /\ TypeOK /\ QueueOK /\ ModeOK /\ HeldOK /\ ChargesOK /\ SkippedOK
  /\ QuotaNoticed /\ AccountOK /\ ProbeUnderWay /\ StopOK /\ TrackOK

-----------------------------------------------------------------------------
(* The configuration in force. *)

LEMMA ConfigFields ==
  ASSUME TypeOK
  PROVE  /\ config.credits \in Nat /\ config.faults \in Nat /\ config.keyQuota \in Nat
         /\ config.halfOpen \in Nat \ {0} /\ config.accountLimit \in Nat \ {0}
         /\ config.threshold \in Nat
         /\ \A t \in Tasks : /\ config.task[t].upstream \in Keys
                             /\ config.task[t].client \in Keys
                             /\ config.task[t].cost \in Nat
                             /\ config.task[t].print \in Prints
                             /\ config.task[t].print # None
                             /\ config.task[t].ws \in BOOLEAN
         /\ config.events \in BOOLEAN /\ config.periods \in BOOLEAN
<1>1. config \in Configs
  BY DEF TypeOK
<1>2. \A t \in Tasks : config.task[t].print \in Prints
  BY <1>1 DEF Prints
<1> QED
  BY <1>1, <1>2, ConfigsOK

LEMMA RecordFields ==
  ASSUME TypeOK, NEW t \in Tasks
  PROVE  Key(t) \in Keys /\ Cost(t) \in Nat /\ Fingerprint(t) \in Prints \ {None}
BY ConfigFields DEF Key, Cost, Fingerprint

-----------------------------------------------------------------------------
(* Types *)

WriteSet == [kind : {"set", "deduct"}, amount : Int]

LEMMA RemoveAtTyped ==
  ASSUME NEW S, NEW s \in Seq(S), NEW i \in 1 .. Len(s)
  PROVE  RemoveAt(s, i) \in Seq(S)
<1>1. SubSeq(s, 1, i - 1) \in Seq(S) /\ SubSeq(s, i + 1, Len(s)) \in Seq(S)
  BY SubSeqProperties, LenProperties
<1> QED
  BY <1>1, ConcatProperties DEF RemoveAt

LEMMA WritesTyped ==
  ASSUME NEW v \in Int
  PROVE  SetWrite(v) \in WriteSet /\ DeductWrite(v) \in WriteSet
BY DEF SetWrite, DeductWrite, WriteSet

BreakerSet == [state : {"closed", "open", "half-open"}, failures : Nat,
               remaining : Nat, cooled : BOOLEAN]

LEMMA BreakerTyped ==
  ASSUME TypeOK
  PROVE  /\ breaker \in BreakerSet /\ Closed \in BreakerSet
         /\ \A b : Allows(b) => b \in BreakerSet
         /\ AfterFailure \in BreakerSet /\ AfterFailure.state # "half-open"
         /\ [breaker EXCEPT !.cooled = TRUE] \in BreakerSet
<1>1. /\ breaker \in BreakerSet
      /\ breaker.failures \in Nat /\ breaker.remaining \in Nat
      /\ breaker.state \in {"closed", "open", "half-open"}
  BY DEF TypeOK, BreakerSet
<1>2. config.halfOpen - 1 \in Nat /\ breaker.failures + 1 \in Nat
  BY <1>1, ConfigFields
<1>3. \A n \in Nat : Open(n) \in BreakerSet /\ Open(n).state = "open"
  BY DEF Open, BreakerSet
<1>4. HalfOpen \in BreakerSet
  BY <1>1, <1>2 DEF HalfOpen, BreakerSet
<1>5. breaker.remaining > 0 => [breaker EXCEPT !.remaining = @ - 1] \in BreakerSet
  BY <1>1 DEF BreakerSet
<1>6. [breaker EXCEPT !.failures = @ + 1] \in BreakerSet
  BY <1>1 DEF BreakerSet
<1>7. AfterFailure \in BreakerSet /\ AfterFailure.state # "half-open"
  <2>1. CASE breaker.state = "open"
    BY <1>1, <2>1 DEF AfterFailure
  <2>2. CASE breaker.state = "half-open"
    BY <1>1, <1>3, <2>2 DEF AfterFailure
  <2>3. CASE breaker.state = "closed" /\ breaker.failures + 1 >= config.threshold
    BY <1>2, <1>3, <2>3 DEF AfterFailure
  <2>4. CASE breaker.state = "closed" /\ ~(breaker.failures + 1 >= config.threshold)
    <3>1. AfterFailure = [breaker EXCEPT !.failures = @ + 1]
      BY <2>4 DEF AfterFailure
    <3>2. [breaker EXCEPT !.failures = @ + 1].state = breaker.state
      BY <1>1 DEF BreakerSet
    <3> QED
      BY <1>6, <2>4, <3>1, <3>2
  <2> QED
    BY <1>1, <2>1, <2>2, <2>3, <2>4
<1>8. Closed \in BreakerSet /\ [breaker EXCEPT !.cooled = TRUE] \in BreakerSet
  BY <1>1 DEF Closed, BreakerSet
<1> QED
  BY <1>1, <1>4, <1>5, <1>7, <1>8 DEF Allows

AccountSet == [used : Nat, over : BOOLEAN, recent : BOOLEAN,
               notice : {None, "written", "suppressed"}]

\* The parts of TypeOK, by the variables they are about.
CacheTyped ==
  /\ balance \in Int /\ faults \in Nat
  /\ cache \in [held : BOOLEAN, value : Int, ttl : BOOLEAN]
  /\ writes \in Seq(WriteSet)
  /\ load \in [state : {"none", "started", "read", "send"}, value : Int]
  /\ breaker \in BreakerSet
  /\ seen \in [Tasks -> Int] /\ channel \in {"open", "stopping", "closed", "nil"}

RowsTyped ==
  /\ dedup \in [Keys -> Prints \cup {None}] /\ archive \in [Keys -> Prints \cup {None}]
  /\ charges \in [Keys -> Nat]
  /\ apiKey \in [used : Nat, status : {"active", "quota_exhausted"}]
  /\ account \in AccountSet

PoolTyped ==
  /\ server \in {"up", "draining", "cleaning", "exited", "killed"}
  /\ poolStopped \in BOOLEAN
  /\ queue \in Seq(Tasks)
  /\ mode \in [Tasks -> {None, "pool", "sync", "fallback"}]

QueueTyped == \A i \in 1 .. Len(queue) : pc[queue[i]] = "queued"

LEMMA TypeParts ==
  TypeOK <=> /\ config \in Configs /\ credits \in Nat /\ invalidations \in Nat
             /\ pc \in [Tasks -> Pcs]
             /\ CacheTyped /\ RowsTyped /\ PoolTyped /\ QueueTyped
BY DEF TypeOK, CacheTyped, RowsTyped, PoolTyped, QueueTyped, WriteSet, BreakerSet,
   AccountSet

LEMMA TypePartsPrime ==
  TypeOK' <=> /\ config' \in Configs /\ credits' \in Nat /\ invalidations' \in Nat
              /\ pc' \in [Tasks -> Pcs]
              /\ CacheTyped' /\ RowsTyped' /\ PoolTyped' /\ QueueTyped'
BY DEF TypeOK, CacheTyped, RowsTyped, PoolTyped, QueueTyped, WriteSet, BreakerSet,
   AccountSet

\* What a step leaves alone keeps its type.
LEMMA CacheKept ==
  ASSUME CacheTyped, UNCHANGED cacheVars PROVE CacheTyped'
BY DEF CacheTyped, cacheVars

LEMMA RowsKept ==
  ASSUME RowsTyped, UNCHANGED applyVars PROVE RowsTyped'
BY DEF RowsTyped, applyVars

LEMMA PoolKept ==
  ASSUME PoolTyped, UNCHANGED poolVars PROVE PoolTyped'
BY DEF PoolTyped, poolVars

\* A record that is not queued moves, and is not queued: the queue is as before.
LEMMA QueueKept ==
  ASSUME QueueTyped, PoolTyped, UNCHANGED queue,
         \A t \in Tasks : pc[t] = "queued" => pc'[t] = "queued"
  PROVE  QueueTyped'
BY DEF QueueTyped, PoolTyped

\* The steps of the eligibility check keep the cache typed.
EligibilityStep ==
  \/ \E t \in Tasks : \/ Check(t) \/ CheckForbidden(t) \/ ReadCache(t) \/ MissCache(t)
                      \/ CheckError(t) \/ CheckDone(t)
  \/ LoadRead \/ LoadSends \/ LoadDone \/ LoadPanics \/ LoadFails

LEMMA EligibilityTyped ==
  ASSUME TypeOK, EligibilityStep
  PROVE  CacheTyped' /\ pc' \in [Tasks -> Pcs]
<1>1. CacheTyped /\ pc \in [Tasks -> Pcs]
  BY TypeParts
<1>2. /\ breaker \in BreakerSet /\ Closed \in BreakerSet
      /\ \A b : Allows(b) => b \in BreakerSet
      /\ AfterFailure \in BreakerSet
  BY BreakerTyped
<1>3. ASSUME NEW t \in Tasks, Check(t) \/ CheckForbidden(t)
      PROVE  CacheTyped' /\ pc' \in [Tasks -> Pcs]
  <2>1. breaker' \in BreakerSet
    BY <1>2, <1>3 DEF Check, CheckForbidden
  <2> QED
    BY <1>1, <1>3, <2>1 DEF CacheTyped, Check, CheckForbidden, Goto, Pcs
<1>4. ASSUME NEW t \in Tasks, ReadCache(t)
      PROVE  CacheTyped' /\ pc' \in [Tasks -> Pcs]
  BY <1>1, <1>4 DEF CacheTyped, ReadCache, Goto, Pcs
<1>5. ASSUME NEW t \in Tasks, MissCache(t)
      PROVE  CacheTyped' /\ pc' \in [Tasks -> Pcs]
  BY <1>1, <1>5 DEF CacheTyped, MissCache, Fault, Goto, Pcs
<1>6. ASSUME NEW t \in Tasks, CheckError(t)
      PROVE  CacheTyped' /\ pc' \in [Tasks -> Pcs]
  BY <1>1, <1>2, <1>6 DEF CacheTyped, CheckError, Goto, Pcs
<1>7. ASSUME NEW t \in Tasks, CheckDone(t)
      PROVE  CacheTyped' /\ pc' \in [Tasks -> Pcs]
  BY <1>1, <1>2, <1>7 DEF CacheTyped, CheckDone, AfterSuccess, Goto, Pcs
<1>8. CASE LoadRead \/ LoadSends \/ LoadPanics
  BY <1>1, <1>8 DEF CacheTyped, LoadRead, LoadSends, LoadPanics, Pcs
<1>9. CASE LoadDone
  <2>1. load.value \in Int
    BY <1>1 DEF CacheTyped
  <2>2. writes' \in Seq(WriteSet)
    <3>1. Append(writes, SetWrite(load.value)) \in Seq(WriteSet)
      BY <1>1, <2>1, WritesTyped, AppendProperties DEF CacheTyped
    <3> QED
      BY <1>1, <1>9, <3>1 DEF LoadDone, CacheTyped
  <2>3. seen' \in [Tasks -> Int]
    BY <1>1, <1>9, <2>1 DEF LoadDone, CacheTyped
  <2>4. pc' \in [Tasks -> Pcs]
    BY <1>1, <1>9 DEF LoadDone, Pcs
  <2> QED
    BY <1>1, <1>9, <2>2, <2>3, <2>4 DEF LoadDone, CacheTyped
<1>10. CASE LoadFails
  BY <1>1, <1>10 DEF CacheTyped, LoadFails, Fault, Pcs
<1> QED
  BY <1>3, <1>4, <1>5, <1>6, <1>7, <1>8, <1>9, <1>10 DEF EligibilityStep

LEMMA DeductTyped ==
  ASSUME CacheTyped, NEW a \in Int
  PROVE  /\ DeductUserBalance(cache, a) \in [held : BOOLEAN, value : Int, ttl : BOOLEAN]
         /\ SetUserBalance(cache, a) \in [held : BOOLEAN, value : Int, ttl : BOOLEAN]
BY DEF CacheTyped, DeductUserBalance, SetUserBalance, Entry

LEMMA CacheWriteTyped ==
  ASSUME CacheTyped, CacheWrite PROVE CacheTyped'
<1>1. PICK i \in 1 .. Len(writes) :
         /\ writes' = RemoveAt(writes, i)
         /\ \/ /\ cache' = IF writes[i].kind = "set"
                           THEN SetUserBalance(cache, writes[i].amount)
                           ELSE DeductUserBalance(cache, writes[i].amount)
               /\ UNCHANGED faults
            \/ Fault /\ UNCHANGED cache
         /\ UNCHANGED <<balance, channel, load, breaker, pc, seen>>
  BY DEF CacheWrite
<1>2. writes' \in Seq(WriteSet)
  BY <1>1, RemoveAtTyped DEF CacheTyped
<1>3. writes[i] \in WriteSet
  BY DEF CacheTyped
<1>4. writes[i].amount \in Int
  BY <1>3 DEF WriteSet
<1>5. cache' \in [held : BOOLEAN, value : Int, ttl : BOOLEAN]
  BY <1>1, <1>4, DeductTyped DEF CacheTyped
<1>6. faults' \in Nat
  BY <1>1 DEF CacheTyped, Fault
<1> QED
  BY <1>1, <1>2, <1>5, <1>6 DEF CacheTyped

LEMMA QueueDeductTyped ==
  ASSUME CacheTyped, NEW t \in Tasks, NEW a \in Int, QueueDeductBalance(t, a),
         UNCHANGED <<balance, channel, load, breaker, seen>>
  PROVE  CacheTyped'
<1>1. Append(writes, DeductWrite(a)) \in Seq(WriteSet)
  BY WritesTyped, AppendProperties DEF CacheTyped
<1>2. writes' \in Seq(WriteSet)
  BY <1>1 DEF QueueDeductBalance, CheckStopped, Send, DeductBalanceCache, CacheTyped
<1>3. cache' \in [held : BOOLEAN, value : Int, ttl : BOOLEAN]
  <2>1. cache' = cache \/ cache' = DeductUserBalance(cache, a)
    BY DEF QueueDeductBalance, CheckStopped, Send, DeductBalanceCache
  <2> QED
    BY <2>1, DeductTyped DEF CacheTyped
<1>4. faults' \in Nat
  BY DEF QueueDeductBalance, CheckStopped, Send, DeductBalanceCache, CacheTyped, Fault
<1> QED
  BY <1>2, <1>3, <1>4 DEF CacheTyped

\* Where finalizePostUsageBilling takes a record.
LEMMA FinalizeMoves ==
  ASSUME NEW t \in Tasks, Finalize(t)
  PROVE  /\ pc[t] \in Finishing
         /\ \E l \in {"send", "deduct", "charged", "panicked"} : Goto(t, l)
BY DEF Finalize, QueueDeductBalance, CheckStopped, Send, DeductBalanceCache, Finishing

LEMMA CommitTyped ==
  ASSUME TypeOK, NEW t \in Tasks, CommitEffects(t), UNCHANGED archive
  PROVE  RowsTyped' /\ balance' \in Int
<1>1. Key(t) \in Keys /\ Cost(t) \in Nat /\ Fingerprint(t) \in Prints
  BY RecordFields
<1>2. RowsTyped /\ balance \in Int
  BY TypeParts DEF CacheTyped
<1>3. dedup' \in [Keys -> Prints \cup {None}]
  BY <1>1, <1>2 DEF CommitEffects, RowsTyped
<1>4. charges' \in [Keys -> Nat]
  BY <1>1, <1>2 DEF CommitEffects, RowsTyped
<1>5. apiKey' \in [used : Nat, status : {"active", "quota_exhausted"}]
  BY <1>1, <1>2 DEF CommitEffects, RowsTyped, KeyAfter
<1>6. account' \in AccountSet
  BY <1>1, <1>2 DEF CommitEffects, RowsTyped, AccountSet, AccountAfter, Announced, None
<1> QED
  BY <1>1, <1>2, <1>3, <1>4, <1>5, <1>6 DEF CommitEffects, RowsTyped

\* A record of its own goes on: everything but the program counters keeps its type.
LEMMA RecordMovesTyped ==
  ASSUME TypeOK, NEW t \in Tasks, NEW l \in Pcs, Goto(t, l), pc[t] # "queued",
         UNCHANGED <<config, poolVars, creditVars>>, CacheTyped', RowsTyped'
  PROVE  TypeOK'
<1>1. pc' \in [Tasks -> Pcs] /\ PoolTyped'
  BY TypeParts, PoolKept DEF Goto
<1>2. QueueTyped'
  BY TypeParts, QueueKept DEF Goto, poolVars
<1> QED
  BY <1>1, <1>2, TypeParts, TypePartsPrime DEF creditVars

LEMMA RecordTyped ==
  ASSUME TypeOK, NEW t \in Tasks, Record(t)
  PROVE  TypeOK'
<1>1. CacheTyped /\ RowsTyped /\ PoolTyped /\ QueueTyped /\ pc \in [Tasks -> Pcs]
  BY TypeParts
<1>2. CASE Arrive(t)
  <2>1. CacheTyped' /\ pc' \in [Tasks -> Pcs]
    BY <1>2, EligibilityTyped DEF Arrive, EligibilityStep
  <2>2. RowsTyped'
    BY <1>1, <1>2, RowsKept DEF Arrive
  <2>3. pc[t] # "queued" /\ UNCHANGED <<config, poolVars, creditVars>>
    BY <1>2 DEF Arrive
  <2>4. Goto(t, "get") \/ Goto(t, "refused")
    BY <1>2 DEF Arrive, Check, CheckForbidden
  <2> QED
    BY <2>1, <2>2, <2>3, <2>4, RecordMovesTyped DEF Pcs
<1>3. CASE Again(t) \/ Forward(t)
  <2>1. CacheTyped' /\ RowsTyped'
    BY <1>1, <1>3, CacheKept, RowsKept DEF Again, Forward
  <2>2. /\ pc[t] # "queued" /\ UNCHANGED <<config, poolVars, creditVars>>
        /\ Goto(t, "idle") \/ Goto(t, "submit")
    BY <1>3 DEF Again, Forward
  <2> QED
    BY <2>1, <2>2, RecordMovesTyped DEF Pcs
<1>4. CASE Submit(t)
  <2>1. CacheTyped' /\ RowsTyped'
    BY <1>1, <1>4, CacheKept, RowsKept DEF Submit
  <2>2. pc' \in [Tasks -> Pcs] /\ mode' \in [Tasks -> {None, "pool", "sync", "fallback"}]
    BY <1>1, <1>4 DEF Submit, Execute, Goto, Pcs, Applying, Charging, PoolTyped
  <2>3. CASE queue' = queue
    <3>1. QueueTyped'
      BY <1>1, <1>4, <2>3, QueueKept DEF Submit, Execute, Goto
    <3>2. PoolTyped'
      BY <1>1, <1>4, <2>2, <2>3 DEF Submit, PoolTyped
    <3> QED
      BY <1>4, <2>1, <2>2, <3>1, <3>2, TypeParts, TypePartsPrime DEF Submit, creditVars
  <2>4. CASE queue' = Append(queue, t) /\ Goto(t, "queued")
    <3>1. /\ queue' \in Seq(Tasks) /\ Len(queue') = Len(queue) + 1
          /\ \A i \in 1 .. Len(queue) : queue'[i] = queue[i]
          /\ queue'[Len(queue) + 1] = t
      BY <1>1, <2>4, AppendProperties DEF PoolTyped
    <3>2. \A i \in 1 .. Len(queue) : queue[i] \in Tasks /\ pc[queue[i]] = "queued"
      BY <1>1 DEF PoolTyped, QueueTyped
    <3>3. Len(queue) \in Nat
      BY <1>1 DEF PoolTyped
    <3>4. QueueTyped'
      BY <1>1, <2>4, <3>1, <3>2, <3>3 DEF QueueTyped, Goto
    <3>5. PoolTyped'
      BY <1>1, <1>4, <2>2, <3>1 DEF Submit, PoolTyped
    <3> QED
      BY <1>4, <2>1, <2>2, <3>4, <3>5, TypeParts, TypePartsPrime DEF Submit, creditVars
  <2> QED
    BY <1>4, <2>3, <2>4 DEF Submit, Execute
<1>5. CASE Claim(t) \/ ReadExisting(t) \/ ReadArchive(t)
  <2>1. CacheTyped' /\ RowsTyped'
    BY <1>1, <1>5, CacheKept, RowsKept DEF Claim, ReadExisting, ReadArchive
  <2>2. /\ pc[t] # "queued" /\ UNCHANGED <<config, poolVars, creditVars>>
        /\ \E l \in {"archive", "existing", "skipped", "failed", "effects"} : Goto(t, l)
    BY <1>5 DEF Claim, ReadExisting, ReadArchive
  <2> QED
    BY <2>1, <2>2, RecordMovesTyped DEF Pcs, Applying, Charging, Finishing
<1>6. CASE Apply(t)
  <2>1. RowsTyped' /\ balance' \in Int
    BY <1>6, CommitTyped DEF Apply
  <2>2. CacheTyped'
    BY <1>1, <1>6, <2>1 DEF Apply, CacheTyped, Fault
  <2>3. /\ pc[t] # "queued" /\ UNCHANGED <<config, poolVars, creditVars>>
        /\ Goto(t, "finalize") \/ Goto(t, "failed")
    BY <1>6 DEF Apply
  <2> QED
    BY <2>1, <2>2, <2>3, RecordMovesTyped DEF Pcs, Applying, Charging, Finishing
<1>7. CASE ApplyFails(t)
  <2>1. CacheTyped' /\ RowsTyped'
    BY <1>1, <1>7, RowsKept DEF ApplyFails, CacheTyped, Fault
  <2>2. pc[t] # "queued" /\ UNCHANGED <<config, poolVars, creditVars>> /\ Goto(t, "failed")
    BY <1>7 DEF ApplyFails, Charging
  <2> QED
    BY <2>1, <2>2, RecordMovesTyped DEF Pcs
<1>8. CASE Finalize(t)
  <2>1. Cost(t) \in Int
    BY RecordFields
  <2>2. CacheTyped'
    BY <1>1, <1>8, <2>1, QueueDeductTyped DEF Finalize
  <2>3. /\ RowsTyped' /\ pc[t] # "queued" /\ UNCHANGED <<config, poolVars, creditVars>>
    BY <1>1, <1>8, RowsKept, FinalizeMoves DEF Finalize, Finishing
  <2>4. PICK l \in {"send", "deduct", "charged", "panicked"} : Goto(t, l)
    BY <1>8, FinalizeMoves
  <2>5. l \in Pcs
    BY DEF Pcs, Applying, Charging, Finishing
  <2> QED
    BY <2>2, <2>3, <2>4, <2>5, RecordMovesTyped
<1> QED
  BY <1>2, <1>3, <1>4, <1>5, <1>6, <1>7, <1>8 DEF Record

\* A step that moves no record and leaves the pool's queue alone.
LEMMA OthersMoveTyped ==
  ASSUME TypeOK, UNCHANGED <<config, pc, queue, mode>>, CacheTyped', RowsTyped',
         server' \in {"up", "draining", "cleaning", "exited", "killed"},
         poolStopped' \in BOOLEAN, credits' \in Nat, invalidations' \in Nat
  PROVE  TypeOK'
<1>1. PoolTyped' /\ QueueTyped'
  BY TypeParts DEF PoolTyped, QueueTyped
<1> QED
  BY <1>1, TypeParts, TypePartsPrime

LEMMA EligibilityKeepsType ==
  ASSUME TypeOK, Eligibility
  PROVE  TypeOK'
<1>1. CacheTyped' /\ pc' \in [Tasks -> Pcs]
  BY EligibilityTyped DEF Eligibility, EligibilityStep
<1>2. UNCHANGED <<config, applyVars, poolVars, creditVars>>
  BY DEF Eligibility
<1>3. RowsTyped' /\ PoolTyped'
  BY <1>2, TypeParts, RowsKept, PoolKept
<1>4. \A t \in Tasks : pc[t] = "queued" => pc'[t] = "queued"
  BY TypeParts DEF Eligibility, ReadCache, MissCache, CheckError, CheckDone, LoadRead,
     LoadSends, LoadDone, LoadPanics, LoadFails, Goto, Waiters
<1>5. QueueTyped'
  BY <1>2, <1>4, TypeParts, QueueKept DEF poolVars
<1> QED
  BY <1>1, <1>2, <1>3, <1>5, TypeParts, TypePartsPrime DEF creditVars

LEMMA StartWorkerKeepsType ==
  ASSUME TypeOK, QueueOK, StartWorker
  PROVE  TypeOK'
<1>1. CacheTyped /\ RowsTyped /\ PoolTyped /\ QueueTyped /\ pc \in [Tasks -> Pcs]
  BY TypeParts
<1>2. queue \in Seq(Tasks) /\ queue # <<>>
  BY <1>1 DEF PoolTyped, StartWorker
<1>3. /\ Head(queue) = queue[1] /\ Head(queue) \in Tasks
      /\ Tail(queue) \in Seq(Tasks) /\ Len(Tail(queue)) = Len(queue) - 1
      /\ \A i \in 1 .. Len(queue) - 1 : Tail(queue)[i] = queue[i + 1]
      /\ Len(queue) \in Nat \ {0}
  BY <1>2, HeadTailProperties, EmptySeq
<1>4. pc' \in [Tasks -> Pcs]
  BY <1>1, <1>3 DEF StartWorker, Goto, Pcs, Applying, Charging
<1>5. QueueTyped'
  <2> SUFFICES ASSUME NEW i \in 1 .. Len(queue) - 1 PROVE pc'[queue[i + 1]] = "queued"
    BY <1>3 DEF QueueTyped, StartWorker
  <2>1. i + 1 \in 1 .. Len(queue) /\ i + 1 # 1 /\ 1 \in 1 .. Len(queue)
    BY <1>3
  <2>2. queue[i + 1] # queue[1] /\ queue[i + 1] \in Tasks /\ pc[queue[i + 1]] = "queued"
    BY <1>1, <1>2, <2>1 DEF QueueOK, QueueTyped
  <2> QED
    BY <1>1, <1>3, <2>2 DEF StartWorker, Goto
<1>6. PoolTyped'
  BY <1>1, <1>3 DEF StartWorker, PoolTyped
<1>7. CacheTyped' /\ RowsTyped'
  BY <1>1, CacheKept, RowsKept DEF StartWorker
<1> QED
  BY <1>4, <1>5, <1>6, <1>7, TypeParts, TypePartsPrime DEF StartWorker, creditVars

LEMMA TypePreserved ==
  ASSUME TypeOK, QueueOK, [Next]_vars
  PROVE  TypeOK'
<1>1. /\ CacheTyped /\ RowsTyped /\ PoolTyped /\ QueueTyped /\ pc \in [Tasks -> Pcs]
      /\ server \in {"up", "draining", "cleaning", "exited", "killed"}
      /\ poolStopped \in BOOLEAN /\ credits \in Nat /\ invalidations \in Nat
  BY TypeParts DEF PoolTyped
<1>2. ASSUME NEW t \in Tasks, Record(t) PROVE TypeOK'
  BY <1>2, RecordTyped
<1>3. CASE Eligibility
  BY <1>3, EligibilityKeepsType
<1>4. CASE StartWorker
  BY <1>4, StartWorkerKeepsType
<1>5. ASSUME NEW k \in Keys, Cleanup(k) PROVE TypeOK'
  <2>1. CacheTyped' /\ UNCHANGED <<config, pc, poolVars, creditVars>>
    BY <1>1, <1>5, CacheKept DEF Cleanup
  <2>2. RowsTyped'
    BY <1>1, <1>5 DEF Cleanup, RowsTyped
  <2> QED
    BY <1>1, <2>1, <2>2, OthersMoveTyped DEF poolVars, creditVars
<1>6. CASE PeriodEnds \/ AccountChanges \/ WindowPasses
  <2>1. CacheTyped' /\ UNCHANGED <<config, pc, poolVars, creditVars>>
    BY <1>1, <1>6, CacheKept DEF PeriodEnds, AccountChanges, WindowPasses
  <2>2. account' \in AccountSet
    BY <1>1, <1>6 DEF PeriodEnds, AccountChanges, WindowPasses, RowsTyped, AccountSet
  <2>3. RowsTyped'
    BY <1>1, <1>6, <2>2 DEF PeriodEnds, AccountChanges, WindowPasses, RowsTyped
  <2> QED
    BY <1>1, <2>1, <2>3, OthersMoveTyped DEF poolVars, creditVars
<1>7. CASE Credit
  <2>1. CacheTyped' /\ credits' \in Nat /\ invalidations' \in Nat
    BY <1>1, <1>7 DEF Credit, CacheTyped
  <2>2. RowsTyped' /\ UNCHANGED <<config, pc, poolVars>>
    BY <1>1, <1>7, RowsKept DEF Credit
  <2> QED
    BY <1>1, <2>1, <2>2, OthersMoveTyped DEF poolVars
<1>8. CASE InvalidateUserBalance
  <2>1. credits' \in Nat /\ invalidations' \in Nat
    BY <1>1, <1>8 DEF InvalidateUserBalance
  <2>2. NoEntry \in [held : BOOLEAN, value : Int, ttl : BOOLEAN]
    BY DEF NoEntry
  <2>3. CacheTyped'
    BY <1>1, <1>8, <2>2 DEF InvalidateUserBalance, CacheTyped, Fault
  <2>4. RowsTyped' /\ UNCHANGED <<config, pc, poolVars>>
    BY <1>1, <1>8, RowsKept DEF InvalidateUserBalance
  <2> QED
    BY <1>1, <2>1, <2>3, <2>4, OthersMoveTyped DEF poolVars
<1>9. CASE CacheWorker \/ Expiry \/ Cooling
  <2>1. CacheWorker => CacheTyped'
    BY <1>1, CacheWriteTyped DEF CacheWorker
  <2>2. Expiry => CacheTyped'
    BY <1>1 DEF Expiry, CacheExpires, CacheTyped, NoEntry
  <2>3. Cooling => CacheTyped'
    BY <1>1, BreakerTyped DEF Cooling, Cool, CacheTyped
  <2>4. RowsTyped' /\ UNCHANGED <<config, pc, poolVars, creditVars>>
    BY <1>1, <1>9, RowsKept
    DEF CacheWorker, CacheWrite, Expiry, CacheExpires, Cooling, Cool
  <2>5. CacheTyped'
    BY <1>9, <2>1, <2>2, <2>3
  <2> QED
    BY <1>1, <2>4, <2>5, OthersMoveTyped DEF poolVars, creditVars
<1>10. CASE Shutdown
  <2>1. RowsTyped' /\ UNCHANGED <<config, pc, queue, mode, creditVars>>
    BY <1>1, <1>10, RowsKept DEF Shutdown, Sigterm, Drained, Forced, StopPool, StopCache,
       Exit, poolVars
  <2>2. CacheTyped'
    BY <1>1, <1>10 DEF Shutdown, Sigterm, Drained, Forced, StopPool, StopCache,
       Exit, CacheTyped, cacheVars
  <2>3. server' \in {"up", "draining", "cleaning", "exited", "killed"}
        /\ poolStopped' \in BOOLEAN
    BY <1>1, <1>10 DEF Shutdown, Sigterm, Drained, Forced, StopPool, StopCache,
       Exit, poolVars
  <2> QED
    BY <1>1, <2>1, <2>2, <2>3, OthersMoveTyped DEF creditVars
<1>11. CASE UNCHANGED vars
  <2>1. CacheTyped' /\ RowsTyped'
    BY <1>1, <1>11, CacheKept, RowsKept DEF vars
  <2> QED
    BY <1>1, <1>11, <2>1, OthersMoveTyped DEF vars, poolVars, creditVars
<1> QED
  BY <1>2, <1>3, <1>4, <1>5, <1>6, <1>7, <1>8, <1>9, <1>10, <1>11 DEF Next

-----------------------------------------------------------------------------
(* The pool *)

\* Where a request is before it has usage to record.
Serving == {"get", "load", "got", "error", "forward", "submit"}
Before == Serving \cup {"idle", "refused"}

\* How a step moves the records.
Requests ==
  /\ UNCHANGED <<mode, queue>>
  /\ \A t \in Tasks : \/ pc'[t] = pc[t]
                      \/ pc[t] \in Serving /\ pc'[t] \in Before
                      \/ pc[t] = "idle" /\ pc'[t] \in Before /\ Accepts(t)
                      \/ pc[t] = "refused" /\ pc'[t] = "idle"

\* The statements of applyUsageBilling.
Statement(t) ==
  \/ Claim(t) \/ ReadExisting(t) \/ ReadArchive(t) \/ Apply(t) \/ ApplyFails(t)
  \/ Finalize(t)

Executes(t) ==
  /\ Statement(t)
  /\ UNCHANGED <<mode, queue>> /\ pc[t] \in Applying
  /\ \E l \in (Applying \ {"claim"}) \cup {"skipped", "failed", "charged", "panicked"} :
        Goto(t, l)

LEMMA Moves ==
  ASSUME TypeOK, [Next]_vars
  PROVE  \/ Requests \/ StartWorker
         \/ \E t \in Tasks : Submit(t) \/ Executes(t)
<1>1. pc \in [Tasks -> Pcs]
  BY TypeParts
<1>2. ASSUME NEW t \in Tasks, Arrive(t) \/ Again(t) \/ Forward(t) PROVE Requests
  BY <1>1, <1>2 DEF Arrive, Check, CheckForbidden, Again, Forward, Requests, Before, Serving,
     Goto, poolVars
<1>3. ASSUME NEW t \in Tasks, Statement(t) PROVE Executes(t)
  <2>1. UNCHANGED <<mode, queue>> /\ pc[t] \in Applying
    BY <1>3, FinalizeMoves DEF Statement, Claim, ReadExisting, ReadArchive, Apply, ApplyFails,
       Finalize, Applying, Charging, poolVars
  <2>2. \E l \in {"archive", "existing", "effects", "finalize", "skipped", "failed",
                  "send", "deduct", "charged", "panicked"} : Goto(t, l)
    BY <1>3, FinalizeMoves
    DEF Statement, Claim, ReadExisting, ReadArchive, Apply, ApplyFails
  <2> QED
    BY <1>3, <2>1, <2>2 DEF Executes, Applying, Charging, Finishing
<1>4. Eligibility => Requests
  BY <1>1 DEF Eligibility, ReadCache, MissCache, CheckError, CheckDone, LoadRead,
     LoadSends, LoadDone, LoadPanics, LoadFails, Goto, Waiters, Requests, Before,
     Serving, poolVars
<1>5. ASSUME NEW k \in Keys, Cleanup(k) PROVE Requests
  BY <1>5 DEF Cleanup, Requests, poolVars
<1>6. PeriodEnds \/ AccountChanges \/ WindowPasses \/ Credit \/ InvalidateUserBalance
      => Requests
  BY DEF PeriodEnds, AccountChanges, WindowPasses, Credit, InvalidateUserBalance, Requests,
     poolVars
<1>7. CacheWorker \/ Expiry \/ Cooling => Requests
  BY DEF CacheWorker, CacheWrite, Expiry, CacheExpires, Cooling, Cool, Requests, poolVars
<1>8. Shutdown => Requests
  BY DEF Shutdown, Sigterm, Drained, Forced, StopPool, StopCache, Exit, Requests, poolVars
<1>9. UNCHANGED vars => Requests
  BY DEF vars, poolVars, Requests
<1> QED
  BY <1>2, <1>3, <1>4, <1>5, <1>6, <1>7, <1>8, <1>9 DEF Next, Record, Statement

LEMMA QueuePreserved ==
  ASSUME TypeOK, QueueOK, ModeOK, [Next]_vars
  PROVE  QueueOK' /\ ModeOK'
<1>1. /\ pc \in [Tasks -> Pcs] /\ mode \in [Tasks -> {None, "pool", "sync", "fallback"}]
      /\ queue \in Seq(Tasks) /\ Len(queue) \in Nat
      /\ \A i \in 1 .. Len(queue) : queue[i] \in Tasks /\ pc[queue[i]] = "queued"
  BY TypeParts DEF PoolTyped, QueueTyped
<1>2. CASE Requests
  BY <1>1, <1>2 DEF Requests, Before, Serving, QueueOK, ModeOK, Applying, Charging, Finishing
<1>3. CASE StartWorker
  <2>1. /\ Head(queue) = queue[1] /\ Len(queue') = Len(queue) - 1
        /\ \A i \in 1 .. Len(queue) - 1 : queue'[i] = queue[i + 1]
        /\ Len(queue) \in Nat \ {0}
    BY <1>1, <1>3, HeadTailProperties, EmptySeq DEF StartWorker
  <2>2. pc' = [pc EXCEPT ![queue[1]] = "claim"] /\ mode' = mode /\ queue[1] \in Tasks
    BY <1>1, <1>3, <2>1 DEF StartWorker, Goto
  <2>3. \A i, j \in 1 .. Len(queue') : queue'[i] = queue'[j] => i = j
    <3> SUFFICES ASSUME NEW i \in 1 .. Len(queue'), NEW j \in 1 .. Len(queue'),
                        queue'[i] = queue'[j]
                 PROVE  i = j
      OBVIOUS
    <3>1. /\ i + 1 \in 1 .. Len(queue) /\ j + 1 \in 1 .. Len(queue)
          /\ queue[i + 1] = queue[j + 1]
      BY <2>1
    <3> QED
      BY <3>1 DEF QueueOK
  <2>4. ASSUME NEW t \in Tasks, pc'[t] = "queued"
        PROVE  mode'[t] = "pool" /\ \E i \in 1 .. Len(queue') : queue'[i] = t
    <3>1. t # queue[1] /\ pc[t] = "queued"
      BY <1>1, <2>2, <2>4
    <3>2. PICK i \in 1 .. Len(queue) : queue[i] = t
      BY <3>1 DEF QueueOK
    <3>3. i - 1 \in 1 .. Len(queue') /\ queue'[i - 1] = t
      BY <2>1, <3>1, <3>2
    <3> QED
      BY <2>2, <3>1, <3>3 DEF QueueOK
  <2>5. mode[queue[1]] = "pool"
    BY <1>1, <2>1 DEF QueueOK
  <2>6. ModeOK'
    BY <1>1, <2>2, <2>5 DEF ModeOK, None
  <2> QED
    BY <2>3, <2>4, <2>6 DEF QueueOK
<1>4. ASSUME NEW t \in Tasks, Submit(t) PROVE QueueOK' /\ ModeOK'
  <2>1. pc[t] = "submit"
    BY <1>4 DEF Submit
  <2>2. CASE queue' = queue /\ Goto(t, "claim")
             /\ \E m \in {"sync", "fallback"} : mode' = [mode EXCEPT ![t] = m]
    BY <1>1, <2>1, <2>2 DEF Goto, QueueOK, ModeOK, None
  <2>3. CASE queue' = Append(queue, t) /\ Goto(t, "queued")
             /\ mode' = [mode EXCEPT ![t] = "pool"]
    <3>1. /\ Len(queue') = Len(queue) + 1 /\ queue'[Len(queue) + 1] = t
          /\ \A i \in 1 .. Len(queue) : queue'[i] = queue[i]
      BY <1>1, <2>3, AppendProperties
    <3>2. \A i \in 1 .. Len(queue) : queue[i] # t
      BY <1>1, <2>1
    <3>3. \A i, j \in 1 .. Len(queue') : queue'[i] = queue'[j] => i = j
      BY <1>1, <3>1, <3>2 DEF QueueOK
    <3>4. ASSUME NEW u \in Tasks, pc'[u] = "queued"
          PROVE  mode'[u] = "pool" /\ \E i \in 1 .. Len(queue') : queue'[i] = u
      <4>1. CASE u = t
        BY <1>1, <2>3, <3>1, <4>1
      <4>2. CASE u # t
        <5>1. pc[u] = "queued" /\ mode'[u] = mode[u]
          BY <1>1, <2>3, <3>4, <4>2 DEF Goto
        <5>2. PICK i \in 1 .. Len(queue) : queue[i] = u
          BY <5>1 DEF QueueOK
        <5> QED
          BY <1>1, <3>1, <5>1, <5>2 DEF QueueOK
      <4> QED
        BY <4>1, <4>2
    <3>5. ModeOK'
      BY <1>1, <2>3 DEF ModeOK, Goto, Applying, Charging, Finishing, None
    <3> QED
      BY <3>3, <3>4, <3>5 DEF QueueOK
  <2> QED
    BY <1>4, <2>2, <2>3 DEF Submit, Execute
<1>5. ASSUME NEW t \in Tasks, Executes(t) PROVE QueueOK' /\ ModeOK'
  BY <1>1, <1>5 DEF Executes, Goto, QueueOK, ModeOK, Applying, Charging, Finishing
<1> QED
  BY <1>2, <1>3, <1>4, <1>5, Moves

-----------------------------------------------------------------------------
(* Keys and charges *)

\* No record comes to hold a key or to be skipped, and no row changes.
LEMMA KeysKept ==
  ASSUME HeldOK, ChargesOK, SkippedOK, UNCHANGED <<config, dedup, archive, charges>>,
         \A t \in Tasks : pc'[t] \in Claiming \cup {"skipped"}
                             => pc'[t] = pc[t] /\ mode'[t] = mode[t]
  PROVE  HeldOK' /\ ChargesOK' /\ SkippedOK'
BY DEF HeldOK, ChargesOK, SkippedOK, Claimed, Key, Claiming

\* Only Apply and Cleanup write the tables.
LEMMA RowSteps ==
  ASSUME [Next]_vars
  PROVE  /\ config' = config
         /\ \/ UNCHANGED <<dedup, archive, charges>>
            \/ \E t \in Tasks : Apply(t)
            \/ \E k \in Keys : Cleanup(k)
<1>1. ASSUME NEW t \in Tasks, Record(t), ~Apply(t)
      PROVE  UNCHANGED <<config, dedup, archive, charges>>
  BY <1>1 DEF Record, Arrive, Again, Forward, Submit, Claim, ReadExisting, ReadArchive,
     ApplyFails, Finalize, applyVars
<1>2. ASSUME NEW t \in Tasks, Apply(t) PROVE config' = config
  BY <1>2 DEF Apply
<1>3. ASSUME NEW k \in Keys, Cleanup(k) PROVE config' = config
  BY <1>3 DEF Cleanup
<1>4. Eligibility \/ StartWorker \/ PeriodEnds \/ AccountChanges \/ WindowPasses \/ Credit
      \/ InvalidateUserBalance
      => UNCHANGED <<config, dedup, archive, charges>>
  BY DEF Eligibility, StartWorker, PeriodEnds, AccountChanges, WindowPasses, Credit,
     InvalidateUserBalance, applyVars
<1>5. CacheWorker \/ Expiry \/ Cooling => UNCHANGED <<config, dedup, archive, charges>>
  BY DEF CacheWorker, Expiry, Cooling, applyVars
<1>6. Shutdown => UNCHANGED <<config, dedup, archive, charges>>
  BY DEF Shutdown, Sigterm, Drained, Forced, StopPool, StopCache, Exit, applyVars
<1>7. UNCHANGED vars => UNCHANGED <<config, dedup, archive, charges>>
  BY DEF vars, applyVars
<1> QED
  BY <1>1, <1>2, <1>3, <1>4, <1>5, <1>6, <1>7 DEF Next

LEMMA ClaimKeeps ==
  ASSUME TypeOK, HeldOK, ChargesOK, SkippedOK, NEW t \in Tasks,
         Claim(t) \/ ReadExisting(t) \/ ReadArchive(t)
  PROVE  HeldOK' /\ ChargesOK' /\ SkippedOK'
<1>1. pc \in [Tasks -> Pcs] /\ Key(t) \in Keys /\ Fingerprint(t) # None
  BY TypeParts, RecordFields
<1>2. /\ UNCHANGED <<config, dedup, archive, charges, mode>>
      /\ \E l \in {"archive", "existing", "effects", "skipped", "failed"} : Goto(t, l)
  BY DEF Claim, ReadExisting, ReadArchive, applyVars, poolVars
<1>3. \A u \in Tasks : Key(u)' = Key(u)
  BY <1>2 DEF Key
<1>4. Claimed' = Claimed /\ ChargesOK'
  BY <1>2 DEF Claimed, ChargesOK
<1>5. \A u \in Tasks : u # t => pc'[u] = pc[u]
  BY <1>1, <1>2 DEF Goto
<1>6. /\ pc'[t] \in Claiming => dedup[Key(t)] = None
      /\ pc'[t] = "effects" => archive[Key(t)] = None
      /\ pc'[t] \in Claiming =>
            \A u \in Tasks : u # t => ~(pc[u] \in Claiming /\ Key(u) = Key(t))
      /\ pc'[t] = "skipped" => Key(t) \in Claimed
  <2>1. CASE Claim(t)
    BY <1>1, <2>1 DEF Claim, Goto, Holds, Claiming
  <2>2. CASE ReadExisting(t)
    BY <1>1, <2>2 DEF ReadExisting, Goto, Claiming, Claimed
  <2>3. CASE ReadArchive(t)
    <3>1. pc[t] \in Claiming
      BY <2>3 DEF ReadArchive, Claiming
    <3> QED
      BY <1>1, <2>3, <3>1 DEF ReadArchive, Goto, Claiming, Claimed, HeldOK
  <2> QED
    BY <2>1, <2>2, <2>3
<1>7. HeldOK'
  BY <1>2, <1>3, <1>5, <1>6 DEF HeldOK, Claiming
<1> QED
  BY <1>3, <1>4, <1>5, <1>6, <1>7 DEF SkippedOK

LEMMA ApplyKeeps ==
  ASSUME TypeOK, HeldOK, ChargesOK, SkippedOK, NEW t \in Tasks, Apply(t)
  PROVE  /\ HeldOK' /\ ChargesOK' /\ SkippedOK'
         /\ Key(t) \notin Claimed /\ Claimed' = Claimed \cup {Key(t)}
<1>1. /\ pc \in [Tasks -> Pcs] /\ Key(t) \in Keys /\ Fingerprint(t) # None
      /\ RowsTyped
  BY TypeParts, RecordFields
<1>2. /\ UNCHANGED <<config, archive, mode>> /\ pc[t] = "effects"
      /\ dedup' = [dedup EXCEPT ![Key(t)] = Fingerprint(t)]
      /\ charges' = [charges EXCEPT ![Key(t)] = @ + 1]
      /\ Goto(t, "finalize") \/ Goto(t, "failed")
  BY DEF Apply, CommitEffects, poolVars
<1>3. \A u \in Tasks : Key(u)' = Key(u)
  BY <1>2 DEF Key
<1>4. dedup[Key(t)] = None /\ archive[Key(t)] = None
  BY <1>2 DEF HeldOK, Claiming
<1>5. Key(t) \notin Claimed
  BY <1>4 DEF Claimed
<1>6. Claimed' = Claimed \cup {Key(t)}
  BY <1>1, <1>2 DEF Claimed, RowsTyped
<1>7. ChargesOK'
  BY <1>1, <1>2, <1>5, <1>6 DEF ChargesOK, RowsTyped
<1>8. /\ \A u \in Tasks : u # t => pc'[u] = pc[u]
      /\ pc'[t] \notin Claiming \cup {"skipped"}
  BY <1>1, <1>2 DEF Goto, Claiming
<1>9. \A u \in Tasks : u # t /\ pc[u] \in Claiming => Key(u) # Key(t)
  BY <1>2 DEF HeldOK, Claiming
<1>10. \A u \in Tasks : pc'[u] \in Claiming => dedup'[Key(u)] = None
  BY <1>1, <1>2, <1>8, <1>9, RecordFields DEF HeldOK, RowsTyped
<1>11. HeldOK'
  BY <1>2, <1>3, <1>8, <1>10 DEF HeldOK, Claiming
<1>12. SkippedOK'
  BY <1>3, <1>6, <1>8 DEF SkippedOK
<1> QED
  BY <1>5, <1>6, <1>7, <1>11, <1>12

LEMMA CleanupKeeps ==
  ASSUME TypeOK, HeldOK, ChargesOK, SkippedOK, NEW k \in Keys, Cleanup(k)
  PROVE  HeldOK' /\ ChargesOK' /\ SkippedOK' /\ Claimed' = Claimed
<1>1. RowsTyped
  BY TypeParts
<1>2. /\ UNCHANGED <<config, pc, mode, charges>> /\ dedup[k] # None
      /\ archive' = [archive EXCEPT ![k] = IF @ = None THEN dedup[k] ELSE @]
      /\ dedup' = [dedup EXCEPT ![k] = None]
  BY DEF Cleanup, poolVars
<1>3. \A u \in Tasks : Key(u)' = Key(u) /\ Key(u) \in Keys
  BY <1>2, RecordFields DEF Key
<1>4. Claimed' = Claimed
  BY <1>1, <1>2 DEF Claimed, RowsTyped
<1>5. ChargesOK' /\ SkippedOK'
  BY <1>2, <1>3, <1>4 DEF ChargesOK, SkippedOK
<1>6. \A u \in Tasks : pc[u] \in Claiming => dedup'[Key(u)] = None
  BY <1>1, <1>2, <1>3 DEF HeldOK, RowsTyped
<1>7. \A u \in Tasks : pc[u] = "effects" => archive'[Key(u)] = None
  BY <1>1, <1>2, <1>3 DEF HeldOK, RowsTyped, Claiming
<1>8. HeldOK'
  BY <1>2, <1>3, <1>6, <1>7 DEF HeldOK
<1> QED
  BY <1>4, <1>5, <1>8

LEMMA KeysPreserved ==
  ASSUME TypeOK, HeldOK, ChargesOK, SkippedOK, [Next]_vars
  PROVE  HeldOK' /\ ChargesOK' /\ SkippedOK'
<1>1. /\ pc \in [Tasks -> Pcs] /\ mode \in [Tasks -> {None, "pool", "sync", "fallback"}]
      /\ queue \in Seq(Tasks)
  BY TypeParts DEF PoolTyped
<1>2. ASSUME NEW k \in Keys, Cleanup(k) PROVE HeldOK' /\ ChargesOK' /\ SkippedOK'
  BY <1>2, CleanupKeeps
<1>3. ASSUME NEW t \in Tasks, Apply(t) PROVE HeldOK' /\ ChargesOK' /\ SkippedOK'
  BY <1>3, ApplyKeeps
<1>4. ASSUME NEW t \in Tasks, Claim(t) \/ ReadExisting(t) \/ ReadArchive(t)
      PROVE  HeldOK' /\ ChargesOK' /\ SkippedOK'
  BY <1>4, ClaimKeeps
<1>5. CASE UNCHANGED <<config, dedup, archive, charges>>
           /\ \A t \in Tasks : pc'[t] \in Claiming \cup {"skipped"}
                                  => pc'[t] = pc[t] /\ mode'[t] = mode[t]
  BY <1>5, KeysKept
<1>6. Requests => \A t \in Tasks : pc'[t] \in Claiming \cup {"skipped"}
                                     => pc'[t] = pc[t] /\ mode'[t] = mode[t]
  BY DEF Requests, Before, Serving, Claiming
<1>7. StartWorker => \A t \in Tasks : pc'[t] \in Claiming \cup {"skipped"}
                                        => pc'[t] = pc[t] /\ mode'[t] = mode[t]
  BY <1>1 DEF StartWorker, Goto, Claiming
<1>8. ASSUME NEW t \in Tasks, Submit(t) \/ ApplyFails(t) \/ Finalize(t)
      PROVE  \A u \in Tasks : pc'[u] \in Claiming \cup {"skipped"}
                                 => pc'[u] = pc[u] /\ mode'[u] = mode[u]
  <2>1. CASE Finalize(t)
    BY <1>1, <2>1, FinalizeMoves DEF Finalize, Goto, Claiming, poolVars
  <2>2. CASE Submit(t) \/ ApplyFails(t)
    BY <1>1, <2>2 DEF Submit, Execute, ApplyFails, Goto, Claiming, poolVars
  <2> QED
    BY <1>8, <2>1, <2>2
<1> QED
  BY <1>2, <1>3, <1>4, <1>5, <1>6, <1>7, <1>8, Moves, RowSteps DEF Executes, Statement

-----------------------------------------------------------------------------
(* Quotas *)

LEMMA QuotaPreserved ==
  ASSUME TypeOK, QuotaNoticed, AccountOK, [Next]_vars
  PROVE  QuotaNoticed' /\ AccountOK'
<1>1. /\ apiKey \in [used : Nat, status : {"active", "quota_exhausted"}]
      /\ account \in AccountSet
      /\ config.keyQuota \in Nat /\ config.accountLimit \in Nat \ {0}
      /\ config.events \in BOOLEAN /\ config.periods \in BOOLEAN
      /\ config' = config
  BY TypeParts, ConfigFields, RowSteps DEF RowsTyped
<1>0. /\ account.used \in Nat /\ account.over \in BOOLEAN /\ account.recent \in BOOLEAN
      /\ account.notice \in {None, "written", "suppressed"}
  BY <1>1 DEF AccountSet
<1>2. ASSUME NEW t \in Tasks, Apply(t) PROVE QuotaNoticed' /\ AccountOK'
  <2> DEFINE c == Cost(t)
             used == IF account.over THEN c ELSE account.used + c
  <2>1. c \in Nat /\ apiKey' = KeyAfter(c) /\ account' = AccountAfter(c)
    BY <1>2, RecordFields DEF Apply, CommitEffects
  <2>2. /\ account'.used = used /\ account'.over = FALSE
        /\ account'.recent = (account.recent \/ Crosses(used, c))
    BY <2>1 DEF AccountAfter
  <2>3. /\ Crosses(used, c) => account'.notice = Announced
        /\ ~Crosses(used, c) /\ ~account.over => account'.notice = account.notice
    BY <1>0, <2>1 DEF AccountAfter, Crosses
  <2>4. used >= config.accountLimit
        => Crosses(used, c) \/ (~account.over /\ account.used >= config.accountLimit)
    BY <1>0, <1>1, <2>1 DEF Crosses
  <2>5. Crosses(used, c) /\ ~account.over => ~(account.used >= config.accountLimit)
    BY <1>0, <1>1, <2>1 DEF Crosses
  <2>6. ~account.over /\ account.used >= config.accountLimit => used >= config.accountLimit
    BY <1>0, <1>1, <2>1
  <2>7. Crosses(used, c) => used >= config.accountLimit
    BY DEF Crosses
  <2>8. Announced # None /\ (~account.recent => Announced = "written")
    BY DEF Announced, None
  <2> HIDE DEF used, c
  <2>9. AccountOK'
    BY <1>1, <2>2, <2>6, <2>7 DEF AccountOK
  <2>10. account'.used >= config.accountLimit =>
           IF config.events \/ config.periods THEN account'.notice # None
           ELSE account'.notice = "written"
    BY <1>1, <2>2, <2>3, <2>4, <2>5, <2>8 DEF AccountOK, QuotaNoticed
  <2>11. config.keyQuota > 0 /\ apiKey'.used >= config.keyQuota
         => apiKey'.status = "quota_exhausted"
    BY <1>1, <2>1 DEF KeyAfter, QuotaNoticed
  <2> QED
    BY <1>1, <2>9, <2>10, <2>11 DEF QuotaNoticed
<1>3. CASE PeriodEnds \/ AccountChanges \/ WindowPasses
  <2>1. /\ account'.used = account.used /\ account'.notice = account.notice
        /\ apiKey' = apiKey
    BY <1>1, <1>3 DEF PeriodEnds, AccountChanges, WindowPasses, AccountSet
  <2>2. ~config.events /\ ~config.periods
        => account'.over = account.over /\ account'.recent = FALSE
    BY <1>1, <1>3 DEF PeriodEnds, AccountChanges, WindowPasses, AccountSet
  <2> QED
    BY <1>1, <2>1, <2>2 DEF QuotaNoticed, AccountOK
<1>4. CASE UNCHANGED <<apiKey, account>>
  BY <1>1, <1>4 DEF QuotaNoticed, AccountOK
<1>5. ASSUME NEW t \in Tasks, Record(t), ~Apply(t) PROVE UNCHANGED <<apiKey, account>>
  BY <1>5 DEF Record, Arrive, Again, Forward, Submit, Claim, ReadExisting, ReadArchive,
     ApplyFails, Finalize, applyVars
<1>6. Eligibility \/ StartWorker \/ Credit \/ InvalidateUserBalance
      => UNCHANGED <<apiKey, account>>
  BY DEF Eligibility, StartWorker, Credit, InvalidateUserBalance, applyVars
<1>7. CacheWorker \/ Expiry \/ Cooling => UNCHANGED <<apiKey, account>>
  BY DEF CacheWorker, Expiry, Cooling, applyVars
<1>8. Shutdown \/ UNCHANGED vars => UNCHANGED <<apiKey, account>>
  BY DEF Shutdown, Sigterm, Drained, Forced, StopPool, StopCache, Exit, vars, applyVars
<1>9. ASSUME NEW k \in Keys, Cleanup(k) PROVE UNCHANGED <<apiKey, account>>
  BY <1>9 DEF Cleanup
<1> QED
  BY <1>2, <1>3, <1>4, <1>5, <1>6, <1>7, <1>8, <1>9 DEF Next

-----------------------------------------------------------------------------
(* The breaker *)

\* Only StopCache moves the channel, from open to nil.
LEMMA ChannelSteps ==
  ASSUME [Next]_vars
  PROVE  UNCHANGED channel \/ (StopCache /\ channel' \in {"closed", "nil"})
                            \/ (channel = "open" /\ channel' = "stopping")
<1>1. ASSUME NEW t \in Tasks, Record(t) PROVE UNCHANGED channel
  BY <1>1 DEF Record, Arrive, Check, CheckForbidden, Again, Forward, Submit, Claim,
     ReadExisting, ReadArchive, Apply, ApplyFails, Finalize, cacheVars
<1>2. Eligibility => UNCHANGED channel
  BY DEF Eligibility, ReadCache, MissCache, CheckError, CheckDone, LoadRead, LoadSends,
     LoadDone, LoadPanics, LoadFails
<1>3. StartWorker \/ PeriodEnds \/ AccountChanges \/ WindowPasses \/ Credit
      \/ InvalidateUserBalance \/ UNCHANGED vars => UNCHANGED channel
  BY DEF StartWorker, PeriodEnds, AccountChanges, WindowPasses, Credit,
     InvalidateUserBalance, vars, cacheVars
<1>4. CacheWorker \/ Expiry \/ Cooling => UNCHANGED channel
  BY DEF CacheWorker, CacheWrite, Expiry, CacheExpires, Cooling, Cool
<1>5. ASSUME NEW k \in Keys, Cleanup(k) PROVE UNCHANGED channel
  BY <1>5 DEF Cleanup, cacheVars
<1>6. Sigterm \/ Drained \/ Forced \/ StopPool \/ Exit => UNCHANGED channel
  BY DEF Sigterm, Drained, Forced, StopPool, Exit, cacheVars
<1>7. StopCache => \/ channel' \in {"closed", "nil"}
                   \/ channel = "open" /\ channel' = "stopping"
  BY DEF StopCache
<1> QED
  BY <1>1, <1>2, <1>3, <1>4, <1>5, <1>6, <1>7 DEF Next, Shutdown

LEMMA ProbePreserved ==
  ASSUME TypeOK, ProbeUnderWay, [Next]_vars
  PROVE  ProbeUnderWay'
<1>1. pc \in [Tasks -> Pcs] /\ queue \in Seq(Tasks) /\ QueueTyped
  BY TypeParts DEF PoolTyped
<1>0. Sendable' => Sendable
  BY ChannelSteps DEF Sendable
<1>2. CASE breaker' = breaker /\ \A t \in Tasks : Checking(t) => Checking(t)'
  BY <1>0, <1>2 DEF ProbeUnderWay
<1>3. ASSUME NEW t \in Tasks, Checking(t)' PROVE ProbeUnderWay'
  BY <1>3 DEF ProbeUnderWay
<1>4. ASSUME NEW t \in Tasks, Arrive(t) PROVE ProbeUnderWay'
  <2>1. pc[t] = "idle"
    BY <1>4 DEF Arrive
  <2>2. CASE Check(t)
    BY <1>1, <1>3, <2>2 DEF Check, Goto, Checking
  <2>3. CASE CheckForbidden(t)
    BY <1>0, <1>1, <2>1, <2>3 DEF CheckForbidden, Goto, ProbeUnderWay, Checking
  <2> QED
    BY <1>4, <2>2, <2>3 DEF Arrive
<1>5. ASSUME NEW t \in Tasks, ReadCache(t) \/ MissCache(t) PROVE ProbeUnderWay'
  BY <1>1, <1>3, <1>5 DEF ReadCache, MissCache, Goto, Checking
<1>6. ASSUME NEW t \in Tasks, CheckError(t) \/ CheckDone(t) PROVE ProbeUnderWay'
  <2>1. breaker'.state # "half-open"
    BY <1>6, BreakerTyped DEF CheckError, CheckDone, AfterSuccess, Closed
  <2> QED
    BY <2>1 DEF ProbeUnderWay
<1>7. CASE LoadRead \/ LoadSends \/ LoadDone \/ LoadFails
  <2>1. breaker' = breaker /\ \A t \in Tasks : Checking(t) => Checking(t)'
    BY <1>1, <1>7 DEF LoadRead, LoadSends, LoadDone, LoadFails, Waiters, Checking
  <2> QED
    BY <1>2, <2>1
<1>16. CASE LoadPanics
  BY <1>16 DEF LoadPanics, SendPanics, Sendable, ProbeUnderWay
<1>8. CASE Cooling
  <2>1. breaker \in BreakerSet /\ breaker.state = "open"
        /\ breaker' = [breaker EXCEPT !.cooled = TRUE]
    BY <1>8, BreakerTyped DEF Cooling, Cool
  <2>2. breaker'.state = "open"
    BY <2>1 DEF BreakerSet
  <2> QED
    BY <2>2 DEF ProbeUnderWay
<1>9. ASSUME NEW t \in Tasks, Record(t), ~Arrive(t)
      PROVE  breaker' = breaker /\ \A u \in Tasks : Checking(u) => Checking(u)'
  <2>1. CASE Finalize(t)
    BY <1>1, <2>1, FinalizeMoves DEF Finalize, Finishing, Goto, Checking
  <2>2. CASE ~Finalize(t)
    BY <1>1, <1>9, <2>2 DEF Record, Again, Forward, Submit, Execute, Claim, ReadExisting,
       ReadArchive, Apply, ApplyFails, Charging, cacheVars, Goto, Checking
  <2> QED
    BY <2>1, <2>2
<1>10. StartWorker => breaker' = breaker /\ \A u \in Tasks : Checking(u) => Checking(u)'
  <2> SUFFICES ASSUME StartWorker
               PROVE  breaker' = breaker /\ \A u \in Tasks : Checking(u) => Checking(u)'
    OBVIOUS
  <2>1. Head(queue) = queue[1] /\ 1 \in 1 .. Len(queue)
    BY <1>1, HeadTailProperties, EmptySeq DEF StartWorker
  <2>2. pc[Head(queue)] = "queued"
    BY <1>1, <2>1 DEF QueueTyped
  <2> QED
    BY <1>1, <2>2 DEF StartWorker, cacheVars, Goto, Checking
<1>11. ASSUME NEW k \in Keys, Cleanup(k) PROVE breaker' = breaker /\ pc' = pc
  BY <1>11 DEF Cleanup, cacheVars
<1>12. PeriodEnds \/ AccountChanges \/ WindowPasses \/ Credit \/ InvalidateUserBalance
       => breaker' = breaker /\ pc' = pc
  BY DEF PeriodEnds, AccountChanges, WindowPasses, Credit, InvalidateUserBalance, cacheVars
<1>13. CacheWorker \/ Expiry => breaker' = breaker /\ pc' = pc
  BY DEF CacheWorker, CacheWrite, Expiry, CacheExpires
<1>14. Shutdown \/ UNCHANGED vars => breaker' = breaker /\ pc' = pc
  BY DEF Shutdown, Sigterm, Drained, Forced, StopPool, StopCache, Exit, vars, cacheVars
<1>15. breaker' = breaker /\ pc' = pc => ProbeUnderWay'
  BY <1>2 DEF Checking
<1> QED
  BY <1>2, <1>4, <1>5, <1>6, <1>7, <1>8, <1>9, <1>10, <1>11, <1>12, <1>13, <1>14, <1>15,
     <1>16 DEF Next, Eligibility

-----------------------------------------------------------------------------
(* Shutdown *)

\* Only the shutdown moves the server, and a server that ended moves no record.
LEMMA ServerSteps ==
  ASSUME [Next]_vars
  PROVE  \/ UNCHANGED server
         \/ server' \in {"draining", "killed"}
         \/ UNCHANGED <<config, pc, mode, queue>> /\ (Drained \/ Exit)
<1>1. ASSUME NEW t \in Tasks, Record(t) PROVE UNCHANGED server
  BY <1>1 DEF Record, Arrive, Again, Forward, Submit, Claim, ReadExisting, ReadArchive,
     Apply, ApplyFails, Finalize, poolVars
<1>2. Eligibility \/ StartWorker \/ PeriodEnds \/ AccountChanges \/ WindowPasses
      \/ Credit \/ InvalidateUserBalance \/ CacheWorker \/ Expiry \/ Cooling
      \/ UNCHANGED vars => UNCHANGED server
  BY DEF Eligibility, StartWorker, PeriodEnds, AccountChanges, WindowPasses, Credit,
     InvalidateUserBalance, CacheWorker, Expiry, Cooling, vars, poolVars
<1>3. ASSUME NEW k \in Keys, Cleanup(k) PROVE UNCHANGED server
  BY <1>3 DEF Cleanup, poolVars
<1>4. Sigterm \/ Forced \/ StopPool \/ StopCache
      => UNCHANGED server \/ server' \in {"draining", "killed"}
  BY DEF Sigterm, Forced, StopPool, StopCache, poolVars
<1>5. Drained \/ Exit => UNCHANGED <<config, pc, mode, queue>>
  BY DEF Drained, Exit
<1> QED
  BY <1>1, <1>2, <1>3, <1>4, <1>5 DEF Next, Shutdown

LEMMA StopPreserved ==
  ASSUME TypeOK, QueueOK, StopOK, [Next]_vars
  PROVE  StopOK'
<1>1. /\ pc \in [Tasks -> Pcs] /\ mode \in [Tasks -> {None, "pool", "sync", "fallback"}]
      /\ queue \in Seq(Tasks) /\ QueueTyped /\ config' = config
      /\ \A t \in Tasks : config.task[t].ws \in BOOLEAN
  BY TypeParts, ConfigFields, RowSteps DEF PoolTyped
<1>2. CASE server' \in {"draining", "killed"}
  BY <1>2 DEF StopOK
<1>3. CASE UNCHANGED <<config, pc, mode, queue>> /\ Drained
  <2>1. server' = "cleaning" /\ \A t \in Tasks : ~Handling(t)'
    BY <1>3 DEF Drained, Handling, Checking
  <2> QED
    BY <2>1 DEF StopOK
<1>4. CASE UNCHANGED <<config, pc, mode, queue>> /\ Exit
  <2>1. \A t \in Tasks : ~Handling(t)'
    BY <1>4 DEF Exit, StopOK, Handling, Checking
  <2>2. queue' = <<>> /\ Running' = {}
    BY <1>4 DEF Exit, PoolDone, Running
  <2> QED
    BY <2>1, <2>2 DEF StopOK
<1>5. CASE UNCHANGED server /\ server \notin {"cleaning", "exited"}
  BY <1>5 DEF StopOK
<1>6. CASE UNCHANGED server /\ server \in {"cleaning", "exited"}
  <2>1. \A t \in Tasks : ~Handling(t)
    BY <1>6 DEF StopOK
  <2>2. CASE Requests
    <3>1. \A t \in Tasks : ~Handling(t)'
      BY <1>1, <1>6, <2>1, <2>2
      DEF Requests, Handling, Checking, Accepts, Serving, Before, Applying, Charging,
          Finishing
    <3>2. Running' = Running /\ queue' = queue
      BY <2>2 DEF Requests, Running, Serving, Before, Applying, Charging, Finishing
    <3> QED
      BY <1>6, <3>1, <3>2 DEF StopOK
  <2>3. CASE StartWorker
    <3>1. server = "cleaning"
      BY <1>6, <2>3 DEF StartWorker, Alive
    <3>2. Head(queue) = queue[1] /\ 1 \in 1 .. Len(queue)
      BY <1>1, <2>3, HeadTailProperties, EmptySeq DEF StartWorker
    <3>3. Head(queue) \in Tasks /\ mode[Head(queue)] = "pool"
      BY <1>1, <3>2 DEF QueueTyped, QueueOK
    <3>4. \A t \in Tasks : ~Handling(t)'
      BY <1>1, <2>1, <2>3, <3>3 DEF StartWorker, Goto, Handling, Checking
    <3> QED
      BY <1>6, <3>1, <3>4 DEF StopOK
  <2>4. ASSUME NEW t \in Tasks, Submit(t) PROVE StopOK'
    <3>1. server = "cleaning"
      BY <1>6, <2>4 DEF Submit, Alive
    <3>2. config.task[t].ws
      BY <1>1, <2>1, <2>4 DEF Submit, Handling
    <3>3. \A u \in Tasks : u # t => pc'[u] = pc[u] /\ mode'[u] = mode[u]
      BY <1>1, <2>4 DEF Submit, Execute, Goto
    <3>4. \A u \in Tasks : ~Handling(u)'
      BY <1>1, <2>1, <3>2, <3>3 DEF Handling, Checking
    <3> QED
      BY <1>6, <3>1, <3>4 DEF StopOK
  <2>5. ASSUME NEW t \in Tasks, Executes(t) PROVE StopOK'
    <3>1. server = "cleaning"
      BY <1>6, <2>5 DEF Executes, Statement, Claim, ReadExisting, ReadArchive, Apply,
         ApplyFails, Finalize, Alive
    <3>2. \A u \in Tasks : ~Handling(u)'
      BY <1>1, <2>1, <2>5 DEF Executes, Goto, Handling, Checking, Applying, Charging, Finishing
    <3> QED
      BY <1>6, <3>1, <3>2 DEF StopOK
  <2> QED
    BY <2>2, <2>3, <2>4, <2>5, Moves
<1> QED
  BY <1>2, <1>3, <1>4, <1>5, <1>6, ServerSteps

-----------------------------------------------------------------------------
(* Sums.  The library's induction theorems quantify over operators; a least   *)
(* counterexample, found as an element of a set, serves instead.              *)

\* Induction, in terms of a set: whatever holds of n if it holds below n holds of
\* all naturals.
LEMMA NatInd ==
  ASSUME NEW P, \A n \in Nat : (\A m \in Nat : m < n => m \in P) => n \in P
  PROVE  \A n \in Nat : n \in P
<1> DEFINE Bad == {n \in Nat : n \notin P}
<1> SUFFICES ASSUME Bad # {} PROVE FALSE
  OBVIOUS
<1>1. PICK n \in Bad : \A y \in Bad : ~(<<y, n>> \in OpToRel(<, Nat))
  <2>1. Bad \subseteq Nat
    OBVIOUS
  <2> HIDE DEF Bad
  <2> QED
    BY <2>1, NatLessThanWellFounded, WFMin
<1>2. ASSUME NEW m \in Nat, m < n PROVE m \in P
  <2>1. <<m, n>> \in OpToRel(<, Nat)
    BY <1>2, Zenon DEF OpToRel
  <2> QED
    BY <1>1, <2>1
<1> QED
  BY <1>2

\* The same for the subsets of a finite set.
LEMMA SubsetInd ==
  ASSUME NEW S, IsFiniteSet(S), NEW P,
         \A s \in SUBSET S : (\A x \in s : s \ {x} \in P) => s \in P
  PROVE  \A s \in SUBSET S : s \in P
<1> DEFINE Q == {n \in Nat : \A s \in SUBSET S : Cardinality(s) = n => s \in P}
<1>1. \A s \in SUBSET S : IsFiniteSet(s) /\ Cardinality(s) \in Nat
  BY FS_Subset, FS_CardinalityType
<1>2. ASSUME NEW n \in Nat, \A m \in Nat : m < n => m \in Q
      PROVE  n \in Q
  <2> SUFFICES ASSUME NEW s \in SUBSET S, Cardinality(s) = n PROVE s \in P
    OBVIOUS
  <2>1. ASSUME NEW x \in s PROVE s \ {x} \in P
    <3>1. s \ {x} \in SUBSET S
      OBVIOUS
    <3>2. Cardinality(s \ {x}) = n - 1
      BY <1>1, FS_RemoveElement
    <3>3. n - 1 \in Nat /\ n - 1 < n
      <4>1. n - 1 \in Nat
        BY <1>1, <3>1, <3>2
      <4> QED
        BY <4>1
    <3> QED
      BY <1>2, <3>1, <3>2, <3>3
  <2> QED
    BY <2>1
<1>3. \A n \in Nat : n \in Q
  <2> HIDE DEF Q
  <2> QED
    BY <1>2, NatInd
<1> QED
  BY <1>1, <1>3

-----------------------------------------------------------------------------
Pick(s) == CHOOSE x \in s : TRUE

\* g[s] is the sum of v over s, for the subsets s of S.
SumStep(v, g, s) == IF s = {} THEN 0 ELSE v[Pick(s)] + g[s \ {Pick(s)}]
IsSum(v, S, g) == g = [s \in SUBSET S |-> SumStep(v, g, s)]

LEMMA SumUnfold ==
  ASSUME NEW v, NEW S
  PROVE  SumFunctionOnSet(v, S) = (CHOOSE g : IsSum(v, S, g))[S]
BY DEF SumFunctionOnSet, FoldFunctionOnSet, MapThenFoldSet, IsSum, SumStep, Pick

LEMMA PickIn == ASSUME NEW s, s # {} PROVE Pick(s) \in s
BY DEF Pick

\* There is such a function if S is finite: it is found for the sets of at most n
\* elements first.
LEMMA SumExists ==
  ASSUME NEW S, IsFiniteSet(S), NEW v, \A x \in S : v[x] \in Int
  PROVE  \E g : IsSum(v, S, g)
<1> DEFINE D(n) == {s \in SUBSET S : Cardinality(s) <= n}
           Q == {n \in Nat : \E g \in [D(n) -> Int] : \A s \in D(n) : g[s] = SumStep(v, g, s)}
<1>0. \A s \in SUBSET S : IsFiniteSet(s) /\ Cardinality(s) \in Nat
  BY FS_Subset, FS_CardinalityType
<1>1. ASSUME NEW n \in Nat, \A m \in Nat : m < n => m \in Q
      PROVE  n \in Q
  <2>1. CASE n = 0
    <3>1. \A s \in D(0) : s = {}
      BY <1>0, FS_EmptySet
    <3> DEFINE g == [s \in D(0) |-> 0]
    <3>2. g \in [D(0) -> Int] /\ \A s \in D(0) : g[s] = SumStep(v, g, s)
      BY <3>1 DEF SumStep
    <3> HIDE DEF g
    <3> QED
      BY <2>1, <3>2
  <2>2. CASE n # 0
    <3>1. n - 1 \in Nat /\ n - 1 < n
      BY <2>2
    <3>2. PICK g \in [D(n - 1) -> Int] : \A s \in D(n - 1) : g[s] = SumStep(v, g, s)
      BY <1>1, <3>1
    <3>3. ASSUME NEW s \in D(n), s # {}
          PROVE  Pick(s) \in S /\ s \ {Pick(s)} \in D(n - 1)
      BY <1>0, <3>3, PickIn, FS_RemoveElement
    <3> DEFINE h == [s \in D(n) |-> SumStep(v, g, s)]
    <3>4. h \in [D(n) -> Int]
      BY <3>2, <3>3 DEF SumStep
    <3>5. \A s \in D(n - 1) : s \in D(n) /\ h[s] = g[s]
      BY <1>0, <3>1, <3>2
    <3>6. ASSUME NEW s \in D(n) PROVE h[s] = SumStep(v, h, s)
      BY <3>3, <3>5 DEF SumStep
    <3> HIDE DEF h, D
    <3> QED
      BY <3>4, <3>6
  <2> QED
    BY <2>1, <2>2
<1>2. Cardinality(S) \in Q
  <2>1. \A n \in Nat : n \in Q
    <3> HIDE DEF Q
    <3> QED
      BY <1>1, NatInd
  <2> QED
    BY <1>0, <2>1
<1>3. PICK g \in [D(Cardinality(S)) -> Int] :
        \A s \in D(Cardinality(S)) : g[s] = SumStep(v, g, s)
  BY <1>2
<1>4. D(Cardinality(S)) = SUBSET S
  BY FS_Subset
<1>5. g = [s \in SUBSET S |-> SumStep(v, g, s)]
  BY <1>3, <1>4
<1> QED
  BY <1>5 DEF IsSum

\* It has integer values,
LEMMA SumIsInt ==
  ASSUME NEW S, IsFiniteSet(S), NEW v, \A x \in S : v[x] \in Int, NEW g, IsSum(v, S, g)
  PROVE  \A s \in SUBSET S : g[s] \in Int /\ (s = {} => g[s] = 0)
<1> DEFINE P == {s \in SUBSET S : g[s] \in Int}
<1>1. \A s \in SUBSET S : g[s] = SumStep(v, g, s)
  BY DEF IsSum
<1>2. ASSUME NEW s \in SUBSET S, \A x \in s : s \ {x} \in P
      PROVE  s \in P
  <2>1. CASE s = {}
    <3>1. g[s] = 0
      BY <1>1, <2>1 DEF SumStep
    <3> QED
      BY <3>1
  <2>2. CASE s # {}
    <3>1. Pick(s) \in s /\ v[Pick(s)] \in Int
      BY <2>2, PickIn
    <3>2. g[s] = v[Pick(s)] + g[s \ {Pick(s)}]
      BY <1>1, <2>2 DEF SumStep
    <3>3. g[s \ {Pick(s)}] \in Int
      BY <1>2, <3>1
    <3> QED
      BY <3>1, <3>2, <3>3
  <2> QED
    BY <2>1, <2>2
<1>3. \A s \in SUBSET S : s \in P
  <2> HIDE DEF P
  <2> QED
    BY <1>2, SubsetInd
<1> QED
  BY <1>1, <1>3 DEF SumStep

\* and any element can be taken out first.
LEMMA SumAnyOrder ==
  ASSUME NEW S, IsFiniteSet(S), NEW v, \A x \in S : v[x] \in Int, NEW g, IsSum(v, S, g),
         NEW e \in S
  PROVE  g[S] = v[e] + g[S \ {e}]
<1> DEFINE P == {s \in SUBSET S : \A x \in s : g[s] = v[x] + g[s \ {x}]}
<1>1. \A s \in SUBSET S : g[s] = SumStep(v, g, s) /\ g[s] \in Int
  BY SumIsInt DEF IsSum
<1>2. ASSUME NEW s \in SUBSET S, \A x \in s : s \ {x} \in P
      PROVE  s \in P
  <2> SUFFICES ASSUME NEW x \in s PROVE g[s] = v[x] + g[s \ {x}]
    OBVIOUS
  <2> DEFINE y == Pick(s)
  <2>1. y \in s
    BY PickIn
  <2>2. g[s] = v[y] + g[s \ {y}]
    BY <1>1, <2>1 DEF SumStep
  <2>3. CASE x # y
    <3> DEFINE r == (s \ {y}) \ {x}
    <3>1. x \in s \ {y} /\ y \in s \ {x} /\ r \in SUBSET S /\ (s \ {x}) \ {y} = r
      BY <2>1, <2>3
    <3>2. g[s \ {y}] = v[x] + g[r]
      BY <1>2, <2>1, <3>1
    <3>3. g[s \ {x}] = v[y] + g[r]
      BY <1>2, <3>1
    <3>4. g[r] \in Int /\ v[x] \in Int /\ v[y] \in Int
      BY <1>1, <2>1, <3>1
    <3> HIDE DEF y, r
    <3> QED
      BY <2>2, <3>2, <3>3, <3>4
  <2> QED
    BY <2>2, <2>3
<1>3. \A s \in SUBSET S : s \in P
  <2> HIDE DEF P
  <2> QED
    BY <1>2, SubsetInd
<1> QED
  BY <1>3

\* Two such functions agree where what they add up agrees.
LEMMA SumUnique ==
  ASSUME NEW S, NEW T, NEW R, IsFiniteSet(R), R \subseteq S, R \subseteq T,
         NEW v, NEW w, \A x \in R : v[x] = w[x],
         NEW g, IsSum(v, S, g), NEW h, IsSum(w, T, h)
  PROVE  g[R] = h[R]
<1> DEFINE P == {s \in SUBSET R : g[s] = h[s]}
<1>1. ASSUME NEW s \in SUBSET R, \A x \in s : s \ {x} \in P
      PROVE  s \in P
  <2>1. g[s] = SumStep(v, g, s) /\ h[s] = SumStep(w, h, s)
    BY DEF IsSum
  <2>2. SumStep(v, g, s) = SumStep(w, h, s)
    BY <1>1, PickIn DEF SumStep
  <2> QED
    BY <2>1, <2>2
<1>2. \A s \in SUBSET R : s \in P
  <2> HIDE DEF P
  <2> QED
    BY <1>1, SubsetInd
<1> QED
  BY <1>2

-----------------------------------------------------------------------------
(* What follows of SumFunctionOnSet. *)

LEMMA SumFunctionIsSum ==
  ASSUME NEW S, IsFiniteSet(S), NEW v, \A x \in S : v[x] \in Int
  PROVE  \E g : IsSum(v, S, g) /\ SumFunctionOnSet(v, S) = g[S]
<1>1. \E g : IsSum(v, S, g)
  BY SumExists
<1>2. IsSum(v, S, CHOOSE g : IsSum(v, S, g))
  BY <1>1
<1> QED
  BY <1>2, SumUnfold

LEMMA SumType ==
  ASSUME NEW S, IsFiniteSet(S), NEW v, \A x \in S : v[x] \in Int
  PROVE  SumFunctionOnSet(v, S) \in Int /\ SumFunctionOnSet(v, {}) = 0
<1>1. SumFunctionOnSet(v, S) \in Int
  BY SumFunctionIsSum, SumIsInt
<1>2. SumFunctionOnSet(v, {}) = 0
  BY SumFunctionIsSum, SumIsInt, FS_EmptySet
<1> QED
  BY <1>1, <1>2

LEMMA SumEqual ==
  ASSUME NEW S, IsFiniteSet(S), NEW v, NEW w,
         \A x \in S : v[x] \in Int /\ w[x] = v[x]
  PROVE  SumFunctionOnSet(v, S) = SumFunctionOnSet(w, S)
<1>1. PICK g : IsSum(v, S, g) /\ SumFunctionOnSet(v, S) = g[S]
  BY SumFunctionIsSum
<1>2. PICK h : IsSum(w, S, h) /\ SumFunctionOnSet(w, S) = h[S]
  BY SumFunctionIsSum
<1>3. g[S] = h[S]
  BY <1>1, <1>2, SumUnique
<1> QED
  BY <1>1, <1>2, <1>3

LEMMA SumTake ==
  ASSUME NEW S, IsFiniteSet(S), NEW x \in S, NEW v, \A y \in S : v[y] \in Int
  PROVE  SumFunctionOnSet(v, S) = v[x] + SumFunctionOnSet(v, S \ {x})
<1>1. IsFiniteSet(S \ {x}) /\ S \ {x} \subseteq S
  BY FS_RemoveElement
<1>2. PICK g : IsSum(v, S, g) /\ SumFunctionOnSet(v, S) = g[S]
  BY SumFunctionIsSum
<1>3. PICK h : IsSum(v, S \ {x}, h) /\ SumFunctionOnSet(v, S \ {x}) = h[S \ {x}]
  BY <1>1, SumFunctionIsSum
<1>4. g[S \ {x}] = h[S \ {x}]
  BY <1>1, <1>2, <1>3, SumUnique
<1>5. g[S] = v[x] + g[S \ {x}]
  <2>1. IsSum(v, S, g)
    BY <1>2
  <2> QED
    BY <2>1, SumAnyOrder, SMT
<1> QED
  BY <1>2, <1>3, <1>4, <1>5

LEMMA SumAdd ==
  ASSUME NEW S, IsFiniteSet(S), NEW x, x \notin S, NEW v, \A y \in S \cup {x} : v[y] \in Int
  PROVE  SumFunctionOnSet(v, S \cup {x}) = v[x] + SumFunctionOnSet(v, S)
<1> DEFINE T == S \cup {x}
<1>1. IsFiniteSet(T) /\ T \ {x} = S /\ x \in T
  BY FS_AddElement
<1>2. \A y \in T : v[y] \in Int
  OBVIOUS
<1> HIDE DEF T
<1>3. SumFunctionOnSet(v, T) = v[x] + SumFunctionOnSet(v, T \ {x})
  BY <1>1, <1>2, SumTake
<1> QED
  BY <1>1, <1>3 DEF T

LEMMA IntervalFinite == \A n \in Nat : IsFiniteSet(1..n)
BY FS_Interval

\* A sequence w that is v without its i-th value adds up to that much less.
LEMMA SumWithout ==
  ASSUME NEW n \in Nat, NEW i \in 1..n, NEW v, NEW w, \A j \in 1..n : v[j] \in Int,
         \A j \in 1..n - 1 : w[j] = IF j < i THEN v[j] ELSE v[j + 1]
  PROVE  SumFunctionOnSet(v, 1..n) = v[i] + SumFunctionOnSet(w, 1..n - 1)
<1> DEFINE Rest(j) == (1..j + 1) \ {i}
           P == {j \in Nat : i - 1 <= j /\ j < n =>
                   SumFunctionOnSet(w, 1..j) = SumFunctionOnSet(v, Rest(j))}
<1>1. ASSUME NEW j \in Nat, \A m \in Nat : m < j => m \in P
      PROVE  j \in P
  <2> SUFFICES ASSUME i - 1 <= j, j < n
               PROVE  SumFunctionOnSet(w, 1..j) = SumFunctionOnSet(v, Rest(j))
    OBVIOUS
  <2>1. CASE j = i - 1
    <3>1. Rest(j) = 1..j
      BY <2>1
    <3>2. \A x \in 1..j : v[x] \in Int /\ w[x] = v[x]
      BY <2>1
    <3> HIDE DEF Rest
    <3> QED
      BY <3>1, <3>2, IntervalFinite, SumEqual
  <2>2. CASE j # i - 1
    <3>1. j - 1 \in Nat /\ j \in i..n - 1 /\ j \in 1..n - 1
      BY <2>2
    <3>2. SumFunctionOnSet(w, 1..j - 1) = SumFunctionOnSet(v, Rest(j - 1))
      BY <1>1, <3>1
    <3>3. /\ 1..j = (1..j - 1) \cup {j} /\ j \notin 1..j - 1
          /\ Rest(j) = Rest(j - 1) \cup {j + 1} /\ j + 1 \notin Rest(j - 1)
      BY <3>1
    <3>4. w[j] = v[j + 1] /\ \A y \in 1..j : w[y] \in Int
      BY <3>1
    <3>5. \A y \in Rest(j) : v[y] \in Int
      BY <3>1
    <3>6. IsFiniteSet(1..j - 1)
      BY <3>1, IntervalFinite
    <3>7. IsFiniteSet(Rest(j - 1))
      BY <3>1, IntervalFinite, FS_Subset, Rest(j - 1) \in SUBSET (1..j)
    <3> HIDE DEF Rest
    <3>8. SumFunctionOnSet(w, 1..j) = w[j] + SumFunctionOnSet(w, 1..j - 1)
      BY <3>3, <3>4, <3>6, SumAdd
    <3>9. SumFunctionOnSet(v, Rest(j)) = v[j + 1] + SumFunctionOnSet(v, Rest(j - 1))
      BY <3>3, <3>5, <3>7, SumAdd
    <3> QED
      BY <3>2, <3>4, <3>8, <3>9
  <2> QED
    BY <2>1, <2>2
<1>2. \A j \in Nat : j \in P
  <2> HIDE DEF P
  <2> QED
    BY <1>1, NatInd
<1>3. SumFunctionOnSet(w, 1..n - 1) = SumFunctionOnSet(v, Rest(n - 1))
  BY <1>2
<1>4. 1..n = Rest(n - 1) \cup {i} /\ i \notin Rest(n - 1) /\ Rest(n - 1) \in SUBSET (1..n)
  OBVIOUS
<1>5. IsFiniteSet(Rest(n - 1))
  BY <1>4, IntervalFinite, FS_Subset
<1> HIDE DEF Rest
<1>6. SumFunctionOnSet(v, Rest(n - 1) \cup {i}) = v[i] + SumFunctionOnSet(v, Rest(n - 1))
  BY <1>4, <1>5, SumAdd
<1> QED
  BY <1>3, <1>4, <1>6

-----------------------------------------------------------------------------
(* The cached balance *)

LEMMA RemoveAtProperties ==
  ASSUME NEW S, NEW s \in Seq(S), NEW i \in 1 .. Len(s)
  PROVE  /\ Len(RemoveAt(s, i)) = Len(s) - 1
         /\ \A j \in 1 .. Len(s) - 1 : RemoveAt(s, i)[j] = IF j < i THEN s[j] ELSE s[j + 1]
<1> DEFINE a == SubSeq(s, 1, i - 1)
           b == SubSeq(s, i + 1, Len(s))
<1>0. Len(s) \in Nat /\ \A j \in 1 .. Len(s) : s[j] \in S
  BY LenProperties
<1>1. a \in Seq(S) /\ Len(a) = i - 1 /\ \A j \in 1 .. i - 1 : a[j] = s[j]
  <2>1. /\ a \in Seq(S) /\ Len(a) = (IF 1 <= i - 1 THEN i - 1 - 1 + 1 ELSE 0)
        /\ \A j \in 1 .. i - 1 - 1 + 1 : a[j] = s[1 + j - 1]
    BY <1>0, SubSeqProperties
  <2> QED
    BY <1>0, <2>1
<1>2. b \in Seq(S) /\ Len(b) = Len(s) - i /\ \A j \in 1 .. Len(s) - i : b[j] = s[i + j]
  <2>1. /\ b \in Seq(S) /\ Len(b) = (IF i + 1 <= Len(s) THEN Len(s) - (i + 1) + 1 ELSE 0)
        /\ \A j \in 1 .. Len(s) - (i + 1) + 1 : b[j] = s[i + 1 + j - 1]
    BY <1>0, SubSeqProperties
  <2> QED
    BY <1>0, <2>1
<1>3. RemoveAt(s, i) = a \o b
  BY DEF RemoveAt
<1> HIDE DEF a, b
<1>4. /\ Len(a \o b) = Len(a) + Len(b)
      /\ \A j \in 1 .. Len(a) + Len(b) :
            (a \o b)[j] = IF j <= Len(a) THEN a[j] ELSE b[j - Len(a)]
  BY <1>1, <1>2, ConcatProperties
<1>5. ASSUME NEW j \in 1 .. Len(s) - 1
      PROVE  (a \o b)[j] = IF j < i THEN s[j] ELSE s[j + 1]
  <2>1. CASE j < i
    BY <1>0, <1>1, <1>2, <1>4, <2>1
  <2>2. CASE ~(j < i)
    <3>1. j - (i - 1) \in 1 .. Len(s) - i /\ i + (j - (i - 1)) = j + 1
      BY <1>0, <2>2
    <3>2. j \in 1 .. Len(a) + Len(b) /\ ~(j <= Len(a))
      BY <1>0, <1>1, <1>2, <2>2
    <3>3. (a \o b)[j] = b[j - (i - 1)]
      BY <1>1, <1>4, <3>2
    <3> QED
      BY <1>2, <2>2, <3>1, <3>3
  <2> QED
    BY <2>1, <2>2
<1> QED
  BY <1>0, <1>1, <1>2, <1>3, <1>4, <1>5

\* What the write queue deducts, when a deduction joins it and when a write leaves.
LEMMA DeductionsTyped ==
  ASSUME NEW s \in Seq(WriteSet)
  PROVE  /\ Len(s) \in Nat /\ IsFiniteSet(1 .. Len(s))
         /\ \A i \in 1 .. Len(s) : Deduction(s[i]) \in Int
         /\ Deductions(s) \in Int
         /\ Deductions(s)
              = SumFunctionOnSet([i \in 1 .. Len(s) |-> Deduction(s[i])], 1 .. Len(s))
<1> DEFINE d == [i \in 1 .. Len(s) |-> Deduction(s[i])]
<1>1. Len(s) \in Nat /\ IsFiniteSet(1 .. Len(s))
  BY LenProperties, IntervalFinite
<1>2. \A i \in 1 .. Len(s) : Deduction(s[i]) \in Int
  <2>1. \A i \in 1 .. Len(s) : s[i] \in WriteSet
    BY ElementOfSeq
  <2> QED
    BY <2>1 DEF WriteSet, Deduction
<1>3. \A i \in 1 .. Len(s) : d[i] \in Int
  BY <1>2
<1>4. DOMAIN d = 1 .. Len(s)
  OBVIOUS
<1>5. Deductions(s) = SumFunctionOnSet(d, 1 .. Len(s))
  BY <1>4 DEF Deductions, SumFunction
<1> HIDE DEF d
<1>6. SumFunctionOnSet(d, 1 .. Len(s)) \in Int
  BY <1>1, <1>3, SumType
<1> QED
  BY <1>1, <1>2, <1>5, <1>6 DEF d

LEMMA DeductionsAppend ==
  ASSUME NEW s \in Seq(WriteSet), NEW a \in Int
  PROVE  Deductions(Append(s, DeductWrite(a))) = a + Deductions(s)
<1> DEFINE r == Append(s, DeductWrite(a))
           n == Len(s)
           d == [i \in 1 .. n |-> Deduction(s[i])]
           e == [i \in 1 .. Len(r) |-> Deduction(r[i])]
<1>1. /\ n \in Nat /\ r \in Seq(WriteSet) /\ Len(r) = n + 1 /\ r[n + 1] = DeductWrite(a)
      /\ \A i \in 1 .. n : r[i] = s[i]
  BY WritesTyped, AppendProperties, LenProperties
<1>2. /\ IsFiniteSet(1 .. n) /\ (\A i \in 1 .. n : Deduction(s[i]) \in Int)
      /\ Deductions(s) = SumFunctionOnSet(d, 1 .. n)
  BY DeductionsTyped
<1>3. Deductions(r) = SumFunctionOnSet(e, 1 .. Len(r))
  <2> HIDE DEF r
  <2> QED
    BY <1>1, DeductionsTyped
<1>4. Deduction(DeductWrite(a)) = a
  BY DEF Deduction, DeductWrite
<1>5. /\ 1 .. Len(r) = (1 .. n) \cup {n + 1} /\ n + 1 \notin 1 .. n
      /\ n + 1 \in 1 .. Len(r) /\ 1 .. n \subseteq 1 .. Len(r)
  BY <1>1
<1>6. e[n + 1] = a /\ \A i \in 1 .. n : e[i] = Deduction(s[i])
  BY <1>1, <1>4, <1>5
<1>7. \A i \in 1 .. n : d[i] \in Int /\ e[i] = d[i]
  BY <1>2, <1>6
<1>8. \A i \in (1 .. n) \cup {n + 1} : e[i] \in Int
  BY <1>6, <1>7
<1> HIDE DEF d, e, n
<1>9. SumFunctionOnSet(e, (1 .. n) \cup {n + 1}) = e[n + 1] + SumFunctionOnSet(e, 1 .. n)
  BY <1>2, <1>5, <1>8, SumAdd
<1>10. SumFunctionOnSet(d, 1 .. n) = SumFunctionOnSet(e, 1 .. n)
  BY <1>2, <1>7, SumEqual
<1> QED
  BY <1>2, <1>3, <1>5, <1>6, <1>9, <1>10

LEMMA DeductionsRemove ==
  ASSUME NEW s \in Seq(WriteSet), NEW i \in 1 .. Len(s)
  PROVE  Deductions(s) = Deduction(s[i]) + Deductions(RemoveAt(s, i))
<1> DEFINE r == RemoveAt(s, i)
           n == Len(s)
           d == [j \in 1 .. n |-> Deduction(s[j])]
           e == [j \in 1 .. Len(r) |-> Deduction(r[j])]
<1>1. /\ n \in Nat /\ (\A j \in 1 .. n : Deduction(s[j]) \in Int)
      /\ Deductions(s) = SumFunctionOnSet(d, 1 .. n)
  BY DeductionsTyped
<1>2. /\ Len(r) = n - 1
      /\ \A j \in 1 .. n - 1 : r[j] = IF j < i THEN s[j] ELSE s[j + 1]
  BY RemoveAtProperties
<1>3. Deductions(r) = SumFunctionOnSet(e, 1 .. Len(r))
  <2>1. r \in Seq(WriteSet)
    BY RemoveAtTyped
  <2> HIDE DEF r
  <2> QED
    BY <2>1, DeductionsTyped
<1>4. \A j \in 1 .. n : d[j] \in Int
  BY <1>1
<1>5. \A j \in 1 .. n - 1 : e[j] = IF j < i THEN d[j] ELSE d[j + 1]
  BY <1>1, <1>2
<1>6. d[i] = Deduction(s[i])
  OBVIOUS
<1>7. i \in 1 .. n
  OBVIOUS
<1> HIDE DEF d, e, n, r
<1>8. SumFunctionOnSet(d, 1 .. n) = d[i] + SumFunctionOnSet(e, 1 .. n - 1)
  BY <1>1, <1>4, <1>5, <1>7, SumWithout
<1> QED
  BY <1>1, <1>2, <1>3, <1>6, <1>8 DEF r

\* What the records at finalize still have to deduct.
LEMMA CostTaken ==
  ASSUME TypeOK, NEW S \in SUBSET Tasks, IsFiniteSet(S)
  PROVE  /\ CostOf(S) \in Int
         /\ \A t \in S : CostOf(S) = Cost(t) + CostOf(S \ {t})
         /\ \A t \in Tasks \ S : CostOf(S \cup {t}) = Cost(t) + CostOf(S)
<1> DEFINE c == [t \in Tasks |-> Cost(t)]
<1>1. \A t \in Tasks : c[t] = Cost(t) /\ c[t] \in Int
  BY RecordFields
<1>2. \A R : CostOf(R) = SumFunctionOnSet(c, R)
  BY DEF CostOf
<1> HIDE DEF c
<1>3. SumFunctionOnSet(c, S) \in Int
  BY <1>1, SumType
<1>4. ASSUME NEW t \in S PROVE SumFunctionOnSet(c, S) = c[t] + SumFunctionOnSet(c, S \ {t})
  BY <1>1, SumTake
<1>5. ASSUME NEW t \in Tasks \ S
      PROVE  SumFunctionOnSet(c, S \cup {t}) = c[t] + SumFunctionOnSet(c, S)
  BY <1>1, SumAdd
<1> QED
  BY <1>1, <1>2, <1>3, <1>4, <1>5

LEMMA TrackKept ==
  ASSUME TrackOK, Finalizing' = Finalizing, Panicked' = Panicked, Sendable' => Sendable,
         UNCHANGED <<config, balance, cache, writes, load, faults, creditVars>>
  PROVE  TrackOK'
<1>1. PendingDeductions' = PendingDeductions /\ CostOf(Panicked)' = CostOf(Panicked)
  BY DEF PendingDeductions, CostOf, Cost
<1> QED
  BY <1>1 DEF TrackOK, Undisturbed, CacheTracksBalance, creditVars

\* A fault or a credit ends it.
LEMMA TrackEnds ==
  ASSUME TrackOK, faults' # 0 \/ credits' # 0, credits' = 0 => invalidations' = 0
  PROVE  TrackOK'
BY DEF TrackOK, Undisturbed

\* What the cached balance is made of.
LEMMA TrackParts ==
  ASSUME TypeOK, TrackOK, Undisturbed
  PROVE  /\ Finalizing \in SUBSET Tasks /\ IsFiniteSet(Finalizing)
         /\ Panicked \in SUBSET Tasks /\ IsFiniteSet(Panicked)
         /\ writes \in Seq(WriteSet) /\ balance \in Int
         /\ cache \in [held : BOOLEAN, value : Int, ttl : BOOLEAN] /\ cache.held
         /\ \A i \in 1 .. Len(writes) : writes[i].kind = "deduct"
         /\ Deductions(writes) \in Int
         /\ CostOf(Finalizing) \in Int /\ CostOf(Panicked) \in Int
         /\ cache.value = balance + (Deductions(writes) + CostOf(Finalizing))
                          + CostOf(Panicked)
         /\ Sendable => Panicked = {}
<1>1. /\ Finalizing \in SUBSET Tasks /\ IsFiniteSet(Finalizing)
      /\ Panicked \in SUBSET Tasks /\ IsFiniteSet(Panicked)
      /\ \A i \in 1 .. Len(writes) : writes[i].kind = "deduct"
  BY DEF TrackOK, Finalizing, Panicked
<1>2. /\ writes \in Seq(WriteSet) /\ balance \in Int
      /\ cache \in [held : BOOLEAN, value : Int, ttl : BOOLEAN]
  BY TypeParts DEF CacheTyped
<1>3. Deductions(writes) \in Int
  BY <1>2, DeductionsTyped
<1>4. CostOf(Finalizing) \in Int /\ CostOf(Panicked) \in Int
  BY <1>1, CostTaken
<1>5. /\ cache.held /\ (Sendable => Panicked = {})
      /\ cache.value = balance + (Deductions(writes) + CostOf(Finalizing)) + CostOf(Panicked)
  BY DEF TrackOK, Undisturbed, CacheTracksBalance, PendingDeductions
<1> QED
  BY <1>1, <1>2, <1>3, <1>4, <1>5

\* What a step has to keep while nothing disturbs it.
Tracked ==
  /\ load.state = "none" /\ IsFiniteSet(Finalizing) /\ IsFiniteSet(Panicked)
  /\ \A i \in 1 .. Len(writes) : writes[i].kind = "deduct"
  /\ CacheTracksBalance

LEMMA TrackSteps ==
  ASSUME TrackOK, UNCHANGED <<config, creditVars>>, Undisturbed' => Tracked'
  PROVE  TrackOK'
BY DEF TrackOK, Tracked, creditVars

LEMMA ApplyTracks ==
  ASSUME TypeOK, TrackOK, NEW t \in Tasks, Apply(t)
  PROVE  TrackOK'
<1>1. CASE Goto(t, "failed") /\ Fault
  <2>1. faults' # 0 /\ UNCHANGED creditVars
    BY <1>1 DEF Fault, Apply, TypeOK
  <2> QED
    BY <2>1, TrackEnds DEF TrackOK, creditVars
<1>2. CASE Goto(t, "finalize") /\ UNCHANGED faults
  <2>0. UNCHANGED <<config, creditVars>>
    BY DEF Apply
  <2> SUFFICES ASSUME Undisturbed' PROVE Tracked'
    BY <2>0, TrackSteps
  <2>1. /\ UNCHANGED <<config, cache, writes, channel, load, credits>> /\ pc[t] = "effects"
        /\ balance' = balance - Cost(t)
    BY DEF Apply, CommitEffects, creditVars
  <2>2. Undisturbed
    BY <1>2, <2>1 DEF Undisturbed
  <2>3. Finalizing' = Finalizing \cup {t} /\ t \in Tasks \ Finalizing /\ Panicked' = Panicked
    BY <1>2, <2>1 DEF Finalizing, Finishing, Panicked, Goto, TypeOK
  <2>4. /\ Finalizing \in SUBSET Tasks /\ IsFiniteSet(Finalizing)
        /\ IsFiniteSet(Panicked) /\ balance \in Int /\ cache.held
        /\ Deductions(writes) \in Int
        /\ CostOf(Finalizing) \in Int /\ CostOf(Panicked) \in Int
        /\ cache.value = balance + (Deductions(writes) + CostOf(Finalizing))
                         + CostOf(Panicked)
        /\ Sendable => Panicked = {}
    BY <2>2, TrackParts
  <2>5. IsFiniteSet(Finalizing')
    BY <2>3, <2>4, FS_AddElement
  <2>6. CostOf(Finalizing \cup {t}) = Cost(t) + CostOf(Finalizing) /\ Cost(t) \in Int
    BY <2>3, <2>4, CostTaken, RecordFields
  <2>7. /\ CostOf(Finalizing)' = CostOf(Finalizing \cup {t})
        /\ CostOf(Panicked)' = CostOf(Panicked)
    BY <2>1, <2>3 DEF CostOf, Cost
  <2>8. cache.value = balance' + (Deductions(writes) + CostOf(Finalizing)')
                      + CostOf(Panicked)'
    BY <2>1, <2>4, <2>6, <2>7
  <2>9. CacheTracksBalance'
    BY <2>1, <2>3, <2>4, <2>8 DEF CacheTracksBalance, PendingDeductions, Sendable
  <2> QED
    BY <2>1, <2>2, <2>3, <2>4, <2>5, <2>9 DEF TrackOK, Tracked
<1> QED
  BY <1>1, <1>2 DEF Apply

\* A record that leaves finalizePostUsageBilling takes its cost along.
LEMMA FinishTakesCost ==
  ASSUME TypeOK, TrackOK, Undisturbed, UNCHANGED config, NEW t \in Tasks,
         pc[t] \in Finishing, NEW l \in {"charged", "panicked"}, Goto(t, l)
  PROVE  /\ Finalizing' = Finalizing \ {t} /\ IsFiniteSet(Finalizing')
         /\ CostOf(Finalizing)' \in Int
         /\ CostOf(Finalizing) = Cost(t) + CostOf(Finalizing)'
<1>1. Finalizing' = Finalizing \ {t} /\ t \in Finalizing
  BY DEF Finalizing, Finishing, Goto, TypeOK
<1>2. IsFiniteSet(Finalizing) /\ Finalizing \in SUBSET Tasks
  BY TrackParts
<1>3. IsFiniteSet(Finalizing') /\ Finalizing \ {t} \in SUBSET Tasks
  BY <1>1, <1>2, FS_RemoveElement
<1>4. /\ CostOf(Finalizing) = Cost(t) + CostOf(Finalizing \ {t})
      /\ CostOf(Finalizing \ {t}) \in Int
  BY <1>1, <1>2, <1>3, CostTaken
<1>5. CostOf(Finalizing)' = CostOf(Finalizing \ {t})
  BY <1>1 DEF CostOf, Cost
<1> QED
  BY <1>1, <1>3, <1>4, <1>5

LEMMA FinalizeTracks ==
  ASSUME TypeOK, TrackOK, NEW t \in Tasks, Finalize(t)
  PROVE  TrackOK'
<1>0. /\ faults \in Nat /\ pc \in [Tasks -> Pcs] /\ Cost(t) \in Int
      /\ UNCHANGED <<config, balance, channel, load, creditVars>>
  BY TypeParts, RecordFields DEF CacheTyped, Finalize
<1>1. CASE faults' # 0
  BY <1>0, <1>1, TrackEnds DEF TrackOK, creditVars
<1>2. CASE UNCHANGED <<cache, writes, faults>> /\ pc[t] \in Finishing
           /\ \E l \in {"send", "deduct"} : Goto(t, l)
  <2>1. Finalizing' = Finalizing /\ Panicked' = Panicked
    BY <1>0, <1>2 DEF Finalizing, Panicked, Finishing, Goto
  <2> QED
    BY <1>0, <1>2, <2>1, TrackKept DEF Sendable
<1>3. CASE /\ pc[t] \in Finishing /\ Goto(t, "charged") /\ UNCHANGED <<cache, faults>>
           /\ writes' = Append(writes, DeductWrite(Cost(t)))
  <2> SUFFICES ASSUME Undisturbed' PROVE Tracked'
    BY <1>0, TrackSteps
  <2>1. Undisturbed
    BY <1>0, <1>3 DEF Undisturbed, creditVars
  <2>2. /\ IsFiniteSet(Finalizing') /\ CostOf(Finalizing)' \in Int
        /\ CostOf(Finalizing) = Cost(t) + CostOf(Finalizing)'
    BY <1>0, <1>3, <2>1, FinishTakesCost
  <2>3. Panicked' = Panicked /\ CostOf(Panicked)' = CostOf(Panicked)
    BY <1>0, <1>3 DEF Panicked, Finishing, Goto, CostOf, Cost
  <2>4. /\ writes \in Seq(WriteSet) /\ balance \in Int /\ cache.held
        /\ \A i \in 1 .. Len(writes) : writes[i].kind = "deduct"
        /\ Deductions(writes) \in Int /\ CostOf(Panicked) \in Int
        /\ cache.value = balance + (Deductions(writes) + CostOf(Finalizing))
                         + CostOf(Panicked)
        /\ Sendable => Panicked = {}
        /\ IsFiniteSet(Panicked)
    BY <2>1, TrackParts
  <2>5. Deductions(writes') = Cost(t) + Deductions(writes)
    BY <1>0, <1>3, <2>4, DeductionsAppend
  <2>6. cache.value = balance + (Deductions(writes') + CostOf(Finalizing)')
                      + CostOf(Panicked)'
    BY <1>0, <2>2, <2>3, <2>4, <2>5
  <2>7. CacheTracksBalance'
    BY <1>0, <1>3, <2>3, <2>4, <2>6 DEF CacheTracksBalance, PendingDeductions, Sendable
  <2>8. \A i \in 1 .. Len(writes') : writes'[i].kind = "deduct"
    <3>1. DeductWrite(Cost(t)).kind = "deduct"
      BY DEF DeductWrite
    <3>2. /\ Len(writes) \in Nat /\ Len(writes') = Len(writes) + 1
          /\ writes'[Len(writes) + 1] = DeductWrite(Cost(t))
          /\ \A i \in 1 .. Len(writes) : writes'[i] = writes[i]
      BY <1>0, <1>3, <2>4, WritesTyped, AppendProperties, LenProperties
    <3> QED
      BY <2>4, <3>1, <3>2
  <2> QED
    BY <1>0, <2>1, <2>2, <2>3, <2>4, <2>7, <2>8 DEF TrackOK, Tracked
<1>4. CASE /\ pc[t] \in Finishing /\ Goto(t, "charged") /\ UNCHANGED <<writes, faults>>
           /\ cache' = DeductUserBalance(cache, Cost(t))
  <2> SUFFICES ASSUME Undisturbed' PROVE Tracked'
    BY <1>0, TrackSteps
  <2>1. Undisturbed
    BY <1>0, <1>4 DEF Undisturbed, creditVars
  <2>2. /\ IsFiniteSet(Finalizing') /\ CostOf(Finalizing)' \in Int
        /\ CostOf(Finalizing) = Cost(t) + CostOf(Finalizing)'
    BY <1>0, <1>4, <2>1, FinishTakesCost
  <2>3. Panicked' = Panicked /\ CostOf(Panicked)' = CostOf(Panicked)
    BY <1>0, <1>4 DEF Panicked, Finishing, Goto, CostOf, Cost
  <2>4. /\ balance \in Int /\ Deductions(writes) \in Int /\ CostOf(Panicked) \in Int
        /\ cache \in [held : BOOLEAN, value : Int, ttl : BOOLEAN] /\ cache.held
        /\ cache.value = balance + (Deductions(writes) + CostOf(Finalizing))
                         + CostOf(Panicked)
        /\ Sendable => Panicked = {}
        /\ IsFiniteSet(Panicked)
    BY <2>1, TrackParts
  <2>5. cache'.held /\ cache'.value = cache.value - Cost(t)
    BY <1>0, <1>4, <2>4 DEF DeductUserBalance, Entry
  <2>6. cache'.value = balance + (Deductions(writes) + CostOf(Finalizing)')
                       + CostOf(Panicked)'
    BY <1>0, <2>2, <2>3, <2>4, <2>5
  <2>7. CacheTracksBalance'
    BY <1>0, <1>4, <2>3, <2>4, <2>5, <2>6
    DEF CacheTracksBalance, PendingDeductions, Sendable
  <2> QED
    BY <1>0, <1>4, <2>1, <2>2, <2>3, <2>4, <2>7 DEF TrackOK, Tracked
<1>5. CASE /\ pc[t] \in Finishing /\ Goto(t, "panicked") /\ SendPanics
           /\ UNCHANGED <<cache, writes, faults>>
  <2> SUFFICES ASSUME Undisturbed' PROVE Tracked'
    BY <1>0, TrackSteps
  <2>1. Undisturbed
    BY <1>0, <1>5 DEF Undisturbed, creditVars
  <2>2. /\ IsFiniteSet(Finalizing') /\ CostOf(Finalizing)' \in Int
        /\ CostOf(Finalizing) = Cost(t) + CostOf(Finalizing)'
    BY <1>0, <1>5, <2>1, FinishTakesCost
  <2>3. Panicked' = Panicked \cup {t} /\ t \in Tasks \ Panicked
    BY <1>0, <1>5 DEF Panicked, Finishing, Goto
  <2>4. /\ balance \in Int /\ Deductions(writes) \in Int
        /\ cache.held
        /\ Panicked \in SUBSET Tasks /\ IsFiniteSet(Panicked) /\ CostOf(Panicked) \in Int
        /\ cache.value = balance + (Deductions(writes) + CostOf(Finalizing))
                         + CostOf(Panicked)
    BY <2>1, TrackParts
  <2>5. IsFiniteSet(Panicked')
    BY <2>3, <2>4, FS_AddElement
  <2>6. CostOf(Panicked \cup {t}) = Cost(t) + CostOf(Panicked)
    BY <2>3, <2>4, CostTaken
  <2>7. CostOf(Panicked)' = CostOf(Panicked \cup {t})
    BY <1>0, <2>3 DEF CostOf, Cost
  <2>8. cache.value = balance + (Deductions(writes) + CostOf(Finalizing)')
                      + CostOf(Panicked)'
    BY <1>0, <2>2, <2>4, <2>6, <2>7
  <2>9. ~Sendable'
    BY <1>0, <1>5 DEF SendPanics, Sendable
  <2>10. CacheTracksBalance'
    BY <1>0, <1>5, <2>4, <2>8, <2>9 DEF CacheTracksBalance, PendingDeductions
  <2> QED
    BY <1>0, <1>5, <2>1, <2>2, <2>5, <2>10 DEF TrackOK, Tracked
<1>6. CASE CheckStopped(t)
  BY <1>2, <1>6 DEF CheckStopped, Finishing
<1>7. CASE Send(t, Cost(t))
  BY <1>2, <1>3, <1>5, <1>7 DEF Send, Finishing
<1>8. CASE DeductBalanceCache(t, Cost(t))
  BY <1>0, <1>1, <1>4, <1>8 DEF DeductBalanceCache, Finishing, Fault
<1> QED
  BY <1>6, <1>7, <1>8 DEF Finalize, QueueDeductBalance

LEMMA CacheWriteTracks ==
  ASSUME TypeOK, TrackOK, CacheWorker
  PROVE  TrackOK'
<1>0. /\ faults \in Nat /\ writes \in Seq(WriteSet)
      /\ UNCHANGED <<config, channel, creditVars>>
  BY TypeParts DEF CacheTyped, CacheWorker, CacheWrite
<1>1. CASE faults' # 0
  BY <1>0, <1>1, TrackEnds DEF TrackOK, creditVars
<1>2. CASE faults' = 0
  <2> SUFFICES ASSUME Undisturbed' PROVE Tracked'
    BY <1>0, TrackSteps
  <2>1. PICK i \in 1 .. Len(writes) :
           /\ writes' = RemoveAt(writes, i)
           /\ cache' = IF writes[i].kind = "set"
                       THEN SetUserBalance(cache, writes[i].amount)
                       ELSE DeductUserBalance(cache, writes[i].amount)
           /\ UNCHANGED <<config, balance, load, pc, credits, faults>>
    BY <1>0, <1>2 DEF CacheWorker, CacheWrite, Fault, creditVars
  <2>2. Undisturbed
    BY <2>1 DEF Undisturbed
  <2>3. /\ IsFiniteSet(Finalizing) /\ IsFiniteSet(Panicked)
        /\ balance \in Int /\ cache.held
        /\ cache \in [held : BOOLEAN, value : Int, ttl : BOOLEAN]
        /\ \A j \in 1 .. Len(writes) : writes[j].kind = "deduct"
        /\ CostOf(Finalizing) \in Int /\ CostOf(Panicked) \in Int
        /\ cache.value = balance + (Deductions(writes) + CostOf(Finalizing))
                         + CostOf(Panicked)
        /\ Sendable => Panicked = {}
    BY <2>2, TrackParts
  <2>4. /\ Finalizing' = Finalizing /\ CostOf(Finalizing)' = CostOf(Finalizing)
        /\ Panicked' = Panicked /\ CostOf(Panicked)' = CostOf(Panicked)
    BY <2>1 DEF Finalizing, Panicked, CostOf, Cost
  <2>5. Deductions(writes) = Deduction(writes[i]) + Deductions(writes')
    BY <1>0, <2>1, DeductionsRemove
  <2>6. Deductions(writes') \in Int
    BY <1>0, <2>1, RemoveAtTyped, DeductionsTyped
  <2>7. Deduction(writes[i]) = writes[i].amount /\ writes[i].amount \in Int
    <3>1. writes[i] \in WriteSet
      BY <1>0, ElementOfSeq
    <3> QED
      BY <2>3, <3>1 DEF Deduction, WriteSet
  <2>8. cache'.held /\ cache'.value = cache.value - writes[i].amount
    BY <2>1, <2>3 DEF DeductUserBalance, Entry
  <2>9. cache'.value = balance + (Deductions(writes') + CostOf(Finalizing))
                       + CostOf(Panicked)
    BY <2>3, <2>5, <2>6, <2>7, <2>8
  <2>10. CacheTracksBalance'
    BY <1>0, <2>1, <2>3, <2>4, <2>8, <2>9
    DEF CacheTracksBalance, PendingDeductions, Sendable
  <2>11. \A j \in 1 .. Len(writes') : writes'[j].kind = "deduct"
    <3>1. /\ Len(writes) \in Nat /\ Len(writes') = Len(writes) - 1
          /\ \A j \in 1 .. Len(writes) - 1 :
                writes'[j] = IF j < i THEN writes[j] ELSE writes[j + 1]
      BY <1>0, <2>1, RemoveAtProperties, LenProperties
    <3> QED
      BY <2>3, <3>1
  <2> QED
    BY <2>1, <2>2, <2>3, <2>4, <2>10, <2>11 DEF TrackOK, Tracked
<1> QED
  BY <1>1, <1>2

\* A check hits while the entry is there, and nothing is loaded.
LEMMA EligibilityTracks ==
  ASSUME TypeOK, TrackOK, Eligibility
  PROVE  TrackOK'
<1>0. faults \in Nat /\ pc \in [Tasks -> Pcs] /\ UNCHANGED <<config, creditVars>>
  BY TypeParts DEF CacheTyped, Eligibility
<1>1. CASE faults' # 0
  BY <1>0, <1>1, TrackEnds DEF TrackOK, creditVars
<1>2. CASE ~Undisturbed'
  BY <1>0, <1>2 DEF TrackOK, creditVars
<1>3. CASE Undisturbed' /\ faults' = 0
  <2>1. faults = 0
    BY <1>0, <1>3 DEF Eligibility, ReadCache, MissCache, CheckError, CheckDone,
       LoadRead, LoadSends, LoadDone, LoadPanics, LoadFails, Fault
  <2>2. Undisturbed
    BY <1>0, <1>3, <2>1 DEF Undisturbed, creditVars
  <2>3. load.state = "none" /\ cache.held
    BY <2>2 DEF TrackOK, Undisturbed, CacheTracksBalance
  <2>4. \E t \in Tasks : ReadCache(t) \/ CheckError(t) \/ CheckDone(t)
    BY <1>0, <1>3, <2>1, <2>3
    DEF Eligibility, MissCache, LoadRead, LoadSends, LoadDone, LoadPanics, LoadFails, Fault
  <2>5. UNCHANGED <<balance, cache, writes, channel, load, faults>>
    BY <2>4 DEF ReadCache, CheckError, CheckDone
  <2>6. Finalizing' = Finalizing /\ Panicked' = Panicked
    BY <1>0, <2>4
    DEF ReadCache, CheckError, CheckDone, Goto, Finalizing, Finishing, Panicked
  <2> QED
    BY <1>0, <2>5, <2>6, TrackKept DEF Sendable
<1> QED
  BY <1>1, <1>2, <1>3

LEMMA TrackPreserved ==
  ASSUME TypeOK, TrackOK, [Next]_vars
  PROVE  TrackOK'
<1>1. /\ pc \in [Tasks -> Pcs] /\ queue \in Seq(Tasks) /\ QueueTyped /\ faults \in Nat
      /\ credits \in Nat /\ invalidations \in Nat /\ (Sendable' => Sendable)
  BY TypeParts, ChannelSteps DEF PoolTyped, CacheTyped, Sendable
<1>2. CASE UNCHANGED <<config, balance, cache, writes, load, faults, creditVars>>
           /\ Finalizing' = Finalizing /\ Panicked' = Panicked
  BY <1>1, <1>2, TrackKept
<1>3. ASSUME NEW t \in Tasks, Arrive(t) PROVE TrackOK'
  <2>1. Finalizing' = Finalizing /\ Panicked' = Panicked
    BY <1>1, <1>3 DEF Arrive, Check, CheckForbidden, Goto, Finalizing, Finishing, Panicked
  <2> QED
    BY <1>2, <1>3, <2>1 DEF Arrive, Check, CheckForbidden
<1>4. ASSUME NEW t \in Tasks,
             Again(t) \/ Forward(t) \/ Submit(t) \/ Claim(t) \/ ReadExisting(t)
             \/ ReadArchive(t)
      PROVE  TrackOK'
  <2>1. Finalizing' = Finalizing /\ Panicked' = Panicked
    BY <1>1, <1>4 DEF Again, Forward, Submit, Execute, Claim, ReadExisting, ReadArchive,
       Goto, Finalizing, Finishing, Panicked
  <2> QED
    BY <1>2, <1>4, <2>1 DEF Again, Forward, Submit, Claim, ReadExisting, ReadArchive, cacheVars
<1>5. ASSUME NEW t \in Tasks, ApplyFails(t) PROVE TrackOK'
  <2>1. faults' # 0 /\ UNCHANGED creditVars
    BY <1>1, <1>5 DEF ApplyFails, Fault
  <2> QED
    BY <2>1, TrackEnds DEF TrackOK, creditVars
<1>6. CASE StartWorker
  <2>1. Head(queue) = queue[1] /\ 1 \in 1 .. Len(queue)
    BY <1>1, <1>6, HeadTailProperties, EmptySeq DEF StartWorker
  <2>2. pc[Head(queue)] = "queued"
    BY <1>1, <2>1 DEF QueueTyped
  <2>3. Finalizing' = Finalizing /\ Panicked' = Panicked
    BY <1>1, <1>6, <2>2 DEF StartWorker, Goto, Finalizing, Finishing, Panicked
  <2> QED
    BY <1>2, <1>6, <2>3 DEF StartWorker, cacheVars
<1>7. CASE Credit
  <2>1. credits' # 0
    BY <1>1, <1>7 DEF Credit
  <2> QED
    BY <2>1, TrackEnds
<1>8. CASE InvalidateUserBalance
  <2>1. credits # 0 /\ credits' = credits
    BY <1>1, <1>8 DEF InvalidateUserBalance, TrackOK
  <2> QED
    BY <2>1, TrackEnds
<1>9. CASE Expiry
  <2>1. config.expiry /\ UNCHANGED <<config, creditVars>>
    BY <1>9 DEF Expiry, CacheExpires
  <2> QED
    BY <2>1 DEF TrackOK, Undisturbed, creditVars
<1>10. CASE Cooling
  BY <1>2, <1>10 DEF Cooling, Cool, Finalizing, Panicked
<1>11. CASE \/ PeriodEnds \/ AccountChanges \/ WindowPasses
            \/ \E k \in Keys : Cleanup(k)
  BY <1>2, <1>11
  DEF PeriodEnds, AccountChanges, WindowPasses, Cleanup, cacheVars, Finalizing, Panicked
<1>12. CASE Shutdown
  BY <1>2, <1>12
  DEF Shutdown, Sigterm, Drained, Forced, StopPool, StopCache, Exit, cacheVars,
      Finalizing, Panicked
<1>13. CASE UNCHANGED vars
  BY <1>2, <1>13 DEF vars, cacheVars, Finalizing, Panicked
<1> QED
  BY <1>3, <1>4, <1>5, <1>6, <1>7, <1>8, <1>9, <1>10, <1>11, <1>12, <1>13, ApplyTracks,
     FinalizeTracks, CacheWriteTracks, EligibilityTracks DEF Next, Record

-----------------------------------------------------------------------------
(* The invariant, and what follows from it *)

LEMMA InitIInv == Init => IInv
<1> SUFFICES ASSUME Init PROVE IInv
  OBVIOUS
<1>1. config \in Configs /\ config.balance \in Int /\ config.warm \in BOOLEAN
      /\ config.keyQuota \in Nat /\ config.accountLimit \in Nat \ {0}
  BY ConfigsOK DEF Init
<1>2. CacheTyped
  <2>1. cache \in [held : BOOLEAN, value : Int, ttl : BOOLEAN]
    BY <1>1 DEF Init, InitialCache, Entry, NoEntry
  <2>2. breaker \in BreakerSet /\ writes \in Seq(WriteSet)
    BY DEF Init, Closed, BreakerSet
  <2>3. load \in [state : {"none", "started", "read", "send"}, value : Int]
    BY DEF Init
  <2>4. seen \in [Tasks -> Int] /\ faults \in Nat
    BY DEF Init
  <2>5. channel = "open"
    BY DEF Init
  <2>6. balance \in Int
    BY <1>1 DEF Init
  <2> QED
    BY ONLY <2>1, <2>2, <2>3, <2>4, <2>5, <2>6 DEF CacheTyped
<1>3. RowsTyped
  BY DEF Init, RowsTyped, AccountSet
<1>4. PoolTyped /\ QueueTyped
  <2>1. queue \in Seq(Tasks) /\ Len(queue) = 0
    BY DEF Init
  <2>2. mode \in [Tasks -> {None, "pool", "sync", "fallback"}]
    BY DEF Init
  <2>3. server = "up" /\ poolStopped = FALSE
    BY DEF Init
  <2> QED
    <3>1. QueueTyped
      BY ONLY <2>1 DEF QueueTyped
    <3>2. PoolTyped
      BY ONLY <2>1, <2>2, <2>3, Zenon DEF PoolTyped
    <3> QED
      BY ONLY <3>1, <3>2
<1>5. TypeOK
  BY <1>1, <1>2, <1>3, <1>4, TypeParts DEF Init, Pcs
<1>6. \A t \in Tasks : pc[t] \in {"idle", "absent"}
  BY DEF Init
<1>7. QueueOK /\ ModeOK /\ HeldOK /\ SkippedOK
  BY <1>6 DEF Init, QueueOK, ModeOK, HeldOK, SkippedOK, Claiming, Applying, Charging,
     Finishing
<1>8. ChargesOK
  BY DEF Init, ChargesOK, Claimed
<1>9. QuotaNoticed /\ AccountOK /\ ProbeUnderWay /\ StopOK
  BY <1>1 DEF Init, QuotaNoticed, AccountOK, ProbeUnderWay, StopOK, Closed
<1>10. TrackOK
  <2>1. Finalizing = {} /\ Panicked = {}
    BY <1>6 DEF Finalizing, Finishing, Panicked
  <2>2. IsFiniteSet({})
    BY FS_EmptySet
  <2>3. writes = <<>> /\ load.state = "none" /\ invalidations = 0
    BY DEF Init
  <2>4. CostOf({}) = 0
    <3> DEFINE c == [t \in Tasks |-> Cost(t)]
    <3>1. CostOf({}) = SumFunctionOnSet(c, {})
      BY DEF CostOf
    <3> HIDE DEF c
    <3> QED
      BY <2>2, <3>1, SumType
  <2>5. Deductions(<<>>) = 0
    <3> DEFINE e == [i \in 1 .. Len(<<>>) |-> Deduction((<<>>)[i])]
    <3>1. Len(<<>>) = 0 /\ 1 .. 0 = {}
      OBVIOUS
    <3>2. DOMAIN e = {}
      BY <3>1
    <3>3. Deductions(<<>>) = SumFunctionOnSet(e, DOMAIN e)
      BY DEF Deductions, SumFunction
    <3> HIDE DEF e
    <3> QED
      BY <2>2, <3>2, <3>3, SumType
  <2>6. config.warm => cache.held /\ cache.value = balance
    BY DEF Init, InitialCache, Entry
  <2>7. CacheTracksBalance
    BY <1>1, <2>1, <2>3, <2>4, <2>5, <2>6 DEF Init, CacheTracksBalance, PendingDeductions
  <2>8. \A i \in 1 .. Len(writes) : writes[i].kind = "deduct"
    BY <2>3
  <2> QED
    BY <2>1, <2>2, <2>3, <2>7, <2>8 DEF TrackOK
<1> QED
  BY <1>5, <1>7, <1>8, <1>9, <1>10 DEF IInv

LEMMA NextIInv == IInv /\ [Next]_vars => IInv'
BY TypePreserved, QueuePreserved, KeysPreserved, QuotaPreserved, ProbePreserved,
   StopPreserved, TrackPreserved DEF IInv

\* The inductive invariant holds in every reachable state.
THEOREM Invariance == Spec => []IInv
BY InitIInv, NextIInv, PTL DEF Spec

\* Rows, cache, breaker and queues keep their types in every behaviour of the
\* requests, the workers and the shutdown.
THEOREM TypeCorrect == Spec => []TypeOK
<1>1. IInv => TypeOK
  BY DEF IInv
<1> QED
  BY <1>1, Invariance, PTL

\* A record is skipped as a duplicate only if its key was charged, once
\* (claimUsageBillingKey, Apply).
THEOREM SkipsWereCharged == Spec => []SkippedWasCharged
<1>1. IInv => SkippedWasCharged
  BY RecordFields DEF IInv, SkippedOK, ChargesOK, SkippedWasCharged
<1> QED
  BY <1>1, Invariance, PTL

\* The step that takes an account to its limit is noticed as such, whatever the
\* interleaving: it wrote the account's scheduler event, or an event of the account
\* was younger than the dedup window (incrementUsageBillingAccountQuota,
\* enqueueSchedulerOutbox, incrementUsageBillingAPIKeyQuota).
THEOREM QuotasAreNoticed == Spec => []QuotaNoticed
<1>1. IInv => QuotaNoticed
  BY DEF IInv
<1> QED
  BY <1>1, Invariance, PTL

\* While nothing fails, expires or is credited, the cached balance is the balance,
\* the deductions on their way and those lost by a send on the channel that Stop
\* closed, however many are queued and in whichever order the workers perform them;
\* before the channel is closed none is lost (QueueDeductBalance, enqueueCacheWrite,
\* Stop, deductBalanceScript).
THEOREM CacheIsExact == Spec => []CacheTracksBalance
<1>1. IInv => CacheTracksBalance
  BY DEF IInv, TrackOK, Undisturbed, CacheTracksBalance
<1> QED
  BY <1>1, Invariance, PTL

\* Until the cache's channel is closed, a half-open breaker has a probe under way
\* (Allow, OnFailure, OnSuccess of billingCircuitBreaker).
THEOREM BreakerIsProbed == Spec => []ProbeUnderWay
<1>1. IInv => ProbeUnderWay
  BY DEF IInv
<1> QED
  BY <1>1, Invariance, PTL

\* A shutdown in which every handler ended loses no usage record
\* (UsageRecordWorkerPool.Stop, provideCleanup).
THEOREM ShutdownSettles == Spec => []GracefulShutdownKeepsUsage
<1>1. IInv => GracefulShutdownKeepsUsage
  <2> SUFFICES ASSUME IInv, server = "exited", NEW t \in Tasks, ~config.task[t].ws
               PROVE  pc[t] \notin Unsettled
    BY DEF GracefulShutdownKeepsUsage
  <2>1. ~Handling(t) /\ queue = <<>> /\ Running = {}
    BY DEF IInv, StopOK
  <2>2. pc[t] # "submit"
    BY <2>1 DEF Handling
  <2>3. pc[t] # "queued"
    BY <2>1 DEF IInv, QueueOK
  <2>4. pc[t] \notin Applying
    <3>1. mode[t] \in {None, "pool", "sync", "fallback"}
      BY DEF IInv, TypeOK
    <3> QED
      BY <2>1, <3>1 DEF IInv, ModeOK, Handling, Running
  <2> QED
    BY <2>2, <2>3, <2>4 DEF Unsettled, Applying
<1> QED
  BY <1>1, Invariance, PTL

\* Usage billing implements the ledger: a key is charged at most once, its cost
\* leaves the balance in the step that records it, and nothing else lowers the
\* balance (Apply, claimUsageBillingKey, CleanupUsageBillingDedup).
THEOREM ImplementsLedger == Spec => LedgerSpec
<1>1. Init => Ledger!LedgerInit
  <2> SUFFICES ASSUME Init PROVE Ledger!LedgerInit
    OBVIOUS
  <2>1. balance \in Int
    BY ConfigsOK DEF Init
  <2>2. Claimed = {}
    BY DEF Init, Claimed
  <2> QED
    BY <2>1, <2>2 DEF Ledger!LedgerInit
<1>2. IInv /\ [Next]_vars => [Ledger!LedgerNext]_(Ledger!ledgerVars)
  <2> SUFFICES ASSUME IInv, [Next]_vars
               PROVE  [Ledger!LedgerNext]_(Ledger!ledgerVars)
    OBVIOUS
  <2>1. TypeOK /\ HeldOK /\ ChargesOK /\ SkippedOK
    BY DEF IInv
  <2>2. ASSUME NEW t \in Tasks, Apply(t) PROVE Ledger!LedgerNext
    <3>1. Key(t) \notin Claimed /\ Claimed' = Claimed \cup {Key(t)}
      BY <2>1, <2>2, ApplyKeeps
    <3>2. balance' = balance - Cost(t)
      BY <2>2 DEF Apply, CommitEffects
    <3>3. Key(t) \in Keys /\ Cost(t) \in Costs
      BY <2>1, RecordFields, ConfigsOK DEF TypeOK, Cost
    <3> QED
      BY <3>1, <3>2, <3>3 DEF Ledger!LedgerNext, Ledger!Charge
  <2>3. ASSUME Credit PROVE Ledger!LedgerNext
    <3>1. Claimed' = Claimed /\ balance' = balance + 1
      BY <2>3 DEF Credit, applyVars, Claimed
    <3> QED
      BY <3>1 DEF Ledger!LedgerNext, Ledger!Credit
  <2>4. ASSUME NEW k \in Keys, Cleanup(k) PROVE UNCHANGED <<Claimed, balance>>
    BY <2>1, <2>4, CleanupKeeps DEF Cleanup, cacheVars
  <2>5. UNCHANGED <<dedup, archive>> => Claimed' = Claimed
    BY DEF Claimed
  <2>6. ASSUME NEW t \in Tasks, Record(t), ~Apply(t) PROVE UNCHANGED <<Claimed, balance>>
    <3>1. UNCHANGED <<dedup, archive, balance>>
      BY <2>6 DEF Record, Arrive, Check, CheckForbidden, Again, Forward, Submit, Claim,
         ReadExisting, ReadArchive, ApplyFails, Finalize, applyVars, cacheVars
    <3> QED
      BY <2>5, <3>1
  <2>7. Eligibility => UNCHANGED <<dedup, archive, balance>>
    BY DEF Eligibility, ReadCache, MissCache, CheckError, CheckDone, LoadRead, LoadSends,
       LoadDone, LoadPanics, LoadFails, applyVars
  <2>8. StartWorker \/ PeriodEnds \/ AccountChanges \/ WindowPasses \/ InvalidateUserBalance
        => UNCHANGED <<dedup, archive, balance>>
    BY DEF StartWorker, PeriodEnds, AccountChanges, WindowPasses, InvalidateUserBalance,
       applyVars, cacheVars
  <2>9. CacheWorker \/ Expiry \/ Cooling => UNCHANGED <<dedup, archive, balance>>
    BY DEF CacheWorker, CacheWrite, Expiry, CacheExpires, Cooling, Cool, applyVars
  <2>10. Shutdown \/ UNCHANGED vars => UNCHANGED <<dedup, archive, balance>>
    BY DEF Shutdown, Sigterm, Drained, Forced, StopPool, StopCache, Exit, vars, applyVars,
       cacheVars
  <2>11. \/ Ledger!LedgerNext \/ UNCHANGED <<Claimed, balance>>
    BY <2>2, <2>3, <2>4, <2>5, <2>6, <2>7, <2>8, <2>9, <2>10 DEF Next
  <2> QED
    BY <2>11 DEF Ledger!ledgerVars
<1> QED
  BY <1>1, <1>2, Invariance, PTL DEF Spec, LedgerSpec, Ledger!LedgerSpec
=============================================================================

------------------------- MODULE SchedulerSnapshot --------------------------
(***************************************************************************)
(* The scheduler's view of the accounts in Redis                           *)
(* (service/scheduler_snapshot_service.go, repository/scheduler_cache.go): *)
(* per bucket a versioned snapshot of account ids, per account its data.   *)
(* Changes in the database reach it through an outbox table polled by id   *)
(* (repository/scheduler_outbox_repo.go), through a direct write of the    *)
(* account, through periodic full rebuilds and through requests that find  *)
(* no snapshot and load one from the database.                             *)
(*                                                                         *)
(* One label of a thread is one command to the database or to Redis.  Of   *)
(* version numbers only their order matters: newer[b] is the order of the  *)
(* numbers above the active one, as a relation between their writers.      *)
(***************************************************************************)
EXTENDS Sequences, FiniteSetsExt

CONSTANTS
  Accounts, Buckets,
  In,                            \* per bucket: the accounts of its group and platform
  Pollers, Rebuilders,           \* outbox and full rebuild workers, one of each
                                 \* per server process
  Requests, Writers,             \* requests, and callers of the account repository
  ProcessOf,                     \* the server process of a worker
  NoRow, NoThread, NoSnapshot,
  Configs

Threads == Pollers \union Rebuilders \union Requests \union Writers

Methods == {"Change", "UpdateCredentials", "Delete", "AutoPause", "UpdateLastUsed",
            "CrossQuota"}

\* A configuration: the accounts, buckets and threads there are, the methods
\* the writers call, the bounds on their calls and on disturbances, the rows
\* ListAfter returns at most, and whether the snapshots are in place already.
ConfigType ==
  [accounts : SUBSET Accounts, buckets : SUBSET Buckets, threads : SUBSET Threads,
   methods : SUBSET Methods, changes : Nat, disturbances : Nat, batch : Nat \ {0},
   warm : BOOLEAN]

ASSUME SchedulerAssumption ==
  /\ Accounts # {} /\ Buckets # {} /\ In \in [Buckets -> SUBSET Accounts]
  /\ \A K1, K2 \in {Pollers, Rebuilders, Requests, Writers} : K1 = K2 \/ K1 \intersect K2 = {}
  /\ NoThread \notin Threads
  /\ Configs \subseteq ConfigType

VARIABLES
  config,        \* fixed
  db,            \* per account: its row
  outbox,        \* the events; an event's id is its position
  active,        \* per bucket: what the active snapshot was loaded from
  newer,         \* per bucket: <<t, u>> if t and u have version numbers above the
                 \* active one and t's is not above u's
  accounts,      \* per account: sched:acc and sched:meta
  registered,    \* sched:buckets
  lock,          \* per bucket: the thread that set sched:lock
  watermark,
  th,            \* per thread: its local variables
  changes,       \* changes of the accounts so far
  handled,       \* ids of events whose handling returned no error
  overrun,       \* a lock expired under a thread that was still rebuilding
  disturbances

cache == <<active, newer, accounts, registered>>
bounds == <<config, handled, overrun, disturbances>>
vars == <<config, db, outbox, active, newer, accounts, registered, lock, watermark,
          th, changes, handled, overrun, disturbances>>

Row == [on : BOOLEAN, v : Nat]
Rows == [Accounts -> Row \union {NoRow}]
Event == [kind : {"account", "full", "used"}, account : Accounts, groups : BOOLEAN,
          committed : BOOLEAN, recent : BOOLEAN]
Snapshot == [rows : Rows, at : Nat]

RebuildPCs == {"load", "incr", "write", "activate", "unlock"}
PCs == RebuildPCs \union
       {"idle", "list", "event", "account", "used", "next", "advance", "lag",
        "enqueue", "commit", "syncRead", "syncWrite"}

\* A thread: its label, the buckets it has still to rebuild, the current one and
\* what it loaded, the row it read, the last id it was given and the ids of its
\* batch it has still to handle, the buckets seen in the batch, whether a rebuild
\* failed, the event it is to write and whether it then writes the account to
\* Redis.
Thread ==
  [pc : PCs, todo : SUBSET Buckets, bucket : Buckets, got : Snapshot,
   row : Row \union {NoRow}, from : Nat, batch : SUBSET Nat, seen : SUBSET Buckets,
   err : BOOLEAN, event : Event, sync : BOOLEAN]

NoRows == [a \in Accounts |-> NoRow]
AnyAccount == CHOOSE a \in Accounts : TRUE
AnyBucket == CHOOSE b \in Buckets : TRUE
Event0 == [kind |-> "full", account |-> AnyAccount, groups |-> FALSE,
           committed |-> TRUE, recent |-> TRUE]

Idle == [pc |-> "idle", todo |-> {}, bucket |-> AnyBucket,
         got |-> [rows |-> NoRows, at |-> 0], row |-> NoRow, from |-> 0, batch |-> {},
         seen |-> {}, err |-> FALSE, event |-> Event0, sync |-> FALSE]

\* Types of the rows, the outbox, Redis and the threads; the watermark is no
\* larger than the last id, so no event to come is skipped.
TypeOK ==
  /\ config \in Configs
  /\ db \in Rows
  /\ outbox \in Seq(Event)
  /\ active \in [Buckets -> Snapshot \union {NoSnapshot}]
  /\ newer \in [Buckets -> SUBSET (Threads \X Threads)]
  /\ accounts \in Rows
  /\ registered \subseteq config.buckets
  /\ lock \in [Buckets -> Threads \union {NoThread}]
  /\ watermark \in 0..Len(outbox)
  /\ th \in [Threads -> Thread]
  /\ changes \in 0..config.changes
  /\ handled \subseteq 1..Len(outbox)
  /\ overrun \in BOOLEAN
  /\ disturbances \in 0..config.disturbances

\* ListBuckets, or defaultBuckets when no bucket is registered yet.
ListBuckets == IF registered = {} THEN config.buckets ELSE registered

\* Start launches runInitialRebuild; the ticker's rebuilds follow it.
Started(t) ==
  IF t \in Rebuilders THEN [Idle EXCEPT !.pc = "next", !.todo = ListBuckets] ELSE Idle

Schedulable(b) == {a \in In[b] : db[a] # NoRow /\ db[a].on}

\* loadAccountsFromDB.
Loaded(b) ==
  [rows |-> [a \in Accounts |-> IF a \in Schedulable(b) THEN db[a] ELSE NoRow],
   at |-> changes]

Init ==
  /\ changes = 0 /\ handled = {} /\ overrun = FALSE /\ disturbances = 0
  /\ config \in Configs
  /\ db = [a \in Accounts |-> IF a \in config.accounts THEN [on |-> TRUE, v |-> 0] ELSE NoRow]
  /\ outbox = <<>>
  /\ active = [b \in Buckets |-> IF config.warm /\ b \in config.buckets THEN Loaded(b)
                                 ELSE NoSnapshot]
  /\ newer = [b \in Buckets |-> {}]
  /\ accounts = IF config.warm THEN db ELSE NoRows
  /\ registered = IF config.warm THEN config.buckets ELSE {}
  /\ lock = [b \in Buckets |-> NoThread]
  /\ watermark = 0
  /\ th = [t \in Threads |-> IF t \in config.threads /\ ~config.warm THEN Started(t)
                             ELSE Idle]
-----------------------------------------------------------------------------
\* A command fails, a lock expires under its holder, or a process restarts.
Disturb ==
  /\ disturbances < config.disturbances
  /\ disturbances' = disturbances + 1

At(t, pc) == t \in config.threads /\ th[t].pc = pc

Ids(snap) == {a \in Accounts : snap.rows[a] # NoRow}

\* GetSnapshot: an empty snapshot, and one of whose accounts the data is gone,
\* count as a miss.
Hit(b) ==
  /\ active[b] # NoSnapshot
  /\ Ids(active[b]) # {}
  /\ \A a \in Ids(active[b]) : accounts[a] # NoRow
-----------------------------------------------------------------------------
(* The writers of the accounts table.                                      *)

\* enqueueSchedulerOutbox: an event of the same type and account within the
\* window swallows a new one; last_used events are not compared.
Duplicate(e) ==
  /\ e.kind # "used"
  /\ \E i \in DOMAIN outbox :
       /\ outbox[i].committed /\ outbox[i].recent
       /\ outbox[i].kind = e.kind
       /\ e.kind = "full" \/ outbox[i].account = e.account

Enqueued(e) == IF Duplicate(e) THEN outbox ELSE Append(outbox, e)

Called(t, a, method) ==
  /\ At(t, "idle") /\ t \in Writers /\ method \in config.methods
  /\ a \in config.accounts
  /\ changes < config.changes /\ changes' = changes + 1

\* A method of accountRepository that changes an account: Update (with the
\* group ids as payload), SetError, SetSchedulable and their like (without);
\* some write the account to Redis afterwards, some do not.
Change(t, a) ==
  /\ Called(t, a, "Change")
  /\ db[a] # NoRow
  /\ \E on, groups, sync \in BOOLEAN :
       /\ db' = [db EXCEPT ![a] = [on |-> on, v |-> @.v + 1]]
       /\ th' = [th EXCEPT ![t].pc = "enqueue", ![t].sync = sync,
                   ![t].event = [Event0 EXCEPT !.kind = "account", !.account = a,
                                               !.groups = groups]]
  /\ UNCHANGED <<outbox, cache, lock, watermark, bounds>>

\* UpdateCredentials writes no event, only the account.
UpdateCredentials(t, a) ==
  /\ Called(t, a, "UpdateCredentials")
  /\ db[a] # NoRow
  /\ db' = [db EXCEPT ![a].v = @ + 1]
  /\ th' = [th EXCEPT ![t].pc = "syncRead",
                      ![t].event = [Event0 EXCEPT !.account = a]]
  /\ UNCHANGED <<outbox, cache, lock, watermark, bounds>>

Delete(t, a) ==
  /\ Called(t, a, "Delete")
  /\ db[a] # NoRow
  /\ db' = [db EXCEPT ![a] = NoRow]
  /\ th' = [th EXCEPT ![t].pc = "enqueue",
                ![t].event = [Event0 EXCEPT !.kind = "account", !.account = a, !.groups = TRUE]]
  /\ UNCHANGED <<outbox, cache, lock, watermark, bounds>>

\* AutoPauseExpiredAccounts, and its event for all buckets.
AutoPause(t, a) ==
  /\ Called(t, a, "AutoPause")
  /\ db[a] # NoRow /\ db[a].on
  /\ db' = [db EXCEPT ![a] = [on |-> FALSE, v |-> @.v + 1]]
  /\ th' = [th EXCEPT ![t].pc = "enqueue", ![t].event = Event0]
  /\ UNCHANGED <<outbox, cache, lock, watermark, bounds>>

\* BatchUpdateLastUsed: a column no bucket depends on; counted as a change so
\* that events stay bounded.
UpdateLastUsed(t, a) ==
  /\ Called(t, a, "UpdateLastUsed")
  /\ th' = [th EXCEPT ![t].pc = "enqueue",
                      ![t].event = [Event0 EXCEPT !.kind = "used", !.account = a]]
  /\ UNCHANGED <<db, outbox, cache, lock, watermark, bounds>>

AfterEnqueue(t) ==
  IF th[t].sync THEN [th EXCEPT ![t].pc = "syncRead"] ELSE [th EXCEPT ![t] = Idle]

Enqueue(t) ==
  /\ At(t, "enqueue")
  /\ outbox' = Enqueued(th[t].event)
  /\ th' = AfterEnqueue(t)
  /\ UNCHANGED <<db, cache, lock, watermark, changes, bounds>>

\* The error is logged and the method goes on.
EnqueueFails(t) ==
  /\ At(t, "enqueue")
  /\ Disturb
  /\ th' = AfterEnqueue(t)
  /\ UNCHANGED <<db, outbox, cache, lock, watermark, changes, config, handled, overrun>>

\* incrementUsageBillingAccountQuota crosses a limit: the event gets its id
\* when it is inserted, and is visible when the transaction commits.
CrossQuota(t, a) ==
  /\ Called(t, a, "CrossQuota")
  /\ db[a] # NoRow
  /\ LET e == [Event0 EXCEPT !.kind = "account", !.account = a, !.committed = FALSE]
     IN  /\ outbox' = Enqueued(e)
         /\ th' = [th EXCEPT ![t].pc = "commit", ![t].event = e,
                             ![t].from = IF Duplicate(e) THEN 0 ELSE Len(outbox')]
  /\ UNCHANGED <<db, cache, lock, watermark, bounds>>

Commit(t) ==
  /\ At(t, "commit")
  /\ LET a == th[t].event.account IN
       db' = IF db[a] = NoRow THEN db ELSE [db EXCEPT ![a].v = @ + 1]
  /\ outbox' = IF th[t].from = 0 THEN outbox
               ELSE [outbox EXCEPT ![th[t].from].committed = TRUE]
  /\ th' = [th EXCEPT ![t] = Idle]
  /\ UNCHANGED <<cache, lock, watermark, changes, bounds>>

\* syncSchedulerAccountSnapshot: GetByID, then SetAccount.
SyncRead(t) ==
  /\ At(t, "syncRead")
  /\ LET row == db[th[t].event.account] IN
       th' = IF row = NoRow THEN [th EXCEPT ![t] = Idle]
             ELSE [th EXCEPT ![t].pc = "syncWrite", ![t].row = row]
  /\ UNCHANGED <<db, outbox, cache, lock, watermark, changes, bounds>>

SyncWrite(t) ==
  /\ At(t, "syncWrite")
  /\ accounts' = [accounts EXCEPT ![th[t].event.account] = th[t].row]
  /\ th' = [th EXCEPT ![t] = Idle]
  /\ UNCHANGED <<db, outbox, active, newer, registered, lock, watermark, changes, bounds>>

SyncFails(t) ==
  /\ At(t, "syncRead") \/ At(t, "syncWrite")
  /\ Disturb
  /\ th' = [th EXCEPT ![t] = Idle]
  /\ UNCHANGED <<db, outbox, cache, lock, watermark, changes, config, handled, overrun>>

\* The dedup window of an event passes.
Age(i) ==
  /\ outbox[i].committed /\ outbox[i].recent
  /\ outbox' = [outbox EXCEPT ![i].recent = FALSE]
  /\ UNCHANGED <<db, cache, lock, watermark, th, changes, bounds>>
-----------------------------------------------------------------------------
(* rebuildBucket for one bucket after the other.                           *)

\* The event at hand, and the ids of the batch that are left after it.
First(t) == Min(th[t].batch)

NextEvent(t) ==
  IF th[t].batch = {First(t)}
    THEN [th EXCEPT ![t].pc = "advance", ![t].from = First(t), ![t].batch = {},
                    ![t].event = Event0, ![t].seen = {}]
    ELSE [th EXCEPT ![t].pc = "event", ![t].batch = @ \ {First(t)}, ![t].event = Event0]

\* The last bucket is done: of an event of the batch, of the check of the lag
\* or of a full rebuild.  pollOutbox returns on the first event that failed.
RebuildDone(t) ==
  /\ At(t, "next") /\ th[t].todo = {}
  /\ IF t \in Pollers /\ th[t].batch # {} /\ ~th[t].err
       THEN /\ th' = NextEvent(t)
            /\ handled' = handled \union {First(t)}
       ELSE /\ th' = [th EXCEPT ![t] = Idle]
            /\ UNCHANGED handled
  /\ UNCHANGED <<db, outbox, cache, lock, watermark, changes, config, overrun, disturbances>>

SkipNever(b) == FALSE
SkipLocked(b) == lock[b] # NoThread

\* TryLockBucket; a bucket somebody else rebuilds is passed over, and counts as
\* rebuilt.
TryLockBucket(t, b) ==
  /\ At(t, "next") /\ b \in th[t].todo
  /\ IF SkipLocked(b)
       THEN /\ th' = [th EXCEPT ![t].todo = @ \ {b}]
            /\ UNCHANGED lock
       ELSE /\ th' = [th EXCEPT ![t].todo = @ \ {b}, ![t].pc = "load", ![t].bucket = b]
            /\ lock' = [lock EXCEPT ![b] = t]
  /\ UNCHANGED <<db, outbox, cache, watermark, changes, bounds>>

TryLockFails(t, b) ==
  /\ At(t, "next") /\ b \in th[t].todo
  /\ Disturb
  /\ th' = [th EXCEPT ![t].todo = @ \ {b}, ![t].err = TRUE]
  /\ UNCHANGED <<db, outbox, cache, lock, watermark, changes, config, handled, overrun>>

Load(t) ==
  /\ At(t, "load")
  /\ th' = [th EXCEPT ![t].pc = "incr", ![t].got = Loaded(th[t].bucket)]
  /\ UNCHANGED <<db, outbox, cache, lock, watermark, changes, bounds>>

\* The writers with a version number above the active one; the order of the
\* numbers of some of them.
Above(b) == {u \in Threads : <<u, u>> \in newer[b]}
Only(order, T) == order \intersect (T \X T)

\* SetSnapshot: INCR gives the writer a version number above all others.
Incr(t) ==
  /\ At(t, "incr")
  /\ LET b == th[t].bucket IN
       newer' = [newer EXCEPT ![b] = @ \union ((Above(b) \union {t}) \X {t})]
  /\ th' = [th EXCEPT ![t].pc = "write"]
  /\ UNCHANGED <<db, outbox, active, accounts, registered, lock, watermark, changes, bounds>>

\* writeAccounts.
Write(t) ==
  /\ At(t, "write")
  /\ accounts' = [a \in Accounts |-> IF th[t].got.rows[a] # NoRow THEN th[t].got.rows[a]
                                      ELSE accounts[a]]
  /\ th' = [th EXCEPT ![t].pc = "activate"]
  /\ UNCHANGED <<db, outbox, active, newer, registered, lock, watermark, changes, bounds>>

\* A request returns; a rebuild unlocks the bucket.
AfterSet(t) == IF t \in Requests THEN [th EXCEPT ![t] = Idle]
               ELSE [th EXCEPT ![t].pc = "unlock", ![t].got = Idle.got]

\* The snapshot's ids under a key of its own, and activateSnapshotScript: a
\* number that is not above the active one changes nothing.
Activate(t) ==
  /\ At(t, "activate")
  /\ LET b == th[t].bucket
         higher == {u \in Threads : <<t, u>> \in newer[b]} \ {t}
     IN  IF t \in Above(b)
           THEN /\ active' = [active EXCEPT ![b] = th[t].got]
                /\ newer' = [newer EXCEPT ![b] = Only(@, higher)]
                /\ registered' = registered \union {b}
           ELSE UNCHANGED <<active, newer, registered>>
  /\ th' = AfterSet(t)
  /\ UNCHANGED <<db, outbox, accounts, lock, watermark, changes, bounds>>

\* The load or a command of SetSnapshot fails; the number stays unused.
SetFails(t) ==
  /\ t \in config.threads /\ th[t].pc \in {"load", "incr", "write", "activate"}
  /\ Disturb
  /\ newer' = [newer EXCEPT ![th[t].bucket] = Only(@, Threads \ {t})]
  /\ th' = IF t \in Requests THEN [th EXCEPT ![t] = Idle]
           ELSE [th EXCEPT ![t].pc = "unlock", ![t].got = Idle.got, ![t].err = TRUE]
  /\ UNCHANGED <<db, outbox, active, accounts, registered, lock, watermark, changes,
                 config, handled, overrun>>

Unlocked(t) == [th EXCEPT ![t].pc = "next", ![t].bucket = AnyBucket]

\* UnlockBucket deletes the key, whoever set it.
Unlock(t) ==
  /\ At(t, "unlock")
  /\ lock' = [lock EXCEPT ![th[t].bucket] = NoThread]
  /\ th' = Unlocked(t)
  /\ UNCHANGED <<db, outbox, cache, watermark, changes, bounds>>

\* Its error is ignored.
UnlockFails(t) ==
  /\ At(t, "unlock")
  /\ Disturb
  /\ th' = Unlocked(t)
  /\ UNCHANGED <<db, outbox, cache, lock, watermark, changes, config, handled, overrun>>

Rebuilding(t, b) == th[t].pc \in RebuildPCs /\ th[t].bucket = b

LockNeverExpires(b) == FALSE /\ UNCHANGED vars

\* The 30 s of the lock end after its holder died or failed to delete it...
LockExpires(b) ==
  /\ lock[b] # NoThread /\ ~Rebuilding(lock[b], b)
  /\ lock' = [lock EXCEPT ![b] = NoThread]
  /\ UNCHANGED <<db, outbox, cache, watermark, th, changes, bounds>>

\* ...or while the holder is still rebuilding.
LockOverrun(b) ==
  /\ lock[b] # NoThread /\ Rebuilding(lock[b], b)
  /\ Disturb
  /\ lock' = [lock EXCEPT ![b] = NoThread]
  /\ overrun' = TRUE
  /\ UNCHANGED <<db, outbox, cache, watermark, th, changes, config, handled>>
-----------------------------------------------------------------------------
(* The workers and the requests.                                           *)

\* triggerFullRebuild by the ticker of runFullRebuildWorker.
FullRebuild(t) ==
  /\ At(t, "idle") /\ t \in Rebuilders
  /\ th' = [th EXCEPT ![t].pc = "next", ![t].todo = ListBuckets]
  /\ UNCHANGED <<db, outbox, cache, lock, watermark, changes, bounds>>

\* ListSchedulableAccounts on a miss: the bucket is loaded without its lock.
Fallback(t, b) ==
  /\ At(t, "idle") /\ t \in Requests /\ b \in config.buckets
  /\ ~Hit(b)
  /\ th' = [th EXCEPT ![t].pc = "load", ![t].bucket = b]
  /\ UNCHANGED <<db, outbox, cache, lock, watermark, changes, bounds>>

\* The same when the snapshot cannot be read.
FallbackOnError(t, b) ==
  /\ At(t, "idle") /\ t \in Requests /\ b \in config.buckets
  /\ Hit(b) /\ Disturb
  /\ th' = [th EXCEPT ![t].pc = "load", ![t].bucket = b]
  /\ UNCHANGED <<db, outbox, cache, lock, watermark, changes, config, handled, overrun>>

\* pollOutbox: GetOutboxWatermark...
Poll(t) ==
  /\ At(t, "idle") /\ t \in Pollers
  /\ th' = [th EXCEPT ![t].pc = "list", ![t].from = watermark]
  /\ UNCHANGED <<db, outbox, cache, lock, watermark, changes, bounds>>

\* ...and ListAfter: the committed events above it in the order of their ids.
Visible(id) == outbox[id].committed

\* LIMIT: the lowest ids.
Limited(ids) == {i \in ids : Cardinality({j \in ids : j <= i}) <= config.batch}

ListAfter(t) ==
  /\ At(t, "list")
  /\ LET ids == {i \in 1..Len(outbox) : i > th[t].from /\ Visible(i)}
     IN  th' = IF ids = {} THEN [th EXCEPT ![t] = Idle]
               ELSE [th EXCEPT ![t].pc = "event", ![t].from = 0,
                               ![t].batch = Limited(ids)]
  /\ UNCHANGED <<db, outbox, cache, lock, watermark, changes, bounds>>

\* handleOutboxEvent: a full rebuild, or the read of the account from the
\* database (handleAccountEvent) or from Redis (UpdateLastUsed).
HandleEvent(t) ==
  /\ At(t, "event")
  /\ LET e == outbox[First(t)] IN
       \/ /\ e.kind = "full"
          /\ th' = [th EXCEPT ![t].pc = "next", ![t].todo = ListBuckets]
       \/ /\ e.kind = "account"
          /\ th' = [th EXCEPT ![t].pc = "account", ![t].event = e,
                              ![t].row = db[e.account]]
       \/ /\ e.kind = "used"
          /\ th' = [th EXCEPT ![t].pc = "used", ![t].event = e,
                              ![t].row = accounts[e.account]]
  /\ UNCHANGED <<db, outbox, cache, lock, watermark, changes, bounds>>

\* The buckets of the event's account; of a deleted one only the payload tells.
AffectedBuckets(e, row) ==
  {b \in config.buckets : e.account \in In[b] /\ (row # NoRow \/ e.groups)}

\* SetAccount or DeleteAccount, then the rebuild of the buckets this batch has
\* not seen yet.
HandleAccountEvent(t) ==
  /\ At(t, "account")
  /\ LET e == th[t].event
         affected == AffectedBuckets(e, th[t].row)
     IN  /\ accounts' = [accounts EXCEPT ![e.account] = th[t].row]
         /\ th' = [th EXCEPT ![t].pc = "next", ![t].todo = affected \ th[t].seen,
                             ![t].seen = @ \union affected, ![t].row = NoRow]
  /\ UNCHANGED <<db, outbox, active, newer, registered, lock, watermark, changes, bounds>>

\* handleLastUsedEvent: the account as it was read is written back.
HandleLastUsedEvent(t) ==
  /\ At(t, "used")
  /\ accounts' = IF th[t].row = NoRow THEN accounts
                 ELSE [accounts EXCEPT ![th[t].event.account] = th[t].row]
  /\ th' = [th EXCEPT ![t].pc = "next", ![t].row = NoRow]
  /\ UNCHANGED <<db, outbox, active, newer, registered, lock, watermark, changes, bounds>>

HandleErrorIgnored(t) ==
  /\ t \in config.threads /\ th[t].pc \in {"event", "account", "used"}
  /\ Disturb
  /\ th' = NextEvent(t)
  /\ UNCHANGED <<db, outbox, cache, lock, watermark, changes, config, handled, overrun>>

\* A read or write of an account fails: the batch is given up.
HandleFails(t) ==
  /\ t \in config.threads /\ th[t].pc \in {"event", "account", "used"}
  /\ Disturb
  /\ th' = [th EXCEPT ![t] = Idle]
  /\ UNCHANGED <<db, outbox, cache, lock, watermark, changes, config, handled, overrun>>

\* SetOutboxWatermark, unconditionally; its error after three tries is logged.
Advance(t) ==
  /\ At(t, "advance")
  /\ watermark' = th[t].from
  /\ th' = [th EXCEPT ![t].pc = "lag", ![t].from = 0]
  /\ UNCHANGED <<db, outbox, cache, lock, changes, bounds>>

AdvanceFails(t) ==
  /\ At(t, "advance")
  /\ Disturb
  /\ th' = [th EXCEPT ![t].pc = "lag", ![t].from = 0]
  /\ UNCHANGED <<db, outbox, cache, lock, watermark, changes, config, handled, overrun>>

\* checkOutboxLag: a full rebuild when the oldest event is old or the backlog
\* long, which the model leaves open.
CheckOutboxLag(t) ==
  /\ At(t, "lag")
  /\ \/ th' = [th EXCEPT ![t] = Idle]
     \/ th' = [th EXCEPT ![t].pc = "next", ![t].todo = ListBuckets]
  /\ UNCHANGED <<db, outbox, cache, lock, watermark, changes, bounds>>

\* A server process dies and starts again; what it locked stays locked.
Restart(p) ==
  LET mine == {t \in Pollers \union Rebuilders : ProcessOf[t] = p} IN
  /\ Disturb
  /\ th' = [t \in Threads |-> IF t \in mine \intersect config.threads THEN Started(t)
                               ELSE th[t]]
  /\ newer' = [b \in Buckets |-> Only(newer[b], Threads \ mine)]
  /\ UNCHANGED <<db, outbox, active, accounts, registered, lock, watermark, changes,
                 config, handled, overrun>>
-----------------------------------------------------------------------------
RebuildStep(t) ==
  \/ RebuildDone(t) \/ (\E b \in Buckets : TryLockBucket(t, b))
  \/ Load(t) \/ Incr(t) \/ Write(t) \/ Activate(t) \/ Unlock(t)

PollStep(t) ==
  \/ ListAfter(t) \/ HandleEvent(t) \/ HandleAccountEvent(t) \/ HandleLastUsedEvent(t)
  \/ Advance(t) \/ CheckOutboxLag(t)

WriterStep(t) == Enqueue(t) \/ Commit(t) \/ SyncRead(t) \/ SyncWrite(t)

Begin(t) ==
  \/ \E a \in Accounts : \/ Change(t, a) \/ UpdateCredentials(t, a) \/ Delete(t, a)
                         \/ AutoPause(t, a) \/ UpdateLastUsed(t, a) \/ CrossQuota(t, a)
  \/ \E b \in Buckets : Fallback(t, b)

Failure(t) ==
  \/ EnqueueFails(t) \/ SyncFails(t) \/ SetFails(t) \/ UnlockFails(t) \/ HandleFails(t)
  \/ AdvanceFails(t)
  \/ \E b \in Buckets : TryLockFails(t, b) \/ FallbackOnError(t, b)

Next ==
  \/ \E t \in Threads :
       \/ Begin(t) \/ FullRebuild(t) \/ Poll(t)
       \/ RebuildStep(t) \/ PollStep(t) \/ WriterStep(t) \/ Failure(t)
  \/ \E b \in Buckets : LockExpires(b) \/ LockOverrun(b)
  \/ \E i \in DOMAIN outbox : Age(i)
  \/ \E p \in {ProcessOf[t] : t \in config.threads \intersect (Pollers \union Rebuilders)} :
       Restart(p)

Spec == Init /\ [][Next]_vars

\* Threads go on, tickers fire and locks expire.  Changes, requests, the
\* outcome of the lag check and disturbances are left to chance.
FairSpec ==
  /\ Spec
  /\ \A t \in Threads : WF_vars(RebuildStep(t)) /\ WF_vars(PollStep(t)) /\ WF_vars(WriterStep(t))
  /\ \A t \in Rebuilders : WF_vars(FullRebuild(t))
  /\ \A t \in Pollers : WF_vars(Poll(t))
  /\ \A b \in Buckets : WF_vars(LockExpires(b))
-----------------------------------------------------------------------------
\* Every event the poller may take for done (its id is not above the watermark)
\* was handled without an error (pollOutbox returns before SetOutboxWatermark
\* when one event of the batch fails).
NothingSkipped ==
  \A id \in 1..watermark : outbox[id].committed => id \in handled

\* The same where ids become visible in their order: no event is inserted in a
\* transaction that commits later.
WatermarkBehindHandled == "CrossQuota" \in config.methods \/ NothingSkipped

\* While rebuilds under the lock of the bucket are the only writers and the lock
\* outlasts them, the active snapshot is never replaced by one loaded earlier
\* (rebuildBucket loads after TryLockBucket).
LockOrdersLoads ==
  [][config.threads \intersect Requests = {} /\ ~overrun
     => \A b \in Buckets : active[b] # NoSnapshot => active'[b].at >= active[b].at]_vars

Current(b) ==
  Hit(b) => /\ Ids(active[b]) = Schedulable(b)
            /\ \A a \in Ids(active[b]) : accounts[a] = db[a]

\* When the accounts no longer change, every snapshot a request can read comes
\* to list the schedulable accounts with their current data, whatever event was
\* lost, swallowed or handled while the bucket was locked
\* (runFullRebuildWorker, lock TTL).
SnapshotCatchesUp == <>[](\A b \in config.buckets : Current(b))
=============================================================================

----------------------- MODULE SchedulerSnapshotProofs ------------------------
(***************************************************************************)
(* The safety properties of SchedulerSnapshot hold for any accounts,       *)
(* buckets and threads, and for every configuration of them.               *)
(***************************************************************************)
EXTENDS SchedulerSnapshot, FiniteSetTheorems, SequenceTheorems, WellFoundedInduction, TLAPS

\* No event is inserted in a transaction that commits later.
InOrder == "CrossQuota" \notin config.methods

\* Only rebuilds write, and no lock was overrun.
Exclusive == config.threads \intersect Requests = {} /\ ~overrun

\* Events are visible as soon as they have an id, those up to the watermark are
\* handled, and no snapshot was loaded later than now.
Shared ==
  /\ InOrder => (\A i \in 1..Len(outbox) : outbox[i].committed) /\ NothingSkipped
  /\ \A b \in Buckets : active[b] # NoSnapshot => active[b].at <= changes

\* The ids a thread has are those of events there are, and it handles one of
\* them; all it may have skipped is handled or still in its batch.
CursorOK(t) ==
  /\ th[t].from <= Len(outbox) /\ th[t].batch \subseteq 1..Len(outbox)
  /\ th[t].pc \in {"event", "account", "used"} => th[t].batch # {}
  /\ InOrder => /\ th[t].event.committed
                /\ th[t].pc \in {"list", "advance"} => 1..th[t].from \subseteq handled
                /\ \A j \in th[t].batch : 1..j \subseteq handled \union th[t].batch

\* Only buckets of the configuration are rebuilt; whoever rebuilds one has its
\* lock, and what it loaded is not older than the active snapshot.
RebuildOK(t) ==
  /\ th[t].todo \subseteq config.buckets
  /\ th[t].pc \in RebuildPCs => th[t].bucket \in config.buckets
  /\ th[t].got.at <= changes
  /\ Exclusive /\ th[t].pc \in RebuildPCs =>
       /\ lock[th[t].bucket] = t
       /\ th[t].pc \in {"incr", "write", "activate"} /\ active[th[t].bucket] # NoSnapshot =>
            active[th[t].bucket].at <= th[t].got.at

IInv == TypeOK /\ Shared /\ \A t \in Threads : CursorOK(t) /\ RebuildOK(t)

-----------------------------------------------------------------------------
(* The constants and the operators the actions use. *)

LEMMA ConfigFields ==
  ASSUME config \in Configs
  PROVE  /\ config.accounts \subseteq Accounts /\ config.buckets \subseteq Buckets
         /\ config.threads \subseteq Threads
         /\ config.changes \in Nat /\ config.disturbances \in Nat
         /\ config.batch \in Nat /\ config.batch >= 1
  BY SchedulerAssumption DEF ConfigType

LEMMA AnyExist == AnyAccount \in Accounts /\ AnyBucket \in Buckets
  BY SchedulerAssumption DEF AnyAccount, AnyBucket

LEMMA Event0Typed == Event0 \in Event /\ Event0.committed
  BY AnyExist DEF Event0, Event

LEMMA IdleTyped ==
  /\ Idle \in Thread /\ Idle.pc = "idle" /\ Idle.todo = {} /\ Idle.from = 0
  /\ Idle.batch = {} /\ Idle.event.committed
  /\ Idle.got \in Snapshot /\ Idle.got.at = 0
<1>1. [rows |-> NoRows, at |-> 0] \in Snapshot
  BY DEF Snapshot, NoRows, Rows
<1> QED
  BY <1>1, AnyExist, Event0Typed DEF Idle, Thread, PCs

LEMMA ThreadFields ==
  ASSUME th \in [Threads -> Thread], NEW t \in Threads
  PROVE  /\ th[t].pc \in PCs /\ th[t].todo \subseteq Buckets /\ th[t].bucket \in Buckets
         /\ th[t].got \in Snapshot /\ th[t].got.rows \in Rows /\ th[t].got.at \in Nat
         /\ th[t].row \in Row \union {NoRow} /\ th[t].from \in Nat /\ th[t].batch \subseteq Nat
         /\ th[t].seen \subseteq Buckets /\ th[t].err \in BOOLEAN
         /\ th[t].event \in Event /\ th[t].event.account \in Accounts /\ th[t].sync \in BOOLEAN
<1>1. th[t] \in Thread
  OBVIOUS
<1>2. th[t].got \in Snapshot /\ th[t].event \in Event
  BY <1>1 DEF Thread
<1> QED
  BY <1>1, <1>2 DEF Thread, Snapshot, Event

LEMMA LoadedTyped ==
  ASSUME TypeOK, NEW b \in Buckets
  PROVE  Loaded(b) \in Snapshot /\ Loaded(b).at = changes
<1>1. changes \in Nat
  BY ConfigFields DEF TypeOK
<1>2. [a \in Accounts |-> IF a \in Schedulable(b) THEN db[a] ELSE NoRow] \in Rows
  BY DEF TypeOK, Rows
<1> QED
  BY <1>1, <1>2 DEF Loaded, Snapshot

LEMMA RowsChange ==
  ASSUME db \in Rows, NEW a \in Accounts, db[a] # NoRow
  PROVE  /\ \A o \in BOOLEAN : [db EXCEPT ![a] = [on |-> o, v |-> db[a].v + 1]] \in Rows
         /\ [db EXCEPT ![a].v = db[a].v + 1] \in Rows
         /\ [db EXCEPT ![a] = NoRow] \in Rows
<1>1. db[a] \in Row
  BY DEF Rows
<1>2. db[a].v + 1 \in Nat
  BY <1>1 DEF Row
<1>3. [db[a] EXCEPT !.v = db[a].v + 1] \in Row
  BY <1>1, <1>2 DEF Row
<1>4. [db EXCEPT ![a].v = db[a].v + 1] = [db EXCEPT ![a] = [db[a] EXCEPT !.v = db[a].v + 1]]
  BY <1>1 DEF Rows
<1>5. \A o \in BOOLEAN : [on |-> o, v |-> db[a].v + 1] \in Row
  BY <1>2 DEF Row
<1> QED
  BY <1>3, <1>4, <1>5 DEF Rows

LEMMA EnqueuedProperties ==
  ASSUME outbox \in Seq(Event), NEW e \in Event
  PROVE  /\ Enqueued(e) \in Seq(Event) /\ Len(outbox) <= Len(Enqueued(e))
         /\ \A i \in 1..Len(outbox) : Enqueued(e)[i] = outbox[i]
         /\ \A i \in 1..Len(Enqueued(e)) : i \in 1..Len(outbox) \/ Enqueued(e)[i] = e
<1>1. CASE Duplicate(e)
  BY <1>1 DEF Enqueued
<1>2. CASE ~Duplicate(e)
  <2>1. Enqueued(e) = Append(outbox, e)
    BY <1>2 DEF Enqueued
  <2>2. Append(outbox, e) \in Seq(Event) /\ Len(Append(outbox, e)) = Len(outbox) + 1
    BY AppendProperties
  <2>3. \A i \in 1..Len(outbox) : Append(outbox, e)[i] = outbox[i]
    BY AppendProperties
  <2>4. Append(outbox, e)[Len(outbox) + 1] = e
    BY AppendProperties
  <2> QED
    BY <2>1, <2>2, <2>3, <2>4
<1> QED
  BY <1>1, <1>2

LEMMA ListBucketsTyped ==
  ASSUME TypeOK
  PROVE  ListBuckets \subseteq config.buckets /\ ListBuckets \subseteq Buckets
  BY ConfigFields DEF TypeOK, ListBuckets

\* A set of naturals that is not empty has a least element, which Min returns.
LEMMA MinProperties ==
  ASSUME NEW S, S \subseteq Nat, S # {}
  PROVE  Min(S) \in S /\ \A x \in S : Min(S) <= x
<1>1. PICK m \in S : \A y \in S : ~(<<y, m>> \in OpToRel(<, Nat))
  BY NatLessThanWellFounded, WFMin
<1>2. ASSUME NEW y \in S PROVE m <= y
  <2>1. m \in Nat /\ y \in Nat
    OBVIOUS
  <2>2. y < m => <<y, m>> \in OpToRel(<, Nat)
    BY <2>1, Zenon DEF OpToRel
  <2>3. ~(y < m)
    BY <1>1, <2>2, Zenon
  <2> QED
    BY <2>1, <2>3
<1> QED
  BY <1>2 DEF Min

\* LIMIT drops the highest ids and keeps one at least.
LEMMA LimitedProperties ==
  ASSUME NEW n \in Nat, NEW ids, ids \subseteq 1..n, ids # {},
         config.batch \in Nat, config.batch >= 1
  PROVE  /\ Limited(ids) \subseteq ids /\ Limited(ids) # {}
         /\ \A i \in Limited(ids), j \in ids : j < i => j \in Limited(ids)
<1> DEFINE upTo(i) == {j \in ids : j <= i}
<1>0. ids \subseteq Nat
  OBVIOUS
<1>1. IsFiniteSet(ids)
  BY FS_Interval, FS_Subset, n \in Int, 1 \in Int
<1>2. \A i \in ids : IsFiniteSet(upTo(i))
  BY <1>1, FS_Subset
<1>3. Limited(ids) \subseteq ids
  BY DEF Limited
<1>4. Limited(ids) # {}
  <2>1. Min(ids) \in ids /\ \A x \in ids : Min(ids) <= x
    BY <1>0, MinProperties
  <2>2. ASSUME NEW x \in ids, x <= Min(ids) PROVE x = Min(ids)
    <3>1. x \in Nat /\ Min(ids) \in Nat
      BY <1>0, <2>1
    <3>2. Min(ids) <= x
      BY <2>1
    <3> QED
      BY <2>2, <3>1, <3>2
  <2>3. upTo(Min(ids)) = {Min(ids)}
    BY <1>0, <2>1, <2>2
  <2>4. Cardinality(upTo(Min(ids))) = 1
    BY <2>3, FS_Singleton
  <2> QED
    BY <2>1, <2>4 DEF Limited
<1>5. ASSUME NEW i \in Limited(ids), NEW j \in ids, j < i
      PROVE  j \in Limited(ids)
  <2>1. i \in ids /\ Cardinality(upTo(i)) <= config.batch
    BY DEF Limited
  <2>2. \A x \in ids : x <= j => x <= i
    BY <1>0, <1>5, <2>1
  <2>3. upTo(j) \subseteq upTo(i)
    BY <2>2
  <2>4. Cardinality(upTo(j)) <= Cardinality(upTo(i))
    BY <1>2, <2>1, <2>3, FS_Subset
  <2>5. Cardinality(upTo(j)) \in Nat /\ Cardinality(upTo(i)) \in Nat
    BY <1>2, <2>1, FS_CardinalityType
  <2> QED
    BY <2>1, <2>4, <2>5 DEF Limited
<1> QED
  BY <1>3, <1>4, <1>5

-----------------------------------------------------------------------------
(* Threads a step does not move keep their part of the invariant. *)

Undisturbed(S) ==
  /\ config' = config /\ Len(outbox) <= Len(outbox') /\ handled \subseteq handled'
  /\ changes <= changes' /\ (overrun => overrun')
  /\ \A u \in S : th'[u] = th[u]
  /\ \A b \in Buckets :
       \/ lock'[b] = lock[b] /\ active'[b] = active[b]
       \/ Exclusive => \A u \in S : ~Rebuilding(u, b)

LEMMA Frame ==
  ASSUME IInv, TypeOK', NEW S \in SUBSET Threads, Undisturbed(S), NEW u \in S
  PROVE  CursorOK(u)' /\ RebuildOK(u)'
<1> USE DEF IInv, TypeOK, Undisturbed
<1>1. u \in Threads /\ th'[u] = th[u] /\ CursorOK(u) /\ RebuildOK(u)
  OBVIOUS
<1>2. Len(outbox) \in Nat /\ Len(outbox') \in Nat
  OBVIOUS
<1>3. CursorOK(u)'
  BY <1>1, <1>2, ThreadFields DEF CursorOK, InOrder
<1>4. changes \in Nat /\ changes' \in Nat
  BY ConfigFields
<1>5. RebuildOK(u)'
  BY <1>1, <1>4, ThreadFields DEF RebuildOK, Exclusive, Rebuilding
<1> QED
  BY <1>3, <1>5

LEMMA OneMoves ==
  ASSUME IInv, NEW t \in Threads, TypeOK', Shared', Undisturbed(Threads \ {t}),
         CursorOK(t)', RebuildOK(t)'
  PROVE  IInv'
<1>1. \A u \in Threads \ {t} : CursorOK(u)' /\ RebuildOK(u)'
  BY Frame
<1> QED
  BY <1>1 DEF IInv

LEMMA NoneMoves ==
  ASSUME IInv, TypeOK', Shared', Undisturbed(Threads)
  PROVE  IInv'
  BY Frame DEF IInv

\* The same where only the thread, and the count of disturbances, change.
LEMMA OnlyMoves ==
  ASSUME IInv, NEW t \in Threads,
         UNCHANGED <<db, outbox, cache, lock, watermark, changes, config, handled, overrun>>,
         disturbances' \in 0..config.disturbances,
         th' \in [Threads -> Thread], \A u \in Threads \ {t} : th'[u] = th[u],
         CursorOK(t)', RebuildOK(t)'
  PROVE  IInv'
<1>1. TypeOK'
  BY DEF IInv, TypeOK, cache
<1>2. Shared'
  BY DEF IInv, Shared, InOrder, NothingSkipped, cache
<1>3. Undisturbed(Threads \ {t})
  BY ConfigFields DEF IInv, TypeOK, Undisturbed, cache
<1> QED
  BY <1>1, <1>2, <1>3, OneMoves

\* A thread that has returned satisfies its part.
LEMMA Returned ==
  ASSUME IInv, outbox' \in Seq(Event), changes' \in Nat, NEW t \in Threads,
         th' = [th EXCEPT ![t] = Idle]
  PROVE  CursorOK(t)' /\ RebuildOK(t)'
<1>1. th'[t] = Idle
  BY DEF IInv, TypeOK
<1>2. Len(outbox') \in Nat
  OBVIOUS
<1> QED
  BY <1>1, <1>2, IdleTyped DEF CursorOK, RebuildOK, RebuildPCs

-----------------------------------------------------------------------------
(* Preservation of IInv, action by action. *)

LEMMA ChangePreserves ==
  ASSUME IInv, NEW t \in Threads, NEW a \in Accounts, Change(t, a)
  PROVE  IInv'
<1> USE ConfigFields, ThreadFields DEF IInv, TypeOK
<1>1. /\ config' = config /\ db' \in Rows /\ accounts' \in Rows
      /\ active' \in [Buckets -> Snapshot \union {NoSnapshot}]
      /\ newer' \in [Buckets -> SUBSET (Threads \X Threads)]
      /\ registered' \subseteq config'.buckets
      /\ lock' \in [Buckets -> Threads \union {NoThread}]
  <2>1. PICK on, groups, sync \in BOOLEAN : db' = [db EXCEPT ![a] = [on |-> on, v |-> @.v + 1]]
    BY DEF Change
  <2> QED
    BY <2>1, RowsChange DEF Change, cache, bounds
<1>2. /\ outbox' \in Seq(Event) /\ Len(outbox) <= Len(outbox')
      /\ watermark' \in 0..Len(outbox')
      /\ handled' \subseteq 1..Len(outbox') /\ handled \subseteq handled'
  BY DEF Change, At, Called, cache, bounds
<1>3. /\ changes' \in 0..config'.changes /\ changes' \in Nat /\ changes <= changes'
      /\ disturbances' \in 0..config'.disturbances
  BY DEF Change, At, Called, cache, bounds
<1>4. overrun' \in BOOLEAN /\ (overrun => overrun')
  BY DEF Change, At, Called, cache, bounds
<1>5. Shared'
  BY <1>1, <1>2, <1>3 DEF Change, At, Called, cache, bounds, Shared, InOrder,
    NothingSkipped, Snapshot
<1>6. PICK e \in Event, s \in BOOLEAN :
        /\ e.committed
        /\ th' = [th EXCEPT ![t] = [th[t] EXCEPT !.pc = "enqueue",
                                                 !.sync = s,
                                                 !.event = e]]
  <2>1. PICK on, groups, sync \in BOOLEAN :
          th' = [th EXCEPT ![t].pc = "enqueue", ![t].sync = sync,
                   ![t].event = [Event0 EXCEPT !.kind = "account", !.account = a, !.groups = groups]]
    BY DEF Change
  <2>2. /\ [Event0 EXCEPT !.kind = "account", !.account = a, !.groups = groups] \in Event
        /\ [Event0 EXCEPT !.kind = "account", !.account = a, !.groups = groups].committed
    BY Event0Typed DEF Event
  <2> QED
    BY <2>1, <2>2
<1>7. th' \in [Threads -> Thread] /\ \A u \in Threads \ {t} : th'[u] = th[u]
  <2>1. th[t] \in Thread
    OBVIOUS
  <2>2. [th[t] EXCEPT !.pc = "enqueue", !.sync = s, !.event = e] \in Thread
    BY <2>1 DEF Thread, PCs, RebuildPCs
  <2> QED
    BY <1>6, <2>2
<1>8. TypeOK'
  BY <1>1, <1>2, <1>3, <1>4, <1>7
<1>9. Undisturbed(Threads \ {t})
  BY <1>1, <1>2, <1>3, <1>4, <1>7 DEF Undisturbed, Change, At, Called, cache, bounds
<1>10. CursorOK(t)' /\ RebuildOK(t)'
  <2>1. /\ th'[t].pc = "enqueue" /\ th'[t].todo = th[t].todo
       /\ th'[t].bucket = th[t].bucket /\ th'[t].got = th[t].got
       /\ th'[t].from = th[t].from /\ th'[t].batch = th[t].batch
       /\ th'[t].event = e
    BY <1>6 DEF Thread
  <2>2. CursorOK(t) /\ RebuildOK(t)
    OBVIOUS
  <2>3. CursorOK(t)'
    BY <2>1, <2>2, <1>1, <1>2, <1>3, <1>4, <1>9, <1>6 DEF CursorOK, InOrder, Undisturbed
  <2>4. RebuildOK(t)'
    BY <2>1, <2>2, <1>1, <1>2, <1>3, <1>4, <1>9, <1>6
      DEF RebuildOK, Exclusive, RebuildPCs, Undisturbed
  <2> QED
    BY <2>3, <2>4
<1> QED
  BY <1>5, <1>8, <1>9, <1>10, OneMoves

LEMMA UpdateCredentialsPreserves ==
  ASSUME IInv, NEW t \in Threads, NEW a \in Accounts, UpdateCredentials(t, a)
  PROVE  IInv'
<1> USE ConfigFields, ThreadFields DEF IInv, TypeOK
<1>1. /\ config' = config /\ db' \in Rows /\ accounts' \in Rows
      /\ active' \in [Buckets -> Snapshot \union {NoSnapshot}]
      /\ newer' \in [Buckets -> SUBSET (Threads \X Threads)]
      /\ registered' \subseteq config'.buckets
      /\ lock' \in [Buckets -> Threads \union {NoThread}]
  BY RowsChange DEF UpdateCredentials, cache, bounds
<1>2. /\ outbox' \in Seq(Event) /\ Len(outbox) <= Len(outbox')
      /\ watermark' \in 0..Len(outbox')
      /\ handled' \subseteq 1..Len(outbox') /\ handled \subseteq handled'
  BY DEF UpdateCredentials, At, Called, cache, bounds
<1>3. /\ changes' \in 0..config'.changes /\ changes' \in Nat /\ changes <= changes'
      /\ disturbances' \in 0..config'.disturbances
  BY DEF UpdateCredentials, At, Called, cache, bounds
<1>4. overrun' \in BOOLEAN /\ (overrun => overrun')
  BY DEF UpdateCredentials, At, Called, cache, bounds
<1>5. Shared'
  BY <1>1, <1>2, <1>3 DEF UpdateCredentials, At, Called, cache, bounds, Shared, InOrder,
    NothingSkipped, Snapshot
<1>6. PICK e \in Event :
        /\ e.committed
        /\ th' = [th EXCEPT ![t] = [th[t] EXCEPT !.pc = "syncRead", !.event = e]]
  BY Event0Typed DEF Event, UpdateCredentials, At, Called
<1>7. th' \in [Threads -> Thread] /\ \A u \in Threads \ {t} : th'[u] = th[u]
  <2>1. th[t] \in Thread
    OBVIOUS
  <2>2. [th[t] EXCEPT !.pc = "syncRead", !.event = e] \in Thread
    BY <2>1 DEF Thread, PCs, RebuildPCs
  <2> QED
    BY <1>6, <2>2
<1>8. TypeOK'
  BY <1>1, <1>2, <1>3, <1>4, <1>7
<1>9. Undisturbed(Threads \ {t})
  BY <1>1, <1>2, <1>3, <1>4, <1>7
    DEF Undisturbed, UpdateCredentials, At, Called, cache, bounds
<1>10. CursorOK(t)' /\ RebuildOK(t)'
  <2>1. /\ th'[t].pc = "syncRead" /\ th'[t].todo = th[t].todo
       /\ th'[t].bucket = th[t].bucket /\ th'[t].got = th[t].got
       /\ th'[t].from = th[t].from /\ th'[t].batch = th[t].batch
       /\ th'[t].event = e
    BY <1>6 DEF Thread
  <2>2. CursorOK(t) /\ RebuildOK(t)
    OBVIOUS
  <2>3. CursorOK(t)'
    BY <2>1, <2>2, <1>1, <1>2, <1>3, <1>4, <1>9, <1>6 DEF CursorOK, InOrder, Undisturbed
  <2>4. RebuildOK(t)'
    BY <2>1, <2>2, <1>1, <1>2, <1>3, <1>4, <1>9, <1>6
      DEF RebuildOK, Exclusive, RebuildPCs, Undisturbed
  <2> QED
    BY <2>3, <2>4
<1> QED
  BY <1>5, <1>8, <1>9, <1>10, OneMoves

LEMMA DeletePreserves ==
  ASSUME IInv, NEW t \in Threads, NEW a \in Accounts, Delete(t, a)
  PROVE  IInv'
<1> USE ConfigFields, ThreadFields DEF IInv, TypeOK
<1>1. /\ config' = config /\ db' \in Rows /\ accounts' \in Rows
      /\ active' \in [Buckets -> Snapshot \union {NoSnapshot}]
      /\ newer' \in [Buckets -> SUBSET (Threads \X Threads)]
      /\ registered' \subseteq config'.buckets
      /\ lock' \in [Buckets -> Threads \union {NoThread}]
  BY RowsChange DEF Delete, cache, bounds
<1>2. /\ outbox' \in Seq(Event) /\ Len(outbox) <= Len(outbox')
      /\ watermark' \in 0..Len(outbox')
      /\ handled' \subseteq 1..Len(outbox') /\ handled \subseteq handled'
  BY DEF Delete, At, Called, cache, bounds
<1>3. /\ changes' \in 0..config'.changes /\ changes' \in Nat /\ changes <= changes'
      /\ disturbances' \in 0..config'.disturbances
  BY DEF Delete, At, Called, cache, bounds
<1>4. overrun' \in BOOLEAN /\ (overrun => overrun')
  BY DEF Delete, At, Called, cache, bounds
<1>5. Shared'
  BY <1>1, <1>2, <1>3 DEF Delete, At, Called, cache, bounds, Shared, InOrder,
    NothingSkipped, Snapshot
<1>6. PICK e \in Event :
        /\ e.committed
        /\ th' = [th EXCEPT ![t] = [th[t] EXCEPT !.pc = "enqueue", !.event = e]]
  <2>1. /\ [Event0 EXCEPT !.kind = "account", !.account = a, !.groups = TRUE] \in Event
        /\ [Event0 EXCEPT !.kind = "account", !.account = a, !.groups = TRUE].committed
    BY Event0Typed DEF Event
  <2> QED
    BY <2>1 DEF Delete
<1>7. th' \in [Threads -> Thread] /\ \A u \in Threads \ {t} : th'[u] = th[u]
  <2>1. th[t] \in Thread
    OBVIOUS
  <2>2. [th[t] EXCEPT !.pc = "enqueue", !.event = e] \in Thread
    BY <2>1 DEF Thread, PCs, RebuildPCs
  <2> QED
    BY <1>6, <2>2
<1>8. TypeOK'
  BY <1>1, <1>2, <1>3, <1>4, <1>7
<1>9. Undisturbed(Threads \ {t})
  BY <1>1, <1>2, <1>3, <1>4, <1>7 DEF Undisturbed, Delete, At, Called, cache, bounds
<1>10. CursorOK(t)' /\ RebuildOK(t)'
  <2>1. /\ th'[t].pc = "enqueue" /\ th'[t].todo = th[t].todo
       /\ th'[t].bucket = th[t].bucket /\ th'[t].got = th[t].got
       /\ th'[t].from = th[t].from /\ th'[t].batch = th[t].batch
       /\ th'[t].event = e
    BY <1>6 DEF Thread
  <2>2. CursorOK(t) /\ RebuildOK(t)
    OBVIOUS
  <2>3. CursorOK(t)'
    BY <2>1, <2>2, <1>1, <1>2, <1>3, <1>4, <1>9, <1>6 DEF CursorOK, InOrder, Undisturbed
  <2>4. RebuildOK(t)'
    BY <2>1, <2>2, <1>1, <1>2, <1>3, <1>4, <1>9, <1>6
      DEF RebuildOK, Exclusive, RebuildPCs, Undisturbed
  <2> QED
    BY <2>3, <2>4
<1> QED
  BY <1>5, <1>8, <1>9, <1>10, OneMoves

LEMMA AutoPausePreserves ==
  ASSUME IInv, NEW t \in Threads, NEW a \in Accounts, AutoPause(t, a)
  PROVE  IInv'
<1> USE ConfigFields, ThreadFields DEF IInv, TypeOK
<1>1. /\ config' = config /\ db' \in Rows /\ accounts' \in Rows
      /\ active' \in [Buckets -> Snapshot \union {NoSnapshot}]
      /\ newer' \in [Buckets -> SUBSET (Threads \X Threads)]
      /\ registered' \subseteq config'.buckets
      /\ lock' \in [Buckets -> Threads \union {NoThread}]
  BY RowsChange DEF AutoPause, cache, bounds
<1>2. /\ outbox' \in Seq(Event) /\ Len(outbox) <= Len(outbox')
      /\ watermark' \in 0..Len(outbox')
      /\ handled' \subseteq 1..Len(outbox') /\ handled \subseteq handled'
  BY DEF AutoPause, At, Called, cache, bounds
<1>3. /\ changes' \in 0..config'.changes /\ changes' \in Nat /\ changes <= changes'
      /\ disturbances' \in 0..config'.disturbances
  BY DEF AutoPause, At, Called, cache, bounds
<1>4. overrun' \in BOOLEAN /\ (overrun => overrun')
  BY DEF AutoPause, At, Called, cache, bounds
<1>5. Shared'
  BY <1>1, <1>2, <1>3 DEF AutoPause, At, Called, cache, bounds, Shared, InOrder,
    NothingSkipped, Snapshot
<1>6. th' = [th EXCEPT ![t] = [th[t] EXCEPT !.pc = "enqueue", !.event = Event0]]
  BY DEF AutoPause, At, Called
<1>7. th' \in [Threads -> Thread] /\ \A u \in Threads \ {t} : th'[u] = th[u]
  <2>1. th[t] \in Thread
    OBVIOUS
  <2>2. [th[t] EXCEPT !.pc = "enqueue", !.event = Event0] \in Thread
    BY <2>1, Event0Typed DEF Thread, PCs, RebuildPCs
  <2> QED
    BY <1>6, <2>2
<1>8. TypeOK'
  BY <1>1, <1>2, <1>3, <1>4, <1>7
<1>9. Undisturbed(Threads \ {t})
  BY <1>1, <1>2, <1>3, <1>4, <1>7 DEF Undisturbed, AutoPause, At, Called, cache, bounds
<1>10. CursorOK(t)' /\ RebuildOK(t)'
  <2>1. /\ th'[t].pc = "enqueue" /\ th'[t].todo = th[t].todo
       /\ th'[t].bucket = th[t].bucket /\ th'[t].got = th[t].got
       /\ th'[t].from = th[t].from /\ th'[t].batch = th[t].batch
       /\ th'[t].event = Event0
    BY <1>6 DEF Thread
  <2>2. CursorOK(t) /\ RebuildOK(t)
    OBVIOUS
  <2>3. CursorOK(t)'
    BY <2>1, <2>2, <1>1, <1>2, <1>3, <1>4, <1>9, Event0Typed
      DEF CursorOK, InOrder, Undisturbed
  <2>4. RebuildOK(t)'
    BY <2>1, <2>2, <1>1, <1>2, <1>3, <1>4, <1>9, Event0Typed
      DEF RebuildOK, Exclusive, RebuildPCs, Undisturbed
  <2> QED
    BY <2>3, <2>4
<1> QED
  BY <1>5, <1>8, <1>9, <1>10, OneMoves

LEMMA UpdateLastUsedPreserves ==
  ASSUME IInv, NEW t \in Threads, NEW a \in Accounts, UpdateLastUsed(t, a)
  PROVE  IInv'
<1> USE ConfigFields, ThreadFields DEF IInv, TypeOK
<1>1. /\ config' = config /\ db' \in Rows /\ accounts' \in Rows
      /\ active' \in [Buckets -> Snapshot \union {NoSnapshot}]
      /\ newer' \in [Buckets -> SUBSET (Threads \X Threads)]
      /\ registered' \subseteq config'.buckets
      /\ lock' \in [Buckets -> Threads \union {NoThread}]
  BY DEF UpdateLastUsed, At, Called, cache, bounds
<1>2. /\ outbox' \in Seq(Event) /\ Len(outbox) <= Len(outbox')
      /\ watermark' \in 0..Len(outbox')
      /\ handled' \subseteq 1..Len(outbox') /\ handled \subseteq handled'
  BY DEF UpdateLastUsed, At, Called, cache, bounds
<1>3. /\ changes' \in 0..config'.changes /\ changes' \in Nat /\ changes <= changes'
      /\ disturbances' \in 0..config'.disturbances
  BY DEF UpdateLastUsed, At, Called, cache, bounds
<1>4. overrun' \in BOOLEAN /\ (overrun => overrun')
  BY DEF UpdateLastUsed, At, Called, cache, bounds
<1>5. Shared'
  BY <1>1, <1>2, <1>3 DEF UpdateLastUsed, At, Called, cache, bounds, Shared, InOrder,
    NothingSkipped, Snapshot
<1>6. PICK e \in Event :
        /\ e.committed
        /\ th' = [th EXCEPT ![t] = [th[t] EXCEPT !.pc = "enqueue", !.event = e]]
  BY Event0Typed DEF Event, UpdateLastUsed, At, Called
<1>7. th' \in [Threads -> Thread] /\ \A u \in Threads \ {t} : th'[u] = th[u]
  <2>1. th[t] \in Thread
    OBVIOUS
  <2>2. [th[t] EXCEPT !.pc = "enqueue", !.event = e] \in Thread
    BY <2>1 DEF Thread, PCs, RebuildPCs
  <2> QED
    BY <1>6, <2>2
<1>8. TypeOK'
  BY <1>1, <1>2, <1>3, <1>4, <1>7
<1>9. Undisturbed(Threads \ {t})
  BY <1>1, <1>2, <1>3, <1>4, <1>7 DEF Undisturbed, UpdateLastUsed, At, Called, cache, bounds
<1>10. CursorOK(t)' /\ RebuildOK(t)'
  <2>1. /\ th'[t].pc = "enqueue" /\ th'[t].todo = th[t].todo
       /\ th'[t].bucket = th[t].bucket /\ th'[t].got = th[t].got
       /\ th'[t].from = th[t].from /\ th'[t].batch = th[t].batch
       /\ th'[t].event = e
    BY <1>6 DEF Thread
  <2>2. CursorOK(t) /\ RebuildOK(t)
    OBVIOUS
  <2>3. CursorOK(t)'
    BY <2>1, <2>2, <1>1, <1>2, <1>3, <1>4, <1>9, <1>6 DEF CursorOK, InOrder, Undisturbed
  <2>4. RebuildOK(t)'
    BY <2>1, <2>2, <1>1, <1>2, <1>3, <1>4, <1>9, <1>6
      DEF RebuildOK, Exclusive, RebuildPCs, Undisturbed
  <2> QED
    BY <2>3, <2>4
<1> QED
  BY <1>5, <1>8, <1>9, <1>10, OneMoves

LEMMA CrossQuotaPreserves ==
  ASSUME IInv, NEW t \in Threads, NEW a \in Accounts, CrossQuota(t, a)
  PROVE  IInv'
<1> USE ConfigFields, ThreadFields DEF IInv, TypeOK
<1>1. /\ config' = config /\ db' \in Rows /\ accounts' \in Rows
      /\ active' \in [Buckets -> Snapshot \union {NoSnapshot}]
      /\ newer' \in [Buckets -> SUBSET (Threads \X Threads)]
      /\ registered' \subseteq config'.buckets
      /\ lock' \in [Buckets -> Threads \union {NoThread}]
  BY DEF CrossQuota, At, Called, cache, bounds
<1>2. /\ outbox' \in Seq(Event) /\ Len(outbox) <= Len(outbox')
      /\ watermark' \in 0..Len(outbox')
      /\ handled' \subseteq 1..Len(outbox') /\ handled \subseteq handled'
  <2> DEFINE e == [Event0 EXCEPT !.kind = "account", !.account = a, !.committed = FALSE]
  <2>1. outbox' = Enqueued(e) /\ UNCHANGED <<watermark, handled>>
    BY DEF CrossQuota, bounds
  <2>2. e \in Event
    BY Event0Typed DEF Event
  <2> HIDE DEF e
  <2>3. outbox' \in Seq(Event) /\ Len(outbox) <= Len(outbox')
    BY <2>1, <2>2, EnqueuedProperties
  <2>4. Len(outbox) \in Nat /\ Len(outbox') \in Nat
    BY <2>3
  <2> QED
    BY <2>1, <2>3, <2>4
<1>3. /\ changes' \in 0..config'.changes /\ changes' \in Nat /\ changes <= changes'
      /\ disturbances' \in 0..config'.disturbances
  BY DEF CrossQuota, At, Called, cache, bounds
<1>4. overrun' \in BOOLEAN /\ (overrun => overrun')
  BY DEF CrossQuota, At, Called, cache, bounds
<1>5. Shared'
  <2>1. ~InOrder' /\ UNCHANGED active
    BY DEF CrossQuota, Called, InOrder, bounds, cache
  <2> QED
    BY <2>1, <1>3 DEF Shared, Snapshot
<1>6. PICK e \in Event, n \in 0..Len(outbox') :
        /\ outbox' = Enqueued(e)
        /\ th' = [th EXCEPT ![t] = [th[t] EXCEPT !.pc = "commit",
                                                 !.event = e,
                                                 !.from = n]]
  <2> DEFINE ev == [Event0 EXCEPT !.kind = "account", !.account = a, !.committed = FALSE]
  <2>1. ev \in Event
    BY Event0Typed DEF Event
  <2>2. /\ outbox' = Enqueued(ev)
        /\ th' = [th EXCEPT ![t].pc = "commit", ![t].event = ev,
                            ![t].from = IF Duplicate(ev) THEN 0 ELSE Len(outbox')]
    BY DEF CrossQuota
  <2>3. (IF Duplicate(ev) THEN 0 ELSE Len(outbox')) \in 0..Len(outbox')
    BY <1>2
  <2> QED
    BY <2>1, <2>2, <2>3
<1>7. th' \in [Threads -> Thread] /\ \A u \in Threads \ {t} : th'[u] = th[u]
  <2>1. th[t] \in Thread /\ n \in Nat
    BY <1>2
  <2>2. [th[t] EXCEPT !.pc = "commit", !.event = e, !.from = n] \in Thread
    BY <2>1 DEF Thread, PCs
  <2> QED
    BY <1>6, <2>2
<1>8. TypeOK'
  BY <1>1, <1>2, <1>3, <1>4, <1>7
<1>9. Undisturbed(Threads \ {t})
  BY <1>1, <1>2, <1>3, <1>4, <1>7 DEF Undisturbed, CrossQuota, At, Called, cache, bounds
<1>10. CursorOK(t)' /\ RebuildOK(t)'
  <2>1. /\ th'[t].pc = "commit" /\ th'[t].todo = th[t].todo
       /\ th'[t].bucket = th[t].bucket /\ th'[t].got = th[t].got
       /\ th'[t].from = n /\ th'[t].batch = th[t].batch /\ th'[t].event = e
    BY <1>6 DEF Thread
  <2>2. CursorOK(t) /\ RebuildOK(t)
    OBVIOUS
  <2>3. CursorOK(t)'
    BY <2>1, <2>2, <1>1, <1>2, <1>3, <1>4, <1>9, <1>6
      DEF CursorOK, InOrder, Undisturbed, CrossQuota, Called
  <2>4. RebuildOK(t)'
    BY <2>1, <2>2, <1>1, <1>2, <1>3, <1>4, <1>9, <1>6
      DEF RebuildOK, Exclusive, RebuildPCs, Undisturbed
  <2> QED
    BY <2>3, <2>4
<1> QED
  BY <1>5, <1>8, <1>9, <1>10, OneMoves

LEMMA EnqueuePreserves ==
  ASSUME IInv, NEW t \in Threads, Enqueue(t)
  PROVE  IInv'
<1> USE ConfigFields, ThreadFields DEF IInv, TypeOK
<1>1. /\ config' = config /\ db' \in Rows /\ accounts' \in Rows
      /\ active' \in [Buckets -> Snapshot \union {NoSnapshot}]
      /\ newer' \in [Buckets -> SUBSET (Threads \X Threads)]
      /\ registered' \subseteq config'.buckets
      /\ lock' \in [Buckets -> Threads \union {NoThread}]
  BY DEF Enqueue, At, AfterEnqueue, cache, bounds
<1>2. /\ outbox' \in Seq(Event) /\ Len(outbox) <= Len(outbox')
      /\ watermark' \in 0..Len(outbox')
      /\ handled' \subseteq 1..Len(outbox') /\ handled \subseteq handled'
  <2>1. outbox' = Enqueued(th[t].event) /\ UNCHANGED <<watermark, handled>>
    BY DEF Enqueue, bounds
  <2>2. outbox' \in Seq(Event) /\ Len(outbox) <= Len(outbox')
    BY <2>1, EnqueuedProperties
  <2>3. Len(outbox) \in Nat /\ Len(outbox') \in Nat
    BY <2>2
  <2> QED
    BY <2>1, <2>2, <2>3
<1>3. /\ changes' \in 0..config'.changes /\ changes' \in Nat /\ changes <= changes'
      /\ disturbances' \in 0..config'.disturbances
  BY DEF Enqueue, At, AfterEnqueue, cache, bounds
<1>4. overrun' \in BOOLEAN /\ (overrun => overrun')
  BY DEF Enqueue, At, AfterEnqueue, cache, bounds
<1>5. Shared'
  <2>1. outbox' = Enqueued(th[t].event) /\ UNCHANGED <<config, watermark, handled, active, changes>>
    BY DEF Enqueue, bounds, cache
  <2>2. /\ \A i \in 1..Len(outbox) : outbox'[i] = outbox[i]
        /\ \A i \in 1..Len(outbox') : i \in 1..Len(outbox) \/ outbox'[i] = th[t].event
    BY <2>1, EnqueuedProperties
  <2>3. InOrder => th[t].event.committed
    BY DEF CursorOK
  <2>4. InOrder => 1..watermark \subseteq handled
    BY DEF Shared, NothingSkipped
  <2>5. InOrder' => NothingSkipped'
    BY <2>1, <2>4 DEF InOrder, NothingSkipped
  <2>6. InOrder' => \A i \in 1..Len(outbox') : outbox'[i].committed
    BY <2>1, <2>2, <2>3 DEF Shared, InOrder
  <2> QED
    BY <2>1, <2>5, <2>6 DEF Shared
<1>6. \/ th' = [th EXCEPT ![t] = Idle]
      \/ th' = [th EXCEPT ![t] = [th[t] EXCEPT !.pc = "syncRead"]]
  BY DEF Enqueue, At, AfterEnqueue
<1>7. th' \in [Threads -> Thread] /\ \A u \in Threads \ {t} : th'[u] = th[u]
  <2>1. CASE th' = [th EXCEPT ![t] = Idle]
    BY <2>1, IdleTyped
  <2>2. CASE th' = [th EXCEPT ![t] = [th[t] EXCEPT !.pc = "syncRead"]]
    <3>1. th[t] \in Thread
      OBVIOUS
    <3>2. [th[t] EXCEPT !.pc = "syncRead"] \in Thread
      BY <3>1 DEF Thread, PCs, RebuildPCs
    <3> QED
      BY <2>2, <3>2
  <2> QED
    BY <1>6, <2>1, <2>2
<1>8. TypeOK'
  BY <1>1, <1>2, <1>3, <1>4, <1>7
<1>9. Undisturbed(Threads \ {t})
  BY <1>1, <1>2, <1>3, <1>4, <1>7 DEF Undisturbed, Enqueue, At, AfterEnqueue, cache, bounds
<1>10. CursorOK(t)' /\ RebuildOK(t)'
  <2>1. CASE th' = [th EXCEPT ![t] = Idle]
    BY <2>1, <1>1, <1>2, <1>3, Returned
  <2>2. CASE th' = [th EXCEPT ![t] = [th[t] EXCEPT !.pc = "syncRead"]]
    <3>1. /\ th'[t].pc = "syncRead" /\ th'[t].todo = th[t].todo
         /\ th'[t].bucket = th[t].bucket /\ th'[t].got = th[t].got
         /\ th'[t].from = th[t].from /\ th'[t].batch = th[t].batch
         /\ th'[t].event = th[t].event
      BY <2>2 DEF Thread
    <3>2. CursorOK(t) /\ RebuildOK(t)
      OBVIOUS
    <3>3. CursorOK(t)'
      BY <3>1, <3>2, <1>1, <1>2, <1>3, <1>4, <1>9 DEF CursorOK, InOrder, Undisturbed
    <3>4. RebuildOK(t)'
      BY <3>1, <3>2, <1>1, <1>2, <1>3, <1>4, <1>9
        DEF RebuildOK, Exclusive, RebuildPCs, Undisturbed
    <3> QED
      BY <3>3, <3>4
  <2> QED
    BY <1>6, <2>1, <2>2
<1> QED
  BY <1>5, <1>8, <1>9, <1>10, OneMoves

LEMMA EnqueueFailsPreserves ==
  ASSUME IInv, NEW t \in Threads, EnqueueFails(t)
  PROVE  IInv'
<1> USE ConfigFields, ThreadFields DEF IInv, TypeOK
<1>1. /\ UNCHANGED <<db, outbox, cache, lock, watermark, changes, config, handled, overrun>>
      /\ disturbances' \in 0..config.disturbances /\ changes' \in Nat
  BY DEF EnqueueFails, At, AfterEnqueue, Disturb, cache, bounds
<1>2. \/ th' = [th EXCEPT ![t] = Idle]
      \/ th' = [th EXCEPT ![t] = [th[t] EXCEPT !.pc = "syncRead"]]
  BY DEF EnqueueFails, At, AfterEnqueue, Disturb
<1>3. th' \in [Threads -> Thread] /\ \A u \in Threads \ {t} : th'[u] = th[u]
  <2>1. CASE th' = [th EXCEPT ![t] = Idle]
    BY <2>1, IdleTyped
  <2>2. CASE th' = [th EXCEPT ![t] = [th[t] EXCEPT !.pc = "syncRead"]]
    <3>1. th[t] \in Thread
      OBVIOUS
    <3>2. [th[t] EXCEPT !.pc = "syncRead"] \in Thread
      BY <3>1 DEF Thread, PCs, RebuildPCs
    <3> QED
      BY <2>2, <3>2
  <2> QED
    BY <1>2, <2>1, <2>2
<1>4. CursorOK(t)' /\ RebuildOK(t)'
  <2>1. CASE th' = [th EXCEPT ![t] = Idle]
    BY <2>1, <1>1, Returned
  <2>2. CASE th' = [th EXCEPT ![t] = [th[t] EXCEPT !.pc = "syncRead"]]
    <3>1. /\ th'[t].pc = "syncRead" /\ th'[t].todo = th[t].todo
         /\ th'[t].bucket = th[t].bucket /\ th'[t].got = th[t].got
         /\ th'[t].from = th[t].from /\ th'[t].batch = th[t].batch
         /\ th'[t].event = th[t].event
      BY <2>2 DEF Thread
    <3>2. CursorOK(t) /\ RebuildOK(t)
      OBVIOUS
    <3>3. CursorOK(t)'
      BY <3>1, <3>2, <1>1 DEF CursorOK, InOrder, cache
    <3>4. RebuildOK(t)'
      BY <3>1, <3>2, <1>1 DEF RebuildOK, Exclusive, RebuildPCs, cache
    <3> QED
      BY <3>3, <3>4
  <2> QED
    BY <1>2, <2>1, <2>2
<1> QED
  BY <1>1, <1>3, <1>4, OnlyMoves

LEMMA CommitPreserves ==
  ASSUME IInv, NEW t \in Threads, Commit(t)
  PROVE  IInv'
<1> USE ConfigFields, ThreadFields DEF IInv, TypeOK
<1>1. /\ config' = config /\ db' \in Rows /\ accounts' \in Rows
      /\ active' \in [Buckets -> Snapshot \union {NoSnapshot}]
      /\ newer' \in [Buckets -> SUBSET (Threads \X Threads)]
      /\ registered' \subseteq config'.buckets
      /\ lock' \in [Buckets -> Threads \union {NoThread}]
  <2>1. db' \in Rows
    BY RowsChange DEF Commit
  <2> QED
    BY <2>1 DEF Commit, cache, bounds
<1>2. /\ outbox' \in Seq(Event) /\ Len(outbox) <= Len(outbox')
      /\ watermark' \in 0..Len(outbox')
      /\ handled' \subseteq 1..Len(outbox') /\ handled \subseteq handled'
  <2>1. th[t].from \in 0..Len(outbox)
    BY DEF CursorOK
  <2>2. CASE th[t].from = 0
    BY <2>2 DEF Commit, bounds
  <2>3. CASE th[t].from # 0
    <3> DEFINE e == [outbox[th[t].from] EXCEPT !.committed = TRUE]
    <3>1. th[t].from \in 1..Len(outbox) /\ outbox[th[t].from] \in Event
      BY <2>1, <2>3
    <3>2. e \in Event
      BY <3>1 DEF Event
    <3>3. outbox' = [outbox EXCEPT ![th[t].from] = e]
      BY <2>3, <3>1 DEF Commit
    <3> HIDE DEF e
    <3>4. outbox' \in Seq(Event) /\ Len(outbox') = Len(outbox)
      BY <3>1, <3>2, <3>3, ExceptSeq
    <3> QED
      BY <3>4 DEF Commit, bounds
  <2> QED
    BY <2>2, <2>3
<1>3. /\ changes' \in 0..config'.changes /\ changes' \in Nat /\ changes <= changes'
      /\ disturbances' \in 0..config'.disturbances
  BY DEF Commit, At, cache, bounds
<1>4. overrun' \in BOOLEAN /\ (overrun => overrun')
  BY DEF Commit, At, cache, bounds
<1>5. Shared'
  <2>1. \A i \in 1..Len(outbox) : outbox[i].committed => outbox'[i].committed
    BY DEF Commit, Event
  <2>2. Len(outbox') = Len(outbox)
    BY DEF Commit
  <2>3. UNCHANGED <<config, active, changes, watermark, handled>>
    BY DEF Commit, cache, bounds
  <2>4. InOrder => 1..watermark \subseteq handled
    BY DEF Shared, NothingSkipped
  <2> QED
    BY <2>1, <2>2, <2>3, <2>4 DEF Shared, InOrder, NothingSkipped
<1>6. th' = [th EXCEPT ![t] = Idle]
  BY DEF Commit, At
<1>7. th' \in [Threads -> Thread] /\ \A u \in Threads \ {t} : th'[u] = th[u]
  BY <1>6, IdleTyped
<1>8. TypeOK'
  BY <1>1, <1>2, <1>3, <1>4, <1>7
<1>9. Undisturbed(Threads \ {t})
  BY <1>1, <1>2, <1>3, <1>4, <1>7 DEF Undisturbed, Commit, At, cache, bounds
<1>10. CursorOK(t)' /\ RebuildOK(t)'
  BY <1>6, <1>1, <1>2, <1>3, Returned
<1> QED
  BY <1>5, <1>8, <1>9, <1>10, OneMoves

LEMMA SyncReadPreserves ==
  ASSUME IInv, NEW t \in Threads, SyncRead(t)
  PROVE  IInv'
<1> USE ConfigFields, ThreadFields DEF IInv, TypeOK
<1>1. /\ UNCHANGED <<db, outbox, cache, lock, watermark, changes, config, handled, overrun>>
      /\ disturbances' \in 0..config.disturbances /\ changes' \in Nat
  BY DEF SyncRead, At, cache, bounds
<1>2. \/ th' = [th EXCEPT ![t] = Idle]
      \/ th' = [th EXCEPT ![t] = [th[t] EXCEPT !.pc = "syncWrite",
                                               !.row = db[th[t].event.account]]]
  BY DEF SyncRead, At
<1>3. th' \in [Threads -> Thread] /\ \A u \in Threads \ {t} : th'[u] = th[u]
  <2>1. CASE th' = [th EXCEPT ![t] = Idle]
    BY <2>1, IdleTyped
  <2>2. CASE th' = [th EXCEPT ![t] = [th[t] EXCEPT !.pc = "syncWrite",
                                                   !.row = db[th[t].event.account]]]
    <3>1. th[t] \in Thread
      OBVIOUS
    <3>2. [th[t] EXCEPT !.pc = "syncWrite", !.row = db[th[t].event.account]] \in Thread
      BY <3>1 DEF Thread, PCs, RebuildPCs, Rows
    <3> QED
      BY <2>2, <3>2
  <2> QED
    BY <1>2, <2>1, <2>2
<1>4. CursorOK(t)' /\ RebuildOK(t)'
  <2>1. CASE th' = [th EXCEPT ![t] = Idle]
    BY <2>1, <1>1, Returned
  <2>2. CASE th' = [th EXCEPT ![t] = [th[t] EXCEPT !.pc = "syncWrite",
                                                   !.row = db[th[t].event.account]]]
    <3>1. /\ th'[t].pc = "syncWrite" /\ th'[t].todo = th[t].todo
         /\ th'[t].bucket = th[t].bucket /\ th'[t].got = th[t].got
         /\ th'[t].from = th[t].from /\ th'[t].batch = th[t].batch
         /\ th'[t].event = th[t].event
      BY <2>2 DEF Thread
    <3>2. CursorOK(t) /\ RebuildOK(t)
      OBVIOUS
    <3>3. CursorOK(t)'
      BY <3>1, <3>2, <1>1 DEF CursorOK, InOrder, cache
    <3>4. RebuildOK(t)'
      BY <3>1, <3>2, <1>1 DEF RebuildOK, Exclusive, RebuildPCs, cache
    <3> QED
      BY <3>3, <3>4
  <2> QED
    BY <1>2, <2>1, <2>2
<1> QED
  BY <1>1, <1>3, <1>4, OnlyMoves

LEMMA SyncWritePreserves ==
  ASSUME IInv, NEW t \in Threads, SyncWrite(t)
  PROVE  IInv'
<1> USE ConfigFields, ThreadFields DEF IInv, TypeOK
<1>1. /\ config' = config /\ db' \in Rows /\ accounts' \in Rows
      /\ active' \in [Buckets -> Snapshot \union {NoSnapshot}]
      /\ newer' \in [Buckets -> SUBSET (Threads \X Threads)]
      /\ registered' \subseteq config'.buckets
      /\ lock' \in [Buckets -> Threads \union {NoThread}]
  BY DEF SyncWrite, bounds, Rows
<1>2. /\ outbox' \in Seq(Event) /\ Len(outbox) <= Len(outbox')
      /\ watermark' \in 0..Len(outbox')
      /\ handled' \subseteq 1..Len(outbox') /\ handled \subseteq handled'
  BY DEF SyncWrite, At, cache, bounds
<1>3. /\ changes' \in 0..config'.changes /\ changes' \in Nat /\ changes <= changes'
      /\ disturbances' \in 0..config'.disturbances
  BY DEF SyncWrite, At, cache, bounds
<1>4. overrun' \in BOOLEAN /\ (overrun => overrun')
  BY DEF SyncWrite, At, cache, bounds
<1>5. Shared'
  BY <1>1, <1>2, <1>3 DEF SyncWrite, At, cache, bounds, Shared, InOrder, NothingSkipped,
    Snapshot
<1>6. th' = [th EXCEPT ![t] = Idle]
  BY DEF SyncWrite, At
<1>7. th' \in [Threads -> Thread] /\ \A u \in Threads \ {t} : th'[u] = th[u]
  BY <1>6, IdleTyped
<1>8. TypeOK'
  BY <1>1, <1>2, <1>3, <1>4, <1>7
<1>9. Undisturbed(Threads \ {t})
  BY <1>1, <1>2, <1>3, <1>4, <1>7 DEF Undisturbed, SyncWrite, At, cache, bounds
<1>10. CursorOK(t)' /\ RebuildOK(t)'
  BY <1>6, <1>1, <1>2, <1>3, Returned
<1> QED
  BY <1>5, <1>8, <1>9, <1>10, OneMoves

LEMMA SyncFailsPreserves ==
  ASSUME IInv, NEW t \in Threads, SyncFails(t)
  PROVE  IInv'
<1> USE ConfigFields, ThreadFields DEF IInv, TypeOK
<1>1. /\ UNCHANGED <<db, outbox, cache, lock, watermark, changes, config, handled, overrun>>
      /\ disturbances' \in 0..config.disturbances /\ changes' \in Nat
  BY DEF SyncFails, At, Disturb, cache, bounds
<1>2. th' = [th EXCEPT ![t] = Idle]
  BY DEF SyncFails, At, Disturb
<1>3. th' \in [Threads -> Thread] /\ \A u \in Threads \ {t} : th'[u] = th[u]
  BY <1>2, IdleTyped
<1>4. CursorOK(t)' /\ RebuildOK(t)'
  BY <1>2, <1>1, Returned
<1> QED
  BY <1>1, <1>3, <1>4, OnlyMoves

LEMMA RebuildDonePreserves ==
  ASSUME IInv, NEW t \in Threads, RebuildDone(t)
  PROVE  IInv'
<1> USE ConfigFields, ThreadFields DEF IInv, TypeOK
<1>0. th[t].batch # {} => First(t) \in th[t].batch /\ First(t) \in 1..Len(outbox) /\ First(t) \in Nat
  BY MinProperties DEF First, CursorOK
<1>1. /\ config' = config /\ db' \in Rows /\ accounts' \in Rows
      /\ active' \in [Buckets -> Snapshot \union {NoSnapshot}]
      /\ newer' \in [Buckets -> SUBSET (Threads \X Threads)]
      /\ registered' \subseteq config'.buckets
      /\ lock' \in [Buckets -> Threads \union {NoThread}]
  BY DEF RebuildDone, At, NextEvent, cache, bounds
<1>2. /\ outbox' \in Seq(Event) /\ Len(outbox) <= Len(outbox')
      /\ watermark' \in 0..Len(outbox')
      /\ handled' \subseteq 1..Len(outbox') /\ handled \subseteq handled'
  <2>1. handled' = handled \/ (th[t].batch # {} /\ handled' = handled \union {First(t)})
    BY DEF RebuildDone
  <2>2. UNCHANGED <<outbox, watermark>>
    BY DEF RebuildDone
  <2>3. handled' \subseteq 1..Len(outbox) /\ handled \subseteq handled'
    BY <1>0, <2>1
  <2> QED
    BY <2>2, <2>3
<1>3. /\ changes' \in 0..config'.changes /\ changes' \in Nat /\ changes <= changes'
      /\ disturbances' \in 0..config'.disturbances
  BY DEF RebuildDone, At, NextEvent, cache, bounds
<1>4. overrun' \in BOOLEAN /\ (overrun => overrun')
  BY DEF RebuildDone, At, NextEvent, cache, bounds
<1>5. Shared'
  BY <1>1, <1>2, <1>3 DEF RebuildDone, At, NextEvent, cache, bounds, Shared, InOrder,
    NothingSkipped, Snapshot
<1>6. \/ th' = [th EXCEPT ![t] = Idle]
      \/ /\ th[t].batch = {First(t)} /\ handled' = handled \union {First(t)}
         /\ th' = [th EXCEPT ![t] = [th[t] EXCEPT !.pc = "advance",
                                                  !.from = First(t),
                                                  !.batch = {},
                                                  !.event = Event0,
                                                  !.seen = {}]]
      \/ /\ th[t].batch \notin {{}, {First(t)}} /\ handled' = handled \union {First(t)}
         /\ th' = [th EXCEPT ![t] = [th[t] EXCEPT !.pc = "event",
                                                  !.batch = th[t].batch \ {First(t)},
                                                  !.event = Event0]]
  BY DEF RebuildDone, At, NextEvent
<1>7. th' \in [Threads -> Thread] /\ \A u \in Threads \ {t} : th'[u] = th[u]
  <2>1. CASE th' = [th EXCEPT ![t] = Idle]
    BY <2>1, IdleTyped
  <2>2. CASE /\ th[t].batch = {First(t)} /\ handled' = handled \union {First(t)}
             /\ th' = [th EXCEPT ![t] = [th[t] EXCEPT !.pc = "advance",
                                                      !.from = First(t),
                                                      !.batch = {},
                                                      !.event = Event0,
                                                      !.seen = {}]]
    <3>1. th[t] \in Thread
      OBVIOUS
    <3>2. [th[t] EXCEPT !.pc = "advance",
                       !.from = First(t),
                       !.batch = {},
                       !.event = Event0,
                       !.seen = {}] \in Thread
      BY <3>1, Event0Typed, <1>0, <2>2 DEF Thread, PCs, RebuildPCs
    <3> QED
      BY <2>2, <3>2
  <2>3. CASE /\ th[t].batch \notin {{}, {First(t)}} /\ handled' = handled \union {First(t)}
             /\ th' = [th EXCEPT ![t] = [th[t] EXCEPT !.pc = "event",
                                                      !.batch = th[t].batch \ {First(t)},
                                                      !.event = Event0]]
    <3>1. th[t] \in Thread
      OBVIOUS
    <3>2. [th[t] EXCEPT !.pc = "event",
                       !.batch = th[t].batch \ {First(t)},
                       !.event = Event0] \in Thread
      BY <3>1, Event0Typed, <1>0 DEF Thread, PCs, RebuildPCs
    <3> QED
      BY <2>3, <3>2
  <2> QED
    BY <1>6, <2>1, <2>2, <2>3
<1>8. TypeOK'
  BY <1>1, <1>2, <1>3, <1>4, <1>7
<1>9. Undisturbed(Threads \ {t})
  BY <1>1, <1>2, <1>3, <1>4, <1>7 DEF Undisturbed, RebuildDone, At, NextEvent, cache, bounds
<1>10. CursorOK(t)' /\ RebuildOK(t)'
  <2>1. CASE th' = [th EXCEPT ![t] = Idle]
    BY <2>1, <1>1, <1>2, <1>3, Returned
  <2>2. CASE /\ th[t].batch = {First(t)} /\ handled' = handled \union {First(t)}
             /\ th' = [th EXCEPT ![t] = [th[t] EXCEPT !.pc = "advance",
                                                      !.from = First(t),
                                                      !.batch = {},
                                                      !.event = Event0,
                                                      !.seen = {}]]
    <3>1. /\ th'[t].pc = "advance" /\ th'[t].todo = th[t].todo
         /\ th'[t].bucket = th[t].bucket /\ th'[t].got = th[t].got
         /\ th'[t].from = First(t) /\ th'[t].batch = {} /\ th'[t].event = Event0
      BY <2>2 DEF Thread
    <3>2. CursorOK(t) /\ RebuildOK(t)
      OBVIOUS
    <3>3. CursorOK(t)'
      BY <3>1, <3>2, <1>1, <1>2, <1>3, <1>4, <1>9, Event0Typed, <1>0, <2>2
        DEF CursorOK, InOrder, Undisturbed
    <3>4. RebuildOK(t)'
      BY <3>1, <3>2, <1>1, <1>2, <1>3, <1>4, <1>9, Event0Typed
        DEF RebuildOK, Exclusive, RebuildPCs, Undisturbed
    <3> QED
      BY <3>3, <3>4
  <2>3. CASE /\ th[t].batch \notin {{}, {First(t)}} /\ handled' = handled \union {First(t)}
             /\ th' = [th EXCEPT ![t] = [th[t] EXCEPT !.pc = "event",
                                                      !.batch = th[t].batch \ {First(t)},
                                                      !.event = Event0]]
    <3>1. /\ th'[t].pc = "event" /\ th'[t].todo = th[t].todo
         /\ th'[t].bucket = th[t].bucket /\ th'[t].got = th[t].got
         /\ th'[t].from = th[t].from /\ th'[t].batch = th[t].batch \ {First(t)}
         /\ th'[t].event = Event0
      BY <2>3 DEF Thread
    <3>2. CursorOK(t) /\ RebuildOK(t)
      OBVIOUS
    <3>3. CursorOK(t)'
      <4>1. th'[t].batch \subseteq 1..Len(outbox) /\ th'[t].batch # {}
        BY <1>0, <2>3, <3>1, <3>2 DEF CursorOK
      <4>2. ASSUME InOrder, NEW j \in th'[t].batch
            PROVE  1..j \subseteq handled' \union th'[t].batch
        <5>1. 1..j \subseteq handled \union th[t].batch
          BY <3>1, <3>2, <4>2 DEF CursorOK
        <5> QED
          BY <2>3, <3>1, <5>1
      <4>3. UNCHANGED <<config, outbox>>
        BY DEF RebuildDone
      <4> QED
        BY <3>1, <3>2, <4>1, <4>2, <4>3, Event0Typed DEF CursorOK, InOrder
    <3>4. RebuildOK(t)'
      BY <3>1, <3>2, <1>1, <1>2, <1>3, <1>4, <1>9, Event0Typed
        DEF RebuildOK, Exclusive, RebuildPCs, Undisturbed
    <3> QED
      BY <3>3, <3>4
  <2> QED
    BY <1>6, <2>1, <2>2, <2>3
<1> QED
  BY <1>5, <1>8, <1>9, <1>10, OneMoves

LEMMA TryLockBucketPreserves ==
  ASSUME IInv, NEW t \in Threads, NEW b \in Buckets, TryLockBucket(t, b)
  PROVE  IInv'
<1> USE ConfigFields, ThreadFields DEF IInv, TypeOK
<1>1. /\ config' = config /\ db' \in Rows /\ accounts' \in Rows
      /\ active' \in [Buckets -> Snapshot \union {NoSnapshot}]
      /\ newer' \in [Buckets -> SUBSET (Threads \X Threads)]
      /\ registered' \subseteq config'.buckets
      /\ lock' \in [Buckets -> Threads \union {NoThread}]
  BY DEF TryLockBucket, At, SkipLocked, cache, bounds
<1>2. /\ outbox' \in Seq(Event) /\ Len(outbox) <= Len(outbox')
      /\ watermark' \in 0..Len(outbox')
      /\ handled' \subseteq 1..Len(outbox') /\ handled \subseteq handled'
  BY DEF TryLockBucket, At, SkipLocked, cache, bounds
<1>3. /\ changes' \in 0..config'.changes /\ changes' \in Nat /\ changes <= changes'
      /\ disturbances' \in 0..config'.disturbances
  BY DEF TryLockBucket, At, SkipLocked, cache, bounds
<1>4. overrun' \in BOOLEAN /\ (overrun => overrun')
  BY DEF TryLockBucket, At, SkipLocked, cache, bounds
<1>5. Shared'
  BY <1>1, <1>2, <1>3 DEF TryLockBucket, At, SkipLocked, cache, bounds, Shared, InOrder,
    NothingSkipped, Snapshot
<1>6. \/ th' = [th EXCEPT ![t] = [th[t] EXCEPT !.todo = th[t].todo \ {b}]]
      \/ /\ lock' = [lock EXCEPT ![b] = t]
         /\ th' = [th EXCEPT ![t] = [th[t] EXCEPT !.todo = th[t].todo \ {b},
                                                  !.pc = "load",
                                                  !.bucket = b]]
  BY DEF TryLockBucket
<1>7. th' \in [Threads -> Thread] /\ \A u \in Threads \ {t} : th'[u] = th[u]
  <2>1. CASE th' = [th EXCEPT ![t] = [th[t] EXCEPT !.todo = th[t].todo \ {b}]]
    <3>1. th[t] \in Thread
      OBVIOUS
    <3>2. [th[t] EXCEPT !.todo = th[t].todo \ {b}] \in Thread
      BY <3>1 DEF Thread, PCs, RebuildPCs
    <3> QED
      BY <2>1, <3>2
  <2>2. CASE /\ lock' = [lock EXCEPT ![b] = t]
             /\ th' = [th EXCEPT ![t] = [th[t] EXCEPT !.todo = th[t].todo \ {b},
                                                      !.pc = "load",
                                                      !.bucket = b]]
    <3>1. th[t] \in Thread
      OBVIOUS
    <3>2. [th[t] EXCEPT !.todo = th[t].todo \ {b}, !.pc = "load", !.bucket = b] \in Thread
      BY <3>1 DEF Thread, PCs, RebuildPCs
    <3> QED
      BY <2>2, <3>2
  <2> QED
    BY <1>6, <2>1, <2>2
<1>8. TypeOK'
  BY <1>1, <1>2, <1>3, <1>4, <1>7
<1>9. Undisturbed(Threads \ {t})
  <2>1. \A c \in Buckets : lock'[c] = lock[c] \/ (c = b /\ lock[b] = NoThread)
    BY DEF TryLockBucket, SkipLocked
  <2>2. \A u \in Threads : Exclusive /\ Rebuilding(u, b) => lock[b] # NoThread
    BY SchedulerAssumption DEF RebuildOK, Rebuilding
  <2> QED
    BY <1>1, <1>2, <1>3, <1>4, <1>7, <2>1, <2>2 DEF Undisturbed, TryLockBucket, cache
<1>10. CursorOK(t)' /\ RebuildOK(t)'
  <2>1. CASE th' = [th EXCEPT ![t] = [th[t] EXCEPT !.todo = th[t].todo \ {b}]]
    <3>1. /\ th'[t].pc = th[t].pc /\ th'[t].todo = th[t].todo \ {b}
         /\ th'[t].bucket = th[t].bucket /\ th'[t].got = th[t].got
         /\ th'[t].from = th[t].from /\ th'[t].batch = th[t].batch
         /\ th'[t].event = th[t].event
      BY <2>1 DEF Thread
    <3>2. CursorOK(t) /\ RebuildOK(t)
      OBVIOUS
    <3>3. CursorOK(t)'
      BY <3>1, <3>2, <1>1, <1>2, <1>3, <1>4, <1>9 DEF CursorOK, InOrder, Undisturbed
    <3>4. RebuildOK(t)'
      BY <3>1, <3>2, <1>1, <1>2, <1>3, <1>4, <1>9
        DEF RebuildOK, Exclusive, RebuildPCs, Undisturbed, TryLockBucket, At
    <3> QED
      BY <3>3, <3>4
  <2>2. CASE /\ lock' = [lock EXCEPT ![b] = t]
             /\ th' = [th EXCEPT ![t] = [th[t] EXCEPT !.todo = th[t].todo \ {b},
                                                      !.pc = "load",
                                                      !.bucket = b]]
    <3>1. /\ th'[t].pc = "load" /\ th'[t].todo = th[t].todo \ {b}
         /\ th'[t].bucket = b /\ th'[t].got = th[t].got /\ th'[t].from = th[t].from
         /\ th'[t].batch = th[t].batch /\ th'[t].event = th[t].event
      BY <2>2 DEF Thread
    <3>2. CursorOK(t) /\ RebuildOK(t)
      OBVIOUS
    <3>3. CursorOK(t)'
      BY <3>1, <3>2, <1>1, <1>2, <1>3, <1>4, <1>9 DEF CursorOK, InOrder, Undisturbed
    <3>4. RebuildOK(t)'
      BY <3>1, <3>2, <1>1, <1>2, <1>3, <1>4, <1>9, <2>2
        DEF RebuildOK, Exclusive, RebuildPCs, Undisturbed, TryLockBucket, At
    <3> QED
      BY <3>3, <3>4
  <2> QED
    BY <1>6, <2>1, <2>2
<1> QED
  BY <1>5, <1>8, <1>9, <1>10, OneMoves

LEMMA TryLockFailsPreserves ==
  ASSUME IInv, NEW t \in Threads, NEW b \in Buckets, TryLockFails(t, b)
  PROVE  IInv'
<1> USE ConfigFields, ThreadFields DEF IInv, TypeOK
<1>1. /\ UNCHANGED <<db, outbox, cache, lock, watermark, changes, config, handled, overrun>>
      /\ disturbances' \in 0..config.disturbances /\ changes' \in Nat
  BY DEF TryLockFails, At, Disturb, cache, bounds
<1>2. th' = [th EXCEPT ![t] = [th[t] EXCEPT !.todo = th[t].todo \ {b}, !.err = TRUE]]
  BY DEF TryLockFails, At, Disturb
<1>3. th' \in [Threads -> Thread] /\ \A u \in Threads \ {t} : th'[u] = th[u]
  <2>1. th[t] \in Thread
    OBVIOUS
  <2>2. [th[t] EXCEPT !.todo = th[t].todo \ {b}, !.err = TRUE] \in Thread
    BY <2>1 DEF Thread, PCs, RebuildPCs
  <2> QED
    BY <1>2, <2>2
<1>4. CursorOK(t)' /\ RebuildOK(t)'
  <2>1. /\ th'[t].pc = th[t].pc /\ th'[t].todo = th[t].todo \ {b}
       /\ th'[t].bucket = th[t].bucket /\ th'[t].got = th[t].got
       /\ th'[t].from = th[t].from /\ th'[t].batch = th[t].batch
       /\ th'[t].event = th[t].event
    BY <1>2 DEF Thread
  <2>2. CursorOK(t) /\ RebuildOK(t)
    OBVIOUS
  <2>3. CursorOK(t)'
    BY <2>1, <2>2, <1>1 DEF CursorOK, InOrder, cache
  <2>4. RebuildOK(t)'
    BY <2>1, <2>2, <1>1 DEF RebuildOK, Exclusive, RebuildPCs, cache
  <2> QED
    BY <2>3, <2>4
<1> QED
  BY <1>1, <1>3, <1>4, OnlyMoves

LEMMA LoadPreserves ==
  ASSUME IInv, NEW t \in Threads, Load(t)
  PROVE  IInv'
<1> USE ConfigFields, ThreadFields DEF IInv, TypeOK
<1>1. /\ UNCHANGED <<db, outbox, cache, lock, watermark, changes, config, handled, overrun>>
      /\ disturbances' \in 0..config.disturbances /\ changes' \in Nat
  BY DEF Load, At, cache, bounds
<1>2. th' = [th EXCEPT ![t] = [th[t] EXCEPT !.pc = "incr",
                                            !.got = Loaded(th[t].bucket)]]
  BY DEF Load, At
<1>3. th' \in [Threads -> Thread] /\ \A u \in Threads \ {t} : th'[u] = th[u]
  <2>1. th[t] \in Thread
    OBVIOUS
  <2>2. [th[t] EXCEPT !.pc = "incr", !.got = Loaded(th[t].bucket)] \in Thread
    BY <2>1, LoadedTyped DEF Thread, PCs, RebuildPCs
  <2> QED
    BY <1>2, <2>2
<1>4. CursorOK(t)' /\ RebuildOK(t)'
  <2>1. /\ th'[t].pc = "incr" /\ th'[t].todo = th[t].todo
       /\ th'[t].bucket = th[t].bucket /\ th'[t].got = Loaded(th[t].bucket)
       /\ th'[t].from = th[t].from /\ th'[t].batch = th[t].batch
       /\ th'[t].event = th[t].event
    BY <1>2 DEF Thread
  <2>2. CursorOK(t) /\ RebuildOK(t)
    OBVIOUS
  <2>3. CursorOK(t)'
    BY <2>1, <2>2, <1>1 DEF CursorOK, InOrder, cache
  <2>4. RebuildOK(t)'
    BY <2>1, <2>2, <1>1, LoadedTyped
      DEF RebuildOK, Exclusive, RebuildPCs, cache, Load, At, Shared
  <2> QED
    BY <2>3, <2>4
<1> QED
  BY <1>1, <1>3, <1>4, OnlyMoves

LEMMA IncrPreserves ==
  ASSUME IInv, NEW t \in Threads, Incr(t)
  PROVE  IInv'
<1> USE ConfigFields, ThreadFields DEF IInv, TypeOK
<1>1. /\ config' = config /\ db' \in Rows /\ accounts' \in Rows
      /\ active' \in [Buckets -> Snapshot \union {NoSnapshot}]
      /\ newer' \in [Buckets -> SUBSET (Threads \X Threads)]
      /\ registered' \subseteq config'.buckets
      /\ lock' \in [Buckets -> Threads \union {NoThread}]
  <2>1. newer' \in [Buckets -> SUBSET (Threads \X Threads)]
    BY DEF Incr, Above
  <2> QED
    BY <2>1 DEF Incr, bounds
<1>2. /\ outbox' \in Seq(Event) /\ Len(outbox) <= Len(outbox')
      /\ watermark' \in 0..Len(outbox')
      /\ handled' \subseteq 1..Len(outbox') /\ handled \subseteq handled'
  BY DEF Incr, At, cache, bounds
<1>3. /\ changes' \in 0..config'.changes /\ changes' \in Nat /\ changes <= changes'
      /\ disturbances' \in 0..config'.disturbances
  BY DEF Incr, At, cache, bounds
<1>4. overrun' \in BOOLEAN /\ (overrun => overrun')
  BY DEF Incr, At, cache, bounds
<1>5. Shared'
  BY <1>1, <1>2, <1>3 DEF Incr, At, cache, bounds, Shared, InOrder, NothingSkipped, Snapshot
<1>6. th' = [th EXCEPT ![t] = [th[t] EXCEPT !.pc = "write"]]
  BY DEF Incr, At
<1>7. th' \in [Threads -> Thread] /\ \A u \in Threads \ {t} : th'[u] = th[u]
  <2>1. th[t] \in Thread
    OBVIOUS
  <2>2. [th[t] EXCEPT !.pc = "write"] \in Thread
    BY <2>1 DEF Thread, PCs, RebuildPCs
  <2> QED
    BY <1>6, <2>2
<1>8. TypeOK'
  BY <1>1, <1>2, <1>3, <1>4, <1>7
<1>9. Undisturbed(Threads \ {t})
  BY <1>1, <1>2, <1>3, <1>4, <1>7 DEF Undisturbed, Incr, At, cache, bounds
<1>10. CursorOK(t)' /\ RebuildOK(t)'
  <2>1. /\ th'[t].pc = "write" /\ th'[t].todo = th[t].todo
       /\ th'[t].bucket = th[t].bucket /\ th'[t].got = th[t].got
       /\ th'[t].from = th[t].from /\ th'[t].batch = th[t].batch
       /\ th'[t].event = th[t].event
    BY <1>6 DEF Thread
  <2>2. CursorOK(t) /\ RebuildOK(t)
    OBVIOUS
  <2>3. CursorOK(t)'
    BY <2>1, <2>2, <1>1, <1>2, <1>3, <1>4, <1>9 DEF CursorOK, InOrder, Undisturbed
  <2>4. RebuildOK(t)'
    BY <2>1, <2>2, <1>1, <1>2, <1>3, <1>4, <1>9
      DEF RebuildOK, Exclusive, RebuildPCs, Undisturbed, Incr, At
  <2> QED
    BY <2>3, <2>4
<1> QED
  BY <1>5, <1>8, <1>9, <1>10, OneMoves

LEMMA WritePreserves ==
  ASSUME IInv, NEW t \in Threads, Write(t)
  PROVE  IInv'
<1> USE ConfigFields, ThreadFields DEF IInv, TypeOK
<1>1. /\ config' = config /\ db' \in Rows /\ accounts' \in Rows
      /\ active' \in [Buckets -> Snapshot \union {NoSnapshot}]
      /\ newer' \in [Buckets -> SUBSET (Threads \X Threads)]
      /\ registered' \subseteq config'.buckets
      /\ lock' \in [Buckets -> Threads \union {NoThread}]
  <2>1. accounts' \in Rows
    BY DEF Write, Rows
  <2> QED
    BY <2>1 DEF Write, bounds
<1>2. /\ outbox' \in Seq(Event) /\ Len(outbox) <= Len(outbox')
      /\ watermark' \in 0..Len(outbox')
      /\ handled' \subseteq 1..Len(outbox') /\ handled \subseteq handled'
  BY DEF Write, At, cache, bounds
<1>3. /\ changes' \in 0..config'.changes /\ changes' \in Nat /\ changes <= changes'
      /\ disturbances' \in 0..config'.disturbances
  BY DEF Write, At, cache, bounds
<1>4. overrun' \in BOOLEAN /\ (overrun => overrun')
  BY DEF Write, At, cache, bounds
<1>5. Shared'
  BY <1>1, <1>2, <1>3 DEF Write, At, cache, bounds, Shared, InOrder, NothingSkipped,
    Snapshot
<1>6. th' = [th EXCEPT ![t] = [th[t] EXCEPT !.pc = "activate"]]
  BY DEF Write, At
<1>7. th' \in [Threads -> Thread] /\ \A u \in Threads \ {t} : th'[u] = th[u]
  <2>1. th[t] \in Thread
    OBVIOUS
  <2>2. [th[t] EXCEPT !.pc = "activate"] \in Thread
    BY <2>1 DEF Thread, PCs, RebuildPCs
  <2> QED
    BY <1>6, <2>2
<1>8. TypeOK'
  BY <1>1, <1>2, <1>3, <1>4, <1>7
<1>9. Undisturbed(Threads \ {t})
  BY <1>1, <1>2, <1>3, <1>4, <1>7 DEF Undisturbed, Write, At, cache, bounds
<1>10. CursorOK(t)' /\ RebuildOK(t)'
  <2>1. /\ th'[t].pc = "activate" /\ th'[t].todo = th[t].todo
       /\ th'[t].bucket = th[t].bucket /\ th'[t].got = th[t].got
       /\ th'[t].from = th[t].from /\ th'[t].batch = th[t].batch
       /\ th'[t].event = th[t].event
    BY <1>6 DEF Thread
  <2>2. CursorOK(t) /\ RebuildOK(t)
    OBVIOUS
  <2>3. CursorOK(t)'
    BY <2>1, <2>2, <1>1, <1>2, <1>3, <1>4, <1>9 DEF CursorOK, InOrder, Undisturbed
  <2>4. RebuildOK(t)'
    BY <2>1, <2>2, <1>1, <1>2, <1>3, <1>4, <1>9
      DEF RebuildOK, Exclusive, RebuildPCs, Undisturbed, Write, At
  <2> QED
    BY <2>3, <2>4
<1> QED
  BY <1>5, <1>8, <1>9, <1>10, OneMoves

LEMMA ActivatePreserves ==
  ASSUME IInv, NEW t \in Threads, Activate(t)
  PROVE  IInv'
<1> USE ConfigFields, ThreadFields DEF IInv, TypeOK
<1>1. /\ config' = config /\ db' \in Rows /\ accounts' \in Rows
      /\ active' \in [Buckets -> Snapshot \union {NoSnapshot}]
      /\ newer' \in [Buckets -> SUBSET (Threads \X Threads)]
      /\ registered' \subseteq config'.buckets
      /\ lock' \in [Buckets -> Threads \union {NoThread}]
  <2> DEFINE b == th[t].bucket
             higher == {u \in Threads : <<t, u>> \in newer[b]} \ {t}
  <2>1. b \in config.buckets /\ b \in Buckets
    BY DEF Activate, At, RebuildOK, RebuildPCs
  <2>2. CASE t \in Above(b)
    <3>1. /\ active' = [active EXCEPT ![b] = th[t].got]
          /\ newer' = [newer EXCEPT ![b] = Only(@, higher)]
          /\ registered' = registered \union {b}
      BY <2>2 DEF Activate
    <3>2. newer' \in [Buckets -> SUBSET (Threads \X Threads)]
      BY <3>1 DEF Only
    <3> QED
      BY <2>1, <3>1, <3>2 DEF Activate, bounds
  <2>3. CASE t \notin Above(b)
    BY <2>3 DEF Activate, bounds
  <2> QED
    BY <2>2, <2>3
<1>2. /\ outbox' \in Seq(Event) /\ Len(outbox) <= Len(outbox')
      /\ watermark' \in 0..Len(outbox')
      /\ handled' \subseteq 1..Len(outbox') /\ handled \subseteq handled'
  BY DEF Activate, At, AfterSet, cache, bounds
<1>3. /\ changes' \in 0..config'.changes /\ changes' \in Nat /\ changes <= changes'
      /\ disturbances' \in 0..config'.disturbances
  BY DEF Activate, At, AfterSet, cache, bounds
<1>4. overrun' \in BOOLEAN /\ (overrun => overrun')
  BY DEF Activate, At, AfterSet, cache, bounds
<1>5. Shared'
  <2>1. \A b \in Buckets : active'[b] = active[b] \/ active'[b] = th[t].got
    BY DEF Activate
  <2>2. th[t].got.at <= changes
    BY DEF RebuildOK
  <2> QED
    BY <2>1, <2>2 DEF Activate, bounds, Shared, InOrder, NothingSkipped
<1>6. \/ th' = [th EXCEPT ![t] = Idle]
      \/ th' = [th EXCEPT ![t] = [th[t] EXCEPT !.pc = "unlock", !.got = Idle.got]]
  BY DEF Activate, At, AfterSet
<1>7. th' \in [Threads -> Thread] /\ \A u \in Threads \ {t} : th'[u] = th[u]
  <2>1. CASE th' = [th EXCEPT ![t] = Idle]
    BY <2>1, IdleTyped
  <2>2. CASE th' = [th EXCEPT ![t] = [th[t] EXCEPT !.pc = "unlock", !.got = Idle.got]]
    <3>1. th[t] \in Thread
      OBVIOUS
    <3>2. [th[t] EXCEPT !.pc = "unlock", !.got = Idle.got] \in Thread
      BY <3>1, IdleTyped DEF Thread, PCs, RebuildPCs
    <3> QED
      BY <2>2, <3>2
  <2> QED
    BY <1>6, <2>1, <2>2
<1>8. TypeOK'
  BY <1>1, <1>2, <1>3, <1>4, <1>7
<1>9. Undisturbed(Threads \ {t})
  <2>1. \A b \in Buckets : lock'[b] = lock[b] /\ (active'[b] = active[b] \/ b = th[t].bucket)
    BY DEF Activate
  <2>2. Exclusive => lock[th[t].bucket] = t
    BY DEF Activate, At, RebuildOK, RebuildPCs
  <2>3. \A u \in Threads \ {t} : Exclusive => ~Rebuilding(u, th[t].bucket)
    BY <2>2 DEF RebuildOK, Rebuilding
  <2> QED
    BY <1>1, <1>2, <1>3, <1>4, <1>7, <2>1, <2>3 DEF Undisturbed
<1>10. CursorOK(t)' /\ RebuildOK(t)'
  <2>1. CASE th' = [th EXCEPT ![t] = Idle]
    BY <2>1, <1>1, <1>2, <1>3, Returned
  <2>2. CASE th' = [th EXCEPT ![t] = [th[t] EXCEPT !.pc = "unlock", !.got = Idle.got]]
    <3>1. /\ th'[t].pc = "unlock" /\ th'[t].todo = th[t].todo
         /\ th'[t].bucket = th[t].bucket /\ th'[t].got = Idle.got
         /\ th'[t].from = th[t].from /\ th'[t].batch = th[t].batch
         /\ th'[t].event = th[t].event
      BY <2>2 DEF Thread
    <3>2. CursorOK(t) /\ RebuildOK(t)
      OBVIOUS
    <3>3. CursorOK(t)'
      BY <3>1, <3>2, <1>1, <1>2, <1>3, <1>4, <1>9, IdleTyped
        DEF CursorOK, InOrder, Undisturbed
    <3>4. RebuildOK(t)'
      BY <3>1, <3>2, <1>1, <1>2, <1>3, <1>4, <1>9, IdleTyped
        DEF RebuildOK, Exclusive, RebuildPCs, Undisturbed, Activate, At
    <3> QED
      BY <3>3, <3>4
  <2> QED
    BY <1>6, <2>1, <2>2
<1> QED
  BY <1>5, <1>8, <1>9, <1>10, OneMoves

LEMMA SetFailsPreserves ==
  ASSUME IInv, NEW t \in Threads, SetFails(t)
  PROVE  IInv'
<1> USE ConfigFields, ThreadFields DEF IInv, TypeOK
<1>1. /\ config' = config /\ db' \in Rows /\ accounts' \in Rows
      /\ active' \in [Buckets -> Snapshot \union {NoSnapshot}]
      /\ newer' \in [Buckets -> SUBSET (Threads \X Threads)]
      /\ registered' \subseteq config'.buckets
      /\ lock' \in [Buckets -> Threads \union {NoThread}]
  <2>1. newer' \in [Buckets -> SUBSET (Threads \X Threads)]
    BY DEF SetFails, Only
  <2> QED
    BY <2>1 DEF SetFails
<1>2. /\ outbox' \in Seq(Event) /\ Len(outbox) <= Len(outbox')
      /\ watermark' \in 0..Len(outbox')
      /\ handled' \subseteq 1..Len(outbox') /\ handled \subseteq handled'
  BY DEF SetFails, At, Disturb, cache, bounds
<1>3. /\ changes' \in 0..config'.changes /\ changes' \in Nat /\ changes <= changes'
      /\ disturbances' \in 0..config'.disturbances
  BY DEF SetFails, At, Disturb, cache, bounds
<1>4. overrun' \in BOOLEAN /\ (overrun => overrun')
  BY DEF SetFails, At, Disturb, cache, bounds
<1>5. Shared'
  BY <1>1, <1>2, <1>3 DEF SetFails, At, Disturb, cache, bounds, Shared, InOrder,
    NothingSkipped, Snapshot
<1>6. \/ th' = [th EXCEPT ![t] = Idle]
      \/ th' = [th EXCEPT ![t] = [th[t] EXCEPT !.pc = "unlock",
                                               !.got = Idle.got,
                                               !.err = TRUE]]
  BY DEF SetFails, At, Disturb
<1>7. th' \in [Threads -> Thread] /\ \A u \in Threads \ {t} : th'[u] = th[u]
  <2>1. CASE th' = [th EXCEPT ![t] = Idle]
    BY <2>1, IdleTyped
  <2>2. CASE th' = [th EXCEPT ![t] = [th[t] EXCEPT !.pc = "unlock",
                                                   !.got = Idle.got,
                                                   !.err = TRUE]]
    <3>1. th[t] \in Thread
      OBVIOUS
    <3>2. [th[t] EXCEPT !.pc = "unlock", !.got = Idle.got, !.err = TRUE] \in Thread
      BY <3>1, IdleTyped DEF Thread, PCs, RebuildPCs
    <3> QED
      BY <2>2, <3>2
  <2> QED
    BY <1>6, <2>1, <2>2
<1>8. TypeOK'
  BY <1>1, <1>2, <1>3, <1>4, <1>7
<1>9. Undisturbed(Threads \ {t})
  BY <1>1, <1>2, <1>3, <1>4, <1>7 DEF Undisturbed, SetFails, At, Disturb, cache, bounds
<1>10. CursorOK(t)' /\ RebuildOK(t)'
  <2>1. CASE th' = [th EXCEPT ![t] = Idle]
    BY <2>1, <1>1, <1>2, <1>3, Returned
  <2>2. CASE th' = [th EXCEPT ![t] = [th[t] EXCEPT !.pc = "unlock",
                                                   !.got = Idle.got,
                                                   !.err = TRUE]]
    <3>1. /\ th'[t].pc = "unlock" /\ th'[t].todo = th[t].todo
         /\ th'[t].bucket = th[t].bucket /\ th'[t].got = Idle.got
         /\ th'[t].from = th[t].from /\ th'[t].batch = th[t].batch
         /\ th'[t].event = th[t].event
      BY <2>2 DEF Thread
    <3>2. CursorOK(t) /\ RebuildOK(t)
      OBVIOUS
    <3>3. CursorOK(t)'
      BY <3>1, <3>2, <1>1, <1>2, <1>3, <1>4, <1>9, IdleTyped
        DEF CursorOK, InOrder, Undisturbed
    <3>4. RebuildOK(t)'
      BY <3>1, <3>2, <1>1, <1>2, <1>3, <1>4, <1>9, IdleTyped
        DEF RebuildOK, Exclusive, RebuildPCs, Undisturbed, SetFails
    <3> QED
      BY <3>3, <3>4
  <2> QED
    BY <1>6, <2>1, <2>2
<1> QED
  BY <1>5, <1>8, <1>9, <1>10, OneMoves

LEMMA UnlockPreserves ==
  ASSUME IInv, NEW t \in Threads, Unlock(t)
  PROVE  IInv'
<1> USE ConfigFields, ThreadFields DEF IInv, TypeOK
<1>1. /\ config' = config /\ db' \in Rows /\ accounts' \in Rows
      /\ active' \in [Buckets -> Snapshot \union {NoSnapshot}]
      /\ newer' \in [Buckets -> SUBSET (Threads \X Threads)]
      /\ registered' \subseteq config'.buckets
      /\ lock' \in [Buckets -> Threads \union {NoThread}]
  BY DEF Unlock, At, Unlocked, cache, bounds
<1>2. /\ outbox' \in Seq(Event) /\ Len(outbox) <= Len(outbox')
      /\ watermark' \in 0..Len(outbox')
      /\ handled' \subseteq 1..Len(outbox') /\ handled \subseteq handled'
  BY DEF Unlock, At, Unlocked, cache, bounds
<1>3. /\ changes' \in 0..config'.changes /\ changes' \in Nat /\ changes <= changes'
      /\ disturbances' \in 0..config'.disturbances
  BY DEF Unlock, At, Unlocked, cache, bounds
<1>4. overrun' \in BOOLEAN /\ (overrun => overrun')
  BY DEF Unlock, At, Unlocked, cache, bounds
<1>5. Shared'
  BY <1>1, <1>2, <1>3 DEF Unlock, At, Unlocked, cache, bounds, Shared, InOrder,
    NothingSkipped, Snapshot
<1>6. th' = [th EXCEPT ![t] = [th[t] EXCEPT !.pc = "next", !.bucket = AnyBucket]]
  BY DEF Unlock, At, Unlocked
<1>7. th' \in [Threads -> Thread] /\ \A u \in Threads \ {t} : th'[u] = th[u]
  <2>1. th[t] \in Thread
    OBVIOUS
  <2>2. [th[t] EXCEPT !.pc = "next", !.bucket = AnyBucket] \in Thread
    BY <2>1, AnyExist DEF Thread, PCs, RebuildPCs
  <2> QED
    BY <1>6, <2>2
<1>8. TypeOK'
  BY <1>1, <1>2, <1>3, <1>4, <1>7
<1>9. Undisturbed(Threads \ {t})
  <2>1. \A b \in Buckets : active'[b] = active[b] /\ (lock'[b] = lock[b] \/ b = th[t].bucket)
    BY DEF Unlock, cache
  <2>2. Exclusive => lock[th[t].bucket] = t
    BY DEF Unlock, At, RebuildOK, RebuildPCs
  <2>3. \A u \in Threads \ {t} : Exclusive => ~Rebuilding(u, th[t].bucket)
    BY <2>2 DEF RebuildOK, Rebuilding
  <2> QED
    BY <1>1, <1>2, <1>3, <1>4, <1>7, <2>1, <2>3 DEF Undisturbed
<1>10. CursorOK(t)' /\ RebuildOK(t)'
  <2>1. /\ th'[t].pc = "next" /\ th'[t].todo = th[t].todo
       /\ th'[t].bucket = AnyBucket /\ th'[t].got = th[t].got
       /\ th'[t].from = th[t].from /\ th'[t].batch = th[t].batch
       /\ th'[t].event = th[t].event
    BY <1>6 DEF Thread
  <2>2. CursorOK(t) /\ RebuildOK(t)
    OBVIOUS
  <2>3. CursorOK(t)'
    BY <2>1, <2>2, <1>1, <1>2, <1>3, <1>4, <1>9 DEF CursorOK, InOrder, Undisturbed
  <2>4. RebuildOK(t)'
    BY <2>1, <2>2, <1>1, <1>2, <1>3, <1>4, <1>9
      DEF RebuildOK, Exclusive, RebuildPCs, Undisturbed
  <2> QED
    BY <2>3, <2>4
<1> QED
  BY <1>5, <1>8, <1>9, <1>10, OneMoves

LEMMA UnlockFailsPreserves ==
  ASSUME IInv, NEW t \in Threads, UnlockFails(t)
  PROVE  IInv'
<1> USE ConfigFields, ThreadFields DEF IInv, TypeOK
<1>1. /\ UNCHANGED <<db, outbox, cache, lock, watermark, changes, config, handled, overrun>>
      /\ disturbances' \in 0..config.disturbances /\ changes' \in Nat
  BY DEF UnlockFails, At, Unlocked, Disturb, cache, bounds
<1>2. th' = [th EXCEPT ![t] = [th[t] EXCEPT !.pc = "next", !.bucket = AnyBucket]]
  BY DEF UnlockFails, At, Unlocked, Disturb
<1>3. th' \in [Threads -> Thread] /\ \A u \in Threads \ {t} : th'[u] = th[u]
  <2>1. th[t] \in Thread
    OBVIOUS
  <2>2. [th[t] EXCEPT !.pc = "next", !.bucket = AnyBucket] \in Thread
    BY <2>1, AnyExist DEF Thread, PCs, RebuildPCs
  <2> QED
    BY <1>2, <2>2
<1>4. CursorOK(t)' /\ RebuildOK(t)'
  <2>1. /\ th'[t].pc = "next" /\ th'[t].todo = th[t].todo
       /\ th'[t].bucket = AnyBucket /\ th'[t].got = th[t].got
       /\ th'[t].from = th[t].from /\ th'[t].batch = th[t].batch
       /\ th'[t].event = th[t].event
    BY <1>2 DEF Thread
  <2>2. CursorOK(t) /\ RebuildOK(t)
    OBVIOUS
  <2>3. CursorOK(t)'
    BY <2>1, <2>2, <1>1 DEF CursorOK, InOrder, cache
  <2>4. RebuildOK(t)'
    BY <2>1, <2>2, <1>1 DEF RebuildOK, Exclusive, RebuildPCs, cache
  <2> QED
    BY <2>3, <2>4
<1> QED
  BY <1>1, <1>3, <1>4, OnlyMoves

LEMMA FullRebuildPreserves ==
  ASSUME IInv, NEW t \in Threads, FullRebuild(t)
  PROVE  IInv'
<1> USE ConfigFields, ThreadFields DEF IInv, TypeOK
<1>1. /\ UNCHANGED <<db, outbox, cache, lock, watermark, changes, config, handled, overrun>>
      /\ disturbances' \in 0..config.disturbances /\ changes' \in Nat
  BY DEF FullRebuild, At, cache, bounds
<1>2. th' = [th EXCEPT ![t] = [th[t] EXCEPT !.pc = "next", !.todo = ListBuckets]]
  BY DEF FullRebuild, At
<1>3. th' \in [Threads -> Thread] /\ \A u \in Threads \ {t} : th'[u] = th[u]
  <2>1. th[t] \in Thread
    OBVIOUS
  <2>2. [th[t] EXCEPT !.pc = "next", !.todo = ListBuckets] \in Thread
    BY <2>1, ListBucketsTyped DEF Thread, PCs, RebuildPCs
  <2> QED
    BY <1>2, <2>2
<1>4. CursorOK(t)' /\ RebuildOK(t)'
  <2>1. /\ th'[t].pc = "next" /\ th'[t].todo = ListBuckets
       /\ th'[t].bucket = th[t].bucket /\ th'[t].got = th[t].got
       /\ th'[t].from = th[t].from /\ th'[t].batch = th[t].batch
       /\ th'[t].event = th[t].event
    BY <1>2 DEF Thread
  <2>2. CursorOK(t) /\ RebuildOK(t)
    OBVIOUS
  <2>3. CursorOK(t)'
    BY <2>1, <2>2, <1>1, ListBucketsTyped DEF CursorOK, InOrder, cache
  <2>4. RebuildOK(t)'
    BY <2>1, <2>2, <1>1, ListBucketsTyped DEF RebuildOK, Exclusive, RebuildPCs, cache
  <2> QED
    BY <2>3, <2>4
<1> QED
  BY <1>1, <1>3, <1>4, OnlyMoves

LEMMA FallbackPreserves ==
  ASSUME IInv, NEW t \in Threads, NEW b \in Buckets, Fallback(t, b)
  PROVE  IInv'
<1> USE ConfigFields, ThreadFields DEF IInv, TypeOK
<1>1. /\ UNCHANGED <<db, outbox, cache, lock, watermark, changes, config, handled, overrun>>
      /\ disturbances' \in 0..config.disturbances /\ changes' \in Nat
  BY DEF Fallback, At, cache, bounds
<1>2. th' = [th EXCEPT ![t] = [th[t] EXCEPT !.pc = "load", !.bucket = b]]
  BY DEF Fallback, At
<1>3. th' \in [Threads -> Thread] /\ \A u \in Threads \ {t} : th'[u] = th[u]
  <2>1. th[t] \in Thread
    OBVIOUS
  <2>2. [th[t] EXCEPT !.pc = "load", !.bucket = b] \in Thread
    BY <2>1 DEF Thread, PCs, RebuildPCs
  <2> QED
    BY <1>2, <2>2
<1>4. CursorOK(t)' /\ RebuildOK(t)'
  <2>1. /\ th'[t].pc = "load" /\ th'[t].todo = th[t].todo /\ th'[t].bucket = b
       /\ th'[t].got = th[t].got /\ th'[t].from = th[t].from
       /\ th'[t].batch = th[t].batch /\ th'[t].event = th[t].event
    BY <1>2 DEF Thread
  <2>2. CursorOK(t) /\ RebuildOK(t)
    OBVIOUS
  <2>3. CursorOK(t)'
    BY <2>1, <2>2, <1>1 DEF CursorOK, InOrder, cache
  <2>4. RebuildOK(t)'
    BY <2>1, <2>2, <1>1 DEF RebuildOK, Exclusive, RebuildPCs, cache, Fallback, At
  <2> QED
    BY <2>3, <2>4
<1> QED
  BY <1>1, <1>3, <1>4, OnlyMoves

LEMMA FallbackOnErrorPreserves ==
  ASSUME IInv, NEW t \in Threads, NEW b \in Buckets, FallbackOnError(t, b)
  PROVE  IInv'
<1> USE ConfigFields, ThreadFields DEF IInv, TypeOK
<1>1. /\ UNCHANGED <<db, outbox, cache, lock, watermark, changes, config, handled, overrun>>
      /\ disturbances' \in 0..config.disturbances /\ changes' \in Nat
  BY DEF FallbackOnError, At, Disturb, cache, bounds
<1>2. th' = [th EXCEPT ![t] = [th[t] EXCEPT !.pc = "load", !.bucket = b]]
  BY DEF FallbackOnError, At, Disturb
<1>3. th' \in [Threads -> Thread] /\ \A u \in Threads \ {t} : th'[u] = th[u]
  <2>1. th[t] \in Thread
    OBVIOUS
  <2>2. [th[t] EXCEPT !.pc = "load", !.bucket = b] \in Thread
    BY <2>1 DEF Thread, PCs, RebuildPCs
  <2> QED
    BY <1>2, <2>2
<1>4. CursorOK(t)' /\ RebuildOK(t)'
  <2>1. /\ th'[t].pc = "load" /\ th'[t].todo = th[t].todo /\ th'[t].bucket = b
       /\ th'[t].got = th[t].got /\ th'[t].from = th[t].from
       /\ th'[t].batch = th[t].batch /\ th'[t].event = th[t].event
    BY <1>2 DEF Thread
  <2>2. CursorOK(t) /\ RebuildOK(t)
    OBVIOUS
  <2>3. CursorOK(t)'
    BY <2>1, <2>2, <1>1 DEF CursorOK, InOrder, cache
  <2>4. RebuildOK(t)'
    BY <2>1, <2>2, <1>1 DEF RebuildOK, Exclusive, RebuildPCs, cache, FallbackOnError, At
  <2> QED
    BY <2>3, <2>4
<1> QED
  BY <1>1, <1>3, <1>4, OnlyMoves

LEMMA PollPreserves ==
  ASSUME IInv, NEW t \in Threads, Poll(t)
  PROVE  IInv'
<1> USE ConfigFields, ThreadFields DEF IInv, TypeOK
<1>1. /\ UNCHANGED <<db, outbox, cache, lock, watermark, changes, config, handled, overrun>>
      /\ disturbances' \in 0..config.disturbances /\ changes' \in Nat
  BY DEF Poll, At, cache, bounds
<1>2. th' = [th EXCEPT ![t] = [th[t] EXCEPT !.pc = "list", !.from = watermark]]
  BY DEF Poll, At
<1>3. th' \in [Threads -> Thread] /\ \A u \in Threads \ {t} : th'[u] = th[u]
  <2>1. th[t] \in Thread /\ watermark \in Nat
    OBVIOUS
  <2>2. [th[t] EXCEPT !.pc = "list", !.from = watermark] \in Thread
    BY <2>1 DEF Thread, PCs
  <2> QED
    BY <1>2, <2>2
<1>4. CursorOK(t)' /\ RebuildOK(t)'
  <2>1. /\ th'[t].pc = "list" /\ th'[t].todo = th[t].todo
       /\ th'[t].bucket = th[t].bucket /\ th'[t].got = th[t].got
       /\ th'[t].from = watermark /\ th'[t].batch = th[t].batch
       /\ th'[t].event = th[t].event
    BY <1>2 DEF Thread
  <2>2. CursorOK(t) /\ RebuildOK(t)
    OBVIOUS
  <2>3. CursorOK(t)'
    BY <2>1, <2>2, <1>1 DEF CursorOK, InOrder, cache, Shared, NothingSkipped
  <2>4. RebuildOK(t)'
    BY <2>1, <2>2, <1>1 DEF RebuildOK, Exclusive, RebuildPCs, cache
  <2> QED
    BY <2>3, <2>4
<1> QED
  BY <1>1, <1>3, <1>4, OnlyMoves

LEMMA ListAfterPreserves ==
  ASSUME IInv, NEW t \in Threads, ListAfter(t)
  PROVE  IInv'
<1> USE ConfigFields, ThreadFields DEF IInv, TypeOK
<1> DEFINE ids == {i \in 1..Len(outbox) : i > th[t].from /\ Visible(i)}
<1>0. ids # {} => /\ Limited(ids) \subseteq ids /\ Limited(ids) # {}
                  /\ \A i \in Limited(ids), j \in ids : j < i => j \in Limited(ids)
  <2>1. Len(outbox) \in Nat /\ ids \subseteq 1..Len(outbox)
    OBVIOUS
  <2> HIDE DEF ids
  <2> QED
    BY <2>1, LimitedProperties
<1>1. /\ UNCHANGED <<db, outbox, cache, lock, watermark, changes, config, handled, overrun>>
      /\ disturbances' \in 0..config.disturbances /\ changes' \in Nat
  BY DEF ListAfter, At, cache, bounds
<1>2. \/ th' = [th EXCEPT ![t] = Idle]
      \/ /\ ids # {}
         /\ th' = [th EXCEPT ![t] = [th[t] EXCEPT !.pc = "event",
                                                  !.from = 0,
                                                  !.batch = Limited(ids)]]
  BY DEF ListAfter, At
<1>3. th' \in [Threads -> Thread] /\ \A u \in Threads \ {t} : th'[u] = th[u]
  <2>1. CASE th' = [th EXCEPT ![t] = Idle]
    BY <2>1, IdleTyped
  <2>2. CASE /\ ids # {}
             /\ th' = [th EXCEPT ![t] = [th[t] EXCEPT !.pc = "event",
                                                      !.from = 0,
                                                      !.batch = Limited(ids)]]
    <3>1. th[t] \in Thread /\ Limited(ids) \in SUBSET Nat
      BY <1>0, <2>2
    <3> HIDE DEF ids
    <3>2. [th[t] EXCEPT !.pc = "event", !.from = 0, !.batch = Limited(ids)] \in Thread
      BY <3>1 DEF Thread, PCs
    <3> QED
      BY <2>2, <3>2
  <2> QED
    BY <1>2, <2>1, <2>2
<1>4. CursorOK(t)' /\ RebuildOK(t)'
  <2>1. CASE th' = [th EXCEPT ![t] = Idle]
    BY <2>1, <1>1, Returned
  <2>2. CASE /\ ids # {}
             /\ th' = [th EXCEPT ![t] = [th[t] EXCEPT !.pc = "event",
                                                      !.from = 0,
                                                      !.batch = Limited(ids)]]
    <3>1. /\ th'[t].pc = "event" /\ th'[t].todo = th[t].todo
         /\ th'[t].bucket = th[t].bucket /\ th'[t].got = th[t].got
         /\ th'[t].from = 0 /\ th'[t].batch = Limited(ids)
         /\ th'[t].event = th[t].event
      BY <2>2 DEF Thread
    <3>2. CursorOK(t) /\ RebuildOK(t)
      OBVIOUS
    <3>3. CursorOK(t)'
      <4>1. /\ th'[t].batch \subseteq 1..Len(outbox) /\ th'[t].batch # {}
            /\ UNCHANGED <<config, outbox, handled>>
        BY <1>0, <1>1, <2>2, <3>1
      <4>2. ASSUME InOrder, NEW j \in th'[t].batch, NEW id \in 1..j
            PROVE  id \in handled \union th'[t].batch
        <5>1. j \in ids /\ j \in 1..Len(outbox)
          BY <1>0, <2>2, <3>1
        <5>2. id \in 1..Len(outbox) /\ id <= j
          BY <5>1
        <5>3. CASE id <= th[t].from
          BY <3>2, <4>2, <5>2, <5>3 DEF CursorOK, ListAfter, At
        <5>4. CASE id > th[t].from
          <6>1. id \in ids
            BY <4>2, <5>2, <5>4 DEF Visible, Shared
          <6> HIDE DEF ids
          <6> QED
            BY <1>0, <2>2, <3>1, <5>1, <5>2, <6>1
        <5> QED
          BY <5>2, <5>3, <5>4
      <4>3. InOrder => \A j \in th'[t].batch : 1..j \subseteq handled \union th'[t].batch
        BY <4>2
      <4>4. Len(outbox) \in Nat
        OBVIOUS
      <4> HIDE DEF ids
      <4> QED
        BY <3>1, <3>2, <4>1, <4>3, <4>4 DEF CursorOK, InOrder
    <3>4. RebuildOK(t)'
      BY <3>1, <3>2, <1>1 DEF RebuildOK, Exclusive, RebuildPCs, cache
    <3> QED
      BY <3>3, <3>4
  <2> QED
    BY <1>2, <2>1, <2>2
<1> QED
  BY <1>1, <1>3, <1>4, OnlyMoves

LEMMA HandleEventPreserves ==
  ASSUME IInv, NEW t \in Threads, HandleEvent(t)
  PROVE  IInv'
<1> USE ConfigFields, ThreadFields DEF IInv, TypeOK
<1>0. First(t) \in 1..Len(outbox) /\ outbox[First(t)] \in Event
  <2>1. th[t].batch # {} /\ th[t].batch \subseteq 1..Len(outbox)
    BY DEF CursorOK, HandleEvent, At
  <2>2. First(t) \in th[t].batch
    BY <2>1, MinProperties DEF First
  <2> QED
    BY <2>1, <2>2
<1>a. outbox[First(t)].account \in Accounts
  BY <1>0 DEF Event
<1>1. /\ UNCHANGED <<db, outbox, cache, lock, watermark, changes, config, handled, overrun>>
      /\ disturbances' \in 0..config.disturbances /\ changes' \in Nat
  BY DEF HandleEvent, At, cache, bounds
<1>2. \/ th' = [th EXCEPT ![t] = [th[t] EXCEPT !.pc = "next", !.todo = ListBuckets]]
      \/ th' = [th EXCEPT ![t] = [th[t] EXCEPT !.pc = "account",
                                               !.event = outbox[First(t)],
                                               !.row = db[outbox[First(t)].account]]]
      \/ th' = [th EXCEPT ![t] = [th[t] EXCEPT !.pc = "used",
                                               !.event = outbox[First(t)],
                                               !.row = accounts[outbox[First(t)].account]]]
  BY DEF HandleEvent, At
<1>3. th' \in [Threads -> Thread] /\ \A u \in Threads \ {t} : th'[u] = th[u]
  <2>1. CASE th' = [th EXCEPT ![t] = [th[t] EXCEPT !.pc = "next", !.todo = ListBuckets]]
    <3>1. th[t] \in Thread
      OBVIOUS
    <3>2. [th[t] EXCEPT !.pc = "next", !.todo = ListBuckets] \in Thread
      BY <3>1, ListBucketsTyped, <1>0, <1>a DEF Thread, PCs, RebuildPCs, Rows
    <3> QED
      BY <2>1, <3>2
  <2>2. CASE th' = [th EXCEPT ![t] = [th[t] EXCEPT !.pc = "account",
                                                   !.event = outbox[First(t)],
                                                   !.row = db[outbox[First(t)].account]]]
    <3>1. th[t] \in Thread
      OBVIOUS
    <3>2. [th[t] EXCEPT !.pc = "account",
                       !.event = outbox[First(t)],
                       !.row = db[outbox[First(t)].account]] \in Thread
      BY <3>1, <1>0, <1>a DEF Thread, PCs, RebuildPCs, Rows
    <3> QED
      BY <2>2, <3>2
  <2>3. CASE th' = [th EXCEPT ![t] = [th[t] EXCEPT !.pc = "used",
                                                   !.event = outbox[First(t)],
                                                   !.row = accounts[outbox[First(t)].account]]]
    <3>1. th[t] \in Thread
      OBVIOUS
    <3>2. [th[t] EXCEPT !.pc = "used",
                       !.event = outbox[First(t)],
                       !.row = accounts[outbox[First(t)].account]] \in Thread
      BY <3>1, <1>0, <1>a DEF Thread, PCs, RebuildPCs, Rows
    <3> QED
      BY <2>3, <3>2
  <2> QED
    BY <1>2, <2>1, <2>2, <2>3
<1>4. CursorOK(t)' /\ RebuildOK(t)'
  <2>1. CASE th' = [th EXCEPT ![t] = [th[t] EXCEPT !.pc = "next", !.todo = ListBuckets]]
    <3>1. /\ th'[t].pc = "next" /\ th'[t].todo = ListBuckets
         /\ th'[t].bucket = th[t].bucket /\ th'[t].got = th[t].got
         /\ th'[t].from = th[t].from /\ th'[t].batch = th[t].batch
         /\ th'[t].event = th[t].event
      BY <2>1 DEF Thread
    <3>2. CursorOK(t) /\ RebuildOK(t)
      OBVIOUS
    <3>3. CursorOK(t)'
      BY <3>1, <3>2, <1>1, ListBucketsTyped, <1>0
        DEF CursorOK, InOrder, cache, Shared, HandleEvent, At
    <3>4. RebuildOK(t)'
      BY <3>1, <3>2, <1>1, ListBucketsTyped DEF RebuildOK, Exclusive, RebuildPCs, cache
    <3> QED
      BY <3>3, <3>4
  <2>2. CASE th' = [th EXCEPT ![t] = [th[t] EXCEPT !.pc = "account",
                                                   !.event = outbox[First(t)],
                                                   !.row = db[outbox[First(t)].account]]]
    <3>1. /\ th'[t].pc = "account" /\ th'[t].todo = th[t].todo
         /\ th'[t].bucket = th[t].bucket /\ th'[t].got = th[t].got
         /\ th'[t].from = th[t].from /\ th'[t].batch = th[t].batch
         /\ th'[t].event = outbox[First(t)]
      BY <2>2 DEF Thread
    <3>2. CursorOK(t) /\ RebuildOK(t)
      OBVIOUS
    <3>3. CursorOK(t)'
      BY <3>1, <3>2, <1>1, <1>0 DEF CursorOK, InOrder, cache, Shared, HandleEvent, At
    <3>4. RebuildOK(t)'
      BY <3>1, <3>2, <1>1 DEF RebuildOK, Exclusive, RebuildPCs, cache
    <3> QED
      BY <3>3, <3>4
  <2>3. CASE th' = [th EXCEPT ![t] = [th[t] EXCEPT !.pc = "used",
                                                   !.event = outbox[First(t)],
                                                   !.row = accounts[outbox[First(t)].account]]]
    <3>1. /\ th'[t].pc = "used" /\ th'[t].todo = th[t].todo
         /\ th'[t].bucket = th[t].bucket /\ th'[t].got = th[t].got
         /\ th'[t].from = th[t].from /\ th'[t].batch = th[t].batch
         /\ th'[t].event = outbox[First(t)]
      BY <2>3 DEF Thread
    <3>2. CursorOK(t) /\ RebuildOK(t)
      OBVIOUS
    <3>3. CursorOK(t)'
      BY <3>1, <3>2, <1>1, <1>0 DEF CursorOK, InOrder, cache, Shared, HandleEvent, At
    <3>4. RebuildOK(t)'
      BY <3>1, <3>2, <1>1 DEF RebuildOK, Exclusive, RebuildPCs, cache
    <3> QED
      BY <3>3, <3>4
  <2> QED
    BY <1>2, <2>1, <2>2, <2>3
<1> QED
  BY <1>1, <1>3, <1>4, OnlyMoves

LEMMA HandleAccountEventPreserves ==
  ASSUME IInv, NEW t \in Threads, HandleAccountEvent(t)
  PROVE  IInv'
<1> USE ConfigFields, ThreadFields DEF IInv, TypeOK
<1> DEFINE affected == AffectedBuckets(th[t].event, th[t].row)
<1>0. affected \subseteq config.buckets
  BY DEF AffectedBuckets
<1> HIDE DEF affected
<1>1. /\ config' = config /\ db' \in Rows /\ accounts' \in Rows
      /\ active' \in [Buckets -> Snapshot \union {NoSnapshot}]
      /\ newer' \in [Buckets -> SUBSET (Threads \X Threads)]
      /\ registered' \subseteq config'.buckets
      /\ lock' \in [Buckets -> Threads \union {NoThread}]
  <2>1. accounts' \in Rows
    BY DEF HandleAccountEvent, Rows
  <2> QED
    BY <2>1 DEF HandleAccountEvent, bounds
<1>2. /\ outbox' \in Seq(Event) /\ Len(outbox) <= Len(outbox')
      /\ watermark' \in 0..Len(outbox')
      /\ handled' \subseteq 1..Len(outbox') /\ handled \subseteq handled'
  BY DEF HandleAccountEvent, At, cache, bounds
<1>3. /\ changes' \in 0..config'.changes /\ changes' \in Nat /\ changes <= changes'
      /\ disturbances' \in 0..config'.disturbances
  BY DEF HandleAccountEvent, At, cache, bounds
<1>4. overrun' \in BOOLEAN /\ (overrun => overrun')
  BY DEF HandleAccountEvent, At, cache, bounds
<1>5. Shared'
  BY <1>1, <1>2, <1>3 DEF HandleAccountEvent, At, cache, bounds, Shared, InOrder,
    NothingSkipped, Snapshot
<1>6. th' = [th EXCEPT ![t] = [th[t] EXCEPT !.pc = "next",
                                            !.todo = affected \ th[t].seen,
                                            !.seen = th[t].seen \union affected,
                                            !.row = NoRow]]
  BY DEF HandleAccountEvent, affected
<1>7. th' \in [Threads -> Thread] /\ \A u \in Threads \ {t} : th'[u] = th[u]
  <2>1. th[t] \in Thread
    OBVIOUS
  <2>2. [th[t] EXCEPT !.pc = "next",
                     !.todo = affected \ th[t].seen,
                     !.seen = th[t].seen \union affected,
                     !.row = NoRow] \in Thread
    BY <2>1, <1>0 DEF Thread, PCs, RebuildPCs
  <2> QED
    BY <1>6, <2>2
<1>8. TypeOK'
  BY <1>1, <1>2, <1>3, <1>4, <1>7
<1>9. Undisturbed(Threads \ {t})
  BY <1>1, <1>2, <1>3, <1>4, <1>7 DEF Undisturbed, HandleAccountEvent, At, cache, bounds
<1>10. CursorOK(t)' /\ RebuildOK(t)'
  <2>1. /\ th'[t].pc = "next" /\ th'[t].todo = affected \ th[t].seen
       /\ th'[t].bucket = th[t].bucket /\ th'[t].got = th[t].got
       /\ th'[t].from = th[t].from /\ th'[t].batch = th[t].batch
       /\ th'[t].event = th[t].event
    BY <1>6 DEF Thread
  <2>2. CursorOK(t) /\ RebuildOK(t)
    OBVIOUS
  <2>3. CursorOK(t)'
    BY <2>1, <2>2, <1>1, <1>2, <1>3, <1>4, <1>9 DEF CursorOK, InOrder, Undisturbed
  <2>4. RebuildOK(t)'
    BY <2>1, <2>2, <1>1, <1>2, <1>3, <1>4, <1>9, <1>0
      DEF RebuildOK, Exclusive, RebuildPCs, Undisturbed
  <2> QED
    BY <2>3, <2>4
<1> QED
  BY <1>5, <1>8, <1>9, <1>10, OneMoves

LEMMA HandleLastUsedEventPreserves ==
  ASSUME IInv, NEW t \in Threads, HandleLastUsedEvent(t)
  PROVE  IInv'
<1> USE ConfigFields, ThreadFields DEF IInv, TypeOK
<1>1. /\ config' = config /\ db' \in Rows /\ accounts' \in Rows
      /\ active' \in [Buckets -> Snapshot \union {NoSnapshot}]
      /\ newer' \in [Buckets -> SUBSET (Threads \X Threads)]
      /\ registered' \subseteq config'.buckets
      /\ lock' \in [Buckets -> Threads \union {NoThread}]
  <2>1. accounts' \in Rows
    BY DEF HandleLastUsedEvent, Rows
  <2> QED
    BY <2>1 DEF HandleLastUsedEvent, bounds
<1>2. /\ outbox' \in Seq(Event) /\ Len(outbox) <= Len(outbox')
      /\ watermark' \in 0..Len(outbox')
      /\ handled' \subseteq 1..Len(outbox') /\ handled \subseteq handled'
  BY DEF HandleLastUsedEvent, At, cache, bounds
<1>3. /\ changes' \in 0..config'.changes /\ changes' \in Nat /\ changes <= changes'
      /\ disturbances' \in 0..config'.disturbances
  BY DEF HandleLastUsedEvent, At, cache, bounds
<1>4. overrun' \in BOOLEAN /\ (overrun => overrun')
  BY DEF HandleLastUsedEvent, At, cache, bounds
<1>5. Shared'
  BY <1>1, <1>2, <1>3 DEF HandleLastUsedEvent, At, cache, bounds, Shared, InOrder,
    NothingSkipped, Snapshot
<1>6. th' = [th EXCEPT ![t] = [th[t] EXCEPT !.pc = "next", !.row = NoRow]]
  BY DEF HandleLastUsedEvent, At
<1>7. th' \in [Threads -> Thread] /\ \A u \in Threads \ {t} : th'[u] = th[u]
  <2>1. th[t] \in Thread
    OBVIOUS
  <2>2. [th[t] EXCEPT !.pc = "next", !.row = NoRow] \in Thread
    BY <2>1 DEF Thread, PCs, RebuildPCs
  <2> QED
    BY <1>6, <2>2
<1>8. TypeOK'
  BY <1>1, <1>2, <1>3, <1>4, <1>7
<1>9. Undisturbed(Threads \ {t})
  BY <1>1, <1>2, <1>3, <1>4, <1>7 DEF Undisturbed, HandleLastUsedEvent, At, cache, bounds
<1>10. CursorOK(t)' /\ RebuildOK(t)'
  <2>1. /\ th'[t].pc = "next" /\ th'[t].todo = th[t].todo
       /\ th'[t].bucket = th[t].bucket /\ th'[t].got = th[t].got
       /\ th'[t].from = th[t].from /\ th'[t].batch = th[t].batch
       /\ th'[t].event = th[t].event
    BY <1>6 DEF Thread
  <2>2. CursorOK(t) /\ RebuildOK(t)
    OBVIOUS
  <2>3. CursorOK(t)'
    BY <2>1, <2>2, <1>1, <1>2, <1>3, <1>4, <1>9 DEF CursorOK, InOrder, Undisturbed
  <2>4. RebuildOK(t)'
    BY <2>1, <2>2, <1>1, <1>2, <1>3, <1>4, <1>9
      DEF RebuildOK, Exclusive, RebuildPCs, Undisturbed
  <2> QED
    BY <2>3, <2>4
<1> QED
  BY <1>5, <1>8, <1>9, <1>10, OneMoves

LEMMA HandleFailsPreserves ==
  ASSUME IInv, NEW t \in Threads, HandleFails(t)
  PROVE  IInv'
<1> USE ConfigFields, ThreadFields DEF IInv, TypeOK
<1>1. /\ UNCHANGED <<db, outbox, cache, lock, watermark, changes, config, handled, overrun>>
      /\ disturbances' \in 0..config.disturbances /\ changes' \in Nat
  BY DEF HandleFails, At, Disturb, cache, bounds
<1>2. th' = [th EXCEPT ![t] = Idle]
  BY DEF HandleFails, At, Disturb
<1>3. th' \in [Threads -> Thread] /\ \A u \in Threads \ {t} : th'[u] = th[u]
  BY <1>2, IdleTyped
<1>4. CursorOK(t)' /\ RebuildOK(t)'
  BY <1>2, <1>1, Returned
<1> QED
  BY <1>1, <1>3, <1>4, OnlyMoves

LEMMA AdvancePreserves ==
  ASSUME IInv, NEW t \in Threads, Advance(t)
  PROVE  IInv'
<1> USE ConfigFields, ThreadFields DEF IInv, TypeOK
<1>1. /\ config' = config /\ db' \in Rows /\ accounts' \in Rows
      /\ active' \in [Buckets -> Snapshot \union {NoSnapshot}]
      /\ newer' \in [Buckets -> SUBSET (Threads \X Threads)]
      /\ registered' \subseteq config'.buckets
      /\ lock' \in [Buckets -> Threads \union {NoThread}]
  BY DEF Advance, At, cache, bounds
<1>2. /\ outbox' \in Seq(Event) /\ Len(outbox) <= Len(outbox')
      /\ watermark' \in 0..Len(outbox')
      /\ handled' \subseteq 1..Len(outbox') /\ handled \subseteq handled'
  <2>1. th[t].from \in 0..Len(outbox)
    BY DEF CursorOK
  <2> QED
    BY <2>1 DEF Advance, cache, bounds
<1>3. /\ changes' \in 0..config'.changes /\ changes' \in Nat /\ changes <= changes'
      /\ disturbances' \in 0..config'.disturbances
  BY DEF Advance, At, cache, bounds
<1>4. overrun' \in BOOLEAN /\ (overrun => overrun')
  BY DEF Advance, At, cache, bounds
<1>5. Shared'
  <2>1. InOrder => 1..th[t].from \subseteq handled
    BY DEF CursorOK, Advance, At
  <2> QED
    BY <2>1 DEF Advance, cache, bounds, Shared, InOrder, NothingSkipped
<1>6. th' = [th EXCEPT ![t] = [th[t] EXCEPT !.pc = "lag", !.from = 0]]
  BY DEF Advance, At
<1>7. th' \in [Threads -> Thread] /\ \A u \in Threads \ {t} : th'[u] = th[u]
  <2>1. th[t] \in Thread
    OBVIOUS
  <2>2. [th[t] EXCEPT !.pc = "lag", !.from = 0] \in Thread
    BY <2>1 DEF Thread, PCs, RebuildPCs
  <2> QED
    BY <1>6, <2>2
<1>8. TypeOK'
  BY <1>1, <1>2, <1>3, <1>4, <1>7
<1>9. Undisturbed(Threads \ {t})
  BY <1>1, <1>2, <1>3, <1>4, <1>7 DEF Undisturbed, Advance, At, cache, bounds
<1>10. CursorOK(t)' /\ RebuildOK(t)'
  <2>1. /\ th'[t].pc = "lag" /\ th'[t].todo = th[t].todo
       /\ th'[t].bucket = th[t].bucket /\ th'[t].got = th[t].got
       /\ th'[t].from = 0 /\ th'[t].batch = th[t].batch
       /\ th'[t].event = th[t].event
    BY <1>6 DEF Thread
  <2>2. CursorOK(t) /\ RebuildOK(t)
    OBVIOUS
  <2>3. CursorOK(t)'
    BY <2>1, <2>2, <1>1, <1>2, <1>3, <1>4, <1>9 DEF CursorOK, InOrder, Undisturbed
  <2>4. RebuildOK(t)'
    BY <2>1, <2>2, <1>1, <1>2, <1>3, <1>4, <1>9
      DEF RebuildOK, Exclusive, RebuildPCs, Undisturbed
  <2> QED
    BY <2>3, <2>4
<1> QED
  BY <1>5, <1>8, <1>9, <1>10, OneMoves

LEMMA AdvanceFailsPreserves ==
  ASSUME IInv, NEW t \in Threads, AdvanceFails(t)
  PROVE  IInv'
<1> USE ConfigFields, ThreadFields DEF IInv, TypeOK
<1>1. /\ UNCHANGED <<db, outbox, cache, lock, watermark, changes, config, handled, overrun>>
      /\ disturbances' \in 0..config.disturbances /\ changes' \in Nat
  BY DEF AdvanceFails, At, Disturb, cache, bounds
<1>2. th' = [th EXCEPT ![t] = [th[t] EXCEPT !.pc = "lag", !.from = 0]]
  BY DEF AdvanceFails, At, Disturb
<1>3. th' \in [Threads -> Thread] /\ \A u \in Threads \ {t} : th'[u] = th[u]
  <2>1. th[t] \in Thread
    OBVIOUS
  <2>2. [th[t] EXCEPT !.pc = "lag", !.from = 0] \in Thread
    BY <2>1 DEF Thread, PCs, RebuildPCs
  <2> QED
    BY <1>2, <2>2
<1>4. CursorOK(t)' /\ RebuildOK(t)'
  <2>1. /\ th'[t].pc = "lag" /\ th'[t].todo = th[t].todo
       /\ th'[t].bucket = th[t].bucket /\ th'[t].got = th[t].got
       /\ th'[t].from = 0 /\ th'[t].batch = th[t].batch
       /\ th'[t].event = th[t].event
    BY <1>2 DEF Thread
  <2>2. CursorOK(t) /\ RebuildOK(t)
    OBVIOUS
  <2>3. CursorOK(t)'
    BY <2>1, <2>2, <1>1 DEF CursorOK, InOrder, cache
  <2>4. RebuildOK(t)'
    BY <2>1, <2>2, <1>1 DEF RebuildOK, Exclusive, RebuildPCs, cache
  <2> QED
    BY <2>3, <2>4
<1> QED
  BY <1>1, <1>3, <1>4, OnlyMoves

LEMMA CheckOutboxLagPreserves ==
  ASSUME IInv, NEW t \in Threads, CheckOutboxLag(t)
  PROVE  IInv'
<1> USE ConfigFields, ThreadFields DEF IInv, TypeOK
<1>1. /\ UNCHANGED <<db, outbox, cache, lock, watermark, changes, config, handled, overrun>>
      /\ disturbances' \in 0..config.disturbances /\ changes' \in Nat
  BY DEF CheckOutboxLag, At, cache, bounds
<1>2. \/ th' = [th EXCEPT ![t] = Idle]
      \/ th' = [th EXCEPT ![t] = [th[t] EXCEPT !.pc = "next", !.todo = ListBuckets]]
  BY DEF CheckOutboxLag, At
<1>3. th' \in [Threads -> Thread] /\ \A u \in Threads \ {t} : th'[u] = th[u]
  <2>1. CASE th' = [th EXCEPT ![t] = Idle]
    BY <2>1, IdleTyped
  <2>2. CASE th' = [th EXCEPT ![t] = [th[t] EXCEPT !.pc = "next", !.todo = ListBuckets]]
    <3>1. th[t] \in Thread
      OBVIOUS
    <3>2. [th[t] EXCEPT !.pc = "next", !.todo = ListBuckets] \in Thread
      BY <3>1, ListBucketsTyped DEF Thread, PCs, RebuildPCs
    <3> QED
      BY <2>2, <3>2
  <2> QED
    BY <1>2, <2>1, <2>2
<1>4. CursorOK(t)' /\ RebuildOK(t)'
  <2>1. CASE th' = [th EXCEPT ![t] = Idle]
    BY <2>1, <1>1, Returned
  <2>2. CASE th' = [th EXCEPT ![t] = [th[t] EXCEPT !.pc = "next", !.todo = ListBuckets]]
    <3>1. /\ th'[t].pc = "next" /\ th'[t].todo = ListBuckets
         /\ th'[t].bucket = th[t].bucket /\ th'[t].got = th[t].got
         /\ th'[t].from = th[t].from /\ th'[t].batch = th[t].batch
         /\ th'[t].event = th[t].event
      BY <2>2 DEF Thread
    <3>2. CursorOK(t) /\ RebuildOK(t)
      OBVIOUS
    <3>3. CursorOK(t)'
      BY <3>1, <3>2, <1>1, ListBucketsTyped DEF CursorOK, InOrder, cache
    <3>4. RebuildOK(t)'
      BY <3>1, <3>2, <1>1, ListBucketsTyped DEF RebuildOK, Exclusive, RebuildPCs, cache
    <3> QED
      BY <3>3, <3>4
  <2> QED
    BY <1>2, <2>1, <2>2
<1> QED
  BY <1>1, <1>3, <1>4, OnlyMoves

LEMMA AgePreserves ==
  ASSUME IInv, NEW i \in DOMAIN outbox, Age(i)
  PROVE  IInv'
<1> USE ConfigFields DEF IInv, TypeOK
<1> DEFINE e == [outbox[i] EXCEPT !.recent = FALSE]
<1>1. i \in 1..Len(outbox) /\ outbox[i] \in Event
  OBVIOUS
<1>2. e \in Event /\ e.committed = outbox[i].committed
  BY <1>1 DEF Event
<1>3. outbox' = [outbox EXCEPT ![i] = e]
  BY <1>1 DEF Age
<1>4. \A j \in 1..Len(outbox) : outbox'[j].committed = outbox[j].committed
  BY <1>1, <1>2, <1>3
<1> HIDE DEF e
<1>5. outbox' \in Seq(Event) /\ Len(outbox') = Len(outbox)
  BY <1>1, <1>2, <1>3, ExceptSeq
<1>6. UNCHANGED <<config, db, active, newer, accounts, registered, lock, watermark, th, changes,
                  handled, overrun, disturbances>>
  BY DEF Age, cache, bounds
<1>7. TypeOK'
  BY <1>5, <1>6
<1>8. 1..watermark \subseteq 1..Len(outbox)
  OBVIOUS
<1>9. Shared'
  BY <1>4, <1>5, <1>6, <1>8 DEF Shared, InOrder, NothingSkipped
<1>10. Undisturbed(Threads)
  BY <1>5, <1>6 DEF Undisturbed
<1> QED
  BY <1>7, <1>9, <1>10, NoneMoves

LEMMA LockExpiresPreserves ==
  ASSUME IInv, NEW b \in Buckets, LockExpires(b)
  PROVE  IInv'
<1> USE ConfigFields DEF IInv, TypeOK
<1>1. TypeOK'
  BY DEF LockExpires, cache, bounds
<1>2. Shared'
  BY DEF LockExpires, cache, bounds, Shared, InOrder, NothingSkipped
<1>3. \A u \in Threads : Exclusive => ~Rebuilding(u, b)
  BY DEF LockExpires, RebuildOK, Rebuilding
<1>4. Undisturbed(Threads)
  BY <1>3 DEF LockExpires, cache, bounds, Undisturbed
<1> QED
  BY <1>1, <1>2, <1>4, NoneMoves

\* After an overrun nothing is claimed of the lock.
LEMMA LockOverrunPreserves ==
  ASSUME IInv, NEW b \in Buckets, LockOverrun(b)
  PROVE  IInv'
<1> USE ConfigFields DEF IInv, TypeOK
<1>1. TypeOK'
  BY DEF LockOverrun, Disturb, cache
<1>2. Shared'
  BY DEF LockOverrun, cache, Shared, InOrder, NothingSkipped
<1>3. ASSUME NEW u \in Threads
      PROVE  CursorOK(u)' /\ RebuildOK(u)'
  <2>1. CursorOK(u) /\ RebuildOK(u)
    OBVIOUS
  <2>2. /\ UNCHANGED <<config, outbox, handled, changes>>
        /\ th'[u] = th[u] /\ ~Exclusive'
    BY DEF LockOverrun, Exclusive
  <2> QED
    BY <2>1, <2>2 DEF CursorOK, RebuildOK, InOrder
<1> QED
  BY <1>1, <1>2, <1>3

\* The threads of the process begin anew, the others do not notice.
LEMMA RestartPreserves ==
  ASSUME IInv, NEW p, Restart(p)
  PROVE  IInv'
<1> USE ConfigFields DEF IInv, TypeOK
<1> DEFINE mine == {t \in Pollers \union Rebuilders : ProcessOf[t] = p}
           others == Threads \ (mine \intersect config.threads)
<1>1. UNCHANGED <<config, db, outbox, active, accounts, registered, lock, watermark, changes,
                  handled, overrun>>
  BY DEF Restart
<1>2. disturbances' \in 0..config.disturbances
  BY DEF Restart, Disturb
<1>3. newer' \in [Buckets -> SUBSET (Threads \X Threads)]
  BY DEF Restart, Only
<1>4. \A t \in Threads : /\ Started(t) \in Thread /\ Started(t).pc \in {"idle", "next"}
                         /\ Started(t).todo \subseteq config.buckets
                         /\ Started(t).batch = {} /\ Started(t).from = 0
                         /\ Started(t).event.committed /\ Started(t).got.at = 0
  BY IdleTyped, ListBucketsTyped DEF Started, Thread, PCs
<1>5. /\ \A t \in others : th'[t] = th[t]
      /\ \A t \in Threads \ others : th'[t] = Started(t)
  BY DEF Restart
<1>6. th' \in [Threads -> Thread]
  BY <1>4 DEF Restart
<1>7. TypeOK'
  BY <1>1, <1>2, <1>3, <1>6
<1>8. Shared'
  BY <1>1 DEF Shared, InOrder, NothingSkipped
<1> HIDE DEF others
<1>9. others \subseteq Threads /\ Undisturbed(others)
  BY <1>1, <1>5 DEF Undisturbed, others
<1>10. \A t \in others : CursorOK(t)' /\ RebuildOK(t)'
  BY <1>7, <1>9, Frame
<1>11. ASSUME NEW t \in Threads \ others
       PROVE  CursorOK(t)' /\ RebuildOK(t)'
  <2>1. /\ th'[t].pc \in {"idle", "next"} /\ th'[t].todo \subseteq config.buckets
        /\ th'[t].batch = {} /\ th'[t].from = 0 /\ th'[t].event.committed /\ th'[t].got.at = 0
    BY <1>4, <1>5
  <2>2. Len(outbox) \in Nat /\ changes \in Nat
    OBVIOUS
  <2> QED
    BY <1>1, <2>1, <2>2 DEF CursorOK, RebuildOK, RebuildPCs
<1> QED
  BY <1>7, <1>8, <1>10, <1>11

-----------------------------------------------------------------------------
LEMMA InitIInv == Init => IInv
<1> SUFFICES ASSUME Init PROVE IInv
  OBVIOUS
<1> USE ConfigFields, IdleTyped DEF Init
<1>1. db \in Rows /\ changes \in 0..config.changes
  BY DEF Rows, Row
<1>2. \A b \in Buckets : Loaded(b) \in Snapshot /\ Loaded(b).at = 0
  <2> TAKE b \in Buckets
  <2>1. [a \in Accounts |-> IF a \in Schedulable(b) THEN db[a] ELSE NoRow] \in Rows
    BY <1>1 DEF Rows
  <2> QED
    BY <2>1 DEF Loaded, Snapshot
<1>3. ListBuckets \subseteq config.buckets
  BY DEF ListBuckets
<1>4. \A t \in Threads : /\ th[t] \in Thread /\ th[t].pc \in {"idle", "next"}
                         /\ th[t].todo \subseteq config.buckets
                         /\ th[t].batch = {} /\ th[t].from = 0 /\ th[t].event.committed
                         /\ th[t].got.at = 0
  <2> TAKE t \in Threads
  <2>1. th[t] = Idle \/ th[t] = [Idle EXCEPT !.pc = "next", !.todo = ListBuckets]
    BY DEF Started
  <2>2. CASE th[t] = Idle
    BY <2>2, IdleTyped
  <2>3. CASE th[t] = [Idle EXCEPT !.pc = "next", !.todo = ListBuckets]
    <3>1. ListBuckets \subseteq Buckets
      BY <1>3
    <3>2. [Idle EXCEPT !.pc = "next", !.todo = ListBuckets] \in Thread
      BY ONLY <3>1, IdleTyped DEF Thread, PCs
    <3>3. LET i == [Idle EXCEPT !.pc = "next", !.todo = ListBuckets]
          IN  /\ i.pc = "next" /\ i.todo = ListBuckets
              /\ i.batch = Idle.batch /\ i.from = Idle.from /\ i.event = Idle.event
              /\ i.got = Idle.got
      BY ONLY IdleTyped DEF Thread
    <3> QED
      BY ONLY <1>3, <2>3, <3>2, <3>3, IdleTyped
  <2> QED
    BY ONLY <2>1, <2>2, <2>3
<1>5. th \in [Threads -> Thread]
  BY <1>4
<1>6. active \in [Buckets -> Snapshot \union {NoSnapshot}]
  BY <1>2
<1>7. outbox \in Seq(Event) /\ Len(outbox) = 0
  OBVIOUS
<1>8. accounts \in Rows
  BY <1>1 DEF Rows, NoRows
<1>9. registered \subseteq config.buckets
  OBVIOUS
<1>10. /\ newer \in [Buckets -> SUBSET (Threads \X Threads)]
       /\ lock \in [Buckets -> Threads \union {NoThread}]
  OBVIOUS
<1>11. overrun \in BOOLEAN
  OBVIOUS
<1>12. config \in Configs /\ disturbances \in 0..config.disturbances /\ handled = {} /\ watermark = 0
  OBVIOUS
<1>13. TypeOK
  BY <1>1, <1>5, <1>6, <1>7, <1>8, <1>9, <1>10, <1>11, <1>12 DEF TypeOK
<1>14. Shared
  BY <1>2, <1>7, <1>12 DEF Shared, NothingSkipped
<1>15. ASSUME NEW t \in Threads PROVE CursorOK(t) /\ RebuildOK(t)
  BY <1>4, <1>7 DEF CursorOK, RebuildOK, RebuildPCs
<1> QED
  BY <1>13, <1>14, <1>15 DEF IInv

LEMMA NextIInv == IInv /\ [Next]_vars => IInv'
<1> SUFFICES ASSUME IInv, [Next]_vars PROVE IInv'
  OBVIOUS
<1>1. ASSUME NEW t \in Threads, Begin(t) \/ FullRebuild(t) \/ Poll(t)
      PROVE  IInv'
  BY <1>1, ChangePreserves, UpdateCredentialsPreserves, DeletePreserves, AutoPausePreserves,
    UpdateLastUsedPreserves, CrossQuotaPreserves, FallbackPreserves, FullRebuildPreserves,
    PollPreserves DEF Begin
<1>2. ASSUME NEW t \in Threads, RebuildStep(t)
      PROVE  IInv'
  BY <1>2, RebuildDonePreserves, TryLockBucketPreserves, LoadPreserves, IncrPreserves,
    WritePreserves, ActivatePreserves, UnlockPreserves DEF RebuildStep
<1>3. ASSUME NEW t \in Threads, PollStep(t)
      PROVE  IInv'
  BY <1>3, ListAfterPreserves, HandleEventPreserves, HandleAccountEventPreserves,
    HandleLastUsedEventPreserves, AdvancePreserves, CheckOutboxLagPreserves DEF PollStep
<1>4. ASSUME NEW t \in Threads, WriterStep(t)
      PROVE  IInv'
  BY <1>4, EnqueuePreserves, CommitPreserves, SyncReadPreserves, SyncWritePreserves
    DEF WriterStep
<1>5. ASSUME NEW t \in Threads, Failure(t)
      PROVE  IInv'
  BY <1>5, EnqueueFailsPreserves, SyncFailsPreserves, SetFailsPreserves,
    UnlockFailsPreserves,
    HandleFailsPreserves, AdvanceFailsPreserves, TryLockFailsPreserves,
    FallbackOnErrorPreserves DEF Failure
<1>6. ASSUME NEW b \in Buckets, LockExpires(b) \/ LockOverrun(b)
      PROVE  IInv'
  BY <1>6, LockExpiresPreserves, LockOverrunPreserves
<1>7. ASSUME NEW i \in DOMAIN outbox, Age(i)
      PROVE  IInv'
  BY <1>7, AgePreserves
<1>8. ASSUME NEW p, Restart(p)
      PROVE  IInv'
  BY <1>8, RestartPreserves
<1>9. CASE UNCHANGED vars
  BY <1>9 DEF vars, IInv, TypeOK, Shared, CursorOK, RebuildOK, InOrder, NothingSkipped,
    Exclusive
<1> QED
  BY <1>1, <1>2, <1>3, <1>4, <1>5, <1>6, <1>7, <1>8, <1>9 DEF Next

\* The inductive invariant holds in every reachable state.
THEOREM Invariance == Spec => []IInv
  BY InitIInv, NextIInv, PTL DEF Spec

\* Rows, events, snapshots and threads keep their types and the watermark never
\* passes the last id (SetOutboxWatermark).
THEOREM TypeCorrect == Spec => []TypeOK
<1>1. IInv => TypeOK
  BY DEF IInv
<1> QED
  BY <1>1, Invariance, PTL

\* Where ids become visible in their order, no event below the watermark is left
\* unhandled, however many pollers share the watermark and whichever steps fail
\* (pollOutbox).
THEOREM NoEventSkipped == Spec => []WatermarkBehindHandled
<1>1. IInv => WatermarkBehindHandled
  BY DEF IInv, Shared, InOrder, WatermarkBehindHandled
<1> QED
  BY <1>1, Invariance, PTL

-----------------------------------------------------------------------------
\* Only activateSnapshotScript replaces an active snapshot.
LEMMA OnlyActivate ==
  ASSUME [Next]_vars
  PROVE  UNCHANGED active \/ \E t \in Threads : Activate(t)
<1> USE DEF cache
<1>1. ASSUME NEW t \in Threads, Begin(t) \/ FullRebuild(t) \/ Poll(t)
      PROVE  UNCHANGED active
  BY <1>1 DEF Begin, Change, UpdateCredentials, Delete, AutoPause, UpdateLastUsed,
    CrossQuota,
    Fallback, FullRebuild, Poll
<1>2. ASSUME NEW t \in Threads, RebuildStep(t)
      PROVE  UNCHANGED active \/ Activate(t)
  BY <1>2 DEF RebuildStep, RebuildDone, TryLockBucket, Load, Incr, Write, Unlock
<1>3. ASSUME NEW t \in Threads, PollStep(t)
      PROVE  UNCHANGED active
  BY <1>3 DEF PollStep, ListAfter, HandleEvent, HandleAccountEvent, HandleLastUsedEvent,
    Advance, CheckOutboxLag
<1>4. ASSUME NEW t \in Threads, WriterStep(t)
      PROVE  UNCHANGED active
  BY <1>4 DEF WriterStep, Enqueue, Commit, SyncRead, SyncWrite
<1>5. ASSUME NEW t \in Threads, Failure(t)
      PROVE  UNCHANGED active
  BY <1>5 DEF Failure, EnqueueFails, SyncFails, SetFails, UnlockFails, HandleFails,
    AdvanceFails, TryLockFails, FallbackOnError
<1>6. ASSUME NEW b \in Buckets, LockExpires(b) \/ LockOverrun(b)
      PROVE  UNCHANGED active
  BY <1>6 DEF LockExpires, LockOverrun
<1>7. ASSUME NEW i, Age(i)
      PROVE  UNCHANGED active
  BY <1>7 DEF Age
<1>8. ASSUME NEW p, Restart(p)
      PROVE  UNCHANGED active
  BY <1>8 DEF Restart
<1>9. CASE UNCHANGED vars
  BY <1>9 DEF vars
<1> QED
  BY <1>1, <1>2, <1>3, <1>4, <1>5, <1>6, <1>7, <1>8, <1>9 DEF Next

LEMMA ActivateInOrder ==
  ASSUME IInv, Exclusive, NEW t \in Threads, Activate(t), NEW b \in Buckets,
         active[b] # NoSnapshot
  PROVE  active'[b].at >= active[b].at
<1> USE ThreadFields DEF IInv, TypeOK
<1>1. active[b].at \in Nat /\ th[t].got.at \in Nat
  BY DEF Snapshot
<1>2. active'[b] = active[b] \/ (b = th[t].bucket /\ active'[b] = th[t].got)
  BY DEF Activate
<1>3. b = th[t].bucket => active[b].at <= th[t].got.at
  BY DEF RebuildOK, RebuildPCs, Activate, At
<1> QED
  BY <1>1, <1>2, <1>3

\* Rebuilds under a lock that outlasts them never replace a snapshot by one that
\* was loaded earlier (rebuildBucket, activateSnapshotScript).
THEOREM LoadsAreOrdered == Spec => LockOrdersLoads
<1> DEFINE Ordered ==
      config.threads \intersect Requests = {} /\ ~overrun
        => \A b \in Buckets : active[b] # NoSnapshot => active'[b].at >= active[b].at
<1>1. ASSUME IInv, [Next]_vars PROVE Ordered
  <2> SUFFICES ASSUME Exclusive, NEW b \in Buckets, active[b] # NoSnapshot
               PROVE  active'[b].at >= active[b].at
    BY DEF Exclusive
  <2>1. active[b].at \in Nat
    BY <1>1 DEF IInv, TypeOK, Snapshot
  <2> QED
    BY <1>1, <2>1, OnlyActivate, ActivateInOrder
<1>2. IInv /\ [Next]_vars => [Ordered]_vars
  BY <1>1
<1> QED
  BY <1>2, Invariance, PTL DEF Spec, LockOrdersLoads
=============================================================================

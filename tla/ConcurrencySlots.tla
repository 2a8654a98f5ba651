-------------------------- MODULE ConcurrencySlots --------------------------
(***************************************************************************)
(* The concurrency state in Redis (repository/concurrency_cache.go) and    *)
(* what service/concurrency_service.go makes of it: for every account and  *)
(* user a sorted set of slots, and for every wait queue a counter.  Each   *)
(* script is atomic, so each is an operator on one key.                    *)
(*                                                                         *)
(* There is no clock.  A slot whose score is older than the TTL counts in  *)
(* no script (each removes the old ones first), so a slot leaves the set   *)
(* when it expires, which the composing module lets happen at any time.    *)
(* A slot is named by the request that took it and a number that none of    *)
(* its slots in the set has, which is all that is used of the identifiers  *)
(* of generateRequestID being unique.                                      *)
(***************************************************************************)
EXTENDS Integers, FiniteSets

CONSTANTS Requests, Accounts, User

VARIABLES
  limit,         \* per key: the maximum concurrency, 0 for none
  slots,         \* per key: the members of the sorted set
  waiting        \* per key: the wait counter

store == <<slots, waiting>>

Keys == Accounts \cup {User}
Members == Requests \X (Nat \ {0})

StoreTypeOK ==
  /\ limit \in [Keys -> Nat]
  /\ slots \in [Keys -> SUBSET Members]
  /\ waiting \in [Keys -> Nat]

StoreInit ==
  /\ slots = [k \in Keys |-> {}]
  /\ waiting = [k \in Keys |-> 0]

-----------------------------------------------------------------------------
FreeOneTooMany(k) == Cardinality(slots[k]) <= limit[k]

\* acquireScript: ZCARD against the maximum.
Free(k) == Cardinality(slots[k]) < limit[k]

\* AcquireAccountSlot and AcquireUserSlot: without a limit the answer is yes
\* and nothing is stored.
Grants(k) == limit[k] = 0 \/ Free(k)

\* generateRequestID: the number of the next slot.
NextSlot(r, k) ==
  IF limit[k] = 0 THEN 1 ELSE CHOOSE n \in 1 .. limit[k] : <<r, n>> \notin slots[k]

\* The script adds the new member, if it is run and there is room.
AcquireSlot(r, k, run) ==
  /\ slots' = [slots EXCEPT ![k] = IF run /\ limit[k] > 0 /\ Free(k)
                                   THEN @ \cup {<<r, NextSlot(r, k)>>} ELSE @]
  /\ UNCHANGED waiting

\* ReleaseAccountSlot and ReleaseUserSlot: ZREM of the member.
ReleaseSlot(r, k, n, run) ==
  /\ slots' = [slots EXCEPT ![k] = IF run THEN @ \ {<<r, n>>} ELSE @]
  /\ UNCHANGED waiting

HasRoomUnchecked(k, max) == TRUE

\* incrementWaitScript and incrementAccountWaitScript refuse a full queue.
HasRoom(k, max) == waiting[k] < max

IncrementWait(k, max, run) ==
  /\ waiting' = [waiting EXCEPT ![k] = IF run /\ HasRoom(k, max) THEN @ + 1
                                       ELSE @]
  /\ UNCHANGED slots

\* decrementWaitScript never goes below zero.
DecrementWait(k, run) ==
  /\ waiting' = [waiting EXCEPT ![k] = IF run /\ @ > 0 THEN @ - 1 ELSE @]
  /\ UNCHANGED slots

\* GetAccountsLoadBatch: slots and waiters below EffectiveLoadFactor, which
\* is the limit where no load factor is set, and 1 without a limit.
Underloaded(k) ==
  Cardinality(slots[k]) + waiting[k] < (IF limit[k] > 0 THEN limit[k] ELSE 1)

\* ZREMRANGEBYSCORE of one member, in every script and in the cleanup worker.
DropSlot(k, m) ==
  /\ slots' = [slots EXCEPT ![k] = @ \ {m}]
  /\ UNCHANGED waiting

\* startupCleanupScript on one key: only the members of the starting process
\* stay; the wait counter is deleted.
KeepOnly(k, own) ==
  /\ slots' = [slots EXCEPT ![k] = @ \cap own]
  /\ waiting' = [waiting EXCEPT ![k] = 0]
=============================================================================

------------------------ MODULE GatewayRequestProofs -------------------------
(***************************************************************************)
(* What the gateway keeps true for every set of requests, accounts,        *)
(* sessions and processes and every configuration: slots are held by those *)
(* who use them, are left behind only by failures, queues keep their bound *)
(* and a client gets one answer.                                           *)
(***************************************************************************)
EXTENDS GatewayRequest, FiniteSetTheorems, TLAPS

\* Where a request may owe the release of an account's slot.
HolderPCs == {"stickySession", "stickyDrop", "session", "drop", "bind", "hydrate",
              "selected", "intercept", "uncountAccount", "bindAfterWait", "forward",
              "release"}

\* Where it owes it for certain.
OwingPCs == {"stickySession", "stickyDrop", "session", "drop", "bind", "intercept",
             "uncountAccount", "bindAfterWait"}

\* Where the account of a request is one of the accounts.
ChosenPCs == HolderPCs \cup {"stickyTry", "stickyWait", "stickyPlan", "countAccount",
                             "accountWait", "uncountAccountFail", "outcome", "succeed"}

UserPCs == AdmittedPCs \cup {"uncount"}

\* A request at label l with locals q holds the slots that the label says, and
\* gave them back or never had them elsewhere.
SlotsOK(l, q) ==
  /\ l \in ChosenPCs => q.account \in Accounts
  /\ q.accountSlot # 0 => l \in HolderPCs
  /\ l \in OwingPCs => q.accountSlot # 0
  /\ l = "forward" /\ ~q.canceled => q.accountSlot # 0
  /\ q.userSlot # 0 => l \in UserPCs
  /\ l \in UserPCs /\ ~q.canceled => q.userSlot # 0
  /\ l \in {"idle", "done", "dead"} => ~q.canceled
  /\ q.planMax \in {0, config.stickyWait, config.fallbackWait}

\* Before a forward nothing was delivered, after it what the result says, and
\* only what was delivered is billed.
AnswerOK(l, q) ==
  /\ l \notin {"release", "outcome", "succeed", "leave"} => q.delivered = 0 /\ q.billed = 0
  /\ l \in {"release", "outcome"} =>
        /\ q.delivered = (IF q.result.wrote THEN 1 ELSE 0) /\ q.billed = 0
        /\ q.result.kind = "ok" => q.result.wrote
        /\ q.result.kind = "tooLong" => ~q.result.wrote
  /\ l = "succeed" => q.delivered = 1 /\ q.billed = 0
  /\ l = "leave" => q.delivered \in 0 .. 1 /\ q.billed \in 0 .. q.delivered

\* The request with locals q owes the release of slot n of key k.
Owns(q, k, n) ==
  n # 0 /\ ((k = User /\ q.userSlot = n) \/ (k = q.account /\ q.accountSlot = n))

\* The slots a request holds are in Redis, unless it lost them there.
HeldOK(r) ==
  ~req[r].lapsed => \A k \in Keys, n \in Nat : Owns(req[r], k, n) /\ limit[k] > 0
                                                  => <<r, n>> \in slots[k]

\* No key has more slots than its limit, and no counter exceeds its maximum.
StoreOK ==
  \A k \in Keys : /\ IsFiniteSet(slots[k])
                  /\ limit[k] > 0 => Cardinality(slots[k]) <= limit[k]
                  /\ waiting[k] <= MaxWait(k)

\* Every orphan is accounted for.
OrphansOK == IsFiniteSet(Orphans) /\ SlotsAreReleased

\* Requests whose client is gone, and those of them that can still join the
\* queue of key k without being counted: a command with a done context fails.
Gone == {r \in Requests : req[r].canceled}
MayJoinPCs == SelectPCs \cup {"uncount", "billing", "countAccount", "uncountAccount",
                              "bindAfterWait", "forward", "release", "outcome"}
MayJoin(k) ==
  {r \in Requests : /\ req[r].canceled
                    /\ IF k = User THEN pc[r] = "count" ELSE pc[r] \in MayJoinPCs}

\* The counter of a key is behind its queue by the failures only.
QueueOK ==
  \/ restarted
  \/ /\ IsFiniteSet(Gone) /\ Cardinality(Gone) <= disturbances
     /\ \A k \in Keys :
          /\ IsFiniteSet(Waiters(k))
          /\ Cardinality(Waiters(k)) + Cardinality(MayJoin(k)) <= waiting[k] + disturbances

\* Only a process that was restarted cleans up.
CleaningOK == \A p \in Processes : cleaning[p] # {} => restarted

RequestOK(r) == SlotsOK(pc[r], req[r]) /\ AnswerOK(pc[r], req[r]) /\ HeldOK(r)

IInv ==
  /\ TypeOK /\ StoreOK /\ OrphansOK /\ QueueOK /\ CleaningOK
  /\ \A r \in Requests : RequestOK(r)

-----------------------------------------------------------------------------
(* What the types say. *)

LEMMA ConfigFields ==
  ASSUME TypeOK
  PROVE  /\ config.limit \in [Keys -> Nat] /\ config.group \subseteq Accounts
         /\ config.userWait \in Nat /\ config.stickyWait \in Nat
         /\ config.fallbackWait \in Nat /\ config.disturbances \in Nat
         /\ config.switches \in Nat /\ config.retries \in Nat
         /\ limit \in [Keys -> Nat] /\ slots \in [Keys -> SUBSET Members]
         /\ waiting \in [Keys -> Nat] /\ disturbances \in Nat /\ dropped \in Nat
         /\ \A k \in Keys : MaxWait(k) \in Nat
<1>1. config \in ConfigType
  BY GatewayAssumption DEF TypeOK
<1> QED
  BY <1>1 DEF TypeOK, StoreTypeOK, ConfigType, MaxWait

LEMMA RequestFields ==
  ASSUME TypeOK, NEW r \in Requests
  PROVE  /\ pc[r] \in PCs /\ req[r] \in Locals
         /\ req[r].account \in SomeAccount /\ req[r].bound \in SomeAccount
         /\ req[r].planMax \in Nat
         /\ req[r].candidates \subseteq Accounts /\ req[r].available \subseteq Accounts
         /\ req[r].failed \subseteq Accounts
         /\ req[r].userSlot \in Nat /\ req[r].accountSlot \in Nat
         /\ req[r].switches \in Nat /\ req[r].retries \in [Accounts -> Nat]
         /\ req[r].result \in Returned
         /\ req[r].canceled \in BOOLEAN /\ req[r].lapsed \in BOOLEAN
         /\ req[r].delivered \in Nat /\ req[r].billed \in Nat
<1>1. pc[r] \in PCs /\ req[r] \in Locals
  BY DEF TypeOK
<1> QED
  BY <1>1 DEF Locals

LEMMA KeyFacts ==
  /\ User \in Keys /\ Accounts \subseteq Keys /\ User \notin Accounts
  /\ NoAccount \notin Keys /\ NoAccount \notin Accounts /\ NoAccount # User
  /\ \A a \in SomeAccount : a \in Keys => a \in Accounts
BY GatewayAssumption DEF Keys, SomeAccount

LEMMA FreshTyped ==
  /\ Fresh \in Locals
  /\ Fresh.userSlot = 0 /\ Fresh.accountSlot = 0 /\ ~Fresh.canceled /\ Fresh.planMax = 0
  /\ Fresh.delivered = 0 /\ Fresh.billed = 0
<1>1. NoResult \in Returned
  BY DEF NoResult, Returned
<1> QED
  BY <1>1 DEF Fresh, Locals, SomeAccount

\* A free place has a number that none of the request's slots has.
LEMMA NextSlotIsNew ==
  ASSUME NEW r \in Requests, NEW k \in Keys, limit[k] \in Nat, IsFiniteSet(slots[k]),
         Grants(k)
  PROVE  /\ NextSlot(r, k) \in Nat \ {0}
         /\ limit[k] > 0 => <<r, NextSlot(r, k)>> \notin slots[k]
<1>1. CASE limit[k] = 0
  BY <1>1 DEF NextSlot
<1>2. CASE limit[k] > 0
  <2>1. \E n \in 1 .. limit[k] : <<r, n>> \notin slots[k]
    <3> SUFFICES ASSUME \A n \in 1 .. limit[k] : <<r, n>> \in slots[k]
                 PROVE  FALSE
      OBVIOUS
    <3> DEFINE f == [n \in 1 .. limit[k] |-> <<r, n>>]
    <3>1. f \in Injection(1 .. limit[k], slots[k])
      <4>1. f \in [1 .. limit[k] -> slots[k]]
        OBVIOUS
      <4>2. IsInjective(f)
        BY DEF IsInjective
      <4> QED
        BY <4>1, <4>2 DEF Injection
    <3> HIDE DEF f
    <3>2. Cardinality(1 .. limit[k]) <= Cardinality(slots[k])
      BY <3>1, FS_Injection
    <3>3. Cardinality(1 .. limit[k]) = limit[k]
      BY <1>2, FS_Interval
    <3>4. Cardinality(slots[k]) \in Nat
      BY FS_CardinalityType
    <3> QED
      BY <1>2, <3>2, <3>3, <3>4 DEF Grants, Free
  <2> QED
    BY <1>2, <2>1 DEF NextSlot
<1> QED
  BY <1>1, <1>2

-----------------------------------------------------------------------------
(* The effect of a step on the slots and on the queues: request r goes on  *)
(* with locals q at label l.                                               *)

SameSlots(r, q) ==
  /\ slots' = slots /\ dropped' = dropped
  /\ \A k \in Keys, n \in Nat : Owns(q, k, n) <=> Owns(req[r], k, n)

\* It is given a slot of k.
Takes(r, q, k) ==
  /\ Grants(k) /\ AcquireSlot(r, k, TRUE) /\ dropped' = dropped
  /\ \A j \in Keys, n \in Nat :
        Owns(q, j, n) <=> (Owns(req[r], j, n) \/ (j = k /\ n = NextSlot(r, k)))

\* It does not learn that it was given one.
Leaks(r, q, k) ==
  /\ limit[k] > 0 /\ Free(k) /\ AcquireSlot(r, k, TRUE)
  /\ dropped' = dropped /\ disturbances' = disturbances + 1
  /\ \A j \in Keys, n \in Nat : Owns(q, j, n) <=> Owns(req[r], j, n)

\* It releases its slot m of k, or leaves it behind.
Gives(r, q, k, m) ==
  /\ Owns(req[r], k, m)
  /\ \/ slots' = [slots EXCEPT ![k] = @ \ {<<r, m>>}] /\ dropped' = dropped
     \/ /\ slots' = slots
        /\ \/ dropped' = dropped /\ disturbances' = disturbances + 1
           \/ dropped' = dropped + 1 /\ disturbances' = disturbances
  /\ \A j \in Keys, n \in Nat :
        Owns(q, j, n) <=> (Owns(req[r], j, n) /\ ~(j = k /\ n = m))

SlotEffect(r, q) ==
  \/ SameSlots(r, q)
  \/ \E k \in Keys : Takes(r, q, k) \/ Leaks(r, q, k) \/ \E m \in Nat : Gives(r, q, k, m)

Queued(k, l, q) ==
  IF k = User THEN l \in UserQueuePCs ELSE l \in AccountQueuePCs /\ q.account = k

CanJoin(k, l, q) ==
  q.canceled /\ IF k = User THEN l = "count" ELSE l \in MayJoinPCs

\* It neither joins the queue of k nor becomes able to.
NoJoin(r, l, q, k) ==
  /\ Queued(k, l, q) => Queued(k, pc[r], req[r])
  /\ CanJoin(k, l, q) => CanJoin(k, pc[r], req[r])

Stays(r, l, q) == waiting' = waiting /\ \A k \in Keys : NoJoin(r, l, q, k)

\* It joins the queue of k: counted, or not because of a failure.
Joins(r, l, q, k) ==
  /\ \A j \in Keys \ {k} : NoJoin(r, l, q, j)
  /\ CanJoin(k, l, q) => CanJoin(k, pc[r], req[r])
  /\ \/ /\ waiting' = [waiting EXCEPT ![k] = @ + 1]
        /\ waiting[k] < MaxWait(k)
     \/ /\ waiting' = waiting
        /\ \/ disturbances' = disturbances + 1
           \/ CanJoin(k, pc[r], req[r]) /\ ~CanJoin(k, l, q)

\* It leaves the queue of k.
Unjoins(r, l, q, k) ==
  /\ Queued(k, pc[r], req[r]) /\ ~Queued(k, l, q)
  /\ \A j \in Keys \ {k} : NoJoin(r, l, q, j)
  /\ CanJoin(k, l, q) => CanJoin(k, pc[r], req[r])
  /\ \/ waiting' = waiting
     \/ waiting[k] > 0 /\ waiting' = [waiting EXCEPT ![k] = @ - 1]

QueueEffect(r, l, q) ==
  \/ Stays(r, l, q)
  \/ \E k \in Keys : Joins(r, l, q, k) \/ Unjoins(r, l, q, k)

\* Request r takes one step.
Moves(r, l, q) ==
  /\ pc[r] # "dead" /\ l \in PCs /\ q \in Locals /\ Step(r, l, q)
  /\ UNCHANGED <<limit, config, restarted, cleaning>>
  /\ sessions' \in [Accounts -> SUBSET Sessions] /\ sticky' \in [Sessions -> SomeAccount]
  /\ disturbances' \in disturbances .. config.disturbances
  /\ SlotsOK(l, q) /\ AnswerOK(l, q)
  /\ q.canceled => req[r].canceled
  /\ q.lapsed = req[r].lapsed \/ (q.userSlot = 0 /\ q.accountSlot = 0)
  /\ SlotEffect(r, q) /\ QueueEffect(r, l, q)

LEMMA OwnsInUse ==
  ASSUME NEW k, NEW m \in Members
  PROVE  InUse(k, m) <=> Owns(req[m[1]], k, m[2])
BY DEF InUse, Owns, Members

LEMMA StepSlots ==
  ASSUME IInv, NEW r \in Requests, NEW q, SlotEffect(r, q)
  PROVE  /\ slots' \in [Keys -> SUBSET Members] /\ dropped' \in Nat
         /\ \A k \in Keys : /\ IsFiniteSet(slots'[k])
                            /\ limit[k] > 0 => Cardinality(slots'[k]) <= limit[k]
         /\ \A u \in Requests \ {r}, k \in Keys, n \in Nat :
               <<u, n>> \in slots'[k] <=> <<u, n>> \in slots[k]
<1>1. /\ slots \in [Keys -> SUBSET Members] /\ dropped \in Nat /\ limit \in [Keys -> Nat]
      /\ \A k \in Keys : /\ IsFiniteSet(slots[k]) /\ Cardinality(slots[k]) \in Nat
                         /\ limit[k] > 0 => Cardinality(slots[k]) <= limit[k]
  BY ConfigFields, FS_CardinalityType DEF IInv, StoreOK
<1>2. CASE slots' = slots
  <2>1. dropped' = dropped \/ dropped' = dropped + 1
    BY DEF SlotEffect, SameSlots, Takes, Leaks, Gives
  <2>2. dropped' \in Nat
    BY <1>1, <2>1
  <2> QED
    BY <1>1, <1>2, <2>2
<1>3. ASSUME NEW k \in Keys, limit[k] > 0, Free(k), dropped' = dropped,
             slots' = [slots EXCEPT ![k] = @ \cup {<<r, NextSlot(r, k)>>}]
      PROVE  /\ slots' \in [Keys -> SUBSET Members] /\ dropped' \in Nat
             /\ \A j \in Keys : /\ IsFiniteSet(slots'[j])
                                /\ limit[j] > 0 => Cardinality(slots'[j]) <= limit[j]
             /\ \A u \in Requests \ {r}, j \in Keys, n \in Nat :
                   <<u, n>> \in slots'[j] <=> <<u, n>> \in slots[j]
  <2>1. NextSlot(r, k) \in Nat \ {0}
    BY <1>1, <1>3, NextSlotIsNew DEF Grants
  <2> DEFINE S == slots[k] \cup {<<r, NextSlot(r, k)>>}
  <2>2. IsFiniteSet(S) /\ Cardinality(S) <= Cardinality(slots[k]) + 1
    <3>1. /\ IsFiniteSet(S)
          /\ Cardinality(S) = Cardinality(slots[k]) \/ Cardinality(S) = Cardinality(slots[k]) + 1
      BY <1>1, FS_AddElement
    <3> HIDE DEF S
    <3> QED
      BY <1>1, <3>1
  <2>3. Cardinality(slots[k]) + 1 <= limit[k] /\ Cardinality(S) \in Nat
    BY <1>1, <1>3, <2>2, FS_CardinalityType DEF Free
  <2>4. S \subseteq Members
    BY <1>1, <2>1 DEF Members
  <2>5. slots' = [slots EXCEPT ![k] = S]
    BY <1>3
  <2>6. \A u \in Requests \ {r}, n \in Nat : <<u, n>> \in S <=> <<u, n>> \in slots[k]
    OBVIOUS
  <2> HIDE DEF S
  <2>7. Cardinality(S) <= limit[k]
    BY <1>1, <2>2, <2>3
  <2> QED
    BY <1>1, <1>3, <2>2, <2>4, <2>5, <2>6, <2>7
<1>4. ASSUME NEW k \in Keys, NEW m, dropped' = dropped,
             slots' = [slots EXCEPT ![k] = @ \ {<<r, m>>}]
      PROVE  /\ slots' \in [Keys -> SUBSET Members] /\ dropped' \in Nat
             /\ \A j \in Keys : /\ IsFiniteSet(slots'[j])
                                /\ limit[j] > 0 => Cardinality(slots'[j]) <= limit[j]
             /\ \A u \in Requests \ {r}, j \in Keys, n \in Nat :
                   <<u, n>> \in slots'[j] <=> <<u, n>> \in slots[j]
  <2> DEFINE S == slots[k] \ {<<r, m>>}
  <2>1. IsFiniteSet(S) /\ Cardinality(S) <= Cardinality(slots[k]) /\ S \subseteq Members
    BY <1>1, FS_Subset
  <2>2. slots' = [slots EXCEPT ![k] = S]
    BY <1>4
  <2>3. \A u \in Requests \ {r}, n \in Nat : <<u, n>> \in S <=> <<u, n>> \in slots[k]
    OBVIOUS
  <2>4. Cardinality(S) \in Nat
    BY <2>1, FS_CardinalityType
  <2> HIDE DEF S
  <2>5. limit[k] > 0 => Cardinality(S) <= limit[k]
    BY <1>1, <2>1, <2>4
  <2> QED
    BY <1>1, <1>4, <2>1, <2>2, <2>3, <2>5
<1>5. ASSUME NEW k \in Keys, Takes(r, q, k)
      PROVE  \/ slots' = slots
             \/ /\ limit[k] > 0 /\ Free(k) /\ dropped' = dropped
                /\ slots' = [slots EXCEPT ![k] = @ \cup {<<r, NextSlot(r, k)>>}]
  BY <1>1, <1>5 DEF Takes, Grants, AcquireSlot
<1>6. ASSUME NEW k \in Keys, Leaks(r, q, k)
      PROVE  /\ limit[k] > 0 /\ Free(k) /\ dropped' = dropped
             /\ slots' = [slots EXCEPT ![k] = @ \cup {<<r, NextSlot(r, k)>>}]
  BY <1>1, <1>6 DEF Leaks, AcquireSlot
<1>7. ASSUME NEW k \in Keys, NEW m \in Nat, Gives(r, q, k, m)
      PROVE  \/ slots' = slots
             \/ slots' = [slots EXCEPT ![k] = @ \ {<<r, m>>}] /\ dropped' = dropped
  BY <1>7 DEF Gives
<1>8. SameSlots(r, q) => slots' = slots
  BY DEF SameSlots
<1> QED
  BY <1>2, <1>3, <1>4, <1>5, <1>6, <1>7, <1>8 DEF SlotEffect

LEMMA CardSubset ==
  ASSUME NEW S, NEW T, IsFiniteSet(S), T \subseteq S
  PROVE  /\ IsFiniteSet(T) /\ Cardinality(T) <= Cardinality(S)
         /\ Cardinality(T) \in Nat /\ Cardinality(S) \in Nat
BY FS_Subset, FS_CardinalityType

LEMMA CardAdd ==
  ASSUME NEW S, NEW T, NEW x, IsFiniteSet(S), T \subseteq S \cup {x}
  PROVE  /\ IsFiniteSet(T) /\ Cardinality(T) <= Cardinality(S) + 1
         /\ Cardinality(T) \in Nat /\ Cardinality(S) \in Nat
<1> DEFINE U == S \cup {x}
<1>1. /\ IsFiniteSet(U)
      /\ Cardinality(U) = Cardinality(S) \/ Cardinality(U) = Cardinality(S) + 1
  BY FS_AddElement
<1>2. T \subseteq U
  OBVIOUS
<1> HIDE DEF U
<1>3. /\ IsFiniteSet(T) /\ Cardinality(T) <= Cardinality(U) /\ Cardinality(T) \in Nat
      /\ Cardinality(U) \in Nat /\ Cardinality(S) \in Nat
  BY <1>1, <1>2, CardSubset, FS_CardinalityType
<1> QED
  BY <1>1, <1>3

LEMMA CardRemove ==
  ASSUME NEW S, NEW T, NEW x \in S, IsFiniteSet(S), T \subseteq S \ {x}
  PROVE  /\ IsFiniteSet(T) /\ Cardinality(T) + 1 <= Cardinality(S)
         /\ Cardinality(T) \in Nat /\ Cardinality(S) \in Nat
<1> DEFINE U == S \ {x}
<1>1. IsFiniteSet(U) /\ Cardinality(U) = Cardinality(S) - 1
  BY FS_RemoveElement
<1>2. T \subseteq U
  OBVIOUS
<1> HIDE DEF U
<1>3. /\ IsFiniteSet(T) /\ Cardinality(T) <= Cardinality(U) /\ Cardinality(T) \in Nat
      /\ Cardinality(U) \in Nat /\ Cardinality(S) \in Nat
  BY <1>1, <1>2, CardSubset, FS_CardinalityType
<1> QED
  BY <1>1, <1>3

\* The slots that a step of r leaves to the requests.
LEMMA StepHeld ==
  ASSUME IInv, NEW r \in Requests, NEW l, NEW q, Moves(r, l, q)
  PROVE  \A u \in Requests : HeldOK(u)'
<1>1. TypeOK /\ \A u \in Requests : HeldOK(u)
  BY DEF IInv, RequestOK
<1>2. limit' = limit /\ req' = [req EXCEPT ![r] = q] /\ SlotEffect(r, q)
  BY DEF Moves, Step
<1>3. req \in [Requests -> Locals] /\ slots \in [Keys -> SUBSET Members]
      /\ limit \in [Keys -> Nat]
  BY <1>1, ConfigFields DEF TypeOK
<1>4. ASSUME NEW u \in Requests \ {r} PROVE HeldOK(u)'
  <2>1. req'[u] = req[u]
    BY <1>2, <1>3
  <2>2. \A k \in Keys, n \in Nat : <<u, n>> \in slots'[k] <=> <<u, n>> \in slots[k]
    BY <1>2, StepSlots
  <2> QED
    BY <1>1, <1>2, <2>1, <2>2 DEF HeldOK, Owns
<1>5. HeldOK(r)'
  <2> SUFFICES ASSUME ~q.lapsed, NEW k \in Keys, NEW n \in Nat, Owns(q, k, n), limit[k] > 0
               PROVE  <<r, n>> \in slots'[k]
    BY <1>2, <1>3 DEF HeldOK, Owns
  <2>1. ~req[r].lapsed
    BY DEF Moves, Owns
  <2>2. \A j \in Keys, i \in Nat : Owns(req[r], j, i) /\ limit[j] > 0 => <<r, i>> \in slots[j]
    BY <1>1, <2>1 DEF HeldOK
  <2>3. CASE SameSlots(r, q)
    BY <2>2, <2>3 DEF SameSlots
  <2>4. ASSUME NEW j \in Keys, Takes(r, q, j) PROVE <<r, n>> \in slots'[k]
    <3>1. Owns(req[r], k, n) \/ (k = j /\ n = NextSlot(r, j))
      BY <2>4 DEF Takes
    <3>2. slots' = [slots EXCEPT ![j] = IF limit[j] > 0 /\ Free(j)
                                        THEN @ \cup {<<r, NextSlot(r, j)>>} ELSE @]
      BY <2>4 DEF Takes, AcquireSlot
    <3>3. k = j => Free(j)
      BY <1>3, <2>4 DEF Takes, Grants
    <3> QED
      BY <1>3, <2>2, <3>1, <3>2, <3>3
  <2>5. ASSUME NEW j \in Keys, Leaks(r, q, j) PROVE <<r, n>> \in slots'[k]
    <3>1. Owns(req[r], k, n)
      BY <2>5 DEF Leaks
    <3>2. slots' = [slots EXCEPT ![j] = @ \cup {<<r, NextSlot(r, j)>>}]
      BY <2>5 DEF Leaks, AcquireSlot
    <3> QED
      BY <1>3, <2>2, <3>1, <3>2
  <2>6. ASSUME NEW j \in Keys, NEW m \in Nat, Gives(r, q, j, m)
        PROVE  <<r, n>> \in slots'[k]
    <3>1. Owns(req[r], k, n) /\ ~(k = j /\ n = m)
      BY <2>6 DEF Gives
    <3>2. slots' = slots \/ slots' = [slots EXCEPT ![j] = @ \ {<<r, m>>}]
      BY <2>6 DEF Gives
    <3> QED
      BY <1>3, <2>2, <3>1, <3>2
  <2> QED
    BY <1>2, <2>3, <2>4, <2>5, <2>6 DEF SlotEffect
<1> QED
  BY <1>4, <1>5

LEMMA OrphansAre ==
  ASSUME slots \in [Keys -> SUBSET Members]
  PROVE  \A x : x \in Orphans <=> \E k \in Keys, m \in Members :
            /\ m \in slots[k] /\ x = <<k, m>>
            /\ ~Owns(req[m[1]], k, m[2]) /\ pc[m[1]] # "dead"
<1> SUFFICES ASSUME NEW x
             PROVE  x \in Orphans <=> \E k \in Keys, m \in Members :
                       /\ m \in slots[k] /\ x = <<k, m>>
                       /\ ~Owns(req[m[1]], k, m[2]) /\ pc[m[1]] # "dead"
  OBVIOUS
<1>1. x \in UNION {{k} \X slots[k] : k \in Keys}
      <=> \E k \in Keys, m \in Members : m \in slots[k] /\ x = <<k, m>>
  OBVIOUS
<1>2. \A k \in Keys : \A m \in slots[k] : InUse(k, m) <=> Owns(req[m[1]], k, m[2])
  BY OwnsInUse
<1>3. x \in Orphans <=> /\ x \in UNION {{k} \X slots[k] : k \in Keys}
                       /\ ~InUse(x[1], x[2]) /\ pc[x[2][1]] # "dead"
  BY DEF Orphans
<1>4. ASSUME NEW k \in Keys, NEW m \in slots[k], x = <<k, m>>
      PROVE  (~InUse(x[1], x[2]) /\ pc[x[2][1]] # "dead")
             <=> (~Owns(req[m[1]], k, m[2]) /\ pc[m[1]] # "dead")
  <2>1. x[1] = k /\ x[2] = m
    BY <1>4
  <2> QED
    BY <1>2, <2>1
<1>5. x \in Orphans => \E k \in Keys, m \in Members :
         /\ m \in slots[k] /\ x = <<k, m>>
         /\ ~Owns(req[m[1]], k, m[2]) /\ pc[m[1]] # "dead"
  BY <1>1, <1>3, <1>4
<1>6. ASSUME NEW k \in Keys, NEW m \in slots[k],
             x = <<k, m>> /\ ~Owns(req[m[1]], k, m[2]) /\ pc[m[1]] # "dead"
      PROVE  x \in Orphans
  BY <1>1, <1>3, <1>4, <1>6
<1> QED
  BY <1>5, <1>6

LEMMA OrphansArePrime ==
  ASSUME slots' \in [Keys -> SUBSET Members]
  PROVE  \A x : x \in Orphans' <=> \E k \in Keys, m \in Members :
            /\ m \in slots'[k] /\ x = <<k, m>>
            /\ ~Owns(req'[m[1]], k, m[2]) /\ pc'[m[1]] # "dead"
<1> SUFFICES ASSUME NEW x
             PROVE  x \in Orphans' <=> \E k \in Keys, m \in Members :
                       /\ m \in slots'[k] /\ x = <<k, m>>
                       /\ ~Owns(req'[m[1]], k, m[2]) /\ pc'[m[1]] # "dead"
  OBVIOUS
<1>1. x \in UNION {{k} \X slots'[k] : k \in Keys}
      <=> \E k \in Keys, m \in Members : m \in slots'[k] /\ x = <<k, m>>
  OBVIOUS
<1>2. \A k \in Keys : \A m \in slots'[k] : InUse(k, m)' <=> Owns(req'[m[1]], k, m[2])
  BY DEF InUse, Owns, Members
<1> QED
  BY <1>1, <1>2 DEF Orphans

\* Sums of counters, stated of numbers: the provers do not add primed variables.
LEMMA SumKept == \A a, b, c, d \in Nat : c >= a /\ d = b => c + d >= a + b
OBVIOUS

LEMMA SumBounds ==
  \A n, m, a, b, c, d \in Nat :
     n <= m /\ m <= a + b /\ c + d >= a + b => n <= c + d
OBVIOUS

LEMMA SumGrows ==
  \A n, m, a, b, c, d \in Nat :
     n <= m + 1 /\ m <= a + b /\ c + d >= a + b + 1 => n <= c + d
OBVIOUS

\* No orphan more than failures more.
LEMMA OrphansCounted ==
  ASSUME OrphansOK, disturbances \in Nat, dropped \in Nat,
         disturbances' \in Nat, dropped' \in Nat,
         \/ Orphans' \subseteq Orphans /\ disturbances' + dropped' >= disturbances + dropped
         \/ /\ disturbances' + dropped' >= disturbances + dropped + 1
            /\ \E x : Orphans' \subseteq Orphans \cup {x}
  PROVE  OrphansOK'
<1>1. IsFiniteSet(Orphans) /\ Cardinality(Orphans) <= disturbances + dropped
  BY DEF OrphansOK, SlotsAreReleased
<1>2. disturbances \in Nat /\ dropped \in Nat /\ disturbances' \in Nat /\ dropped' \in Nat
  OBVIOUS
<1>3. CASE Orphans' \subseteq Orphans /\ disturbances' + dropped' >= disturbances + dropped
  <2>1. /\ IsFiniteSet(Orphans') /\ Cardinality(Orphans') <= Cardinality(Orphans)
        /\ Cardinality(Orphans') \in Nat /\ Cardinality(Orphans) \in Nat
    BY <1>1, <1>3, CardSubset
  <2>2. Cardinality(Orphans') <= disturbances' + dropped'
    BY <1>1, <1>3, <1>2, <2>1, SumBounds
  <2> QED
    BY <2>1, <2>2 DEF OrphansOK, SlotsAreReleased
<1>4. ASSUME NEW x, Orphans' \subseteq Orphans \cup {x},
             disturbances' + dropped' >= disturbances + dropped + 1
      PROVE  OrphansOK'
  <2>1. /\ IsFiniteSet(Orphans') /\ Cardinality(Orphans') <= Cardinality(Orphans) + 1
        /\ Cardinality(Orphans') \in Nat /\ Cardinality(Orphans) \in Nat
    BY <1>1, <1>4, CardAdd
  <2>2. Cardinality(Orphans') <= disturbances' + dropped'
    BY <1>1, <1>4, <1>2, <2>1, SumGrows
  <2> QED
    BY <2>1, <2>2 DEF OrphansOK, SlotsAreReleased
<1> QED
  BY <1>3, <1>4

\* A slot is left behind by a failure or a failed selection only.
LEMMA StepOrphans ==
  ASSUME IInv, NEW r \in Requests, NEW l, NEW q, Moves(r, l, q)
  PROVE  OrphansOK'
<1>1. /\ TypeOK /\ OrphansOK /\ slots \in [Keys -> SUBSET Members]
      /\ disturbances \in Nat /\ dropped \in Nat
  BY ConfigFields DEF IInv
<1>2. /\ pc' = [pc EXCEPT ![r] = l] /\ req' = [req EXCEPT ![r] = q] /\ pc[r] # "dead"
      /\ SlotEffect(r, q)
  BY DEF Moves, Step
<1>3. slots' \in [Keys -> SUBSET Members] /\ dropped' \in Nat
  BY <1>2, StepSlots
<1>4. disturbances' \in Nat /\ disturbances' >= disturbances
  BY <1>1, ConfigFields DEF Moves
<1>5. /\ pc \in [Requests -> PCs] /\ req \in [Requests -> Locals]
      /\ \A k \in Keys : \A m \in slots[k] :
            m[1] \in Requests /\ m[2] \in Nat /\ m = <<m[1], m[2]>>
      /\ \A k \in Keys : \A m \in slots'[k] :
            m[1] \in Requests /\ m[2] \in Nat /\ m = <<m[1], m[2]>>
  BY <1>1, <1>3 DEF TypeOK, Members
<1>6. \A k \in Keys : \A m \in slots[k] :
         m[1] # r => (Owns(req'[m[1]], k, m[2]) <=> Owns(req[m[1]], k, m[2]))
                     /\ pc'[m[1]] = pc[m[1]]
  BY <1>2, <1>5
<1>7. \A k \in Keys : \A m \in slots'[k] : m \in slots[k] \/ m[1] = r
  BY <1>2, <1>5, StepSlots
<1>8. req'[r] = q
  BY <1>2, <1>5
\* Orphans of the others stay what they were; those of r depend on what it owns.
<1>9. ASSUME NEW x \in Orphans',
             \A k \in Keys : \A m \in slots'[k] : x = <<k, m>> /\ m[1] = r
                => m \in slots[k] /\ ~Owns(req[r], k, m[2])
      PROVE  x \in Orphans
  <2>1. PICK k \in Keys, m \in Members :
           /\ m \in slots'[k] /\ x = <<k, m>>
           /\ ~Owns(req'[m[1]], k, m[2]) /\ pc'[m[1]] # "dead"
    BY <1>3, OrphansArePrime
  <2>2. CASE m[1] = r
    BY <1>1, <1>2, <1>9, <2>1, <2>2, OrphansAre
  <2>3. CASE m[1] # r
    BY <1>1, <1>6, <1>7, <2>1, <2>3, OrphansAre
  <2> QED
    BY <2>2, <2>3
<1>10. CASE SameSlots(r, q)
  <2>1. Orphans' \subseteq Orphans
    <3> SUFFICES ASSUME NEW x \in Orphans' PROVE x \in Orphans
      OBVIOUS
    <3>1. PICK k \in Keys, m \in Members :
             m \in slots'[k] /\ x = <<k, m>> /\ ~Owns(req'[m[1]], k, m[2])
      BY <1>3, OrphansArePrime
    <3>2. m \in slots[k] /\ (m[1] = r => ~Owns(req[r], k, m[2]))
      BY <1>5, <1>8, <1>10, <3>1 DEF SameSlots
    <3>3. \A j \in Keys : \A i \in slots'[j] : x = <<j, i>> => j = k /\ i = m
      BY <3>1
    <3> QED
      BY <1>9, <3>2, <3>3
  <2>2. dropped' = dropped
    BY <1>10 DEF SameSlots
  <2>3. disturbances' + dropped' >= disturbances + dropped
    BY <1>1, <1>3, <1>4, <2>2, SumKept
  <2> QED
    BY <1>1, <1>3, <1>4, <2>1, <2>3, OrphansCounted
<1>11. ASSUME NEW j \in Keys, Takes(r, q, j) PROVE OrphansOK'
  <2>1. Orphans' \subseteq Orphans
    <3> SUFFICES ASSUME NEW x \in Orphans' PROVE x \in Orphans
      OBVIOUS
    <3>1. PICK k \in Keys, m \in Members :
             m \in slots'[k] /\ x = <<k, m>> /\ ~Owns(req'[m[1]], k, m[2])
      BY <1>3, OrphansArePrime
    <3>2. slots' = [slots EXCEPT ![j] = IF limit[j] > 0 /\ Free(j)
                                        THEN @ \cup {<<r, NextSlot(r, j)>>} ELSE @]
      BY <1>11 DEF Takes, AcquireSlot
    <3>3. m \in slots[k] \/ (k = j /\ m = <<r, NextSlot(r, j)>>)
      BY <1>1, <3>1, <3>2
    <3>4. m[1] = r => ~Owns(req[r], k, m[2]) /\ ~(k = j /\ m[2] = NextSlot(r, j))
      BY <1>5, <1>8, <1>11, <3>1 DEF Takes
    <3>5. \A i \in Keys : \A n \in slots'[i] : x = <<i, n>> => i = k /\ n = m
      BY <3>1
    <3> QED
      BY <1>9, <3>3, <3>4, <3>5
  <2>2. dropped' = dropped
    BY <1>11 DEF Takes
  <2>3. disturbances' + dropped' >= disturbances + dropped
    BY <1>1, <1>3, <1>4, <2>2, SumKept
  <2> QED
    BY <1>1, <1>3, <1>4, <2>1, <2>3, OrphansCounted
<1>12. ASSUME NEW j \in Keys, Leaks(r, q, j) PROVE OrphansOK'
  <2>1. Orphans' \subseteq Orphans \cup {<<j, <<r, NextSlot(r, j)>>>>}
    <3> SUFFICES ASSUME NEW x \in Orphans', x # <<j, <<r, NextSlot(r, j)>>>>
                 PROVE  x \in Orphans
      OBVIOUS
    <3>1. PICK k \in Keys, m \in Members :
             m \in slots'[k] /\ x = <<k, m>> /\ ~Owns(req'[m[1]], k, m[2])
      BY <1>3, OrphansArePrime
    <3>2. slots' = [slots EXCEPT ![j] = @ \cup {<<r, NextSlot(r, j)>>}]
      BY <1>12 DEF Leaks, AcquireSlot
    <3>3. m \in slots[k]
      BY <1>1, <3>1, <3>2
    <3>4. m[1] = r => ~Owns(req[r], k, m[2])
      BY <1>5, <1>8, <1>12, <3>1 DEF Leaks
    <3>5. \A i \in Keys : \A n \in slots'[i] : x = <<i, n>> => i = k /\ n = m
      BY <3>1
    <3> QED
      BY <1>9, <3>3, <3>4, <3>5
  <2>2. dropped' = dropped /\ disturbances' = disturbances + 1
    BY <1>12 DEF Leaks
  <2>3. disturbances' + dropped' >= disturbances + dropped + 1
    BY <1>1, <2>2
  <2> QED
    BY <1>1, <1>3, <1>4, <2>1, <2>3, OrphansCounted
<1>13. ASSUME NEW j \in Keys, NEW i \in Nat, Gives(r, q, j, i) PROVE OrphansOK'
  <2>1. ASSUME NEW x \in Orphans', x # <<j, <<r, i>>>> PROVE x \in Orphans
    <3>1. PICK k \in Keys, m \in Members :
             m \in slots'[k] /\ x = <<k, m>> /\ ~Owns(req'[m[1]], k, m[2])
      BY <1>3, OrphansArePrime
    <3>2. slots' = slots \/ slots' = [slots EXCEPT ![j] = @ \ {<<r, i>>}]
      BY <1>13 DEF Gives
    <3>3. m \in slots[k]
      BY <1>1, <3>1, <3>2
    <3>4. m[1] = r => ~(k = j /\ m[2] = i)
      BY <1>5, <2>1, <3>1
    <3>5. m[1] = r => ~Owns(req[r], k, m[2])
      BY <1>5, <1>8, <1>13, <3>1, <3>4 DEF Gives
    <3>6. \A n \in Keys : \A o \in slots'[n] : x = <<n, o>> => n = k /\ o = m
      BY <3>1
    <3> QED
      BY <1>9, <3>3, <3>5, <3>6
  <2>2. CASE slots' = [slots EXCEPT ![j] = @ \ {<<r, i>>}] /\ dropped' = dropped
    <3>1. <<j, <<r, i>>>> \notin Orphans'
      <4>1. <<r, i>> \notin slots'[j]
        BY <1>1, <2>2
      <4> QED
        BY <1>3, <4>1, OrphansArePrime
    <3>2. Orphans' \subseteq Orphans
      BY <2>1, <3>1
    <3>3. disturbances' + dropped' >= disturbances + dropped
      BY <1>1, <1>3, <1>4, <2>2, SumKept
    <3> QED
      BY <1>1, <1>3, <1>4, <3>2, <3>3, OrphansCounted
  <2>3. CASE slots' = slots /\ disturbances' + dropped' >= disturbances + dropped + 1
    <3>1. Orphans' \subseteq Orphans \cup {<<j, <<r, i>>>>}
      BY <2>1
    <3> QED
      BY <1>1, <1>3, <1>4, <2>3, <3>1, OrphansCounted
  <2>4. \/ dropped' = dropped /\ disturbances' = disturbances + 1
        \/ dropped' = dropped + 1 /\ disturbances' = disturbances
        => disturbances' + dropped' >= disturbances + dropped + 1
    BY <1>1
  <2> QED
    BY <1>13, <2>2, <2>3, <2>4 DEF Gives
<1> QED
  BY <1>2, <1>10, <1>11, <1>12, <1>13 DEF SlotEffect

-----------------------------------------------------------------------------
(* The queues. *)

\* A queue W and those that may join it, M, are covered by the counter w and
\* the failures d.
Covered(W, M, w, d) ==
  /\ IsFiniteSet(W) /\ IsFiniteSet(M) /\ w \in Nat /\ d \in Nat
  /\ Cardinality(W) + Cardinality(M) <= w + d

\* Nobody joins.
LEMMA QueueKept ==
  ASSUME NEW W, NEW M, NEW W2, NEW M2, NEW w, NEW w2 \in Nat, NEW d, NEW d2 \in Nat,
         Covered(W, M, w, d),
         W2 \subseteq W, M2 \subseteq M, w2 + d2 >= w + d
  PROVE  Covered(W2, M2, w2, d2)
<1>1. /\ IsFiniteSet(W2) /\ Cardinality(W2) <= Cardinality(W)
      /\ Cardinality(W2) \in Nat /\ Cardinality(W) \in Nat
  BY CardSubset DEF Covered
<1>2. /\ IsFiniteSet(M2) /\ Cardinality(M2) <= Cardinality(M)
      /\ Cardinality(M2) \in Nat /\ Cardinality(M) \in Nat
  BY CardSubset DEF Covered
<1> QED
  BY <1>1, <1>2 DEF Covered

\* x joins, counted or with a failure.
LEMMA QueueJoined ==
  ASSUME NEW W, NEW M, NEW W2, NEW M2, NEW x, NEW w, NEW w2 \in Nat, NEW d, NEW d2 \in Nat,
         Covered(W, M, w, d),
         W2 \subseteq W \cup {x}, M2 \subseteq M, w2 + d2 >= w + d + 1
  PROVE  Covered(W2, M2, w2, d2)
<1>1. /\ IsFiniteSet(W2) /\ Cardinality(W2) <= Cardinality(W) + 1
      /\ Cardinality(W2) \in Nat /\ Cardinality(W) \in Nat
  BY CardAdd DEF Covered
<1>2. /\ IsFiniteSet(M2) /\ Cardinality(M2) <= Cardinality(M)
      /\ Cardinality(M2) \in Nat /\ Cardinality(M) \in Nat
  BY CardSubset DEF Covered
<1> QED
  BY <1>1, <1>2 DEF Covered

\* x joins uncounted, as it might.
LEMMA QueueEntered ==
  ASSUME NEW W, NEW M, NEW W2, NEW M2, NEW x, NEW w, NEW w2 \in Nat, NEW d, NEW d2 \in Nat,
         Covered(W, M, w, d),
         x \in M, W2 \subseteq W \cup {x}, M2 \subseteq M \ {x}, w2 + d2 >= w + d
  PROVE  Covered(W2, M2, w2, d2)
<1>1. /\ IsFiniteSet(W2) /\ Cardinality(W2) <= Cardinality(W) + 1
      /\ Cardinality(W2) \in Nat /\ Cardinality(W) \in Nat
  BY CardAdd DEF Covered
<1>2. /\ IsFiniteSet(M2) /\ Cardinality(M2) + 1 <= Cardinality(M)
      /\ Cardinality(M2) \in Nat /\ Cardinality(M) \in Nat
  BY CardRemove DEF Covered
<1> QED
  BY <1>1, <1>2 DEF Covered

\* x leaves.
LEMMA QueueLeft ==
  ASSUME NEW W, NEW M, NEW W2, NEW M2, NEW x, NEW w, NEW w2 \in Nat, NEW d, NEW d2 \in Nat,
         Covered(W, M, w, d),
         x \in W, W2 \subseteq W \ {x}, M2 \subseteq M, w2 + d2 + 1 >= w + d
  PROVE  Covered(W2, M2, w2, d2)
<1>1. /\ IsFiniteSet(W2) /\ Cardinality(W2) + 1 <= Cardinality(W)
      /\ Cardinality(W2) \in Nat /\ Cardinality(W) \in Nat
  BY CardRemove DEF Covered
<1>2. /\ IsFiniteSet(M2) /\ Cardinality(M2) <= Cardinality(M)
      /\ Cardinality(M2) \in Nat /\ Cardinality(M) \in Nat
  BY CardSubset DEF Covered
<1> QED
  BY <1>1, <1>2 DEF Covered

LEMMA SumGains == \A a, b, c, d \in Nat : c = a + 1 /\ d >= b => c + d >= a + b + 1
OBVIOUS

LEMMA SumLoses == \A a, b, c, d \in Nat : c = a - 1 /\ d >= b => c + d + 1 >= a + b
OBVIOUS

LEMMA SumFails == \A a, b, c, d \in Nat : c = a /\ d = b + 1 => c + d >= a + b + 1
OBVIOUS

LEMMA SumStays ==
  \A a, b, c, d \in Nat : c = a /\ d >= b => c + d >= a + b /\ c + d + 1 >= a + b
OBVIOUS

\* A counter that a step changes keeps its type and its maximum.
LEMMA StepWaiting ==
  ASSUME IInv, NEW r \in Requests, NEW l, NEW q, QueueEffect(r, l, q)
  PROVE  /\ waiting' \in [Keys -> Nat]
         /\ \A k \in Keys : waiting'[k] <= MaxWait(k)
<1>1. waiting \in [Keys -> Nat] /\ \A k \in Keys : MaxWait(k) \in Nat /\ waiting[k] <= MaxWait(k)
  BY ConfigFields DEF IInv, StoreOK
<1>2. \/ waiting' = waiting
      \/ \E k \in Keys : waiting[k] < MaxWait(k) /\ waiting' = [waiting EXCEPT ![k] = @ + 1]
      \/ \E k \in Keys : waiting[k] > 0 /\ waiting' = [waiting EXCEPT ![k] = @ - 1]
  BY DEF QueueEffect, Stays, Joins, Unjoins
<1>3. ASSUME NEW k \in Keys, NEW n \in Nat, n <= MaxWait(k),
             waiting' = [waiting EXCEPT ![k] = n]
      PROVE  waiting' \in [Keys -> Nat] /\ \A j \in Keys : waiting'[j] <= MaxWait(j)
  BY <1>1, <1>3
<1>4. ASSUME NEW k \in Keys, waiting[k] < MaxWait(k)
      PROVE  waiting[k] + 1 \in Nat /\ waiting[k] + 1 <= MaxWait(k)
  BY <1>1, <1>4
<1>5. ASSUME NEW k \in Keys, waiting[k] > 0
      PROVE  waiting[k] - 1 \in Nat /\ waiting[k] - 1 <= MaxWait(k)
  BY <1>1, <1>5
<1> QED
  BY <1>1, <1>2, <1>3, <1>4, <1>5

LEMMA QueuedWaits ==
  /\ \A k \in Keys : /\ Waiters(k) = {u \in Requests : Queued(k, pc[u], req[u])}
                     /\ MayJoin(k) = {u \in Requests : CanJoin(k, pc[u], req[u])}
  /\ \A k \in Keys : /\ Waiters(k)' = {u \in Requests : Queued(k, pc'[u], req'[u])}
                     /\ MayJoin(k)' = {u \in Requests : CanJoin(k, pc'[u], req'[u])}
BY DEF Waiters, MayJoin, Queued, CanJoin

LEMMA StepQueues ==
  ASSUME IInv, NEW r \in Requests, NEW l, NEW q, Moves(r, l, q)
  PROVE  QueueOK'
<1> SUFFICES ASSUME ~restarted PROVE QueueOK'
  BY DEF Moves, QueueOK
<1>1. /\ TypeOK /\ IsFiniteSet(Gone) /\ Cardinality(Gone) <= disturbances
      /\ \A k \in Keys :
           /\ IsFiniteSet(Waiters(k))
           /\ Cardinality(Waiters(k)) + Cardinality(MayJoin(k)) <= waiting[k] + disturbances
  BY DEF IInv, QueueOK
<1>2. /\ pc' = [pc EXCEPT ![r] = l] /\ req' = [req EXCEPT ![r] = q]
      /\ q.canceled => req[r].canceled
      /\ QueueEffect(r, l, q)
  BY DEF Moves, Step
<1>3. /\ disturbances \in Nat /\ disturbances' \in Nat /\ disturbances' >= disturbances
      /\ waiting \in [Keys -> Nat] /\ waiting' \in [Keys -> Nat]
  <2>1. disturbances \in Nat /\ config.disturbances \in Nat /\ waiting \in [Keys -> Nat]
    BY <1>1, ConfigFields
  <2>2. disturbances' \in Nat /\ disturbances' >= disturbances
    BY <2>1 DEF Moves
  <2> QED
    BY <1>2, <2>1, <2>2, StepWaiting
<1>4. pc \in [Requests -> PCs] /\ req \in [Requests -> Locals]
  BY <1>1 DEF TypeOK
<1>5. /\ \A u \in Requests \ {r} : pc'[u] = pc[u] /\ req'[u] = req[u]
      /\ pc'[r] = l /\ req'[r] = q
  BY <1>2, <1>4
<1>6. IsFiniteSet(Gone') /\ Cardinality(Gone') <= disturbances'
  <2>1. Gone' \subseteq Gone
    BY <1>2, <1>5 DEF Gone
  <2>2. /\ IsFiniteSet(Gone') /\ Cardinality(Gone') <= Cardinality(Gone)
        /\ Cardinality(Gone') \in Nat /\ Cardinality(Gone) \in Nat
    BY <1>1, <2>1, CardSubset
  <2> QED
    BY <1>1, <1>3, <2>2
<1>7. \A k \in Keys : IsFiniteSet(MayJoin(k))
  <2>1. \A k \in Keys : MayJoin(k) \subseteq Gone
    BY DEF MayJoin, Gone
  <2> QED
    BY <1>1, <2>1, CardSubset
<1>8. ASSUME NEW k \in Keys
      PROVE  /\ IsFiniteSet(Waiters(k)')
             /\ Cardinality(Waiters(k)') + Cardinality(MayJoin(k)') <= waiting'[k] + disturbances'
  <2> DEFINE W == Waiters(k)
             M == MayJoin(k)
             W2 == Waiters(k)'
             M2 == MayJoin(k)'
  <2>1. /\ \A u \in Requests : u \in W <=> Queued(k, pc[u], req[u])
        /\ \A u \in Requests : u \in M <=> CanJoin(k, pc[u], req[u])
        /\ W \subseteq Requests /\ M \subseteq Requests
    BY QueuedWaits
  <2>2. /\ \A u \in W2 : u \in Requests /\ (u \in W \/ (u = r /\ Queued(k, l, q)))
        /\ \A u \in M2 : u \in Requests /\ (u \in M \/ (u = r /\ CanJoin(k, l, q)))
        /\ r \in W2 <=> Queued(k, l, q)
        /\ r \in M2 <=> CanJoin(k, l, q)
    BY <1>5, QueuedWaits
  <2>3. waiting[k] \in Nat /\ waiting'[k] \in Nat
    BY <1>3
  <2>4. Covered(W, M, waiting[k], disturbances)
    BY <1>1, <1>3, <1>7, <2>3 DEF Covered
  <2> HIDE DEF W, M, W2, M2
  <2>5. CASE waiting'[k] = waiting[k] /\ NoJoin(r, l, q, k)
    <3>1. W2 \subseteq W /\ M2 \subseteq M
      BY <2>1, <2>2, <2>5 DEF NoJoin
    <3>2. waiting'[k] + disturbances' >= waiting[k] + disturbances
      BY <1>3, <2>3, <2>5, SumStays
    <3>3. Covered(W2, M2, waiting'[k], disturbances')
      BY <1>3, <2>4, <2>3, <3>1, <3>2, QueueKept
    <3> QED
      BY <3>3 DEF W2, M2, Covered
  <2>6. CASE Joins(r, l, q, k)
    <3>1. W2 \subseteq W \cup {r} /\ M2 \subseteq M
      BY <2>1, <2>2, <2>6 DEF Joins
    <3>2. CASE waiting'[k] = waiting[k] + 1
      <4>1. waiting'[k] + disturbances' >= waiting[k] + disturbances + 1
        BY <1>3, <2>3, <3>2, SumGains
      <4>2. Covered(W2, M2, waiting'[k], disturbances')
        BY <1>3, <2>4, <2>3, <3>1, <4>1, QueueJoined
      <4> QED
        BY <4>2 DEF W2, M2, Covered
    <3>3. CASE waiting'[k] = waiting[k] /\ disturbances' = disturbances + 1
      <4>1. waiting'[k] + disturbances' >= waiting[k] + disturbances + 1
        BY <1>3, <2>3, <3>3, SumFails
      <4>2. Covered(W2, M2, waiting'[k], disturbances')
        BY <1>3, <2>4, <2>3, <3>1, <4>1, QueueJoined
      <4> QED
        BY <4>2 DEF W2, M2, Covered
    <3>4. CASE /\ waiting'[k] = waiting[k]
               /\ CanJoin(k, pc[r], req[r]) /\ ~CanJoin(k, l, q)
      <4>1. waiting'[k] + disturbances' >= waiting[k] + disturbances
        BY <1>3, <2>3, <3>4, SumStays
      <4>2. r \in M /\ M2 \subseteq M \ {r}
        BY <2>1, <2>2, <3>1, <3>4
      <4>3. Covered(W2, M2, waiting'[k], disturbances')
        BY <1>3, <2>4, <2>3, <3>1, <4>1, <4>2, QueueEntered
      <4> QED
        BY <4>3 DEF W2, M2, Covered
    <3> QED
      BY <1>3, <2>6, <3>2, <3>3, <3>4 DEF Joins
  <2>7. CASE Unjoins(r, l, q, k)
    <3>1. r \in W /\ W2 \subseteq W \ {r} /\ M2 \subseteq M
      BY <2>1, <2>2, <2>7 DEF Unjoins
    <3>2. waiting'[k] = waiting[k] \/ waiting'[k] = waiting[k] - 1
      BY <1>3, <2>7 DEF Unjoins
    <3>3. waiting'[k] + disturbances' + 1 >= waiting[k] + disturbances
      BY <1>3, <2>3, <3>2, SumStays, SumLoses
    <3>4. Covered(W2, M2, waiting'[k], disturbances')
      BY <1>3, <2>4, <2>3, <3>1, <3>3, QueueLeft
    <3> QED
      BY <3>4 DEF W2, M2, Covered
  <2>8. ASSUME NEW j \in Keys \ {k}, Joins(r, l, q, j) \/ Unjoins(r, l, q, j)
        PROVE  waiting'[k] = waiting[k] /\ NoJoin(r, l, q, k)
    BY <1>3, <2>8 DEF Joins, Unjoins
  <2> QED
    BY <1>2, <2>5, <2>6, <2>7, <2>8 DEF QueueEffect, Stays
<1> QED
  BY <1>6, <1>8 DEF QueueOK

LEMMA StepKeeps ==
  ASSUME IInv, NEW r \in Requests, NEW l, NEW q, Moves(r, l, q)
  PROVE  IInv'
<1>1. TypeOK /\ CleaningOK /\ \A u \in Requests : RequestOK(u)
  BY DEF IInv
<1>2. /\ l \in PCs /\ q \in Locals
      /\ pc' = [pc EXCEPT ![r] = l] /\ req' = [req EXCEPT ![r] = q]
      /\ limit' = limit /\ config' = config /\ restarted' = restarted /\ cleaning' = cleaning
      /\ SlotEffect(r, q) /\ QueueEffect(r, l, q)
  BY DEF Moves, Step
<1>3. pc \in [Requests -> PCs] /\ req \in [Requests -> Locals]
  BY <1>1 DEF TypeOK
<1>4. pc' \in [Requests -> PCs] /\ req' \in [Requests -> Locals]
  BY <1>2, <1>3
<1>5. disturbances' \in 0 .. config'.disturbances
  BY <1>1, <1>2, ConfigFields DEF Moves
<1>6. /\ slots' \in [Keys -> SUBSET Members] /\ dropped' \in Nat
      /\ \A k \in Keys : /\ IsFiniteSet(slots'[k])
                         /\ limit[k] > 0 => Cardinality(slots'[k]) <= limit[k]
  BY <1>2, StepSlots
<1>7. /\ waiting' \in [Keys -> Nat]
      /\ \A k \in Keys : waiting'[k] <= MaxWait(k)
  BY <1>2, StepWaiting
<1>8. TypeOK'
  BY <1>1, <1>2, <1>4, <1>5, <1>6, <1>7 DEF TypeOK, StoreTypeOK, Moves
<1>9. StoreOK'
  <2>1. \A k \in Keys : MaxWait(k)' = MaxWait(k)
    BY <1>2 DEF MaxWait
  <2> QED
    BY <1>2, <1>6, <1>7, <2>1 DEF StoreOK
<1>10. CleaningOK'
  BY <1>1, <1>2 DEF CleaningOK
<1>11. ASSUME NEW u \in Requests PROVE (SlotsOK(pc[u], req[u]) /\ AnswerOK(pc[u], req[u]))'
  <2>1. CASE u = r
    <3>1. pc'[u] = l /\ req'[u] = q
      BY <1>2, <1>3, <2>1
    <3> QED
      BY <1>2, <3>1 DEF Moves, SlotsOK, AnswerOK
  <2>2. CASE u # r
    <3>1. pc'[u] = pc[u] /\ req'[u] = req[u]
      BY <1>2, <1>3, <2>2
    <3> QED
      BY <1>1, <1>2, <3>1 DEF RequestOK, SlotsOK, AnswerOK
  <2> QED
    BY <2>1, <2>2
<1>12. \A u \in Requests : RequestOK(u)'
  BY <1>11, StepHeld DEF RequestOK
<1> QED
  BY <1>8, <1>9, <1>10, <1>12, StepOrphans, StepQueues DEF IInv

-----------------------------------------------------------------------------
(* The steps of a request. *)

LEMMA CallEffect ==
  ASSUME TypeOK, NEW r \in Requests, NEW x \in Results, Call(r, x)
  PROVE  /\ disturbances' \in disturbances .. config.disturbances
         /\ x # "lost" => ~req[r].canceled
         /\ x = "late" => disturbances' = disturbances + 1
         /\ x = "lost" /\ ~req[r].canceled => disturbances' = disturbances + 1
<1>1. /\ disturbances \in 0 .. config.disturbances
      /\ disturbances \in Nat /\ config.disturbances \in Nat
  BY ConfigFields DEF TypeOK
<1> QED
  BY <1>1 DEF Call, Outcome, Disturb, Results

LEMMA OutcomeEffect ==
  ASSUME TypeOK, NEW x \in Results, Outcome(x)
  PROVE  /\ disturbances' \in disturbances .. config.disturbances
         /\ x # "ok" => disturbances' = disturbances + 1
<1>1. /\ disturbances \in 0 .. config.disturbances
      /\ disturbances \in Nat /\ config.disturbances \in Nat
  BY ConfigFields DEF TypeOK
<1> QED
  BY <1>1 DEF Outcome, Disturb

\* What a request may assume of itself.
LEMMA Self ==
  ASSUME IInv, NEW r \in Requests
  PROVE  /\ pc[r] \in PCs /\ req[r] \in Locals
         /\ SlotsOK(pc[r], req[r]) /\ AnswerOK(pc[r], req[r])
BY RequestFields DEF IInv, RequestOK

\* A request that goes on from label p to label l with locals q joins no queue.
Unqueued(p, l, q) ==
  /\ l \in UserQueuePCs => p \in UserQueuePCs
  /\ l \in AccountQueuePCs => p \in AccountQueuePCs
  /\ q.canceled /\ l = "count" => p = "count"
  /\ q.canceled /\ l \in MayJoinPCs => p \in MayJoinPCs

SameHold(r, q) ==
  /\ q.canceled = req[r].canceled /\ q.lapsed = req[r].lapsed
  /\ q.userSlot = req[r].userSlot /\ q.accountSlot = req[r].accountSlot

\* What every step of a request does to the variables that are not its own,
\* and what a step without effect on slots and queues does.
Calm ==
  /\ UNCHANGED <<limit, config, restarted, cleaning>>
  /\ sessions' \in [Accounts -> SUBSET Sessions] /\ sticky' \in [Sessions -> SomeAccount]
  /\ disturbances' \in disturbances .. config.disturbances
Rest == Calm /\ slots' = slots /\ waiting' = waiting /\ dropped' = dropped

\* What it does to its own.
Own(r, l, q) ==
  /\ pc[r] # "dead" /\ l \in PCs /\ q \in Locals /\ Step(r, l, q)
  /\ SlotsOK(l, q) /\ AnswerOK(l, q)

LEMMA Quiet ==
  ASSUME IInv, NEW r \in Requests, NEW l, NEW q, Rest, Own(r, l, q),
         Unqueued(pc[r], l, q), SameHold(r, q),
         q.account = req[r].account \/ (q.accountSlot = 0 /\ l \notin AccountQueuePCs)
  PROVE  IInv'
<1>1. SameSlots(r, q)
  BY DEF SameSlots, Owns, SameHold, Rest
<1>2. Stays(r, l, q)
  BY DEF Stays, NoJoin, Queued, CanJoin, Unqueued, SameHold, Rest
<1>3. Moves(r, l, q)
  BY <1>1, <1>2 DEF Moves, Own, Rest, Calm, SlotEffect, QueueEffect, SameHold
<1> QED
  BY <1>3, StepKeeps

\* A step to another label only.
LEMMA QuietGoto ==
  ASSUME IInv, NEW r \in Requests, NEW l \in PCs, Rest, pc[r] # "dead",
         Step(r, l, req[r]) \/ (Goto(r, l) /\ req' = req),
         SlotsOK(l, req[r]), AnswerOK(l, req[r]), Unqueued(pc[r], l, req[r])
  PROVE  IInv'
<1>1. req \in [Requests -> Locals] /\ req[r] \in Locals
  BY DEF IInv, TypeOK
<1>2. Step(r, l, req[r])
  BY <1>1 DEF Step, Goto
<1> QED
  BY <1>1, <1>2, Quiet DEF Own, SameHold

LEMMA CallRests ==
  ASSUME TypeOK, NEW r \in Requests, NEW x \in Results, Call(r, x),
         UNCHANGED <<store, binding, env>>
  PROVE  Rest
BY CallEffect DEF Rest, Calm, store, binding, env, TypeOK

LEMMA DecisionRests ==
  ASSUME TypeOK, UNCHANGED <<store, binding, env, disturbances>>
  PROVE  Rest
BY ConfigFields DEF Rest, Calm, store, binding, env, TypeOK

LEMMA RegisterRests ==
  ASSUME TypeOK, NEW r \in Requests, NEW a \in Accounts, NEW x \in Results,
         Register(r, a, x)
  PROVE  Rest
<1>1. SessionOf[r] \in Sessions
  BY GatewayAssumption
<1>2. sessions' \in [Accounts -> SUBSET Sessions]
  BY <1>1 DEF Register, TypeOK
<1> QED
  BY <1>2, CallEffect DEF Rest, Calm, Register, store, env, TypeOK

LEMMA BindRests ==
  ASSUME TypeOK, NEW r \in Requests, NEW x \in Results, BindTo(r, x)
  PROVE  Rest
<1>1. SessionOf[r] \in Sessions /\ req[r].account \in SomeAccount
  BY GatewayAssumption, RequestFields
<1>2. sticky' \in [Sessions -> SomeAccount]
  BY <1>1 DEF BindTo, TypeOK
<1> QED
  BY <1>2, CallEffect DEF Rest, Calm, BindTo, store, env, TypeOK

USE DEF PCs, SelectPCs, ServePCs, AdmittedPCs, UserQueuePCs, AccountQueuePCs,
        HolderPCs, OwingPCs, ChosenPCs, UserPCs, MayJoinPCs

LEMMA ArriveKeeps ==
  ASSUME IInv, NEW r \in Requests, Arrive(r)
  PROVE  IInv'
<1>1. TypeOK /\ SlotsOK(pc[r], req[r]) /\ AnswerOK(pc[r], req[r])
  BY Self DEF IInv
<1>2. Rest
  BY <1>1, DecisionRests DEF Arrive
<1>3. /\ pc[r] = "idle"
      /\ Step(r, "count", req[r]) \/ (Goto(r, "count") /\ req' = req)
  BY DEF Arrive
<1>4. SlotsOK("count", req[r]) /\ AnswerOK("count", req[r])
  BY <1>1, <1>3 DEF SlotsOK, AnswerOK
<1> QED
  BY <1>1, <1>2, <1>3, <1>4, QuietGoto DEF Unqueued, SlotsOK

LEMMA UserWaitTimeoutKeeps ==
  ASSUME IInv, NEW r \in Requests, UserWaitTimeout(r)
  PROVE  IInv'
<1>1. TypeOK /\ SlotsOK(pc[r], req[r]) /\ AnswerOK(pc[r], req[r])
  BY Self DEF IInv
<1>2. Rest
  BY <1>1, DecisionRests DEF UserWaitTimeout
<1>3. /\ pc[r] = "userWait"
      /\ Step(r, "uncountFail", req[r]) \/ (Goto(r, "uncountFail") /\ req' = req)
  BY DEF UserWaitTimeout
<1>4. SlotsOK("uncountFail", req[r]) /\ AnswerOK("uncountFail", req[r])
  BY <1>1, <1>3 DEF SlotsOK, AnswerOK
<1> QED
  BY <1>2, <1>3, <1>4, QuietGoto DEF Unqueued

LEMMA StickySessionKeeps ==
  ASSUME IInv, NEW r \in Requests, NEW x \in Results, StickySession(r, x)
  PROVE  IInv'
<1>1. TypeOK /\ SlotsOK(pc[r], req[r]) /\ AnswerOK(pc[r], req[r])
  BY Self DEF IInv
<1>2. Rest
  BY <1>1, RegisterRests DEF StickySession, SlotsOK
<1>3. pc[r] = "stickySession"
  BY DEF StickySession
<1>4. PICK l \in {"hydrate", "stickyDrop"} :
         /\ Step(r, l, req[r]) \/ (Goto(r, l) /\ req' = req)
  BY DEF StickySession
<1>5. SlotsOK(l, req[r]) /\ AnswerOK(l, req[r])
  BY <1>1, <1>3, <1>4 DEF SlotsOK, AnswerOK
<1> QED
  BY <1>2, <1>3, <1>4, <1>5, QuietGoto DEF Unqueued

LEMMA StickyWaitKeeps ==
  ASSUME IInv, NEW r \in Requests, NEW x \in Results, StickyWait(r, x)
  PROVE  IInv'
<1>1. TypeOK /\ SlotsOK(pc[r], req[r]) /\ AnswerOK(pc[r], req[r])
  BY Self DEF IInv
<1>2. Rest
  BY <1>1, CallRests DEF StickyWait
<1>3. pc[r] = "stickyWait"
  BY DEF StickyWait
<1>4. PICK l \in {"stickyPlan", "load", "exhausted"} :
         /\ Step(r, l, req[r]) \/ (Goto(r, l) /\ req' = req)
  BY DEF StickyWait, LoadOrExhausted
<1>5. SlotsOK(l, req[r]) /\ AnswerOK(l, req[r])
  BY <1>1, <1>3, <1>4 DEF SlotsOK, AnswerOK
<1> QED
  BY <1>2, <1>3, <1>4, <1>5, QuietGoto DEF Unqueued

LEMMA PickNoneKeeps ==
  ASSUME IInv, NEW r \in Requests, PickNone(r)
  PROVE  IInv'
<1>1. TypeOK /\ SlotsOK(pc[r], req[r]) /\ AnswerOK(pc[r], req[r])
  BY Self DEF IInv
<1>2. Rest
  BY <1>1, DecisionRests DEF PickNone
<1>3. /\ pc[r] = "pick"
      /\ Step(r, "queueUp", req[r]) \/ (Goto(r, "queueUp") /\ req' = req)
  BY DEF PickNone
<1>4. SlotsOK("queueUp", req[r]) /\ AnswerOK("queueUp", req[r])
  BY <1>1, <1>3 DEF SlotsOK, AnswerOK
<1> QED
  BY <1>2, <1>3, <1>4, QuietGoto DEF Unqueued

LEMMA SessionKeeps ==
  ASSUME IInv, NEW r \in Requests, NEW x \in Results, Session(r, x)
  PROVE  IInv'
<1>1. TypeOK /\ SlotsOK(pc[r], req[r]) /\ AnswerOK(pc[r], req[r])
  BY Self DEF IInv
<1>2. Rest
  BY <1>1, RegisterRests DEF Session, SlotsOK
<1>3. pc[r] = "session"
  BY DEF Session
<1>4. PICK l \in {"bind", "drop"} :
         /\ Step(r, l, req[r]) \/ (Goto(r, l) /\ req' = req)
  BY DEF Session
<1>5. SlotsOK(l, req[r]) /\ AnswerOK(l, req[r])
  BY <1>1, <1>3, <1>4 DEF SlotsOK, AnswerOK
<1> QED
  BY <1>2, <1>3, <1>4, <1>5, QuietGoto DEF Unqueued

LEMMA BindKeeps ==
  ASSUME IInv, NEW r \in Requests, NEW x \in Results, Bind(r, x)
  PROVE  IInv'
<1>1. TypeOK /\ SlotsOK(pc[r], req[r]) /\ AnswerOK(pc[r], req[r])
  BY Self DEF IInv
<1>2. Rest
  BY <1>1, BindRests DEF Bind
<1>3. /\ pc[r] = "bind"
      /\ Step(r, "hydrate", req[r]) \/ (Goto(r, "hydrate") /\ req' = req)
  BY DEF Bind
<1>4. SlotsOK("hydrate", req[r]) /\ AnswerOK("hydrate", req[r])
  BY <1>1, <1>3 DEF SlotsOK, AnswerOK
<1> QED
  BY <1>2, <1>3, <1>4, QuietGoto DEF Unqueued

LEMMA QueueUpNoneKeeps ==
  ASSUME IInv, NEW r \in Requests, QueueUpNone(r)
  PROVE  IInv'
<1>1. TypeOK /\ SlotsOK(pc[r], req[r]) /\ AnswerOK(pc[r], req[r])
  BY Self DEF IInv
<1>2. Rest
  BY <1>1, DecisionRests DEF QueueUpNone
<1>3. /\ pc[r] = "queueUp"
      /\ Step(r, "exhausted", req[r]) \/ (Goto(r, "exhausted") /\ req' = req)
  BY DEF QueueUpNone
<1>4. SlotsOK("exhausted", req[r]) /\ AnswerOK("exhausted", req[r])
  BY <1>1, <1>3 DEF SlotsOK, AnswerOK
<1> QED
  BY <1>2, <1>3, <1>4, QuietGoto DEF Unqueued

LEMMA SelectedKeeps ==
  ASSUME IInv, NEW r \in Requests, Selected(r)
  PROVE  IInv'
<1>1. TypeOK /\ SlotsOK(pc[r], req[r]) /\ AnswerOK(pc[r], req[r])
  BY Self DEF IInv
<1>2. Rest
  BY <1>1, DecisionRests DEF Selected
<1>3. pc[r] = "selected"
  BY DEF Selected
<1>4. PICK l \in {"forward", "countAccount"} :
         /\ Step(r, l, req[r]) \/ (Goto(r, l) /\ req' = req)
         /\ l = "forward" <=> req[r].accountSlot # 0
  BY DEF Selected
<1>5. SlotsOK(l, req[r]) /\ AnswerOK(l, req[r])
  BY <1>1, <1>3, <1>4 DEF SlotsOK, AnswerOK
<1> QED
  BY <1>2, <1>3, <1>4, <1>5, QuietGoto DEF Unqueued

LEMMA SelectedInterceptKeeps ==
  ASSUME IInv, NEW r \in Requests, SelectedIntercept(r)
  PROVE  IInv'
<1>1. TypeOK /\ SlotsOK(pc[r], req[r]) /\ AnswerOK(pc[r], req[r])
  BY Self DEF IInv
<1>2. Rest
  BY <1>1, DecisionRests DEF SelectedIntercept
<1>3. pc[r] = "selected"
  BY DEF SelectedIntercept
<1>4. PICK l \in {"intercept", "leave"} :
         /\ Step(r, l, req[r]) \/ (Goto(r, l) /\ req' = req)
         /\ l = "intercept" <=> req[r].accountSlot # 0
  BY DEF SelectedIntercept
<1>5. SlotsOK(l, req[r]) /\ AnswerOK(l, req[r])
  BY <1>1, <1>3, <1>4 DEF SlotsOK, AnswerOK
<1> QED
  BY <1>2, <1>3, <1>4, <1>5, QuietGoto DEF Unqueued

LEMMA AccountWaitTimeoutKeeps ==
  ASSUME IInv, NEW r \in Requests, AccountWaitTimeout(r)
  PROVE  IInv'
<1>1. TypeOK /\ SlotsOK(pc[r], req[r]) /\ AnswerOK(pc[r], req[r])
  BY Self DEF IInv
<1>2. Rest
  BY <1>1, DecisionRests DEF AccountWaitTimeout
<1>3. /\ pc[r] = "accountWait"
      /\ Step(r, "uncountAccountFail", req[r]) \/ (Goto(r, "uncountAccountFail") /\ req' = req)
  BY DEF AccountWaitTimeout
<1>4. SlotsOK("uncountAccountFail", req[r]) /\ AnswerOK("uncountAccountFail", req[r])
  BY <1>1, <1>3 DEF SlotsOK, AnswerOK
<1> QED
  BY <1>2, <1>3, <1>4, QuietGoto DEF Unqueued

LEMMA BindAfterWaitKeeps ==
  ASSUME IInv, NEW r \in Requests, NEW x \in Results, BindAfterWait(r, x)
  PROVE  IInv'
<1>1. TypeOK /\ SlotsOK(pc[r], req[r]) /\ AnswerOK(pc[r], req[r])
  BY Self DEF IInv
<1>2. Rest
  BY <1>1, BindRests DEF BindAfterWait
<1>3. /\ pc[r] = "bindAfterWait"
      /\ Step(r, "forward", req[r]) \/ (Goto(r, "forward") /\ req' = req)
  BY DEF BindAfterWait
<1>4. SlotsOK("forward", req[r]) /\ AnswerOK("forward", req[r])
  BY <1>1, <1>3 DEF SlotsOK, AnswerOK
<1> QED
  BY <1>2, <1>3, <1>4, QuietGoto DEF Unqueued

LEMMA ReleasedOnDoneKeeps ==
  ASSUME IInv, NEW r \in Requests, ReleasedOnDone(r)
  PROVE  IInv'
<1>1. TypeOK /\ SlotsOK(pc[r], req[r]) /\ AnswerOK(pc[r], req[r])
  BY Self DEF IInv
<1>2. Rest
  BY <1>1, DecisionRests DEF ReleasedOnDone
<1>3. /\ pc[r] = "release" /\ req[r].accountSlot = 0
      /\ Step(r, "outcome", req[r]) \/ (Goto(r, "outcome") /\ req' = req)
  BY DEF ReleasedOnDone
<1>4. SlotsOK("outcome", req[r]) /\ AnswerOK("outcome", req[r])
  BY <1>1, <1>3 DEF SlotsOK, AnswerOK
<1> QED
  BY <1>2, <1>3, <1>4, QuietGoto DEF Unqueued


LEMMA BillingKeeps ==
  ASSUME IInv, NEW r \in Requests, NEW x \in Results, Billing(r, x)
  PROVE  IInv'
<1>1. TypeOK /\ req[r] \in Locals /\ SlotsOK(pc[r], req[r]) /\ AnswerOK(pc[r], req[r])
  BY Self DEF IInv
<1>2. Rest /\ pc[r] = "billing"
  BY <1>1, CallRests DEF Billing
<1> DEFINE b == IF x = "ok" THEN sticky[SessionOf[r]] ELSE NoAccount
           q == [req[r] EXCEPT !.bound = b]
<1>3. Step(r, "leave", req[r]) \/ Step(r, "select", q)
  BY DEF Billing
<1>4. CASE Step(r, "leave", req[r])
  <2>1. SlotsOK("leave", req[r]) /\ AnswerOK("leave", req[r])
    BY <1>1, <1>2 DEF SlotsOK, AnswerOK
  <2> QED
    BY <1>2, <1>4, <2>1, QuietGoto DEF Unqueued
<1>5. CASE Step(r, "select", q)
  <2>1. b \in SomeAccount
    BY <1>1, GatewayAssumption DEF TypeOK, SomeAccount
  <2> HIDE DEF b
  <2>2. q \in Locals /\ SameHold(r, q) /\ q.account = req[r].account
    BY <1>1, <2>1 DEF Locals, SameHold
  <2>3. SlotsOK("select", q) /\ AnswerOK("select", q)
    BY <1>1, <1>2 DEF Locals, SlotsOK, AnswerOK
  <2> HIDE DEF q
  <2> QED
    BY <1>2, <1>5, <2>2, <2>3, Quiet DEF Own, Unqueued
<1> QED
  BY <1>3, <1>4, <1>5

\* The accounts of a new selection.
LEMMA NewSelectionTyped ==
  ASSUME IInv, NEW r \in Requests, pc[r] = "select", NEW cand \in SUBSET config.group,
         NEW a \in SomeAccount
  PROVE  LET q == [NewSelection(r, cand) EXCEPT !.account = a]
         IN  /\ q \in Locals /\ SameHold(r, q) /\ q.accountSlot = 0 /\ q.account = a
             /\ \A l \in {"load", "exhausted", "stickyTry"} :
                   (l = "stickyTry" => a \in Accounts) => SlotsOK(l, q) /\ AnswerOK(l, q)
<1> DEFINE q == [NewSelection(r, cand) EXCEPT !.account = a]
<1>1. TypeOK /\ req[r] \in Locals /\ SlotsOK(pc[r], req[r]) /\ AnswerOK(pc[r], req[r])
  BY Self DEF IInv
<1>2. cand \subseteq Accounts
  BY <1>1, ConfigFields
<1>3. q = [req[r] EXCEPT !.candidates = cand, !.account = a, !.planMax = 0]
  BY <1>1 DEF NewSelection, Locals
<1> HIDE DEF q
<1>4. q \in Locals /\ SameHold(r, q) /\ q.account = a
  BY <1>1, <1>2, <1>3 DEF Locals, SameHold
<1>5. /\ q.planMax = 0 /\ q.canceled = req[r].canceled /\ q.userSlot = req[r].userSlot
      /\ q.accountSlot = req[r].accountSlot /\ q.delivered = req[r].delivered
      /\ q.billed = req[r].billed
  BY <1>1, <1>3 DEF Locals
<1>6. q.accountSlot = 0
  BY <1>1, <1>5 DEF SlotsOK
<1>7. ASSUME NEW l \in {"load", "exhausted", "stickyTry"}, l = "stickyTry" => a \in Accounts
      PROVE  SlotsOK(l, q) /\ AnswerOK(l, q)
  BY <1>1, <1>4, <1>5, <1>6, <1>7 DEF SlotsOK, AnswerOK
<1> QED
  BY <1>4, <1>6, <1>7 DEF q

LEMMA SelectStickyKeeps ==
  ASSUME IInv, NEW r \in Requests, SelectSticky(r)
  PROVE  IInv'
<1>1. TypeOK /\ Rest /\ pc[r] = "select"
  BY DecisionRests DEF SelectSticky, IInv
<1>2. PICK cand \in SUBSET (config.group \ Excluded(r)) :
        Step(r, "stickyTry", [NewSelection(r, cand) EXCEPT !.account = StickyAccount(r)])
  BY DEF SelectSticky
<1>3. StickyAccount(r) \in Accounts /\ StickyAccount(r) \in SomeAccount
  BY <1>1, ConfigFields DEF SelectSticky, SomeAccount
<1> DEFINE q == [NewSelection(r, cand) EXCEPT !.account = StickyAccount(r)]
<1>4. /\ q \in Locals /\ SameHold(r, q) /\ q.accountSlot = 0
      /\ SlotsOK("stickyTry", q) /\ AnswerOK("stickyTry", q)
  BY <1>1, <1>2, <1>3, NewSelectionTyped
<1>5. Step(r, "stickyTry", q)
  BY <1>2
<1> HIDE DEF q
<1> QED
  BY <1>1, <1>4, <1>5, Quiet DEF Own, Unqueued

LEMMA SelectOtherKeeps ==
  ASSUME IInv, NEW r \in Requests, SelectOther(r)
  PROVE  IInv'
<1>1. TypeOK /\ pc[r] = "select" /\ req[r] \in Locals
  BY Self DEF SelectOther, IInv
<1>2. Rest
  <2>1. SessionOf[r] \in Sessions /\ NoAccount \in SomeAccount
    BY GatewayAssumption DEF SomeAccount
  <2>2. sticky' \in [Sessions -> SomeAccount]
    BY <1>1, <2>1 DEF SelectOther, TypeOK
  <2> QED
    BY <1>1, <2>2, ConfigFields DEF Rest, Calm, SelectOther, store, env, TypeOK
<1>3. PICK cand \in SUBSET (config.group \ Excluded(r)) :
        Step(r, LoadOrExhausted(cand), NewSelection(r, cand))
  BY DEF SelectOther
<1> DEFINE q == [NewSelection(r, cand) EXCEPT !.account = NoAccount]
           l == LoadOrExhausted(cand)
<1>4. l \in {"load", "exhausted"}
  BY DEF LoadOrExhausted
<1>5. /\ q \in Locals /\ SameHold(r, q) /\ q.accountSlot = 0
      /\ SlotsOK(l, q) /\ AnswerOK(l, q)
  BY <1>1, <1>3, <1>4, NewSelectionTyped DEF SomeAccount
<1>6. q = NewSelection(r, cand)
  BY <1>1 DEF NewSelection, Locals
<1>7. Step(r, l, q)
  BY <1>3, <1>6
<1> HIDE DEF q, l
<1> QED
  BY <1>1, <1>2, <1>4, <1>5, <1>7, Quiet DEF Own, Unqueued

LEMMA StickyPlanKeeps ==
  ASSUME IInv, NEW r \in Requests, NEW x \in Results, StickyPlan(r, x)
  PROVE  IInv'
<1>1. TypeOK /\ req[r] \in Locals /\ SlotsOK(pc[r], req[r]) /\ AnswerOK(pc[r], req[r])
  BY Self DEF IInv
<1>2. Rest /\ pc[r] = "stickyPlan"
  BY <1>1, RegisterRests DEF StickyPlan, SlotsOK
<1> DEFINE q == [req[r] EXCEPT !.planMax = config.stickyWait]
<1>3. \/ Step(r, "hydrate", q)
      \/ \E l \in {"load", "exhausted"} : Step(r, l, req[r])
  BY DEF StickyPlan, LoadOrExhausted
<1>4. CASE Step(r, "hydrate", q)
  <2>1. q \in Locals /\ SameHold(r, q) /\ q.account = req[r].account
    BY <1>1, ConfigFields DEF Locals, SameHold
  <2>2. SlotsOK("hydrate", q) /\ AnswerOK("hydrate", q)
    BY <1>1, <1>2 DEF Locals, SlotsOK, AnswerOK
  <2> HIDE DEF q
  <2> QED
    BY <1>2, <1>4, <2>1, <2>2, Quiet DEF Own, Unqueued
<1>5. ASSUME NEW l \in {"load", "exhausted"}, Step(r, l, req[r])
      PROVE  IInv'
  <2>1. SlotsOK(l, req[r]) /\ AnswerOK(l, req[r])
    BY <1>1, <1>2 DEF SlotsOK, AnswerOK
  <2> QED
    BY <1>2, <1>5, <2>1, QuietGoto DEF Unqueued
<1> QED
  BY <1>3, <1>4, <1>5

LEMMA LoadKeeps ==
  ASSUME IInv, NEW r \in Requests, NEW x \in Results, Load(r, x)
  PROVE  IInv'
<1>1. TypeOK /\ req[r] \in Locals /\ SlotsOK(pc[r], req[r]) /\ AnswerOK(pc[r], req[r])
  BY Self DEF IInv
<1>2. Rest /\ pc[r] = "load"
  BY <1>1, CallRests DEF Load
<1> DEFINE S == IF x = "ok" THEN {a \in req[r].candidates : Underloaded(a)}
                            ELSE req[r].candidates
           q == [req[r] EXCEPT !.available = S]
<1>3. Step(r, "pick", q)
  BY DEF Load
<1>4. S \in SUBSET Accounts
  BY <1>1, RequestFields
<1> HIDE DEF S
<1>5. q \in Locals /\ SameHold(r, q) /\ q.account = req[r].account
  BY <1>1, <1>4 DEF Locals, SameHold
<1>6. SlotsOK("pick", q) /\ AnswerOK("pick", q)
  BY <1>1, <1>2 DEF Locals, SlotsOK, AnswerOK
<1> HIDE DEF q
<1> QED
  BY <1>2, <1>3, <1>5, <1>6, Quiet DEF Own, Unqueued

LEMMA QueueUpKeeps ==
  ASSUME IInv, NEW r \in Requests, NEW x \in Results, QueueUp(r, x)
  PROVE  IInv'
<1>1. /\ TypeOK /\ req[r] \in Locals /\ SlotsOK(pc[r], req[r]) /\ AnswerOK(pc[r], req[r])
      /\ pc[r] = "queueUp"
  BY Self DEF IInv, QueueUp
<1>2. PICK a \in req[r].candidates, l \in {"hydrate", "queueUp"} :
        /\ Register(r, a, x)
        /\ Step(r, l, [req[r] EXCEPT !.account = a, !.candidates = @ \ {a},
                                     !.planMax = config.fallbackWait])
  BY DEF QueueUp
<1>3. a \in Accounts /\ req[r].candidates \ {a} \in SUBSET Accounts /\ a \in SomeAccount
  BY <1>1, <1>2, RequestFields DEF SomeAccount
<1>4. Rest
  BY <1>1, <1>2, <1>3, RegisterRests
<1> DEFINE q == [req[r] EXCEPT !.account = a, !.candidates = req[r].candidates \ {a},
                               !.planMax = config.fallbackWait]
<1>5. Step(r, l, q)
  BY <1>1, <1>2 DEF Locals
<1>6. q \in Locals /\ SameHold(r, q)
  BY <1>1, <1>3, ConfigFields DEF Locals, SameHold
<1>7. SlotsOK(l, q) /\ AnswerOK(l, q) /\ q.accountSlot = 0
  BY <1>1, <1>3 DEF Locals, SlotsOK, AnswerOK
<1> HIDE DEF q
<1> QED
  BY <1>1, <1>4, <1>5, <1>6, <1>7, Quiet DEF Own, Unqueued

LEMMA HydrateKeeps ==
  ASSUME IInv, NEW r \in Requests, Hydrate(r)
  PROVE  IInv'
<1>1. TypeOK /\ req[r] \in Locals /\ SlotsOK(pc[r], req[r]) /\ AnswerOK(pc[r], req[r])
  BY Self DEF IInv
<1>2. Rest /\ pc[r] = "hydrate"
  BY <1>1, DecisionRests DEF Hydrate
<1> DEFINE q == [req[r] EXCEPT !.candidates = {}, !.available = {}]
<1>3. q \in Locals /\ SameHold(r, q) /\ q.account = req[r].account
  BY <1>1 DEF Locals, SameHold
<1>4. SlotsOK("selected", q) /\ AnswerOK("selected", q)
  BY <1>1, <1>2 DEF Locals, SlotsOK, AnswerOK
<1>5. Step(r, "selected", q)
  BY DEF Hydrate
<1> HIDE DEF q
<1> QED
  BY <1>2, <1>3, <1>4, <1>5, Quiet DEF Own, Unqueued

LEMMA ExhaustedKeeps ==
  ASSUME IInv, NEW r \in Requests, Exhausted(r)
  PROVE  IInv'
<1>1. TypeOK /\ req[r] \in Locals /\ SlotsOK(pc[r], req[r]) /\ AnswerOK(pc[r], req[r])
  BY Self DEF IInv
<1>2. Rest /\ pc[r] = "exhausted"
  BY <1>1, DecisionRests DEF Exhausted
<1>3. PICK l \in {"select", "leave"}, F \in {{}, req[r].failed} :
        Step(r, l, [req[r] EXCEPT !.candidates = {}, !.available = {}, !.failed = F])
  BY <1>1 DEF Exhausted, Locals
<1>4. F \in SUBSET Accounts
  BY <1>1, <1>3, RequestFields
<1> DEFINE q == [req[r] EXCEPT !.candidates = {}, !.available = {}, !.failed = F]
<1>5. q \in Locals /\ SameHold(r, q) /\ q.account = req[r].account
  BY <1>1, <1>4 DEF Locals, SameHold
<1>6. SlotsOK(l, q) /\ AnswerOK(l, q)
  BY <1>1, <1>2 DEF Locals, SlotsOK, AnswerOK
<1>7. Step(r, l, q)
  BY <1>3
<1> HIDE DEF q
<1> QED
  BY <1>2, <1>5, <1>6, <1>7, Quiet DEF Own, Unqueued

LEMMA ForwardKeeps ==
  ASSUME IInv, NEW r \in Requests, Forward(r)
  PROVE  IInv'
<1>1. TypeOK /\ req[r] \in Locals /\ SlotsOK(pc[r], req[r]) /\ AnswerOK(pc[r], req[r])
  BY Self DEF IInv
<1>2. Rest /\ pc[r] = "forward"
  BY <1>1, DecisionRests DEF Forward
<1>3. PICK res \in Returned :
        /\ res.kind = "ok" => res.wrote
        /\ res.kind = "tooLong" => ~res.wrote
        /\ Step(r, "release", [req[r] EXCEPT !.result = res,
                 !.delivered = IF res.wrote THEN @ + 1 ELSE @])
  BY DEF Forward
<1> DEFINE d == IF res.wrote THEN req[r].delivered + 1 ELSE req[r].delivered
           q == [req[r] EXCEPT !.result = res, !.delivered = d]
<1>4. Step(r, "release", q)
  BY <1>1, <1>3 DEF Locals
<1>5. d \in Nat /\ d = IF res.wrote THEN 1 ELSE 0
  BY <1>1, <1>2 DEF Locals, AnswerOK
<1> HIDE DEF d
<1>6. q \in Locals /\ SameHold(r, q) /\ q.account = req[r].account
  BY <1>1, <1>5 DEF Locals, SameHold
<1>7. SlotsOK("release", q) /\ AnswerOK("release", q)
  BY <1>1, <1>2, <1>3, <1>5 DEF Locals, SlotsOK, AnswerOK
<1> HIDE DEF q
<1> QED
  BY <1>2, <1>4, <1>6, <1>7, Quiet DEF Own, Unqueued

\* The loop goes on only if nothing was written.
LEMMA OutcomeGoesOn ==
  ASSUME IInv, NEW r \in Requests, pc[r] = "outcome", Rest,
         NEW l \in {"select", "leave"}, NEW q \in Locals, Step(r, l, q),
         l = "select" => ~req[r].result.wrote, SameHold(r, q),
         q.account = req[r].account, q.planMax = req[r].planMax,
         q.delivered = req[r].delivered, q.billed = req[r].billed
  PROVE  IInv'
<1>1. SlotsOK(pc[r], req[r]) /\ AnswerOK(pc[r], req[r])
  BY Self
<1>2. SlotsOK(l, q) /\ AnswerOK(l, q)
  BY <1>1 DEF SlotsOK, AnswerOK, SameHold
<1> QED
  BY <1>2, Quiet DEF Own, Unqueued

LEMMA HandleOutcomeKeeps ==
  ASSUME IInv, NEW r \in Requests, HandleOutcome(r)
  PROVE  IInv'
<1>1. TypeOK /\ req[r] \in Locals /\ SlotsOK(pc[r], req[r]) /\ AnswerOK(pc[r], req[r])
  BY Self DEF IInv
<1>2. Rest /\ pc[r] = "outcome"
  BY <1>1, DecisionRests DEF HandleOutcome
<1>3. NoResult \in Returned
  BY DEF NoResult, Returned
<1>4. CASE req[r].result.kind = "ok" /\ Step(r, "succeed", req[r])
  <2>1. SlotsOK("succeed", req[r]) /\ AnswerOK("succeed", req[r])
    BY <1>1, <1>2, <1>4 DEF SlotsOK, AnswerOK
  <2> QED
    BY <1>2, <1>4, <2>1, QuietGoto DEF Unqueued
<1>5. CASE req[r].result.kind = "tooLong" /\ UseFallback(r)
  <2> DEFINE q == [req[r] EXCEPT !.fallbackUsed = TRUE, !.failed = {},
                          !.switches = 0, !.retries = [a \in Accounts |-> 0],
                          !.busy = FALSE, !.result = NoResult]
  <2>1. Step(r, "select", q)
    BY <1>5 DEF UseFallback
  <2>2. q \in Locals
    BY <1>1, <1>3 DEF Locals
  <2>3. /\ SameHold(r, q) /\ q.account = req[r].account /\ q.planMax = req[r].planMax
        /\ q.delivered = req[r].delivered /\ q.billed = req[r].billed
    BY <1>1 DEF Locals, SameHold
  <2>4. ~req[r].result.wrote
    BY <1>1, <1>2, <1>5 DEF AnswerOK
  <2> HIDE DEF q
  <2> QED
    BY <1>2, <2>1, <2>2, <2>3, <2>4, OutcomeGoesOn
<1>6. CASE Step(r, "leave", req[r])
  BY <1>1, <1>2, <1>6, OutcomeGoesOn DEF SameHold
<1>7. CASE ~req[r].result.wrote /\ HandleFailoverError(r)
  <2>1. req[r].account \in Accounts
    BY <1>1, <1>2 DEF SlotsOK
  <2>2. PICK l \in {"select", "leave"}, F \in SUBSET Accounts, n \in Nat,
             ret \in [Accounts -> Nat] :
          Step(r, l, [req[r] EXCEPT !.busy = req[r].result.busy, !.result = NoResult,
                                    !.failed = F, !.switches = n, !.retries = ret])
    <3> DEFINE U(F, n, ret) ==
                 [req[r] EXCEPT !.busy = req[r].result.busy, !.result = NoResult,
                                !.failed = F, !.switches = n, !.retries = ret]
               seen == [req[r] EXCEPT !.busy = req[r].result.busy, !.result = NoResult]
               excluded == [seen EXCEPT !.failed = @ \cup {req[r].account}]
    <3>1. /\ req[r].failed \in SUBSET Accounts /\ req[r].switches \in Nat
          /\ req[r].retries \in [Accounts -> Nat]
          /\ req[r].failed \cup {req[r].account} \in SUBSET Accounts
      BY <1>1, <2>1, RequestFields
    <3>2. excluded = U(req[r].failed \cup {req[r].account}, req[r].switches, req[r].retries)
      BY <1>1 DEF Locals
    <3>3. [excluded EXCEPT !.switches = NextSwitches(r)]
          = U(req[r].failed \cup {req[r].account}, req[r].switches + 1, req[r].retries)
      BY <1>1 DEF Locals, NextSwitches
    <3> DEFINE ret2 == [req[r].retries EXCEPT ![req[r].account] = @ + 1]
    <3>4. [seen EXCEPT !.retries[req[r].account] = @ + 1]
          = U(req[r].failed, req[r].switches, ret2)
      BY <1>1 DEF Locals
    <3>5. ret2 \in [Accounts -> Nat] /\ req[r].switches + 1 \in Nat
      BY <2>1, <3>1
    <3>6. \E l \in {"select", "leave"} :
            \/ Step(r, l, [seen EXCEPT !.retries[req[r].account] = @ + 1])
            \/ Step(r, l, [excluded EXCEPT !.switches = NextSwitches(r)])
            \/ Step(r, l, excluded)
      BY <1>7 DEF HandleFailoverError
    <3> HIDE DEF U, seen, excluded, ret2
    <3>7. \E l \in {"select", "leave"}, F \in SUBSET Accounts, n \in Nat,
             ret \in [Accounts -> Nat] : Step(r, l, U(F, n, ret))
      BY <3>1, <3>2, <3>3, <3>4, <3>5, <3>6
    <3> QED
      BY <3>7 DEF U
  <2> DEFINE q == [req[r] EXCEPT !.busy = req[r].result.busy, !.result = NoResult,
                                 !.failed = F, !.switches = n, !.retries = ret]
  <2>3. req[r].result.busy \in BOOLEAN
    BY <1>1, RequestFields DEF Returned
  <2>4. q \in Locals
    BY <1>1, <1>3, <2>3 DEF Locals
  <2>5. /\ SameHold(r, q) /\ q.account = req[r].account /\ q.planMax = req[r].planMax
        /\ q.delivered = req[r].delivered /\ q.billed = req[r].billed
    BY <1>1 DEF Locals, SameHold
  <2>6. Step(r, l, q)
    BY <2>2
  <2> HIDE DEF q
  <2> QED
    BY <1>2, <1>7, <2>4, <2>5, <2>6, OutcomeGoesOn
<1> QED
  BY <1>4, <1>5, <1>6, <1>7 DEF HandleOutcome, NothingWritten

LEMMA SucceedKeeps ==
  ASSUME IInv, NEW r \in Requests, NEW x \in Results, Succeed(r, x)
  PROVE  IInv'
<1>1. TypeOK /\ req[r] \in Locals /\ SlotsOK(pc[r], req[r]) /\ AnswerOK(pc[r], req[r])
  BY Self DEF IInv
<1>2. Rest /\ pc[r] = "succeed"
  BY <1>1, BindRests, DecisionRests DEF Succeed
<1> DEFINE q == [req[r] EXCEPT !.billed = req[r].billed + 1]
<1>3. Step(r, "leave", q)
  BY <1>1 DEF Succeed, Locals
<1>4. q \in Locals /\ SameHold(r, q) /\ q.account = req[r].account
  BY <1>1 DEF Locals, SameHold
<1>5. SlotsOK("leave", q) /\ AnswerOK("leave", q)
  BY <1>1, <1>2 DEF Locals, SlotsOK, AnswerOK
<1> HIDE DEF q
<1> QED
  BY <1>2, <1>3, <1>4, <1>5, Quiet DEF Own, Unqueued

\* A step that gives back a slot, or leaves it behind, and joins no queue.
LEMMA Giving ==
  ASSUME IInv, NEW r \in Requests, NEW l, NEW q, NEW k \in Keys, NEW m \in Nat,
         Calm, waiting' = waiting, Own(r, l, q), Gives(r, q, k, m),
         Unqueued(pc[r], l, q), l \in AccountQueuePCs => q.account = req[r].account,
         q.canceled => req[r].canceled,
         q.lapsed = req[r].lapsed \/ (q.userSlot = 0 /\ q.accountSlot = 0)
  PROVE  IInv'
<1>1. Stays(r, l, q)
  BY DEF Stays, NoJoin, Queued, CanJoin, Unqueued
<1>2. SlotEffect(r, q)
  BY DEF SlotEffect
<1>3. Moves(r, l, q)
  BY <1>1, <1>2 DEF Moves, Own, Calm, QueueEffect
<1> QED
  BY <1>3, StepKeeps

\* The release of the account's slot.
LEMMA GivesAccount ==
  ASSUME IInv, NEW r \in Requests, NEW q \in Locals, req[r].account \in Accounts,
         req[r].accountSlot # 0, q.account = req[r].account, q.accountSlot = 0,
         q.userSlot = req[r].userSlot
  PROVE  /\ Owns(req[r], req[r].account, req[r].accountSlot)
         /\ \A j \in Keys, n \in Nat : Owns(q, j, n)
              <=> (Owns(req[r], j, n) /\ ~(j = req[r].account /\ n = req[r].accountSlot))
BY KeyFacts DEF Owns

\* The release of the user's.
LEMMA GivesUser ==
  ASSUME IInv, NEW r \in Requests, NEW q \in Locals, req[r].account \in SomeAccount,
         req[r].userSlot # 0, q.userSlot = 0, q.accountSlot = req[r].accountSlot,
         q.account = req[r].account \/ req[r].accountSlot = 0
  PROVE  /\ Owns(req[r], User, req[r].userSlot)
         /\ \A j \in Keys, n \in Nat : Owns(q, j, n)
              <=> (Owns(req[r], j, n) /\ ~(j = User /\ n = req[r].userSlot))
BY KeyFacts DEF Owns

\* Running a release, or failing to.
LEMMA ReleaseGives ==
  ASSUME TypeOK, NEW x \in Results, NEW r, NEW k \in Keys, NEW m, Outcome(x),
         ReleaseSlot(r, k, m, x # "lost"), UNCHANGED <<binding, env>>
  PROVE  /\ Calm /\ waiting' = waiting
         /\ \/ slots' = [slots EXCEPT ![k] = @ \ {<<r, m>>}] /\ dropped' = dropped
            \/ /\ slots' = slots /\ dropped' = dropped
               /\ disturbances' = disturbances + 1
<1>1. Calm
  BY OutcomeEffect DEF Calm, binding, env, TypeOK
<1>2. slots \in [Keys -> SUBSET Members]
  BY ConfigFields
<1>3. CASE x = "lost"
  <2>1. slots' = slots
    BY <1>2, <1>3 DEF ReleaseSlot
  <2> QED
    BY <1>1, <1>3, <2>1, OutcomeEffect DEF ReleaseSlot, env
<1>4. CASE x # "lost"
  BY <1>1, <1>4 DEF ReleaseSlot, env
<1> QED
  BY <1>3, <1>4

LEMMA DropKeeps ==
  ASSUME IInv, NEW r \in Requests, NEW x \in Results, NEW l, Drop(r, l, x),
         req[r].accountSlot # 0,
         \/ pc[r] = "stickyDrop" /\ l = "stickyWait"
         \/ pc[r] = "drop" /\ l = "pick"
         \/ pc[r] = "intercept" /\ l = "leave"
         \/ pc[r] = "release" /\ l = "outcome"
         \/ req[r].canceled /\ pc[r] \in {"forward", "release"} /\ l = pc[r]
  PROVE  IInv'
<1>1. TypeOK /\ req[r] \in Locals /\ SlotsOK(pc[r], req[r]) /\ AnswerOK(pc[r], req[r])
  BY Self DEF IInv
<1> DEFINE q == [req[r] EXCEPT !.accountSlot = 0]
           k == req[r].account
           m == req[r].accountSlot
<1>2. Step(r, l, q) /\ pc[r] # "dead" /\ l \in PCs
  BY <1>1 DEF Drop
<1>3. /\ q \in Locals /\ q.canceled = req[r].canceled /\ q.lapsed = req[r].lapsed
      /\ q.account = req[r].account /\ q.accountSlot = 0 /\ q.userSlot = req[r].userSlot
  BY <1>1 DEF Locals
<1>4. q.planMax = req[r].planMax /\ q.delivered = req[r].delivered
      /\ q.billed = req[r].billed /\ q.result = req[r].result
  BY <1>1 DEF Locals
<1>5. k \in Accounts /\ k \in Keys /\ m \in Nat
  BY <1>1, KeyFacts, RequestFields DEF SlotsOK
<1> HIDE DEF q
<1>6. SlotsOK(l, q) /\ AnswerOK(l, q)
  BY <1>1, <1>3, <1>4 DEF SlotsOK, AnswerOK
<1>7. /\ Calm /\ waiting' = waiting
      /\ \/ slots' = [slots EXCEPT ![k] = @ \ {<<r, m>>}] /\ dropped' = dropped
         \/ slots' = slots /\ dropped' = dropped /\ disturbances' = disturbances + 1
  BY <1>1, <1>5, ReleaseGives DEF Drop
<1>8. Gives(r, q, k, m)
  BY <1>3, <1>5, <1>7, GivesAccount DEF Gives
<1>9. Unqueued(pc[r], l, q)
  BY <1>3 DEF Unqueued
<1> HIDE DEF k, m
<1> QED
  BY <1>2, <1>3, <1>5, <1>6, <1>7, <1>8, <1>9, Giving DEF Own

LEMMA DropsKeep ==
  ASSUME IInv, NEW r \in Requests, NEW x \in Results,
         \/ StickyDrop(r, x) \/ DropSelected(r, x) \/ Intercept(r, x)
         \/ Release(r, x) \/ ReleaseAccountOnDone(r, x)
  PROVE  IInv'
<1>1. SlotsOK(pc[r], req[r])
  BY Self
<1>2. CASE StickyDrop(r, x)
  BY <1>1, <1>2, DropKeeps DEF StickyDrop, SlotsOK
<1>3. CASE DropSelected(r, x)
  BY <1>1, <1>3, DropKeeps DEF DropSelected, SlotsOK
<1>4. CASE Intercept(r, x)
  BY <1>1, <1>4, DropKeeps DEF Intercept, SlotsOK
<1>5. CASE Release(r, x)
  BY <1>5, DropKeeps DEF Release
<1>6. CASE ReleaseAccountOnDone(r, x)
  BY <1>6, DropKeeps DEF ReleaseAccountOnDone
<1> QED
  BY <1>2, <1>3, <1>4, <1>5, <1>6

LEMMA HydrateFailsKeeps ==
  ASSUME IInv, NEW r \in Requests, HydrateFails(r)
  PROVE  IInv'
<1>1. TypeOK /\ req[r] \in Locals /\ SlotsOK(pc[r], req[r]) /\ AnswerOK(pc[r], req[r])
  BY Self DEF IInv
<1> DEFINE q == [req[r] EXCEPT !.accountSlot = 0]
<1>2. Step(r, "exhausted", q) /\ pc[r] = "hydrate"
  BY DEF HydrateFails
<1>3. /\ q \in Locals /\ q.canceled = req[r].canceled /\ q.lapsed = req[r].lapsed
      /\ q.account = req[r].account /\ q.accountSlot = 0 /\ q.userSlot = req[r].userSlot
  BY <1>1 DEF Locals
<1>4. q.planMax = req[r].planMax /\ q.delivered = req[r].delivered
      /\ q.billed = req[r].billed
  BY <1>1 DEF Locals
<1> HIDE DEF q
<1>5. SlotsOK("exhausted", q) /\ AnswerOK("exhausted", q)
  BY <1>1, <1>2, <1>3, <1>4 DEF SlotsOK, AnswerOK
<1>6. Calm /\ slots' = slots /\ waiting' = waiting /\ disturbances' = disturbances
  BY <1>1, ConfigFields DEF HydrateFails, Calm, store, binding, TypeOK
<1>7. Own(r, "exhausted", q) /\ Unqueued(pc[r], "exhausted", q)
  BY <1>2, <1>3, <1>5 DEF Own, Unqueued
<1>8. CASE req[r].accountSlot # 0
  <2> DEFINE k == req[r].account
             m == req[r].accountSlot
  <2>1. k \in Accounts /\ k \in Keys /\ m \in Nat
    BY <1>1, <1>2, KeyFacts, RequestFields DEF SlotsOK
  <2>2. dropped' = dropped + 1
    BY <1>8 DEF HydrateFails
  <2>3. Gives(r, q, k, m)
    BY <1>3, <1>6, <1>8, <2>1, <2>2, GivesAccount DEF Gives
  <2> HIDE DEF k, m
  <2> QED
    BY <1>3, <1>6, <1>7, <2>1, <2>3, Giving
<1>9. CASE req[r].accountSlot = 0
  <2>1. Rest /\ SameHold(r, q)
    BY <1>3, <1>6, <1>9 DEF Rest, SameHold, HydrateFails
  <2> QED
    BY <1>3, <1>7, <2>1, Quiet
<1> QED
  BY <1>8, <1>9

LEMMA LeaveKeeps ==
  ASSUME IInv, NEW r \in Requests, NEW x \in Results, Leave(r, x)
  PROVE  IInv'
<1>1. TypeOK /\ req[r] \in Locals /\ SlotsOK(pc[r], req[r]) /\ AnswerOK(pc[r], req[r])
  BY Self DEF IInv
<1>2. Step(r, "done", Fresh) /\ pc[r] = "leave"
  BY DEF Leave
<1>3. req[r].accountSlot = 0
  BY <1>1, <1>2 DEF SlotsOK
<1>4. SlotsOK("done", Fresh) /\ AnswerOK("done", Fresh)
  BY FreshTyped DEF SlotsOK, AnswerOK
<1>5. Own(r, "done", Fresh) /\ Unqueued(pc[r], "done", Fresh)
  BY <1>2, <1>4, FreshTyped DEF Own, Unqueued
<1>6. CASE req[r].userSlot # 0
  <2> DEFINE m == req[r].userSlot
  <2>1. m \in Nat /\ User \in Keys /\ req[r].account \in SomeAccount
    BY <1>1, KeyFacts, RequestFields
  <2>2. /\ Calm /\ waiting' = waiting
        /\ \/ slots' = [slots EXCEPT ![User] = @ \ {<<r, m>>}] /\ dropped' = dropped
           \/ slots' = slots /\ dropped' = dropped /\ disturbances' = disturbances + 1
    BY <1>1, <1>6, <2>1, ReleaseGives DEF Leave
  <2>3. Gives(r, Fresh, User, m)
    BY <1>3, <1>6, <2>1, <2>2, FreshTyped, GivesUser DEF Gives
  <2> HIDE DEF m
  <2> QED
    BY <1>5, <2>1, <2>2, <2>3, FreshTyped, Giving
<1>7. CASE req[r].userSlot = 0
  <2>1. Rest
    BY <1>1, <1>7, DecisionRests DEF Leave, env, binding
  <2>2. SameSlots(r, Fresh)
    BY <1>3, <1>7, <2>1, FreshTyped DEF SameSlots, Owns, Rest
  <2>3. Stays(r, "done", Fresh)
    BY <2>1, FreshTyped DEF Stays, NoJoin, Queued, CanJoin, Rest
  <2>4. Moves(r, "done", Fresh)
    BY <1>5, <2>1, <2>2, <2>3, FreshTyped
       DEF Moves, Own, Rest, Calm, SlotEffect, QueueEffect
  <2> QED
    BY <2>4, StepKeeps
<1> QED
  BY <1>6, <1>7

LEMMA ReleaseUserOnDoneKeeps ==
  ASSUME IInv, NEW r \in Requests, NEW x \in Results, ReleaseUserOnDone(r, x)
  PROVE  IInv'
<1>1. TypeOK /\ req[r] \in Locals /\ SlotsOK(pc[r], req[r]) /\ AnswerOK(pc[r], req[r])
  BY Self DEF IInv
<1> DEFINE q == [req[r] EXCEPT !.userSlot = 0]
           m == req[r].userSlot
<1>2. pc[r] \in AdmittedPCs /\ req[r].canceled /\ m # 0 /\ pc[r] \in PCs /\ pc[r] # "dead"
  BY DEF ReleaseUserOnDone
<1>3. Step(r, pc[r], q)
  <2>1. req \in [Requests -> Locals] /\ pc \in [Requests -> PCs]
    BY <1>1 DEF TypeOK
  <2> QED
    BY <2>1 DEF ReleaseUserOnDone, Step
<1>4. /\ q \in Locals /\ q.canceled = req[r].canceled /\ q.lapsed = req[r].lapsed
      /\ q.account = req[r].account /\ q.accountSlot = req[r].accountSlot /\ q.userSlot = 0
  BY <1>1 DEF Locals
<1>5. q.planMax = req[r].planMax /\ q.delivered = req[r].delivered
      /\ q.billed = req[r].billed /\ q.result = req[r].result
  BY <1>1 DEF Locals
<1> HIDE DEF q
<1>6. SlotsOK(pc[r], q) /\ AnswerOK(pc[r], q)
  <2>1. SlotsOK(pc[r], q)
    BY <1>1, <1>2, <1>4, <1>5 DEF SlotsOK
  <2>2. AnswerOK(pc[r], q)
    BY <1>1, <1>5 DEF AnswerOK
  <2> QED
    BY <2>1, <2>2
<1>7. m \in Nat /\ User \in Keys /\ req[r].account \in SomeAccount
  BY <1>1, KeyFacts, RequestFields
<1>8. /\ Calm /\ waiting' = waiting
      /\ \/ slots' = [slots EXCEPT ![User] = @ \ {<<r, m>>}] /\ dropped' = dropped
         \/ slots' = slots /\ dropped' = dropped /\ disturbances' = disturbances + 1
  BY <1>1, <1>7, ReleaseGives DEF ReleaseUserOnDone
<1>9. Gives(r, q, User, m)
  BY <1>2, <1>4, <1>7, <1>8, GivesUser DEF Gives
<1>10. Unqueued(pc[r], pc[r], q)
  BY DEF Unqueued
<1> HIDE DEF m
<1> QED
  BY <1>2, <1>3, <1>4, <1>6, <1>7, <1>8, <1>9, <1>10, Giving DEF Own

\* One attempt to take a slot of k.
LEMMA AcquireEffect ==
  ASSUME IInv, NEW r \in Requests, NEW x \in Results, NEW k \in Keys, Call(r, x),
         AcquireSlot(r, k, x # "lost"), UNCHANGED <<binding, env>>
  PROVE  /\ Calm /\ waiting' = waiting
         /\ x # "ok" \/ ~Grants(k) =>
               \A q : (\A j \in Keys, n \in Nat : Owns(q, j, n) <=> Owns(req[r], j, n))
                         => SlotEffect(r, q)
         /\ x = "ok" /\ Grants(k) =>
               /\ NextSlot(r, k) \in Nat \ {0} /\ ~req[r].canceled
               /\ \A q : (\A j \in Keys, n \in Nat :
                            Owns(q, j, n) <=> (Owns(req[r], j, n)
                                               \/ (j = k /\ n = NextSlot(r, k))))
                            => SlotEffect(r, q)
<1>1. /\ TypeOK /\ slots \in [Keys -> SUBSET Members] /\ limit[k] \in Nat
      /\ IsFiniteSet(slots[k])
  BY ConfigFields DEF IInv, StoreOK
<1>2. Calm /\ waiting' = waiting /\ dropped' = dropped
  BY <1>1, CallEffect DEF Calm, AcquireSlot, binding, env, TypeOK
<1>3. CASE x = "lost" \/ ~(limit[k] > 0 /\ Free(k))
  <2>1. slots' = slots
    BY <1>1, <1>3 DEF AcquireSlot
  <2>2. x # "ok" \/ ~Grants(k) \/ limit[k] = 0
    BY <1>1, <1>3 DEF Grants
  <2>3. ASSUME x = "ok", Grants(k) PROVE AcquireSlot(r, k, TRUE)
    BY <2>3 DEF AcquireSlot
  <2>4. ASSUME NEW q, \A j \in Keys, n \in Nat : Owns(q, j, n) <=> Owns(req[r], j, n)
        PROVE  SlotEffect(r, q)
    BY <1>2, <2>1, <2>4 DEF SlotEffect, SameSlots
  <2>5. ASSUME x = "ok", Grants(k), NEW q,
               \A j \in Keys, n \in Nat :
                 Owns(q, j, n) <=> (Owns(req[r], j, n) \/ (j = k /\ n = NextSlot(r, k)))
        PROVE  SlotEffect(r, q)
    BY <1>2, <2>3, <2>5 DEF SlotEffect, Takes
  <2>6. x = "ok" /\ Grants(k) => NextSlot(r, k) \in Nat \ {0} /\ ~req[r].canceled
    BY <1>1, NextSlotIsNew, CallEffect
  <2> QED
    BY <1>2, <2>4, <2>5, <2>6
<1>4. CASE x # "lost" /\ limit[k] > 0 /\ Free(k)
  <2>1. AcquireSlot(r, k, TRUE) /\ Grants(k)
    BY <1>4 DEF AcquireSlot, Grants
  <2>2. x # "ok" => disturbances' = disturbances + 1
    BY <1>1, <1>4, CallEffect DEF Results
  <2>3. ASSUME x # "ok", NEW q,
               \A j \in Keys, n \in Nat : Owns(q, j, n) <=> Owns(req[r], j, n)
        PROVE  SlotEffect(r, q)
    BY <1>2, <1>4, <2>1, <2>2, <2>3 DEF SlotEffect, Leaks
  <2>4. ASSUME x = "ok", NEW q,
               \A j \in Keys, n \in Nat :
                 Owns(q, j, n) <=> (Owns(req[r], j, n) \/ (j = k /\ n = NextSlot(r, k)))
        PROVE  SlotEffect(r, q)
    BY <1>2, <2>1, <2>4 DEF SlotEffect, Takes
  <2>5. x = "ok" => NextSlot(r, k) \in Nat \ {0} /\ ~req[r].canceled
    BY <1>1, <2>1, NextSlotIsNew, CallEffect
  <2> QED
    BY <1>2, <2>1, <2>3, <2>4, <2>5
<1> QED
  BY <1>3, <1>4

LEMMA Taking ==
  ASSUME IInv, NEW r \in Requests, NEW l, NEW q, Calm, waiting' = waiting,
         Own(r, l, q), SlotEffect(r, q), Unqueued(pc[r], l, q),
         l \in AccountQueuePCs => q.account = req[r].account,
         q.canceled = req[r].canceled, q.lapsed = req[r].lapsed
  PROVE  IInv'
<1>1. Stays(r, l, q)
  BY DEF Stays, NoJoin, Queued, CanJoin, Unqueued
<1>2. Moves(r, l, q)
  BY <1>1 DEF Moves, Own, Calm, QueueEffect
<1> QED
  BY <1>2, StepKeeps

LEMMA AcquireUserKeeps ==
  ASSUME IInv, NEW r \in Requests, NEW x \in Results, AcquireUser(r, x)
  PROVE  IInv'
<1>1. TypeOK /\ req[r] \in Locals /\ SlotsOK(pc[r], req[r]) /\ AnswerOK(pc[r], req[r])
  BY Self DEF IInv
<1>2. /\ pc[r] \in {"userTry", "userWait"} /\ User \in Keys /\ Call(r, x)
      /\ AcquireSlot(r, User, x # "lost") /\ UNCHANGED <<binding, env>>
  BY KeyFacts DEF AcquireUser
<1>3. Calm /\ waiting' = waiting
  BY <1>2, AcquireEffect
<1>4. req[r].userSlot = 0 /\ req[r].accountSlot = 0
  BY <1>1, <1>2 DEF SlotsOK
<1>5. CASE x = "ok" /\ Grants(User)
  <2> DEFINE n == NextSlot(r, User)
             q == [req[r] EXCEPT !.userSlot = n]
  <2>1. n \in Nat /\ n # 0 /\ ~req[r].canceled
    BY <1>2, <1>5, AcquireEffect
  <2>2. Step(r, "uncount", q)
    BY <1>5 DEF AcquireUser
  <2> HIDE DEF n
  <2>3. /\ q \in Locals /\ q.canceled = req[r].canceled /\ q.lapsed = req[r].lapsed
        /\ q.account = req[r].account /\ q.accountSlot = req[r].accountSlot
        /\ q.userSlot = n
    BY <1>1, <2>1 DEF Locals
  <2>4. SlotsOK("uncount", q) /\ AnswerOK("uncount", q)
    BY <1>1, <1>2, <1>4, <2>1 DEF Locals, SlotsOK, AnswerOK
  <2> HIDE DEF q
  <2>5. \A j \in Keys, i \in Nat : Owns(q, j, i) <=> (Owns(req[r], j, i) \/ (j = User /\ i = n))
    BY <1>4, <2>1, <2>3 DEF Owns
  <2>6. SlotEffect(r, q)
    BY <1>2, <1>5, <2>5, AcquireEffect DEF n
  <2> QED
    BY <1>2, <1>3, <2>1, <2>2, <2>3, <2>4, <2>6, Taking DEF Own, Unqueued
<1>6. CASE ~(x = "ok" /\ Grants(User))
  <2>1. PICK l \in {"userWait", "uncountFail"} : Step(r, l, req[r])
    BY <1>6 DEF AcquireUser
  <2>2. SlotsOK(l, req[r]) /\ AnswerOK(l, req[r])
    BY <1>1, <1>2 DEF SlotsOK, AnswerOK
  <2>3. SlotEffect(r, req[r])
    BY <1>2, <1>6, AcquireEffect
  <2> QED
    BY <1>1, <1>2, <1>3, <2>1, <2>2, <2>3, Taking DEF Own, Unqueued
<1> QED
  BY <1>5, <1>6

\* The account's slot is taken: request r goes on with locals q.
LEMMA TakesAccount ==
  ASSUME IInv, NEW r \in Requests, NEW x \in Results, NEW k \in Accounts, Call(r, x),
         AcquireSlot(r, k, x # "lost"), UNCHANGED <<binding, env>>,
         x = "ok", Grants(k), req[r].accountSlot = 0, NEW q \in Locals,
         q.account = k, q.userSlot = req[r].userSlot, q.accountSlot = NextSlot(r, k)
  PROVE  SlotEffect(r, q)
<1>1. k \in Keys /\ k # User
  BY KeyFacts
<1>2. NextSlot(r, k) \in Nat \ {0}
  BY <1>1, AcquireEffect
<1> DEFINE n == NextSlot(r, k)
<1> HIDE DEF n
<1>3. \A j \in Keys, i \in Nat : Owns(q, j, i) <=> (Owns(req[r], j, i) \/ (j = k /\ i = n))
  BY <1>1, <1>2 DEF Owns, n
<1> QED
  BY <1>1, <1>3, AcquireEffect DEF n

LEMMA AcquireOtherKeeps ==
  ASSUME IInv, NEW r \in Requests, NEW x \in Results, NEW k \in Accounts, Call(r, x),
         AcquireSlot(r, k, x # "lost"), UNCHANGED <<binding, env>>,
         NEW q0 \in Locals, NEW l1, NEW l2,
         q0.account = k, q0.canceled = req[r].canceled, q0.lapsed = req[r].lapsed,
         q0.userSlot = req[r].userSlot, q0.accountSlot = 0, q0.planMax = req[r].planMax,
         q0.delivered = req[r].delivered, q0.billed = req[r].billed,
         q0.account = req[r].account \/ l1 = "session",
         \/ pc[r] = "stickyTry" /\ l1 = "stickySession" /\ l2 = "stickyWait"
         \/ pc[r] = "pick" /\ l1 = "session" /\ l2 = "pick"
         \/ /\ pc[r] = "accountWait" /\ l1 = "uncountAccount"
            /\ l2 = IF x = "ok" THEN "accountWait" ELSE "uncountAccountFail",
         IF x = "ok" /\ Grants(k)
         THEN Step(r, l1, [q0 EXCEPT !.accountSlot = NextSlot(r, k)])
         ELSE Step(r, l2, q0)
  PROVE  IInv'
<1>1. /\ TypeOK /\ req[r] \in Locals /\ SlotsOK(pc[r], req[r]) /\ AnswerOK(pc[r], req[r])
      /\ k \in Keys
  BY Self, KeyFacts DEF IInv
<1>2. req[r].accountSlot = 0
  BY <1>1 DEF SlotsOK
<1>3. Calm /\ waiting' = waiting
  BY <1>1, AcquireEffect
<1>4. CASE x = "ok" /\ Grants(k)
  <2> DEFINE n == NextSlot(r, k)
             q == [q0 EXCEPT !.accountSlot = n]
  <2>1. n \in Nat /\ n # 0 /\ ~req[r].canceled
    BY <1>1, <1>4, AcquireEffect
  <2>2. Step(r, l1, q)
    BY <1>4
  <2> HIDE DEF n
  <2>3. /\ q \in Locals /\ q.canceled = req[r].canceled /\ q.lapsed = req[r].lapsed
        /\ q.account = k /\ q.accountSlot = n /\ q.userSlot = req[r].userSlot
    BY <2>1 DEF Locals
  <2>4. /\ q.planMax = req[r].planMax
        /\ q.delivered = req[r].delivered /\ q.billed = req[r].billed
    BY DEF Locals
  <2> HIDE DEF q
  <2>5. SlotsOK(l1, q) /\ AnswerOK(l1, q)
    BY <1>1, <2>1, <2>3, <2>4 DEF SlotsOK, AnswerOK
  <2>6. SlotEffect(r, q)
    BY <1>2, <1>4, <2>3, TakesAccount DEF n
  <2> QED
    BY <1>3, <2>1, <2>2, <2>3, <2>5, <2>6, Taking DEF Own, Unqueued
<1>5. CASE ~(x = "ok" /\ Grants(k))
  <2>1. Step(r, l2, q0)
    BY <1>5
  <2>2. SlotsOK(l2, q0) /\ AnswerOK(l2, q0)
    BY <1>1 DEF SlotsOK, AnswerOK
  <2>3. \A j \in Keys, i \in Nat : Owns(q0, j, i) <=> Owns(req[r], j, i)
    BY <1>2 DEF Owns
  <2>4. SlotEffect(r, q0)
    BY <1>1, <1>5, <2>3, AcquireEffect
  <2> QED
    BY <1>3, <2>1, <2>2, <2>4, Taking DEF Own, Unqueued
<1> QED
  BY <1>4, <1>5

LEMMA StickyTryKeeps ==
  ASSUME IInv, NEW r \in Requests, NEW x \in Results, StickyTry(r, x)
  PROVE  IInv'
<1>1. req[r] \in Locals /\ SlotsOK(pc[r], req[r]) /\ pc[r] = "stickyTry"
  BY Self DEF StickyTry
<1>2. req[r].account \in Accounts /\ req[r].accountSlot = 0
  BY <1>1 DEF SlotsOK
<1> QED
  BY <1>1, <1>2, AcquireOtherKeeps DEF StickyTry, TakeSlot

LEMMA AcquireAccountKeeps ==
  ASSUME IInv, NEW r \in Requests, NEW x \in Results, AcquireAccount(r, x)
  PROVE  IInv'
<1>1. req[r] \in Locals /\ SlotsOK(pc[r], req[r]) /\ pc[r] = "accountWait"
  BY Self DEF AcquireAccount
<1>2. req[r].account \in Accounts /\ req[r].accountSlot = 0
  BY <1>1 DEF SlotsOK
<1> QED
  BY <1>1, <1>2, AcquireOtherKeeps DEF AcquireAccount, TakeSlot

LEMMA PickKeeps ==
  ASSUME IInv, NEW r \in Requests, NEW x \in Results, Pick(r, x)
  PROVE  IInv'
<1>1. TypeOK /\ req[r] \in Locals /\ SlotsOK(pc[r], req[r]) /\ pc[r] = "pick"
  BY Self DEF Pick, IInv
<1>2. req[r].accountSlot = 0
  BY <1>1 DEF SlotsOK
<1>3. PICK a \in req[r].available :
        LET picked == [req[r] EXCEPT !.account = a, !.available = @ \ {a}]
        IN /\ AcquireSlot(r, a, x # "lost")
           /\ IF x = "ok" /\ Grants(a)
              THEN Step(r, "session", [picked EXCEPT !.accountSlot = NextSlot(r, a)])
              ELSE Step(r, "pick", picked)
  BY DEF Pick
<1>4. a \in Accounts /\ req[r].available \ {a} \in SUBSET Accounts /\ a \in SomeAccount
  BY <1>1, <1>3, RequestFields DEF SomeAccount
<1> DEFINE q0 == [req[r] EXCEPT !.account = a, !.available = req[r].available \ {a}]
<1>5. /\ q0 \in Locals /\ q0.account = a /\ q0.canceled = req[r].canceled
      /\ q0.lapsed = req[r].lapsed /\ q0.userSlot = req[r].userSlot /\ q0.accountSlot = 0
  BY <1>1, <1>2, <1>4 DEF Locals
<1>6. /\ q0.planMax = req[r].planMax
      /\ q0.delivered = req[r].delivered /\ q0.billed = req[r].billed
  BY <1>1 DEF Locals
<1>7. /\ AcquireSlot(r, a, x # "lost")
      /\ IF x = "ok" /\ Grants(a)
         THEN Step(r, "session", [q0 EXCEPT !.accountSlot = NextSlot(r, a)])
         ELSE Step(r, "pick", q0)
  BY <1>1, <1>3 DEF Locals
<1>8. Call(r, x) /\ UNCHANGED <<binding, env>>
  BY DEF Pick
<1> HIDE DEF q0
<1> QED
  BY <1>1, <1>4, <1>5, <1>6, <1>7, <1>8, AcquireOtherKeeps

\* A step from label pc[r] to l that joins or leaves a queue, with the slots
\* that it had.
LEMMA Queueing ==
  ASSUME IInv, NEW r \in Requests, NEW l, NEW q, Calm, slots' = slots,
         dropped' = dropped, Own(r, l, q), QueueEffect(r, l, q),
         \/ q = req[r]
         \/ /\ q = Fresh /\ req[r].userSlot = 0 /\ req[r].accountSlot = 0
  PROVE  IInv'
<1>1. SameSlots(r, q)
  BY FreshTyped DEF SameSlots, Owns
<1>2. Moves(r, l, q)
  BY <1>1, FreshTyped DEF Moves, Own, Calm, SlotEffect
<1> QED
  BY <1>2, StepKeeps

LEMMA MaxWaitCovers ==
  ASSUME TypeOK
  PROVE  /\ MaxWait(User) = config.userWait
         /\ \A k \in Accounts : /\ config.stickyWait <= MaxWait(k)
                                /\ config.fallbackWait <= MaxWait(k) /\ 0 <= MaxWait(k)
BY ConfigFields, KeyFacts DEF MaxWait

LEMMA CountKeeps ==
  ASSUME IInv, NEW r \in Requests, NEW x \in Results, Count(r, x)
  PROVE  IInv'
<1>1. /\ TypeOK /\ req[r] \in Locals /\ SlotsOK(pc[r], req[r]) /\ AnswerOK(pc[r], req[r])
      /\ waiting \in [Keys -> Nat] /\ User \in Keys /\ config.userWait \in Nat
  BY Self, ConfigFields, KeyFacts DEF IInv
<1>2. pc[r] = "count" /\ req' = req
  BY DEF Count
<1>3. Calm /\ slots' = slots /\ dropped' = dropped
  BY <1>1, CallEffect DEF Calm, Count, IncrementWait, binding, env, TypeOK
<1> DEFINE l == IF x # "ok" \/ HasRoom(User, config.userWait) THEN "userTry" ELSE "done"
<1>4. l \in {"userTry", "done"} /\ Step(r, l, req[r])
  <2>1. req = [req EXCEPT ![r] = req[r]]
    BY <1>1 DEF TypeOK
  <2> QED
    BY <1>2, <2>1 DEF Count, Goto, Step
<1>5. l = "done" => ~req[r].canceled
  BY <1>1, CallEffect DEF Count
<1>6. QueueEffect(r, l, req[r])
  <2>1. CASE l = "done"
    <3>1. waiting' = waiting
      BY <1>1, <2>1 DEF Count, IncrementWait
    <3> QED
      BY <1>5, <2>1, <3>1 DEF QueueEffect, Stays, NoJoin, Queued, CanJoin
  <2>2. CASE l = "userTry"
    <3>1. /\ \A j \in Keys : ~CanJoin(j, l, req[r])
          /\ \A j \in Keys \ {User} : NoJoin(r, l, req[r], j)
      BY <2>2 DEF Queued, CanJoin, NoJoin
    <3>2. CASE x # "lost" /\ waiting[User] < config.userWait
      <4>1. waiting' = [waiting EXCEPT ![User] = @ + 1] /\ waiting[User] < MaxWait(User)
        BY <1>1, <3>2, MaxWaitCovers DEF Count, IncrementWait, HasRoom
      <4> HIDE DEF l
      <4>2. Joins(r, l, req[r], User)
        BY ONLY <1>1, <3>1, <4>1 DEF Joins
      <4> QED
        BY <1>1, <4>2 DEF QueueEffect
    <3>3. CASE ~(x # "lost" /\ waiting[User] < config.userWait)
      <4>1. waiting' = waiting
        BY <1>1, <3>3 DEF Count, IncrementWait, HasRoom
      <4>2. x # "ok"
        BY <2>2, <3>3 DEF HasRoom
      <4>3. disturbances' = disturbances + 1 \/ req[r].canceled
        BY <1>1, <4>2, CallEffect DEF Count, Results
      <4> HIDE DEF l
      <4>4. disturbances' = disturbances + 1 \/ CanJoin(User, pc[r], req[r])
        BY <1>2, <4>3 DEF CanJoin
      <4>5. Joins(r, l, req[r], User)
        BY ONLY <1>1, <3>1, <4>1, <4>4 DEF Joins
      <4> QED
        BY <1>1, <4>5 DEF QueueEffect
    <3> QED
      BY <3>2, <3>3
  <2> QED
    BY <1>4, <2>1, <2>2
<1>7. SlotsOK(l, req[r]) /\ AnswerOK(l, req[r])
  BY <1>1, <1>2, <1>4, <1>5 DEF SlotsOK, AnswerOK
<1> HIDE DEF l
<1> QED
  BY <1>1, <1>2, <1>3, <1>4, <1>6, <1>7, Queueing DEF Own

LEMMA CountAccountKeeps ==
  ASSUME IInv, NEW r \in Requests, NEW x \in Results, CountAccount(r, x)
  PROVE  IInv'
<1> DEFINE k == req[r].account
           max == req[r].planMax
<1>1. /\ TypeOK /\ req[r] \in Locals /\ SlotsOK(pc[r], req[r]) /\ AnswerOK(pc[r], req[r])
      /\ waiting \in [Keys -> Nat] /\ max \in Nat
  BY Self, ConfigFields, RequestFields DEF IInv
<1>2. pc[r] = "countAccount" /\ req' = req
  BY DEF CountAccount
<1>3. k \in Accounts /\ k \in Keys /\ k # User
  BY <1>1, <1>2, KeyFacts DEF SlotsOK
<1>4. max <= MaxWait(k) /\ MaxWait(k) \in Nat
  BY <1>1, <1>3, ConfigFields, MaxWaitCovers DEF SlotsOK
<1>5. Calm /\ slots' = slots /\ dropped' = dropped
  BY <1>1, CallEffect DEF Calm, CountAccount, IncrementWait, binding, env, TypeOK
<1> DEFINE l == IF x # "ok" \/ HasRoom(k, max) THEN "accountWait" ELSE "leave"
<1>6. l \in {"accountWait", "leave"} /\ Step(r, l, req[r])
  <2>1. req = [req EXCEPT ![r] = req[r]]
    BY <1>1 DEF TypeOK
  <2> QED
    BY <1>2, <2>1 DEF CountAccount, Goto, Step
<1>7. QueueEffect(r, l, req[r])
  <2>1. CASE l = "leave"
    <3>1. waiting' = waiting
      BY <1>1, <2>1 DEF CountAccount, IncrementWait
    <3> QED
      BY <2>1, <3>1 DEF QueueEffect, Stays, NoJoin, Queued, CanJoin
  <2>2. CASE l = "accountWait"
    <3>1. /\ \A j \in Keys : ~CanJoin(j, l, req[r])
          /\ \A j \in Keys \ {k} : NoJoin(r, l, req[r], j)
      BY <2>2 DEF Queued, CanJoin, NoJoin
    <3>2. CASE x # "lost" /\ waiting[k] < max
      <4>1. waiting' = [waiting EXCEPT ![k] = @ + 1] /\ waiting[k] < MaxWait(k)
        BY <1>1, <1>3, <1>4, <3>2 DEF CountAccount, IncrementWait, HasRoom
      <4> HIDE DEF l, k
      <4>2. Joins(r, l, req[r], k)
        BY ONLY <1>3, <3>1, <4>1 DEF Joins
      <4> QED
        BY <1>3, <4>2 DEF QueueEffect
    <3>3. CASE ~(x # "lost" /\ waiting[k] < max)
      <4>1. waiting' = waiting
        BY <1>1, <3>3 DEF CountAccount, IncrementWait, HasRoom
      <4>2. x # "ok"
        BY <2>2, <3>3 DEF HasRoom
      <4>3. disturbances' = disturbances + 1 \/ req[r].canceled
        BY <1>1, <4>2, CallEffect DEF CountAccount, Results
      <4> HIDE DEF l, k
      <4>4. disturbances' = disturbances + 1 \/ CanJoin(k, pc[r], req[r])
        BY <1>2, <1>3, <4>3 DEF CanJoin
      <4>5. Joins(r, l, req[r], k)
        BY ONLY <1>3, <3>1, <4>1, <4>4 DEF Joins
      <4> QED
        BY <1>3, <4>5 DEF QueueEffect
    <3> QED
      BY <3>2, <3>3
  <2> QED
    BY <1>6, <2>1, <2>2
<1>8. SlotsOK(l, req[r]) /\ AnswerOK(l, req[r])
  BY <1>1, <1>2, <1>6 DEF SlotsOK, AnswerOK
<1> HIDE DEF l
<1> QED
  BY <1>1, <1>2, <1>5, <1>6, <1>7, <1>8, Queueing DEF Own

LEMMA UncountKeeps ==
  ASSUME IInv, NEW r \in Requests, NEW x \in Results, Uncount(r, x)
  PROVE  IInv'
<1>1. /\ TypeOK /\ req[r] \in Locals /\ SlotsOK(pc[r], req[r]) /\ AnswerOK(pc[r], req[r])
      /\ waiting \in [Keys -> Nat] /\ User \in Keys
  BY Self, ConfigFields, KeyFacts DEF IInv
<1>2. Calm /\ slots' = slots /\ dropped' = dropped
  BY <1>1, OutcomeEffect DEF Calm, Uncount, DecrementWait, binding, env, TypeOK
<1>3. \/ waiting' = waiting
      \/ waiting[User] > 0 /\ waiting' = [waiting EXCEPT ![User] = @ - 1]
  BY <1>1 DEF Uncount, DecrementWait
<1>4. CASE pc[r] = "uncount"
  <2>1. Step(r, "billing", req[r])
    BY <1>4 DEF Uncount
  <2>2. Unjoins(r, "billing", req[r], User)
    BY <1>3, <1>4 DEF Unjoins, NoJoin, Queued, CanJoin
  <2>3. SlotsOK("billing", req[r]) /\ AnswerOK("billing", req[r])
    BY <1>1, <1>4 DEF SlotsOK, AnswerOK
  <2> QED
    BY <1>1, <1>2, <1>4, <2>1, <2>2, <2>3, Queueing DEF Own, QueueEffect
<1>5. CASE pc[r] = "uncountFail"
  <2>1. Step(r, "done", Fresh)
    BY <1>5 DEF Uncount
  <2>2. Unjoins(r, "done", Fresh, User)
    BY <1>3, <1>5 DEF Unjoins, NoJoin, Queued, CanJoin
  <2>3. SlotsOK("done", Fresh) /\ AnswerOK("done", Fresh)
    BY FreshTyped DEF SlotsOK, AnswerOK
  <2>4. req[r].userSlot = 0 /\ req[r].accountSlot = 0
    BY <1>1, <1>5 DEF SlotsOK
  <2> QED
    BY <1>1, <1>2, <1>5, <2>1, <2>2, <2>3, <2>4, FreshTyped, Queueing DEF Own, QueueEffect
<1> QED
  BY <1>4, <1>5 DEF Uncount

LEMMA UncountAccountKeeps ==
  ASSUME IInv, NEW r \in Requests, NEW x \in Results, UncountAccount(r, x)
  PROVE  IInv'
<1> DEFINE k == req[r].account
<1>1. /\ TypeOK /\ req[r] \in Locals /\ SlotsOK(pc[r], req[r]) /\ AnswerOK(pc[r], req[r])
      /\ waiting \in [Keys -> Nat] /\ req = [req EXCEPT ![r] = req[r]]
  BY Self, ConfigFields DEF IInv, TypeOK
<1>2. Calm /\ slots' = slots /\ dropped' = dropped
  BY <1>1, OutcomeEffect DEF Calm, UncountAccount, DecrementWait, binding, env, TypeOK
<1>3. PICK l \in {"bindAfterWait", "leave"} :
        /\ Step(r, l, req[r])
        /\ \/ l = "bindAfterWait" /\ pc[r] = "uncountAccount"
           \/ l = "leave" /\ pc[r] = "uncountAccountFail"
  BY <1>1 DEF UncountAccount, Goto, Step
<1>4. k \in Keys /\ k # User
  BY <1>1, <1>3, KeyFacts DEF SlotsOK
<1>5. \/ waiting' = waiting
      \/ waiting[k] > 0 /\ waiting' = [waiting EXCEPT ![k] = @ - 1]
  BY <1>1 DEF UncountAccount, DecrementWait
<1>6. Unjoins(r, l, req[r], k)
  BY <1>3, <1>4, <1>5 DEF Unjoins, NoJoin, Queued, CanJoin
<1>7. SlotsOK(l, req[r]) /\ AnswerOK(l, req[r])
  BY <1>1, <1>3 DEF SlotsOK, AnswerOK
<1>8. QueueEffect(r, l, req[r])
  BY <1>4, <1>6 DEF QueueEffect
<1> QED
  BY <1>1, <1>2, <1>3, <1>7, <1>8, Queueing DEF Own

-----------------------------------------------------------------------------
(* What expires, and what the environment does. *)

\* Every slot that is left is of somebody who is alive.
LEMMA OrphansShrink ==
  ASSUME IInv, slots' \in [Keys -> SUBSET Members],
         \A k \in Keys : slots'[k] \subseteq slots[k],
         \A u \in Requests : pc'[u] # "dead" =>
            /\ pc[u] # "dead"
            /\ \A k \in Keys, n \in Nat : Owns(req[u], k, n) => Owns(req'[u], k, n),
         disturbances' \in Nat, disturbances' >= disturbances, dropped' = dropped
  PROVE  OrphansOK'
<1>1. /\ OrphansOK /\ slots \in [Keys -> SUBSET Members]
      /\ disturbances \in Nat /\ dropped \in Nat /\ dropped' \in Nat
  BY ConfigFields DEF IInv
<1>2. ASSUME NEW y \in Orphans' PROVE y \in Orphans
  <2>1. PICK k \in Keys, m \in Members :
           /\ m \in slots'[k] /\ y = <<k, m>>
           /\ ~Owns(req'[m[1]], k, m[2]) /\ pc'[m[1]] # "dead"
    BY <1>2, OrphansArePrime
  <2>2. m[1] \in Requests /\ m[2] \in Nat /\ m \in slots[k]
    BY <2>1 DEF Members
  <2>3. ~Owns(req[m[1]], k, m[2]) /\ pc[m[1]] # "dead"
    BY <2>1, <2>2
  <2> QED
    BY <1>1, <2>1, <2>2, <2>3, OrphansAre
<1>3. Orphans' \subseteq Orphans
  BY <1>2
<1>4. disturbances' + dropped' >= disturbances + dropped
  BY <1>1, SumKept
<1> QED
  BY <1>1, <1>3, <1>4, OrphansCounted

LEMMA StoreShrinks ==
  ASSUME IInv, limit' = limit, config' = config,
         \A k \in Keys : slots'[k] \subseteq slots[k],
         waiting' \in [Keys -> Nat], \A k \in Keys : waiting'[k] <= waiting[k]
  PROVE  StoreOK'
<1>1. /\ TypeOK /\ StoreOK /\ waiting \in [Keys -> Nat] /\ limit \in [Keys -> Nat]
      /\ \A k \in Keys : MaxWait(k) \in Nat
  BY ConfigFields DEF IInv
<1>2. ASSUME NEW k \in Keys
      PROVE  /\ IsFiniteSet(slots'[k])
             /\ limit[k] > 0 => Cardinality(slots'[k]) <= limit[k]
             /\ waiting'[k] <= MaxWait(k)
  <2>1. /\ IsFiniteSet(slots'[k]) /\ Cardinality(slots'[k]) <= Cardinality(slots[k])
        /\ Cardinality(slots'[k]) \in Nat /\ Cardinality(slots[k]) \in Nat
    BY <1>1, CardSubset DEF StoreOK
  <2>2. limit[k] > 0 => Cardinality(slots'[k]) <= limit[k]
    BY <1>1, <2>1 DEF StoreOK
  <2>3. waiting'[k] <= MaxWait(k)
    BY <1>1 DEF StoreOK
  <2> QED
    BY <2>1, <2>2, <2>3
<1>3. \A k \in Keys : MaxWait(k)' = MaxWait(k)
  BY DEF MaxWait
<1> QED
  BY <1>2, <1>3 DEF StoreOK

\* Request u is as it was, except that it may have lost its slots.
SameRequest(u) ==
  /\ req'[u].account = req[u].account /\ req'[u].userSlot = req[u].userSlot
  /\ req'[u].accountSlot = req[u].accountSlot /\ req'[u].canceled = req[u].canceled
  /\ req'[u].planMax = req[u].planMax /\ req'[u].result = req[u].result
  /\ req'[u].delivered = req[u].delivered /\ req'[u].billed = req[u].billed
  /\ ~req'[u].lapsed =>
       /\ ~req[u].lapsed
       /\ \A k \in Keys, n \in Nat :
            <<u, n>> \in slots[k] /\ Owns(req[u], k, n) => <<u, n>> \in slots'[k]

\* Slots, counters and sessions expire.
Expires ==
  /\ pc' = pc /\ limit' = limit /\ config' = config /\ dropped' = dropped
  /\ restarted' = restarted /\ sticky' = sticky
  /\ sessions' \in [Accounts -> SUBSET Sessions]
  /\ cleaning' \in [Processes -> SUBSET Keys]
  /\ \A p \in Processes : cleaning'[p] \subseteq cleaning[p]
  /\ disturbances' \in disturbances .. config.disturbances
  /\ slots' \in [Keys -> SUBSET Members] /\ \A k \in Keys : slots'[k] \subseteq slots[k]
  /\ waiting' \in [Keys -> Nat] /\ \A k \in Keys : waiting'[k] <= waiting[k]
  /\ req' \in [Requests -> Locals] /\ \A u \in Requests : SameRequest(u)

LEMMA ExpiresKeeps ==
  ASSUME IInv, Expires, QueueOK'
  PROVE  IInv'
<1>1. /\ TypeOK /\ CleaningOK /\ disturbances \in Nat /\ config.disturbances \in Nat
      /\ \A u \in Requests : RequestOK(u)
  BY ConfigFields DEF IInv
<1>2. disturbances' \in Nat /\ disturbances' >= disturbances
      /\ disturbances' \in 0 .. config.disturbances
  BY <1>1 DEF Expires
<1>3. TypeOK'
  BY <1>1, <1>2 DEF TypeOK, StoreTypeOK, Expires
<1>4. StoreOK'
  BY StoreShrinks DEF Expires
<1>5. OrphansOK'
  BY <1>2, OrphansShrink DEF Expires, SameRequest, Owns
<1>6. CleaningOK'
  BY <1>1 DEF CleaningOK, Expires
<1>7. ASSUME NEW u \in Requests PROVE RequestOK(u)'
  <2>1. SameRequest(u) /\ pc' = pc /\ config' = config /\ limit' = limit
    BY DEF Expires
  <2>2. SlotsOK(pc[u], req[u])'
    BY <1>1, <2>1 DEF SameRequest, SlotsOK, RequestOK
  <2>3. AnswerOK(pc[u], req[u])'
    BY <1>1, <2>1 DEF SameRequest, AnswerOK, RequestOK
  <2>4. HeldOK(u)'
    BY <1>1, <2>1 DEF SameRequest, HeldOK, RequestOK, Owns
  <2> QED
    BY <2>2, <2>3, <2>4 DEF RequestOK
<1> QED
  BY <1>3, <1>4, <1>5, <1>6, <1>7 DEF IInv

\* As long as the counters stay, the queues do.
LEMMA QueuesUntouched ==
  ASSUME IInv, Expires, waiting' = waiting
  PROVE  QueueOK'
<1>1. CASE restarted
  BY <1>1 DEF QueueOK, Expires
<1>2. CASE ~restarted
  <2>1. disturbances \in Nat /\ config.disturbances \in Nat /\ waiting \in [Keys -> Nat]
    BY ConfigFields DEF IInv
  <2>2. disturbances' \in Nat /\ disturbances' >= disturbances
    BY <2>1 DEF Expires
  <2>3. /\ Gone' = Gone
        /\ \A k \in Keys : Waiters(k)' = Waiters(k) /\ MayJoin(k)' = MayJoin(k)
    BY DEF Expires, SameRequest, Gone, Waiters, MayJoin
  <2>4. /\ IsFiniteSet(Gone) /\ Cardinality(Gone) <= disturbances
        /\ \A k \in Keys :
             /\ IsFiniteSet(Waiters(k))
             /\ Cardinality(Waiters(k)) + Cardinality(MayJoin(k)) <= waiting[k] + disturbances
    BY <1>2 DEF IInv, QueueOK
  <2>5. Cardinality(Gone') <= disturbances'
    BY <2>1, <2>2, <2>3, <2>4, FS_CardinalityType
  <2>6. ASSUME NEW k \in Keys
        PROVE  /\ IsFiniteSet(Waiters(k)')
               /\ Cardinality(Waiters(k)') + Cardinality(MayJoin(k)')
                    <= waiting'[k] + disturbances'
    <3>1. IsFiniteSet(MayJoin(k))
      <4>1. MayJoin(k) \subseteq Gone
        BY DEF MayJoin, Gone
      <4> QED
        BY <2>4, <4>1, CardSubset
    <3>2. waiting[k] \in Nat /\ waiting'[k] = waiting[k]
      BY <2>1
    <3>3. Covered(Waiters(k), MayJoin(k), waiting[k], disturbances)
      BY <2>1, <2>4, <3>1, <3>2 DEF Covered
    <3>4. waiting'[k] + disturbances' >= waiting[k] + disturbances
      BY <2>1, <2>2, <3>2, SumStays
    <3>5. Covered(Waiters(k)', MayJoin(k)', waiting'[k], disturbances')
      BY <2>1, <2>2, <2>3, <3>2, <3>3, <3>4, QueueKept
    <3> QED
      BY <3>5 DEF Covered
  <2> QED
    BY <2>3, <2>4, <2>5, <2>6 DEF QueueOK
<1> QED
  BY <1>1, <1>2

LEMMA DisturbEffect ==
  ASSUME TypeOK, Disturb \/ UNCHANGED disturbances
  PROVE  disturbances' \in disturbances .. config.disturbances
<1>1. /\ disturbances \in 0 .. config.disturbances
      /\ disturbances \in Nat /\ config.disturbances \in Nat
  BY ConfigFields DEF TypeOK
<1> QED
  BY <1>1 DEF Disturb

LEMMA SlotExpiresKeeps ==
  ASSUME IInv, NEW k \in Keys, NEW m \in slots[k], SlotExpires(k, m)
  PROVE  IInv'
<1>1. /\ TypeOK /\ slots \in [Keys -> SUBSET Members] /\ waiting \in [Keys -> Nat]
      /\ req \in [Requests -> Locals]
  BY ConfigFields DEF IInv, TypeOK
<1>2. m \in Members /\ m[1] \in Requests /\ m[2] \in Nat /\ m = <<m[1], m[2]>>
  BY <1>1 DEF Members
<1>3. slots' = [slots EXCEPT ![k] = @ \ {m}] /\ waiting' = waiting
  BY DEF SlotExpires, DropSlot
<1>4. disturbances' \in disturbances .. config.disturbances
  BY <1>1, DisturbEffect DEF SlotExpires
<1>5. InUse(k, m) <=> Owns(req[m[1]], k, m[2])
  BY <1>2, OwnsInUse
<1> DEFINE q == [req[m[1]] EXCEPT !.lapsed = TRUE]
<1>6. /\ q \in Locals /\ q.account = req[m[1]].account /\ q.userSlot = req[m[1]].userSlot
      /\ q.accountSlot = req[m[1]].accountSlot /\ q.canceled = req[m[1]].canceled
      /\ q.planMax = req[m[1]].planMax /\ q.result = req[m[1]].result
      /\ q.delivered = req[m[1]].delivered /\ q.billed = req[m[1]].billed /\ q.lapsed
  <2>1. req[m[1]] \in Locals
    BY <1>1, <1>2
  <2> QED
    BY <2>1 DEF Locals
<1>7. IF InUse(k, m) THEN req' = [req EXCEPT ![m[1]] = q] ELSE req' = req
  BY DEF SlotExpires
<1> HIDE DEF q
<1>8. req' \in [Requests -> Locals]
  BY <1>1, <1>6, <1>7
<1>9. ASSUME NEW u \in Requests PROVE SameRequest(u)
  <2>1. CASE u # m[1]
    <3>1. req'[u] = req[u]
      BY <1>1, <1>2, <1>7, <2>1
    <3>2. \A j \in Keys, n \in Nat : <<u, n>> \in slots[j] => <<u, n>> \in slots'[j]
      BY <1>1, <1>2, <1>3, <2>1
    <3> QED
      BY <3>1, <3>2 DEF SameRequest
  <2>2. CASE u = m[1] /\ InUse(k, m)
    <3>1. req'[u] = q
      BY <1>1, <1>2, <1>7, <2>2
    <3> QED
      BY <1>6, <2>2, <3>1 DEF SameRequest
  <2>3. CASE u = m[1] /\ ~InUse(k, m)
    <3>1. req'[u] = req[u]
      BY <1>7, <2>3
    <3>2. \A j \in Keys, n \in Nat :
             <<u, n>> \in slots[j] /\ Owns(req[u], j, n) => <<u, n>> \in slots'[j]
      BY <1>1, <1>2, <1>3, <1>5, <2>3
    <3> QED
      BY <3>1, <3>2 DEF SameRequest
  <2> QED
    BY <2>1, <2>2, <2>3
<1>10. /\ slots' \in [Keys -> SUBSET Members]
       /\ \A j \in Keys : slots'[j] \subseteq slots[j]
  BY <1>1, <1>3
<1>11. Expires
  BY <1>1, <1>3, <1>4, <1>8, <1>9, <1>10 DEF Expires, SlotExpires, binding, env, TypeOK
<1> QED
  BY <1>3, <1>11, QueuesUntouched, ExpiresKeeps

LEMMA SessionExpiresKeeps ==
  ASSUME IInv, NEW a \in Accounts, NEW s \in Sessions, SessionExpires(a, s)
  PROVE  IInv'
<1>1. /\ TypeOK /\ slots \in [Keys -> SUBSET Members] /\ waiting \in [Keys -> Nat]
      /\ req \in [Requests -> Locals] /\ sessions \in [Accounts -> SUBSET Sessions]
      /\ cleaning \in [Processes -> SUBSET Keys]
  BY ConfigFields DEF IInv, TypeOK
<1>2. disturbances' \in disturbances .. config.disturbances
  BY <1>1, DisturbEffect DEF SessionExpires
<1>3. sessions' \in [Accounts -> SUBSET Sessions]
  BY <1>1 DEF SessionExpires
<1>4. /\ slots' = slots /\ waiting' = waiting /\ req' = req /\ pc' = pc /\ sticky' = sticky
      /\ limit' = limit /\ config' = config /\ dropped' = dropped
      /\ restarted' = restarted /\ cleaning' = cleaning
  BY DEF SessionExpires, store, env
<1>5. \A u \in Requests : SameRequest(u)
  BY <1>4 DEF SameRequest
<1>6. Expires
  BY <1>1, <1>2, <1>3, <1>4, <1>5 DEF Expires
<1> QED
  BY <1>4, <1>6, QueuesUntouched, ExpiresKeeps

LEMMA WaitExpiresKeeps ==
  ASSUME IInv, NEW k \in Keys, WaitExpires(k)
  PROVE  IInv'
<1>1. /\ TypeOK /\ slots \in [Keys -> SUBSET Members] /\ waiting \in [Keys -> Nat]
      /\ req \in [Requests -> Locals] /\ sessions \in [Accounts -> SUBSET Sessions]
      /\ cleaning \in [Processes -> SUBSET Keys]
      /\ disturbances \in Nat /\ config.disturbances \in Nat
      /\ disturbances \in 0 .. config.disturbances
  BY ConfigFields DEF IInv, TypeOK
<1>2. waiting' = [waiting EXCEPT ![k] = 0] /\ Waiters(k) = {}
  BY DEF WaitExpires
<1>3. /\ slots' = slots /\ req' = req /\ pc' = pc /\ sticky' = sticky /\ sessions' = sessions
      /\ limit' = limit /\ config' = config /\ dropped' = dropped
      /\ restarted' = restarted /\ cleaning' = cleaning /\ disturbances' = disturbances
  BY DEF WaitExpires, binding, env
<1>4. \A u \in Requests : SameRequest(u)
  BY <1>3 DEF SameRequest
<1>5. waiting' \in [Keys -> Nat] /\ \A j \in Keys : waiting'[j] <= waiting[j]
  BY <1>1, <1>2
<1>6. Expires
  BY <1>1, <1>3, <1>4, <1>5 DEF Expires
<1>7. QueueOK'
  <2>1. CASE restarted
    BY <1>3, <2>1 DEF QueueOK
  <2>2. CASE ~restarted
    <3>1. /\ IsFiniteSet(Gone) /\ Cardinality(Gone) <= disturbances
          /\ \A j \in Keys :
               /\ IsFiniteSet(Waiters(j))
               /\ Cardinality(Waiters(j)) + Cardinality(MayJoin(j)) <= waiting[j] + disturbances
      BY <2>2 DEF IInv, QueueOK
    <3>2. /\ Gone' = Gone
          /\ \A j \in Keys : Waiters(j)' = Waiters(j) /\ MayJoin(j)' = MayJoin(j)
      BY <1>3 DEF Gone, Waiters, MayJoin
    <3>3. Cardinality(Waiters(k)) + Cardinality(MayJoin(k)) <= 0 + disturbances
      <4>1. MayJoin(k) \subseteq Gone
        BY DEF MayJoin, Gone
      <4>2. /\ Cardinality(MayJoin(k)) <= Cardinality(Gone)
            /\ Cardinality(MayJoin(k)) \in Nat /\ Cardinality(Gone) \in Nat
        BY <3>1, <4>1, CardSubset
      <4>3. Cardinality(Waiters(k)) = 0
        BY <1>2, FS_EmptySet
      <4> QED
        BY <1>1, <3>1, <4>2, <4>3
    <3>4. ASSUME NEW j \in Keys
          PROVE  Cardinality(Waiters(j)) + Cardinality(MayJoin(j)) <= waiting'[j] + disturbances
      <4>1. CASE j = k
        BY <1>1, <1>2, <3>3, <4>1
      <4>2. CASE j # k
        BY <1>1, <1>2, <3>1, <4>2
      <4> QED
        BY <4>1, <4>2
    <3> QED
      BY <1>3, <3>1, <3>2, <3>4 DEF QueueOK
  <2> QED
    BY <2>1, <2>2
<1> QED
  BY <1>6, <1>7, ExpiresKeeps

LEMMA StartupCleanupKeeps ==
  ASSUME IInv, NEW p \in Processes, NEW k \in Keys, StartupCleanup(p, k)
  PROVE  IInv'
<1>1. /\ TypeOK /\ slots \in [Keys -> SUBSET Members] /\ waiting \in [Keys -> Nat]
      /\ req \in [Requests -> Locals] /\ sessions \in [Accounts -> SUBSET Sessions]
      /\ cleaning \in [Processes -> SUBSET Keys]
      /\ disturbances \in Nat /\ config.disturbances \in Nat
      /\ disturbances \in 0 .. config.disturbances
  BY ConfigFields DEF IInv, TypeOK
<1>2. restarted
  BY DEF StartupCleanup, IInv, CleaningOK
<1>3. /\ slots' = [slots EXCEPT ![k] = @ \cap OwnMembers(p)]
      /\ waiting' = [waiting EXCEPT ![k] = 0]
      /\ cleaning' = [cleaning EXCEPT ![p] = @ \ {k}]
  BY DEF StartupCleanup, KeepOnly
<1>4. /\ pc' = pc /\ sticky' = sticky /\ sessions' = sessions /\ limit' = limit
      /\ config' = config /\ dropped' = dropped /\ restarted' = restarted
      /\ disturbances' = disturbances
  BY DEF StartupCleanup, binding
<1> DEFINE lost(u) == \E m \in slots[k] \ OwnMembers(p) : m[1] = u /\ InUse(k, m)
           q(u) == [req[u] EXCEPT !.lapsed = req[u].lapsed \/ lost(u)]
<1>5. req' = [u \in Requests |-> q(u)]
  BY <1>1 DEF StartupCleanup, Locals
<1>6. ASSUME NEW u \in Requests
      PROVE  q(u) \in Locals /\ q(u).lapsed = (req[u].lapsed \/ lost(u))
             /\ q(u).account = req[u].account /\ q(u).userSlot = req[u].userSlot
             /\ q(u).accountSlot = req[u].accountSlot /\ q(u).canceled = req[u].canceled
             /\ q(u).planMax = req[u].planMax /\ q(u).result = req[u].result
             /\ q(u).delivered = req[u].delivered /\ q(u).billed = req[u].billed
  <2> DEFINE b == req[u].lapsed \/ lost(u)
  <2>1. b \in BOOLEAN /\ req[u] \in Locals
    BY <1>1
  <2> HIDE DEF b
  <2>2. [req[u] EXCEPT !.lapsed = b] \in Locals
    BY <2>1 DEF Locals
  <2>3. LET v == [req[u] EXCEPT !.lapsed = b]
        IN  v.lapsed = b /\ v.account = req[u].account /\ v.userSlot = req[u].userSlot
            /\ v.accountSlot = req[u].accountSlot /\ v.canceled = req[u].canceled
            /\ v.planMax = req[u].planMax /\ v.result = req[u].result
            /\ v.delivered = req[u].delivered /\ v.billed = req[u].billed
    BY <2>1 DEF Locals
  <2> QED
    BY <2>2, <2>3 DEF b
<1> HIDE DEF q
<1>7. req' \in [Requests -> Locals]
  BY <1>5, <1>6
<1>8. ASSUME NEW u \in Requests PROVE SameRequest(u)
  <2>1. req'[u] = q(u)
    BY <1>5
  <2>2. ASSUME ~lost(u), NEW j \in Keys, NEW n \in Nat, <<u, n>> \in slots[j],
               Owns(req[u], j, n)
        PROVE  <<u, n>> \in slots'[j]
    <3>1. CASE j = k
      <4>1. <<u, n>> \in Members /\ <<u, n>>[1] = u /\ <<u, n>>[2] = n
        BY <1>1, <2>2
      <4>2. InUse(k, <<u, n>>)
        BY <2>2, <3>1, <4>1, OwnsInUse
      <4>3. <<u, n>> \in OwnMembers(p)
        BY <2>2, <3>1, <4>1, <4>2
      <4> QED
        BY <1>1, <1>3, <2>2, <3>1, <4>3
    <3>2. CASE j # k
      BY <1>1, <1>3, <2>2, <3>2
    <3> QED
      BY <3>1, <3>2
  <2> HIDE DEF lost
  <2>3. ~q(u).lapsed => ~req[u].lapsed /\ ~lost(u)
    BY <1>6
  <2> QED
    BY <1>6, <2>1, <2>2, <2>3 DEF SameRequest
<1>9. waiting' \in [Keys -> Nat] /\ \A j \in Keys : waiting'[j] <= waiting[j]
  BY <1>1, <1>3
<1>10. /\ slots' \in [Keys -> SUBSET Members]
       /\ \A j \in Keys : slots'[j] \subseteq slots[j]
  BY <1>1, <1>3
<1>11. /\ cleaning' \in [Processes -> SUBSET Keys]
       /\ \A o \in Processes : cleaning'[o] \subseteq cleaning[o]
  BY <1>1, <1>3
<1>12. Expires
  BY <1>1, <1>4, <1>7, <1>8, <1>9, <1>10, <1>11 DEF Expires
<1> QED
  BY <1>2, <1>4, <1>12, ExpiresKeeps DEF QueueOK

LEMMA CancelKeeps ==
  ASSUME IInv, NEW r \in Requests, Cancel(r)
  PROVE  IInv'
<1>1. /\ TypeOK /\ CleaningOK /\ slots \in [Keys -> SUBSET Members]
      /\ waiting \in [Keys -> Nat] /\ req \in [Requests -> Locals] /\ req[r] \in Locals
      /\ disturbances \in Nat /\ config.disturbances \in Nat
      /\ \A u \in Requests : RequestOK(u)
  BY ConfigFields DEF IInv, TypeOK
<1>2. /\ slots' = slots /\ waiting' = waiting /\ pc' = pc /\ sticky' = sticky
      /\ sessions' = sessions /\ limit' = limit /\ config' = config /\ dropped' = dropped
      /\ restarted' = restarted /\ cleaning' = cleaning
      /\ disturbances' = disturbances + 1 /\ disturbances < config.disturbances
      /\ pc[r] \notin {"idle", "done", "dead"}
  BY DEF Cancel, Disturb, store, binding, env
<1>3. disturbances' \in Nat /\ disturbances' >= disturbances
      /\ disturbances' \in 0 .. config.disturbances
  BY <1>1, <1>2
<1> DEFINE q == [req[r] EXCEPT !.canceled = TRUE]
<1>4. req' = [req EXCEPT ![r] = q]
  BY DEF Cancel
<1>5. /\ q \in Locals /\ q.account = req[r].account /\ q.userSlot = req[r].userSlot
      /\ q.accountSlot = req[r].accountSlot /\ q.canceled
      /\ q.planMax = req[r].planMax /\ q.result = req[r].result
      /\ q.delivered = req[r].delivered /\ q.billed = req[r].billed
      /\ q.lapsed = req[r].lapsed
  BY <1>1 DEF Locals
<1> HIDE DEF q
<1>6. /\ req' \in [Requests -> Locals] /\ req'[r] = q
      /\ \A u \in Requests \ {r} : req'[u] = req[u]
  BY <1>1, <1>4, <1>5
<1>7. TypeOK'
  BY <1>1, <1>2, <1>3, <1>6 DEF TypeOK, StoreTypeOK
<1>8. StoreOK'
  BY <1>1, <1>2, StoreShrinks
<1>9. OrphansOK'
  BY <1>1, <1>2, <1>3, <1>5, <1>6, OrphansShrink DEF Owns
<1>10. CleaningOK'
  BY <1>1, <1>2 DEF CleaningOK
<1>11. ASSUME NEW u \in Requests PROVE RequestOK(u)'
  <2>1. CASE u = r
    <3>1. SlotsOK(pc[u], req[u])'
      BY <1>1, <1>2, <1>5, <1>6, <2>1 DEF SlotsOK, RequestOK
    <3>2. AnswerOK(pc[u], req[u])'
      BY <1>1, <1>2, <1>5, <1>6, <2>1 DEF AnswerOK, RequestOK
    <3>3. HeldOK(u)'
      BY <1>1, <1>2, <1>5, <1>6, <2>1 DEF HeldOK, RequestOK, Owns
    <3> QED
      BY <3>1, <3>2, <3>3 DEF RequestOK
  <2>2. CASE u # r
    BY <1>1, <1>2, <1>6, <2>2 DEF RequestOK, SlotsOK, AnswerOK, HeldOK, Owns
  <2> QED
    BY <2>1, <2>2
<1>12. QueueOK'
  <2> SUFFICES ASSUME ~restarted PROVE QueueOK'
    BY <1>2 DEF QueueOK
  <2>1. /\ IsFiniteSet(Gone) /\ Cardinality(Gone) <= disturbances
        /\ \A k \in Keys :
             /\ IsFiniteSet(Waiters(k))
             /\ Cardinality(Waiters(k)) + Cardinality(MayJoin(k)) <= waiting[k] + disturbances
    BY DEF IInv, QueueOK
  <2>2. IsFiniteSet(Gone') /\ Cardinality(Gone') <= disturbances'
    <3>1. Gone' \subseteq Gone \cup {r}
      BY <1>6 DEF Gone
    <3>2. /\ IsFiniteSet(Gone') /\ Cardinality(Gone') <= Cardinality(Gone) + 1
          /\ Cardinality(Gone') \in Nat /\ Cardinality(Gone) \in Nat
      BY <2>1, <3>1, CardAdd
    <3> QED
      BY <1>1, <1>2, <2>1, <3>2
  <2>3. ASSUME NEW k \in Keys
        PROVE  /\ IsFiniteSet(Waiters(k)')
               /\ Cardinality(Waiters(k)') + Cardinality(MayJoin(k)')
                    <= waiting'[k] + disturbances'
    <3>1. Waiters(k)' \subseteq Waiters(k) /\ MayJoin(k)' \subseteq MayJoin(k) \cup {r}
      BY <1>2, <1>5, <1>6 DEF Waiters, MayJoin
    <3>2. IsFiniteSet(MayJoin(k))
      <4>1. MayJoin(k) \subseteq Gone
        BY DEF MayJoin, Gone
      <4> QED
        BY <2>1, <4>1, CardSubset
    <3>3. waiting[k] \in Nat /\ waiting'[k] = waiting[k]
      BY <1>1, <1>2
    <3>4. Covered(MayJoin(k), Waiters(k), waiting[k], disturbances)
      <4>1. Cardinality(Waiters(k)) \in Nat /\ Cardinality(MayJoin(k)) \in Nat
        BY <2>1, <3>2, FS_CardinalityType
      <4> QED
        BY <1>1, <2>1, <3>2, <3>3, <4>1 DEF Covered
    <3>5. waiting'[k] + disturbances' >= waiting[k] + disturbances + 1
      BY <1>1, <1>2, <1>3, <3>3, SumFails
    <3>6. Covered(MayJoin(k)', Waiters(k)', waiting'[k], disturbances')
      BY <1>3, <3>1, <3>3, <3>4, <3>5, QueueJoined
    <3>7. Cardinality(Waiters(k)') \in Nat /\ Cardinality(MayJoin(k)') \in Nat
      BY <3>6, FS_CardinalityType DEF Covered
    <3> QED
      BY <3>6, <3>7 DEF Covered
  <2> QED
    BY <2>2, <2>3 DEF QueueOK
<1> QED
  BY <1>7, <1>8, <1>9, <1>10, <1>11, <1>12 DEF IInv

LEMMA RestartKeeps ==
  ASSUME IInv, NEW p \in Processes, Restart(p)
  PROVE  IInv'
<1>1. /\ TypeOK /\ slots \in [Keys -> SUBSET Members]
      /\ waiting \in [Keys -> Nat] /\ req \in [Requests -> Locals]
      /\ pc \in [Requests -> PCs] /\ cleaning \in [Processes -> SUBSET Keys]
      /\ disturbances \in Nat /\ config.disturbances \in Nat
      /\ \A u \in Requests : RequestOK(u)
  BY ConfigFields DEF IInv, TypeOK
<1>2. /\ slots' = slots /\ waiting' = waiting /\ sticky' = sticky
      /\ sessions' = sessions /\ limit' = limit /\ config' = config /\ dropped' = dropped
      /\ restarted' = TRUE /\ cleaning' = [cleaning EXCEPT ![p] = Keys]
      /\ disturbances' = disturbances + 1 /\ disturbances < config.disturbances
  BY DEF Restart, Disturb, store, binding
<1>3. disturbances' \in Nat /\ disturbances' >= disturbances
      /\ disturbances' \in 0 .. config.disturbances
  BY <1>1, <1>2
<1>4. \A u \in Requests :
        /\ pc'[u] = IF ProcessOf[u] = p /\ pc[u] # "idle" THEN "dead" ELSE pc[u]
        /\ req'[u] = IF ProcessOf[u] = p THEN Fresh ELSE req[u]
  BY DEF Restart
<1>5. pc' \in [Requests -> PCs] /\ req' \in [Requests -> Locals]
  BY <1>1, FreshTyped DEF Restart
<1>6. cleaning' \in [Processes -> SUBSET Keys]
  BY <1>1, <1>2
<1>7. TypeOK'
  BY <1>1, <1>2, <1>3, <1>5, <1>6 DEF TypeOK, StoreTypeOK
<1>8. StoreOK'
  BY <1>1, <1>2, StoreShrinks
<1>9. ASSUME NEW u \in Requests, pc'[u] # "dead"
      PROVE  /\ pc[u] # "dead"
             /\ \A k \in Keys, n \in Nat : Owns(req[u], k, n) => Owns(req'[u], k, n)
  <2>1. CASE ProcessOf[u] = p
    <3>1. pc[u] = "idle"
      BY <1>4, <1>9, <2>1
    <3>2. req[u].userSlot = 0 /\ req[u].accountSlot = 0
      BY <1>1, <3>1 DEF RequestOK, SlotsOK
    <3> QED
      BY <3>1, <3>2 DEF Owns
  <2>2. CASE ProcessOf[u] # p
    BY <1>4, <1>9, <2>2
  <2> QED
    BY <2>1, <2>2
<1>10. OrphansOK'
  BY <1>1, <1>2, <1>3, <1>9, OrphansShrink
<1>11. CleaningOK' /\ QueueOK'
  BY <1>2 DEF CleaningOK, QueueOK
<1>12. ASSUME NEW u \in Requests PROVE RequestOK(u)'
  <2>1. CASE ProcessOf[u] = p
    <3>1. req'[u] = Fresh /\ pc'[u] \in {"idle", "dead"}
      BY <1>4, <2>1
    <3>2. (SlotsOK(pc[u], req[u]) /\ AnswerOK(pc[u], req[u]))'
      BY <3>1, FreshTyped DEF SlotsOK, AnswerOK
    <3>3. HeldOK(u)'
      BY <3>1, FreshTyped DEF HeldOK, Owns
    <3> QED
      BY <3>2, <3>3 DEF RequestOK
  <2>2. CASE ProcessOf[u] # p
    <3>1. req'[u] = req[u] /\ pc'[u] = pc[u]
      BY <1>4, <2>2
    <3> QED
      BY <1>1, <1>2, <3>1 DEF RequestOK, SlotsOK, AnswerOK, HeldOK, Owns
  <2> QED
    BY <2>1, <2>2
<1> QED
  BY <1>7, <1>8, <1>10, <1>11, <1>12 DEF IInv

LEMMA StutterKeeps ==
  ASSUME IInv, UNCHANGED vars
  PROVE  IInv'
<1>1. /\ slots' = slots /\ waiting' = waiting /\ pc' = pc /\ req' = req
      /\ sticky' = sticky /\ sessions' = sessions /\ limit' = limit /\ config' = config
      /\ dropped' = dropped /\ restarted' = restarted /\ cleaning' = cleaning
      /\ disturbances' = disturbances
  BY DEF vars, store, binding, env
<1>2. /\ TypeOK /\ slots \in [Keys -> SUBSET Members] /\ waiting \in [Keys -> Nat]
      /\ disturbances \in Nat /\ config.disturbances \in Nat
  BY ConfigFields DEF IInv
<1>3. \A u \in Requests : SameRequest(u)
  BY <1>1 DEF SameRequest
<1>4. Expires
  BY <1>1, <1>2, <1>3 DEF Expires, TypeOK
<1> QED
  BY <1>1, <1>4, QueuesUntouched, ExpiresKeeps

-----------------------------------------------------------------------------
(* The theorems. *)

LEMMA InitIInv ==
  ASSUME Init
  PROVE  IInv
<1>1. /\ config \in ConfigType /\ config \in Configs
  BY GatewayAssumption DEF Init
<1>2. TypeOK
  <2>1. /\ limit \in [Keys -> Nat] /\ config.disturbances \in Nat
        /\ sticky \in [Sessions -> SomeAccount]
    BY <1>1 DEF ConfigType, Init, SomeAccount
  <2>2. disturbances \in 0 .. config.disturbances /\ dropped \in Nat
    BY <2>1 DEF Init
  <2>3. pc \in [Requests -> PCs] /\ req \in [Requests -> Locals]
    BY FreshTyped DEF Init
  <2> QED
    BY <1>1, <2>1, <2>2, <2>3 DEF TypeOK, StoreTypeOK, Init, StoreInit
<1>3. StoreOK
  <2>1. \A k \in Keys : slots[k] = {} /\ waiting[k] = 0
    BY DEF Init, StoreInit
  <2>2. limit \in [Keys -> Nat] /\ \A k \in Keys : MaxWait(k) \in Nat
    BY <1>2, ConfigFields
  <2> QED
    BY <2>1, <2>2, FS_EmptySet DEF StoreOK
<1>4. OrphansOK
  <2>1. Orphans = {}
    BY DEF Orphans, Init, StoreInit
  <2>2. Cardinality(Orphans) = 0 /\ IsFiniteSet(Orphans)
    BY <2>1, FS_EmptySet
  <2> QED
    BY <2>2 DEF OrphansOK, SlotsAreReleased, Init
<1>5. QueueOK
  <2>1. Gone = {} /\ \A k \in Keys : Waiters(k) = {} /\ MayJoin(k) = {}
    BY FreshTyped DEF Init, Gone, Waiters, MayJoin
  <2>2. /\ IsFiniteSet(Gone) /\ Cardinality(Gone) = 0
        /\ \A k \in Keys : /\ IsFiniteSet(Waiters(k)) /\ Cardinality(Waiters(k)) = 0
                           /\ Cardinality(MayJoin(k)) = 0
    BY <2>1, FS_EmptySet
  <2>3. disturbances = 0 /\ \A k \in Keys : waiting[k] = 0
    BY DEF Init, StoreInit
  <2> QED
    BY <2>2, <2>3 DEF QueueOK
<1>6. CleaningOK
  BY DEF CleaningOK, Init
<1>7. ASSUME NEW r \in Requests PROVE RequestOK(r)
  <2>1. pc[r] = "idle" /\ req[r] = Fresh
    BY DEF Init
  <2>2. SlotsOK(pc[r], req[r]) /\ AnswerOK(pc[r], req[r])
    BY <2>1, FreshTyped DEF SlotsOK, AnswerOK
  <2>3. HeldOK(r)
    BY <2>1, FreshTyped DEF HeldOK, Owns
  <2> QED
    BY <2>2, <2>3 DEF RequestOK
<1> QED
  BY <1>2, <1>3, <1>4, <1>5, <1>6, <1>7 DEF IInv

LEMMA CommandKeeps ==
  ASSUME IInv, NEW r \in Requests, NEW x \in Results, Command(r, x) \/ OnDone(r, x)
  PROVE  IInv'
BY CountKeeps, AcquireUserKeeps, UncountKeeps, BillingKeeps, StickyTryKeeps,
   StickySessionKeeps, DropsKeep, StickyWaitKeeps, StickyPlanKeeps, LoadKeeps, PickKeeps,
   SessionKeeps, BindKeeps, QueueUpKeeps, CountAccountKeeps, AcquireAccountKeeps,
   UncountAccountKeeps, BindAfterWaitKeeps, SucceedKeeps, LeaveKeeps,
   ReleaseUserOnDoneKeeps
   DEF Command, OnDone

LEMMA DecisionKeeps ==
  ASSUME IInv, NEW r \in Requests, Decision(r)
  PROVE  IInv'
BY SelectStickyKeeps, SelectOtherKeeps, PickNoneKeeps, QueueUpNoneKeeps, HydrateKeeps,
   HydrateFailsKeeps, ExhaustedKeeps, SelectedKeeps, SelectedInterceptKeeps,
   ForwardKeeps, ReleasedOnDoneKeeps, HandleOutcomeKeeps
   DEF Decision

LEMMA NextKeeps ==
  ASSUME IInv, [Next]_vars
  PROVE  IInv'
<1>1. ASSUME NEW r \in Requests,
             Arrive(r) \/ Decision(r) \/ Timeout(r) \/ Cancel(r)
      PROVE  IInv'
  BY <1>1, ArriveKeeps, DecisionKeeps, UserWaitTimeoutKeeps, AccountWaitTimeoutKeeps,
     CancelKeeps DEF Timeout
<1> QED
  BY <1>1, CommandKeeps, WaitExpiresKeeps, SlotExpiresKeeps, SessionExpiresKeeps,
     RestartKeeps, StartupCleanupKeeps, StutterKeeps DEF Next

\* The invariant holds in every reachable state of the gateway.
THEOREM Invariance == Spec => []IInv
<1>1. Init => IInv
  BY InitIInv
<1>2. IInv /\ [Next]_vars => IInv'
  BY NextKeeps
<1> QED
  BY <1>1, <1>2, PTL DEF Spec

\* The variables keep their types, the wait counters in Redis included, which a
\* decrement after their expiry does not make negative.
THEOREM TypeCorrect == Spec => []TypeOK
<1>1. IInv => TypeOK
  BY DEF IInv
<1> QED
  BY <1>1, Invariance, PTL

\* No key is served more often than its limit: those that use it hold different
\* slots in Redis, of which there are no more than that.
THEOREM LimitsHold == Spec => []LimitRespected
<1>1. ASSUME IInv PROVE LimitRespected
  <2> SUFFICES ASSUME NEW k \in Keys, limit[k] > 0
               PROVE  Cardinality(Using(k)) <= limit[k]
    BY DEF LimitRespected
  <2>1. /\ IsFiniteSet(slots[k]) /\ Cardinality(slots[k]) <= limit[k]
        /\ TypeOK /\ limit[k] \in Nat
    BY <1>1, ConfigFields DEF IInv, StoreOK
  <2> DEFINE held(r) == IF k = User THEN req[r].userSlot ELSE req[r].accountSlot
             f == [r \in Using(k) |-> <<r, held(r)>>]
  <2>2. ASSUME NEW r \in Using(k) PROVE <<r, held(r)>> \in slots[k]
    <3>1. /\ r \in Requests /\ ~req[r].canceled /\ ~req[r].lapsed
          /\ IF k = User THEN pc[r] \in UserPCs
             ELSE pc[r] = "forward" /\ req[r].account = k
      BY <2>2 DEF Using
    <3>2. RequestOK(r) /\ req[r].userSlot \in Nat /\ req[r].accountSlot \in Nat
      BY <1>1, <2>1, <3>1, RequestFields DEF IInv
    <3>3. held(r) # 0 /\ held(r) \in Nat
      BY <3>1, <3>2 DEF RequestOK, SlotsOK
    <3>4. Owns(req[r], k, held(r))
      BY <3>1, <3>3 DEF Owns
    <3> HIDE DEF held
    <3> QED
      BY <3>1, <3>2, <3>3, <3>4 DEF RequestOK, HeldOK
  <2>3. f \in Injection(Using(k), slots[k])
    <3>1. f \in [Using(k) -> slots[k]]
      BY <2>2
    <3>2. IsInjective(f)
      BY DEF IsInjective
    <3> QED
      BY <3>1, <3>2 DEF Injection
  <2> HIDE DEF f
  <2>4. IsFiniteSet(Using(k)) /\ Cardinality(Using(k)) <= Cardinality(slots[k])
    BY <2>1, <2>3, FS_Injection
  <2>5. Cardinality(Using(k)) \in Nat /\ Cardinality(slots[k]) \in Nat
    BY <2>1, <2>4, FS_CardinalityType
  <2> QED
    BY <2>1, <2>4, <2>5
<1> QED
  BY <1>1, Invariance, PTL

\* A slot is left behind only by a command that failed or by a selection that
\* failed after it had a slot, one each.
THEOREM SlotsReturn == Spec => []SlotsAreReleased
<1>1. IInv => SlotsAreReleased
  BY DEF IInv, OrphansOK
<1> QED
  BY <1>1, Invariance, PTL

\* Until a process is restarted, no more requests wait for a user or an account
\* than its queue admits and failures let in.
THEOREM QueuesKeepTheirBound == Spec => []QueuesBounded
<1>1. ASSUME IInv PROVE QueuesBounded
  <2> SUFFICES ASSUME ~restarted, NEW k \in Keys
               PROVE  Cardinality(Waiters(k)) <= MaxWait(k) + disturbances
    BY DEF QueuesBounded
  <2>1. /\ IsFiniteSet(Gone) /\ IsFiniteSet(Waiters(k)) /\ waiting[k] <= MaxWait(k)
        /\ Cardinality(Waiters(k)) + Cardinality(MayJoin(k)) <= waiting[k] + disturbances
    BY <1>1 DEF IInv, QueueOK, StoreOK
  <2>2. MayJoin(k) \subseteq Gone
    BY DEF MayJoin, Gone
  <2>3. Cardinality(MayJoin(k)) \in Nat /\ Cardinality(Waiters(k)) \in Nat
    BY <2>1, <2>2, CardSubset, FS_CardinalityType
  <2>4. waiting[k] \in Nat /\ MaxWait(k) \in Nat /\ disturbances \in Nat
    BY <1>1, ConfigFields DEF IInv
  <2> QED
    BY <2>1, <2>3, <2>4
<1> QED
  BY <1>1, Invariance, PTL

\* A client gets the output of at most one forward, and only that is billed.
THEOREM ClientsGetOneAnswer == Spec => []OneAnswer
<1>1. ASSUME IInv PROVE OneAnswer
  <2> SUFFICES ASSUME NEW r \in Requests
               PROVE  req[r].delivered <= 1 /\ req[r].billed <= req[r].delivered
    BY DEF OneAnswer
  <2>1. AnswerOK(pc[r], req[r]) /\ req[r].delivered \in Nat /\ req[r].billed \in Nat
    BY <1>1, Self, RequestFields DEF IInv
  <2> QED
    BY <2>1 DEF AnswerOK
<1> QED
  BY <1>1, Invariance, PTL

-----------------------------------------------------------------------------
(* The counters of the queues do not stay ahead of them.  IInv gives that  *)
(* the queues are finite; the bound is kept by what a step does to one     *)
(* counter and to those who wait.                                          *)

Counted ==
  restarted \/ \A k \in Keys : waiting[k] <= Cardinality(Waiters(k)) + disturbances

StillQueued(k, u) == Queued(k, pc[u], req[u]) => Queued(k, pc'[u], req'[u])

\* The counter expires; or nobody leaves; or r joins counted, or is discounted,
\* or is not because of a failure.
CounterEffect(k) ==
  \/ waiting'[k] = 0
  \/ waiting'[k] = waiting[k] /\ \A u \in Requests : StillQueued(k, u)
  \/ \E r \in Requests :
       /\ \A u \in Requests \ {r} : StillQueued(k, u)
       /\ \/ /\ waiting'[k] = waiting[k] + 1
             /\ ~Queued(k, pc[r], req[r]) /\ Queued(k, pc'[r], req'[r])
          \/ waiting'[k] = waiting[k] - 1
          \/ waiting'[k] = waiting[k] /\ disturbances' = disturbances + 1

LEMMA CounterKept ==
  ASSUME IInv, IInv', Counted, restarted' = restarted, disturbances' >= disturbances,
         \A k \in Keys : CounterEffect(k)
  PROVE  Counted'
<1> SUFFICES ASSUME ~restarted, NEW k \in Keys
             PROVE  waiting'[k] <= Cardinality(Waiters(k)') + disturbances'
  BY DEF Counted
<1>1. /\ waiting[k] \in Nat /\ disturbances \in Nat
      /\ IsFiniteSet(Waiters(k)) /\ waiting[k] <= Cardinality(Waiters(k)) + disturbances
  BY ConfigFields DEF IInv, QueueOK, Counted
<1>2. waiting'[k] \in Nat /\ disturbances' \in Nat /\ IsFiniteSet(Waiters(k)')
  <2>1. TypeOK' /\ QueueOK'
    BY DEF IInv
  <2>2. waiting' \in [Keys -> Nat] /\ config' \in ConfigType
        /\ disturbances' \in 0 .. config'.disturbances
    BY <2>1, GatewayAssumption DEF TypeOK, StoreTypeOK
  <2>3. config'.disturbances \in Nat
    BY <2>2 DEF ConfigType
  <2> QED
    BY <2>1, <2>2, <2>3 DEF QueueOK
<1> DEFINE W == Waiters(k)
           W2 == Waiters(k)'
<1>3. /\ W \subseteq Requests /\ \A u \in Requests : u \in W <=> Queued(k, pc[u], req[u])
      /\ W2 \subseteq Requests /\ \A u \in Requests : u \in W2 <=> Queued(k, pc'[u], req'[u])
  BY QueuedWaits
<1>4. IsFiniteSet(W) /\ IsFiniteSet(W2) /\ waiting[k] <= Cardinality(W) + disturbances
  BY <1>1, <1>2
<1> SUFFICES waiting'[k] <= Cardinality(W2) + disturbances'
  OBVIOUS
<1> HIDE DEF W, W2
<1>5. Cardinality(W) \in Nat /\ Cardinality(W2) \in Nat
  BY <1>4, FS_CardinalityType
<1>6. CASE waiting'[k] = 0
  BY <1>2, <1>5, <1>6
<1>7. CASE waiting'[k] = waiting[k] /\ \A u \in Requests : StillQueued(k, u)
  <2>1. W \subseteq W2
    BY <1>3, <1>7 DEF StillQueued
  <2>2. Cardinality(W) <= Cardinality(W2)
    BY <1>4, <2>1, CardSubset
  <2> QED
    BY <1>1, <1>2, <1>4, <1>5, <1>7, <2>2
<1>8. ASSUME NEW r \in Requests, \A u \in Requests \ {r} : StillQueued(k, u),
             \/ waiting'[k] = waiting[k] - 1
             \/ waiting'[k] = waiting[k] /\ disturbances' = disturbances + 1
      PROVE  waiting'[k] <= Cardinality(W2) + disturbances'
  <2>1. W \subseteq W2 \cup {r}
    BY <1>3, <1>8 DEF StillQueued
  <2>2. Cardinality(W) <= Cardinality(W2) + 1
    BY <1>4, <2>1, CardAdd
  <2> QED
    BY <1>1, <1>2, <1>4, <1>5, <1>8, <2>2
<1>9. ASSUME NEW r \in Requests, \A u \in Requests \ {r} : StillQueued(k, u),
             waiting'[k] = waiting[k] + 1,
             ~Queued(k, pc[r], req[r]), Queued(k, pc'[r], req'[r])
      PROVE  waiting'[k] <= Cardinality(W2) + disturbances'
  <2>1. r \in W2 /\ W \subseteq W2 \ {r}
    BY <1>3, <1>9 DEF StillQueued
  <2>2. Cardinality(W) + 1 <= Cardinality(W2)
    BY <1>4, <2>1, CardRemove
  <2> QED
    BY <1>1, <1>2, <1>4, <1>5, <1>9, <2>2
<1> QED
  BY <1>6, <1>7, <1>8, <1>9 DEF CounterEffect

\* A step of a request that is in no queue, and does not touch the counters.
Elsewhere(r) ==
  /\ waiting' = waiting /\ restarted' = restarted /\ disturbances' >= disturbances
  /\ pc[r] \notin UserQueuePCs \cup AccountQueuePCs
  /\ \A u \in Requests \ {r} : pc'[u] = pc[u] /\ req'[u] = req[u]

LEMMA ElsewhereCounts ==
  ASSUME NEW r \in Requests, Elsewhere(r)
  PROVE  \A k \in Keys : CounterEffect(k)
BY DEF Elsewhere, CounterEffect, StillQueued, Queued

\* A step within a queue: nobody leaves it.
Within ==
  /\ waiting' = waiting /\ restarted' = restarted /\ disturbances' >= disturbances
  /\ \A k \in Keys, u \in Requests : StillQueued(k, u)

LEMMA OutcomeGrows ==
  ASSUME TypeOK, NEW r \in Requests, NEW x \in Results,
         Outcome(x) \/ Call(r, x) \/ Disturb \/ UNCHANGED disturbances
  PROVE  disturbances' >= disturbances
<1>1. disturbances \in Nat
  BY ConfigFields
<1> QED
  BY <1>1 DEF Outcome, Call, Disturb

LEMMA StepElsewhere ==
  ASSUME TypeOK, NEW r \in Requests, NEW l, NEW q, Step(r, l, q) \/ (Goto(r, l) /\ req' = req)
  PROVE  \A u \in Requests \ {r} : pc'[u] = pc[u] /\ req'[u] = req[u]
BY DEF TypeOK, Step, Goto

\* The commands and decisions of a request that waits for nothing.
LEMMA CommandElsewhere ==
  ASSUME TypeOK, NEW r \in Requests, NEW x \in Results,
         \/ Billing(r, x) \/ StickyTry(r, x) \/ StickySession(r, x) \/ StickyDrop(r, x)
         \/ StickyWait(r, x)
         \/ StickyPlan(r, x) \/ Load(r, x) \/ Pick(r, x) \/ Session(r, x) \/ DropSelected(r, x)
         \/ Bind(r, x) \/ QueueUp(r, x) \/ Intercept(r, x) \/ BindAfterWait(r, x)
         \/ Release(r, x) \/ Succeed(r, x) \/ Leave(r, x)
  PROVE  Elsewhere(r)
<1> USE DEF Elsewhere, UserQueuePCs, AccountQueuePCs, store, binding, env
<1>1. CASE Billing(r, x)
  BY <1>1, OutcomeGrows, StepElsewhere DEF Billing
<1>2. CASE StickyTry(r, x)
  BY <1>2, OutcomeGrows, StepElsewhere DEF StickyTry, AcquireSlot
<1>3. CASE StickySession(r, x)
  BY <1>3, OutcomeGrows, StepElsewhere DEF StickySession, Register
<1>4. CASE StickyDrop(r, x)
  BY <1>4, OutcomeGrows, StepElsewhere DEF StickyDrop, Drop, ReleaseSlot
<1>5. CASE StickyWait(r, x)
  BY <1>5, OutcomeGrows, StepElsewhere DEF StickyWait
<1>6. CASE StickyPlan(r, x)
  BY <1>6, OutcomeGrows, StepElsewhere DEF StickyPlan, Register
<1>7. CASE Load(r, x)
  BY <1>7, OutcomeGrows, StepElsewhere DEF Load
<1>8. CASE Pick(r, x)
  BY <1>8, OutcomeGrows, StepElsewhere DEF Pick, AcquireSlot
<1>9. CASE Session(r, x)
  BY <1>9, OutcomeGrows, StepElsewhere DEF Session, Register
<1>10. CASE DropSelected(r, x)
  BY <1>10, OutcomeGrows, StepElsewhere DEF DropSelected, Drop, ReleaseSlot
<1>11. CASE Bind(r, x)
  BY <1>11, OutcomeGrows, StepElsewhere DEF Bind, BindTo
<1>12. CASE QueueUp(r, x)
  BY <1>12, OutcomeGrows, StepElsewhere DEF QueueUp, Register
<1>13. CASE Intercept(r, x)
  BY <1>13, OutcomeGrows, StepElsewhere DEF Intercept, Drop, ReleaseSlot
<1>14. CASE BindAfterWait(r, x)
  BY <1>14, OutcomeGrows, StepElsewhere DEF BindAfterWait, BindTo
<1>15. CASE Release(r, x)
  BY <1>15, OutcomeGrows, StepElsewhere DEF Release, Drop, ReleaseSlot
<1>16. CASE Succeed(r, x)
  BY <1>16, OutcomeGrows, StepElsewhere DEF Succeed, BindTo
<1>17. CASE Leave(r, x)
  BY <1>17, OutcomeGrows, StepElsewhere DEF Leave, ReleaseSlot
<1> QED
  BY <1>1, <1>2, <1>3, <1>4, <1>5, <1>6, <1>7, <1>8, <1>9,
     <1>10, <1>11, <1>12, <1>13, <1>14, <1>15, <1>16, <1>17

LEMMA DecisionElsewhere ==
  ASSUME TypeOK, NEW r \in Requests, Arrive(r) \/ Decision(r)
  PROVE  Elsewhere(r)
<1> USE DEF Elsewhere, UserQueuePCs, AccountQueuePCs, store, binding, env
<1>0. disturbances \in Nat
  BY ConfigFields
<1>1. CASE Arrive(r)
  BY <1>0, <1>1, StepElsewhere DEF Arrive
<1>2. CASE SelectSticky(r)
  BY <1>0, <1>2, StepElsewhere DEF SelectSticky
<1>3. CASE SelectOther(r)
  BY <1>0, <1>3, StepElsewhere DEF SelectOther
<1>4. CASE PickNone(r)
  BY <1>0, <1>4, StepElsewhere DEF PickNone
<1>5. CASE QueueUpNone(r)
  BY <1>0, <1>5, StepElsewhere DEF QueueUpNone
<1>6. CASE Hydrate(r)
  BY <1>0, <1>6, StepElsewhere DEF Hydrate
<1>7. CASE HydrateFails(r)
  BY <1>0, <1>7, StepElsewhere DEF HydrateFails
<1>8. CASE Exhausted(r)
  BY <1>0, <1>8, StepElsewhere DEF Exhausted
<1>9. CASE Selected(r)
  BY <1>0, <1>9, StepElsewhere DEF Selected
<1>10. CASE SelectedIntercept(r)
  <2>1. PICK l \in {"intercept", "leave"} : Goto(r, l) /\ req' = req
    BY <1>10 DEF SelectedIntercept
  <2> QED
    BY <1>0, <1>10, <2>1, StepElsewhere DEF SelectedIntercept
<1>11. CASE Forward(r)
  BY <1>0, <1>11, StepElsewhere DEF Forward
<1>12. CASE ReleasedOnDone(r)
  BY <1>0, <1>12, StepElsewhere DEF ReleasedOnDone
<1>13. CASE HandleOutcome(r)
  BY <1>0, <1>13, StepElsewhere DEF HandleOutcome, HandleFailoverError, UseFallback
<1> QED
  BY <1>1, <1>2, <1>3, <1>4, <1>5, <1>6, <1>7, <1>8, <1>9, <1>10, <1>11, <1>12, <1>13
  DEF Decision

\* Those that wait go on waiting; what expires and who disconnects takes nobody
\* out of a queue.
LEMMA WaitingWithin ==
  ASSUME IInv, NEW r \in Requests, NEW x \in Results,
         AcquireUser(r, x) \/ AcquireAccount(r, x) \/ Timeout(r) \/ OnDone(r, x) \/ Cancel(r)
  PROVE  Within
<1>1. /\ TypeOK /\ pc \in [Requests -> PCs] /\ req \in [Requests -> Locals] /\ req[r] \in Locals
      /\ disturbances \in Nat
  BY ConfigFields DEF IInv, TypeOK
<1>2. ASSUME NEW l, NEW q, Step(r, l, q), q.account = req[r].account,
             pc[r] \in UserQueuePCs => l \in UserQueuePCs,
             pc[r] \in AccountQueuePCs => l \in AccountQueuePCs
      PROVE  \A k \in Keys, u \in Requests : StillQueued(k, u)
  <2>1. /\ pc'[r] = l /\ req'[r] = q
        /\ \A u \in Requests \ {r} : pc'[u] = pc[u] /\ req'[u] = req[u]
    BY <1>1, <1>2 DEF Step
  <2> QED
    BY <1>2, <2>1 DEF StillQueued, Queued
<1>3. CASE AcquireUser(r, x)
  <2> DEFINE q == [req[r] EXCEPT !.userSlot = NextSlot(r, User)]
  <2>1. q.account = req[r].account
    BY <1>1 DEF Locals
  <2>2. \/ Step(r, "uncount", q)
        \/ Step(r, "userWait", req[r]) \/ Step(r, "uncountFail", req[r])
    BY <1>3 DEF AcquireUser
  <2> HIDE DEF q
  <2>3. /\ pc[r] \in {"userTry", "userWait"} /\ waiting' = waiting
        /\ restarted' = restarted /\ disturbances' >= disturbances
    BY <1>1, <1>3, OutcomeGrows DEF AcquireUser, AcquireSlot, env
  <2> QED
    BY <1>2, <2>1, <2>2, <2>3 DEF Within, UserQueuePCs, AccountQueuePCs
<1>4. CASE AcquireAccount(r, x)
  <2>1. TakeSlot(r).account = req[r].account
    BY <1>1 DEF Locals, TakeSlot
  <2>2. \/ Step(r, "uncountAccount", TakeSlot(r))
        \/ Step(r, "accountWait", req[r]) \/ Step(r, "uncountAccountFail", req[r])
    BY <1>4 DEF AcquireAccount
  <2>3. /\ pc[r] = "accountWait" /\ waiting' = waiting
        /\ restarted' = restarted /\ disturbances' >= disturbances
    BY <1>1, <1>4, OutcomeGrows DEF AcquireAccount, AcquireSlot, env
  <2> QED
    BY <1>2, <2>1, <2>2, <2>3 DEF Within, UserQueuePCs, AccountQueuePCs
<1>5. CASE Timeout(r)
  BY <1>1, <1>5 DEF Timeout, UserWaitTimeout, AccountWaitTimeout, Goto, Within, StillQueued,
     Queued, UserQueuePCs, AccountQueuePCs, store, env
<1>6. ASSUME NEW q, pc' = pc, req' = [req EXCEPT ![r] = q], q.account = req[r].account
      PROVE  \A k \in Keys, u \in Requests : StillQueued(k, u)
  BY <1>1, <1>6 DEF StillQueued, Queued
<1>7. CASE Cancel(r)
  <2> DEFINE q == [req[r] EXCEPT !.canceled = TRUE]
  <2>1. q.account = req[r].account
    BY <1>1 DEF Locals
  <2>2. pc' = pc /\ req' = [req EXCEPT ![r] = q]
    BY <1>7 DEF Cancel
  <2> HIDE DEF q
  <2> QED
    BY <1>1, <1>6, <1>7, <2>1, <2>2, OutcomeGrows DEF Cancel, Within, store, env
<1>8. CASE ReleaseUserOnDone(r, x)
  <2> DEFINE q == [req[r] EXCEPT !.userSlot = 0]
  <2>1. q.account = req[r].account
    BY <1>1 DEF Locals
  <2>2. pc' = pc /\ req' = [req EXCEPT ![r] = q]
    BY <1>8 DEF ReleaseUserOnDone
  <2> HIDE DEF q
  <2> QED
    BY <1>1, <1>6, <1>8, <2>1, <2>2, OutcomeGrows
    DEF ReleaseUserOnDone, ReleaseSlot, Within, env
<1>9. CASE ReleaseAccountOnDone(r, x)
  <2>1. Elsewhere(r)
    BY <1>1, <1>9, OutcomeGrows, StepElsewhere DEF ReleaseAccountOnDone, Drop, ReleaseSlot,
       Elsewhere, UserQueuePCs, AccountQueuePCs, env
  <2> QED
    BY <2>1 DEF Elsewhere, Within, StillQueued, Queued
<1> QED
  BY <1>3, <1>4, <1>5, <1>7, <1>8, <1>9 DEF OnDone

LEMMA ExpiryWithin ==
  ASSUME IInv,
         \/ \E k \in Keys : \E m \in slots[k] : SlotExpires(k, m)
         \/ \E a \in Accounts, s \in Sessions : SessionExpires(a, s)
         \/ UNCHANGED vars
  PROVE  Within
<1>1. /\ TypeOK /\ req \in [Requests -> Locals] /\ disturbances \in Nat
      /\ slots \in [Keys -> SUBSET Members]
  BY ConfigFields DEF IInv, TypeOK
<1>2. ASSUME NEW k \in Keys, NEW m \in slots[k], SlotExpires(k, m)
      PROVE  Within
  <2>1. m[1] \in Requests /\ req[m[1]] \in Locals
    BY <1>1 DEF Members
  <2> DEFINE q == [req[m[1]] EXCEPT !.lapsed = TRUE]
  <2>2. q.account = req[m[1]].account
    BY <2>1 DEF Locals
  <2>3. pc' = pc /\ (req' = req \/ req' = [req EXCEPT ![m[1]] = q])
    BY <1>2 DEF SlotExpires
  <2> HIDE DEF q
  <2>4. \A u \in Requests : req'[u].account = req[u].account
    BY <1>1, <2>1, <2>2, <2>3
  <2> QED
    BY <1>1, <1>2, <2>3, <2>4 DEF SlotExpires, DropSlot, Disturb, Within, StillQueued,
       Queued, env
<1>3. ASSUME NEW a \in Accounts, NEW s \in Sessions, SessionExpires(a, s)
      PROVE  Within
  BY <1>1, <1>3 DEF SessionExpires, Disturb, Within, StillQueued, Queued, store, env
<1>4. CASE UNCHANGED vars
  BY <1>1, <1>4 DEF vars, Within, StillQueued, Queued, store, env
<1> QED
  BY <1>2, <1>3, <1>4

\* The four commands on a counter, and its expiry.
LEMMA CounterCommands ==
  ASSUME IInv, NEW r \in Requests, NEW x \in Results,
         Count(r, x) \/ CountAccount(r, x) \/ Uncount(r, x) \/ UncountAccount(r, x)
  PROVE  /\ restarted' = restarted /\ disturbances' >= disturbances
         /\ \A k \in Keys : CounterEffect(k)
<1>1. /\ TypeOK /\ pc \in [Requests -> PCs] /\ req \in [Requests -> Locals]
      /\ waiting \in [Keys -> Nat] /\ disturbances \in Nat
      /\ User \in Keys /\ SlotsOK(pc[r], req[r])
  BY Self, ConfigFields, KeyFacts DEF IInv, TypeOK
<1>2. restarted' = restarted /\ disturbances' >= disturbances
  BY <1>1, OutcomeGrows DEF Count, CountAccount, Uncount, UncountAccount, env
<1>3. \A u \in Requests \ {r} : pc'[u] = pc[u] /\ req'[u] = req[u]
  BY <1>1, StepElsewhere DEF Count, CountAccount, Uncount, UncountAccount
<1>4. \A k \in Keys, u \in Requests \ {r} : StillQueued(k, u)
  BY <1>3 DEF StillQueued
<1>5. CASE Count(r, x) \/ CountAccount(r, x)
  <2> DEFINE j == IF pc[r] = "count" THEN User ELSE req[r].account
  <2>1. /\ j \in Keys /\ req' = req
        /\ \A k \in Keys : ~Queued(k, pc[r], req[r])
    BY <1>1, <1>5, KeyFacts DEF Count, CountAccount, SlotsOK, Queued, UserQueuePCs,
       AccountQueuePCs
  <2>2. \/ waiting' = waiting
        \/ /\ waiting' = [waiting EXCEPT ![j] = @ + 1]
           /\ pc'[r] = IF pc[r] = "count" THEN "userTry" ELSE "accountWait"
    BY <1>1, <1>5 DEF Count, CountAccount, IncrementWait, Goto
  <2>3. CASE waiting' = waiting
    <3>1. \A k \in Keys, u \in Requests : StillQueued(k, u)
      BY <1>4, <2>1 DEF StillQueued
    <3> QED
      BY <1>2, <2>3, <3>1 DEF CounterEffect
  <2>4. CASE waiting' # waiting
    <3>1. \A k \in Keys \ {j} : waiting'[k] = waiting[k]
      BY <1>1, <2>1, <2>2, <2>4
    <3>2. waiting'[j] = waiting[j] + 1
      BY <1>1, <2>1, <2>2, <2>4
    <3>3. Queued(j, pc'[r], req'[r])
      BY <1>1, <1>5, <2>1, <2>2, <2>4, KeyFacts
      DEF Count, CountAccount, SlotsOK, Queued, UserQueuePCs, AccountQueuePCs
    <3> HIDE DEF j
    <3>4. CounterEffect(j)
      BY <1>4, <2>1, <3>2, <3>3 DEF CounterEffect
    <3>5. \A k \in Keys \ {j} : CounterEffect(k)
      BY <1>4, <2>1, <3>1 DEF CounterEffect, StillQueued
    <3> QED
      BY <1>2, <3>4, <3>5
  <2> QED
    BY <2>3, <2>4
<1>6. CASE Uncount(r, x) \/ UncountAccount(r, x)
  <2> DEFINE j == IF pc[r] \in {"uncount", "uncountFail"} THEN User ELSE req[r].account
  <2>1. j \in Keys /\ \A k \in Keys \ {j} : ~Queued(k, pc[r], req[r])
    BY <1>1, <1>6, KeyFacts DEF Uncount, UncountAccount, SlotsOK, Queued, UserQueuePCs,
       AccountQueuePCs
  <2>2. /\ Outcome(x)
        /\ waiting' = [waiting EXCEPT ![j] = IF x # "lost" /\ @ > 0 THEN @ - 1 ELSE @]
    BY <1>1, <1>6 DEF Uncount, UncountAccount, DecrementWait
  <2> HIDE DEF j
  <2>3. \A k \in Keys \ {j} : waiting'[k] = waiting[k]
    BY <1>1, <2>1, <2>2
  <2>4. \/ waiting'[j] = 0 \/ waiting'[j] = waiting[j] - 1
        \/ waiting'[j] = waiting[j] /\ disturbances' = disturbances + 1
    BY <1>1, <2>1, <2>2 DEF Outcome, Disturb
  <2>5. CounterEffect(j)
    BY <1>4, <2>1, <2>4 DEF CounterEffect
  <2>6. \A k \in Keys \ {j} : CounterEffect(k)
    BY <1>4, <2>1, <2>3 DEF CounterEffect, StillQueued
  <2> QED
    BY <1>2, <2>5, <2>6
<1> QED
  BY <1>5, <1>6

LEMMA NextCounts ==
  ASSUME IInv, IInv', Counted, [Next]_vars
  PROVE  Counted'
<1>1. TypeOK /\ disturbances \in Nat /\ waiting \in [Keys -> Nat]
  BY ConfigFields DEF IInv
<1>2. ASSUME Within PROVE Counted'
  BY <1>2, CounterKept DEF Within, CounterEffect
<1>3. ASSUME NEW r \in Requests, Elsewhere(r) PROVE Counted'
  BY <1>3, CounterKept, ElsewhereCounts DEF Elsewhere
<1>4. ASSUME NEW r \in Requests, NEW x \in Results, Command(r, x) \/ OnDone(r, x)
      PROVE  Counted'
  BY <1>1, <1>2, <1>3, <1>4, CommandElsewhere, WaitingWithin, CounterCommands, CounterKept
  DEF Command
<1>5. ASSUME NEW r \in Requests, Arrive(r) \/ Decision(r) \/ Timeout(r) \/ Cancel(r)
      PROVE  Counted'
  <2>1. "ok" \in Results
    BY DEF Results
  <2> QED
    BY <1>1, <1>2, <1>3, <1>5, <2>1, DecisionElsewhere, WaitingWithin
<1>6. ASSUME NEW k \in Keys, WaitExpires(k) PROVE Counted'
  <2>1. /\ waiting' = [waiting EXCEPT ![k] = 0] /\ pc' = pc /\ req' = req
        /\ restarted' = restarted /\ disturbances' >= disturbances
    BY <1>1, <1>6 DEF WaitExpires, env
  <2>2. \A j \in Keys : CounterEffect(j)
    BY <1>1, <2>1 DEF CounterEffect, StillQueued
  <2> QED
    BY <2>1, <2>2, CounterKept
<1>7. ASSUME NEW p \in Processes, NEW k \in Keys, StartupCleanup(p, k)
      PROVE  Counted'
  BY <1>7 DEF StartupCleanup, Counted, IInv, CleaningOK
<1>8. ASSUME NEW p \in Processes, Restart(p)
      PROVE  Counted'
  BY <1>8 DEF Restart, Counted
<1> QED
  BY <1>2, <1>4, <1>5, <1>6, <1>7, <1>8, ExpiryWithin DEF Next

\* No wait counter is negative; until a process is restarted it exceeds the
\* requests that wait only by the commands that failed.
THEOREM CountersReturn == Spec => []CountersAreReturned
<1>1. Init => Counted
  <2> SUFFICES ASSUME Init PROVE Counted
    OBVIOUS
  <2>1. \A k \in Keys : waiting[k] = 0 /\ Waiters(k) = {}
    BY DEF Init, StoreInit, Waiters, UserQueuePCs, AccountQueuePCs
  <2> QED
    BY <2>1, FS_EmptySet DEF Counted, Init
<1>2. IInv /\ IInv' /\ Counted /\ [Next]_vars => Counted'
  BY NextCounts
<1>3. IInv /\ Counted => CountersAreReturned
  BY ConfigFields DEF IInv, Counted, CountersAreReturned
<1> QED
  BY <1>1, <1>2, <1>3, Invariance, PTL DEF Spec
=============================================================================

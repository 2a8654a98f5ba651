--------------------------- MODULE GatewayRequest ---------------------------
(***************************************************************************)
(* Requests to the Messages endpoint (handler/gateway_handler.go): the     *)
(* user's wait queue and slot, the selection of an account with its slot   *)
(* or with a plan to wait for one (SelectAccountWithLoadAwareness), the    *)
(* forward, and the failover to other accounts (handler/failover_loop.go). *)
(* Requests of several server processes share the slots in Redis.          *)
(*                                                                         *)
(* One label of pc is one command to Redis or one decision.  A command     *)
(* fails without effect ("lost") or after it ("late"); such failures,      *)
(* clients that disconnect, slots that expire while in use and restarts    *)
(* are disturbances, a bounded number in all.  Which accounts may serve a  *)
(* request (platform, model, quota, window cost, RPM) and the order among  *)
(* the candidates (priority, load rate, last use) are choices of the       *)
(* environment.                                                            *)
(***************************************************************************)
EXTENDS ConcurrencySlots

CONSTANTS
  Sessions,              \* sticky session keys
  SessionOf,             \* the session of each request
  Processes, ProcessOf,  \* server processes, and the one that serves a request
  NoAccount,
  Configs                \* the configurations to consider

\* A configuration: the limits of the keys, the requests that arrive, the
\* accounts of the group, whether it has a fallback group, CalculateMaxWait,
\* MaxWaiting of a wait plan for the sticky and for any other account, the
\* sessions per account, the bindings earlier requests left, maxAccountSwitches,
\* maxSameAccountRetries, and the bound on disturbances.
ConfigType ==
  [limit : [Keys -> Nat], clients : SUBSET Requests, group : SUBSET Accounts,
   fallback : BOOLEAN, userWait : Nat, stickyWait : Nat, fallbackWait : Nat,
   sessions : Nat, bound : [Sessions -> Accounts \cup {NoAccount}], switches : Nat, retries : Nat, disturbances : Nat]

ASSUME GatewayAssumption ==
  /\ User \notin Accounts /\ NoAccount \notin Keys
  /\ SessionOf \in [Requests -> Sessions]
  /\ ProcessOf \in [Requests -> Processes]
  /\ Configs \subseteq ConfigType

VARIABLES
  config,        \* fixed
  sessions,      \* per account: the registered sessions
  sticky,        \* per session: the account it is bound to
  pc,
  req,           \* per request: the variables of its handler
  dropped,       \* selections that failed after they had a slot
  restarted,     \* a process was restarted
  cleaning,      \* keys a starting process has yet to clean
  disturbances

binding == <<sessions, sticky>>
env == <<limit, config, dropped, restarted, cleaning>>
vars == <<store, binding, pc, req, env, disturbances>>

\* Holding the user's slot.
SelectPCs == {"select", "stickyTry", "stickySession", "stickyDrop", "stickyWait",
              "stickyPlan", "load", "pick", "session", "drop", "bind", "queueUp",
              "hydrate", "exhausted", "selected", "intercept"}
ServePCs == {"countAccount", "accountWait", "uncountAccount", "uncountAccountFail",
             "bindAfterWait", "forward", "release", "outcome", "succeed"}
AdmittedPCs == SelectPCs \cup ServePCs \cup {"billing", "leave"}
UserQueuePCs == {"userTry", "userWait", "uncount", "uncountFail"}
AccountQueuePCs == {"accountWait", "uncountAccount", "uncountAccountFail"}
PCs == {"idle", "count", "done", "dead"} \cup UserQueuePCs \cup AdmittedPCs

\* The result of a forward.  For a failover error: whether the same account
\* may be retried, whether it was 503; and whether output had been written.
Returned == [kind : {"ok", "fail", "tooLong", "failover"},
             same : BOOLEAN, busy : BOOLEAN, wrote : BOOLEAN]
NoResult == [kind |-> "fail", same |-> FALSE, busy |-> FALSE, wrote |-> FALSE]

SomeAccount == Accounts \cup {NoAccount}

Locals ==
  [account : SomeAccount,                 \* the selected account
   bound : SomeAccount,                   \* what the session was bound to on arrival
   planMax : Nat,                         \* MaxWaiting of the wait plan
   candidates : SUBSET Accounts,          \* of the selection in progress
   available : SUBSET Accounts,
   userSlot : Nat, accountSlot : Nat,     \* the slots it owes the release of, or 0
   failed : SUBSET Accounts,              \* FailoverState
   switches : Nat,
   retries : [Accounts -> Nat],
   busy : BOOLEAN,                        \* LastFailoverErr is a 503
   fallbackUsed : BOOLEAN,
   result : Returned,
   canceled : BOOLEAN,                    \* the context is done
   lapsed : BOOLEAN,                      \* it lost a slot while it used it
   delivered : Nat, billed : Nat]         \* forwards with output, usage records

Fresh == [account |-> NoAccount, bound |-> NoAccount, planMax |-> 0,
          candidates |-> {}, available |-> {}, userSlot |-> 0, accountSlot |-> 0,
          failed |-> {}, switches |-> 0, retries |-> [a \in Accounts |-> 0],
          busy |-> FALSE, fallbackUsed |-> FALSE, result |-> NoResult,
          canceled |-> FALSE, lapsed |-> FALSE,
          delivered |-> 0, billed |-> 0]

\* Types of the store, the bindings and the requests.
TypeOK ==
  /\ config \in Configs
  /\ limit = config.limit
  /\ StoreTypeOK
  /\ sessions \in [Accounts -> SUBSET Sessions]
  /\ sticky \in [Sessions -> SomeAccount]
  /\ pc \in [Requests -> PCs]
  /\ req \in [Requests -> Locals]
  /\ dropped \in Nat
  /\ restarted \in BOOLEAN
  /\ cleaning \in [Processes -> SUBSET Keys]
  /\ disturbances \in 0 .. config.disturbances

Init ==
  /\ config \in Configs
  /\ limit = config.limit
  /\ StoreInit
  /\ sessions = [a \in Accounts |-> {}]
  /\ sticky = config.bound
  /\ pc = [r \in Requests |-> "idle"]
  /\ req = [r \in Requests |-> Fresh]
  /\ dropped = 0
  /\ restarted = FALSE
  /\ cleaning = [p \in Processes |-> {}]
  /\ disturbances = 0

-----------------------------------------------------------------------------
Results == {"ok", "lost", "late"}

Disturb == disturbances < config.disturbances /\ disturbances' = disturbances + 1

\* A command with a context of its own (releases and decrements).
Outcome(x) == IF x = "ok" THEN UNCHANGED disturbances ELSE Disturb

\* A command with the request's context: refused at once when that is done.
Call(r, x) == IF req[r].canceled THEN x = "lost" /\ UNCHANGED disturbances
                                 ELSE Outcome(x)

Goto(r, label) == pc' = [pc EXCEPT ![r] = label]

Step(r, label, locals) ==
  /\ pc' = [pc EXCEPT ![r] = label]
  /\ req' = [req EXCEPT ![r] = locals]

\* It owes the release of the slot it was given on its account.
TakeSlot(r) ==
  [req[r] EXCEPT !.accountSlot = NextSlot(r, req[r].account)]

-----------------------------------------------------------------------------
(* The wait queue and the slot of the user. *)

Arrive(r) ==
  /\ pc[r] = "idle"
  /\ r \in config.clients
  /\ Goto(r, "count")
  /\ UNCHANGED <<store, binding, req, env, disturbances>>

\* IncrementWaitCount.  On an error the request goes on, and will be
\* discounted as if it had been counted.
Count(r, x) ==
  /\ pc[r] = "count"
  /\ Call(r, x)
  /\ IncrementWait(User, config.userWait, x # "lost")
  /\ Goto(r, IF x # "ok" \/ HasRoom(User, config.userWait) THEN "userTry" ELSE "done")
  /\ UNCHANGED <<binding, req, env>>

\* AcquireUserSlotWithWait: one attempt, at once and then after each backoff.
AcquireUser(r, x) ==
  /\ pc[r] \in {"userTry", "userWait"}
  /\ Call(r, x)
  /\ AcquireSlot(r, User, x # "lost")
  /\ IF x = "ok" /\ Grants(User)
     THEN Step(r, "uncount", [req[r] EXCEPT !.userSlot = NextSlot(r, User)])
     ELSE Step(r, IF x = "ok" THEN "userWait" ELSE "uncountFail", req[r])
  /\ UNCHANGED <<binding, env>>

\* waitForSlotWithPingTimeout gives up.
UserWaitTimeout(r) ==
  /\ pc[r] = "userWait"
  /\ Goto(r, "uncountFail")
  /\ UNCHANGED <<store, binding, req, env, disturbances>>

\* DecrementWaitCount with the slot, or in the deferred function without it.
Uncount(r, x) ==
  /\ pc[r] \in {"uncount", "uncountFail"}
  /\ Outcome(x)
  /\ DecrementWait(User, x # "lost")
  /\ IF pc[r] = "uncount" THEN Step(r, "billing", req[r]) ELSE Step(r, "done", Fresh)
  /\ UNCHANGED <<binding, env>>

\* CheckBillingEligibility, then the lookup of the sticky account.
Billing(r, x) ==
  /\ pc[r] = "billing"
  /\ Call(r, x)
  /\ \/ Step(r, "leave", req[r])
     \/ Step(r, "select", [req[r] EXCEPT !.bound =
                             IF x = "ok" THEN sticky[SessionOf[r]] ELSE NoAccount])
  /\ UNCHANGED <<store, binding, env>>

-----------------------------------------------------------------------------
(* SelectAccountWithLoadAwareness. *)

\* The prefetched binding, or else the cached one.
StickyAccount(r) == IF req[r].bound # NoAccount THEN req[r].bound
                                                ELSE sticky[SessionOf[r]]

\* isExcluded.
Excluded(r) == req[r].failed

\* Without candidates there is no available account.
LoadOrExhausted(candidates) == IF candidates = {} THEN "exhausted" ELSE "load"

NewSelection(r, cand) ==
  [req[r] EXCEPT !.candidates = cand, !.account = NoAccount, !.planMax = 0]

\* Layer 1.5 tries the sticky account, if it passes its checks.
SelectSticky(r) ==
  /\ pc[r] = "select"
  /\ StickyAccount(r) \in config.group \ Excluded(r)
  /\ \E cand \in SUBSET (config.group \ Excluded(r)) :
       Step(r, "stickyTry", [NewSelection(r, cand) EXCEPT !.account = StickyAccount(r)])
  /\ UNCHANGED <<store, binding, env, disturbances>>

\* Otherwise layer 2.  A binding to an account that is not schedulable any
\* more is deleted.
SelectOther(r) ==
  /\ pc[r] = "select"
  /\ \E cand \in SUBSET (config.group \ Excluded(r)) :
       Step(r, LoadOrExhausted(cand), NewSelection(r, cand))
  /\ \/ UNCHANGED sticky
     \/ /\ StickyAccount(r) \in config.group \ Excluded(r)
        /\ sticky' = [sticky EXCEPT ![SessionOf[r]] = NoAccount]
  /\ UNCHANGED <<store, sessions, env, disturbances>>

\* tryAcquireAccountSlot on the sticky account; an error counts as no slot.
StickyTry(r, x) ==
  /\ pc[r] = "stickyTry"
  /\ Call(r, x)
  /\ AcquireSlot(r, req[r].account, x # "lost")
  /\ IF x = "ok" /\ Grants(req[r].account)
     THEN Step(r, "stickySession", TakeSlot(r))
     ELSE Step(r, "stickyWait", req[r])
  /\ UNCHANGED <<binding, env>>

\* RegisterSession: a known session, or one more within the limit.
SessionFits(r, a) == \/ SessionOf[r] \in sessions[a]
                     \/ Cardinality(sessions[a]) < config.sessions

\* checkAndRegisterSession, which allows the session when the cache fails.
Register(r, a, x) ==
  /\ Call(r, x)
  /\ sessions' = [sessions EXCEPT ![a] =
       IF x # "lost" /\ SessionFits(r, a) THEN @ \cup {SessionOf[r]} ELSE @]
  /\ UNCHANGED <<store, sticky, env>>

Allowed(r, a, x) == x # "ok" \/ SessionFits(r, a)

StickySession(r, x) ==
  /\ pc[r] = "stickySession"
  /\ Register(r, req[r].account, x)
  /\ Step(r, IF Allowed(r, req[r].account, x) THEN "hydrate" ELSE "stickyDrop", req[r])

DropForgotten(r, label, x) ==
  /\ Outcome(x)
  /\ Step(r, label, [req[r] EXCEPT !.accountSlot = 0])
  /\ UNCHANGED <<store, binding, env>>

\* The release function of the account's slot.
Drop(r, label, x) ==
  /\ Outcome(x)
  /\ ReleaseSlot(r, req[r].account, req[r].accountSlot, x # "lost")
  /\ Step(r, label, [req[r] EXCEPT !.accountSlot = 0])
  /\ UNCHANGED <<binding, env>>

StickyDrop(r, x) == pc[r] = "stickyDrop" /\ Drop(r, "stickyWait", x)

\* GetAccountWaitingCount; an error reads as 0.
StickyWait(r, x) ==
  /\ pc[r] = "stickyWait"
  /\ Call(r, x)
  /\ Goto(r, IF x # "ok" \/ HasRoom(req[r].account, config.stickyWait)
             THEN "stickyPlan" ELSE LoadOrExhausted(req[r].candidates))
  /\ UNCHANGED <<store, binding, req, env>>

StickyPlan(r, x) ==
  /\ pc[r] = "stickyPlan"
  /\ Register(r, req[r].account, x)
  /\ IF Allowed(r, req[r].account, x)
     THEN Step(r, "hydrate", [req[r] EXCEPT !.planMax = config.stickyWait])
     ELSE Step(r, LoadOrExhausted(req[r].candidates), req[r])

\* GetAccountsLoadBatch; on an error tryAcquireByLegacyOrder tries them all.
Load(r, x) ==
  /\ pc[r] = "load"
  /\ Call(r, x)
  /\ Step(r, "pick", [req[r] EXCEPT !.available =
       IF x = "ok" THEN {a \in req[r].candidates : Underloaded(a)}
                   ELSE req[r].candidates])
  /\ UNCHANGED <<store, binding, env>>

\* Layer 2: the next of the available accounts.
Pick(r, x) ==
  /\ pc[r] = "pick"
  /\ Call(r, x)
  /\ \E a \in req[r].available :
       LET picked == [req[r] EXCEPT !.account = a, !.available = @ \ {a}]
       IN /\ AcquireSlot(r, a, x # "lost")
          /\ IF x = "ok" /\ Grants(a)
             THEN Step(r, "session", [picked EXCEPT !.accountSlot = NextSlot(r, a)])
             ELSE Step(r, "pick", picked)
  /\ UNCHANGED <<binding, env>>

PickNone(r) ==
  /\ pc[r] = "pick"
  /\ req[r].available = {}
  /\ Goto(r, "queueUp")
  /\ UNCHANGED <<store, binding, req, env, disturbances>>

Session(r, x) ==
  /\ pc[r] = "session"
  /\ Register(r, req[r].account, x)
  /\ Step(r, IF Allowed(r, req[r].account, x) THEN "bind" ELSE "drop", req[r])

DropSelected(r, x) == pc[r] = "drop" /\ Drop(r, "pick", x)

\* SetSessionAccountID, whatever the session was bound to.
BindTo(r, x) ==
  /\ Call(r, x)
  /\ sticky' = IF x = "lost" THEN sticky
               ELSE [sticky EXCEPT ![SessionOf[r]] = req[r].account]
  /\ UNCHANGED <<store, sessions, env>>

Bind(r, x) ==
  /\ pc[r] = "bind"
  /\ BindTo(r, x)
  /\ Step(r, "hydrate", req[r])

\* Layer 3: a plan to wait for the first candidate whose sessions allow it.
QueueUp(r, x) ==
  /\ pc[r] = "queueUp"
  /\ \E a \in req[r].candidates :
       /\ Register(r, a, x)
       /\ Step(r, IF Allowed(r, a, x) THEN "hydrate" ELSE "queueUp",
               [req[r] EXCEPT !.account = a, !.candidates = @ \ {a},
                              !.planMax = config.fallbackWait])

QueueUpNone(r) ==
  /\ pc[r] = "queueUp"
  /\ req[r].candidates = {}
  /\ Goto(r, "exhausted")
  /\ UNCHANGED <<store, binding, req, env, disturbances>>

\* newSelectionResult: hydrateSelectedAccount finds the account.
Hydrate(r) ==
  /\ pc[r] = "hydrate"
  /\ Step(r, "selected", [req[r] EXCEPT !.candidates = {}, !.available = {}])
  /\ UNCHANGED <<store, binding, env, disturbances>>

\* Or it does not: the selection fails, and the release function is dropped
\* with it.
HydrateFails(r) ==
  /\ pc[r] = "hydrate"
  /\ Step(r, "exhausted", [req[r] EXCEPT !.accountSlot = 0])
  /\ dropped' = IF req[r].accountSlot # 0 THEN dropped + 1 ELSE dropped
  /\ UNCHANGED <<store, binding, limit, config, restarted, cleaning,
                 disturbances>>

\* HandleSelectionExhausted: after a 503 the excluded accounts are tried
\* again.
Exhausted(r) ==
  /\ pc[r] = "exhausted"
  /\ LET again == /\ req[r].failed # {} /\ req[r].busy /\ ~req[r].canceled
                  /\ req[r].switches <= config.switches
     IN Step(r, IF again THEN "select" ELSE "leave",
             [req[r] EXCEPT !.candidates = {}, !.available = {},
                            !.failed = IF again THEN {} ELSE @])
  /\ UNCHANGED <<store, binding, env, disturbances>>

-----------------------------------------------------------------------------
(* The account's slot, the forward and the failover loop. *)

\* With a slot the request is forwarded; without, there is a plan to wait.
Selected(r) ==
  /\ pc[r] = "selected"
  /\ IF req[r].accountSlot # 0 THEN Step(r, "forward", req[r])
                               ELSE Step(r, "countAccount", req[r])
  /\ UNCHANGED <<store, binding, env, disturbances>>

\* A warm-up request is intercepted: it gives its slot back and is answered
\* without the upstream.
SelectedIntercept(r) ==
  /\ pc[r] = "selected"
  /\ Goto(r, IF req[r].accountSlot # 0 THEN "intercept" ELSE "leave")
  /\ UNCHANGED <<store, binding, req, env, disturbances>>

Intercept(r, x) == pc[r] = "intercept" /\ Drop(r, "leave", x)

\* IncrementAccountWaitCount, failing open like the user's.
CountAccount(r, x) ==
  /\ pc[r] = "countAccount"
  /\ Call(r, x)
  /\ IncrementWait(req[r].account, req[r].planMax, x # "lost")
  /\ Goto(r, IF x # "ok" \/ HasRoom(req[r].account, req[r].planMax)
             THEN "accountWait" ELSE "leave")
  /\ UNCHANGED <<binding, req, env>>

\* AcquireAccountSlotWithWaitTimeout: one attempt.
AcquireAccount(r, x) ==
  /\ pc[r] = "accountWait"
  /\ Call(r, x)
  /\ AcquireSlot(r, req[r].account, x # "lost")
  /\ IF x = "ok" /\ Grants(req[r].account)
     THEN Step(r, "uncountAccount", TakeSlot(r))
     ELSE Step(r, IF x = "ok" THEN "accountWait" ELSE "uncountAccountFail", req[r])
  /\ UNCHANGED <<binding, env>>

LeavesCounted(r) ==
  /\ pc[r] = "accountWait"
  /\ Goto(r, "leave")
  /\ UNCHANGED <<store, binding, req, env, disturbances>>

AccountWaitTimeout(r) ==
  /\ pc[r] = "accountWait"
  /\ Goto(r, "uncountAccountFail")
  /\ UNCHANGED <<store, binding, req, env, disturbances>>

\* releaseWait.
UncountAccount(r, x) ==
  /\ pc[r] \in {"uncountAccount", "uncountAccountFail"}
  /\ Outcome(x)
  /\ DecrementWait(req[r].account, x # "lost")
  /\ Goto(r, IF pc[r] = "uncountAccount" THEN "bindAfterWait" ELSE "leave")
  /\ UNCHANGED <<binding, req, env>>

\* BindStickySession of the account it waited for.
BindAfterWait(r, x) ==
  /\ pc[r] = "bindAfterWait"
  /\ BindTo(r, x)
  /\ Step(r, "forward", req[r])

\* Forward returns.
Forward(r) ==
  /\ pc[r] = "forward"
  /\ \E res \in Returned :
       /\ res.kind # "failover" => ~res.same /\ ~res.busy
       /\ res.kind = "ok" => res.wrote
       /\ res.kind = "tooLong" => ~res.wrote
       /\ Step(r, "release", [req[r] EXCEPT !.result = res,
                 !.delivered = IF res.wrote THEN @ + 1 ELSE @])
  /\ UNCHANGED <<store, binding, env, disturbances>>

\* accountReleaseFunc, unless the context ran it first.
Release(r, x) ==
  /\ pc[r] = "release"
  /\ req[r].accountSlot # 0
  /\ Drop(r, "outcome", x)

ReleasedOnDone(r) ==
  /\ pc[r] = "release"
  /\ req[r].accountSlot = 0
  /\ Goto(r, "outcome")
  /\ UNCHANGED <<store, binding, req, env, disturbances>>

SpliceAllowed(r) == TRUE

\* Failover only if the forward wrote nothing to the client.
NothingWritten(r) == ~req[r].result.wrote

\* HandleFailoverError retries the same account first.
RetrySame(r) ==
  /\ req[r].result.same
  /\ req[r].retries[req[r].account] < config.retries

SwitchesUncounted(r) == req[r].switches

\* SwitchCount++.
NextSwitches(r) == req[r].switches + 1

\* HandleFailoverError.  A done context ends the request in the delays, of which
\* a switch has one on Antigravity only.
HandleFailoverError(r) ==
  LET seen == [req[r] EXCEPT !.busy = req[r].result.busy, !.result = NoResult]
      excluded == [seen EXCEPT !.failed = @ \cup {req[r].account}]
  IN \/ /\ RetrySame(r)
        /\ Step(r, IF req[r].canceled THEN "leave" ELSE "select",
                [seen EXCEPT !.retries[req[r].account] = @ + 1])
     \/ /\ ~RetrySame(r)
        /\ req[r].switches < config.switches
        /\ \E label \in {"select"} \cup (IF req[r].canceled THEN {"leave"} ELSE {}) :
             Step(r, label, [excluded EXCEPT !.switches = NextSwitches(r)])
     \/ /\ ~RetrySame(r)
        /\ req[r].switches >= config.switches
        /\ Step(r, "leave", excluded)

\* A prompt that is too long goes to the fallback group once, if there is one
\* and billing allows it, with a new FailoverState.
UseFallback(r) ==
  /\ config.fallback /\ ~req[r].fallbackUsed
  /\ Step(r, "select", [req[r] EXCEPT !.fallbackUsed = TRUE, !.failed = {},
                          !.switches = 0, !.retries = [a \in Accounts |-> 0],
                          !.busy = FALSE, !.result = NoResult])

\* What the loop does with the result.
HandleOutcome(r) ==
  /\ pc[r] = "outcome"
  /\ \/ req[r].result.kind = "ok" /\ Step(r, "succeed", req[r])
     \/ req[r].result.kind = "tooLong" /\ UseFallback(r)
     \/ req[r].result.kind \in {"fail", "tooLong"} /\ Step(r, "leave", req[r])
     \/ /\ req[r].result.kind = "failover"
        /\ IF NothingWritten(r) THEN HandleFailoverError(r)
                                ELSE Step(r, "leave", req[r])
  /\ UNCHANGED <<store, binding, env, disturbances>>

\* BindStickySession, if the session was not bound to another account on
\* arrival; then submitUsageRecordTask.
Succeed(r, x) ==
  /\ pc[r] = "succeed"
  /\ IF req[r].bound \in {NoAccount, req[r].account} THEN BindTo(r, x)
     ELSE x = "ok" /\ UNCHANGED <<store, binding, env, disturbances>>
  /\ Step(r, "leave", [req[r] EXCEPT !.billed = @ + 1])

\* The deferred release of the user's slot, unless the context ran it first.
Leave(r, x) ==
  /\ pc[r] = "leave"
  /\ IF req[r].userSlot = 0 THEN x = "ok" /\ UNCHANGED <<store, disturbances>>
     ELSE Outcome(x) /\ ReleaseSlot(r, User, req[r].userSlot, x # "lost")
  /\ Step(r, "done", Fresh)
  /\ UNCHANGED <<binding, env>>

-----------------------------------------------------------------------------
(* Disturbances. *)

\* The client disconnects.
Cancel(r) ==
  /\ pc[r] \notin {"idle", "done", "dead"}
  /\ ~req[r].canceled
  /\ req' = [req EXCEPT ![r].canceled = TRUE]
  /\ Disturb
  /\ UNCHANGED <<store, binding, pc, env>>

\* wrapReleaseOnDone: the context runs the release functions, each at most
\* once, while the handler goes on.
ReleaseUserOnDone(r, x) ==
  /\ req[r].canceled
  /\ pc[r] \in AdmittedPCs
  /\ req[r].userSlot # 0
  /\ Outcome(x)
  /\ ReleaseSlot(r, User, req[r].userSlot, x # "lost")
  /\ req' = [req EXCEPT ![r].userSlot = 0]
  /\ UNCHANGED <<binding, pc, env>>

ReleaseAccountOnDone(r, x) ==
  /\ req[r].canceled
  /\ pc[r] \in {"forward", "release"}
  /\ req[r].accountSlot # 0
  /\ Drop(r, pc[r], x)

\* Whether slot m of key k is in use.
InUse(k, m) ==
  \/ k = User /\ req[m[1]].userSlot = m[2]
  \/ k = req[m[1]].account /\ req[m[1]].accountSlot = m[2]

\* A slot of nobody expires in time; one in use only if the request outlives
\* the TTL.
SlotExpires(k, m) ==
  /\ IF InUse(k, m) THEN Disturb /\ req' = [req EXCEPT ![m[1]].lapsed = TRUE]
                    ELSE UNCHANGED <<disturbances, req>>
  /\ DropSlot(k, m)
  /\ UNCHANGED <<binding, pc, env>>

\* The requests that count themselves in the queue of key k.
Waiters(k) ==
  IF k = User THEN {r \in Requests : pc[r] \in UserQueuePCs}
  ELSE {r \in Requests : pc[r] \in AccountQueuePCs /\ req[r].account = k}

\* A wait counter expires after the longest wait without a new waiter.
WaitExpires(k) ==
  /\ waiting[k] > 0
  /\ Waiters(k) = {}
  /\ waiting' = [waiting EXCEPT ![k] = 0]
  /\ UNCHANGED <<slots, binding, pc, req, env, disturbances>>

\* A registered session was idle for too long; one whose request is served
\* only if that takes longer than the idle timeout.
SessionExpires(a, s) ==
  /\ s \in sessions[a]
  /\ IF \E r \in Requests : SessionOf[r] = s /\ pc[r] \in AdmittedPCs
     THEN Disturb ELSE UNCHANGED disturbances
  /\ sessions' = [sessions EXCEPT ![a] = @ \ {s}]
  /\ UNCHANGED <<store, sticky, pc, req, env>>

\* A process dies with its requests; the next one starts with the cleanup.
Restart(p) ==
  /\ Disturb
  /\ pc' = [r \in Requests |->
              IF ProcessOf[r] = p /\ pc[r] # "idle" THEN "dead" ELSE pc[r]]
  /\ req' = [r \in Requests |-> IF ProcessOf[r] = p THEN Fresh ELSE req[r]]
  /\ cleaning' = [cleaning EXCEPT ![p] = Keys]
  /\ restarted' = TRUE
  /\ UNCHANGED <<store, binding, limit, config, dropped>>

\* The members with the prefix of the process that runs now.
OwnMembers(p) == {m \in UNION {slots[k] : k \in Keys} :
                    ProcessOf[m[1]] = p /\ pc[m[1]] # "dead"}

\* CleanupStaleProcessSlots on one key.
StartupCleanup(p, k) ==
  /\ k \in cleaning[p]
  /\ KeepOnly(k, OwnMembers(p))
  /\ cleaning' = [cleaning EXCEPT ![p] = @ \ {k}]
  /\ req' = [r \in Requests |->
       [req[r] EXCEPT !.lapsed =
          @ \/ \E m \in slots[k] \ OwnMembers(p) : m[1] = r /\ InUse(k, m)]]
  /\ UNCHANGED <<binding, pc, limit, config, dropped, restarted, disturbances>>

-----------------------------------------------------------------------------
Command(r, x) ==
  \/ Count(r, x) \/ AcquireUser(r, x) \/ Uncount(r, x) \/ Billing(r, x)
  \/ StickyTry(r, x) \/ StickySession(r, x) \/ StickyDrop(r, x)
  \/ StickyWait(r, x) \/ StickyPlan(r, x) \/ Load(r, x) \/ Pick(r, x)
  \/ Session(r, x) \/ DropSelected(r, x) \/ Bind(r, x) \/ QueueUp(r, x)
  \/ Intercept(r, x) \/ CountAccount(r, x) \/ AcquireAccount(r, x)
  \/ UncountAccount(r, x) \/ BindAfterWait(r, x) \/ Release(r, x)
  \/ Succeed(r, x) \/ Leave(r, x)

Decision(r) ==
  \/ SelectSticky(r) \/ SelectOther(r) \/ PickNone(r) \/ QueueUpNone(r)
  \/ Hydrate(r) \/ HydrateFails(r) \/ Exhausted(r) \/ Selected(r)
  \/ SelectedIntercept(r) \/ Forward(r) \/ ReleasedOnDone(r) \/ HandleOutcome(r)

Timeout(r) == UserWaitTimeout(r) \/ AccountWaitTimeout(r)

OnDone(r, x) == ReleaseUserOnDone(r, x) \/ ReleaseAccountOnDone(r, x)

Next ==
  \/ \E r \in Requests : \/ Arrive(r) \/ Decision(r) \/ Timeout(r) \/ Cancel(r)
                         \/ \E x \in Results : Command(r, x) \/ OnDone(r, x)
  \/ \E k \in Keys : WaitExpires(k) \/ \E m \in slots[k] : SlotExpires(k, m)
  \/ \E a \in Accounts, s \in Sessions : SessionExpires(a, s)
  \/ \E p \in Processes : Restart(p) \/ \E k \in Keys : StartupCleanup(p, k)

Spec == Init /\ [][Next]_vars

\* Handlers run on, timers fire and the upstream answers or times out; Redis
\* drops what has expired, and a starting process finishes its cleanup.
Running(r) == Decision(r) \/ Timeout(r) \/ \E x \in Results : Command(r, x)
Expiry(k) == WaitExpires(k) \/ \E m \in slots[k] : ~InUse(k, m) /\ SlotExpires(k, m)

FairSpec ==
  /\ Spec
  /\ \A r \in Requests : WF_vars(Running(r))
  /\ \A k \in Keys : WF_vars(Expiry(k))
  /\ \A p \in Processes : WF_vars(\E k \in Keys : StartupCleanup(p, k))

-----------------------------------------------------------------------------
(* Properties. *)

\* The requests that use a slot of key k: those past the user's slot, and
\* those forwarded to an account.  A request whose client is gone has given
\* its slots back, though its stream is still drained.
Using(k) ==
  {r \in Requests : /\ ~req[r].canceled /\ ~req[r].lapsed
                    /\ IF k = User THEN pc[r] \in AdmittedPCs \cup {"uncount"}
                       ELSE pc[r] = "forward" /\ req[r].account = k}

\* No account and no user is served more often than its limit at a time,
\* requests aside that outlived the TTL of their slot or lost it to the
\* startup cleanup of another process.
LimitRespected ==
  \A k \in Keys : limit[k] > 0 => Cardinality(Using(k)) <= limit[k]

\* Slots that nobody will release, apart from those of a dead process.
Orphans == {km \in UNION {{k} \X slots[k] : k \in Keys} :
              ~InUse(km[1], km[2]) /\ pc[km[2][1]] # "dead"}

\* Whatever the path out of the handler, a slot is left behind only where a
\* command failed, or with a selection that failed after it had a slot.
SlotsAreReleased == Cardinality(Orphans) <= disturbances + dropped

MaxWait(k) == IF k = User THEN config.userWait
              ELSE IF config.stickyWait > config.fallbackWait
                   THEN config.stickyWait ELSE config.fallbackWait

\* Apart from failures, which let a request in, the queues keep their bound:
\* the counter never falls behind the requests that wait, unless a startup
\* cleanup deletes it.
QueuesBounded ==
  restarted \/ \A k \in Keys : Cardinality(Waiters(k)) <= MaxWait(k) + disturbances

\* Nor does the counter stay ahead of them: whatever the path out of a wait,
\* a request is discounted once, so that a queue refuses a newcomer only for
\* requests that wait and for commands that failed.  A decrement after the
\* counter has expired does not make it negative, restarts included.
CountersAreReturned ==
  \A k \in Keys : /\ waiting[k] >= 0
                  /\ restarted \/ waiting[k] <= Cardinality(Waiters(k)) + disturbances

\* The client sees the output of one forward, whatever failed over before
\* it, and a usage record is submitted only for that one.
OneAnswer ==
  \A r \in Requests : req[r].delivered <= 1 /\ req[r].billed <= req[r].delivered

\* The gateway comes to rest: neither the failover loop nor a wait goes on
\* forever, and what failures and dead processes left behind in Redis goes,
\* so that in the end no slot is held and no waiter is counted.
ComesToRest ==
  <>[](/\ \A r \in Requests : pc[r] \in {"idle", "done", "dead"}
       /\ \A k \in Keys : slots[k] = {} /\ waiting[k] = 0)
=============================================================================

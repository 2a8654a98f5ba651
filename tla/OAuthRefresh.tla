---------------------------- MODULE OAuthRefresh -----------------------------
(***************************************************************************)
(* The OAuth token of one account: requests and background refreshers of   *)
(* several processes refresh it under a local mutex and a Redis lock that  *)
(* has no owner, exchange a one-time refresh token with the provider, and  *)
(* share the access token through a cache                                  *)
(* (service/oauth_refresh_api.go, token_refresh_service.go,                *)
(* claude_token_provider.go, token_cache_invalidator.go,                   *)
(* repository/gemini_token_cache.go).                                      *)
(*                                                                         *)
(* Credentials are numbered in the order the provider issued them: version *)
(* n is the access token, the refresh token and the _token_version that    *)
(* came with the n-th exchange.                                            *)
(***************************************************************************)
EXTENDS Integers, FiniteSets

CONSTANTS
    Workers,      \* goroutines that may refresh
    Processes,
    ProcessOf,    \* Workers -> Processes
    Background,   \* the workers that are TokenRefreshService loops
    MaxRetries,   \* Processes -> cfg.MaxRetries
    MaxVersion,   \* bound: versions the provider issues
    MaxFaults     \* bound: Redis, database and provider errors, crashes

NoToken == 0
NoWorker == "none"

ASSUME ConstantsOK ==
    /\ NoWorker \notin Workers /\ ProcessOf \in [Workers -> Processes]
    /\ Background \subseteq Workers
    /\ MaxRetries \in [Processes -> Nat \ {0}] /\ MaxVersion \in Nat \ {0} /\ MaxFaults \in Nat

VARIABLES
    db,        \* accounts row: credentials version, due for refresh, status
    issued,    \* provider: the newest version; its refresh token alone is good
    lock,      \* oauth:refresh_lock:<key> exists
    local,     \* localLocks: the worker holding its process's mutex
    cache,     \* oauth:token:<key>: a version, or NoToken
    pc,
    account,   \* the account object the worker holds: a version
    fresh,     \* freshAccount, then the credentials to persist
    locked,    \* lockAcquired
    attempt,   \* attempt of refreshWithRetry
    rejected,  \* history: the provider has refused a refresh token
    faults

work == <<account, fresh, locked, attempt>>
vars == <<db, issued, lock, local, cache, pc, work, rejected, faults>>

Goto(w, l) == pc' = [pc EXCEPT ![w] = l]
Fault == faults < MaxFaults /\ faults' = faults + 1
Set(f, w, v) == [f EXCEPT ![w] = v]

(* NeedsRefresh of an account object read at some time: its token is past  *)
(* its window once a newer one exists.                                     *)
NeedsRefresh(v) == v < db.version \/ db.due

(* The critical section of RefreshIfNeeded, its results, and the stretch   *)
(* from the local mutex to the deferred calls.                             *)
Inside == {"reread", "exchange", "recover", "persist"}
Results == {"held", "fresh", "refreshed", "invalid", "retryable"}
Holding == {"lock"} \cup Inside \cup Results

-----------------------------------------------------------------------------
(* Callers *)

(* processRefresh lists active accounts that need a refresh. *)
ListActive(w) ==
    /\ pc[w] = "idle" /\ w \in Background
    /\ db.status = "active" /\ db.due
    /\ account' = Set(account, w, db.version)
    /\ attempt' = Set(attempt, w, 1)
    /\ Goto(w, "local")
    /\ UNCHANGED <<db, issued, lock, local, cache, fresh, locked, rejected, faults>>

(* The cache has no token, or does not answer. *)
Miss == (cache = NoToken /\ UNCHANGED faults) \/ (cache # NoToken /\ Fault)

(* GetAccessToken: the account comes from the scheduler's cache and may be *)
(* old; a cached token is used as it is.                                   *)
GetAccessToken(w) ==
    /\ pc[w] = "idle" /\ w \notin Background
    /\ db.status = "active" /\ Miss
    /\ \E v \in 1 .. db.version :
          /\ account' = Set(account, w, v)
          /\ Goto(w, IF NeedsRefresh(v) THEN "local" ELSE "version")
    /\ UNCHANGED <<db, issued, lock, local, cache, fresh, locked, attempt, rejected>>

-----------------------------------------------------------------------------
(* RefreshIfNeeded *)

LockLocal(w) ==
    /\ pc[w] = "local" /\ local[ProcessOf[w]] = NoWorker
    /\ local' = Set(local, ProcessOf[w], w)
    /\ Goto(w, "lock")
    /\ UNCHANGED <<db, issued, lock, cache, work, rejected, faults>>

(* AcquireRefreshLock: SETNX with a TTL; an error means no lock. *)
AcquireRefreshLock(w) ==
    /\ pc[w] = "lock"
    /\ \/ /\ ~lock
          /\ lock' = TRUE /\ locked' = Set(locked, w, TRUE)
          /\ Goto(w, "reread") /\ UNCHANGED faults
       \/ /\ lock
          /\ Goto(w, "held") /\ UNCHANGED <<lock, locked, faults>>
       \/ /\ Fault
          /\ locked' = Set(locked, w, FALSE)
          /\ Goto(w, "reread") /\ UNCHANGED lock
    /\ UNCHANGED <<db, issued, local, cache, account, fresh, attempt, rejected>>

(* Mutant: the account is not read again under the lock. *)
NoReread(w) ==
    /\ pc[w] = "reread"
    /\ fresh' = Set(fresh, w, account[w])
    /\ Goto(w, IF NeedsRefresh(account[w]) THEN "exchange" ELSE "fresh")
    /\ UNCHANGED <<db, issued, lock, local, cache, account, locked, attempt, rejected, faults>>

(* The account is read again under the lock, and checked again; if the     *)
(* database does not answer, the caller's object is used.                  *)
Reread(w) ==
    /\ pc[w] = "reread"
    /\ \E v \in {db.version, account[w]} :
          /\ (v = db.version /\ UNCHANGED faults) \/ (v = account[w] /\ Fault)
          /\ fresh' = Set(fresh, w, v)
          /\ Goto(w, IF NeedsRefresh(v) THEN "exchange" ELSE "fresh")
    /\ UNCHANGED <<db, issued, lock, local, cache, account, locked, attempt, rejected>>

(* executor.Refresh: the provider takes the newest refresh token once, and *)
(* refuses every other with invalid_grant.                                 *)
Exchange(w) ==
    /\ pc[w] = "exchange"
    /\ \/ /\ fresh[w] = issued /\ issued < MaxVersion
          /\ issued' = issued + 1 /\ fresh' = Set(fresh, w, issued + 1)
          /\ Goto(w, "persist") /\ UNCHANGED <<rejected, faults>>
       \/ /\ fresh[w] # issued
          /\ rejected' = TRUE
          /\ Goto(w, "recover") /\ UNCHANGED <<issued, fresh, faults>>
       \/ Fault /\ Goto(w, "retryable") /\ UNCHANGED <<issued, fresh, rejected>>
    /\ UNCHANGED <<db, lock, local, cache, account, locked, attempt>>

(* tryRecoverFromRefreshRace: another worker stored a newer refresh token, *)
(* or the grant is taken to be dead.                                       *)
Recover(w) ==
    /\ pc[w] = "recover"
    /\ \/ /\ db.version # fresh[w]
          /\ fresh' = Set(fresh, w, db.version)
          /\ Goto(w, "fresh") /\ UNCHANGED faults
       \/ /\ db.version = fresh[w]
          /\ Goto(w, "invalid") /\ UNCHANGED <<fresh, faults>>
       \/ Fault /\ Goto(w, "invalid") /\ UNCHANGED fresh
    /\ UNCHANGED <<db, issued, lock, local, cache, account, locked, attempt, rejected>>

(* persistAccountCredentials: the credentials column alone is written; if  *)
(* that fails the new credentials are gone and the old ones are spent.     *)
Persist(w) ==
    /\ pc[w] = "persist"
    /\ \/ /\ db' = [db EXCEPT !.version = fresh[w], !.due = FALSE]
          /\ Goto(w, "refreshed") /\ UNCHANGED faults
       \/ Fault /\ Goto(w, "retryable") /\ UNCHANGED db
    /\ UNCHANGED <<issued, lock, local, cache, work, rejected>>

(* Mutant: the key is deleted by a worker that did not set it. *)
ReleaseAnyLock(w) == lock' = FALSE

(* ReleaseRefreshLock deletes the key, whoever set it. *)
ReleaseRefreshLock(w) == lock' = (lock /\ ~locked[w])

(* The deferred calls, and the result in the caller's hands. *)
Return(w) ==
    /\ pc[w] \in Results
    /\ ReleaseRefreshLock(w)
    /\ locked' = Set(locked, w, FALSE)
    /\ local' = Set(local, ProcessOf[w], NoWorker)
    /\ account' = IF pc[w] \in {"fresh", "refreshed"} THEN Set(account, w, fresh[w]) ELSE account
    /\ Goto(w, CASE w \in Background /\ pc[w] \in {"held", "fresh"} -> "idle"
                 [] w \in Background /\ pc[w] = "refreshed" -> "clear"
                 [] w \in Background /\ pc[w] = "invalid" -> "disable"
                 [] w \in Background /\ pc[w] = "retryable" ->
                        IF attempt[w] < MaxRetries[ProcessOf[w]] THEN "local" ELSE "unschedule"
                 [] w \notin Background /\ pc[w] = "held" -> "wait"
                 [] OTHER -> "version")
    /\ attempt' = IF pc[w] = "retryable" /\ w \in Background
                  THEN Set(attempt, w, attempt[w] + 1) ELSE attempt
    /\ UNCHANGED <<db, issued, cache, fresh, rejected, faults>>

-----------------------------------------------------------------------------
(* What the callers do with the result *)

(* A refused grant: the account is marked and needs a new authorization. *)
SetError(w) ==
    /\ pc[w] = "disable"
    /\ \/ db' = [db EXCEPT !.status = "error"] /\ UNCHANGED faults
       \/ Fault /\ UNCHANGED db
    /\ Goto(w, "idle")
    /\ UNCHANGED <<issued, lock, local, cache, work, rejected>>

(* Retries exhausted: SetTempUnschedulable; the account stays active and   *)
(* the next cycle tries again.                                             *)
SetTempUnschedulable(w) ==
    /\ pc[w] = "unschedule"
    /\ Goto(w, "idle")
    /\ UNCHANGED <<db, issued, lock, local, cache, work, rejected, faults>>

(* postRefreshActions: InvalidateToken. *)
InvalidateToken(w) ==
    /\ pc[w] = "clear"
    /\ \/ cache' = NoToken /\ UNCHANGED faults
       \/ Fault /\ UNCHANGED cache
    /\ Goto(w, "idle")
    /\ UNCHANGED <<db, issued, lock, local, work, rejected>>

(* The request slept while another held the lock, and looks again. *)
WaitForCache(w) ==
    /\ pc[w] = "wait"
    /\ \/ cache # NoToken /\ Goto(w, "idle") /\ UNCHANGED faults
       \/ Miss /\ Goto(w, "version")
    /\ UNCHANGED <<db, issued, lock, local, cache, work, rejected>>

(* CheckTokenVersion: an old object is not cached, its caller uses the     *)
(* newest token instead; if the database does not answer, it is cached.    *)
CheckTokenVersion(w) ==
    /\ pc[w] = "version"
    /\ \/ Goto(w, IF db.version > account[w] THEN "idle" ELSE "cache") /\ UNCHANGED faults
       \/ Goto(w, "cache") /\ Fault
    /\ UNCHANGED <<db, issued, lock, local, cache, work, rejected>>

SetAccessToken(w) ==
    /\ pc[w] = "cache"
    /\ \/ cache' = account[w] /\ UNCHANGED faults
       \/ Fault /\ UNCHANGED cache
    /\ Goto(w, "idle")
    /\ UNCHANGED <<db, issued, lock, local, work, rejected>>

-----------------------------------------------------------------------------
(* The environment *)

TokenAges ==
    /\ ~db.due /\ issued < MaxVersion
    /\ db' = [db EXCEPT !.due = TRUE]
    /\ UNCHANGED <<issued, lock, local, cache, pc, work, rejected, faults>>

(* Mutant: the lock is set without a TTL. *)
LockNeverExpires == FALSE /\ UNCHANGED vars

(* The lock's TTL passes; under a live holder that is a fault. *)
LockExpires ==
    /\ lock
    /\ IF \E w \in Workers : locked[w] THEN Fault ELSE UNCHANGED faults
    /\ lock' = FALSE
    /\ UNCHANGED <<db, issued, local, cache, pc, work, rejected>>

CacheExpires ==
    /\ cache # NoToken
    /\ cache' = NoToken
    /\ UNCHANGED <<db, issued, lock, local, pc, work, rejected, faults>>

(* A process dies: its goroutines and mutexes are gone, its lock stays. *)
Crash(p) ==
    LET gone == {w \in Workers : ProcessOf[w] = p}
    IN /\ Fault
       /\ \E w \in gone : pc[w] # "idle"
       /\ pc' = [w \in Workers |-> IF w \in gone THEN "idle" ELSE pc[w]]
       /\ locked' = [w \in Workers |-> IF w \in gone THEN FALSE ELSE locked[w]]
       /\ local' = Set(local, p, NoWorker)
       /\ UNCHANGED <<db, issued, lock, cache, account, fresh, attempt, rejected>>

(* The administrator authorizes an account at rest again. *)
Reauthorize ==
    /\ db.status = "error" /\ issued < MaxVersion
    /\ \A w \in Workers : pc[w] = "idle"
    /\ issued' = issued + 1
    /\ db' = [version |-> issued + 1, due |-> FALSE, status |-> "active"]
    /\ UNCHANGED <<lock, local, cache, pc, work, rejected, faults>>

-----------------------------------------------------------------------------
Init ==
    /\ db = [version |-> 1, due |-> FALSE, status |-> "active"]
    /\ issued = 1 /\ lock = FALSE /\ cache = NoToken
    /\ local = [p \in Processes |-> NoWorker]
    /\ pc = [w \in Workers |-> "idle"]
    /\ account = [w \in Workers |-> 1] /\ fresh = [w \in Workers |-> 1]
    /\ locked = [w \in Workers |-> FALSE] /\ attempt = [w \in Workers |-> 1]
    /\ rejected = FALSE /\ faults = 0

Begin(w) == ListActive(w) \/ GetAccessToken(w)

Refresh(w) ==
    \/ LockLocal(w) \/ AcquireRefreshLock(w) \/ Reread(w) \/ Exchange(w) \/ Recover(w)
    \/ Persist(w) \/ Return(w) \/ SetError(w) \/ SetTempUnschedulable(w)
    \/ InvalidateToken(w) \/ WaitForCache(w) \/ CheckTokenVersion(w) \/ SetAccessToken(w)

Next ==
    \/ \E w \in Workers : Begin(w) \/ Refresh(w)
    \/ \E p \in Processes : Crash(p)
    \/ TokenAges \/ LockExpires \/ CacheExpires \/ Reauthorize

Spec == Init /\ [][Next]_vars

(* The loops run, calls return, TTLs pass; the mutex is handed on. *)
Fairness ==
    /\ \A w \in Workers : /\ WF_vars(w \in Background /\ ListActive(w))
                          /\ WF_vars(Refresh(w)) /\ SF_vars(LockLocal(w))
    /\ SF_vars(LockExpires) /\ WF_vars(CacheExpires)

FairSpec == Spec /\ Fairness

-----------------------------------------------------------------------------
Pcs == {"idle", "local", "lock", "held", "fresh", "refreshed", "invalid", "retryable",
        "disable", "unschedule", "clear", "wait", "version", "cache"} \cup Inside

(* Types of the row, the locks and the workers; every object a worker      *)
(* holds is one the provider issued.                                       *)
TypeOK ==
    /\ db \in [version : 1 .. issued, due : BOOLEAN, status : {"active", "error"}]
    /\ issued \in 1 .. MaxVersion /\ lock \in BOOLEAN
    /\ local \in [Processes -> Workers \cup {NoWorker}]
    /\ cache \in 0 .. issued
    /\ pc \in [Workers -> Pcs]
    /\ account \in [Workers -> 1 .. issued] /\ fresh \in [Workers -> 1 .. issued]
    /\ locked \in [Workers -> BOOLEAN]
    /\ \A w \in Workers : attempt[w] \in 1 .. MaxRetries[ProcessOf[w]] + 1
    /\ rejected \in BOOLEAN /\ faults \in 0 .. MaxFaults

(* Whatever fails, one worker of a process at most is between the local    *)
(* mutex and the deferred calls; while nothing fails, one worker of all    *)
(* processes is in the critical section, although the lock has no owner    *)
(* and any worker that took it for its own would delete it                 *)
(* (RefreshIfNeeded: localLocks, AcquireRefreshLock, ReleaseRefreshLock).  *)
OneRefresher ==
    \A w, q \in Workers :
        /\ pc[w] \in Holding /\ pc[q] \in Holding /\ ProcessOf[w] = ProcessOf[q] => w = q
        /\ faults = 0 /\ pc[w] \in Inside /\ pc[q] \in Inside => w = q

(* While nothing fails and no TTL runs out on a live holder, no refresh    *)
(* token is presented twice, no account is disabled, and the stored        *)
(* refresh token is the live one unless a worker is about to store it: the *)
(* lock and the second read under it are enough, whichever workers of      *)
(* whichever processes race (RefreshIfNeeded).                             *)
NoReplay ==
    faults = 0 => /\ ~rejected /\ db.status = "active"
                  /\ db.version = issued \/ \E w \in Workers : pc[w] = "persist"

(* A token that is due is refreshed in the end, or the account is marked:  *)
(* a crashed holder's lock expires, a failed cycle is repeated             *)
(* (RefreshIfNeeded, refreshWithRetry).                                    *)
DueIsRefreshed == db.due /\ db.status = "active" ~> ~db.due \/ db.status = "error"

(* What CheckTokenVersion documents: once the refresh has stored a newer   *)
(* token, an old account object is not written to the cache                *)
(* (token_cache_invalidator.go:70).                                        *)
StaleNotCached == [][cache' # cache /\ cache' # NoToken => cache' >= db.version]_vars
=============================================================================

--------------------------- MODULE MCUsageBilling ----------------------------
(* Small instances of UsageBilling.  Each configuration switches on the    *)
(* hazards that belong together, so the state spaces add up instead of     *)
(* multiplying.                                                            *)
EXTENDS UsageBilling, TLC

CONSTANTS t1, t2, t3

MCTasks == {t1, t2, t3}
MCKeys == {"u1", "u2", "u3", "c1"}
MCCosts == {1, 2}

(* Requests t1 and t2 carry the same upstream id; t3 has its own. *)
Usage(u, p, c, ws) == [upstream |-> u, client |-> "c1", print |-> p, cost |-> c, ws |-> ws]
Same == t1 :> Usage("u1", "p", 1, FALSE) @@ t2 :> Usage("u1", "p", 1, FALSE)
        @@ t3 :> Usage("u1", "q", 2, FALSE)
Distinct == t1 :> Usage("u1", "p", 1, FALSE) @@ t2 :> Usage("u2", "q", 2, FALSE)
            @@ t3 :> Usage("u3", "r", 2, FALSE)
Sockets == t1 :> Usage("u1", "p", 1, FALSE) @@ t2 :> Usage("u2", "q", 1, TRUE)
           @@ t3 :> Usage("u2", "q", 1, TRUE)

Base == [task |-> Distinct, tasks |-> {t1, t2}, balance |-> 3, warm |-> TRUE,
         expiry |-> FALSE, credits |-> 0, faults |-> 0, buffer |-> 1, workers |-> 2,
         threshold |-> 1, halfOpen |-> 1, poolQueue |-> 1, poolWorkers |-> 2,
         retention |-> FALSE, periods |-> FALSE, events |-> FALSE, shutdown |-> FALSE,
         keyQuota |-> 2, accountLimit |-> 9]

(* Three records of one key at once, the move to the archive, a failed     *)
(* transaction.                                                            *)
Duplicates == [Base EXCEPT !.task = Same, !.tasks = {t1, t2, t3},
                           !.retention = TRUE, !.faults = 1, !.workers = 1,
                           !.poolWorkers = 3, !.poolQueue = 3]
(* A cold cache that expires, a credit, writes out of order. *)
StaleCache == [Base EXCEPT !.balance = 1, !.warm = FALSE, !.expiry = TRUE, !.credits = 1]
(* The invalidation after a credit fails. *)
StaleCredit == [StaleCache EXCEPT !.tasks = {t1}, !.faults = 1]
(* The database fails twice under a breaker that opens at once. *)
Breaker == [Base EXCEPT !.warm = FALSE, !.expiry = TRUE, !.faults = 2]
(* One queue place for cache writes, one worker, a limit that is crossed. *)
Quotas == [Base EXCEPT !.tasks = {t1, t2, t3}, !.workers = 1, !.poolWorkers = 1,
                       !.balance = 9, !.accountLimit = 2]
(* Periods that end, and other events of the account. *)
Periods == [Base EXCEPT !.tasks = {t2, t3}, !.periods = TRUE, !.events = TRUE,
                        !.balance = 9, !.accountLimit = 2]
(* Shutdown with a queue, and with a WebSocket connection whose balance is *)
(* loaded while the cache service stops.                                   *)
Stopping == [Base EXCEPT !.task = Sockets, !.tasks = {t1, t2}, !.shutdown = TRUE,
                         !.poolWorkers = 1, !.workers = 1, !.warm = FALSE]
(* Shutdown with queued records that are charged while the service stops. *)
StoppingBusy == [Stopping EXCEPT !.task = Distinct, !.warm = TRUE]

MCConfigs == {Duplicates, StaleCache, StaleCredit, Breaker, Quotas, Periods, Stopping,
              StoppingBusy}
StoppingConfigs == {StoppingBusy}
=============================================================================

------------------------ MODULE MCSchedulerSnapshot -------------------------
(* Small instances of SchedulerSnapshot: each configuration puts the       *)
(* threads of one group of hazards together.                               *)
EXTENDS SchedulerSnapshot, TLC

CONSTANTS a1, a2, b1, b2, o1, o2, f1, f2, r1, w1, w2, s1, s2

MCIn == b1 :> {a1} @@ b2 :> {a1, a2}
MCProcessOf == o1 :> s1 @@ f1 :> s1 @@ o2 :> s2 @@ f2 :> s2

Base == [accounts |-> {a1}, buckets |-> {b1}, threads |-> {o1, f1, w1},
         methods |-> {"Change"}, changes |-> 1, disturbances |-> 0, batch |-> 2,
         warm |-> TRUE]

(* Requests load the snapshot beside the workers that start. *)
Reader == [Base EXCEPT !.threads = {f1, r1, w1}, !.warm = FALSE, !.disturbances = 1]
(* Commands fail, the lock expires, the process restarts. *)
Faulty == [Base EXCEPT !.disturbances = 1]
(* Two buckets that share an account. *)
Shared == [Base EXCEPT !.accounts = {a1, a2}, !.buckets = {b1, b2}, !.threads = {o1, w1, f1},
                       !.methods = {"Delete", "AutoPause"}]
(* Two processes poll and rebuild. *)
Two == [Base EXCEPT !.threads = {o1, o2, f1, w1}, !.methods = {"AutoPause"}]
(* A second change within the dedup window; one event per poll. *)
Window == [Base EXCEPT !.changes = 2, !.batch = 1,
                       !.methods = {"UpdateCredentials", "UpdateLastUsed", "Delete"}]
(* A transaction that takes its id early. *)
Late == [Base EXCEPT !.methods = {"CrossQuota", "Delete"}, !.changes = 2]
TwoWriters == [Late EXCEPT !.threads = {o1, w1, w2}]

MCConfigs == {Reader, Faulty, Shared, Two, Window, Late}
LateConfigs == {TwoWriters}
=============================================================================

-------------------------- MODULE MCGatewayRequest --------------------------
(* Instances of GatewayRequest for TLC. *)
EXTENDS GatewayRequest, TLC

CONSTANTS r1, r2, a1, a2, s1, s2, p1, p2

\* Two requests of different sessions, in processes of their own.
SessionOfEach == (r1 :> s1) @@ (r2 :> s2)
ProcessOfEach == (r1 :> p1) @@ (r2 :> p2)

\* One request per account at a time, and userMax per user.
Limit(userMax) == [k \in Keys |-> IF k = User THEN userMax ELSE 1]

\* The binding of the second session.
Bound(a) == (s1 :> NoAccount) @@ (s2 :> a)

\* Two requests compete for one account, with a disturbance; the user has no
\* limit, or the same; the second may be bound to the account already.
Contention(userMax, bound) ==
  [limit |-> Limit(userMax), clients |-> {r1, r2}, group |-> {a1},
   fallback |-> FALSE, userWait |-> 1, stickyWait |-> 1, fallbackWait |-> 1,
   sessions |-> 1, bound |-> Bound(bound), switches |-> 0, retries |-> 0, disturbances |-> 1]

\* A request fails over between two accounts and to the fallback group.
Failover ==
  [limit |-> Limit(1), clients |-> {r1}, group |-> {a1, a2},
   fallback |-> TRUE, userWait |-> 1, stickyWait |-> 1, fallbackWait |-> 1,
   sessions |-> 1, bound |-> Bound(NoAccount), switches |-> 1, retries |-> 1, disturbances |-> 0]

SmallConfigs == {Contention(0, a1), Contention(1, NoAccount), Failover}
=============================================================================

--------------------------- MODULE MCOAuthRefresh ----------------------------
(* Two processes: one with a refresh loop and a request, one with a loop. *)
EXTENDS OAuthRefresh, TLC

CONSTANTS b1, r1, b2, p1, p2

\* The second process does not retry within a cycle.
MCMaxRetries == p1 :> 2 @@ p2 :> 1
MCProcessOf == b1 :> p1 @@ r1 :> p1 @@ b2 :> p2
=============================================================================

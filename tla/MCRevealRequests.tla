-------------------------- MODULE MCRevealRequests --------------------------
(* Instances of RevealRequests for TLC.                                    *)
EXTENDS RevealRequests, TLC

CONSTANTS t1, t2, u1, u2, u3, r1, r2, k1, k2

Threads == {t1, t2}
Users == {u1, u2, u3}
Requests == {r1, r2}
OneRequest == {r1}
Keys == {k1, k2}

\* Two administrators and a helpdesk user, who may request but not approve.
TwoAdmins == u1 :> {"admin"} @@ u2 :> {"admin"} @@ u3 :> {"helpdesk"}

\* The handlers, the administrators, the requests and the keys are interchangeable.
Sym == Permutations(Threads) \cup Permutations({u1, u2})
         \cup Permutations(Requests) \cup Permutations(Keys)
=============================================================================

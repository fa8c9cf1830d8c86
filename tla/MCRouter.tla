------------------------------ MODULE MCRouter ------------------------------
(* Small instances of Router for TLC. *)
EXTENDS Router, TLC

CONSTANTS r1, r2, r3, p1, p2, s1, s2, none

MCBackends == {1, 2}

Header(p, s, policy) == [prefix |-> p, session |-> s, policy |-> policy]

\* Every policy, and a policy the router does not know; an empty prefix too.
MCHeaders ==
    {Header(p1, s1, "prefix_affinity"), Header(none, s1, "session_affinity"),
     Header(p1, s2, "random"), Header(p1, s1, "round_robin")}

\* Affinity only, so that three requests contend for one home.
MCAffinityHeaders == {Header(p1, s1, "prefix_affinity")}

Symmetric == Permutations(Requests)
=============================================================================

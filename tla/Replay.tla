------------------------------- MODULE Replay -------------------------------
(***************************************************************************)
(* What the load generator promises about the requests of a workload: the  *)
(* turns of a session are sent one after the other, a turn begins only     *)
(* when every earlier turn of its session has ended, no more than          *)
(* Concurrency requests are under way, and no turn follows a lost one.     *)
(***************************************************************************)
EXTENDS Integers, FiniteSets

CONSTANTS Requests, Concurrency

VARIABLES
    before,   \* the earlier turns of the same session, per request
    begun, ended, lost

rvars == <<before, begun, ended, lost>>

UnderWay == begun \ (ended \cup lost)

RInit ==
    /\ before \in [Requests -> SUBSET Requests]
    /\ begun = {} /\ ended = {} /\ lost = {}

Begin(r) ==
    /\ r \notin begun
    /\ before[r] \subseteq ended
    /\ Cardinality(UnderWay) < Concurrency
    /\ begun' = begun \cup {r}
    /\ UNCHANGED <<before, ended, lost>>

End(r) ==
    /\ r \in UnderWay
    /\ ended' = ended \cup {r}
    /\ UNCHANGED <<before, begun, lost>>

\* Its task raised: the request neither ends nor holds anything any more.
Lose(r) ==
    /\ r \in UnderWay
    /\ lost' = lost \cup {r}
    /\ UNCHANGED <<before, begun, ended>>

RNext == \E r \in Requests : Begin(r) \/ End(r) \/ Lose(r)

RSpec == RInit /\ [][RNext]_rvars
=============================================================================

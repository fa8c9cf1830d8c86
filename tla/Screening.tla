----------------------------- MODULE Screening -----------------------------
(***************************************************************************)
(* A trace of ArrivalTrace, and then the simulation of WorkingSet on it:   *)
(* how generate_v2_2_arrival_traces.py and                                 *)
(* analyze_v2_2_cache_working_set.py are used together.                    *)
(***************************************************************************)
EXTENDS ArrivalTrace, WorkingSet, Functions

screenVars == <<vars, simulated>>

ScreenInit == Init /\ LRUInit

\* by_request: the last row with the request id of the item.
RowFor(i) == workload[Max({j \in Places : workload[j].request = workload[i].request})]

UseOf(i) == [session |-> RowFor(i).session, size |-> RowFor(i).tokens]

\* One item of the trace, which is written before the simulation begins.
Screen ==
    /\ step = "done" /\ Len(log) < Len(trace)
    /\ Use(UseOf(trace[Len(log) + 1]))
    /\ UNCHANGED vars

Generate == Next /\ UNCHANGED simulated

ScreenNext == Generate \/ Screen

\* Two sequential programs, one after the other, which go on.
ScreenSpec == ScreenInit /\ [][ScreenNext]_screenVars /\ WF_screenVars(ScreenNext)

----------------------------------------------------------------------------
(* What the cohorts are for. *)

\* A request id is that of one session, as the workload generators make it.
RequestsOfOneSession ==
    \A i, j \in Places : workload[i].request = workload[j].request => SessionOf(i) = SessionOf(j)

Largest(s) == Max({workload[i].tokens : i \in {i \in Places : SessionOf(i) = s}})

\* As many sessions as are active at once always fit, in their largest sizes.
Active == IF plan = "sorted" THEN 1 ELSE CohortSize
CohortsFit ==
    \A n \in 0 .. Active : \A C \in Injection(1 .. n, SessionsOf(Places)) :
        Sums([k \in 1 .. n |-> Largest(C[k])])[n] <= Capacity

\* If any cohort fits into the cache, every reuse is a hit, however the
\* sessions and the turns are shuffled: only the other sessions of its cohort
\* come between two turns of a session.
CohortsHit == hits = reuses \/ ~(RequestsOfOneSession /\ CohortsFit)

\* The generation comes to an end, however many segments a draw spans, and
\* so does the simulation of what it wrote.
ScreeningEnds == <>(step = "refused" \/ (step = "done" /\ Len(log) = Len(trace)))
=============================================================================

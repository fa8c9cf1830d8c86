------------------------------ MODULE MCBench ------------------------------
(* Small instances of Bench for TLC: four sessions contend for two slots. *)
EXTENDS Bench

MCRequests == 1..6
MCSession == <<"a", "a", "a", "b", "c", "d">>

\* The order of turns; the times do not matter in closed_loop.
MCClosed == {Chain(<<1, 2, 3, 4, 5, 6>>, <<0, 0, 0, 0, 0, 0>>, MCSession)}

\* Arrival traces: a burst, waves of turns with ties, and one written by hand in
\* which two turns of a session are swapped.
MCOpen ==
    {Chain(<<1, 2, 3, 4, 5, 6>>, <<0, 0, 0, 0, 0, 0>>, MCSession),
     Chain(<<4, 1, 5, 6, 2, 3>>, <<0, 0, 1, 1, 1, 2>>, MCSession),
     Chain(<<4, 2, 1, 5, 6, 3>>, <<0, 0, 0, 0, 1, 1>>, MCSession)}

\* The pause is a think time: the open-loop runs have none.
MCPause == [m \in {"closed_loop", "poisson"} |-> m = "closed_loop"]
=============================================================================

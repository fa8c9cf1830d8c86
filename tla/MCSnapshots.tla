---------------------------- MODULE MCSnapshots ----------------------------
(* Constants of Snapshots for TLC. *)
EXTENDS Snapshots, TLC

CONSTANTS s1, s2, ra

\* Two instances of one snapshot; two snapshots of one repository.
MCTasks == <<s1, s2, s1>>
MCRepoOf == (s1 :> ra) @@ (s2 :> ra)
WorkerSymmetry == Permutations(Workers)
=============================================================================

------------------------------ MODULE MCStack ------------------------------
(* Constants of Stack for TLC. *)
EXTENDS Stack, TLC

CONSTANTS b1, b2

MCStartOrder == <<b1, b2>>
PidSymmetry == Permutations(Pids)
=============================================================================

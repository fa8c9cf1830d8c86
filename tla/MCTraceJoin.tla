---------------------------- MODULE MCTraceJoin ----------------------------
(* Constants of TraceJoin for TLC. *)
EXTENDS TraceJoin, TLC

PathSymmetry == Permutations(ExternalPaths)
=============================================================================

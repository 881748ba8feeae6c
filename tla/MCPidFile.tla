------------------------------ MODULE MCPidFile ------------------------------
(***************************************************************************)
(* Model-checking instance of PidFile: servers and pids are model values, *)
(* compared only for equality.                                            *)
(***************************************************************************)
EXTENDS PidFile, TLC

Symmetry == Permutations(Servers) \cup Permutations(Pids)
=============================================================================

------------------------------ MODULE MCMonitor ------------------------------
(***************************************************************************)
(* Model-checking instance of Monitor.  "[j1]" is a json-value a client    *)
(* may choose; it is also the %v string of the params array ["j1"] of a   *)
(* monitor_cancel of "j1".                                                 *)
(***************************************************************************)
EXTENDS Monitor

MCJsonValues == {"j1", "[j1]"}

\* The values of column x are only compared for equality.
Symmetry == Permutations(Vals)
=============================================================================

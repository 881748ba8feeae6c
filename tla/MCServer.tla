------------------------------ MODULE MCServer ------------------------------
(***************************************************************************)
(* Model-checking instance of Server: two connections, and two of the     *)
(* methods addClientHandlers binds, in its order.                          *)
(***************************************************************************)
EXTENDS Server

MCMethods == <<"transact", "monitor">>
=============================================================================

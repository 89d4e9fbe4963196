------------------------------ MODULE MCPurge ------------------------------
(* Model-checking instances of Purge. *)
EXTENDS Purge, TLC
=============================================================================

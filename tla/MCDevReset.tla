----------------------------- MODULE MCDevReset -----------------------------
(***************************************************************************)
(* DevReset for TLC: the bounds are given in the .cfg files.               *)
(***************************************************************************)
EXTENDS DevReset
=============================================================================

------------------------------ MODULE MCDevBind ------------------------------
(***************************************************************************)
(* DevBind for TLC: the bounds are given in the .cfg files.                *)
(***************************************************************************)
EXTENDS DevBind
=============================================================================

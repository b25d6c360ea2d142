---------------------------- MODULE MCRegistrar ----------------------------
(***************************************************************************)
(* Registrar for TLC: see section 3 of the README for the bounds.          *)
(***************************************************************************)
EXTENDS Registrar
=============================================================================

----------------------------- MODULE MCUpstream -----------------------------
(***************************************************************************)
(* Upstream with one or two threads of an application and one subdevice,   *)
(* few requests and a queue of two events.                                 *)
(***************************************************************************)
EXTENDS Upstream

CONSTANTS a, b, d1
=============================================================================

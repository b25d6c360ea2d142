---------------------------- MODULE MCProvision ----------------------------
(* One start that may be stopped, frames heard in both directions.          *)
EXTENDS Provision

MCSides == {"up", "down"}
=============================================================================

-------------------------------- MODULE MCOta --------------------------------
(* A small instance of Ota: firmwares of one and two chunks.                *)
EXTENDS Ota, TLC

CONSTANTS f1, f2, c1
MCFirmwares == {f1, f2}
MCConfigs == {c1}
MCSize == f1 :> 2 @@ f2 :> 1 @@ c1 :> 1
=============================================================================

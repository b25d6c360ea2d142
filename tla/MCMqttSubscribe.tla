--------------------------- MODULE MCMqttSubscribe ---------------------------
(* A small instance of MqttSubscribe.                                       *)
EXTENDS MqttSubscribe, TLC

CONSTANTS t1, t2, h1, h2
MCCallers == {t1, t2}
MCHandlers == {h1, h2}
MCHandlerOf == t1 :> h1 @@ t2 :> h2
=============================================================================

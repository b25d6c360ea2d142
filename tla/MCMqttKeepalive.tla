--------------------------- MODULE MCMqttKeepalive ---------------------------
(* A small instance of MqttKeepalive: the clock wraps every 10 ticks.       *)
EXTENDS MqttKeepalive

MCCLOCK == 10
MCKeepAlive == 3
=============================================================================

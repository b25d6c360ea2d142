---------------------------- MODULE MCMqttClient -----------------------------
(* A small instance of MqttClient: two publishing threads, two messages.    *)
EXTENDS MqttClient

CONSTANTS p1, p2, m1, m2
MCPublishers == {p1, p2}
MCMessages2 == {m1, m2}
=============================================================================

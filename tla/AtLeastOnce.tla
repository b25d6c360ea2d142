----------------------------- MODULE AtLeastOnce -----------------------------
(***************************************************************************)
(* What the MQTT client promises of a QoS 1 message, without threads,      *)
(* sockets or packet identifiers: a message the application was told is    *)
(* published reaches the broker at least once, and the application is told *)
(* of its acknowledgement only after the broker has it.                    *)
(***************************************************************************)
CONSTANT Messages

VARIABLES accepted,   \* IOT_MQTT_Publish returned a packet identifier
          received,   \* the broker has processed the PUBLISH
          confirmed   \* IOTX_MQTT_EVENT_PUBLISH_SUCCESS was delivered

vars == <<accepted, received, confirmed>>

TypeOK == /\ accepted \subseteq Messages
          /\ received \subseteq Messages
          /\ confirmed \subseteq Messages

Init == accepted = {} /\ received = {} /\ confirmed = {}

Accept(m) == /\ m \notin accepted
             /\ accepted' = accepted \cup {m}
             /\ UNCHANGED <<received, confirmed>>

Receive(m) == /\ m \in accepted
              /\ received' = received \cup {m}
              /\ UNCHANGED <<accepted, confirmed>>

Confirm(m) == /\ m \in received
              /\ confirmed' = confirmed \cup {m}
              /\ UNCHANGED <<accepted, received>>

Next == \E m \in Messages : Accept(m) \/ Receive(m) \/ Confirm(m)

Safety == Init /\ [][Next]_vars

\* Delivery does happen: an accepted message does not stay away from the broker.
Spec == Safety /\ \A m \in Messages : WF_vars(Receive(m))
=============================================================================

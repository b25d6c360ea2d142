----------------------------- MODULE MqttClient ------------------------------
(***************************************************************************)
(* The publish path and the connection state machine of the MQTT client,   *)
(* iotkit-embedded/mqtt/iotx_mqtt_client.c.                                 *)
(*                                                                         *)
(* Any number of application threads call wrapper_mqtt_publish() while one *)
(* thread at a time (lock_yield) runs wrapper_mqtt_yield(): it reconnects, *)
(* reads packets, and walks the list of messages that wait for a PUBACK.   *)
(* They share client_state (each access under lock_generic, but decisions  *)
(* are taken after the lock is released), the wait list (lock_list_pub)    *)
(* and the socket.                                                         *)
(*                                                                         *)
(* Abstractions.  A message is a model value published once.  The wait     *)
(* list is a set of nodes keyed by their message: nothing reads its order. *)
(* Time passes by the action Expire, and a timer that is polled may be     *)
(* found expired or not.  lock_write_buf is always taken inside            *)
(* lock_list_pub by a publisher, so it is free when no publisher holds     *)
(* that lock.  The TCP connection is a pair of FIFO channels that a fault  *)
(* cuts; faults are bounded by MaxFaults, and MaxInFlight keeps timeouts   *)
(* from piling up retransmissions without end.  Packets are read whole.    *)
(* Keepalive probes are counted in MqttKeepalive: here exhausted probes    *)
(* are a fault like another.                                               *)
(***************************************************************************)
EXTENDS Integers, Sequences, FiniteSets

CONSTANTS Publishers,       \* threads that publish
          Messages,         \* everything they publish, each once
          Qos0,             \* the messages published with QoS 0
          REPUB_NUM_MAX,    \* IOTX_MC_REPUB_NUM_MAX
          PACKET_ID_MAX,    \* IOTX_MC_PACKET_ID_MAX
          TakenIds,         \* packet_id when publishing begins
          CONNECT_TRIES,    \* RETRY_TIME_LIMIT - 1 of _mqtt_connect
          MaxFaults,        \* bound: faults of the network and of the broker
          MaxInFlight,      \* bound: packets in flight when a timeout passes
          Yield, NoThread, NoMsg, NoPacket

ASSUME ClientAssumption ==
  /\ REPUB_NUM_MAX \in Nat \ {0}
  /\ PACKET_ID_MAX \in Nat \ {0}
  /\ TakenIds \in 0 .. PACKET_ID_MAX
  /\ CONNECT_TRIES \in Nat \ {0}
  /\ MaxFaults \in Nat /\ MaxInFlight \in Nat \ {0}
  /\ Qos0 \subseteq Messages
  /\ NoMsg \notin Messages
  /\ Yield \notin Publishers
  /\ NoThread \notin Publishers \cup {Yield}

VARIABLES
  client_state,   \* c->client_state
  packet_id,      \* c->packet_id
  node,           \* list_pub_wait_ack: the node of a message, or "NONE"
  late,           \* nodes whose pub_start_time is more than 2 timeouts ago
  lock_list_pub,  \* the thread that holds c->lock_list_pub
  pc, cur,        \* of each publisher: where it is, and its message
  ypc,            \* where the yielding thread is
  ypkt,           \* the packet in buf_read
  todo,           \* nodes MQTTPubInfoProc has still to visit
  tries,          \* try_count of _mqtt_connect
  sock,           \* the transport: "closed", "up", or "broken" unnoticed
  up, down,       \* packets in flight to and from the broker
  session,        \* the broker has accepted CONNECT on this connection
  faults,         \* faults that have happened
  msg_id,         \* the packet identifier given to each message, or 0
  reused,         \* history: an identifier was given that was still in use
  tried,          \* history: publish was called in state CONNECTED
  accepted,       \* history: publish returned success
  received,       \* history: the broker has the message
  confirmed       \* history: the message's node was acknowledged

pubVars    == <<pc, cur>>
listVars   == <<node, late, lock_list_pub>>
netVars    == <<sock, up, down, session, faults>>
idVars     == <<packet_id, msg_id, reused>>
yieldVars  == <<ypc, ypkt, todo, tries>>
history    == <<tried, accepted, received, confirmed>>
vars       == <<client_state, pubVars, listVars, netVars, idVars, yieldVars,
                history>>

States == {"CONNECTED", "DISCONNECTED", "RECONNECTING"}

Publish(m) == [type |-> "PUBLISH", msg |-> m, id |-> msg_id[m]]
Puback(i)  == [type |-> "PUBACK", msg |-> NoMsg, id |-> i]
Control(t) == [type |-> t, msg |-> NoMsg, id |-> 0]

Packets ==
       [type : {"PUBLISH"}, msg : Messages, id : 0 .. PACKET_ID_MAX]
  \cup [type : {"PUBACK"}, msg : {NoMsg}, id : 0 .. PACKET_ID_MAX]
  \cup [type : {"CONNECT", "CONNACK", "REFUSED", "OTHER"}, msg : {NoMsg}, id : {0}]

Waiting == {m \in Messages : node[m] # "NONE"}

WriteBufFree == lock_list_pub \notin Publishers

(***************************************************************************)
(* The client has just connected for the first time: iotx_mc_init and      *)
(* wrapper_mqtt_connect have succeeded and nothing is published yet;       *)
(* subscriptions have taken identifiers, 1 to TakenIds or many more.       *)
(***************************************************************************)
Init ==
  /\ client_state = "CONNECTED"
  /\ packet_id = TakenIds /\ msg_id = [m \in Messages |-> 0] /\ reused = FALSE
  /\ node = [m \in Messages |-> "NONE"] /\ late = {} /\ lock_list_pub = NoThread
  /\ pc = [p \in Publishers |-> "idle"] /\ cur = [p \in Publishers |-> NoMsg]
  /\ ypc = "keepalive" /\ ypkt = NoPacket /\ todo = {} /\ tries = 0
  /\ sock = "up" /\ up = <<>> /\ down = <<>> /\ session = "accepted" /\ faults = 0
  /\ tried = {} /\ accepted = {} /\ received = {} /\ confirmed = {}

-----------------------------------------------------------------------------
(* The transport (external: a TCP or TLS connection and the broker).       *)

\* The client's ipstack.disconnect: what is in flight is lost.
Close == sock' = "closed" /\ up' = <<>> /\ down' = <<>> /\ session' = "none"

\* ipstack.connect succeeds.
Open == sock' = "up" /\ up' = <<>> /\ down' = <<>> /\ session' = "none"

\* A write that the network stack takes: on a connection already cut, the
\* bytes go nowhere.
Written(p) == /\ sock # "closed"
              /\ up' = IF sock = "up" THEN Append(up, p) ELSE up

Unwritable == sock # "up"

LinkDrop ==
  /\ sock = "up" /\ faults < MaxFaults
  /\ faults' = faults + 1
  /\ sock' = "broken" /\ up' = <<>> /\ session' = "none"
  /\ UNCHANGED <<client_state, pubVars, listVars, down, idVars, yieldVars, history>>

BrokerConnect ==
  /\ up # <<>> /\ Head(up).type = "CONNECT"
  /\ up' = Tail(up)
  /\ \/ /\ session' = "accepted" /\ down' = Append(down, Control("CONNACK"))
        /\ UNCHANGED faults
     \/ /\ faults < MaxFaults /\ faults' = faults + 1
        /\ down' = Append(down, Control("REFUSED"))
        /\ UNCHANGED session
  /\ UNCHANGED <<client_state, pubVars, listVars, sock, idVars, yieldVars, history>>

BrokerPublish ==
  /\ up # <<>> /\ Head(up).type = "PUBLISH"
  /\ IF session = "accepted"
       THEN /\ received' = received \cup {Head(up).msg}
            /\ up' = Tail(up)
            /\ down' = IF Head(up).msg \in Qos0 THEN down
                       ELSE Append(down, Puback(Head(up).id))
            /\ UNCHANGED <<sock, session>>
       ELSE \* a packet before CONNECT: the broker closes the connection
            /\ sock' = "broken" /\ up' = <<>> /\ UNCHANGED <<down, session, received>>
  /\ UNCHANGED <<client_state, pubVars, listVars, faults, idVars, yieldVars,
                 tried, accepted, confirmed>>

Broker == BrokerConnect \/ BrokerPublish

\* A packet that has nothing to do with publishing: PINGRESP, SUBACK, a message
\* for a subscriber.  Bound: sent only when nothing else is on its way.
BrokerOther ==
  /\ session = "accepted" /\ down = <<>>
  /\ down' = <<Control("OTHER")>>
  /\ UNCHANGED <<client_state, pubVars, listVars, sock, up, session, faults,
                 idVars, yieldVars, history>>

\* Two request timeouts pass without the acknowledgement of a message.
Expire(m) ==
  /\ node[m] = "NORMAL" /\ m \notin late
  /\ Len(up) + Len(down) < MaxInFlight
  /\ late' = late \cup {m}
  /\ UNCHANGED <<client_state, pubVars, node, lock_list_pub, netVars, idVars,
                 yieldVars, history>>

-----------------------------------------------------------------------------
(* wrapper_mqtt_publish by an application thread.                          *)

PublishCheckState(p, m) ==
  /\ pc[p] = "idle"
  /\ m \notin tried
  /\ client_state = "CONNECTED"   \* otherwise MQTT_STATE_ERROR, nothing changes
  /\ tried' = tried \cup {m}
  /\ pc' = [pc EXCEPT ![p] = IF m \in Qos0 THEN "push" ELSE "getid"]
  /\ cur' = [cur EXCEPT ![p] = m]
  /\ UNCHANGED <<client_state, listVars, netVars, idVars, yieldVars, accepted,
                 received, confirmed>>

NextId(i) == IF i = PACKET_ID_MAX THEN 1 ELSE i + 1

InFlight(s) == {s[k] : k \in DOMAIN s}

\* A node, a call, a PUBLISH or a PUBACK has the identifier i.
InUse(i) ==
  \/ \E m \in Messages :
       msg_id[m] = i /\ (m \in Waiting \/ \E p \in Publishers : cur[p] = m)
  \/ \E x \in InFlight(up) \cup InFlight(down) : x.id = i
  \/ ypc = "handle" /\ ypkt.id = i

iotx_mc_get_next_packetid(p) ==
  /\ pc[p] = "getid"
  /\ packet_id' = NextId(packet_id)
  /\ reused' = (reused \/ InUse(packet_id'))
  /\ msg_id' = [msg_id EXCEPT ![cur[p]] = packet_id']
  /\ pc' = [pc EXCEPT ![p] = "push"]
  /\ UNCHANGED <<client_state, cur, listVars, netVars, yieldVars, history>>

\* MQTTPublish takes the locks and queues the node; a full list fails the call.
iotx_mc_push_pubInfo_to(p) ==
  /\ pc[p] = "push" /\ lock_list_pub = NoThread
  /\ IF cur[p] \in Qos0 \/ Cardinality(Waiting) < REPUB_NUM_MAX
       THEN /\ node' = IF cur[p] \in Qos0 THEN node
                       ELSE [node EXCEPT ![cur[p]] = "NORMAL"]
            /\ lock_list_pub' = p
            /\ pc' = [pc EXCEPT ![p] = "send"]
            /\ UNCHANGED cur
       ELSE /\ pc' = [pc EXCEPT ![p] = "idle"]
            /\ cur' = [cur EXCEPT ![p] = NoMsg]
            /\ UNCHANGED <<node, lock_list_pub>>
  /\ UNCHANGED <<client_state, late, netVars, idVars, yieldVars, history>>

MQTTPublishSent(p) ==
  /\ pc[p] = "send"
  /\ Written(Publish(cur[p]))
  /\ accepted' = accepted \cup {cur[p]}
  /\ lock_list_pub' = NoThread
  /\ pc' = [pc EXCEPT ![p] = "idle"]
  /\ cur' = [cur EXCEPT ![p] = NoMsg]
  /\ UNCHANGED <<client_state, node, late, sock, down, session, faults, idVars,
                 yieldVars, tried, received, confirmed>>

TakeBackForgotten(m) == node   \* mistake: the node stays in the list
TakeBack(m) == [node EXCEPT ![m] = "NONE"]

\* The write fails: the node is taken back before the locks are released.
MQTTPublishFailed(p) ==
  /\ pc[p] = "send"
  /\ Unwritable
  /\ node' = TakeBack(cur[p])
  /\ late' = late \ {cur[p]}
  /\ lock_list_pub' = NoThread
  /\ pc' = [pc EXCEPT ![p] = "failed"]
  /\ cur' = [cur EXCEPT ![p] = NoMsg]
  /\ UNCHANGED <<client_state, netVars, idVars, yieldVars, history>>

\* Only now, with no lock held, is the state written: it may have moved on.
PublishSetDisconnected(p) ==
  /\ pc[p] = "failed"
  /\ client_state' = "DISCONNECTED"
  /\ pc' = [pc EXCEPT ![p] = "idle"]
  /\ UNCHANGED <<cur, listVars, netVars, idVars, yieldVars, history>>

PublisherFinishes(p) ==
  \/ iotx_mc_get_next_packetid(p) \/ iotx_mc_push_pubInfo_to(p)
  \/ MQTTPublishSent(p) \/ MQTTPublishFailed(p) \/ PublishSetDisconnected(p)

Publisher(p) ==
  (\E m \in Messages : PublishCheckState(p, m)) \/ PublisherFinishes(p)

-----------------------------------------------------------------------------
(* wrapper_mqtt_yield: keepalive and reconnection.                         *)

\* iotx_mc_keepalive_sub: no ping is due, or it is sent; a failed write is
\* noticed here.
iotx_mc_keepalive_sub ==
  /\ ypc = "keepalive"
  /\ \/ UNCHANGED client_state
     \/ /\ client_state = "CONNECTED" /\ WriteBufFree /\ Unwritable
        /\ client_state' = "DISCONNECTED"
  /\ ypc' = "state"
  /\ UNCHANGED <<pubVars, listVars, netVars, idVars, ypkt, todo, tries, history>>

\* iotx_mc_keepalive reads the state once and acts on it.
KeepaliveNothing ==
  /\ ypc = "state"
  /\ \/ client_state = "CONNECTED"
     \/ client_state = "RECONNECTING"    \* reconnect_next_time is not reached
  /\ ypc' = "cycle"
  /\ UNCHANGED <<client_state, pubVars, listVars, netVars, idVars, ypkt, todo,
                 tries, history>>

KeepaliveDisconnected ==
  /\ ypc = "state" /\ client_state = "DISCONNECTED"
  /\ Close
  /\ client_state' = "RECONNECTING"
  /\ ypc' = "cycle"
  /\ UNCHANGED <<pubVars, listVars, idVars, ypkt, todo, tries, faults, history>>

iotx_mc_attempt_reconnect ==
  /\ ypc = "state" /\ client_state = "RECONNECTING"
  /\ Close
  /\ ypc' = "tcp" /\ tries' = 0
  /\ UNCHANGED <<client_state, pubVars, listVars, idVars, ypkt, todo, faults, history>>

\* wrapper_mqtt_connect: three failed attempts still lead to _mqtt_connect.
TcpConnect ==
  /\ ypc = "tcp"
  /\ \/ Open /\ UNCHANGED faults
     \/ /\ faults < MaxFaults /\ faults' = faults + 1
        /\ Close
  /\ ypc' = "connect"
  /\ UNCHANGED <<client_state, pubVars, listVars, idVars, ypkt, todo, tries, history>>

\* Mistake: the answer of the broker is not waited for.
MQTTConnectUnanswered ==
  /\ ypc = "connect" /\ WriteBufFree
  /\ \/ /\ Written(Control("CONNECT"))
        /\ ypc' = "setconnected" /\ UNCHANGED <<sock, down, session>>
     \/ /\ Unwritable
        /\ Close
        /\ ypc' = "cycle"
  /\ UNCHANGED <<client_state, pubVars, listVars, idVars, ypkt, todo, tries,
                 faults, history>>

MQTTConnect ==
  /\ ypc = "connect" /\ WriteBufFree
  /\ \/ /\ Written(Control("CONNECT"))
        /\ ypc' = "connack" /\ UNCHANGED <<sock, down, session>>
     \/ /\ Unwritable
        /\ Close
        /\ ypc' = "cycle"
  /\ UNCHANGED <<client_state, pubVars, listVars, idVars, ypkt, todo, tries,
                 faults, history>>

Refused(pkt) == pkt.type = "REFUSED"

\* iotx_mc_wait_CONNACK: other packets are read and dropped.
WaitConnackPacket ==
  /\ ypc = "connack" /\ down # <<>>
  /\ IF Refused(Head(down))
       THEN /\ Close /\ ypc' = "cycle"
       ELSE /\ down' = Tail(down)
            /\ ypc' = IF Head(down).type \in {"CONNACK", "REFUSED"}
                        THEN "setconnected" ELSE "connack"
            /\ UNCHANGED <<sock, up, session>>
  /\ UNCHANGED <<client_state, pubVars, listVars, idVars, ypkt, todo, tries,
                 faults, history>>

\* A read error, or no CONNACK in time (a fault when the connection is up):
\* the transport is opened again, whether that succeeds or not, and after the
\* last try left so.
WaitConnackFailed ==
  /\ ypc = "connack"
  /\ \/ sock # "up" /\ Open /\ UNCHANGED faults
     \/ faults < MaxFaults /\ faults' = faults + 1 /\ (Open \/ Close)
  /\ tries' = tries + 1
  /\ ypc' = IF tries' = CONNECT_TRIES THEN "cycle" ELSE "connect"
  /\ UNCHANGED <<client_state, pubVars, listVars, idVars, ypkt, todo, history>>

\* Both _mqtt_connect and iotx_mc_handle_reconnect set the state.
SetConnected ==
  /\ ypc \in {"setconnected", "reconnected"}
  /\ client_state' = "CONNECTED"
  /\ ypc' = IF ypc = "setconnected" THEN "reconnected" ELSE "cycle"
  /\ UNCHANGED <<pubVars, listVars, netVars, idVars, ypkt, todo, tries, history>>

-----------------------------------------------------------------------------
(* _mqtt_cycle: one packet, then the wait list.                            *)

CycleNotConnected ==
  /\ ypc = "cycle" /\ client_state # "CONNECTED"
  /\ ypc' = "loop"
  /\ UNCHANGED <<client_state, pubVars, listVars, netVars, idVars, ypkt, todo,
                 tries, history>>

\* The keepalive probes may be exhausted; the packet is read all the same.
CycleConnected ==
  /\ ypc = "cycle" /\ client_state = "CONNECTED"
  /\ \/ UNCHANGED <<client_state, faults>>
     \/ /\ faults < MaxFaults /\ faults' = faults + 1
        /\ client_state' = "DISCONNECTED"
  /\ ypc' = "read"
  /\ UNCHANGED <<pubVars, listVars, sock, up, down, session, idVars, ypkt, todo,
                 tries, history>>

ReadPacket ==
  /\ ypc = "read" /\ down # <<>>
  /\ ypkt' = Head(down) /\ down' = Tail(down)
  /\ ypc' = "handle"
  /\ UNCHANGED <<client_state, pubVars, listVars, sock, up, session, faults,
                 idVars, todo, tries, history>>

ReadTimeout ==
  /\ ypc = "read" /\ sock = "up"
  /\ ypc' = "list"
  /\ UNCHANGED <<client_state, pubVars, listVars, netVars, idVars, ypkt, todo,
                 tries, history>>

ReadError ==
  /\ ypc = "read" /\ sock # "up"
  /\ client_state' = "DISCONNECTED"
  /\ ypc' = "loop"
  /\ UNCHANGED <<pubVars, listVars, netVars, idVars, ypkt, todo, tries, history>>

AckedAll(i) == Waiting   \* mistake: the identifier is not compared
AckedUpTo(i) == {m \in Waiting : msg_id[m] <= i}   \* mistake: all before it as well

\* iotx_mc_mask_pubInfo_from marks every node that has the identifier.
Acked(i) == {m \in Waiting : msg_id[m] = i}

iotx_mc_handle_recv_PUBACK ==
  /\ ypc = "handle" /\ ypkt.type = "PUBACK" /\ lock_list_pub = NoThread
  /\ node' = [m \in Messages |-> IF m \in Acked(ypkt.id) THEN "INVALID" ELSE node[m]]
  /\ confirmed' = confirmed \cup Acked(ypkt.id)
  /\ ypkt' = NoPacket /\ ypc' = "list"
  /\ UNCHANGED <<client_state, pubVars, late, lock_list_pub, netVars, idVars,
                 todo, tries, tried, accepted, received>>

\* Other packets do not touch what this module models.
HandleOther ==
  /\ ypc = "handle" /\ ypkt.type # "PUBACK"
  /\ ypkt' = NoPacket /\ ypc' = "list"
  /\ UNCHANGED <<client_state, pubVars, listVars, netVars, idVars, todo, tries, history>>

VisitedLive == {m \in Messages : node[m] = "NORMAL"}   \* mistake: dead nodes stay
Visited == Waiting

\* MQTTPubInfoProc holds lock_list_pub for its whole walk of the list.
PubInfoBegin ==
  /\ ypc = "list" /\ lock_list_pub = NoThread
  /\ lock_list_pub' = Yield
  /\ todo' = Visited
  /\ ypc' = "walk"
  /\ UNCHANGED <<client_state, pubVars, node, late, netVars, idVars, ypkt, tries, history>>

RemoveInvalid(m) ==
  /\ ypc = "walk" /\ m \in todo /\ node[m] = "INVALID"
  /\ node' = [node EXCEPT ![m] = "NONE"]
  /\ late' = late \ {m}
  /\ todo' = todo \ {m}
  /\ UNCHANGED <<client_state, pubVars, lock_list_pub, netVars, idVars, ypc,
                 ypkt, tries, history>>

SkipNode(m) ==
  /\ ypc = "walk" /\ m \in todo /\ node[m] = "NORMAL"
  /\ client_state # "CONNECTED" \/ m \notin late
  /\ todo' = todo \ {m}
  /\ UNCHANGED <<client_state, pubVars, listVars, netVars, idVars, ypc, ypkt,
                 tries, history>>

\* The timer restarts whether or not the write succeeds; a failure ends the walk.
MQTTRePublish(m) ==
  /\ ypc = "walk" /\ m \in todo /\ node[m] = "NORMAL"
  /\ client_state = "CONNECTED" /\ m \in late
  /\ late' = late \ {m}
  /\ \/ /\ Written(Publish(m))
        /\ todo' = todo \ {m} /\ UNCHANGED client_state
     \/ /\ Unwritable
        /\ client_state' = "DISCONNECTED"
        /\ todo' = {} /\ UNCHANGED up
  /\ UNCHANGED <<pubVars, node, lock_list_pub, sock, down, session, faults,
                 idVars, ypc, ypkt, tries, history>>

PubInfoEnd ==
  /\ ypc = "walk" /\ todo = {}
  /\ lock_list_pub' = NoThread
  /\ ypc' = "loop"
  /\ UNCHANGED <<client_state, pubVars, node, late, netVars, idVars, ypkt, todo,
                 tries, history>>

\* The loop of _mqtt_cycle goes on until its time is up.
CycleAgain ==
  /\ ypc = "loop" /\ ypc' = "cycle"
  /\ UNCHANGED <<client_state, pubVars, listVars, netVars, idVars, ypkt, todo,
                 tries, history>>

YieldReturns ==
  /\ ypc = "loop" /\ ypc' = "keepalive"
  /\ UNCHANGED <<client_state, pubVars, listVars, netVars, idVars, ypkt, todo,
                 tries, history>>

Yielder ==
  \/ iotx_mc_keepalive_sub \/ KeepaliveNothing \/ KeepaliveDisconnected
  \/ iotx_mc_attempt_reconnect \/ TcpConnect \/ MQTTConnect
  \/ WaitConnackPacket \/ WaitConnackFailed \/ SetConnected
  \/ CycleNotConnected \/ CycleConnected
  \/ ReadPacket \/ ReadTimeout \/ ReadError
  \/ iotx_mc_handle_recv_PUBACK \/ HandleOther
  \/ PubInfoBegin \/ PubInfoEnd \/ CycleAgain \/ YieldReturns
  \/ \E m \in Messages : RemoveInvalid(m) \/ SkipNode(m) \/ MQTTRePublish(m)

-----------------------------------------------------------------------------
Next ==
  \/ \E p \in Publishers : Publisher(p)
  \/ Yielder
  \/ Broker
  \/ BrokerOther
  \/ LinkDrop
  \/ \E m \in Messages : Expire(m)

Safety == Init /\ [][Next]_vars

(***************************************************************************)
(* Every thread runs on; a publisher need not publish, but finishes what   *)
(* it began.  Data that stays readable is read at last; the time of one    *)
(* _mqtt_cycle, of the reconnection interval and of the acknowledgement     *)
(* timeout is up at last.                                                  *)
(***************************************************************************)
Fairness ==
  /\ \A p \in Publishers : WF_vars(PublisherFinishes(p))
  /\ WF_vars(Yielder)
  /\ SF_vars(ReadPacket) /\ SF_vars(YieldReturns)
  /\ SF_vars(iotx_mc_attempt_reconnect)
  /\ WF_vars(Broker)
  /\ \A m \in Messages : SF_vars(Expire(m))

Spec == Safety /\ Fairness

-----------------------------------------------------------------------------
\* One type invariant for the module.
TypeOK ==
  /\ client_state \in States
  /\ packet_id \in 0 .. PACKET_ID_MAX
  /\ msg_id \in [Messages -> 0 .. PACKET_ID_MAX]
  /\ reused \in BOOLEAN
  /\ node \in [Messages -> {"NONE", "NORMAL", "INVALID"}]
  /\ late \subseteq Messages
  /\ lock_list_pub \in Publishers \cup {Yield, NoThread}
  /\ pc \in [Publishers -> {"idle", "getid", "push", "send", "failed"}]
  /\ cur \in [Publishers -> Messages \cup {NoMsg}]
  /\ \A p \in Publishers : pc[p] \in {"getid", "push", "send"} <=> cur[p] \in Messages
  /\ ypc \in {"keepalive", "state", "tcp", "connect", "connack", "setconnected",
              "reconnected", "cycle", "read", "handle", "list", "walk", "loop"}
  /\ ypkt \in Packets \cup {NoPacket}
  /\ ypc = "handle" => ypkt \in Packets
  /\ todo \subseteq Messages
  /\ tries \in 0 .. CONNECT_TRIES
  /\ ypc \in {"tcp", "connect", "connack"} => tries < CONNECT_TRIES
  /\ sock \in {"closed", "up", "broken"}
  /\ up \in Seq(Packets) /\ down \in Seq(Packets)
  /\ session \in {"none", "accepted"}
  /\ faults \in 0 .. MaxFaults
  /\ tried \subseteq Messages
  /\ accepted \subseteq Messages
  /\ received \subseteq Messages
  /\ confirmed \subseteq Messages

(***************************************************************************)
(* MQTTPublish / MQTTPubInfoProc: until an identifier is given that is     *)
(* still in use, a QoS 1 message whose publish succeeded is at the broker  *)
(* or still has a live node in the wait list, whatever the interleaving of *)
(* publishers, stale state writes, acknowledgements and reconnections, and *)
(* however often the identifiers have wrapped.                             *)
(***************************************************************************)
NoLoss ==
  ~reused =>
    \A m \in accepted \ Qos0 : m \in received \/ node[m] = "NORMAL"

(***************************************************************************)
(* iotx_mc_mask_pubInfo_from: until an identifier is given that is still   *)
(* in use, the success event is given only for a message that the broker   *)
(* has, never for the message of another thread.                           *)
(***************************************************************************)
ConfirmedOnlyReceived == ~reused => confirmed \subseteq received

(***************************************************************************)
(* iotx_mc_keepalive, _mqtt_connect: when a thread reads CONNECTED, the    *)
(* transport is one on which the broker has accepted CONNECT, or one that  *)
(* has broken since; it is never closed and never half-way through a       *)
(* reconnection, although failed publishers write the state at any time.   *)
(***************************************************************************)
ConnectedMeansSession ==
  client_state = "CONNECTED" => sock = "broken" \/ (sock = "up" /\ session = "accepted")

(***************************************************************************)
(* MQTTPublish: a node waits only for a message whose publish succeeded,   *)
(* or is still being written under the list lock.  A publish that reported *)
(* failure leaves no slot taken and is never sent again by the walk.       *)
(***************************************************************************)
NoOrphanNode ==
  \A m \in Waiting :
    m \in accepted \/ \E p \in Publishers : lock_list_pub = p /\ cur[p] = m

(***************************************************************************)
(* The wait list drains: a node does not occupy its slot for ever, so the  *)
(* limit REPUB_NUM_MAX does not stop publishers for good.                  *)
(***************************************************************************)
EventuallyDrained == \A m \in Messages : []<>(node[m] = "NONE")

(***************************************************************************)
(* The client implements the at-least-once promise for QoS 1 messages.     *)
(***************************************************************************)
Promise == INSTANCE AtLeastOnce WITH
             Messages  <- Messages \ Qos0,
             accepted  <- accepted \ Qos0,
             received  <- received \ Qos0,
             confirmed <- confirmed

ImplementsAtLeastOnce == Promise!Spec
=============================================================================

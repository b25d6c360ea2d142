-------------------------- MODULE MqttClientProofs ---------------------------
(***************************************************************************)
(* Proofs about MqttClient for any threads, messages, list length, number  *)
(* of identifiers and number of faults: types and the session first, then  *)
(* that no QoS 1 message is lost and none is confirmed falsely, and that   *)
(* the client implements AtLeastOnce.                                      *)
(***************************************************************************)
EXTENDS MqttClient, TLAPS

\* The packets the client and the broker send are packets.
LEMMA PacketTypes ==
  ASSUME TypeOK
  PROVE  /\ \A m \in Messages : Publish(m) \in Packets
         /\ \A i \in 0 .. PACKET_ID_MAX : Puback(i) \in Packets
         /\ \A t \in {"CONNECT", "CONNACK", "REFUSED", "OTHER"} : Control(t) \in Packets
PROOF BY ClientAssumption DEF TypeOK, Publish, Puback, Control, Packets

\* A channel stays a sequence of packets when it is cut, read or written.
LEMMA Channels ==
  /\ <<>> \in Seq(Packets)
  /\ \A s \in Seq(Packets) :
       /\ \A x \in Packets : Append(s, x) \in Seq(Packets)
       /\ s # <<>> => Head(s) \in Packets /\ Tail(s) \in Seq(Packets)
<1>1. <<>> \in Seq(Packets)
  OBVIOUS
<1>2. ASSUME NEW s \in Seq(Packets)
      PROVE  /\ \A x \in Packets : Append(s, x) \in Seq(Packets)
             /\ s # <<>> => Head(s) \in Packets /\ Tail(s) \in Seq(Packets)
  OBVIOUS
<1> QED BY <1>1, <1>2

\* Every step of a publishing thread keeps the types.
LEMMA PublisherType ==
  ASSUME TypeOK, NEW p \in Publishers, Publisher(p)
  PROVE  TypeOK'
<1> USE ClientAssumption
<1>1. ASSUME NEW m \in Messages, PublishCheckState(p, m) PROVE TypeOK'
  BY <1>1 DEF TypeOK, PublishCheckState, listVars, netVars, idVars, yieldVars
<1>2. CASE iotx_mc_get_next_packetid(p)
  <2>1. packet_id' \in 0 .. PACKET_ID_MAX
    BY <1>2 DEF TypeOK, iotx_mc_get_next_packetid, NextId
  <2>2. msg_id' \in [Messages -> 0 .. PACKET_ID_MAX] /\ reused' \in BOOLEAN
    BY <1>2, <2>1 DEF TypeOK, iotx_mc_get_next_packetid
  <2>3. /\ pc' \in [Publishers -> {"idle", "getid", "push", "send", "failed"}]
        /\ UNCHANGED cur
        /\ \A q \in Publishers : pc'[q] \in {"getid", "push", "send"} <=> cur'[q] \in Messages
    BY <1>2 DEF TypeOK, iotx_mc_get_next_packetid
  <2>4. UNCHANGED <<client_state, listVars, netVars, yieldVars, history>>
    BY <1>2 DEF iotx_mc_get_next_packetid
  <2> QED BY <2>1, <2>2, <2>3, <2>4 DEF TypeOK, listVars, netVars, yieldVars, history
<1>3. CASE iotx_mc_push_pubInfo_to(p)
  <2> DEFINE m == cur[p]
  <2>1. m \in Messages
    BY <1>3 DEF TypeOK, iotx_mc_push_pubInfo_to
  <2>2. \/ /\ node' = node \/ node' = [node EXCEPT ![m] = "NORMAL"]
           /\ lock_list_pub' = p
           /\ pc' = [pc EXCEPT ![p] = "send"]
           /\ UNCHANGED cur
        \/ /\ pc' = [pc EXCEPT ![p] = "idle"]
           /\ cur' = [cur EXCEPT ![p] = NoMsg]
           /\ UNCHANGED <<node, lock_list_pub>>
    BY <1>3, Zenon DEF iotx_mc_push_pubInfo_to
  <2>3. UNCHANGED <<client_state, late, netVars, idVars, yieldVars, history>>
    BY <1>3 DEF iotx_mc_push_pubInfo_to
  <2> HIDE DEF m
  <2>4. /\ pc' \in [Publishers -> {"idle", "getid", "push", "send", "failed"}]
        /\ cur' \in [Publishers -> Messages \cup {NoMsg}]
    BY <2>2 DEF TypeOK
  <2>5. \A q \in Publishers : pc'[q] \in {"getid", "push", "send"} <=> cur'[q] \in Messages
    <3>1. CASE pc' = [pc EXCEPT ![p] = "send"] /\ UNCHANGED cur
      BY <2>1, <3>1 DEF TypeOK, m
    <3>2. CASE pc' = [pc EXCEPT ![p] = "idle"] /\ cur' = [cur EXCEPT ![p] = NoMsg]
      BY <3>2 DEF TypeOK
    <3> QED BY <2>2, <3>1, <3>2
  <2>6. /\ node' \in [Messages -> {"NONE", "NORMAL", "INVALID"}]
        /\ lock_list_pub' \in Publishers \cup {Yield, NoThread}
    <3>1. /\ node \in [Messages -> {"NONE", "NORMAL", "INVALID"}]
          /\ lock_list_pub \in Publishers \cup {Yield, NoThread}
      BY DEF TypeOK
    <3>2. [node EXCEPT ![m] = "NORMAL"] \in [Messages -> {"NONE", "NORMAL", "INVALID"}]
      BY <2>1, <3>1
    <3> QED BY <2>2, <3>1, <3>2
  <2> QED BY <2>3, <2>4, <2>5, <2>6 DEF TypeOK, netVars, idVars, yieldVars, history
<1>4. CASE MQTTPublishSent(p)
  <2>1. cur[p] \in Messages
    BY <1>4 DEF TypeOK, MQTTPublishSent
  <2>2. up' \in Seq(Packets)
    BY <1>4, <2>1, PacketTypes, Channels DEF TypeOK, MQTTPublishSent, Written
  <2> QED BY <1>4, <2>1, <2>2 DEF TypeOK, MQTTPublishSent, idVars, yieldVars
<1>5. CASE MQTTPublishFailed(p)
  BY <1>5 DEF TypeOK, MQTTPublishFailed, TakeBack, netVars, idVars, yieldVars, history
<1>6. CASE PublishSetDisconnected(p)
  BY <1>6 DEF TypeOK, PublishSetDisconnected, States, listVars, netVars, idVars,
       yieldVars, history
<1> QED BY <1>1, <1>2, <1>3, <1>4, <1>5, <1>6 DEF Publisher, PublisherFinishes

\* The reconnecting half of the yielding thread keeps the types.
LEMMA ReconnectType ==
  ASSUME TypeOK,
         \/ iotx_mc_keepalive_sub \/ KeepaliveNothing \/ KeepaliveDisconnected
         \/ iotx_mc_attempt_reconnect \/ TcpConnect \/ MQTTConnect
         \/ WaitConnackPacket \/ WaitConnackFailed \/ SetConnected
  PROVE  TypeOK'
<1> USE ClientAssumption DEF States
<1>1. CASE iotx_mc_keepalive_sub
  BY <1>1 DEF TypeOK, iotx_mc_keepalive_sub, pubVars, listVars, netVars, idVars, history
<1>2. CASE KeepaliveNothing
  BY <1>2 DEF TypeOK, KeepaliveNothing, pubVars, listVars, netVars, idVars, history
<1>3. CASE KeepaliveDisconnected
  <2>1. up' \in Seq(Packets) /\ down' \in Seq(Packets)
    BY <1>3, Channels DEF TypeOK, KeepaliveDisconnected, Close
  <2> QED BY <1>3, <2>1 DEF TypeOK, KeepaliveDisconnected, Close, pubVars, listVars, idVars, history
<1>4. CASE iotx_mc_attempt_reconnect
  <2>1. up' \in Seq(Packets) /\ down' \in Seq(Packets)
    BY <1>4, Channels DEF TypeOK, iotx_mc_attempt_reconnect, Close
  <2> QED BY <1>4, <2>1 DEF TypeOK, iotx_mc_attempt_reconnect, Close, pubVars, listVars, idVars, history
<1>5. CASE TcpConnect
  <2>1. up' \in Seq(Packets) /\ down' \in Seq(Packets)
    BY <1>5, Channels DEF TypeOK, TcpConnect, Open, Close
  <2> QED BY <1>5, <2>1 DEF TypeOK, TcpConnect, Open, Close, pubVars, listVars, idVars, history
<1>6. CASE MQTTConnect
  <2>1. up' \in Seq(Packets) /\ down' \in Seq(Packets)
    <3>1. Append(up, Control("CONNECT")) \in Seq(Packets)
      BY PacketTypes, Channels DEF TypeOK
    <3> QED BY <1>6, <3>1, Channels DEF TypeOK, MQTTConnect, Written, Close
  <2> QED BY <1>6, <2>1 DEF TypeOK, MQTTConnect, Written, Close, pubVars, listVars, idVars, history
<1>7. CASE WaitConnackPacket
  <2>1. up' \in Seq(Packets) /\ down' \in Seq(Packets)
    <3>1. down # <<>> => Tail(down) \in Seq(Packets)
      BY Channels DEF TypeOK
    <3> QED BY <1>7, <3>1, Channels DEF TypeOK, WaitConnackPacket, Close
  <2> QED BY <1>7, <2>1 DEF TypeOK, WaitConnackPacket, Close, pubVars, listVars, idVars, history
<1>8. CASE WaitConnackFailed
  <2>1. up' \in Seq(Packets) /\ down' \in Seq(Packets)
    BY <1>8, Channels DEF TypeOK, WaitConnackFailed, Open, Close
  <2> QED BY <1>8, <2>1 DEF TypeOK, WaitConnackFailed, Open, Close, pubVars, listVars, idVars, history
<1>9. CASE SetConnected
  BY <1>9 DEF TypeOK, SetConnected, pubVars, listVars, netVars, idVars, history
<1> QED BY <1>1, <1>2, <1>3, <1>4, <1>5, <1>6, <1>7, <1>8, <1>9

\* So does the half that reads packets and walks the wait list.
LEMMA CycleType ==
  ASSUME TypeOK,
         \/ CycleNotConnected \/ CycleConnected
         \/ ReadPacket \/ ReadTimeout \/ ReadError
         \/ iotx_mc_handle_recv_PUBACK \/ HandleOther
         \/ PubInfoBegin \/ PubInfoEnd \/ CycleAgain \/ YieldReturns
         \/ \E m \in Messages : RemoveInvalid(m) \/ SkipNode(m) \/ MQTTRePublish(m)
  PROVE  TypeOK'
<1> USE ClientAssumption DEF States
<1>1. CASE CycleNotConnected \/ CycleConnected
  <2>1. CASE CycleNotConnected
    BY <2>1 DEF TypeOK, CycleNotConnected, pubVars, listVars, netVars, idVars, history
  <2>2. CASE CycleConnected
    BY <2>2 DEF TypeOK, CycleConnected, pubVars, listVars, idVars, history
  <2> QED BY <1>1, <2>1, <2>2
<1>2. CASE ReadPacket
  <2>1. up' \in Seq(Packets) /\ down' \in Seq(Packets)
    BY <1>2, Channels DEF TypeOK, ReadPacket
  <2> QED BY <1>2, <2>1 DEF TypeOK, ReadPacket, pubVars, listVars, netVars, idVars, history
<1>3. CASE ReadTimeout \/ ReadError
  BY <1>3 DEF TypeOK, ReadTimeout, ReadError, pubVars, listVars, netVars, idVars, history
<1>4. CASE iotx_mc_handle_recv_PUBACK
  BY <1>4 DEF TypeOK, iotx_mc_handle_recv_PUBACK, Acked, Waiting, pubVars, listVars,
       netVars, idVars, history
<1>5. CASE HandleOther
  BY <1>5 DEF TypeOK, HandleOther, pubVars, listVars, netVars, idVars, history
<1>6. CASE PubInfoBegin \/ PubInfoEnd
  <2>1. CASE PubInfoBegin
    BY <2>1 DEF TypeOK, PubInfoBegin, Visited, Waiting, pubVars, netVars, idVars, history
  <2>2. CASE PubInfoEnd
    BY <2>2 DEF TypeOK, PubInfoEnd, pubVars, netVars, idVars, history
  <2> QED BY <1>6, <2>1, <2>2
<1>7. CASE CycleAgain \/ YieldReturns
  BY <1>7 DEF TypeOK, CycleAgain, YieldReturns, pubVars, listVars, netVars, idVars, history
<1>8. ASSUME NEW m \in Messages, RemoveInvalid(m) \/ SkipNode(m) PROVE TypeOK'
  <2>1. CASE RemoveInvalid(m)
    BY <2>1 DEF TypeOK, RemoveInvalid, pubVars, netVars, idVars, history
  <2>2. CASE SkipNode(m)
    BY <2>2 DEF TypeOK, SkipNode, pubVars, listVars, netVars, idVars, history
  <2> QED BY <1>8, <2>1, <2>2
<1>9. ASSUME NEW m \in Messages, MQTTRePublish(m) PROVE TypeOK'
  <2>1. up' \in Seq(Packets) /\ down' \in Seq(Packets)
    <3>1. Append(up, Publish(m)) \in Seq(Packets)
      BY PacketTypes, Channels DEF TypeOK
    <3> QED BY <1>9, <3>1 DEF TypeOK, MQTTRePublish, Written
  <2> QED BY <1>9, <2>1 DEF TypeOK, MQTTRePublish, Written, pubVars, idVars, history
<1> QED BY <1>1, <1>2, <1>3, <1>4, <1>5, <1>6, <1>7, <1>8, <1>9

\* The network, the broker and the passing of time keep the types.
LEMMA EnvironmentType ==
  ASSUME TypeOK, LinkDrop \/ Broker \/ BrokerOther \/ \E m \in Messages : Expire(m)
  PROVE  TypeOK'
<1> USE ClientAssumption
<1>1. CASE LinkDrop
  <2>1. up' \in Seq(Packets) /\ down' \in Seq(Packets)
    BY <1>1, Channels DEF TypeOK, LinkDrop
  <2> QED BY <1>1, <2>1 DEF TypeOK, LinkDrop, pubVars, listVars, idVars, yieldVars, history
<1>2. CASE BrokerConnect
  <2>1. up' \in Seq(Packets) /\ down' \in Seq(Packets)
    <3>1. /\ Append(down, Control("CONNACK")) \in Seq(Packets)
          /\ Append(down, Control("REFUSED")) \in Seq(Packets)
      BY PacketTypes, Channels DEF TypeOK
    <3>2. Tail(up) \in Seq(Packets)
      BY <1>2, Channels DEF TypeOK, BrokerConnect
    <3>3. /\ up' = Tail(up)
          /\ down' \in {Append(down, Control("CONNACK")), Append(down, Control("REFUSED"))}
      BY <1>2 DEF BrokerConnect
    <3> QED BY <3>1, <3>2, <3>3
  <2>2. session' \in {"none", "accepted"} /\ faults' \in 0 .. MaxFaults
    BY <1>2 DEF TypeOK, BrokerConnect
  <2>3. UNCHANGED <<client_state, pubVars, listVars, sock, idVars, yieldVars, history>>
    BY <1>2 DEF BrokerConnect
  <2> QED BY <2>1, <2>2, <2>3 DEF TypeOK, pubVars, listVars, idVars, yieldVars, history
<1>3. CASE BrokerPublish
  <2>1. Head(up) \in Packets /\ Tail(up) \in Seq(Packets)
    BY <1>3, Channels DEF TypeOK, BrokerPublish
  <2>2. Head(up).msg \in Messages /\ Head(up).id \in 0 .. PACKET_ID_MAX
    BY <1>3, <2>1 DEF Packets, BrokerPublish
  <2>3. up' \in Seq(Packets) /\ down' \in Seq(Packets)
    <3>1. Append(down, Puback(Head(up).id)) \in Seq(Packets)
      BY <2>2, PacketTypes, Channels DEF TypeOK
    <3> QED BY <1>3, <2>1, <3>1, Channels DEF TypeOK, BrokerPublish
  <2>4. received' \subseteq Messages
    BY <1>3, <2>2 DEF TypeOK, BrokerPublish
  <2>5. sock' \in {"closed", "up", "broken"}
    BY <1>3 DEF TypeOK, BrokerPublish
  <2>6. UNCHANGED <<client_state, pubVars, listVars, idVars, yieldVars, session, faults,
                   tried, accepted, confirmed>>
    BY <1>3 DEF BrokerPublish
  <2> QED BY <2>3, <2>4, <2>5, <2>6 DEF TypeOK, pubVars, listVars, idVars, yieldVars
<1>4. ASSUME NEW m \in Messages, Expire(m) PROVE TypeOK'
  BY <1>4 DEF TypeOK, Expire, pubVars, netVars, idVars, yieldVars, history
<1>5. CASE BrokerOther
  <2>1. down' \in Seq(Packets)
    BY <1>5, PacketTypes, Channels DEF BrokerOther
  <2> QED BY <1>5, <2>1 DEF TypeOK, BrokerOther, pubVars, listVars, idVars, yieldVars, history
<1> QED BY <1>1, <1>2, <1>3, <1>4, <1>5 DEF Broker

LEMMA TypeInit == Init => TypeOK
<1> SUFFICES ASSUME Init PROVE TypeOK
  OBVIOUS
<1>1. up \in Seq(Packets) /\ down \in Seq(Packets)
  BY Channels DEF Init
<1>2. reused \in BOOLEAN
  BY DEF Init
<1> QED BY ClientAssumption, <1>1, <1>2 DEF Init, TypeOK, States

LEMMA TypeNext == TypeOK /\ [Next]_vars => TypeOK'
<1> SUFFICES ASSUME TypeOK, [Next]_vars PROVE TypeOK'
  OBVIOUS
<1>1. CASE UNCHANGED vars
  BY <1>1 DEF TypeOK, vars, pubVars, listVars, netVars, idVars, yieldVars, history
<1>2. CASE \E p \in Publishers : Publisher(p)
  BY <1>2, PublisherType
<1>3. CASE Yielder
  BY <1>3, ReconnectType, CycleType DEF Yielder
<1>4. CASE LinkDrop \/ Broker \/ BrokerOther \/ \E m \in Messages : Expire(m)
  BY <1>4, EnvironmentType
<1> QED BY <1>1, <1>2, <1>3, <1>4 DEF Next

(***************************************************************************)
(* Every variable of the client keeps its type: in particular packet_id    *)
(* never leaves 0 .. PACKET_ID_MAX, and a thread between the state check   *)
(* and the end of MQTTPublish always holds a message.                      *)
(***************************************************************************)
THEOREM TypeCorrect == Safety => []TypeOK
PROOF BY TypeInit, TypeNext, PTL DEF Safety

-----------------------------------------------------------------------------
(* The connection: CONNECTED is only read on an accepted connection.       *)

\* What a channel holds after it is written or read.
LEMMA ChannelContents ==
  /\ InFlight(<<>>) = {}
  /\ \A s \in Seq(Packets) :
       /\ \A x \in Packets : InFlight(Append(s, x)) = InFlight(s) \cup {x}
       /\ s # <<>> => Head(s) \in InFlight(s) /\ InFlight(Tail(s)) \subseteq InFlight(s)
<1>1. InFlight(<<>>) = {}
  BY DEF InFlight
<1>2. ASSUME NEW s \in Seq(Packets), NEW x \in Packets
      PROVE  InFlight(Append(s, x)) = InFlight(s) \cup {x}
  <2>1. /\ Len(Append(s, x)) = Len(s) + 1 /\ Len(s) \in Nat
        /\ \A i \in 1 .. Len(s) : Append(s, x)[i] = s[i]
        /\ Append(s, x)[Len(s) + 1] = x
    OBVIOUS
  <2>2. InFlight(Append(s, x)) \subseteq InFlight(s) \cup {x}
    BY <2>1 DEF InFlight
  <2>3. InFlight(s) \subseteq InFlight(Append(s, x))
    <3> SUFFICES ASSUME NEW i \in 1 .. Len(s) PROVE s[i] \in InFlight(Append(s, x))
      BY DEF InFlight
    <3>1. i \in 1 .. Len(Append(s, x)) /\ Append(s, x)[i] = s[i]
      BY <2>1
    <3> QED BY <3>1 DEF InFlight
  <2>4. x \in InFlight(Append(s, x))
    <3>1. Len(s) + 1 \in 1 .. Len(Append(s, x)) /\ Append(s, x)[Len(s) + 1] = x
      BY <2>1
    <3> QED BY <3>1 DEF InFlight
  <2> QED BY <2>2, <2>3, <2>4
<1>3. ASSUME NEW s \in Seq(Packets), s # <<>>
      PROVE  Head(s) \in InFlight(s) /\ InFlight(Tail(s)) \subseteq InFlight(s)
  <2>1. /\ Len(s) \in Nat \ {0} /\ Head(s) = s[1] /\ Len(Tail(s)) = Len(s) - 1
        /\ \A i \in 1 .. Len(Tail(s)) : Tail(s)[i] = s[i + 1]
    BY <1>3
  <2>2. \A i \in 1 .. Len(Tail(s)) : i + 1 \in 1 .. Len(s)
    BY <2>1
  <2>3. 1 \in 1 .. Len(s)
    BY <2>1
  <2> QED BY <2>1, <2>2, <2>3 DEF InFlight
<1> QED BY <1>1, <1>2, <1>3

OnSession == sock = "broken" \/ (sock = "up" /\ session = "accepted")

ConnInv ==
  /\ ConnectedMeansSession
  /\ ypc \in {"tcp", "connect", "connack"} => client_state # "CONNECTED"
  /\ ypc \in {"setconnected", "reconnected"} => OnSession
  /\ \A x \in InFlight(down) : x.type = "CONNACK" => OnSession
  /\ up # <<>> => sock = "up"

LEMMA ConnInit == Init => ConnInv
PROOF BY ChannelContents DEF Init, ConnInv, ConnectedMeansSession, OnSession

LEMMA ConnNext == TypeOK /\ ConnInv /\ [Next]_vars => ConnInv'
<1> SUFFICES ASSUME TypeOK, ConnInv, [Next]_vars PROVE ConnInv'
  OBVIOUS
<1> USE DEF ConnInv, ConnectedMeansSession, OnSession
<1>1. CASE UNCHANGED vars
  BY <1>1 DEF vars, netVars, yieldVars
<1>2. ASSUME NEW p \in Publishers, Publisher(p) PROVE ConnInv'
  <2>1. CASE \E m \in Messages : PublishCheckState(p, m)
    BY <2>1 DEF PublishCheckState, netVars, yieldVars
  <2>2. CASE iotx_mc_get_next_packetid(p) \/ iotx_mc_push_pubInfo_to(p)
    BY <2>2 DEF iotx_mc_get_next_packetid, iotx_mc_push_pubInfo_to, netVars, yieldVars
  <2>3. CASE MQTTPublishSent(p)
    BY <2>3 DEF MQTTPublishSent, Written, yieldVars
  <2>4. CASE MQTTPublishFailed(p)
    BY <2>4 DEF MQTTPublishFailed, netVars, yieldVars
  <2>5. CASE PublishSetDisconnected(p)
    BY <2>5 DEF PublishSetDisconnected, netVars, yieldVars
  <2> QED BY <1>2, <2>1, <2>2, <2>3, <2>4, <2>5 DEF Publisher, PublisherFinishes
<1>3. CASE iotx_mc_keepalive_sub \/ KeepaliveNothing
  BY <1>3 DEF iotx_mc_keepalive_sub, KeepaliveNothing, netVars
<1>4. CASE KeepaliveDisconnected \/ iotx_mc_attempt_reconnect
  BY <1>4, ChannelContents DEF KeepaliveDisconnected, iotx_mc_attempt_reconnect, Close
<1>5. CASE TcpConnect
  BY <1>5, ChannelContents DEF TcpConnect, Open, Close
<1>6. CASE MQTTConnect
  BY <1>6, ChannelContents DEF MQTTConnect, Written, Close
<1>7. CASE WaitConnackPacket
  <2>1. Head(down) \in InFlight(down) /\ InFlight(Tail(down)) \subseteq InFlight(down)
    BY <1>7, ChannelContents DEF WaitConnackPacket, TypeOK
  <2>2. CASE Refused(Head(down))
    BY <1>7, <2>2, ChannelContents DEF WaitConnackPacket, Close
  <2>3. CASE ~Refused(Head(down))
    BY <1>7, <2>1, <2>3 DEF WaitConnackPacket, Refused
  <2> QED BY <2>2, <2>3
<1>8. CASE WaitConnackFailed
  BY <1>8, ChannelContents DEF WaitConnackFailed, Open, Close
<1>9. CASE SetConnected
  BY <1>9 DEF SetConnected, netVars
<1>10. CASE CycleNotConnected \/ CycleConnected
  BY <1>10 DEF CycleNotConnected, CycleConnected, netVars
<1>11. CASE ReadPacket
  <2>1. InFlight(Tail(down)) \subseteq InFlight(down)
    BY <1>11, ChannelContents DEF ReadPacket, TypeOK
  <2> QED BY <1>11, <2>1 DEF ReadPacket
<1>12. CASE ReadTimeout \/ ReadError
  BY <1>12 DEF ReadTimeout, ReadError, netVars
<1>13. CASE iotx_mc_handle_recv_PUBACK \/ HandleOther
  BY <1>13 DEF iotx_mc_handle_recv_PUBACK, HandleOther, netVars
<1>14. CASE PubInfoBegin \/ PubInfoEnd \/ CycleAgain \/ YieldReturns
  BY <1>14 DEF PubInfoBegin, PubInfoEnd, CycleAgain, YieldReturns, netVars
<1>15. ASSUME NEW m \in Messages, RemoveInvalid(m) \/ SkipNode(m) PROVE ConnInv'
  BY <1>15 DEF RemoveInvalid, SkipNode, netVars
<1>16. ASSUME NEW m \in Messages, MQTTRePublish(m) PROVE ConnInv'
  BY <1>16 DEF MQTTRePublish, Written
<1>17. CASE LinkDrop
  BY <1>17 DEF LinkDrop, yieldVars
<1>18. CASE BrokerConnect
  <2>1. /\ InFlight(Append(down, Control("CONNACK"))) = InFlight(down) \cup {Control("CONNACK")}
        /\ InFlight(Append(down, Control("REFUSED"))) = InFlight(down) \cup {Control("REFUSED")}
    BY PacketTypes, ChannelContents DEF TypeOK
  <2>2. Control("REFUSED").type # "CONNACK"
    BY DEF Control
  <2>3. sock = "up"
    BY <1>18 DEF BrokerConnect
  <2> QED BY <1>18, <2>1, <2>2, <2>3 DEF BrokerConnect, yieldVars
<1>19. CASE BrokerPublish
  <2>1. Head(up).id \in 0 .. PACKET_ID_MAX
    BY <1>19, Channels DEF BrokerPublish, TypeOK, Packets
  <2>2. /\ InFlight(Append(down, Puback(Head(up).id))) = InFlight(down) \cup {Puback(Head(up).id)}
        /\ Puback(Head(up).id).type # "CONNACK"
    BY <2>1, PacketTypes, ChannelContents DEF TypeOK, Puback
  <2> QED BY <1>19, <2>2 DEF BrokerPublish, yieldVars
<1>20. ASSUME NEW m \in Messages, Expire(m) PROVE ConnInv'
  BY <1>20 DEF Expire, netVars, yieldVars
<1>21. CASE BrokerOther
  <2>1. InFlight(<<Control("OTHER")>>) = {Control("OTHER")} /\ Control("OTHER").type # "CONNACK"
    BY DEF InFlight, Control
  <2> QED BY <1>21, <2>1 DEF BrokerOther, yieldVars
<1> QED BY <1>1, <1>2, <1>3, <1>4, <1>5, <1>6, <1>7, <1>8, <1>9, <1>10, <1>11, <1>12,
     <1>13, <1>14, <1>15, <1>16, <1>17, <1>18, <1>19, <1>20, <1>21
     DEF Next, Yielder, Broker

(***************************************************************************)
(* iotx_mc_keepalive and _mqtt_connect: whenever a thread reads CONNECTED, *)
(* the transport is one on which the broker accepted CONNECT, or has       *)
(* broken since.  The invariant adds that no CONNACK is in flight and no   *)
(* reconnection is past its CONNACK except on such a transport.            *)
(***************************************************************************)
THEOREM ConnectedOnSession == Safety => []ConnectedMeansSession
<1>1. Init => TypeOK /\ ConnInv
  BY TypeInit, ConnInit
<1>2. (TypeOK /\ ConnInv) /\ [Next]_vars => (TypeOK /\ ConnInv)'
  BY TypeNext, ConnNext
<1>3. TypeOK /\ ConnInv => ConnectedMeansSession
  BY DEF ConnInv
<1> QED BY <1>1, <1>2, <1>3, PTL DEF Safety

-----------------------------------------------------------------------------

\* Mutual exclusion of lock_list_pub, by where its holder is.
LockInv ==
  /\ \A p \in Publishers : pc[p] = "send" <=> lock_list_pub = p
  /\ ypc = "walk" <=> lock_list_pub = Yield

\* Each message is in one thread's hands, before it is accepted.
CallInv ==
  /\ \A p, q \in Publishers : p # q /\ cur[p] \in Messages => cur[p] # cur[q]
  /\ \A p \in Publishers : cur[p] \in Messages => cur[p] \in tried \ accepted
  /\ accepted \subseteq tried
  /\ received \subseteq accepted
  /\ \A p \in Publishers : pc[p] = "getid" => cur[p] \notin Qos0 /\ msg_id[cur[p]] = 0
  /\ \A p \in Publishers :
       pc[p] \in {"push", "send"} /\ cur[p] \notin Qos0 => msg_id[cur[p]] # 0
  /\ \A m \in Messages \ tried : msg_id[m] = 0

\* A node belongs to an accepted message, or to the one being written.
NodeInv ==
  /\ NoOrphanNode
  /\ \A m \in Waiting : m \notin Qos0 /\ msg_id[m] # 0
  /\ \A p \in Publishers : pc[p] = "send" /\ cur[p] \notin Qos0 => node[cur[p]] = "NORMAL"

\* A message that has a node, is being published, or is on its way.
Live(m) ==
  \/ m \in Waiting
  \/ \E p \in Publishers : cur[p] = m
  \/ \E x \in InFlight(up) : x.type = "PUBLISH" /\ x.msg = m

\* As long as none was given in use, identifiers tell live messages apart.
IdInv ==
  ~reused => \A m, n \in Messages :
               Live(m) /\ Live(n) /\ m # n /\ msg_id[m] # 0 => msg_id[m] # msg_id[n]

\* An acknowledgement on its way is that of a message the broker has, and of
\* no other that is live.
GoodAck(i) ==
  i # 0 /\ (~reused => \A m \in Messages : Live(m) /\ msg_id[m] = i => m \in received)

PacketInv ==
  /\ \A x \in InFlight(up) : x.type = "PUBLISH" =>
       /\ x.id = msg_id[x.msg] /\ x.msg \in accepted
       /\ x.msg \notin Qos0 => x.id # 0
  /\ \A x \in InFlight(down) : x.type = "PUBACK" => GoodAck(x.id)
  /\ ypc = "handle" /\ ypkt.type = "PUBACK" => GoodAck(ypkt.id)

\* What the messages' fate rests on.
FateInv ==
  /\ NoLoss
  /\ ConfirmedOnlyReceived
  /\ ~reused => \A m \in Messages : node[m] = "INVALID" => m \in received

DeliveryInv ==
  /\ LockInv /\ CallInv /\ NodeInv /\ IdInv /\ PacketInv /\ FateInv

LEMMA DeliveryInit == Init => DeliveryInv
PROOF BY ClientAssumption, ChannelContents DEF Init, DeliveryInv, LockInv, CallInv, NodeInv,
     NoOrphanNode, Waiting, Live, IdInv, PacketInv, FateInv, NoLoss, ConfirmedOnlyReceived

\* Identifiers in use stay apart, and acknowledgements good, as long as no
\* message that has an identifier comes to life.
LEMMA StillApart ==
  ASSUME DeliveryInv, UNCHANGED <<msg_id, reused>>, received \subseteq received',
         \A m \in Messages : Live(m)' /\ msg_id[m] # 0 => Live(m)
  PROVE  IdInv' /\ \A i : GoodAck(i) => GoodAck(i)'
<1>1. IdInv'
  BY DEF DeliveryInv, IdInv
<1>2. \A i : GoodAck(i) => GoodAck(i)'
  BY DEF GoodAck
<1> QED BY <1>1, <1>2

\* A step that touches neither threads, list, identifiers nor fates, and puts
\* no message or acknowledgement in flight.
LEMMA QuietStep ==
  ASSUME TypeOK, DeliveryInv,
         UNCHANGED <<pubVars, node, lock_list_pub, idVars, history>>,
         \A x \in InFlight(up') : x.type = "PUBLISH" => x \in InFlight(up),
         \A x \in InFlight(down') : x.type = "PUBACK" => x \in InFlight(down),
         ypc' = "walk" <=> ypc = "walk",
         ypc' = "handle" /\ ypkt'.type = "PUBACK" => GoodAck(ypkt'.id)
  PROVE  DeliveryInv'
<1> USE DEF pubVars, idVars, history
<1>1. LockInv'
  BY DEF DeliveryInv, LockInv
<1>2. CallInv'
  BY DEF DeliveryInv, CallInv
<1>3. NodeInv'
  BY DEF DeliveryInv, NodeInv, NoOrphanNode, Waiting
<1>4. \A m \in Messages : Live(m)' => Live(m)
  BY DEF Live, Waiting
<1>5. IdInv' /\ \A i : GoodAck(i) => GoodAck(i)'
  BY <1>4, StillApart
<1>7. PacketInv'
  BY <1>5 DEF DeliveryInv, PacketInv
<1>6. FateInv'
  BY DEF DeliveryInv, FateInv, NoLoss, ConfirmedOnlyReceived
<1> QED BY <1>1, <1>2, <1>3, <1>5, <1>6, <1>7 DEF DeliveryInv

LEMMA QuietYielder ==
  ASSUME TypeOK, DeliveryInv,
         \/ iotx_mc_keepalive_sub \/ KeepaliveNothing \/ KeepaliveDisconnected
         \/ iotx_mc_attempt_reconnect \/ TcpConnect \/ MQTTConnect
         \/ WaitConnackPacket \/ WaitConnackFailed \/ SetConnected
         \/ CycleNotConnected \/ CycleConnected
         \/ ReadPacket \/ ReadTimeout \/ ReadError
         \/ HandleOther \/ CycleAgain \/ YieldReturns
  PROVE  DeliveryInv'
<1> USE DEF listVars, netVars
<1>1. CASE iotx_mc_keepalive_sub \/ KeepaliveNothing
  BY <1>1, QuietStep DEF iotx_mc_keepalive_sub, KeepaliveNothing
<1>2. CASE KeepaliveDisconnected \/ iotx_mc_attempt_reconnect
  BY <1>2, QuietStep, ChannelContents DEF KeepaliveDisconnected, iotx_mc_attempt_reconnect, Close
<1>3. CASE TcpConnect
  BY <1>3, QuietStep, ChannelContents DEF TcpConnect, Open, Close
<1>4. CASE MQTTConnect
  <2>1. /\ InFlight(Append(up, Control("CONNECT"))) = InFlight(up) \cup {Control("CONNECT")}
        /\ Control("CONNECT").type # "PUBLISH"
    BY PacketTypes, ChannelContents DEF TypeOK, Control
  <2>2. /\ UNCHANGED <<pubVars, node, lock_list_pub, idVars, history, ypkt>>
        /\ ypc \notin {"walk", "handle"} /\ ypc' \notin {"walk", "handle"}
    BY <1>4 DEF MQTTConnect
  <2>3. \/ up' = Append(up, Control("CONNECT")) /\ down' = down
        \/ up' = up /\ down' = down
        \/ up' = <<>> /\ down' = <<>>
    BY <1>4 DEF MQTTConnect, Written, Close
  <2>4. /\ \A x \in InFlight(up') : x.type = "PUBLISH" => x \in InFlight(up)
        /\ \A x \in InFlight(down') : x.type = "PUBACK" => x \in InFlight(down)
    <3>1. CASE up' = Append(up, Control("CONNECT")) /\ down' = down
      BY <2>1, <3>1
    <3>2. CASE up' = up /\ down' = down
      BY <3>2
    <3>3. CASE up' = <<>> /\ down' = <<>>
      BY <3>3, ChannelContents
    <3> QED BY <2>3, <3>1, <3>2, <3>3, Zenon
  <2> QED BY <2>2, <2>4, QuietStep
<1>5. CASE WaitConnackPacket
  <2>1. InFlight(Tail(down)) \subseteq InFlight(down)
    BY <1>5, ChannelContents DEF WaitConnackPacket, TypeOK
  <2> QED BY <1>5, <2>1, QuietStep, ChannelContents DEF WaitConnackPacket, Close
<1>6. CASE WaitConnackFailed
  BY <1>6, QuietStep, ChannelContents DEF WaitConnackFailed, Open, Close
<1>7. CASE SetConnected \/ CycleNotConnected \/ CycleConnected
  BY <1>7, QuietStep DEF SetConnected, CycleNotConnected, CycleConnected
<1>8. CASE ReadPacket
  <2>1. Head(down) \in InFlight(down) /\ InFlight(Tail(down)) \subseteq InFlight(down)
    BY <1>8, ChannelContents DEF ReadPacket, TypeOK
  <2>2. Head(down).type = "PUBACK" => GoodAck(Head(down).id)
    BY <2>1 DEF DeliveryInv, PacketInv
  <2> QED BY <1>8, <2>1, <2>2, QuietStep DEF ReadPacket
<1>9. CASE ReadTimeout \/ ReadError \/ HandleOther \/ CycleAgain \/ YieldReturns
  BY <1>9, QuietStep DEF ReadTimeout, ReadError, HandleOther, CycleAgain, YieldReturns
<1> QED BY <1>1, <1>2, <1>3, <1>4, <1>5, <1>6, <1>7, <1>8, <1>9

LEMMA QuietEnvironment ==
  ASSUME TypeOK, DeliveryInv,
         LinkDrop \/ BrokerConnect \/ BrokerOther \/ \E m \in Messages : Expire(m) \/ SkipNode(m)
  PROVE  DeliveryInv'
<1>1. CASE LinkDrop
  BY <1>1, QuietStep, ChannelContents DEF LinkDrop, listVars, yieldVars, DeliveryInv, PacketInv
<1>2. CASE BrokerConnect
  <2>1. /\ InFlight(Append(down, Control("CONNACK"))) = InFlight(down) \cup {Control("CONNACK")}
        /\ InFlight(Append(down, Control("REFUSED"))) = InFlight(down) \cup {Control("REFUSED")}
        /\ Control("CONNACK").type # "PUBACK" /\ Control("REFUSED").type # "PUBACK"
    BY PacketTypes, ChannelContents DEF TypeOK, Control
  <2>2. InFlight(Tail(up)) \subseteq InFlight(up)
    BY <1>2, ChannelContents DEF BrokerConnect, TypeOK
  <2> QED BY <1>2, <2>1, <2>2, QuietStep DEF BrokerConnect, listVars, yieldVars, DeliveryInv, PacketInv
<1>3. ASSUME NEW m \in Messages, Expire(m) PROVE DeliveryInv'
  BY <1>3, QuietStep DEF Expire, netVars, yieldVars, DeliveryInv, PacketInv
<1>4. ASSUME NEW m \in Messages, SkipNode(m) PROVE DeliveryInv'
  BY <1>4, QuietStep DEF SkipNode, netVars, listVars, DeliveryInv, PacketInv
<1>5. CASE BrokerOther
  <2>1. InFlight(<<Control("OTHER")>>) = {Control("OTHER")} /\ Control("OTHER").type # "PUBACK"
    BY DEF InFlight, Control
  <2> QED BY <1>5, <2>1, QuietStep DEF BrokerOther, listVars, yieldVars, DeliveryInv, PacketInv
<1> QED BY <1>1, <1>2, <1>3, <1>4, <1>5

-----------------------------------------------------------------------------
(* The publishing thread.                                                   *)

LEMMA CheckStateStep ==
  ASSUME TypeOK, DeliveryInv, NEW p \in Publishers, NEW m \in Messages,
         PublishCheckState(p, m)
  PROVE  DeliveryInv'
<1> USE ClientAssumption DEF PublishCheckState, DeliveryInv, TypeOK
<1> USE DEF listVars, netVars, idVars, yieldVars
<1>1. LockInv'
  BY DEF LockInv
<1>2. CallInv'
  BY DEF CallInv
<1>3. NodeInv'
  BY DEF NodeInv, NoOrphanNode, Waiting, LockInv
<1>4. \A n \in Messages : Live(n)' /\ msg_id[n] # 0 => Live(n)
  BY DEF CallInv, Live, Waiting
<1>5. IdInv' /\ \A i : GoodAck(i) => GoodAck(i)'
  BY <1>4, StillApart
<1>6. PacketInv'
  BY <1>5 DEF PacketInv
<1>7. FateInv'
  BY DEF FateInv, NoLoss, ConfirmedOnlyReceived
<1> QED BY <1>1, <1>2, <1>3, <1>5, <1>6, <1>7

LEMMA GetIdStep ==
  ASSUME TypeOK, DeliveryInv, NEW p \in Publishers, iotx_mc_get_next_packetid(p)
  PROVE  DeliveryInv'
<1> USE ClientAssumption DEF iotx_mc_get_next_packetid, DeliveryInv
<1> USE DEF listVars, netVars, yieldVars, history
<1>1. cur[p] \in Messages \ Qos0 /\ msg_id[cur[p]] = 0
  BY DEF TypeOK, CallInv
<1>2. packet_id' # 0
  BY DEF NextId, TypeOK
<1>3. \A m \in Messages : m # cur[p] => msg_id'[m] = msg_id[m]
  BY DEF TypeOK
<1>4. msg_id'[cur[p]] = packet_id'
  BY <1>1 DEF TypeOK
<1>5. LockInv'
  BY DEF LockInv, TypeOK
<1>6. CallInv'
  BY <1>1, <1>2, <1>3, <1>4 DEF CallInv, TypeOK
<1>7. NodeInv'
  BY <1>1, <1>2, <1>3, <1>4 DEF NodeInv, NoOrphanNode, Waiting, TypeOK
<1>8. ~reused' => ~reused /\ ~InUse(packet_id')
  OBVIOUS
<1>9. \A m \in Messages : Live(m)' => Live(m)
  BY DEF Live, Waiting
<1>10. \A x \in InFlight(up) : x.type = "PUBLISH" => x.id = msg_id[x.msg] /\ x.msg # cur[p]
  BY <1>1 DEF PacketInv
<1>11. \A m \in Messages : Live(m) /\ msg_id[m] = packet_id' => InUse(packet_id')
  BY <1>10 DEF Live, InUse
<1>12. IdInv'
  <2> SUFFICES ASSUME ~reused', NEW m \in Messages, NEW n \in Messages,
                      Live(m), Live(n), m # n, msg_id'[m] # 0
               PROVE  msg_id'[m] # msg_id'[n]
    BY <1>9 DEF IdInv
  <2>1. msg_id[m] # packet_id' /\ msg_id[n] # packet_id'
    BY <1>8, <1>11
  <2>2. msg_id[m] # 0 => msg_id[m] # msg_id[n]
    BY <1>8 DEF IdInv
  <2> QED BY <1>3, <1>4, <2>1, <2>2
<1>13. \A i : GoodAck(i) /\ (~reused' => i # packet_id') => GoodAck(i)'
  <2> SUFFICES ASSUME NEW i, GoodAck(i), ~reused', i # packet_id',
                      NEW m \in Messages, Live(m), msg_id'[m] = i
               PROVE  m \in received
    BY <1>9 DEF GoodAck
  <2>1. msg_id[m] = i
    BY <1>3, <1>4
  <2> QED BY <1>8, <2>1 DEF GoodAck
<1>14. PacketInv'
  <2>1. \A x \in InFlight(up) : x.type = "PUBLISH" => msg_id'[x.msg] = msg_id[x.msg]
    BY <1>3, <1>10 DEF PacketInv, TypeOK
  <2>2. up' = up /\ down' = down /\ ypc' = ypc /\ ypkt' = ypkt /\ accepted' = accepted
    OBVIOUS
  <2>3. /\ \A x \in InFlight(down) : ~reused' => x.id # packet_id'
        /\ ypc = "handle" => (~reused' => ypkt.id # packet_id')
    BY <1>8 DEF InUse
  <2> QED BY <1>13, <2>1, <2>2, <2>3 DEF PacketInv
<1>15. FateInv'
  BY <1>8 DEF FateInv, NoLoss, ConfirmedOnlyReceived
<1> QED BY <1>5, <1>6, <1>7, <1>12, <1>14, <1>15

LEMMA PushStep ==
  ASSUME TypeOK, DeliveryInv, NEW p \in Publishers, iotx_mc_push_pubInfo_to(p)
  PROVE  DeliveryInv'
<1> USE ClientAssumption DEF iotx_mc_push_pubInfo_to, DeliveryInv, TypeOK
<1> USE DEF netVars, idVars, yieldVars, history
<1>1. LockInv'
  BY DEF LockInv
<1>2. CallInv'
  <2>1. CASE pc' = [pc EXCEPT ![p] = "send"] /\ cur' = cur
    BY <2>1 DEF CallInv
  <2>2. CASE pc' = [pc EXCEPT ![p] = "idle"] /\ cur' = [cur EXCEPT ![p] = NoMsg]
    BY <2>2 DEF CallInv
  <2> QED BY <2>1, <2>2
<1>3. NodeInv'
  BY DEF NodeInv, NoOrphanNode, Waiting, LockInv, CallInv
<1>4. \A m \in Messages : Live(m)' => Live(m)
  BY DEF Live, Waiting
<1>5. IdInv' /\ \A i : GoodAck(i) => GoodAck(i)'
  BY <1>4, StillApart
<1>6. PacketInv'
  BY <1>5 DEF PacketInv
<1>7. FateInv'
  BY DEF FateInv, NoLoss, ConfirmedOnlyReceived, CallInv
<1> QED BY <1>1, <1>2, <1>3, <1>5, <1>6, <1>7

LEMMA SentStep ==
  ASSUME TypeOK, DeliveryInv, NEW p \in Publishers, MQTTPublishSent(p)
  PROVE  DeliveryInv'
<1> USE ClientAssumption DEF MQTTPublishSent, Written, DeliveryInv
<1> USE DEF idVars, yieldVars
<1>1. cur[p] \in Messages
  BY DEF TypeOK
<1>2. InFlight(Append(up, Publish(cur[p]))) = InFlight(up) \cup {Publish(cur[p])}
  BY <1>1, PacketTypes, ChannelContents DEF TypeOK
<1>3. LockInv'
  BY DEF LockInv, TypeOK
<1>4. CallInv'
  BY DEF CallInv, TypeOK
<1>5. NodeInv'
  BY DEF NodeInv, NoOrphanNode, Waiting, LockInv, CallInv, TypeOK
<1>6. \A m \in Messages : Live(m)' => Live(m)
  BY <1>1, <1>2 DEF Live, Waiting, Publish, TypeOK
<1>7. IdInv' /\ \A i : GoodAck(i) => GoodAck(i)'
  BY <1>6, StillApart
<1>8. PacketInv'
  BY <1>1, <1>2, <1>7 DEF PacketInv, Publish, CallInv, TypeOK
<1>9. FateInv'
  BY DEF FateInv, NoLoss, ConfirmedOnlyReceived, NodeInv
<1> QED BY <1>3, <1>4, <1>5, <1>7, <1>8, <1>9

LEMMA FailedStep ==
  ASSUME TypeOK, DeliveryInv, NEW p \in Publishers, MQTTPublishFailed(p)
  PROVE  DeliveryInv'
<1> USE ClientAssumption DEF MQTTPublishFailed, TakeBack, DeliveryInv, TypeOK
<1> USE DEF netVars, idVars, yieldVars, history
<1>1. LockInv'
  BY DEF LockInv
<1>2. CallInv'
  BY DEF CallInv
<1>3. NodeInv'
  BY DEF NodeInv, NoOrphanNode, Waiting, LockInv, CallInv
<1>4. \A m \in Messages : Live(m)' => Live(m)
  BY DEF Live, Waiting
<1>5. IdInv' /\ \A i : GoodAck(i) => GoodAck(i)'
  BY <1>4, StillApart
<1>6. PacketInv'
  BY <1>5 DEF PacketInv
<1>7. FateInv'
  BY DEF FateInv, NoLoss, ConfirmedOnlyReceived, CallInv
<1> QED BY <1>1, <1>2, <1>3, <1>5, <1>6, <1>7

LEMMA SetDisconnectedStep ==
  ASSUME TypeOK, DeliveryInv, NEW p \in Publishers, PublishSetDisconnected(p)
  PROVE  DeliveryInv'
<1> USE ClientAssumption DEF PublishSetDisconnected, DeliveryInv, TypeOK
<1> USE DEF listVars, netVars, idVars, yieldVars, history
<1>1. LockInv' /\ CallInv' /\ NodeInv'
  BY DEF LockInv, CallInv, NodeInv, NoOrphanNode, Waiting
<1>2. \A m \in Messages : Live(m)' => Live(m)
  BY DEF Live, Waiting
<1>3. IdInv' /\ \A i : GoodAck(i) => GoodAck(i)'
  BY <1>2, StillApart
<1>4. PacketInv' /\ FateInv'
  BY <1>3 DEF PacketInv, FateInv, NoLoss, ConfirmedOnlyReceived
<1> QED BY <1>1, <1>3, <1>4

-----------------------------------------------------------------------------
(* The acknowledgement, the walk of the wait list, and the broker.          *)

\* Until an identifier in use is given again, a good acknowledgement marks
\* received messages only.
LEMMA AckedReceived ==
  ASSUME NEW i, GoodAck(i), ~reused
  PROVE  Acked(i) \subseteq received
BY DEF Acked, Waiting, Live, GoodAck

LEMMA PubackStep ==
  ASSUME TypeOK, DeliveryInv, iotx_mc_handle_recv_PUBACK
  PROVE  DeliveryInv'
<1> USE DEF iotx_mc_handle_recv_PUBACK, DeliveryInv
<1> USE DEF pubVars, netVars, idVars
<1> DEFINE A == Acked(ypkt.id)
<1>1. GoodAck(ypkt.id)
  BY DEF PacketInv
<1>2. A \subseteq Waiting
  BY DEF Acked
<1>3. ~reused => A \subseteq received
  BY <1>1, AckedReceived
<1>4. \A m \in Messages : node'[m] = IF m \in A THEN "INVALID" ELSE node[m]
  OBVIOUS
<1>5. confirmed' = confirmed \cup A
  OBVIOUS
<1> HIDE DEF A
<1>6. LockInv' /\ CallInv'
  BY DEF LockInv, CallInv
<1>7. NodeInv'
  BY <1>2, <1>4, ClientAssumption DEF NodeInv, NoOrphanNode, Waiting, LockInv, TypeOK
<1>8. \A m \in Messages : Live(m)' => Live(m)
  BY <1>2, <1>4 DEF Live, Waiting
<1>9. IdInv' /\ \A i : GoodAck(i) => GoodAck(i)'
  BY <1>8, StillApart
<1>10. PacketInv'
  BY <1>9 DEF PacketInv
<1>11. FateInv'
  BY <1>3, <1>4, <1>5 DEF FateInv, NoLoss, ConfirmedOnlyReceived, TypeOK
<1> QED BY <1>6, <1>7, <1>9, <1>10, <1>11

LEMMA WalkStep ==
  ASSUME TypeOK, DeliveryInv,
         PubInfoBegin \/ PubInfoEnd \/ \E m \in Messages : RemoveInvalid(m)
  PROVE  DeliveryInv'
<1> USE ClientAssumption DEF DeliveryInv, TypeOK
<1> USE DEF pubVars, netVars, idVars, history
<1>1. CASE PubInfoBegin \/ PubInfoEnd
  <2> USE DEF PubInfoBegin, PubInfoEnd
  <2>1. LockInv' /\ CallInv'
    BY <1>1 DEF LockInv, CallInv
  <2>2. NodeInv'
    BY <1>1 DEF NodeInv, NoOrphanNode, Waiting, LockInv
  <2>3. \A m \in Messages : Live(m)' => Live(m)
    BY <1>1 DEF Live, Waiting
  <2>4. IdInv' /\ \A i : GoodAck(i) => GoodAck(i)'
    BY <1>1, <2>3, StillApart
  <2>5. PacketInv' /\ FateInv'
    BY <1>1, <2>4 DEF PacketInv, FateInv, NoLoss, ConfirmedOnlyReceived
  <2> QED BY <2>1, <2>2, <2>4, <2>5
<1>2. ASSUME NEW m \in Messages, RemoveInvalid(m) PROVE DeliveryInv'
  <2> USE <1>2 DEF RemoveInvalid
  <2>1. LockInv' /\ CallInv'
    BY DEF LockInv, CallInv
  <2>2. NodeInv'
    BY DEF NodeInv, NoOrphanNode, Waiting, LockInv
  <2>3. \A n \in Messages : Live(n)' => Live(n)
    BY DEF Live, Waiting
  <2>4. IdInv' /\ \A i : GoodAck(i) => GoodAck(i)'
    BY <2>3, StillApart
  <2>5. PacketInv'
    BY <2>4 DEF PacketInv
  <2>6. FateInv'
    BY DEF FateInv, NoLoss, ConfirmedOnlyReceived
  <2> QED BY <2>1, <2>2, <2>4, <2>5, <2>6
<1> QED BY <1>1, <1>2

LEMMA RePublishStep ==
  ASSUME TypeOK, DeliveryInv, NEW m \in Messages, MQTTRePublish(m)
  PROVE  DeliveryInv'
<1> USE DEF MQTTRePublish, Written, DeliveryInv
<1> USE DEF pubVars, idVars, history
<1>1. InFlight(Append(up, Publish(m))) = InFlight(up) \cup {Publish(m)}
  BY PacketTypes, ChannelContents DEF TypeOK
<1>2. m \in accepted /\ msg_id[m] # 0
  BY ClientAssumption DEF NodeInv, NoOrphanNode, Waiting, LockInv, TypeOK
<1>3. LockInv' /\ CallInv' /\ NodeInv'
  BY DEF LockInv, CallInv, NodeInv, NoOrphanNode, Waiting
<1>4. \A n \in Messages : Live(n)' => Live(n)
  <2>1. \A y \in InFlight(up') : y \in InFlight(up) \/ y.msg = m
    <3>1. up' = Append(up, Publish(m)) \/ up' = up
      OBVIOUS
    <3>2. Publish(m).msg = m
      BY DEF Publish
    <3> HIDE DEF MQTTRePublish, DeliveryInv
    <3> QED BY <1>1, <3>1, <3>2
  <2>2. m \in Waiting /\ Waiting' = Waiting /\ cur' = cur
    BY DEF Waiting
  <2> HIDE DEF MQTTRePublish, DeliveryInv
  <2> QED BY <2>1, <2>2 DEF Live
<1>5. IdInv' /\ \A i : GoodAck(i) => GoodAck(i)'
  BY <1>4, StillApart
<1>6. PacketInv'
  <2>1. ypc' # "handle" /\ down' = down
    BY DEF TypeOK
  <2>2. \A y \in InFlight(up') : y \in InFlight(up) \/ y = Publish(m)
    BY <1>1
  <2>3. Publish(m).msg = m /\ Publish(m).id = msg_id[m]
    BY DEF Publish
  <2> QED BY <1>2, <1>5, <2>1, <2>2, <2>3 DEF PacketInv
<1>7. FateInv'
  BY DEF FateInv, NoLoss, ConfirmedOnlyReceived
<1> QED BY <1>3, <1>5, <1>6, <1>7

LEMMA BrokerPublishStep ==
  ASSUME TypeOK, DeliveryInv, BrokerPublish
  PROVE  DeliveryInv'
<1> USE DEF BrokerPublish, DeliveryInv
<1> USE DEF pubVars, listVars, idVars, yieldVars
<1> PICK x : x = Head(up)
  OBVIOUS
<1>1. /\ x \in InFlight(up) /\ InFlight(Tail(up)) \subseteq InFlight(up)
      /\ x.msg \in Messages /\ x.id \in 0 .. PACKET_ID_MAX
  BY Channels, ChannelContents DEF TypeOK, Packets
<1>2. InFlight(Append(down, Puback(x.id))) = InFlight(down) \cup {Puback(x.id)}
  BY <1>1, PacketTypes, ChannelContents DEF TypeOK
<1>3. x.id = msg_id[x.msg] /\ x.msg \in accepted /\ (x.msg \notin Qos0 => x.id # 0)
  BY <1>1 DEF PacketInv
<1>4. received \subseteq received' /\ received' \subseteq received \cup {x.msg}
  OBVIOUS
<1>5. LockInv' /\ NodeInv'
  BY DEF LockInv, NodeInv, NoOrphanNode, Waiting
<1>6. CallInv'
  BY <1>3, <1>4 DEF CallInv
<1>7. \A y \in InFlight(up') : y \in InFlight(up)
  BY <1>1, ChannelContents
<1>12. \A m \in Messages : Live(m)' => Live(m)
  BY <1>7 DEF Live, Waiting
<1>8. IdInv' /\ \A i : GoodAck(i) => GoodAck(i)'
  BY <1>4, <1>12, StillApart
<1>9. \A y \in InFlight(down') : y.type = "PUBACK" => GoodAck(y.id)'
  <2>1. \A y \in InFlight(down) : y.type = "PUBACK" => GoodAck(y.id)'
    BY <1>8 DEF PacketInv
  <2>2. \/ down' = down
        \/ down' = Append(down, Puback(x.id)) /\ x.msg \notin Qos0 /\ x.msg \in received'
    OBVIOUS
  <2>3. ASSUME x.msg \notin Qos0, x.msg \in received' PROVE GoodAck(x.id)'
    <3>1. x.id # 0 /\ Live(x.msg)
      BY <1>1, <1>3, <2>3 DEF Live
    <3>2. ASSUME ~reused, NEW m \in Messages, Live(m), msg_id[m] = x.id PROVE m = x.msg
      BY <1>1, <1>3, <3>1, <3>2 DEF IdInv
    <3> QED BY <1>12, <2>3, <3>1, <3>2 DEF GoodAck
  <2>4. Puback(x.id).id = x.id
    BY DEF Puback
  <2> HIDE DEF BrokerPublish, DeliveryInv
  <2> QED BY <1>2, <2>1, <2>2, <2>3, <2>4
<1>10. PacketInv'
  BY <1>7, <1>8, <1>9 DEF PacketInv
<1>11. FateInv'
  BY <1>4 DEF FateInv, NoLoss, ConfirmedOnlyReceived
<1> QED BY <1>5, <1>6, <1>8, <1>10, <1>11

LEMMA DeliveryNext == TypeOK /\ DeliveryInv /\ [Next]_vars => DeliveryInv'
<1> SUFFICES ASSUME TypeOK, DeliveryInv, [Next]_vars PROVE DeliveryInv'
  OBVIOUS
<1>1. CASE UNCHANGED vars
  BY <1>1, QuietStep DEF vars, listVars, netVars, yieldVars, DeliveryInv, PacketInv
<1>2. ASSUME NEW p \in Publishers, Publisher(p) PROVE DeliveryInv'
  BY <1>2, CheckStateStep, GetIdStep, PushStep, SentStep, FailedStep, SetDisconnectedStep
     DEF Publisher, PublisherFinishes
<1>3. CASE Yielder
  BY <1>3, QuietYielder, QuietEnvironment, PubackStep, WalkStep, RePublishStep DEF Yielder
<1>4. CASE Broker \/ BrokerOther \/ LinkDrop \/ \E m \in Messages : Expire(m)
  BY <1>4, QuietEnvironment, BrokerPublishStep DEF Broker
<1> QED BY <1>1, <1>2, <1>3, <1>4 DEF Next

LEMMA DeliveryInvariant == Safety => [](TypeOK /\ DeliveryInv)
<1>1. Init => TypeOK /\ DeliveryInv
  BY TypeInit, DeliveryInit
<1>2. (TypeOK /\ DeliveryInv) /\ [Next]_vars => (TypeOK /\ DeliveryInv)'
  BY TypeNext, DeliveryNext
<1> QED BY <1>1, <1>2, PTL DEF Safety

(***************************************************************************)
(* MQTTPublish and MQTTPubInfoProc: until an identifier in use is given    *)
(* again, a QoS 1 message whose publish succeeded is at the broker or      *)
(* waits in the list.                                                      *)
(***************************************************************************)
THEOREM NothingLost == Safety => []NoLoss
<1>1. DeliveryInv => NoLoss
  BY DEF DeliveryInv, FateInv
<1> QED BY <1>1, DeliveryInvariant, PTL

(***************************************************************************)
(* iotx_mc_mask_pubInfo_from: until an identifier in use is given again,   *)
(* the success event is given only for a message that the broker has.      *)
(***************************************************************************)
THEOREM NothingFalselyConfirmed == Safety => []ConfirmedOnlyReceived
<1>1. DeliveryInv => ConfirmedOnlyReceived
  BY DEF DeliveryInv, FateInv
<1> QED BY <1>1, DeliveryInvariant, PTL

(***************************************************************************)
(* MQTTPublish: a publish that reported failure leaves no node behind.     *)
(***************************************************************************)
THEOREM NothingOrphaned == Safety => []NoOrphanNode
<1>1. DeliveryInv => NoOrphanNode
  BY DEF DeliveryInv, NodeInv
<1> QED BY <1>1, DeliveryInvariant, PTL

-----------------------------------------------------------------------------
(* The abstract promise: each step is one of its steps, or a stutter.       *)

LEMMA AbstractAccept ==
  ASSUME TypeOK, DeliveryInv, NEW p \in Publishers, MQTTPublishSent(p)
  PROVE  [Promise!Next]_(Promise!vars)
<1> DEFINE m == cur[p]
<1>1. m \in Messages \ accepted
  BY DEF MQTTPublishSent, DeliveryInv, CallInv, TypeOK
<1>2. accepted' = accepted \cup {m} /\ received' = received /\ confirmed' = confirmed
  BY DEF MQTTPublishSent
<1> HIDE DEF m
<1>3. CASE m \in Qos0
  BY <1>1, <1>2, <1>3 DEF Promise!vars
<1>4. CASE m \notin Qos0
  BY <1>1, <1>2, <1>4 DEF Promise!Next, Promise!Accept
<1> QED BY <1>3, <1>4

LEMMA AbstractReceive ==
  ASSUME TypeOK, DeliveryInv, BrokerPublish
  PROVE  [Promise!Next]_(Promise!vars)
<1> PICK x : x = Head(up)
  OBVIOUS
<1>1. x \in InFlight(up) /\ x.type = "PUBLISH" /\ x.msg \in Messages
  BY Channels, ChannelContents DEF BrokerPublish, TypeOK, Packets
<1>2. x.msg \in accepted
  BY <1>1 DEF DeliveryInv, PacketInv
<1>3. /\ accepted' = accepted /\ confirmed' = confirmed
      /\ received' = received \/ received' = received \cup {x.msg}
  BY DEF BrokerPublish
<1>4. CASE received' = received \/ x.msg \in Qos0
  BY <1>3, <1>4 DEF Promise!vars
<1>5. CASE received' = received \cup {x.msg} /\ x.msg \notin Qos0
  BY <1>1, <1>2, <1>3, <1>5 DEF Promise!Next, Promise!Receive
<1> QED BY <1>3, <1>4, <1>5

\* Distinct identifiers: an acknowledgement confirms at most one message.
LEMMA AbstractConfirm ==
  ASSUME TypeOK, DeliveryInv, ~reused, iotx_mc_handle_recv_PUBACK
  PROVE  [Promise!Next]_(Promise!vars)
<1> DEFINE A == Acked(ypkt.id)
<1>1. GoodAck(ypkt.id)
  BY DEF iotx_mc_handle_recv_PUBACK, DeliveryInv, PacketInv
<1>2. A \subseteq received \cap (Messages \ Qos0)
  BY <1>1, AckedReceived DEF Acked, Waiting, DeliveryInv, NodeInv
<1>3. \A m, n \in A : m = n
  BY <1>1 DEF Acked, Waiting, Live, GoodAck, DeliveryInv, IdInv
<1>4. confirmed' = confirmed \cup A /\ accepted' = accepted /\ received' = received
  BY DEF iotx_mc_handle_recv_PUBACK
<1> HIDE DEF A
<1>5. CASE A = {}
  BY <1>4, <1>5 DEF Promise!vars
<1>6. CASE A # {}
  <2>1. PICK m \in A : A = {m}
    BY <1>3, <1>6
  <2> QED BY <1>2, <1>4, <2>1 DEF Promise!Next, Promise!Confirm
<1> QED BY <1>5, <1>6

LEMMA AbstractStutter ==
  ASSUME UNCHANGED <<accepted, received, confirmed>>
  PROVE  [Promise!Next]_(Promise!vars)
BY DEF Promise!vars

LEMMA AbstractNext ==
  ASSUME TypeOK, DeliveryInv, ~reused, [Next]_vars
  PROVE  [Promise!Next]_(Promise!vars)
<1> USE DEF history
<1>1. CASE UNCHANGED vars
  BY <1>1, AbstractStutter DEF vars
<1>2. ASSUME NEW p \in Publishers, Publisher(p) PROVE [Promise!Next]_(Promise!vars)
  <2>1. ASSUME NEW m \in Messages, PublishCheckState(p, m)
        PROVE  [Promise!Next]_(Promise!vars)
    BY <2>1, AbstractStutter DEF PublishCheckState
  <2>2. CASE \/ iotx_mc_get_next_packetid(p) \/ iotx_mc_push_pubInfo_to(p)
             \/ MQTTPublishFailed(p) \/ PublishSetDisconnected(p)
    BY <2>2, AbstractStutter DEF iotx_mc_get_next_packetid, iotx_mc_push_pubInfo_to,
       MQTTPublishFailed, PublishSetDisconnected
  <2> QED BY <1>2, <2>1, <2>2, AbstractAccept DEF Publisher, PublisherFinishes
<1>3. CASE Yielder
  <2>1. CASE \/ iotx_mc_keepalive_sub \/ KeepaliveNothing \/ KeepaliveDisconnected
             \/ iotx_mc_attempt_reconnect \/ TcpConnect \/ MQTTConnect
             \/ WaitConnackPacket \/ WaitConnackFailed \/ SetConnected
    BY <2>1, AbstractStutter DEF iotx_mc_keepalive_sub, KeepaliveNothing,
       KeepaliveDisconnected, iotx_mc_attempt_reconnect, TcpConnect, MQTTConnect,
       WaitConnackPacket, WaitConnackFailed, SetConnected
  <2>2. CASE \/ CycleNotConnected \/ CycleConnected \/ ReadPacket \/ ReadTimeout
             \/ ReadError \/ HandleOther \/ PubInfoBegin \/ PubInfoEnd
             \/ CycleAgain \/ YieldReturns
    BY <2>2, AbstractStutter DEF CycleNotConnected, CycleConnected, ReadPacket,
       ReadTimeout, ReadError, HandleOther, PubInfoBegin, PubInfoEnd, CycleAgain,
       YieldReturns
  <2>3. ASSUME NEW m \in Messages, RemoveInvalid(m) \/ SkipNode(m) \/ MQTTRePublish(m)
        PROVE  [Promise!Next]_(Promise!vars)
    BY <2>3, AbstractStutter DEF RemoveInvalid, SkipNode, MQTTRePublish
  <2> QED BY <1>3, <2>1, <2>2, <2>3, AbstractConfirm DEF Yielder
<1>4. CASE Broker \/ BrokerOther \/ LinkDrop \/ \E m \in Messages : Expire(m)
  <2>1. CASE BrokerConnect \/ BrokerOther \/ LinkDrop \/ \E m \in Messages : Expire(m)
    BY <2>1, AbstractStutter DEF BrokerConnect, BrokerOther, LinkDrop, Expire
  <2> QED BY <1>4, <2>1, AbstractReceive DEF Broker
<1> QED BY <1>1, <1>2, <1>3, <1>4 DEF Next

(***************************************************************************)
(* The publish path implements AtLeastOnce: as long as no identifier in    *)
(* use is given again, a publish that succeeds, the broker's receipt of a  *)
(* PUBLISH and the marking of a node by its PUBACK are the abstract steps, *)
(* each of one message, and nothing else changes what the application was  *)
(* told.                                                                   *)
(***************************************************************************)
THEOREM ClientKeepsPromise == Safety /\ []~reused => Promise!Safety
<1>1. Init => Promise!Init
  BY DEF Init, Promise!Init
<1>2. (TypeOK /\ DeliveryInv) /\ ~reused /\ [Next]_vars => [Promise!Next]_(Promise!vars)
  BY AbstractNext
<1> QED BY <1>1, <1>2, DeliveryInvariant, PTL DEF Safety, Promise!Safety
=============================================================================

------------------------------- MODULE MqttWire -------------------------------
(***************************************************************************)
(* The byte streams of one MQTT connection after another: what the calls   *)
(* of a thread, the pings and the acknowledgements of the yielding thread  *)
(* write, and what iotx_mc_read_packet makes of the bytes that arrived     *)
(* before its time ran out.  Which packets follow from which is the        *)
(* business of MqttClient; here a packet is its bytes.                     *)
(*                                                                         *)
(* sent, said, handled, asked, last and cut follow one connection.  sent   *)
(* and asked are logs: each packet with where its bytes begin in said and  *)
(* in out.  Once a read has ended in the middle of a packet (torn), or a   *)
(* write (cut), the other end of that stream can make nothing of it, and   *)
(* its history is followed no further.                                     *)
(***************************************************************************)
EXTENDS MqttPacket, MqttTopic

CONSTANTS SendMax, ReadMax,   \* buf_size_send_max, buf_size_read_max
          WAIT_CONNACK_MAX,
          Login,              \* what CONNECT tells
          Environments        \* by name, [calls, packets, made, sent, connects, whole]:
                              \* what may be said, bounds, if all of it gets through

ASSUME SizesAssumption == SendMax \in Nat /\ ReadMax \in Nat /\ WAIT_CONNACK_MAX \in Nat

VARIABLES
  env,            \* which of the environments
  state,          \* c->client_state
  yielder,            \* the yielding thread: "yield", "connect" or "connack"
  waits,          \* wait_connack
  sock,           \* "none", "up", or "down" once the other end closed it
  wire,           \* bytes on their way to the client
  said, out,      \* all bytes the broker wrote, and the client
  filters,        \* list_sub_handle
  call, at,       \* the call in progress, and how far it is
  sent, handled, torn, asked, cut, last,
  made, connects  \* bounded counters: calls and pings, connections

wireVars == <<env, state, yielder, waits, sock, wire, said, out, filters, call, at,
              sent, handled, torn, asked, cut, last, made, connects>>

stream == <<wire, said, out, sent, handled, torn, asked, cut>>
caller == <<call, at, made>>

-----------------------------------------------------------------------------
(* MQTT 3.1.1, the other end: the bytes of a packet.                       *)

\* Seven bits a byte, the lowest first; the top bit says that another follows.
Base128(n) ==
  CASE n < 128 -> <<n>>
    [] 128 <= n /\ n < 128 * 128 -> <<128 + (n % 128), n \div 128>>
    [] 128 * 128 <= n /\ n < 128 * 128 * 128 ->
         <<128 + (n % 128), 128 + ((n \div 128) % 128), n \div (128 * 128)>>
    [] OTHER -> <<128 + (n % 128), 128 + ((n \div 128) % 128),
                  128 + ((n \div (128 * 128)) % 128), n \div (128 * 128 * 128)>>

TwoBytes(n) == <<n \div 256, n % 256>>
Text(s) == TwoBytes(Len(s)) \o s

MessageBytes(p) ==
  Text(p.topic) \o (IF p.qos = 0 THEN <<>> ELSE TwoBytes(p.id)) \o p.payload
SubscribeBytes(p) == TwoBytes(p.id) \o Text(p.topic) \o <<p.qos>>
UnsubscribeBytes(p) == TwoBytes(p.id) \o Text(p.topic)
GrantBytes(p) == TwoBytes(p.id) \o p.granted
ConnectBytes(p) ==
  Text(<<77, 81, 84, 84>>) \o <<4, IF p.clean THEN 194 ELSE 192>> \o TwoBytes(p.keepalive)
    \o Text(p.client) \o Text(p.user) \o Text(p.password)

StandardBody(p) ==
  CASE p.type = PUBLISH -> MessageBytes(p)
    [] p.type = SUBSCRIBE -> SubscribeBytes(p)
    [] p.type = UNSUBSCRIBE -> UnsubscribeBytes(p)
    [] p.type = SUBACK -> GrantBytes(p)
    [] p.type \in {PUBACK, UNSUBACK} -> TwoBytes(p.id)
    [] p.type = CONNACK -> <<0, p.code>>
    [] p.type = CONNECT -> ConnectBytes(p)
    [] OTHER -> <<>>

StandardFlags(p) ==
  CASE p.type = PUBLISH -> 2 * p.qos
    [] p.type \in {SUBSCRIBE, UNSUBSCRIBE} -> 2
    [] OTHER -> 0

OnWire(p) ==
  LET body == StandardBody(p)
  IN  <<16 * p.type + StandardFlags(p)>> \o Base128(Len(body)) \o body

Byte    == 0 .. 255
Word    == {n \in Nat : n < 256 * 256}
String == {s \in Seq(Byte) : Len(s) \in Word}

Messages == [type : {PUBLISH}, qos : 0 .. 2, topic : String, id : Word, payload : Seq(Byte)]

\* What a client may say to a broker.
Requests ==
  {p \in Messages
         \cup [type : {SUBSCRIBE}, id : Word, topic : String, qos : 0 .. 2]
         \cup [type : {UNSUBSCRIBE}, id : Word, topic : String]
         \cup [type : {CONNECT}, keepalive : Word, clean : BOOLEAN, client : String,
               user : String, password : String]
         \cup [type : {PUBACK}, id : Word]
         \cup [type : {PINGREQ}] : Len(StandardBody(p)) <= MaxRemaining}

\* And a broker to a client that subscribes to one filter at a time.
Replies ==
  {p \in {m \in Messages : m.qos = 0 => m.id = 0}
         \cup [type : {SUBACK}, id : Word, granted : [{1} -> Byte]]
         \cup [type : {PUBACK, UNSUBACK}, id : Word]
         \cup [type : {CONNACK}, code : Byte]
         \cup [type : {PINGRESP}] : Len(StandardBody(p)) <= MaxRemaining}

\* Packets and lengths are those of the standard.
ASSUME StandardAssumption ==
  /\ Login \in Requests /\ Login.type = CONNECT
  /\ \A e \in DOMAIN Environments :
       /\ Environments[e].calls \subseteq
            {p \in Requests : p.type \in {PUBLISH, SUBSCRIBE, UNSUBSCRIBE}}
       /\ Environments[e].packets \subseteq Replies
       /\ Environments[e].whole \in BOOLEAN

Entry(p, b) == [packet |-> p, from |-> Len(b)]
End(e) == e.from + Len(OnWire(e.packet))

\* The bytes b read, by the standard, as the packets of log, one after another.
ReadsAs(b, log) ==
  /\ \A i \in DOMAIN log :
       /\ log[i].from = IF i = 1 THEN 0 ELSE End(log[i - 1])
       /\ End(log[i]) <= Len(b)
       /\ SubSeq(b, log[i].from + 1, End(log[i])) = OnWire(log[i].packet)
  /\ Len(b) = IF log = <<>> THEN 0 ELSE End(log[Len(log)])

Env == Environments[env]

(* How many of n bytes get through in the time there is: any number, as    *)
(* TLS returns what one record holds and TCP what came in time.            *)
Amounts(n) ==
  IF Env.whole THEN {n} ELSE {0, 1, 2, 3, n \div 2, n - 1, n} \cap 0 .. n

HAL_TCP_Read(n)  == Amounts(n)
HAL_TCP_Write(n) == Amounts(n)

-----------------------------------------------------------------------------
(* Writing, under lock_write_buf.                                          *)

\* _alloc_send_buffer
SendBuffer(len) == IF 64 + len > SendMax THEN SendMax ELSE 64 + len

Serialized(p) ==
  CASE p.type = PUBLISH ->
         MQTTSerialize_publish(SendBuffer(Len(p.topic) + Len(p.payload)), p)
    [] p.type = SUBSCRIBE -> MQTTSerialize_subscribe(SendBuffer(Len(p.topic)), p)
    [] p.type = UNSUBSCRIBE -> MQTTSerialize_unsubscribe(SendBuffer(Len(p.topic)), p)
    [] p.type = PUBACK -> MQTTSerialize_ack(SendBuffer(0), p.id)
    [] p.type = CONNECT ->
         MQTTSerialize_connect(SendBuffer(PacketLen(Len(ConnectBody(p)))), p)
    [] OTHER -> MQTTSerialize_zero(SendBuffer(0), p.type)

\* iotx_mc_send_packet writes k bytes b of packet p; who is told of the rest.
Writes(p, b, k, who) ==
  /\ sock = "none" => k = 0
  /\ IF cut # "none" \/ k = 0 THEN UNCHANGED <<out, asked, cut>>
     ELSE /\ out' = out \o SubSeq(b, 1, k)
          /\ asked' = IF k = Len(b) THEN Append(asked, Entry(p, out)) ELSE asked
          /\ cut' = IF k < Len(b) THEN who ELSE "none"

\* iotx_mc_topic_type_t
TopicType(p) == IF p.type = PUBLISH THEN "NAME" ELSE "FILTER"

\* wrapper_mqtt_subscribe, _unsubscribe, _publish up to their checks.
CallBegins(p) ==
  /\ at = "idle" /\ made < Env.made
  /\ state = "CONNECTED"
  /\ made' = made + 1
  /\ IF CheckTopic(p.topic, TopicType(p))
       THEN call' = p /\ at' = "checked" /\ UNCHANGED last
       ELSE /\ last' = [is |-> "refused", filter |-> p.topic, type |-> TopicType(p)]
            /\ UNCHANGED <<call, at>>
  /\ UNCHANGED <<env, state, yielder, waits, sock, filters, stream, connects>>

\* The handlers MQTTUnsubscribe takes off: its name has the final 0 as a byte.
Unsubscribed(f) == {g \in filters : Delivered(g, f \o <<0>>)}

\* MQTTSubscribe, MQTTUnsubscribe, MQTTPublish until they unlock.
CallWrites(k) ==
  LET b == Serialized(call)
  IN  /\ at = "checked" /\ k <= Len(b)
      /\ IF b = <<>> THEN at' = "idle" /\ UNCHANGED <<out, asked, cut>>
         ELSE /\ at' = IF k = Len(b) THEN "written" ELSE "failed"
              /\ Writes(call, b, k, IF yielder = "yield" THEN "call" ELSE "early")
      /\ filters' = IF call.type = UNSUBSCRIBE /\ at' = "written"
                      THEN filters \ Unsubscribed(call.topic) ELSE filters
      /\ UNCHANGED <<env, state, yielder, waits, sock, wire, said, call, sent, handled,
                     torn, last, made, connects>>

\* Mistake: the failure of a write is only reported to the caller.
CallReturnsOnly ==
  /\ at \in {"written", "failed"} /\ at' = "idle"
  /\ filters' = IF at = "written" /\ call.type = SUBSCRIBE
                  THEN filters \cup {call.topic} ELSE filters
  /\ UNCHANGED <<env, state, yielder, waits, sock, stream, call, last, made, connects>>

\* What is left of the call: the handler listed, or the client disconnected.
CallReturns ==
  /\ at \in {"written", "failed"} /\ at' = "idle"
  /\ filters' = IF at = "written" /\ call.type = SUBSCRIBE
                  THEN filters \cup {call.topic} ELSE filters
  /\ state' = IF at = "failed" THEN "DISCONNECTED" ELSE state
  /\ UNCHANGED <<env, yielder, waits, sock, stream, call, last, made, connects>>

PingReq == [type |-> PINGREQ]

\* iotx_mc_keepalive_sub, the time of the next ping come.
Ping(k) ==
  LET b == Serialized(PingReq)
  IN  /\ yielder = "yield" /\ state = "CONNECTED" /\ made < Env.made
      /\ made' = made + 1
      /\ Writes(PingReq, b, k, "call")
      /\ state' = IF k < Len(b) THEN "DISCONNECTED" ELSE state
      /\ UNCHANGED <<env, yielder, waits, sock, wire, said, filters, call, at, sent,
                     handled, torn, last, connects>>

-----------------------------------------------------------------------------
(* Reading, under lock_read_buf.                                           *)

\* The bytes the front packet of s takes, as far as s has them.
FrontLen(s) ==
  LET m == LengthBytes(Tail(s))
      n == IF m = 0 THEN 5 ELSE 1 + m + Decode(Tail(s), m)
  IN  IF s = <<>> THEN 0 ELSE IF n < Len(s) THEN n ELSE Len(s)

\* What iotx_mc_read_packet returns when it got k bytes: an error if it asks
\* for the first byte of a part and the connection is closed.
iotx_mc_read_packet(k) ==
  LET s    == SubSeq(wire, 1, k)
      m    == IF s = <<>> THEN 0 ELSE LengthBytes(Tail(s))
      rem  == Decode(Tail(s), m)
      len  == 1 + EncodedLen(rem)
      room == ReadMax - len
      closed == sock # "up" /\ k = Len(wire)
  IN  CASE k = 0 -> IF closed THEN "error" ELSE "timeout"
        [] k > 0 /\ m = 0 -> IF k = 5 THEN "bad" ELSE IF closed THEN "error" ELSE "short"
        [] m > 0 /\ k < 1 + m + rem ->
             IF closed /\ (k = 1 + m \/ (rem > room /\ k = 1 + m + room))
               THEN "error" ELSE "short"
        [] OTHER -> IF rem > room THEN "over" ELSE "packet"

\* buf_read: the header, the length written back, the body.
ReadBuffer(k) ==
  LET s == SubSeq(wire, 1, k)
      m == LengthBytes(Tail(s))
  IN  <<s[1]>> \o Encode(Decode(Tail(s), m)) \o SubSeq(s, 2 + m, k)

Deserialized(b) ==
  LET type == HeaderType(b[1])
  IN  CASE type = PUBLISH -> MQTTDeserialize_publish(b)
        [] type = SUBACK -> MQTTDeserialize_suback(b)
        [] type \in {PUBACK, UNSUBACK} -> MQTTDeserialize_ack(b)
        [] type = CONNACK -> MQTTDeserialize_connack(b)
        [] OTHER -> [type |-> type]

\* A packet longer than the buffer is read and dropped, and reported as this.
Overflow == [type |-> 15]

Consumed(k, r, p) ==
  /\ wire' = SubSeq(wire, k + 1, Len(wire))
  /\ torn' = (torn \/ r \in {"short", "bad"})
  /\ handled' = IF torn \/ r \notin {"over", "packet"} THEN handled ELSE Append(handled, p)
  /\ UNCHANGED <<said, sent>>

\* iotx_mc_handle_recv_PUBLISH: the handlers, then the PUBACK of a message of
\* QoS 1; nobody heeds that too few bytes of it got through.
HandlePublish(p) ==
  LET ack == [type |-> PUBACK, id |-> p.id]
  IN  /\ last' = IF torn THEN last
                 ELSE [is |-> "served", topic |-> p.topic, filters |-> filters,
                       to |-> {f \in filters : Delivered(f, p.topic)}]
      /\ IF p.qos = 1 THEN \E k \in HAL_TCP_Write(Len(Serialized(ack))) :
                                Writes(ack, Serialized(ack), k, "ack")
         ELSE UNCHANGED <<out, asked, cut>>

\* iotx_mc_cycle: k bytes arrive.  The type of an oversized packet was never
\* set: it is handled as none, or as the message whose start is in the buffer.
Cycle(k) ==
  LET r == iotx_mc_read_packet(k)
      p == IF r \in {"over", "packet"} THEN Deserialized(ReadBuffer(k)) ELSE Malformed
      ignored == UNCHANGED <<last, out, asked, cut>>
  IN  /\ yielder = "yield" /\ state = "CONNECTED"
      /\ Consumed(k, r, IF r = "over" THEN Overflow ELSE p)
      /\ state' = IF r = "error" THEN "DISCONNECTED" ELSE state
      /\ \/ r = "packet" /\ p.type = PUBLISH /\ HandlePublish(p)
         \/ r = "over" /\ p.type = PUBLISH /\ (HandlePublish(p) \/ ignored)
         \/ p.type # PUBLISH /\ ignored
      /\ UNCHANGED <<env, yielder, waits, sock, filters, caller, connects>>

-----------------------------------------------------------------------------
(* The connection.                                                         *)

\* ipstack.disconnect; the streams of the next connection are empty.
Disconnect ==
  /\ sock' = "none" /\ wire' = <<>> /\ said' = <<>> /\ out' = <<>>
  /\ sent' = <<>> /\ handled' = <<>> /\ torn' = FALSE
  /\ asked' = <<>> /\ cut' = "none"

\* iotx_mc_keepalive finds the client disconnected.
KeepaliveDisconnected ==
  /\ yielder = "yield" /\ state = "DISCONNECTED"
  /\ state' = "DISCONNECTED_RECONNECTING"
  /\ Disconnect
  /\ UNCHANGED <<env, yielder, waits, filters, caller, last, connects>>

\* iotx_mc_handle_reconnect, or the next try of _mqtt_connect: a new link.
Reconnect ==
  /\ yielder = "yield" /\ state = "DISCONNECTED_RECONNECTING"
  /\ connects < Env.connects /\ connects' = connects + 1
  /\ sock' = "up" /\ yielder' = "connect"
  /\ UNCHANGED <<env, state, waits, filters, stream, caller, last>>

\* MQTTConnect
Connect(k) ==
  LET b == Serialized(Login)
  IN  /\ yielder = "connect" /\ k <= Len(b)
      /\ IF b # <<>> /\ k = Len(b)
           THEN /\ Writes(Login, b, k, "early") /\ yielder' = "connack" /\ waits' = 0
                /\ UNCHANGED <<sock, wire, said, sent, handled, torn>>
           ELSE Disconnect /\ yielder' = "yield" /\ UNCHANGED waits
      /\ UNCHANGED <<env, state, filters, caller, last, connects>>

\* iotx_mc_wait_CONNACK, one packet: what it does not wait for it counts.
WaitConnack(k) ==
  LET r == iotx_mc_read_packet(k)
      p == IF r = "packet" THEN Deserialized(ReadBuffer(k)) ELSE Malformed
      accepted == r = "packet" /\ p = [type |-> CONNACK, code |-> 0]
      counted  == r \in {"timeout", "over"} \/ (r = "packet" /\ HeaderType(wire[1]) # CONNACK)
  IN  /\ yielder = "connack"
      /\ \/ /\ accepted \/ (counted /\ waits < WAIT_CONNACK_MAX)
            /\ Consumed(k, r, IF r = "over" THEN Overflow ELSE p)
            /\ UNCHANGED <<sock, out, asked, cut>>
         \/ /\ ~accepted /\ ~(counted /\ waits < WAIT_CONNACK_MAX)
            /\ Disconnect
      /\ yielder' = IF counted /\ waits < WAIT_CONNACK_MAX THEN "connack" ELSE "yield"
      /\ waits' = IF counted THEN waits + 1 ELSE waits
      /\ state' = IF accepted THEN "CONNECTED" ELSE state
      /\ UNCHANGED <<env, filters, caller, last, connects>>

-----------------------------------------------------------------------------
(* The broker and the network.                                             *)

BrokerSays(p) ==
  /\ sock = "up"
  /\ sent' = Append(sent, Entry(p, said))
  /\ said' = said \o OnWire(p) /\ wire' = wire \o OnWire(p)
  /\ UNCHANGED <<env, state, yielder, waits, sock, out, filters, caller, handled,
                 torn, asked, cut, last, connects>>

BrokerConnack(code) ==
  /\ yielder = "connack" /\ sent = <<>> /\ \E i \in DOMAIN asked : asked[i].packet = Login
  /\ BrokerSays([type |-> CONNACK, code |-> code])

BrokerSends(p) ==
  /\ yielder = "yield" /\ Len(sent) < Env.sent
  /\ p.type = PUBLISH => filters # {}
  /\ BrokerSays(p)

\* The other end closes the connection; the last bytes may be lost with it.
LinkCloses(n) ==
  /\ sock = "up" /\ connects < Env.connects
  /\ sock' = "down" /\ wire' = SubSeq(wire, 1, n)
  /\ UNCHANGED <<env, state, yielder, waits, said, out, filters, caller, sent, handled,
                 torn, asked, cut, last, connects>>

-----------------------------------------------------------------------------
WireInit ==
  /\ env \in DOMAIN Environments
  /\ state = "CONNECTED" /\ yielder = "yield" /\ waits = 0
  /\ sock = "up" /\ wire = <<>> /\ said = <<>> /\ out = <<>> /\ filters = {}
  /\ call = [type |-> 0] /\ at = "idle"
  /\ sent = <<>> /\ handled = <<>> /\ torn = FALSE
  /\ asked = <<>> /\ cut = "none" /\ last = [is |-> "none"]
  /\ made = 0 /\ connects = 0

WireNext ==
  \/ \E p \in Env.calls : CallBegins(p)
  \/ at = "checked" /\ \E k \in HAL_TCP_Write(Len(Serialized(call))) : CallWrites(k)
  \/ CallReturns
  \/ \E k \in HAL_TCP_Write(Len(Serialized(PingReq))) : Ping(k)
  \/ \E k \in HAL_TCP_Read(FrontLen(wire)) : Cycle(k)
  \/ KeepaliveDisconnected
  \/ Reconnect
  \/ \E k \in HAL_TCP_Write(Len(Serialized(Login))) : Connect(k)
  \/ \E k \in HAL_TCP_Read(FrontLen(wire)) : WaitConnack(k)
  \/ \E code \in {0, 5} : BrokerConnack(code)
  \/ \E p \in Env.packets : BrokerSends(p)
  \/ \E n \in Amounts(Len(wire)) : LinkCloses(n)

(* A call that wrote goes on to return, and the application goes on to     *)
(* yield.                                                                  *)
WireSpec == WireInit /\ [][WireNext]_wireVars /\ WF_wireVars(CallReturns) /\ WF_wireVars(KeepaliveDisconnected)

-----------------------------------------------------------------------------
(* Properties.                                                             *)

\* What the client is to make of a packet: one longer than its buffer it drops.
Due(p) == IF Len(OnWire(p)) > ReadMax THEN Overflow ELSE p

\* Where in said the next packet begins.
Front == IF Len(handled) < Len(sent) THEN sent[Len(handled) + 1].from ELSE Len(said)

(***************************************************************************)
(* iotx_mc_read_packet: as long as no read ended in the middle of a packet *)
(* every packet is handled as it was sent, once and in order, or dropped   *)
(* whole if it is longer than the buffer, and the next read starts at the  *)
(* first byte of the next one.                                             *)
(***************************************************************************)
InStep ==
  ~torn =>
    /\ Len(handled) <= Len(sent)
    /\ \A i \in DOMAIN handled : handled[i] = Due(sent[i].packet)
    /\ Front + Len(wire) <= Len(said)
    /\ wire = SubSeq(said, Front + 1, Front + Len(wire))
    /\ sock = "up" => Front + Len(wire) = Len(said)

(***************************************************************************)
(* The serializers, _alloc_send_buffer and iotx_mc_send_packet: unless a   *)
(* write was cut short, what the broker received reads, by the standard,   *)
(* as the requests, pings and acknowledgements that were made, whole and   *)
(* in their order.                                                         *)
(***************************************************************************)
RequestsWhole == cut = "none" => ReadsAs(out, asked)

(***************************************************************************)
(* From the check of a topic to the handlers a message is given to: no     *)
(* filter or name that the standard and the client's bound allow is        *)
(* refused, and a message reaches the handlers whose filters match its     *)
(* topic by the standard, no others.                                       *)
(***************************************************************************)
FilterServed ==
  CASE last.is = "refused" -> ~MustBeAccepted(last.filter, last.type)
    [] last.is = "served" ->
         \A f \in last.filters :
           /\ DeliverySound(f, last.topic, f \in last.to)
           /\ DeliveryComplete(f, last.topic, f \in last.to)
    [] OTHER -> TRUE

(***************************************************************************)
(* wrapper_mqtt_publish, _subscribe, _unsubscribe and the ping: a          *)
(* connection on which one of them wrote a part of a packet is given up,   *)
(* whatever the thread that yields was doing meanwhile.                    *)
(***************************************************************************)
CutIsEnded == cut = "call" ~> cut # "call"

=============================================================================

------------------------------ MODULE MqttPacket -------------------------------
(***************************************************************************)
(* MQTT packets as the client writes and reads them: MQTTPacket.c,         *)
(* MQTTSerializePublish.c, MQTTDeserializePublish.c, MQTTConnectClient.c,  *)
(* MQTTSubscribeClient.c and MQTTUnsubscribeClient.c of iotkit-embedded.   *)
(*                                                                         *)
(* A packet is a sequence of bytes; a string or a payload is the sequence  *)
(* of its bytes.  A serializer gives the empty sequence when the packet    *)
(* may not fit the buffer; a deserializer gives a record, or Malformed     *)
(* where the code leaves what it returns unset.                            *)
(***************************************************************************)
EXTENDS Integers, Sequences

CONNECT     == 1
CONNACK     == 2
PUBLISH     == 3
PUBACK      == 4
SUBSCRIBE   == 8
SUBACK      == 9
UNSUBSCRIBE == 10
UNSUBACK    == 11
PINGREQ     == 12
PINGRESP    == 13
DISCONNECT  == 14

-----------------------------------------------------------------------------
(* The fixed header: a byte, and the remaining length in one to four.      *)

Header(type, dup, qos, retain) == 16 * type + 8 * dup + 2 * qos + retain
HeaderType(b)   == b \div 16
HeaderQos(b)    == (b \div 2) % 4

K == 128
Weight == <<1, K, K * K, K * K * K>>

MaxRemaining == K * K * K * K - 1

\* Mistake: a length that fills its bytes takes one more.
EncodedLenWide(n) ==
  IF n < K - 1 THEN 1 ELSE IF n < K * K - 1 THEN 2
  ELSE IF n < K * K * K - 1 THEN 3 ELSE 4

\* How often the loop of MQTTPacket_encode runs.
EncodedLen(n) ==
  IF n < K THEN 1 ELSE IF n < K * K THEN 2 ELSE IF n < K * K * K THEN 3 ELSE 4

\* MQTTPacket_encode: seven bits a byte, the lowest first; the top bit says
\* that another follows.
Encode(n) ==
  [i \in 1 .. EncodedLen(n) |->
     ((n \div Weight[i]) % K) + (IF i < EncodedLen(n) THEN K ELSE 0)]

\* The number of length bytes at the front of s: none if the last of the four
\* allowed, or of s, still has its top bit set.
LengthBytes(s) ==
  IF \E k \in 1 .. 4 : k <= Len(s) /\ s[k] < K
    THEN CHOOSE k \in 1 .. 4 :
           k <= Len(s) /\ s[k] < K /\ \A j \in 1 .. k - 1 : s[j] >= K
    ELSE 0

\* MQTTPacket_decode: the value of the first k bytes.
Digit(s, k, i) == IF i <= k THEN (s[i] % K) * Weight[i] ELSE 0

\* Mistake: the multiplier is not carried on.
DecodeFlat(s, k) == Digit(s, k, 1) + (IF k > 1 THEN s[2] % K ELSE 0)
Decode(s, k) == Digit(s, k, 1) + Digit(s, k, 2) + Digit(s, k, 3) + Digit(s, k, 4)

\* MQTTPacket_len: the whole packet, counted on the safe side.
PacketLen(rem) ==
  rem + 1 + (IF rem + 1 < K THEN 1 ELSE IF rem + 1 < K * K THEN 2
             ELSE IF rem + 1 < K * K * K - 1 THEN 3 ELSE 4)

-----------------------------------------------------------------------------
(* Integers and strings of the body.                                       *)

WriteInt(n) == <<(n \div 256) % 256, n % 256>>
ReadInt(b, i) == 256 * b[i] + b[i + 1]

WriteString(s) == WriteInt(Len(s)) \o s

Framed(header, body) == <<header>> \o Encode(Len(body)) \o body

\* Every serializer of a packet with a body asks MQTTPacket_len first.
Fitting(buflen, header, body) ==
  IF PacketLen(Len(body)) > buflen THEN <<>> ELSE Framed(header, body)

-----------------------------------------------------------------------------
(* Serializers.                                                            *)

PublishBody(p) ==
  WriteString(p.topic) \o (IF p.qos > 0 THEN WriteInt(p.id) ELSE <<>>) \o p.payload

MQTTSerialize_publish(buflen, p) ==
  Fitting(buflen, Header(PUBLISH, 0, p.qos, 0), PublishBody(p))

MQTTSerialize_ack(buflen, id) ==
  IF buflen < 4 THEN <<>> ELSE Framed(Header(PUBACK, 0, 0, 0), WriteInt(id))

MQTTSerialize_subscribe(buflen, p) ==
  Fitting(buflen, Header(SUBSCRIBE, 0, 1, 0),
          WriteInt(p.id) \o WriteString(p.topic) \o <<p.qos>>)

MQTTSerialize_unsubscribe(buflen, p) ==
  Fitting(buflen, Header(UNSUBSCRIBE, 0, 1, 0), WriteInt(p.id) \o WriteString(p.topic))

MQTTSerialize_zero(buflen, type) ==
  IF buflen < 2 THEN <<>> ELSE Framed(Header(type, 0, 0, 0), <<>>)

\* iotx_mc_init sets version 4, no will, a name and a password.
ConnectFlags(p) == 128 + 64 + (IF p.clean THEN 2 ELSE 0)

ConnectBody(p) ==
  WriteString(<<77, 81, 84, 84>>) \o <<4, ConnectFlags(p)>> \o WriteInt(p.keepalive)
    \o WriteString(p.client) \o WriteString(p.user) \o WriteString(p.password)

MQTTSerialize_connect(buflen, p) ==
  Fitting(buflen, Header(CONNECT, 0, 0, 0), ConnectBody(p))

-----------------------------------------------------------------------------
(* Deserializers, of a buffer that holds one packet with its length as     *)
(* MQTTPacket_encode writes it.                                            *)

Malformed == [type |-> 0]

MUTLI_SUBSCIRBE_MAX == 5

\* What is between curdata and enddata after the length.
BodyOf(b) ==
  LET k == LengthBytes(Tail(b))
      from == 2 + k
  IN  SubSeq(b, from, from - 1 + Decode(Tail(b), k))

\* readMQTTLenString at the front of a body.
HasString(body) == Len(body) >= 2 /\ 2 + ReadInt(body, 1) <= Len(body)

\* A message of QoS 1 without its identifier gets what follows in the buffer,
\* here 0.
MQTTDeserialize_publish(b) ==
  LET body == BodyOf(b)
      qos  == HeaderQos(b[1])
      end  == 2 + ReadInt(body, 1)
      from == end + (IF qos > 0 THEN 2 ELSE 0)
  IN  IF HeaderType(b[1]) # PUBLISH \/ ~HasString(body) THEN Malformed
      ELSE [type |-> PUBLISH, qos |-> qos, topic |-> SubSeq(body, 3, end),
            id |-> IF qos > 0 /\ from <= Len(body) THEN ReadInt(body, end + 1) ELSE 0,
            payload |-> SubSeq(body, from + 1, Len(body))]

\* MQTTDeserialize_ack and MQTTDeserialize_unsuback: too short a body is taken
\* for success with an identifier that was never set.
MQTTDeserialize_ack(b) ==
  LET body == BodyOf(b)
  IN  IF Len(body) < 2 THEN Malformed
      ELSE [type |-> HeaderType(b[1]), id |-> ReadInt(body, 1)]

MQTTDeserialize_suback(b) ==
  LET body == BodyOf(b)
  IN  IF Len(body) \notin 2 .. 2 + MUTLI_SUBSCIRBE_MAX THEN Malformed
      ELSE [type |-> SUBACK, id |-> ReadInt(body, 1),
            granted |-> SubSeq(body, 3, Len(body))]

MQTTDeserialize_connack(b) ==
  LET body == BodyOf(b)
  IN  IF Len(body) < 2 THEN Malformed ELSE [type |-> CONNACK, code |-> body[2]]

=============================================================================

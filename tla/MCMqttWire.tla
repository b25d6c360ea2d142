------------------------------ MODULE MCMqttWire ------------------------------
(* Three kinds of behaviour, so that their sizes do not multiply: every      *)
(* filter against every name up to a length; packets of every size that      *)
(* matters, read in parts; calls and pings written in parts.                 *)
EXTENDS MqttWire

CONSTANTS MaxFilter, MaxName

Letters == {Slash, 97, 98}
Strings(S, n) == UNION {[1 .. k -> S] : k \in 1 .. n}
Ones(n) == [i \in 1 .. n |-> 1]

Home  == <<Slash, 97>>
Other == <<Slash, 98, 47, 98>>

Message(n, q, payload) ==
  [type |-> PUBLISH, qos |-> q, topic |-> n, id |-> IF q = 0 THEN 0 ELSE 300,
   payload |-> payload]

\* A message on Home whose remaining length is rem.
OfSize(rem, q) == Message(Home, q, Ones(rem - 4 - 2 * q))

Subscription(f) == [type |-> SUBSCRIBE, id |-> 258, topic |-> f, qos |-> 1]
Unsubscription(f) == [type |-> UNSUBSCRIBE, id |-> 259, topic |-> f]

Topics ==
  [calls |-> {Subscription(f) : f \in Strings(Letters \cup Wildcards, MaxFilter)
                                       \cup {Home \o Other, Other \o Home}}
             \cup {Message(n, 0, <<>>) : n \in Strings({Slash, 97, Plus}, MaxName)},
   packets |-> {Message(n, 0, Ones(1)) : n \in Strings(Letters, MaxName)},
   made |-> 1, sent |-> 1, connects |-> 0, whole |-> TRUE]

PartReads ==
  [calls |-> {Subscription(Home)},
   packets |-> {OfSize(127, 0), OfSize(128, 1), OfSize(ReadMax - 3, 0),
                OfSize(ReadMax - 2, 1), [type |-> SUBACK, id |-> 258, granted |-> <<1>>],
                [type |-> UNSUBACK, id |-> 259], [type |-> PINGRESP]},
   made |-> 1, sent |-> 2, connects |-> 1, whole |-> FALSE]

PartWrites ==
  [calls |-> {Subscription(Home), Subscription(<<Slash, Plus>>), Unsubscription(Home),
              OfSize(127, 0), OfSize(SendMax - 3, 1), OfSize(SendMax - 2, 0)},
   packets |-> {Message(Home, 1, Ones(1)), Message(Other, 0, <<>>)},
   made |-> 2, sent |-> 1, connects |-> 1, whole |-> FALSE]

MCEnvironments == [topics |-> Topics, reads |-> PartReads, writes |-> PartWrites]

MCLogin == [type |-> CONNECT, keepalive |-> 300, clean |-> FALSE, client |-> Ones(3),
            user |-> <<>>, password |-> Ones(2)]
=============================================================================

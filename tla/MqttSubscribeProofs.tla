------------------------- MODULE MqttSubscribeProofs -------------------------
(***************************************************************************)
(* Proofs about synchronous subscriptions: the variables keep their types, *)
(* a call that waited and succeeded was granted, and messages that are due *)
(* to a handler reach it.  They hold for any number of callers, handlers,  *)
(* refusals, resets and messages.                                          *)
(***************************************************************************)
EXTENDS MqttSubscribe, SequenceTheorems, TLAPS

-----------------------------------------------------------------------------
(* What is in a list or a channel.                                           *)

Elements(s) == {s[k] : k \in DOMAIN s}

LEMMA ElementsTyped ==
    ASSUME NEW S, NEW s \in Seq(S)
    PROVE  Elements(s) \subseteq S
BY DEF Elements

LEMMA AppendElements ==
    ASSUME NEW S, NEW s \in Seq(S), NEW e \in S
    PROVE  Append(s, e) \in Seq(S) /\ Elements(Append(s, e)) = Elements(s) \cup {e}
<1> DEFINE a == Append(s, e)
<1>1. /\ a \in Seq(S) /\ DOMAIN a = 1 .. Len(s) + 1 /\ DOMAIN s = 1 .. Len(s) /\ Len(s) \in Nat
      /\ a[Len(s) + 1] = e /\ \A k \in 1 .. Len(s) : a[k] = s[k]
  BY AppendProperties
<1> HIDE DEF a
<1>2. \A k \in DOMAIN a : k \in DOMAIN s \/ k = Len(s) + 1
  BY <1>1
<1>3. DOMAIN s \subseteq DOMAIN a /\ Len(s) + 1 \in DOMAIN a
  BY <1>1
<1>4. Elements(a) \subseteq Elements(s) \cup {e}
  BY <1>1, <1>2 DEF Elements
<1>5. Elements(s) \cup {e} \subseteq Elements(a)
  BY <1>1, <1>3 DEF Elements
<1>6. a \in Seq(S) /\ Elements(a) = Elements(s) \cup {e}
  BY <1>1, <1>4, <1>5
<1> QED BY <1>6 DEF a

LEMMA TailElements ==
    ASSUME NEW S, NEW s \in Seq(S), s # <<>>
    PROVE  /\ Tail(s) \in Seq(S) /\ Elements(Tail(s)) \subseteq Elements(s)
           /\ Head(s) \in Elements(s) /\ Head(s) \in S
           /\ \A k \in DOMAIN Tail(s) : k + 1 \in DOMAIN s /\ Tail(s)[k] = s[k + 1]
<1>1. /\ Tail(s) \in Seq(S) /\ Len(s) \in Nat \ {0}
      /\ DOMAIN Tail(s) = 1 .. Len(s) - 1 /\ DOMAIN s = 1 .. Len(s)
      /\ \A k \in 1 .. Len(s) - 1 : Tail(s)[k] = s[k + 1]
      /\ Head(s) = s[1] /\ s[1] \in S
  BY EmptySeq, HeadTailProperties
<1>2. \A k \in DOMAIN Tail(s) : k + 1 \in DOMAIN s /\ Tail(s)[k] = s[k + 1]
  BY <1>1
<1>3. Elements(Tail(s)) \subseteq Elements(s)
  BY <1>2 DEF Elements
<1>4. Head(s) \in Elements(s)
  <2>1. 1 \in DOMAIN s
    BY <1>1
  <2> QED BY <1>1, <2>1 DEF Elements
<1> QED BY <1>1, <1>2, <1>3, <1>4

LEMMA RemovedElements ==
    ASSUME NEW S, NEW s \in Seq(S), NEW k \in DOMAIN s,
           NEW r, r = [j \in 1 .. Len(s) - 1 |-> s[IF j < k THEN j ELSE j + 1]]
    PROVE  /\ r \in Seq(S) /\ Elements(r) \subseteq Elements(s)
           /\ \A i, j \in DOMAIN r : \E m, n \in DOMAIN s :
                r[i] = s[m] /\ r[j] = s[n] /\ (m = n => i = j)
<1> DEFINE At(j) == IF j < k THEN j ELSE j + 1
<1>1. Len(s) \in Nat \ {0} /\ k \in 1 .. Len(s) /\ DOMAIN s = 1 .. Len(s)
  OBVIOUS
<1>2. DOMAIN r = 1 .. Len(s) - 1 /\ \A j \in DOMAIN r : r[j] = s[At(j)]
  OBVIOUS
<1>3. \A i, j \in DOMAIN r : At(i) \in DOMAIN s /\ At(j) \in DOMAIN s /\ (At(i) = At(j) => i = j)
  BY <1>1, <1>2
<1>4. \A j \in DOMAIN s : s[j] \in S
  OBVIOUS
<1> HIDE DEF At
<1>5. r \in Seq(S)
  <2>1. \A j \in 1 .. Len(s) - 1 : s[At(j)] \in S
    BY <1>2, <1>3, <1>4
  <2>2. r = [j \in 1 .. Len(s) - 1 |-> s[At(j)]]
    BY Zenon DEF At
  <2> DEFINE n == Len(s) - 1
  <2>3. n \in Nat
    BY <1>1
  <2> HIDE DEF n
  <2>4. r \in [1 .. n -> S]
    BY <2>1, <2>2, Zenon DEF n
  <2> QED BY <2>3, <2>4, SeqDef
<1>6. Elements(r) \subseteq Elements(s)
  BY <1>2, <1>3 DEF Elements
<1>7. ASSUME NEW i \in DOMAIN r, NEW j \in DOMAIN r
      PROVE  \E m, n \in DOMAIN s : r[i] = s[m] /\ r[j] = s[n] /\ (m = n => i = j)
  <2>1. /\ At(i) \in DOMAIN s /\ At(j) \in DOMAIN s /\ (At(i) = At(j) => i = j)
        /\ r[i] = s[At(i)] /\ r[j] = s[At(j)]
    BY <1>2, <1>3, <1>7
  <2> QED BY <2>1
<1> QED BY <1>5, <1>6, <1>7

-----------------------------------------------------------------------------
(* The inductive invariant.                                                  *)

\* Every identifier in use was given out, and no two callers have the same.
IdInv ==
  /\ \A r \in Elements(up) : r.id <= packet_id
  /\ \A m \in Elements(down) : m.type # "PUBLISH" => m.id <= packet_id
  /\ \A n \in Elements(list_sub_sync_ack) : n.packet_id <= packet_id
  /\ \A i \in acked : i <= packet_id
  /\ \A t \in Callers : ret[t] <= packet_id
  /\ \A t, u \in Callers : ret[t] = ret[u] /\ ret[t] # Failed => t = u

\* There is one node of an identifier, and it is that of a caller that waits.
NodeInv ==
  /\ \A j, k \in DOMAIN list_sub_sync_ack :
       list_sub_sync_ack[j].packet_id = list_sub_sync_ack[k].packet_id => j = k
  /\ \A t \in Callers : \A n \in Elements(list_sub_sync_ack) :
       n.packet_id = ret[t] => subed[t] = 1

\* An acknowledgement, from the request to the node, is that of the filter
\* which was asked for under its identifier.
GrantInv ==
  /\ \A n \in Elements(list_sub_sync_ack) : n.ack_type = "SUCCESS" => n.packet_id \in acked
  /\ \A t \in Callers :
       /\ \A r \in Elements(up) : r.id = ret[t] => r.handler = HandlerOf[t]
       /\ \A m \in Elements(down) :
            m.type = "SUCCESS" /\ m.id = ret[t] => HandlerOf[t] \in subscribed
       /\ ret[t] \in acked => HandlerOf[t] \in subscribed

\* What a call knows: it waits for an identifier, it succeeds with one that was
\* acknowledged if it waited, and has its handler listed by then.  The one that
\* holds lock_yield is in its wrapper_mqtt_yield.
CallInv ==
  /\ lock_yield \in Callers => pc[lock_yield] = "yield"
  /\ \A t \in Callers :
       /\ subed[t] = 1 =>
            ret[t] # Failed /\ pc[t] \in {"again", "yield", "scan", "timer", "done"}
       /\ result[t] # "none" => pc[t] = "done"
       /\ result[t] = "ok" => ret[t] # Failed /\ (subed[t] = 1 => ret[t] \in acked)
       /\ ret[t] # Failed /\ pc[t] # "register" => HandlerOf[t] \in list_sub_handle

\* A message that is due finds its handler.
DueInv ==
  /\ \A m \in Elements(down) : m.type = "PUBLISH" /\ m.due => m.handler \in list_sub_handle
  /\ ServedAfterReturn

SubscribeInv == TypeOK /\ IdInv /\ NodeInv /\ GrantInv /\ CallInv /\ DueInv

LEMMA SubscribeInit == Init => SubscribeInv
<1> SUFFICES ASSUME Init PROVE SubscribeInv
  OBVIOUS
<1>1. Elements(<<>>) = {} /\ DOMAIN list_sub_sync_ack = {}
  BY DEF Init, Elements
<1>2. TypeOK
  BY SubscribeAssumption DEF Init, TypeOK
<1>3. IdInv /\ NodeInv /\ GrantInv /\ CallInv /\ DueInv
  BY <1>1, SubscribeAssumption DEF Init, IdInv, NodeInv, GrantInv, CallInv, DueInv, ServedAfterReturn, Failed
<1> QED BY <1>2, <1>3 DEF SubscribeInv

-----------------------------------------------------------------------------
(* The broker and the network.                                               *)

LEMMA BrokerKeeps ==
    ASSUME SubscribeInv, BrokerSubscribe \/ ConnectionReset \/ \E h \in Handlers : BrokerPublish(h)
    PROVE  SubscribeInv'
<1> USE DEF SubscribeInv, client, locals, yielding, history
<1>1. up \in Seq(Request) /\ down \in Seq(Answer \cup Delivery)
  BY DEF TypeOK
<1>2. CASE BrokerSubscribe
  <2> DEFINE i == Head(up).id   h == Head(up).handler
  <2>1. up # <<>> /\ up' = Tail(up)
    BY <1>2 DEF BrokerSubscribe
  <2>2. /\ up' \in Seq(Request) /\ Elements(up') \subseteq Elements(up)
        /\ Head(up) \in Elements(up) /\ Head(up) \in Request
    BY <1>1, <2>1, TailElements
  <2>3. i \in Ids /\ h \in Handlers /\ i <= packet_id
        /\ \A t \in Callers : i = ret[t] => h = HandlerOf[t]
    BY <2>2 DEF Request, IdInv, GrantInv
  <2>4. PICK type \in {"SUCCESS", "NACK"} :
          /\ down' = Append(down, Suback(i, type))
          /\ type = "SUCCESS" => h \in subscribed'
    BY <1>2 DEF BrokerSubscribe
  <2>5. /\ subscribed \subseteq subscribed' /\ subscribed' \subseteq Handlers
        /\ faults' \in 0 .. MaxFaults
        /\ UNCHANGED <<client, locals, yielding, conn, messages, history>>
    BY <1>2, <2>3, SubscribeAssumption DEF BrokerSubscribe, TypeOK
  <2> HIDE DEF i, h
  <2>6. Suback(i, type) \in Answer
    BY <2>3 DEF Suback, Answer
  <2>7. /\ down' \in Seq(Answer \cup Delivery)
        /\ Elements(down') = Elements(down) \cup {Suback(i, type)}
    BY <1>1, <2>4, <2>6, AppendElements
  <2>8. \A m \in Elements(down') : m \in Elements(down) \/ (m.type = type /\ m.id = i)
    BY <2>7 DEF Suback
  <2>9. TypeOK'
    BY <2>2, <2>5, <2>7 DEF TypeOK
  <2>10. IdInv'
    BY <2>2, <2>3, <2>5, <2>8 DEF IdInv
  <2>11. GrantInv'
    BY <2>2, <2>3, <2>4, <2>5, <2>8 DEF GrantInv
  <2>12. NodeInv' /\ CallInv'
    BY <2>5 DEF NodeInv, CallInv
  <2>13. DueInv'
    BY <2>4, <2>5, <2>8 DEF DueInv, ServedAfterReturn
  <2> QED BY <2>9, <2>10, <2>11, <2>12, <2>13
<1>3. ASSUME NEW h \in Handlers, BrokerPublish(h)
      PROVE  SubscribeInv'
  <2> DEFINE due == \E t \in Callers : HandlerOf[t] = h /\ result[t] = "ok"
  <2>1. /\ down' = Append(down, Message(h, due)) /\ messages' \in 0 .. MaxMessages
        /\ UNCHANGED <<client, locals, yielding, conn, up, subscribed, faults, history>>
    BY <1>3, SubscribeAssumption DEF BrokerPublish, TypeOK
  <2>2. due => h \in list_sub_handle
    BY DEF CallInv
  <2>3. due \in BOOLEAN
    OBVIOUS
  <2> HIDE DEF due
  <2>4. Message(h, due) \in Delivery
    BY <1>3, <2>3 DEF Message, Delivery
  <2>5. /\ down' \in Seq(Answer \cup Delivery)
        /\ Elements(down') = Elements(down) \cup {Message(h, due)}
    BY <1>1, <2>1, <2>4, AppendElements
  <2>6. \A m \in Elements(down') :
          m \in Elements(down) \/ (m.type = "PUBLISH" /\ m.handler = h /\ m.due = due)
    BY <2>5 DEF Message
  <2>7. TypeOK'
    BY <2>1, <2>5 DEF TypeOK
  <2>8. IdInv' /\ GrantInv'
    BY <2>1, <2>6 DEF IdInv, GrantInv
  <2>9. NodeInv' /\ CallInv'
    BY <2>1 DEF NodeInv, CallInv
  <2>10. DueInv'
    BY <2>1, <2>2, <2>6 DEF DueInv, ServedAfterReturn
  <2> QED BY <2>7, <2>8, <2>9, <2>10
<1>4. CASE ConnectionReset
  <2>1. /\ conn' = "down" /\ up' = <<>> /\ down' = <<>> /\ faults' \in 0 .. MaxFaults
        /\ UNCHANGED <<client, locals, yielding, subscribed, messages, history>>
    BY <1>4, SubscribeAssumption DEF ConnectionReset, TypeOK
  <2>2. Elements(up') = {} /\ Elements(down') = {}
    BY <2>1 DEF Elements
  <2>3. up' \in Seq(Request) /\ down' \in Seq(Answer \cup Delivery)
    BY <2>1
  <2>4. TypeOK'
    BY <2>1, <2>3 DEF TypeOK
  <2>5. IdInv' /\ NodeInv' /\ GrantInv' /\ CallInv' /\ DueInv'
    BY <2>1, <2>2 DEF IdInv, NodeInv, GrantInv, CallInv, DueInv, ServedAfterReturn
  <2> QED BY <2>4, <2>5
<1> QED BY <1>2, <1>3, <1>4

-----------------------------------------------------------------------------
(* A call of subscribe_sync.                                                 *)

LEMMA CallGoesOn ==
    ASSUME SubscribeInv, NEW t \in Callers,
           Call(t) \/ ReturnInCallback(t) \/ ScanNothing(t) \/ LoopAgain(t)
    PROVE  SubscribeInv'
<1> USE DEF SubscribeInv, client, yielding, network, history, Goto
<1>1. UNCHANGED <<client, ret, subed, yielding, network, history>>
  BY DEF Call, ReturnInCallback, ScanNothing, LoopAgain
<1>2. IdInv' /\ NodeInv' /\ GrantInv' /\ DueInv'
  BY <1>1 DEF IdInv, NodeInv, GrantInv, DueInv, ServedAfterReturn
<1>3. CASE Call(t)
  <2>1. TypeOK'
    BY <1>3 DEF Call, TypeOK
  <2>2. CallInv'
    BY <1>3 DEF Call, TypeOK, CallInv
  <2> QED BY <1>2, <2>1, <2>2
<1>4. CASE ReturnInCallback(t)
  <2>1. TypeOK'
    BY <1>4 DEF ReturnInCallback, Outcome, TypeOK
  <2>2. CallInv'
    BY <1>4 DEF ReturnInCallback, Outcome, TypeOK, CallInv
  <2> QED BY <1>2, <2>1, <2>2
<1>5. CASE ScanNothing(t)
  <2>1. TypeOK'
    BY <1>5 DEF ScanNothing, TypeOK
  <2>2. CallInv'
    BY <1>5 DEF ScanNothing, TypeOK, CallInv
  <2> QED BY <1>2, <2>1, <2>2
<1>6. CASE LoopAgain(t)
  <2>1. TypeOK'
    BY <1>6 DEF LoopAgain, TypeOK
  <2>2. CallInv'
    BY <1>6 DEF LoopAgain, TypeOK, CallInv
  <2> QED BY <1>2, <2>1, <2>2
<1> QED BY <1>3, <1>4, <1>5, <1>6

\* A request gets a fresh identifier, or is not sent.
LEMMA SendKeeps ==
    ASSUME SubscribeInv, NEW t \in Callers, SendSubscribe(t)
    PROVE  SubscribeInv'
<1> USE DEF SubscribeInv, yielding, history, Goto
<1> DEFINE i == packet_id + 1   r == [id |-> i, handler |-> HandlerOf[t]]
<1>1. /\ pc[t] = "subscribe" /\ i \in Ids /\ i \in Int /\ i # Failed
      /\ UNCHANGED <<in_yield_cb, list_sub_handle, list_sub_sync_ack, subed, result, yielding,
                     conn, down, subscribed, faults, messages, history>>
  BY SubscribeAssumption DEF SendSubscribe, TypeOK, Ids, Failed
<1>2. CASE conn = "up"
  <2>1. /\ packet_id' = i /\ up' = Append(up, r) /\ ret' = [ret EXCEPT ![t] = i]
        /\ pc' = [pc EXCEPT ![t] = "register"]
    BY <1>2 DEF SendSubscribe
  <2>2. r \in Request /\ up \in Seq(Request)
    BY <1>1, SubscribeAssumption DEF Request, TypeOK
  <2>3. up' \in Seq(Request) /\ Elements(up') = Elements(up) \cup {r}
    BY <2>1, <2>2, AppendElements
  <2>4. \A x \in Elements(up') : x \in Elements(up) \/ (x.id = i /\ x.handler = HandlerOf[t])
    BY <2>3
  <2>5. /\ \A x \in Elements(up) : x.id <= i /\ x.id # i
        /\ \A m \in Elements(down) : m.type # "PUBLISH" => m.id <= i /\ m.id # i
        /\ \A n \in Elements(list_sub_sync_ack) : n.packet_id <= i /\ n.packet_id # i
        /\ \A j \in acked : j <= i /\ j # i
        /\ \A u \in Callers : ret[u] <= i /\ ret[u] # i
    <3> HIDE DEF r
    <3>1. \A x \in Elements(up) : x.id \in Int
      <4>1. Elements(up) \subseteq Request
        BY <2>2, ElementsTyped
      <4> QED BY <4>1 DEF Request, Ids
    <3>2. \A m \in Elements(down) : m.type # "PUBLISH" => m.id \in Int
      <4>1. Elements(down) \subseteq Answer \cup Delivery
        BY ElementsTyped DEF TypeOK
      <4> QED BY <4>1 DEF Answer, Delivery, Ids
    <3>3. \A n \in Elements(list_sub_sync_ack) : n.packet_id \in Int
      <4>1. Elements(list_sub_sync_ack) \subseteq Node
        BY ElementsTyped DEF TypeOK
      <4> QED BY <4>1 DEF Node, Ids
    <3>4. (\A j \in acked : j \in Int) /\ (\A u \in Callers : ret[u] \in Int) /\ packet_id \in Int
      BY DEF TypeOK, Ids, Failed
    <3> QED BY <3>1, <3>2, <3>3, <3>4 DEF IdInv
  <2> HIDE DEF r, i
  <2>6. TypeOK'
    <3>1. /\ ret' \in [Callers -> {Failed} \cup Ids] /\ packet_id' \in 0 .. MaxId
          /\ pc' \in [Callers -> {"idle", "subscribe", "register", "returned", "again",
                                  "yield", "scan", "timer", "done"}]
      BY <1>1, <2>1 DEF TypeOK, Ids
    <3> QED BY <1>1, <2>3, <3>1 DEF TypeOK
  <2>7. \A u \in Callers : ret'[u] = IF u = t THEN i ELSE ret[u]
    BY <2>1 DEF TypeOK
  <2>8. IdInv'
    <3>1. i <= packet_id'
      BY <1>1, <2>1
    <3> QED BY <1>1, <2>1, <2>4, <2>5, <2>7, <3>1 DEF IdInv
  <2>9. NodeInv'
    BY <1>1, <2>5, <2>7 DEF NodeInv
  <2>10. GrantInv'
    BY <1>1, <2>4, <2>5, <2>7 DEF GrantInv
  <2>11. CallInv'
    BY <1>1, <2>1, <2>7 DEF CallInv, TypeOK
  <2>12. DueInv'
    BY <1>1 DEF DueInv, ServedAfterReturn
  <2> QED BY <2>6, <2>8, <2>9, <2>10, <2>11, <2>12
<1>3. CASE conn # "up"
  <2>1. UNCHANGED <<packet_id, up, ret>> /\ pc' = [pc EXCEPT ![t] = "returned"]
    BY <1>3 DEF SendSubscribe
  <2>2. TypeOK'
    BY <1>1, <2>1 DEF TypeOK
  <2>3. CallInv'
    BY <1>1, <2>1 DEF CallInv, TypeOK
  <2>4. IdInv' /\ NodeInv' /\ GrantInv' /\ DueInv'
    BY <1>1, <2>1 DEF IdInv, NodeInv, GrantInv, DueInv, ServedAfterReturn
  <2> QED BY <2>2, <2>3, <2>4
<1> QED BY <1>2, <1>3

LEMMA RegisterKeeps ==
    ASSUME SubscribeInv, NEW t \in Callers, Register(t)
    PROVE  SubscribeInv'
<1> USE DEF SubscribeInv, Register, yielding, network, history, Goto
<1>1. TypeOK'
  <2>1. list_sub_handle' \subseteq Handlers
    <3>1. list_sub_handle' = list_sub_handle \cup {HandlerOf[t]} /\ HandlerOf[t] \in Handlers
      BY SubscribeAssumption
    <3>2. list_sub_handle \subseteq Handlers
      BY DEF TypeOK
    <3> HIDE DEF Register
    <3> QED BY <3>1, <3>2
  <2>2. pc' = [pc EXCEPT ![t] = "returned"]
        /\ UNCHANGED <<packet_id, in_yield_cb, list_sub_sync_ack, ret, subed, result,
                       yielding, network, history>>
    OBVIOUS
  <2> HIDE DEF Register
  <2> QED BY <2>1, <2>2 DEF TypeOK
<1>2. CallInv'
  BY DEF CallInv, TypeOK
<1>3. IdInv' /\ NodeInv' /\ GrantInv' /\ DueInv'
  BY DEF IdInv, NodeInv, GrantInv, DueInv, ServedAfterReturn
<1> QED BY <1>1, <1>2, <1>3

\* A node is added for an identifier that has none.
LEMMA InsertKeeps ==
    ASSUME SubscribeInv, NEW t \in Callers, InsertNode(t)
    PROVE  SubscribeInv'
<1> USE DEF SubscribeInv, yielding, network, history, Goto
<1> DEFINE n == [packet_id |-> ret[t], ack_type |-> "UNDEF"]
<1>1. /\ pc[t] \in {"returned", "again"} /\ pc' = [pc EXCEPT ![t] = "yield"]
      /\ UNCHANGED <<packet_id, in_yield_cb, list_sub_handle, ret, result, yielding, network,
                     history>>
  BY DEF InsertNode
<1>2. GrantInv' /\ IdInv' /\ NodeInv' /\ list_sub_sync_ack' \in Seq(Node)
      /\ (UNCHANGED subed \/ (subed' = [subed EXCEPT ![t] = 1] /\ ret[t] # Failed))
  <2>1. CASE subed[t] = 0 /\ ret[t] # Failed
    <3>1. list_sub_sync_ack' = Append(list_sub_sync_ack, n) /\ subed' = [subed EXCEPT ![t] = 1]
      BY <2>1 DEF InsertNode
    <3>2. n \in Node /\ list_sub_sync_ack \in Seq(Node)
      BY <2>1 DEF Node, TypeOK
    <3>3. /\ list_sub_sync_ack' \in Seq(Node)
          /\ Elements(list_sub_sync_ack') = Elements(list_sub_sync_ack) \cup {n}
      BY <3>1, <3>2, AppendElements
    <3>4. \A x \in Elements(list_sub_sync_ack') :
            x \in Elements(list_sub_sync_ack) \/ (x.packet_id = ret[t] /\ x.ack_type = "UNDEF")
      BY <3>3
    <3>5. /\ Len(list_sub_sync_ack) \in Nat
          /\ DOMAIN list_sub_sync_ack = 1 .. Len(list_sub_sync_ack)
          /\ DOMAIN list_sub_sync_ack' = 1 .. Len(list_sub_sync_ack) + 1
          /\ list_sub_sync_ack'[Len(list_sub_sync_ack) + 1].packet_id = ret[t]
          /\ \A k \in DOMAIN list_sub_sync_ack : list_sub_sync_ack'[k] = list_sub_sync_ack[k]
      BY <3>1, <3>2, AppendProperties
    <3> HIDE DEF n
    <3>6. \A k \in DOMAIN list_sub_sync_ack : list_sub_sync_ack[k].packet_id # ret[t]
      BY <2>1 DEF NodeInv, Elements
    <3>7. \A j, k \in DOMAIN list_sub_sync_ack' :
            list_sub_sync_ack'[j].packet_id = list_sub_sync_ack'[k].packet_id => j = k
      BY <3>5, <3>6 DEF NodeInv
    <3>8. \A u \in Callers : \A x \in Elements(list_sub_sync_ack') :
            x.packet_id = ret[u] => subed'[u] = 1
      BY <2>1, <3>1, <3>4 DEF NodeInv, IdInv, TypeOK
    <3>9. NodeInv'
      BY <1>1, <3>7, <3>8 DEF NodeInv
    <3>10. IdInv' /\ GrantInv'
      BY <1>1, <3>4 DEF IdInv, GrantInv
    <3> QED BY <2>1, <3>1, <3>3, <3>9, <3>10
  <2>2. CASE ~(subed[t] = 0 /\ ret[t] # Failed)
    <3>1. UNCHANGED <<list_sub_sync_ack, subed>>
      BY <2>2, Zenon DEF InsertNode
    <3>2. list_sub_sync_ack' \in Seq(Node)
      BY <3>1 DEF TypeOK
    <3> QED BY <1>1, <3>1, <3>2 DEF IdInv, NodeInv, GrantInv
  <2> QED BY <2>1, <2>2
<1>3. TypeOK'
  BY <1>1, <1>2 DEF TypeOK
<1>4. CallInv'
  BY <1>1, <1>2 DEF CallInv, TypeOK
<1>5. DueInv'
  BY <1>1 DEF DueInv, ServedAfterReturn
<1> QED BY <1>2, <1>3, <1>4, <1>5

\* The node at the head is deleted: the call returns, or subscribes again.
LEMMA ScanKeeps ==
    ASSUME SubscribeInv, NEW t \in Callers, ScanSuccess(t) \/ ScanNack(t)
    PROVE  SubscribeInv'
<1> USE DEF SubscribeInv, yielding, network, history, Goto
<1>1. /\ list_sub_sync_ack # <<>> /\ pc[t] = "scan"
      /\ Head(list_sub_sync_ack).packet_id = ret[t]
      /\ list_sub_sync_ack' = Tail(list_sub_sync_ack)
      /\ UNCHANGED <<packet_id, in_yield_cb, list_sub_handle, yielding, network, history>>
  BY DEF ScanSuccess, ScanNack, Granted, Denied, HeadIs
<1>2. /\ list_sub_sync_ack' \in Seq(Node)
      /\ Elements(list_sub_sync_ack') \subseteq Elements(list_sub_sync_ack)
      /\ Head(list_sub_sync_ack) \in Elements(list_sub_sync_ack)
      /\ \A k \in DOMAIN list_sub_sync_ack' :
           /\ k + 1 \in DOMAIN list_sub_sync_ack /\ k \in Int
           /\ list_sub_sync_ack'[k] = list_sub_sync_ack[k + 1]
  <2>1. list_sub_sync_ack \in Seq(Node)
    BY DEF TypeOK
  <2>2. \A k \in DOMAIN list_sub_sync_ack' : k \in Int
    BY <1>1, <2>1, TailElements
  <2> QED BY <1>1, <2>1, <2>2, TailElements
<1>3. \A j, k \in DOMAIN list_sub_sync_ack' :
        list_sub_sync_ack'[j].packet_id = list_sub_sync_ack'[k].packet_id => j = k
  BY <1>2 DEF NodeInv
<1>4. CASE ScanSuccess(t)
  <2>1. /\ result' = [result EXCEPT ![t] = "ok"] /\ pc' = [pc EXCEPT ![t] = "done"]
        /\ UNCHANGED <<ret, subed>> /\ Head(list_sub_sync_ack).ack_type = "SUCCESS"
    BY <1>4 DEF ScanSuccess, Granted, HeadIs
  <2>2. subed[t] = 1 /\ ret[t] \in acked
    BY <1>1, <1>2, <2>1 DEF NodeInv, GrantInv
  <2>3. TypeOK'
    BY <1>1, <1>2, <2>1 DEF TypeOK
  <2>4. IdInv' /\ NodeInv' /\ GrantInv'
    BY <1>1, <1>2, <1>3, <2>1 DEF IdInv, NodeInv, GrantInv
  <2>5. CallInv'
    BY <1>1, <2>1, <2>2 DEF CallInv, TypeOK
  <2>6. DueInv'
    BY <1>1 DEF DueInv, ServedAfterReturn
  <2> QED BY <2>3, <2>4, <2>5, <2>6
<1>5. CASE ScanNack(t)
  <2>1. /\ ret' = [ret EXCEPT ![t] = Failed] /\ subed' = [subed EXCEPT ![t] = 0]
        /\ pc' = [pc EXCEPT ![t] = "timer"] /\ UNCHANGED result
    BY <1>5 DEF ScanNack
  <2>2. TypeOK'
    BY <1>1, <1>2, <2>1 DEF TypeOK
  <2>3. /\ \A n \in Elements(list_sub_sync_ack) : n.packet_id # Failed
        /\ \A r \in Elements(up) : r.id # Failed
        /\ \A m \in Elements(down) : m.type = "SUCCESS" => m.id # Failed
        /\ Failed \notin acked /\ Failed <= packet_id
    <3>1. Elements(list_sub_sync_ack) \subseteq Node
      BY ElementsTyped DEF TypeOK
    <3>2. Elements(up) \subseteq Request
      BY ElementsTyped DEF TypeOK
    <3>3. Elements(down) \subseteq Answer \cup Delivery
      BY ElementsTyped DEF TypeOK
    <3>4. \A i \in Ids : i # Failed
      BY DEF Ids, Failed
    <3>5. acked \subseteq Ids /\ Failed <= packet_id
      BY SubscribeAssumption DEF TypeOK, Failed
    <3> QED BY <3>1, <3>2, <3>3, <3>4, <3>5 DEF Node, Request, Answer, Delivery
  <2>4. \A u \in Callers : /\ ret'[u] = IF u = t THEN Failed ELSE ret[u]
                           /\ subed'[u] = IF u = t THEN 0 ELSE subed[u]
    BY <2>1 DEF TypeOK
  <2>5. IdInv'
    BY <1>1, <1>2, <2>3, <2>4 DEF IdInv
  <2>6. NodeInv'
    BY <1>1, <1>2, <1>3, <2>3, <2>4 DEF NodeInv
  <2>7. GrantInv'
    BY <1>1, <1>2, <2>3, <2>4 DEF GrantInv
  <2>8. CallInv'
    BY <1>1, <2>1, <2>4 DEF CallInv, TypeOK
  <2>9. DueInv'
    BY <1>1 DEF DueInv, ServedAfterReturn
  <2> QED BY <2>2, <2>5, <2>6, <2>7, <2>8, <2>9
<1> QED BY <1>4, <1>5

\* The timer expires: whatever node there is is deleted.
LEMMA TimeOutKeeps ==
    ASSUME SubscribeInv, NEW t \in Callers, TimeOut(t)
    PROVE  SubscribeInv'
<1> USE DEF SubscribeInv, yielding, network, history, Goto
<1>1. /\ pc[t] = "timer" /\ pc' = [pc EXCEPT ![t] = "done"]
      /\ result' = [result EXCEPT ![t] = "fail"]
      /\ UNCHANGED <<packet_id, in_yield_cb, list_sub_handle, ret, subed, yielding, network,
                     history>>
  BY DEF TimeOut
<1>2. /\ list_sub_sync_ack' \in Seq(Node)
      /\ Elements(list_sub_sync_ack') \subseteq Elements(list_sub_sync_ack)
      /\ \A i, j \in DOMAIN list_sub_sync_ack' : \E m, n \in DOMAIN list_sub_sync_ack :
           /\ list_sub_sync_ack'[i] = list_sub_sync_ack[m]
           /\ list_sub_sync_ack'[j] = list_sub_sync_ack[n] /\ (m = n => i = j)
  <2>1. list_sub_sync_ack \in Seq(Node)
    BY DEF TypeOK
  <2>2. CASE UNCHANGED list_sub_sync_ack
    BY <2>1, <2>2
  <2>3. CASE \E k \in DOMAIN list_sub_sync_ack :
               list_sub_sync_ack' = [j \in 1 .. Len(list_sub_sync_ack) - 1 |->
                                       list_sub_sync_ack[IF j < k THEN j ELSE j + 1]]
    <3>1. PICK k \in DOMAIN list_sub_sync_ack :
            list_sub_sync_ack' = [j \in 1 .. Len(list_sub_sync_ack) - 1 |->
                                    list_sub_sync_ack[IF j < k THEN j ELSE j + 1]]
      BY <2>3
    <3> QED BY <2>1, <3>1, RemovedElements
  <2> QED BY <2>2, <2>3, Zenon DEF TimeOut, Discard
<1>3. TypeOK'
  BY <1>1, <1>2 DEF TypeOK
<1>4. IdInv' /\ NodeInv' /\ GrantInv'
  BY <1>1, <1>2 DEF IdInv, NodeInv, GrantInv
<1>5. CallInv'
  BY <1>1 DEF CallInv, TypeOK
<1>6. DueInv'
  BY <1>1 DEF DueInv, ServedAfterReturn
<1> QED BY <1>3, <1>4, <1>5, <1>6

-----------------------------------------------------------------------------
(* The yield.                                                                *)

LEMMA YieldKeeps ==
    ASSUME SubscribeInv,
           (\E y \in Callers \cup {Yielder} : YieldLock(y) \/ YieldUnlock(y))
           \/ Reconnect \/ CallbackReturns
    PROVE  SubscribeInv'
<1> USE DEF SubscribeInv, client, locals, yielding, network, history
<1>1. CASE Reconnect \/ CallbackReturns
  <2>1. TypeOK'
    BY <1>1 DEF Reconnect, CallbackReturns, TypeOK
  <2>2. IdInv' /\ NodeInv' /\ GrantInv' /\ CallInv' /\ DueInv'
    BY <1>1 DEF Reconnect, CallbackReturns, IdInv, NodeInv, GrantInv, CallInv, DueInv,
                ServedAfterReturn
  <2> QED BY <2>1, <2>2
<1>2. ASSUME NEW y \in Callers \cup {Yielder}, YieldLock(y)
      PROVE  SubscribeInv'
  <2>1. TypeOK'
    BY <1>2 DEF YieldLock, TypeOK
  <2>2. IdInv' /\ NodeInv' /\ GrantInv' /\ DueInv'
    BY <1>2 DEF YieldLock, IdInv, NodeInv, GrantInv, DueInv, ServedAfterReturn
  <2>3. lock_yield' = y /\ (y \in Callers => pc[y] = "yield")
    BY <1>2, SubscribeAssumption DEF YieldLock
  <2>4. CallInv'
    BY <1>2, <2>3 DEF YieldLock, CallInv
  <2> QED BY <2>1, <2>2, <2>4
<1>3. ASSUME NEW y \in Callers \cup {Yielder}, YieldUnlock(y)
      PROVE  SubscribeInv'
  <2>1. lock_yield = y /\ lock_yield' = NoThread
        /\ (pc' = pc \/ (y # Yielder /\ pc' = [pc EXCEPT ![y] = "scan"]))
        /\ UNCHANGED <<client, ret, subed, result, callback, network, history>>
    BY <1>3, Zenon DEF YieldUnlock
  <2>2. NoThread \notin Callers
    BY SubscribeAssumption
  <2>3. TypeOK'
    BY <2>1 DEF TypeOK
  <2>4. CallInv'
    BY <2>1, <2>2 DEF CallInv, TypeOK
  <2>5. IdInv' /\ NodeInv' /\ GrantInv' /\ DueInv'
    BY <2>1 DEF IdInv, NodeInv, GrantInv, DueInv, ServedAfterReturn
  <2> QED BY <2>3, <2>4, <2>5
<1> QED BY <1>1, <1>2, <1>3

\* A SUBACK is read, and the nodes of its identifier are marked.
LEMMA SubackKeeps ==
    ASSUME SubscribeInv, iotx_mc_handle_recv_SUBACK
    PROVE  SubscribeInv'
<1> USE DEF SubscribeInv, locals
<1> DEFINE i == Head(down).id   type == Head(down).type
<1>1. /\ down # <<>> /\ down' = Tail(down) /\ type \in {"SUCCESS", "NACK"}
      /\ list_sub_sync_ack' = Mark(i, type)
      /\ acked' = (IF type = "SUCCESS" THEN acked \cup {i} ELSE acked)
      /\ in_yield_cb' = 1 /\ callback' = "yes"
      /\ UNCHANGED <<packet_id, list_sub_handle, locals, lock_yield, conn, up, subscribed,
                     faults, messages, unserved>>
  BY DEF iotx_mc_handle_recv_SUBACK
<1>2. /\ down' \in Seq(Answer \cup Delivery) /\ Elements(down') \subseteq Elements(down)
      /\ Head(down) \in Elements(down) /\ Head(down) \in Answer \cup Delivery
  BY <1>1, TailElements DEF TypeOK
<1>3. /\ i \in Ids /\ i <= packet_id
      /\ \A t \in Callers : type = "SUCCESS" /\ i = ret[t] => HandlerOf[t] \in subscribed
  BY <1>1, <1>2 DEF IdInv, GrantInv, Answer, Delivery
<1> HIDE DEF i, type
<1>4. /\ DOMAIN list_sub_sync_ack' = DOMAIN list_sub_sync_ack
      /\ list_sub_sync_ack' \in Seq(Node)
      /\ \A k \in DOMAIN list_sub_sync_ack :
           /\ list_sub_sync_ack'[k].packet_id = list_sub_sync_ack[k].packet_id
           /\ list_sub_sync_ack'[k].ack_type =
                IF list_sub_sync_ack[k].packet_id = i THEN type
                                                      ELSE list_sub_sync_ack[k].ack_type
  <2> DEFINE Marked(n) == IF n.packet_id = i THEN [n EXCEPT !.ack_type = type] ELSE n
  <2>1. list_sub_sync_ack' = [k \in DOMAIN list_sub_sync_ack |-> Marked(list_sub_sync_ack[k])]
    BY <1>1 DEF Mark
  <2>2. ASSUME NEW n \in Node
        PROVE  /\ Marked(n) \in Node /\ Marked(n).packet_id = n.packet_id
               /\ Marked(n).ack_type = IF n.packet_id = i THEN type ELSE n.ack_type
    BY <1>1 DEF Node
  <2> HIDE DEF Marked
  <2>3. list_sub_sync_ack \in Seq(Node)
    BY DEF TypeOK
  <2>4. \A k \in DOMAIN list_sub_sync_ack : list_sub_sync_ack[k] \in Node
    BY <2>3
  <2>5. list_sub_sync_ack' \in Seq(Node)
    <3>1. Len(list_sub_sync_ack) \in Nat
          /\ DOMAIN list_sub_sync_ack = 1 .. Len(list_sub_sync_ack)
      BY <2>3
    <3>2. \A k \in 1 .. Len(list_sub_sync_ack) : Marked(list_sub_sync_ack[k]) \in Node
      BY <2>2, <2>4, <3>1
    <3>3. list_sub_sync_ack' \in [1 .. Len(list_sub_sync_ack) -> Node]
      BY <2>1, <3>1, <3>2, Zenon
    <3> QED BY <3>1, <3>3
  <2> QED BY <2>1, <2>2, <2>4, <2>5
<1>5. \A n \in Elements(list_sub_sync_ack') : \E m \in Elements(list_sub_sync_ack) :
        /\ n.packet_id = m.packet_id
        /\ n.ack_type = IF m.packet_id = i THEN type ELSE m.ack_type
  BY <1>4, Zenon DEF Elements
<1>6. TypeOK'
  <2>1. acked' \subseteq Ids
    BY <1>1, <1>3 DEF TypeOK
  <2> QED BY <1>1, <1>2, <1>4, <2>1 DEF TypeOK
<1>7. IdInv'
  <2>1. \A n \in Elements(list_sub_sync_ack') : n.packet_id <= packet_id
    BY <1>5 DEF IdInv
  <2> QED BY <1>1, <1>2, <1>3, <2>1 DEF IdInv
<1>8. NodeInv'
  <2>1. \A t \in Callers : \A n \in Elements(list_sub_sync_ack') :
          n.packet_id = ret[t] => subed[t] = 1
    BY <1>5 DEF NodeInv
  <2> QED BY <1>1, <1>4, <2>1 DEF NodeInv
<1>9. GrantInv'
  <2>1. \A n \in Elements(list_sub_sync_ack') : n.ack_type = "SUCCESS" => n.packet_id \in acked'
    BY <1>1, <1>5 DEF GrantInv
  <2>2. \A t \in Callers : ret[t] \in acked' => HandlerOf[t] \in subscribed
    BY <1>1, <1>3 DEF GrantInv
  <2> QED BY <1>1, <1>2, <2>1, <2>2 DEF GrantInv
<1>10. CallInv'
  BY <1>1 DEF CallInv
<1>11. DueInv'
  BY <1>1, <1>2 DEF DueInv, ServedAfterReturn
<1> QED BY <1>6, <1>7, <1>8, <1>9, <1>10, <1>11

LEMMA DeliverKeeps ==
    ASSUME SubscribeInv, iotx_mc_deliver_message
    PROVE  SubscribeInv'
<1> USE DEF SubscribeInv, locals
<1>1. /\ down # <<>> /\ down' = Tail(down) /\ Head(down).type = "PUBLISH"
      /\ unserved' = (IF Head(down).due /\ Head(down).handler \notin list_sub_handle
                      THEN unserved \cup {Head(down).handler} ELSE unserved)
      /\ in_yield_cb' = 1 /\ callback' = "yes"
      /\ UNCHANGED <<packet_id, list_sub_handle, list_sub_sync_ack, locals, lock_yield, conn, up,
                     subscribed, faults, messages, acked>>
  BY DEF iotx_mc_deliver_message
<1>2. /\ down' \in Seq(Answer \cup Delivery) /\ Elements(down') \subseteq Elements(down)
      /\ Head(down) \in Elements(down)
  BY <1>1, TailElements DEF TypeOK
<1>3. unserved' = unserved
  BY <1>1, <1>2 DEF DueInv
<1>4. TypeOK'
  BY <1>1, <1>2, <1>3 DEF TypeOK
<1>5. IdInv' /\ NodeInv' /\ GrantInv' /\ CallInv' /\ DueInv'
  BY <1>1, <1>2, <1>3 DEF IdInv, NodeInv, GrantInv, CallInv, DueInv, ServedAfterReturn
<1> QED BY <1>4, <1>5

-----------------------------------------------------------------------------
LEMMA SubscribeStep == SubscribeInv /\ [Next]_vars => SubscribeInv'
<1> SUFFICES ASSUME SubscribeInv, [Next]_vars PROVE SubscribeInv'
  OBVIOUS
<1>1. CASE UNCHANGED vars
  <2> USE <1>1 DEF vars, client, locals, yielding, network, history, SubscribeInv
  <2>1. TypeOK'
    BY DEF TypeOK
  <2>2. IdInv' /\ NodeInv' /\ GrantInv' /\ CallInv' /\ DueInv'
    BY DEF IdInv, NodeInv, GrantInv, CallInv, DueInv, ServedAfterReturn
  <2> QED BY <2>1, <2>2
<1>2. ASSUME NEW t \in Callers, Call(t) \/ Caller(t)
      PROVE  SubscribeInv'
  BY <1>2, CallGoesOn, SendKeeps, RegisterKeeps, InsertKeeps, ScanKeeps, TimeOutKeeps DEF Caller
<1>3. CASE (\E y \in Callers \cup {Yielder} : YieldLock(y)) \/ Processing \/ YieldUnlocks
  BY <1>3, YieldKeeps, SubackKeeps, DeliverKeeps DEF Processing, YieldUnlocks
<1>4. CASE BrokerSubscribe \/ ConnectionReset \/ \E h \in Handlers : BrokerPublish(h)
  BY <1>4, BrokerKeeps
<1> QED BY <1>1, <1>2, <1>3, <1>4, Zenon DEF Next

LEMMA SubscribeInvariant == Spec => []SubscribeInv
BY SubscribeInit, SubscribeStep, PTL DEF Spec, Safety

\* Each variable has its type.
THEOREM TypeInvariant == Spec => []TypeOK
BY SubscribeInvariant, PTL DEF SubscribeInv

\* A call of wrapper_mqtt_subscribe_sync that waited for its SUBACK and returns
\* success was granted by the broker (WaitedCallWasGranted), whatever other
\* calls, refusals, resets and retries with new identifiers come in between.
THEOREM WaitedIsGranted == Spec => []WaitedCallWasGranted
<1>1. SubscribeInv => WaitedCallWasGranted
  BY DEF SubscribeInv, CallInv, GrantInv, WaitedCallWasGranted
<1> QED BY <1>1, SubscribeInvariant, PTL

\* iotx_mc_deliver_message gives a message that the broker sends after a call
\* for its topic has returned success to the handler of that call
\* (ServedAfterReturn).
THEOREM ReturnedIsServed == Spec => []ServedAfterReturn
<1>1. SubscribeInv => ServedAfterReturn
  BY DEF SubscribeInv, DueInv
<1> QED BY <1>1, SubscribeInvariant, PTL

=============================================================================

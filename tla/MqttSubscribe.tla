---------------------------- MODULE MqttSubscribe ----------------------------
(***************************************************************************)
(* Synchronous subscriptions of the MQTT client: wrapper_mqtt_subscribe_   *)
(* sync with MQTTSubscribe, the list of SUBACKs waited for, the list of    *)
(* topic handlers and the delivery of messages, iotx_mqtt_client.c.        *)
(*                                                                         *)
(* Several threads subscribe at once while another runs the yield loop;    *)
(* each of them may process packets, one at a time under lock_yield.  A    *)
(* callback sets the global _in_yield_cb, which every thread reads.        *)
(*                                                                         *)
(* Abstractions.  A handler stands for its topic filter, function and      *)
(* context; topics are matched in MqttTopic.  Sending is atomic under      *)
(* lock_write_buf, and each access of a list under lock_generic.  A timer  *)
(* may be found expired at each check.  The network is two FIFO channels   *)
(* that a reset empties.  Identifiers do not wrap.                         *)
(***************************************************************************)
EXTENDS Integers, Sequences

CONSTANTS
  Callers,       \* threads that each make one call of subscribe_sync
  Yielder,       \* the thread of the application's yield loop
  NoThread,
  Handlers,      \* topic filters with their functions
  HandlerOf,     \* [Callers -> Handlers]: what each call registers
  MaxFaults,     \* bound: connection resets and refused subscriptions
  MaxMessages,   \* bound: messages the broker publishes
  MaxId          \* bound: packet identifiers

ASSUME SubscribeAssumption ==
  /\ HandlerOf \in [Callers -> Handlers]
  /\ MaxFaults \in Nat /\ MaxMessages \in Nat /\ MaxId \in Nat
  /\ Yielder \notin Callers /\ NoThread \notin Callers \cup {Yielder}

VARIABLES
  packet_id,          \* c->packet_id
  in_yield_cb,        \* the global _in_yield_cb
  list_sub_handle,    \* registered handlers
  list_sub_sync_ack,  \* nodes [packet_id, ack_type], in order
  lock_yield,         \* the thread that holds it
  pc,                 \* of each caller
  ret, subed,         \* its local variables
  result,             \* what its call returned: "none", "ok", "fail"
  callback,           \* the holder of lock_yield is in a callback: "no", "yes"
  conn,               \* "up", or "down" until reconnected
  up, down,           \* packets in flight
  subscribed,         \* handlers whose filter the broker knows
  faults, messages,   \* bounds
  acked,              \* history: identifiers whose positive SUBACK was read
  unserved            \* history: messages due to a handler that it did not get

client  == <<packet_id, in_yield_cb, list_sub_handle, list_sub_sync_ack>>
locals  == <<pc, ret, subed, result>>
yielding == <<lock_yield, callback>>
network == <<conn, up, down, subscribed, faults, messages>>
history == <<acked, unserved>>
vars    == <<client, locals, yielding, network, history>>

Failed == -1    \* a negative return code of wrapper_mqtt_subscribe

Init ==
  /\ packet_id = 0 /\ in_yield_cb = 0
  /\ list_sub_handle = {} /\ list_sub_sync_ack = <<>>
  /\ lock_yield = NoThread /\ callback = "no"
  /\ pc = [t \in Callers |-> "idle"] /\ ret = [t \in Callers |-> Failed]
  /\ subed = [t \in Callers |-> 0] /\ result = [t \in Callers |-> "none"]
  /\ conn = "up" /\ up = <<>> /\ down = <<>> /\ subscribed = {}
  /\ faults = 0 /\ messages = 0
  /\ acked = {} /\ unserved = {}

Suback(i, type) == [type |-> type, id |-> i]
Message(h, due) == [type |-> "PUBLISH", handler |-> h, due |-> due]

-----------------------------------------------------------------------------
(* The broker and the network (external).                                  *)

BrokerSubscribe ==
  /\ up # <<>>
  /\ up' = Tail(up)
  /\ \/ /\ down' = Append(down, Suback(Head(up).id, "SUCCESS"))
        /\ subscribed' = subscribed \cup {Head(up).handler}
        /\ UNCHANGED faults
     \/ /\ faults < MaxFaults /\ faults' = faults + 1
        /\ down' = Append(down, Suback(Head(up).id, "NACK"))
        /\ UNCHANGED subscribed
  /\ UNCHANGED <<client, locals, yielding, conn, messages, history>>

\* A message is due to its handler if a call that registered it had returned
\* success when the broker sent it.
BrokerPublish(h) ==
  /\ h \in subscribed /\ messages < MaxMessages /\ conn = "up"
  /\ messages' = messages + 1
  /\ down' = Append(down, Message(h, \E t \in Callers :
                                       HandlerOf[t] = h /\ result[t] = "ok"))
  /\ UNCHANGED <<client, locals, yielding, conn, up, subscribed, faults, history>>

ConnectionReset ==
  /\ conn = "up" /\ faults < MaxFaults
  /\ faults' = faults + 1
  /\ conn' = "down" /\ up' = <<>> /\ down' = <<>>
  /\ UNCHANGED <<client, locals, yielding, subscribed, messages, history>>

-----------------------------------------------------------------------------
(* wrapper_mqtt_subscribe_sync by thread t.                                 *)

Goto(t, l) == pc' = [pc EXCEPT ![t] = l]

Call(t) ==
  /\ pc[t] = "idle"
  /\ Goto(t, "subscribe")
  /\ UNCHANGED <<client, ret, subed, result, yielding, network, history>>

\* wrapper_mqtt_subscribe up to the end of the write.  The identifier is taken
\* before the state is checked; one that is not sent is not counted.
SendSubscribe(t) ==
  /\ pc[t] = "subscribe" /\ packet_id < MaxId
  /\ IF conn = "up"
       THEN /\ packet_id' = packet_id + 1
            /\ up' = Append(up, [id |-> packet_id', handler |-> HandlerOf[t]])
            /\ ret' = [ret EXCEPT ![t] = packet_id']
            /\ Goto(t, "register")
       ELSE /\ UNCHANGED <<packet_id, up, ret>>
            /\ Goto(t, "returned")
  /\ UNCHANGED <<in_yield_cb, list_sub_handle, list_sub_sync_ack, subed, result,
                 yielding, conn, down, subscribed, faults, messages, history>>

\* Mistake: the handler is not put in the list.
RegisterNothing(t) ==
  /\ pc[t] = "register"
  /\ Goto(t, "returned")
  /\ UNCHANGED <<client, ret, subed, result, yielding, network, history>>

\* The rest of MQTTSubscribe: an identical handler is not added again.
Register(t) ==
  /\ pc[t] = "register"
  /\ list_sub_handle' = list_sub_handle \cup {HandlerOf[t]}
  /\ Goto(t, "returned")
  /\ UNCHANGED <<packet_id, in_yield_cb, list_sub_sync_ack, ret, subed, result,
                 yielding, network, history>>

Outcome(t) == IF ret[t] = Failed THEN "fail" ELSE "ok"

\* _is_in_yield_cb() != 0: the call returns whatever subscribe returned.
ReturnInCallback(t) ==
  /\ pc[t] = "returned" /\ in_yield_cb = 1
  /\ result' = [result EXCEPT ![t] = Outcome(t)]
  /\ Goto(t, "done")
  /\ UNCHANGED <<client, ret, subed, yielding, network, history>>

InsertNode(t) ==
  /\ \/ pc[t] = "returned" /\ in_yield_cb = 0
     \/ pc[t] = "again"
  /\ IF subed[t] = 0 /\ ret[t] # Failed
       THEN /\ list_sub_sync_ack' =
                 Append(list_sub_sync_ack, [packet_id |-> ret[t], ack_type |-> "UNDEF"])
            /\ subed' = [subed EXCEPT ![t] = 1]
       ELSE UNCHANGED <<list_sub_sync_ack, subed>>
  /\ Goto(t, "yield")
  /\ UNCHANGED <<packet_id, in_yield_cb, list_sub_handle, ret, result, yielding,
                 network, history>>

\* The scan breaks after its first node.
HeadIs(t, types) ==
  /\ list_sub_sync_ack # <<>>
  /\ Head(list_sub_sync_ack).packet_id = ret[t]
  /\ Head(list_sub_sync_ack).ack_type \in types

\* Mistake: a refusal is taken for an acknowledgement.
GrantedAny(t) == HeadIs(t, {"SUCCESS", "NACK"})
Granted(t) == HeadIs(t, {"SUCCESS"})
Denied(t)  == HeadIs(t, {"NACK"})

ScanSuccess(t) ==
  /\ pc[t] = "scan" /\ Granted(t)
  /\ list_sub_sync_ack' = Tail(list_sub_sync_ack)
  /\ result' = [result EXCEPT ![t] = "ok"]
  /\ Goto(t, "done")
  /\ UNCHANGED <<packet_id, in_yield_cb, list_sub_handle, ret, subed, yielding,
                 network, history>>

ScanNack(t) ==
  /\ pc[t] = "scan" /\ Denied(t)
  /\ list_sub_sync_ack' = Tail(list_sub_sync_ack)
  /\ ret' = [ret EXCEPT ![t] = Failed]
  /\ subed' = [subed EXCEPT ![t] = 0]
  /\ Goto(t, "timer")
  /\ UNCHANGED <<packet_id, in_yield_cb, list_sub_handle, result, yielding,
                 network, history>>

ScanNothing(t) ==
  /\ pc[t] = "scan" /\ ~HeadIs(t, {"SUCCESS", "NACK"})
  /\ Goto(t, "timer")
  /\ UNCHANGED <<client, ret, subed, result, yielding, network, history>>

LoopAgain(t) ==
  /\ pc[t] = "timer"
  /\ Goto(t, IF ret[t] = Failed THEN "subscribe" ELSE "again")
  /\ UNCHANGED <<client, ret, subed, result, yielding, network, history>>

\* Mistake: the timer is set again instead of giving up.
TimeOutRestarts(t) ==
  /\ pc[t] = "timer"
  /\ Goto(t, "again")
  /\ UNCHANGED <<client, ret, subed, result, yielding, network, history>>

\* The node of identifier i is deleted: there is one at most.
Discard(i) ==
  \/ /\ \A k \in DOMAIN list_sub_sync_ack : list_sub_sync_ack[k].packet_id # i
     /\ UNCHANGED list_sub_sync_ack
  \/ \E k \in DOMAIN list_sub_sync_ack :
       /\ list_sub_sync_ack[k].packet_id = i
       /\ list_sub_sync_ack' = [j \in 1 .. Len(list_sub_sync_ack) - 1 |->
                                  list_sub_sync_ack[IF j < k THEN j ELSE j + 1]]

TimeOut(t) ==
  /\ pc[t] = "timer"
  /\ Discard(ret[t])
  /\ result' = [result EXCEPT ![t] = "fail"]
  /\ Goto(t, "done")
  /\ UNCHANGED <<packet_id, in_yield_cb, list_sub_handle, ret, subed, yielding,
                 network, history>>

Caller(t) ==
  \/ SendSubscribe(t) \/ Register(t) \/ ReturnInCallback(t) \/ InsertNode(t)
  \/ ScanSuccess(t) \/ ScanNack(t) \/ ScanNothing(t) \/ LoopAgain(t) \/ TimeOut(t)

-----------------------------------------------------------------------------
(* wrapper_mqtt_yield by a caller or by the yield loop.                     *)

YieldLock(y) ==
  /\ lock_yield = NoThread
  /\ y # Yielder => pc[y] = "yield"
  /\ lock_yield' = y
  /\ UNCHANGED <<client, locals, callback, network, history>>

\* iotx_mc_keepalive connects again.
Reconnect ==
  /\ lock_yield # NoThread /\ callback = "no" /\ conn = "down"
  /\ conn' = "up"
  /\ UNCHANGED <<client, locals, yielding, up, down, subscribed, faults, messages,
                 history>>

\* _iotx_mqtt_event_handle_sub
Mark(i, type) ==
  [k \in DOMAIN list_sub_sync_ack |->
     IF list_sub_sync_ack[k].packet_id = i
       THEN [list_sub_sync_ack[k] EXCEPT !.ack_type = type]
       ELSE list_sub_sync_ack[k]]

\* The event is then given to the application's handle_event.
iotx_mc_handle_recv_SUBACK ==
  /\ lock_yield # NoThread /\ callback = "no"
  /\ down # <<>> /\ Head(down).type \in {"SUCCESS", "NACK"}
  /\ down' = Tail(down)
  /\ list_sub_sync_ack' = Mark(Head(down).id, Head(down).type)
  /\ acked' = IF Head(down).type = "SUCCESS" THEN acked \cup {Head(down).id} ELSE acked
  /\ in_yield_cb' = 1 /\ callback' = "yes"
  /\ UNCHANGED <<packet_id, list_sub_handle, locals, lock_yield, conn, up,
                 subscribed, faults, messages, unserved>>

\* The handler of the topic, or the default one, is called.
iotx_mc_deliver_message ==
  /\ lock_yield # NoThread /\ callback = "no"
  /\ down # <<>> /\ Head(down).type = "PUBLISH"
  /\ down' = Tail(down)
  /\ unserved' = IF Head(down).due /\ Head(down).handler \notin list_sub_handle
                   THEN unserved \cup {Head(down).handler} ELSE unserved
  /\ in_yield_cb' = 1 /\ callback' = "yes"
  /\ UNCHANGED <<packet_id, list_sub_handle, list_sub_sync_ack, locals, lock_yield,
                 conn, up, subscribed, faults, messages, acked>>

\* The end of _handle_event.
CallbackReturns ==
  /\ callback = "yes"
  /\ in_yield_cb' = 0 /\ callback' = "no"
  /\ UNCHANGED <<packet_id, list_sub_handle, list_sub_sync_ack, locals, lock_yield,
                 network, history>>

YieldUnlock(y) ==
  /\ lock_yield = y /\ callback = "no"
  /\ lock_yield' = NoThread
  /\ pc' = IF y = Yielder THEN pc ELSE [pc EXCEPT ![y] = "scan"]
  /\ UNCHANGED <<client, ret, subed, result, callback, network, history>>

YieldUnlocks == \E y \in Callers \cup {Yielder} : YieldUnlock(y)

Processing == iotx_mc_handle_recv_SUBACK \/ iotx_mc_deliver_message
              \/ CallbackReturns \/ Reconnect

-----------------------------------------------------------------------------
Next ==
  \/ \E t \in Callers : Call(t) \/ Caller(t)
  \/ \E y \in Callers \cup {Yielder} : YieldLock(y)
  \/ Processing \/ YieldUnlocks
  \/ BrokerSubscribe \/ ConnectionReset
  \/ \E h \in Handlers : BrokerPublish(h)

Safety == Init /\ [][Next]_vars

\* A call once begun runs on and its timer expires at last; lock_yield is
\* released between cycles (HAL_SleepMs of _mqtt_cycle) and is fair.
Fairness ==
  /\ \A t \in Callers : WF_vars(Caller(t)) /\ SF_vars(YieldLock(t)) /\ SF_vars(TimeOut(t))
  /\ WF_vars(CallbackReturns) /\ WF_vars(YieldUnlocks)

Spec == Safety /\ Fairness

-----------------------------------------------------------------------------
Ids == 1 .. MaxId
Node == [packet_id : Ids, ack_type : {"UNDEF", "SUCCESS", "NACK"}]
Request == [id : Ids, handler : Handlers]
Answer == [type : {"SUCCESS", "NACK"}, id : Ids]
Delivery == [type : {"PUBLISH"}, handler : Handlers, due : BOOLEAN]

\* One type invariant for the module.
TypeOK ==
  /\ packet_id \in 0 .. MaxId /\ in_yield_cb \in {0, 1}
  /\ list_sub_handle \subseteq Handlers
  /\ list_sub_sync_ack \in Seq(Node)
  /\ lock_yield \in Callers \cup {Yielder, NoThread}
  /\ pc \in [Callers -> {"idle", "subscribe", "register", "returned", "again",
                         "yield", "scan", "timer", "done"}]
  /\ ret \in [Callers -> {Failed} \cup Ids]
  /\ subed \in [Callers -> {0, 1}]
  /\ result \in [Callers -> {"none", "ok", "fail"}]
  /\ callback \in {"no", "yes"} /\ conn \in {"up", "down"}
  /\ up \in Seq(Request) /\ down \in Seq(Answer \cup Delivery)
  /\ subscribed \subseteq Handlers
  /\ faults \in 0 .. MaxFaults /\ messages \in 0 .. MaxMessages
  /\ acked \subseteq Ids /\ unserved \subseteq Handlers

(***************************************************************************)
(* A call that waited for its SUBACK and returns success was granted: the  *)
(* broker knows its filter, whatever other calls, refusals, resets and     *)
(* retries with new identifiers came in between.                           *)
(***************************************************************************)
WaitedCallWasGranted ==
  \A t \in Callers :
    result[t] = "ok" /\ subed[t] = 1 => ret[t] \in acked /\ HandlerOf[t] \in subscribed

(***************************************************************************)
(* MQTTSubscribe, iotx_mc_deliver_message: a message that the broker sends *)
(* after a call for its topic has returned success is given to that call's *)
(* handler and not to the default one.                                     *)
(***************************************************************************)
ServedAfterReturn == unserved = {}

(***************************************************************************)
(* Every call returns, although every caller waits for a lock that the     *)
(* yield loop and the other callers take again and again.                  *)
(***************************************************************************)
EveryCallReturns == \A t \in Callers : pc[t] = "subscribe" ~> result[t] # "none"

=============================================================================

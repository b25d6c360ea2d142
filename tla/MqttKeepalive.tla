---------------------------- MODULE MqttKeepalive ----------------------------
(***************************************************************************)
(* Pings, dead-link detection and reconnection backoff of the MQTT client: *)
(* iotx_mc_keepalive, iotx_mc_keepalive_sub, iotx_mc_handle_reconnect and  *)
(* iotx_mc_cycle of iotx_mqtt_client.c over the timers of infra_timer.c.   *)
(*                                                                         *)
(* Time is counted in ticks on a clock that wraps at CLOCK, as the 32-bit  *)
(* HAL_UptimeMs does.  It passes only where the yielding thread waits: in  *)
(* a read, in the sleeps of an unconnected cycle, in a connection attempt, *)
(* and between two calls of the application.  The publish path, the topics *)
(* and the packets other than pings are in other modules; here a packet is *)
(* only something readable, and a publisher is a write of DISCONNECTED     *)
(* that may come late.  ping_mark is written and never read: left out.     *)
(***************************************************************************)
EXTENDS Integers

CONSTANTS
  CLOCK,          \* the clock wraps at this value (2^32 ms)
  KeepAlive,      \* keepAliveInterval
  IntervalMin,    \* IOTX_MC_RECONNECT_INTERVAL_MIN_MS
  IntervalMax,    \* IOTX_MC_RECONNECT_INTERVAL_MAX_MS
  PROBE_MAX,      \* IOTX_MC_KEEPALIVE_PROBE_MAX
  CycleTime,      \* cycle_timeout_ms, the argument of yield
  AppGap,         \* the longest time between two calls of yield
  Rtt,            \* the longest time a live broker takes to answer a ping
  MaxOutages,     \* bound: outages of the network
  MaxStale,       \* bound: failed publishers that write the state late
  Horizon         \* bound: history clocks stop here

ASSUME KeepaliveAssumption ==
  /\ {CLOCK, KeepAlive, IntervalMin, IntervalMax, PROBE_MAX, CycleTime} \subseteq Nat \ {0}
  /\ {AppGap, Rtt, MaxOutages, MaxStale, Horizon} \subseteq Nat
  /\ IntervalMin <= IntervalMax
  /\ \A d \in {KeepAlive, IntervalMax, CycleTime} : d < CLOCK \div 2

VARIABLES
  now,                  \* HAL_UptimeMs
  client_state, keepalive_probes, next_ping_time,
  reconnect_next_time, interval,    \* reconnect_param
  ypc, waited,          \* the yielding thread, and its time in this wait
  link,                 \* "up"; "dead" but not closed; "closed"
  network,              \* "ok", or "out": no connection can be made
  answer,               \* ticks left for the broker to answer, or NoAnswer
  readable,             \* a packet can be read: "yes" or "no"
  outages, stale,       \* bounds
  silent,               \* history: ticks since the link died
  sincePing             \* history: connected ticks since a ping

timers  == <<next_ping_time, reconnect_next_time, interval>>
peer    == <<link, network, answer, readable>>
bounds  == <<outages, stale>>
history == <<silent, sincePing>>
vars    == <<now, client_state, keepalive_probes, timers, ypc, waited, peer,
             bounds, history>>

NoAnswer == -1

-----------------------------------------------------------------------------
\* Mistake: deadlines are compared as plain numbers.
ExpiredNaive(t) == now >= t

\* utils_time_is_expired: (cur_time - timer->time) < UINT32_MAX / 2.
Expired(t) == (now - t) % CLOCK < (CLOCK - 1) \div 2

\* utils_time_countdown_ms
Countdown(d) == (now + d) % CLOCK

\* The wait before the next attempt, after an attempt has failed.
Doubled == IF interval < IntervalMax THEN 2 * interval ELSE IntervalMax
Capped(i) == IF i > IntervalMax THEN IntervalMax ELSE i

Init ==
  /\ now \in {0, CLOCK - 1}
  /\ client_state = "CONNECTED" /\ keepalive_probes = 0
  /\ next_ping_time = Countdown(KeepAlive)
  /\ reconnect_next_time = 0 /\ interval = IntervalMin
  /\ ypc = "app" /\ waited = 0
  /\ link = "up" /\ network = "ok" /\ answer = NoAnswer /\ readable = "no"
  /\ outages = 0 /\ stale = 0
  /\ silent = 0 /\ sincePing = 0

-----------------------------------------------------------------------------
(* The network, the broker, publishers and time (external).                *)

LinkDies ==
  /\ outages < MaxOutages /\ network = "ok"
  /\ outages' = outages + 1
  /\ network' = "out" /\ silent' = IF link = "dead" THEN silent ELSE 0
  /\ link' = IF link = "up" THEN "dead" ELSE link
  /\ answer' = NoAnswer
  /\ UNCHANGED <<now, client_state, keepalive_probes, timers, ypc, waited,
                 readable, stale, sincePing>>

NetworkReturns ==
  /\ network = "out" /\ network' = "ok"
  /\ UNCHANGED <<now, client_state, keepalive_probes, timers, ypc, waited,
                 link, answer, readable, bounds, history>>

BrokerAnswers ==
  /\ answer # NoAnswer /\ answer' = NoAnswer /\ readable' = "yes"
  /\ UNCHANGED <<now, client_state, keepalive_probes, timers, ypc, waited,
                 link, network, bounds, history>>

\* wrapper_mqtt_publish writes the state after its failed send, however late:
\* MqttClient models where it comes from.
PublisherDisconnects ==
  /\ stale < MaxStale /\ stale' = stale + 1
  /\ client_state' = "DISCONNECTED"
  /\ UNCHANGED <<now, keepalive_probes, timers, ypc, waited, peer, outages, history>>

Later(h) == IF h < Horizon THEN h + 1 ELSE h

Tick ==
  /\ \/ ypc = "app" /\ waited < AppGap
     \/ ypc = "read" /\ waited < CycleTime /\ readable = "no"
     \/ ypc = "sleep" /\ waited < CycleTime
     \/ ypc = "connecting"
  /\ answer # 0
  /\ now' = (now + 1) % CLOCK
  /\ waited' = IF ypc = "connecting" THEN 0 ELSE waited + 1
  /\ answer' = IF answer = NoAnswer THEN NoAnswer ELSE answer - 1
  /\ silent' = IF link = "dead" THEN Later(silent) ELSE 0
  /\ sincePing' = IF client_state = "CONNECTED" THEN Later(sincePing) ELSE 0
  /\ UNCHANGED <<client_state, keepalive_probes, timers, ypc, link, network,
                 readable, bounds>>

-----------------------------------------------------------------------------
(* wrapper_mqtt_yield                                                       *)

YieldBegins ==
  /\ ypc = "app" /\ ypc' = "keepalive" /\ waited' = 0
  /\ UNCHANGED <<now, client_state, keepalive_probes, timers, peer, bounds, history>>

PingDue == client_state = "CONNECTED" /\ Expired(next_ping_time)

NoPing ==
  /\ ypc = "keepalive" /\ ~PingDue
  /\ ypc' = "state"
  /\ UNCHANGED <<now, client_state, keepalive_probes, timers, waited, peer,
                 bounds, history>>

\* The write succeeds, also on a link that is dead and not known to be.
SendPing ==
  /\ ypc = "keepalive" /\ PingDue
  /\ next_ping_time' = Countdown(KeepAlive)
  /\ keepalive_probes' = (keepalive_probes + 1) % 256
  /\ answer' = IF link = "up" THEN Rtt ELSE answer
  /\ sincePing' = 0
  /\ ypc' = "state"
  /\ UNCHANGED <<now, client_state, reconnect_next_time, interval, waited,
                 link, network, readable, bounds, silent>>

SendPingFails ==
  /\ ypc = "keepalive" /\ PingDue /\ link # "up"
  /\ next_ping_time' = Countdown(KeepAlive)
  /\ client_state' = "DISCONNECTED"
  /\ ypc' = "state"
  /\ UNCHANGED <<now, keepalive_probes, reconnect_next_time, interval, waited,
                 peer, bounds, history>>

\* iotx_mc_keepalive reads the state once.
StateConnected ==
  /\ ypc = "state" /\ client_state = "CONNECTED"
  /\ ypc' = "cycle"
  /\ UNCHANGED <<now, client_state, keepalive_probes, timers, waited, peer,
                 bounds, history>>

StateDisconnected ==
  /\ ypc = "state" /\ client_state = "DISCONNECTED"
  /\ interval' = IntervalMin /\ reconnect_next_time' = Countdown(IntervalMin)
  /\ link' = "closed" /\ answer' = NoAnswer /\ readable' = "no"
  /\ client_state' = "RECONNECTING"
  /\ ypc' = "cycle"
  /\ UNCHANGED <<now, keepalive_probes, next_ping_time, waited, network, bounds,
                 silent, sincePing>>

ReconnectNotYet ==
  /\ ypc = "state" /\ client_state = "RECONNECTING" /\ ~Expired(reconnect_next_time)
  /\ ypc' = "cycle"
  /\ UNCHANGED <<now, client_state, keepalive_probes, timers, waited, peer,
                 bounds, history>>

iotx_mc_attempt_reconnect ==
  /\ ypc = "state" /\ client_state = "RECONNECTING" /\ Expired(reconnect_next_time)
  /\ link' = "closed" /\ answer' = NoAnswer /\ readable' = "no"
  /\ ypc' = "connecting"
  /\ UNCHANGED <<now, client_state, keepalive_probes, timers, waited, network,
                 bounds, history>>

\* The counter of probes is left as the old connection had it.
ReconnectSucceeds ==
  /\ ypc = "connecting" /\ network = "ok"
  /\ link' = "up" /\ client_state' = "CONNECTED"
  /\ next_ping_time' = Countdown(KeepAlive)
  /\ interval' = IntervalMin
  /\ sincePing' = 0 /\ silent' = 0
  /\ ypc' = "cycle"
  /\ UNCHANGED <<now, keepalive_probes, reconnect_next_time, waited, network,
                 answer, readable, bounds>>

ReconnectFails ==
  /\ ypc = "connecting" /\ network = "out"
  /\ interval' = Doubled
  /\ reconnect_next_time' = Countdown(Capped(Doubled))
  /\ ypc' = "cycle"
  /\ UNCHANGED <<now, client_state, keepalive_probes, next_ping_time, waited,
                 peer, bounds, silent, sincePing>>

-----------------------------------------------------------------------------
(* _mqtt_cycle: iotx_mc_cycle until cycle_timeout_ms is over.              *)

CycleNotConnected ==
  /\ ypc = "cycle" /\ client_state # "CONNECTED"
  /\ ypc' = "sleep"
  /\ UNCHANGED <<now, client_state, keepalive_probes, timers, waited, peer,
                 bounds, history>>

\* Mistake: every probe is taken for a missing answer at once.
ProbesExhaustedEarly == keepalive_probes >= PROBE_MAX
ProbesExhausted == keepalive_probes > PROBE_MAX

\* The packet is then read whatever the check has said.
CycleConnected ==
  /\ ypc = "cycle" /\ client_state = "CONNECTED"
  /\ IF ProbesExhausted
       THEN client_state' = "DISCONNECTED" /\ keepalive_probes' = 0
       ELSE UNCHANGED <<client_state, keepalive_probes>>
  /\ ypc' = "read"
  /\ UNCHANGED <<now, timers, waited, peer, bounds, history>>

ReadPacket ==
  /\ ypc = "read" /\ readable = "yes"
  /\ readable' = "no" /\ keepalive_probes' = 0
  /\ ypc' = IF waited < CycleTime THEN "cycle" ELSE "app"
  /\ waited' = IF waited < CycleTime THEN waited ELSE 0
  /\ UNCHANGED <<now, client_state, timers, link, network, answer, bounds,
                 silent, sincePing>>

ReadTimeout ==
  /\ ypc = "read" /\ readable = "no" /\ waited = CycleTime
  /\ ypc' = "app" /\ waited' = 0
  /\ UNCHANGED <<now, client_state, keepalive_probes, timers, peer, bounds, history>>

ReadError ==
  /\ ypc = "read" /\ link = "dead"
  /\ client_state' = "DISCONNECTED"
  /\ ypc' = "sleep"
  /\ UNCHANGED <<now, keepalive_probes, timers, waited, peer, bounds, history>>

CycleOver ==
  /\ ypc = "sleep" /\ waited = CycleTime
  /\ ypc' = "app" /\ waited' = 0
  /\ UNCHANGED <<now, client_state, keepalive_probes, timers, peer, bounds, history>>

-----------------------------------------------------------------------------
Yielder ==
  \/ YieldBegins \/ NoPing \/ SendPing \/ SendPingFails
  \/ StateConnected \/ StateDisconnected \/ ReconnectNotYet
  \/ iotx_mc_attempt_reconnect \/ ReconnectSucceeds \/ ReconnectFails
  \/ CycleNotConnected \/ CycleConnected
  \/ ReadPacket \/ ReadTimeout \/ ReadError \/ CycleOver

Next ==
  \/ Yielder \/ Tick \/ BrokerAnswers
  \/ LinkDies \/ NetworkReturns \/ PublisherDisconnects

Safety == Init /\ [][Next]_vars

\* The application keeps calling yield, time passes, the broker answers, and
\* an outage ends.
Spec == Safety /\ WF_vars(Yielder) /\ WF_vars(Tick) /\ WF_vars(BrokerAnswers)
               /\ WF_vars(NetworkReturns)

-----------------------------------------------------------------------------
\* One type invariant for the module.
TypeOK ==
  /\ {now, next_ping_time, reconnect_next_time} \subseteq 0 .. CLOCK - 1
  /\ client_state \in {"CONNECTED", "DISCONNECTED", "RECONNECTING"}
  /\ keepalive_probes \in 0 .. 255
  /\ interval \in IntervalMin .. 2 * IntervalMax
  /\ ypc \in {"app", "keepalive", "state", "connecting", "cycle", "read", "sleep"}
  /\ waited \in 0 .. CycleTime + AppGap
  /\ link \in {"up", "dead", "closed"} /\ network \in {"ok", "out"}
  /\ answer \in {NoAnswer} \cup 0 .. Rtt
  /\ readable \in {"yes", "no"}
  /\ outages \in 0 .. MaxOutages /\ stale \in 0 .. MaxStale
  /\ {silent, sincePing} \subseteq 0 .. Horizon

\* How much too late the yielding thread can find that a timer has expired.
Poll == CycleTime + AppGap - 1

(***************************************************************************)
(* iotx_mc_keepalive_sub, iotx_mc_cycle: the connection is watched in time *)
(* from both ends, across the wrap of the clock and across reconnections.  *)
(* The broker hears a ping within an interval and one poll, below the 1.5  *)
(* intervals MQTT allows when the application polls twice an interval; and *)
(* a link that dies silently, so that every write still succeeds, is given *)
(* up after PROBE_MAX + 1 intervals, each as late as the polls make it.    *)
(***************************************************************************)
LinkWatched ==
  client_state = "CONNECTED" =>
    /\ sincePing <= KeepAlive + Poll
    /\ link = "dead" => silent <= (PROBE_MAX + 1) * (KeepAlive + Poll)

(***************************************************************************)
(* The client settles: when the network stops failing, it ends up connected*)
(* for good, although a probe counter carried over from the connection     *)
(* before may tear a healthy connection down once.                         *)
(***************************************************************************)
SettlesConnected == <>[](client_state = "CONNECTED")
=============================================================================

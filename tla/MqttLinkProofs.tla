---------------------------- MODULE MqttLinkProofs ----------------------------
(***************************************************************************)
(* Proofs about the two ends of an MQTT connection hearing each other:     *)
(* - its pings (MqttKeepalive): a dead link is noticed in time, for any    *)
(*   clock, interval, cycle and number of outages;                         *)
(* - its packets (MqttPacket): the length that MQTTPacket_encode writes is *)
(*   read back, MQTTPacket_len never promises too little room, what the    *)
(*   serializers write is what the standard says, and what the standard    *)
(*   says is what the deserializers read, for packets of any size;         *)
(* - its two streams of bytes (MqttWire): reads stay on the borders of     *)
(*   packets until one is torn, and what is written reads as the packets   *)
(*   that were made until a write is cut short;                            *)
(* - its topics (MqttTopic, MqttWire): what the standard allows is not     *)
(*   refused, and a message goes to the handlers whose filters match it,   *)
(*   for topics and filters of any length.                                 *)
(***************************************************************************)
EXTENDS MqttKeepalive, MqttWire, SequenceTheorems, WellFoundedInduction, TLAPS

-----------------------------------------------------------------------------
(* The pings.                                                                *)


\* What the watch needs of the environment: the application polls at least
\* every half wrap of the clock, which is 24 days, and an answer is read before
\* the next ping is due.  The probes are counted in a byte.
Polled ==
  /\ Poll < (CLOCK - 1) \div 2
  /\ Rtt + AppGap < KeepAlive
  /\ PROBE_MAX < 255

\* The longest time between two pings.
Span == KeepAlive + Poll

\* A closed link has nobody to answer and nothing to read; only an open one is
\* connected, and only a live one answers.
LinkInv ==
  /\ link # "up" => answer = NoAnswer
  /\ link = "closed" => readable = "no" /\ client_state # "CONNECTED"
  /\ ypc = "connecting" => link = "closed"
  /\ client_state = "CONNECTED" => ypc \notin {"connecting", "sleep"}
  /\ waited <= (IF ypc = "app" THEN AppGap ELSE CycleTime)
  /\ ypc \in {"keepalive", "state", "connecting"} => waited = 0

\* The timer of the pings runs out KeepAlive after the last one, and how late
\* that is found depends on where the thread is in its poll.
PingInv ==
  client_state = "CONNECTED" /\ Horizon > Span =>
    /\ next_ping_time - now - KeepAlive + sincePing \in {-CLOCK, 0, CLOCK}
    /\ sincePing <= CASE ypc = "app" -> KeepAlive - 1 + CycleTime + waited
                      [] ypc = "keepalive" -> Span
                      [] OTHER -> KeepAlive - 1 + waited

\* An answer is read before the next ping is due.
AnswerInv ==
  client_state = "CONNECTED" =>
    /\ answer # NoAnswer => sincePing + answer <= Rtt
    /\ readable = "yes" => sincePing <= Rtt + (IF ypc = "app" THEN waited ELSE AppGap)

\* Each interval of silence has its probe, but for a packet that arrived before
\* the link died.
ProbeInv ==
  /\ keepalive_probes <= PROBE_MAX + 1
  /\ client_state = "CONNECTED" /\ keepalive_probes = PROBE_MAX + 1 =>
       ypc \in {"state", "cycle"} /\ sincePing = 0
  /\ client_state = "CONNECTED" /\ link = "dead" /\ Horizon > Span =>
       /\ silent <= keepalive_probes * Span + sincePing
       /\ readable = "yes" => silent <= sincePing

WatchInv == TypeOK /\ LinkInv /\ PingInv /\ AnswerInv /\ ProbeInv

\* The clock wraps at CLOCK.
LEMMA Wrapping ==
  /\ \A x \in 0 .. CLOCK - 1 : x % CLOCK = x
  /\ \A x \in CLOCK .. 2 * CLOCK - 1 : x % CLOCK = x - CLOCK
  /\ \A x \in -CLOCK .. -1 : x % CLOCK = x + CLOCK
<1>1. CLOCK \in Nat \ {0}
  BY KeepaliveAssumption
<1>2. ASSUME NEW n \in Nat \ {0}, NEW x \in 0 .. n - 1
      PROVE  x % n = x /\ (x + n) % n = x /\ (x - n) % n = x
  OBVIOUS
<1>3. \A x \in 0 .. CLOCK - 1 : x % CLOCK = x /\ (x + CLOCK) % CLOCK = x /\ (x - CLOCK) % CLOCK = x
  BY <1>1, <1>2
<1>4. ASSUME NEW x \in CLOCK .. 2 * CLOCK - 1
      PROVE  x % CLOCK = x - CLOCK
  <2>1. x - CLOCK \in 0 .. CLOCK - 1 /\ (x - CLOCK) + CLOCK = x
    BY <1>1
  <2> QED BY <1>3, <2>1
<1>5. ASSUME NEW x \in -CLOCK .. -1
      PROVE  x % CLOCK = x + CLOCK
  <2>1. x + CLOCK \in 0 .. CLOCK - 1 /\ (x + CLOCK) - CLOCK = x
    BY <1>1
  <2> QED BY <1>3, <2>1
<1> QED BY <1>3, <1>4, <1>5

LEMMA Bounds ==
  /\ {CLOCK, KeepAlive, IntervalMin, IntervalMax, PROBE_MAX, CycleTime} \subseteq Nat \ {0}
  /\ {AppGap, Rtt, MaxOutages, MaxStale, Horizon} \subseteq Nat
  /\ Poll \in Nat /\ Span \in Nat /\ Span = KeepAlive + CycleTime + AppGap - 1
  /\ KeepAlive < CLOCK \div 2 /\ CLOCK \div 2 \in Nat /\ (CLOCK - 1) \div 2 \in Nat
  /\ 2 * (CLOCK \div 2) <= CLOCK /\ (CLOCK - 1) \div 2 <= CLOCK \div 2
BY KeepaliveAssumption DEF Poll, Span

\* A timer started d ago, at most half a wrap, is found expired from then on
\* and for half a wrap.
LEMMA ExpiryFacts ==
  ASSUME TypeOK, NEW h \in Int, -KeepAlive <= h, h < (CLOCK - 1) \div 2,
         NEW t \in 0 .. CLOCK - 1, t - now + h \in {-CLOCK, 0, CLOCK}
  PROVE  Expired(t) <=> h >= 0
<1>1. now \in 0 .. CLOCK - 1
  BY DEF TypeOK
<1> DEFINE x == now - t
<1>2. x \in Int /\ x < CLOCK /\ x >= -CLOCK /\ h - x \in {-CLOCK, 0, CLOCK}
  BY <1>1, Bounds
<1>3. (x >= 0 => x % CLOCK = x) /\ (x < 0 => x % CLOCK = x + CLOCK)
  BY <1>2, Wrapping, Bounds
<1>4. Expired(t) <=> x % CLOCK < (CLOCK - 1) \div 2
  BY DEF Expired
<1> HIDE DEF x
<1>5. CASE x >= 0
  BY <1>2, <1>3, <1>4, <1>5, Bounds
<1>6. CASE x < 0
  BY <1>2, <1>3, <1>4, <1>6, Bounds
<1> QED BY <1>2, <1>5, <1>6

LEMMA CountdownFacts ==
  ASSUME TypeOK, NEW d \in Nat, d < CLOCK
  PROVE  /\ Countdown(d) \in 0 .. CLOCK - 1
         /\ Countdown(d) - now - d \in {-CLOCK, 0, CLOCK}
<1>1. now \in 0 .. CLOCK - 1
  BY DEF TypeOK
<1> DEFINE x == now + d
<1>2. x \in Nat /\ x < 2 * CLOCK /\ CLOCK \in Nat
  BY <1>1, Bounds
<1>3. x % CLOCK = x \/ (x % CLOCK = x - CLOCK /\ x >= CLOCK)
  BY <1>2, Wrapping
<1>4. x % CLOCK \in 0 .. CLOCK - 1
  BY <1>2, <1>3, Wrapping
<1> QED BY <1>1, <1>2, <1>3, <1>4 DEF Countdown

-----------------------------------------------------------------------------
LEMMA WatchInit == Polled /\ Init => WatchInv
<1> SUFFICES ASSUME Polled, Init PROVE WatchInv
  OBVIOUS
<1> USE Bounds DEF Init
<1>1. TypeOK
  <2>1. KeepAlive < CLOCK /\ now + KeepAlive \in Nat /\ now \in 0 .. CLOCK - 1
    OBVIOUS
  <2>2. next_ping_time \in 0 .. CLOCK - 1
    BY <2>1 DEF Countdown
  <2>3. IntervalMin \in IntervalMin .. 2 * IntervalMax
    BY KeepaliveAssumption
  <2> QED BY <2>1, <2>2, <2>3 DEF TypeOK, NoAnswer
<1>2. next_ping_time - now - KeepAlive \in {-CLOCK, 0, CLOCK}
  BY <1>1, CountdownFacts
<1>3. LinkInv /\ AnswerInv /\ ProbeInv
  BY DEF LinkInv, AnswerInv, ProbeInv
<1>4. PingInv
  BY <1>2 DEF PingInv
<1> QED BY <1>1, <1>3, <1>4 DEF WatchInv

LEMMA TypeStep == TypeOK /\ [Next]_vars => TypeOK'
<1> SUFFICES ASSUME TypeOK, [Next]_vars PROVE TypeOK'
  OBVIOUS
<1> USE DEF timers, peer, bounds, history, NoAnswer
<1>1. \A d \in {KeepAlive, IntervalMin, IntervalMax} : Countdown(d) \in 0 .. CLOCK - 1
  BY CountdownFacts, KeepaliveAssumption
<1>2. CASE Tick
  <2>1. now' \in 0 .. CLOCK - 1
    BY <1>2, Bounds DEF Tick, TypeOK
  <2>2. waited' \in 0 .. CycleTime + AppGap /\ answer' \in {NoAnswer} \cup 0 .. Rtt
    BY <1>2, Bounds DEF Tick, TypeOK
  <2>3. {silent', sincePing'} \subseteq 0 .. Horizon
    BY <1>2, Bounds DEF Tick, TypeOK, Later
  <2> QED BY <1>2, <2>1, <2>2, <2>3 DEF Tick, TypeOK
<1>3. CASE BrokerAnswers \/ LinkDies \/ NetworkReturns \/ PublisherDisconnects
  BY <1>3, Bounds DEF BrokerAnswers, LinkDies, NetworkReturns, PublisherDisconnects, TypeOK
<1>4. CASE YieldBegins \/ NoPing \/ StateConnected \/ ReconnectNotYet
  BY <1>4, Bounds DEF YieldBegins, NoPing, StateConnected, ReconnectNotYet, TypeOK
<1>5. CASE SendPing \/ SendPingFails
  <2>1. (keepalive_probes + 1) % 256 \in 0 .. 255 /\ Rtt \in 0 .. Rtt /\ 0 \in 0 .. Horizon
    BY Bounds DEF TypeOK
  <2> QED BY <1>1, <1>5, <2>1 DEF SendPing, SendPingFails, TypeOK
<1>6. CASE StateDisconnected
  <2>1. IntervalMin \in IntervalMin .. 2 * IntervalMax
    BY KeepaliveAssumption
  <2> QED BY <1>1, <1>6, <2>1 DEF StateDisconnected, TypeOK
<1>7. CASE iotx_mc_attempt_reconnect
  BY <1>7 DEF iotx_mc_attempt_reconnect, TypeOK
<1>8. CASE ReconnectSucceeds
  <2>1. IntervalMin \in IntervalMin .. 2 * IntervalMax /\ 0 \in 0 .. Horizon
    BY KeepaliveAssumption
  <2> QED BY <1>1, <1>8, <2>1 DEF ReconnectSucceeds, TypeOK
<1>9. CASE ReconnectFails
  <2>1. interval' \in IntervalMin .. 2 * IntervalMax
    BY <1>9, KeepaliveAssumption DEF ReconnectFails, Doubled, TypeOK
  <2>2. Capped(Doubled) \in Nat /\ Capped(Doubled) < CLOCK
    BY KeepaliveAssumption DEF Capped, Doubled, TypeOK
  <2>3. reconnect_next_time' \in 0 .. CLOCK - 1
    BY <1>9, <2>2, CountdownFacts DEF ReconnectFails
  <2> QED BY <1>9, <2>1, <2>3 DEF ReconnectFails, TypeOK
<1>10. CASE CycleNotConnected \/ CycleConnected \/ ReadPacket \/ ReadTimeout \/ ReadError \/ CycleOver
  BY <1>10, Bounds DEF CycleNotConnected, CycleConnected, ReadPacket, ReadTimeout, ReadError,
                       CycleOver, TypeOK
<1>11. CASE UNCHANGED vars
  BY <1>11 DEF vars, TypeOK
<1> QED BY <1>2, <1>3, <1>4, <1>5, <1>6, <1>7, <1>8, <1>9, <1>10, <1>11, Zenon DEF Next, Yielder

LEMMA LinkStep == TypeOK /\ LinkInv /\ [Next]_vars => LinkInv'
<1> SUFFICES ASSUME TypeOK, LinkInv, [Next]_vars PROVE LinkInv'
  OBVIOUS
<1> USE DEF timers, peer, LinkInv
<1>1. AppGap \in Nat /\ CycleTime \in Nat /\ waited \in Nat
  BY Bounds DEF TypeOK
<1>2. CASE Tick
  <2>1. /\ UNCHANGED <<client_state, ypc, link, readable>>
        /\ waited' = IF ypc = "connecting" THEN 0 ELSE waited + 1
        /\ answer = NoAnswer => answer' = NoAnswer
        /\ \/ ypc = "app" /\ waited < AppGap
           \/ ypc \in {"read", "sleep"} /\ waited < CycleTime
           \/ ypc = "connecting"
    BY <1>2 DEF Tick
  <2> QED BY <1>1, <2>1
<1>3. CASE BrokerAnswers \/ LinkDies \/ NetworkReturns \/ PublisherDisconnects
  BY <1>3 DEF BrokerAnswers, LinkDies, NetworkReturns, PublisherDisconnects
<1>4. CASE YieldBegins \/ NoPing \/ SendPing \/ SendPingFails \/ StateConnected
           \/ StateDisconnected \/ ReconnectNotYet
  BY <1>1, <1>4 DEF YieldBegins, NoPing, SendPing, SendPingFails, StateConnected, StateDisconnected,
                    ReconnectNotYet
<1>5. CASE iotx_mc_attempt_reconnect \/ ReconnectSucceeds \/ ReconnectFails
  BY <1>5 DEF iotx_mc_attempt_reconnect, ReconnectSucceeds, ReconnectFails
<1>6. CASE CycleNotConnected \/ CycleConnected \/ ReadPacket \/ ReadTimeout \/ ReadError \/ CycleOver
  BY <1>1, <1>6 DEF CycleNotConnected, CycleConnected, ReadPacket, ReadTimeout, ReadError, CycleOver
<1>7. CASE UNCHANGED vars
  BY <1>7 DEF vars
<1> QED BY <1>2, <1>3, <1>4, <1>5, <1>6, <1>7, Zenon DEF Next, Yielder

\* A ping is due exactly from KeepAlive after the last one.
LEMMA DueFacts ==
  ASSUME Polled, TypeOK, PingInv, ypc = "keepalive", client_state = "CONNECTED", Horizon > Span
  PROVE  PingDue <=> sincePing >= KeepAlive
<1>1. /\ sincePing \in Nat /\ KeepAlive \in Nat /\ now \in 0 .. CLOCK - 1
      /\ next_ping_time \in 0 .. CLOCK - 1
  BY Bounds DEF TypeOK
<1> DEFINE h == sincePing - KeepAlive
<1>2. next_ping_time - now + h \in {-CLOCK, 0, CLOCK} /\ sincePing <= Span
  BY <1>1, Bounds DEF PingInv
<1>3. h \in Int /\ -KeepAlive <= h /\ h < (CLOCK - 1) \div 2
  BY <1>1, <1>2, Bounds DEF Polled, Span
<1>4. Expired(next_ping_time) <=> h >= 0
  BY <1>1, <1>2, <1>3, ExpiryFacts
<1> QED BY <1>1, <1>4 DEF PingDue

LEMMA PingStep == Polled /\ TypeOK /\ LinkInv /\ PingInv /\ [Next]_vars => PingInv'
<1> SUFFICES ASSUME Polled, TypeOK, LinkInv, PingInv, [Next]_vars,
                    client_state' = "CONNECTED", Horizon > Span
             PROVE  PingInv'
  BY DEF PingInv
<1> USE DEF timers, peer, bounds, history
<1>1. /\ {sincePing, KeepAlive, CycleTime, AppGap, CLOCK, waited, Horizon} \subseteq Nat
      /\ KeepAlive > 0 /\ {now, next_ping_time} \subseteq 0 .. CLOCK - 1
      /\ Span = KeepAlive + CycleTime + AppGap - 1
      /\ waited <= (IF ypc = "app" THEN AppGap ELSE CycleTime)
  BY Bounds DEF TypeOK, LinkInv
<1>2. CASE Tick
  <2>1. /\ client_state = "CONNECTED" /\ UNCHANGED <<ypc, next_ping_time>> /\ waited' = waited + 1
        /\ (ypc = "app" /\ waited < AppGap) \/ (ypc = "read" /\ waited < CycleTime)
        /\ now' = (now + 1) % CLOCK /\ sincePing' = Later(sincePing)
    BY <1>2 DEF Tick, LinkInv
  <2>2. sincePing < Span /\ sincePing' = sincePing + 1
    BY <1>1, <2>1 DEF PingInv, Later
  <2>3. now' = now + 1 \/ (now' = 0 /\ now = CLOCK - 1)
    BY <1>1, <2>1, Wrapping
  <2>4. next_ping_time - now - KeepAlive + sincePing \in {-CLOCK, 0, CLOCK}
    BY <2>1 DEF PingInv
  <2>5. next_ping_time - now' - KeepAlive + sincePing' \in {-CLOCK, 0, CLOCK}
    <3>1. next_ping_time - 0 - KeepAlive + sincePing' < 2 * CLOCK
      BY <1>1, <2>2, Bounds DEF Polled, Span
    <3>2. /\ next_ping_time \in Int /\ now \in Int /\ KeepAlive \in Int /\ sincePing \in Int
          /\ CLOCK \in Int /\ CLOCK > 0
      BY <1>1, Bounds
    <3> QED BY <2>2, <2>3, <2>4, <3>1, <3>2
  <2> QED BY <1>1, <2>1, <2>2, <2>5 DEF PingInv
<1>3. CASE SendPing \/ ReconnectSucceeds
  <2>1. sincePing' = 0 /\ now' = now /\ next_ping_time' = Countdown(KeepAlive)
        /\ ypc' \notin {"app", "keepalive"} /\ waited' = waited
    BY <1>3 DEF SendPing, ReconnectSucceeds
  <2>2. next_ping_time' - now - KeepAlive \in {-CLOCK, 0, CLOCK} /\ next_ping_time' \in 0 .. CLOCK - 1
    BY <2>1, Bounds, CountdownFacts
  <2> QED BY <1>1, <2>1, <2>2 DEF PingInv
<1>4. ASSUME UNCHANGED <<client_state, now, next_ping_time, sincePing>>,
             \/ ypc' = ypc /\ waited' = waited
             \/ ypc \notin {"app", "keepalive"} /\ ypc' \notin {"app", "keepalive"} /\ waited' = waited
             \/ ypc \in {"read", "sleep"} /\ ypc' = "app" /\ waited <= CycleTime /\ waited' = 0
             \/ ypc = "app" /\ ypc' = "keepalive"
             \/ ypc = "keepalive" /\ sincePing < KeepAlive /\ waited' = waited
                  /\ ypc' \notin {"app", "keepalive"}
      PROVE  PingInv'
  BY <1>1, <1>4 DEF PingInv
<1>5. CASE NoPing
  BY <1>1, <1>4, <1>5, DueFacts DEF NoPing
<1>6. CASE BrokerAnswers \/ LinkDies \/ NetworkReturns \/ YieldBegins \/ StateConnected
           \/ ReconnectNotYet
  BY <1>4, <1>6 DEF BrokerAnswers, LinkDies, NetworkReturns, YieldBegins, StateConnected,
                    ReconnectNotYet
<1>7. CASE \/ PublisherDisconnects \/ SendPingFails \/ StateDisconnected
           \/ iotx_mc_attempt_reconnect \/ ReconnectFails \/ CycleNotConnected \/ ReadError
  BY <1>7 DEF PublisherDisconnects, SendPingFails, StateDisconnected, iotx_mc_attempt_reconnect,
              ReconnectFails, CycleNotConnected, ReadError, LinkInv
<1>8. CASE CycleConnected \/ ReadPacket \/ ReadTimeout \/ CycleOver
  BY <1>1, <1>4, <1>8 DEF CycleConnected, ReadPacket, ReadTimeout, CycleOver
<1>9. CASE UNCHANGED vars
  BY <1>4, <1>9 DEF vars
<1> QED BY <1>2, <1>3, <1>5, <1>6, <1>7, <1>8, <1>9, Zenon DEF Next, Yielder

LEMMA AnswerStep == TypeOK /\ LinkInv /\ AnswerInv /\ [Next]_vars => AnswerInv'
<1> SUFFICES ASSUME TypeOK, LinkInv, AnswerInv, [Next]_vars, client_state' = "CONNECTED"
             PROVE  AnswerInv'
  BY DEF AnswerInv
<1> USE DEF timers, peer, bounds, history, NoAnswer
<1>1. /\ {sincePing, AppGap, Rtt, waited} \subseteq Nat /\ answer \in Nat \cup {NoAnswer}
      /\ waited <= (IF ypc = "app" THEN AppGap ELSE CycleTime)
  BY Bounds DEF TypeOK, LinkInv
<1>2. CASE Tick
  <2>1. /\ client_state = "CONNECTED" /\ UNCHANGED <<ypc, readable>> /\ waited' = waited + 1
        /\ answer # 0 /\ answer' = IF answer = NoAnswer THEN NoAnswer ELSE answer - 1
        /\ ypc = "app" \/ (ypc = "read" /\ readable = "no")
    BY <1>2 DEF Tick, LinkInv
  <2>2. sincePing' \in Nat /\ sincePing' <= sincePing + 1
    BY <1>1, <1>2 DEF Tick, Later
  <2> QED BY <1>1, <2>1, <2>2 DEF AnswerInv
<1>3. CASE BrokerAnswers
  BY <1>1, <1>3 DEF BrokerAnswers, AnswerInv
<1>4. CASE SendPing \/ ReconnectSucceeds
  <2>1. /\ sincePing' = 0 /\ ypc' # "app" /\ answer' \in {answer, Rtt}
        /\ answer' = answer => client_state = "CONNECTED" \/ answer = NoAnswer
    BY <1>4 DEF SendPing, ReconnectSucceeds, LinkInv, PingDue
  <2> QED BY <1>1, <2>1 DEF AnswerInv
<1>5. ASSUME UNCHANGED <<client_state, sincePing>>, answer' \in {answer, NoAnswer},
             \/ readable' = readable /\ (ypc' = "app" <=> ypc = "app") /\ waited' = waited
             \/ readable' = readable /\ ypc = "app" /\ ypc' = "keepalive"
             \/ readable' = "no"
      PROVE  AnswerInv'
  <2>1. /\ answer # NoAnswer => sincePing + answer <= Rtt
        /\ readable = "yes" => sincePing <= Rtt + (IF ypc = "app" THEN waited ELSE AppGap)
    BY <1>5 DEF AnswerInv
  <2>2. answer' # NoAnswer => sincePing' + answer' <= Rtt
    BY <1>5, <2>1
  <2>3. readable' = "yes" => sincePing' <= Rtt + (IF ypc' = "app" THEN waited' ELSE AppGap)
    BY <1>1, <1>5, <2>1
  <2> QED BY <2>2, <2>3 DEF AnswerInv
<1>6. CASE LinkDies \/ NetworkReturns \/ YieldBegins \/ NoPing \/ StateConnected \/ ReconnectNotYet
  BY <1>5, <1>6 DEF LinkDies, NetworkReturns, YieldBegins, NoPing, StateConnected, ReconnectNotYet
<1>7. CASE \/ PublisherDisconnects \/ SendPingFails \/ StateDisconnected
           \/ iotx_mc_attempt_reconnect \/ ReconnectFails \/ CycleNotConnected \/ ReadError
           \/ CycleOver
  BY <1>7 DEF PublisherDisconnects, SendPingFails, StateDisconnected, iotx_mc_attempt_reconnect,
              ReconnectFails, CycleNotConnected, ReadError, CycleOver, LinkInv
<1>8. CASE CycleConnected \/ ReadPacket \/ ReadTimeout
  BY <1>5, <1>8 DEF CycleConnected, ReadPacket, ReadTimeout
<1>9. CASE UNCHANGED vars
  BY <1>5, <1>9 DEF vars
<1> QED BY <1>2, <1>3, <1>4, <1>6, <1>7, <1>8, <1>9, Zenon DEF Next, Yielder

LEMMA Products ==
  \A a \in Nat : /\ a * Span \in Nat
                 /\ (a + 1) * Span = a * Span + Span
                 /\ \A b \in Nat : a <= b => a * Span <= b * Span
<1>1. ASSUME NEW a \in Nat, NEW c \in Nat
      PROVE  a * c \in Nat /\ (a + 1) * c = a * c + c
  OBVIOUS
<1>2. ASSUME NEW a \in Nat, NEW b \in Nat, NEW c \in Nat, a <= b
      PROVE  a * c <= b * c
  <2>1. (b - a) * c \in Nat
    BY <1>2
  <2>2. b * c = a * c + (b - a) * c
    BY <1>2
  <2> QED BY <2>1, <2>2
<1> QED BY <1>1, <1>2, Bounds

LEMMA ProbeStep ==
  Polled /\ WatchInv /\ [Next]_vars => ProbeInv'
<1> SUFFICES ASSUME Polled, WatchInv, [Next]_vars PROVE ProbeInv'
  OBVIOUS
<1> DEFINE Missed(n) == n * Span
           Doubt == keepalive_probes = PROBE_MAX + 1
<1>1. /\ {keepalive_probes, PROBE_MAX, sincePing, silent, waited, Span} \subseteq Nat
      /\ keepalive_probes <= PROBE_MAX + 1 /\ PROBE_MAX < 255
  BY Bounds DEF WatchInv, TypeOK, ProbeInv, Polled
<1>2. client_state = "CONNECTED" =>
        /\ Doubt => ypc \in {"state", "cycle"} /\ sincePing = 0
        /\ link = "dead" /\ Horizon > Span => /\ silent <= Missed(keepalive_probes) + sincePing
                                              /\ readable = "yes" => silent <= sincePing
  BY DEF WatchInv, ProbeInv
<1>3. \A n \in Nat : Missed(n) \in Nat /\ Missed(n + 1) = Missed(n) + Span
  BY Products
<1>4. SUFFICES /\ keepalive_probes' <= PROBE_MAX + 1
               /\ client_state' = "CONNECTED" =>
                    /\ keepalive_probes' = PROBE_MAX + 1 => ypc' \in {"state", "cycle"} /\ sincePing' = 0
                    /\ link' = "dead" /\ Horizon > Span =>
                         /\ silent' <= Missed(keepalive_probes') + sincePing'
                         /\ readable' = "yes" => silent' <= sincePing'
  BY DEF ProbeInv
<1> HIDE DEF Missed
<1> USE DEF timers, peer, bounds, history
<1>5. LinkInv
  BY DEF WatchInv
<1>6. CASE Tick
  <2>1. /\ UNCHANGED <<client_state, keepalive_probes, ypc, link, readable>>
        /\ silent' = IF link = "dead" THEN Later(silent) ELSE 0
        /\ client_state = "CONNECTED" => sincePing' = Later(sincePing) /\ ypc \in {"app", "read"}
    BY <1>5, <1>6 DEF Tick, LinkInv
  <2>2. CASE client_state = "CONNECTED"
    <3>1. keepalive_probes # PROBE_MAX + 1
      BY <1>2, <2>1, <2>2
    <3>2. \A m \in Nat : silent <= m + sincePing => Later(silent) <= m + Later(sincePing)
      BY <1>1, Bounds DEF Later
    <3>3. silent <= sincePing => Later(silent) <= Later(sincePing)
      BY <1>1, Bounds DEF Later
    <3> QED BY <1>1, <1>2, <1>3, <2>1, <2>2, <3>1, <3>2, <3>3
  <2> QED BY <1>1, <2>1, <2>2
<1>7. CASE SendPing
  <2>1. /\ ypc = "keepalive" /\ client_state = "CONNECTED" /\ PingDue
        /\ UNCHANGED <<client_state, link, readable, silent>>
        /\ keepalive_probes' = (keepalive_probes + 1) % 256 /\ sincePing' = 0 /\ ypc' = "state"
    BY <1>7 DEF SendPing, PingDue
  <2>2. keepalive_probes <= PROBE_MAX /\ keepalive_probes' = keepalive_probes + 1
    BY <1>1, <1>2, <2>1
  <2>3. ASSUME Horizon > Span
        PROVE  sincePing <= Span /\ readable # "yes"
    <3>1. sincePing <= Span /\ sincePing >= KeepAlive
      BY <2>1, <2>3, DueFacts DEF WatchInv, PingInv
    <3> QED BY <1>1, <2>1, <3>1, Bounds DEF WatchInv, AnswerInv, Polled
  <2>4. link = "dead" /\ Horizon > Span => silent <= Missed(keepalive_probes + 1)
    BY <1>1, <1>2, <1>3, <2>1, <2>3
  <2> QED BY <1>1, <1>3, <2>1, <2>2, <2>3, <2>4
<1>8. CASE LinkDies
  BY <1>1, <1>2, <1>3, <1>8 DEF LinkDies
<1>9. CASE BrokerAnswers
  BY <1>1, <1>2, <1>5, <1>9 DEF BrokerAnswers, LinkInv
<1>10. CASE CycleConnected
  <2>1. /\ UNCHANGED <<link, readable, silent, sincePing>> /\ ypc' = "read"
        /\ \/ client_state' = "DISCONNECTED" /\ keepalive_probes' = 0
           \/ keepalive_probes <= PROBE_MAX /\ UNCHANGED <<client_state, keepalive_probes>>
    BY <1>1, <1>10 DEF CycleConnected, ProbesExhausted
  <2> QED BY <1>1, <1>2, <2>1
<1>11. CASE ReadPacket
  BY <1>1, <1>2, <1>3, <1>11 DEF ReadPacket
<1>12. CASE ReconnectSucceeds
  BY <1>1, <1>12 DEF ReconnectSucceeds
<1>13. CASE \/ NetworkReturns \/ YieldBegins \/ NoPing \/ StateConnected \/ ReconnectNotYet
            \/ iotx_mc_attempt_reconnect \/ ReadTimeout \/ CycleOver
  BY <1>1, <1>2, <1>5, <1>13 DEF NetworkReturns, YieldBegins, NoPing, StateConnected, ReconnectNotYet,
     iotx_mc_attempt_reconnect, ReadTimeout, CycleOver, LinkInv
<1>14. CASE \/ PublisherDisconnects \/ SendPingFails \/ StateDisconnected
            \/ ReconnectFails \/ CycleNotConnected \/ ReadError
  BY <1>1, <1>5, <1>14 DEF PublisherDisconnects, SendPingFails, StateDisconnected,
     ReconnectFails, CycleNotConnected, ReadError, LinkInv
<1>15. CASE UNCHANGED vars
  BY <1>1, <1>2, <1>15 DEF vars
<1> QED BY <1>6, <1>7, <1>8, <1>9, <1>10, <1>11, <1>12, <1>13, <1>14, <1>15, Zenon DEF Next, Yielder

\* The broker hears a ping within an interval and one poll, and a link that dies
\* silently is given up after PROBE_MAX + 1 of them (LinkWatched): however the
\* clock wraps, and for any intervals, cycles, outages and late publishers.
THEOREM LinkIsWatched ==
  ASSUME Polled
  PROVE  Safety => []LinkWatched
<1>1. Init => WatchInv
  BY WatchInit
<1>2. WatchInv /\ [Next]_vars => WatchInv'
  BY TypeStep, LinkStep, PingStep, AnswerStep, ProbeStep DEF WatchInv
<1>3. WatchInv => LinkWatched
  <2> SUFFICES ASSUME WatchInv, client_state = "CONNECTED"
               PROVE  /\ sincePing <= Span
                      /\ link = "dead" => silent <= (PROBE_MAX + 1) * Span
    BY DEF LinkWatched, Span
  <2>1. /\ {keepalive_probes, PROBE_MAX, sincePing, silent, waited, Horizon, Span} \subseteq Nat
        /\ sincePing <= Horizon /\ silent <= Horizon
    BY Bounds DEF WatchInv, TypeOK
  <2>2. sincePing <= Span
    BY <2>1, Bounds DEF WatchInv, PingInv, LinkInv
  <2>3. (PROBE_MAX + 1) * Span = PROBE_MAX * Span + Span /\ PROBE_MAX * Span \in Nat
    BY <2>1, Products
  <2>4. CASE Horizon <= Span
    BY <2>1, <2>2, <2>3, <2>4
  <2>5. CASE Horizon > Span /\ keepalive_probes = PROBE_MAX + 1
    BY <2>1, <2>2, <2>5 DEF WatchInv, ProbeInv
  <2>6. CASE Horizon > Span /\ keepalive_probes <= PROBE_MAX
    <3>1. keepalive_probes * Span <= PROBE_MAX * Span /\ keepalive_probes * Span \in Nat
      BY <2>1, <2>6, Products
    <3> QED BY <2>1, <2>2, <2>3, <2>6, <3>1 DEF WatchInv, ProbeInv
  <2> QED BY <2>1, <2>4, <2>5, <2>6 DEF WatchInv, ProbeInv
<1> QED BY <1>1, <1>2, <1>3, PTL DEF Safety

-----------------------------------------------------------------------------
(* The lengths.                                                              *)


Length == {n \in Nat : n <= MaxRemaining}

(***************************************************************************)
(* The digits of a length to the base 128, as MQTTPacket_encode takes them *)
(* off one by one, add up to it.                                           *)
(***************************************************************************)
LEMMA Digits ==
  ASSUME NEW n \in Length
  PROVE  n = (n % K) + K * ((n \div K) % K) + K * K * ((n \div (K * K)) % K)
             + K * K * K * ((n \div (K * K * K)) % K)
<1>1. n = (n % K) + K * (n \div K)
  BY SMT DEF Length, MaxRemaining, K
<1>2. n \div K = ((n \div K) % K) + K * (n \div (K * K))
  BY SMT DEF Length, MaxRemaining, K
<1>3. n \div (K * K) = ((n \div (K * K)) % K) + K * (n \div (K * K * K))
  BY SMT DEF Length, MaxRemaining, K
<1>4. (n \div (K * K * K)) % K = n \div (K * K * K)
  BY SMT DEF Length, MaxRemaining, K
<1> QED  BY <1>1, <1>2, <1>3, <1>4, SMT DEF Length, MaxRemaining, K

(***************************************************************************)
(* A digit is less than the base, and above the highest digit there are    *)
(* zeroes.                                                                 *)
(***************************************************************************)
LEMMA DigitRange ==
  ASSUME NEW n \in Nat, NEW w \in Nat \ {0}
  PROVE  /\ n \div w \in Nat
         /\ (n \div w) % K \in Nat /\ (n \div w) % K < K
         /\ n < w => n \div w = 0
<1>1. n \div w \in Nat /\ (n < w => n \div w = 0)
  BY SMT
<1>2. \A q \in Nat : q % K \in Nat /\ q % K < K
  BY SMT DEF K
<1> QED  BY <1>1, <1>2

(***************************************************************************)
(* MQTTPacket_encode writes bytes, and as many as EncodedLen says.         *)
(***************************************************************************)
LEMMA EncodeType ==
  ASSUME NEW n \in Length
  PROVE  /\ EncodedLen(n) \in 1 .. 4
         /\ Encode(n) \in Seq(Byte) /\ Len(Encode(n)) = EncodedLen(n)
<1>1. EncodedLen(n) \in 1 .. 4
  BY DEF EncodedLen, K
<1>2. ASSUME NEW i \in 1 .. EncodedLen(n)
      PROVE  ((n \div Weight[i]) % K) + (IF i < EncodedLen(n) THEN K ELSE 0) \in Byte
  <2>1. Weight[i] \in Nat \ {0}
    BY <1>1, <1>2 DEF Weight, K
  <2>2. (n \div Weight[i]) % K \in Nat /\ (n \div Weight[i]) % K < K
    BY <2>1, DigitRange DEF Length
  <2> QED  BY <2>2 DEF Byte, K
<1>3. Encode(n) \in [1 .. EncodedLen(n) -> Byte]
  BY <1>2 DEF Encode
<1> QED  BY <1>1, <1>3

\* What the bytes of a length are compared as.
LEMMA BytesAreNumbers == \A b \in Byte : b \in Nat
BY DEF Byte

(***************************************************************************)
(* MQTTPacket_decode stops at the first byte whose top bit is clear.       *)
(***************************************************************************)
LEMMA LengthStops ==
  ASSUME NEW s \in Seq(Byte), NEW m \in 1 .. 4, m <= Len(s), s[m] < K,
         \A j \in 1 .. m - 1 : s[j] >= K
  PROVE  LengthBytes(s) = m
<1> DEFINE Stops(i) == i <= Len(s) /\ s[i] < K /\ \A j \in 1 .. i - 1 : s[j] >= K
<1>1. Stops(m)
  OBVIOUS
<1>2. ASSUME NEW i \in 1 .. 4, Stops(i)
      PROVE  i = m
  <2>1. ASSUME NEW j \in 1 .. Len(s)
        PROVE  s[j] \in Nat
    <3>1. s[j] \in Byte
      BY ElementOfSeq, Zenon
    <3> QED  BY <3>1, BytesAreNumbers, Zenon
  <2>2. ~(i < m) /\ ~(m < i)
    BY <1>2, <2>1 DEF K
  <2> QED  BY <2>2
<1>3. (CHOOSE i \in 1 .. 4 : Stops(i)) = m
  BY <1>1, <1>2
<1>4. \E i \in 1 .. 4 : i <= Len(s) /\ s[i] < K
  OBVIOUS
<1> QED  BY <1>3, <1>4 DEF LengthBytes

(***************************************************************************)
(* MQTTPacket_encode and MQTTPacket_decode: every length the protocol      *)
(* allows is read back, with the number of its bytes, whatever comes after *)
(* it in the buffer or on the wire.                                        *)
(***************************************************************************)
THEOREM LengthReadBack ==
  ASSUME NEW n \in Length, NEW rest \in Seq(Byte)
  PROVE  /\ LengthBytes(Encode(n) \o rest) = EncodedLen(n)
         /\ Decode(Encode(n) \o rest, EncodedLen(n)) = n
<1> DEFINE m == EncodedLen(n)
           s == Encode(n) \o rest
           d(i) == (n \div Weight[i]) % K
<1>1. m \in 1 .. 4 /\ Encode(n) \in Seq(Byte) /\ Len(Encode(n)) = m
  BY EncodeType
<1>2. /\ s \in Seq(Byte) /\ Len(s) = m + Len(rest)
      /\ \A i \in 1 .. Len(s) : s[i] = IF i <= m THEN Encode(n)[i] ELSE rest[i - m]
  BY <1>1, ConcatProperties
<1>3. \A i \in 1 .. m : s[i] = d(i) + (IF i < m THEN K ELSE 0)
  <2>1. \A i \in 1 .. m : Encode(n)[i] = d(i) + (IF i < m THEN K ELSE 0)
    BY DEF Encode
  <2> HIDE DEF m, s, d
  <2>2. \A i \in 1 .. m : i \in 1 .. Len(s) /\ i <= m
    BY <1>1, <1>2
  <2> QED  BY <1>2, <2>1, <2>2
<1>4. \A i \in 1 .. 4 : Weight[i] \in Nat \ {0}
  BY DEF Weight, K
<1>5. \A i \in 1 .. 4 : d(i) \in Nat /\ d(i) < K
  BY <1>4, DigitRange DEF Length
<1> HIDE DEF s, d
<1>6. s[m] < K /\ \A j \in 1 .. m - 1 : s[j] >= K
  <2>1. s[m] < K
    BY <1>1, <1>3, <1>5
  <2>2. ASSUME NEW j \in 1 .. m - 1
        PROVE  s[j] >= K
    <3>1. s[j] = d(j) + K
      BY <2>2, <1>1, <1>3
    <3>2. d(j) \in Nat
      BY <2>2, <1>1, <1>5
    <3> QED  BY <3>1, <3>2 DEF K
  <2> QED  BY <2>1, <2>2
<1>7. LengthBytes(s) = m
  <2>1. s \in Seq(Byte) /\ m <= Len(s)
    BY <1>1, <1>2
  <2> QED  BY <1>1, <1>6, <2>1, LengthStops
<1>8. ASSUME NEW i \in 1 .. 4
      PROVE  Digit(s, m, i) = d(i) * Weight[i]
  <2>1. CASE i <= m
    <3>1. d(i) \in Nat /\ d(i) < K
      BY <1>5
    <3>2. s[i] = d(i) \/ s[i] = d(i) + K
      BY <2>1, <1>1, <1>3, <3>1 DEF K
    <3>3. \A x \in Nat : x < K => x % K = x /\ (x + K) % K = x
      BY SMT DEF K
    <3>4. s[i] % K = d(i)
      BY <3>1, <3>2, <3>3
    <3> QED  BY <2>1, <3>4 DEF Digit
  <2>2. CASE i > m
    <3>1. n < Weight[i]
      BY <2>2, <1>1 DEF EncodedLen, Weight, K, Length, MaxRemaining
    <3>2. n \div Weight[i] = 0
      BY <3>1, <1>4, DigitRange DEF Length
    <3>3. d(i) = 0
      BY <3>2 DEF d, K
    <3> QED  BY <2>2, <3>3, <1>1, <1>4 DEF Digit
  <2> QED  BY <2>1, <2>2, <1>1
<1>9. Decode(s, m) = d(1) * Weight[1] + d(2) * Weight[2] + d(3) * Weight[3]
                     + d(4) * Weight[4]
  BY <1>8 DEF Decode
<1>10. Decode(s, m) = (n % K) + ((n \div K) % K) * K + ((n \div (K * K)) % K) * (K * K)
                      + ((n \div (K * K * K)) % K) * (K * K * K)
  BY <1>9 DEF d, Weight, K, Length
<1>11. Decode(s, m) = n
  BY <1>10, Digits DEF Length, K
<1> QED  BY <1>7, <1>11 DEF s

(***************************************************************************)
(* MQTTPacket_len: a packet that passes a serializer's check of the room,  *)
(* header, length and body, is never longer than the buffer.               *)
(***************************************************************************)
THEOREM PacketFitsBuffer ==
  ASSUME NEW header \in Byte, NEW body \in Seq(Byte), NEW buflen \in Nat,
         Len(body) \in Length
  PROVE  Len(Fitting(buflen, header, body)) <= buflen
<1>1. CASE PacketLen(Len(body)) > buflen
  BY <1>1 DEF Fitting
<1>2. CASE ~(PacketLen(Len(body)) > buflen)
  <2>1. Len(Framed(header, body)) = 1 + EncodedLen(Len(body)) + Len(body)
    BY EncodeType DEF Framed
  <2>2. 1 + EncodedLen(Len(body)) + Len(body) <= PacketLen(Len(body))
    BY DEF EncodedLen, PacketLen, Length, K
  <2>3. PacketLen(Len(body)) \in Nat
    BY DEF PacketLen, Length, K
  <2> QED  BY <1>2, <2>1, <2>2, <2>3 DEF Fitting
<1> QED  BY <1>1, <1>2

-----------------------------------------------------------------------------
(* The bytes of a packet.                                                    *)

(***************************************************************************)
(* MQTTPacket_encode writes what the standard says of the length.          *)
(***************************************************************************)
LEMMA EncodeStandard ==
  ASSUME NEW n \in Length
  PROVE  Base128(n) = Encode(n)
<1> DEFINE d(i) == ((n \div Weight[i]) % K) + (IF i < EncodedLen(n) THEN K ELSE 0)
<1>1. /\ n \in Nat
      /\ EncodedLen(n) \in 1 .. 4 /\ Encode(n) = [i \in 1 .. EncodedLen(n) |-> d(i)]
  BY EncodeType DEF Encode, Length
<1>2. Weight[1] = 1 /\ Weight[2] = K /\ Weight[3] = K * K /\ Weight[4] = K * K * K
  BY DEF Weight
<1>3. /\ (n \div 1) % 128 = n % 128
      /\ n < 128 => n % 128 = n
      /\ n < 128 * 128 => (n \div 128) % 128 = n \div 128
      /\ n < 128 * 128 * 128 => (n \div (128 * 128)) % 128 = n \div (128 * 128)
      /\ (n \div (128 * 128 * 128)) % 128 = n \div (128 * 128 * 128)
      /\ n % 128 \in Nat /\ (n \div 128) % 128 \in Nat
      /\ (n \div (128 * 128)) % 128 \in Nat /\ n \div (128 * 128 * 128) \in Nat
  BY SMT DEF Length, MaxRemaining, K
<1>4. CASE n < 128
  <2>1. EncodedLen(n) = 1
    BY <1>4 DEF EncodedLen, K, Length
  <2>2. Base128(n) = <<n>>
    BY <1>1, <1>4 DEF Base128
  <2>3. d(1) = n
    BY <1>2, <1>3, <1>4, <2>1 DEF K, Length
  <2> QED  BY <1>1, <2>1, <2>2, <2>3
<1>5. CASE 128 <= n /\ n < 128 * 128
  <2>1. EncodedLen(n) = 2
    BY <1>5 DEF EncodedLen, K, Length
  <2>2. Base128(n) = <<128 + (n % 128), n \div 128>>
    BY <1>1, <1>5 DEF Base128
  <2>3. d(1) = 128 + (n % 128) /\ d(2) = n \div 128
    BY <1>2, <1>3, <1>5, <2>1 DEF K
  <2> QED  BY <1>1, <2>1, <2>2, <2>3
<1>6. CASE 128 * 128 <= n /\ n < 128 * 128 * 128
  <2>1. EncodedLen(n) = 3
    BY <1>6 DEF EncodedLen, K, Length
  <2>2. Base128(n) = <<128 + (n % 128), 128 + ((n \div 128) % 128), n \div (128 * 128)>>
    BY <1>1, <1>6 DEF Base128
  <2>3. /\ d(1) = 128 + (n % 128) /\ d(2) = 128 + ((n \div 128) % 128)
        /\ d(3) = n \div (128 * 128)
    BY <1>2, <1>3, <1>6, <2>1 DEF K
  <2> QED  BY <1>1, <2>1, <2>2, <2>3
<1>7. CASE 128 * 128 * 128 <= n
  <2>1. EncodedLen(n) = 4
    BY <1>7 DEF EncodedLen, K, Length
  <2>2. Base128(n) = <<128 + (n % 128), 128 + ((n \div 128) % 128),
                          128 + ((n \div (128 * 128)) % 128), n \div (128 * 128 * 128)>>
    BY <1>1, <1>7 DEF Base128
  <2>3. /\ d(1) = 128 + (n % 128) /\ d(2) = 128 + ((n \div 128) % 128)
        /\ d(3) = 128 + ((n \div (128 * 128)) % 128) /\ d(4) = n \div (128 * 128 * 128)
    BY <1>2, <1>3, <1>7, <2>1 DEF K
  <2> QED  BY <1>1, <2>1, <2>2, <2>3
<1> QED  BY <1>4, <1>5, <1>6, <1>7 DEF Length

(***************************************************************************)
(* What two sequences joined are made of, and what a part of one is.       *)
(***************************************************************************)
LEMMA Joined ==
  ASSUME NEW S, NEW s \in Seq(S), NEW t \in Seq(S)
  PROVE  /\ s \o t \in Seq(S) /\ Len(s \o t) = Len(s) + Len(t)
         /\ Len(s) \in Nat /\ Len(t) \in Nat
         /\ \A i \in 1 .. Len(s) : (s \o t)[i] = s[i]
         /\ \A i \in 1 .. Len(t) : (s \o t)[Len(s) + i] = t[i]
<1>1. Len(s) \in Nat /\ Len(t) \in Nat
  BY LenProperties
<1>2. /\ s \o t \in Seq(S) /\ Len(s \o t) = Len(s) + Len(t)
      /\ \A i \in 1 .. Len(s) + Len(t) :
           (s \o t)[i] = IF i <= Len(s) THEN s[i] ELSE t[i - Len(s)]
  BY ConcatProperties, Zenon
<1>3. ASSUME NEW i \in 1 .. Len(s)
      PROVE  (s \o t)[i] = s[i]
  <2>1. i \in 1 .. Len(s) + Len(t) /\ i <= Len(s)
    BY <1>1
  <2> QED  BY <1>2, <2>1
<1>4. ASSUME NEW i \in 1 .. Len(t)
      PROVE  (s \o t)[Len(s) + i] = t[i]
  <2>1. /\ Len(s) + i \in 1 .. Len(s) + Len(t) /\ ~(Len(s) + i <= Len(s))
        /\ (Len(s) + i) - Len(s) = i
    BY <1>1
  <2> QED  BY <1>2, <2>1, Zenon
<1> QED  BY <1>1, <1>2, <1>3, <1>4

LEMMA Part ==
  ASSUME NEW S, NEW s \in Seq(S), NEW a \in Nat, NEW b \in Nat,
         1 <= a, a <= b + 1, b <= Len(s)
  PROVE  /\ SubSeq(s, a, b) \in Seq(S) /\ Len(SubSeq(s, a, b)) = (b + 1) - a
         /\ \A i \in 1 .. (b + 1) - a : SubSeq(s, a, b)[i] = s[(a - 1) + i]
<1>1. Len(s) \in Nat
  BY LenProperties
<1>2. \A i \in a .. b : s[i] \in S
  BY <1>1, ElementOfSeq
<1>3. /\ SubSeq(s, a, b) \in Seq(S)
      /\ Len(SubSeq(s, a, b)) = IF a <= b THEN b - a + 1 ELSE 0
      /\ \A i \in 1 .. b - a + 1 : SubSeq(s, a, b)[i] = s[a + i - 1]
  BY <1>2, SubSeqProperties
<1>4. (IF a <= b THEN b - a + 1 ELSE 0) = (b + 1) - a /\ b - a + 1 = (b + 1) - a
  OBVIOUS
<1>5. \A i \in 1 .. (b + 1) - a : a + i - 1 = (a - 1) + i
  OBVIOUS
<1> QED  BY <1>3, <1>4, <1>5, Zenon

(***************************************************************************)
(* The two parts a sequence was joined of are its front and its rest.      *)
(***************************************************************************)
LEMMA PartsOfJoined ==
  ASSUME NEW S, NEW s \in Seq(S), NEW t \in Seq(S)
  PROVE  /\ SubSeq(s \o t, 1, Len(s)) = s
         /\ SubSeq(s \o t, Len(s) + 1, Len(s) + Len(t)) = t
<1> DEFINE u == s \o t
<1>1. /\ u \in Seq(S) /\ Len(u) = Len(s) + Len(t)
      /\ Len(s) \in Nat /\ Len(t) \in Nat
      /\ \A i \in 1 .. Len(s) : u[i] = s[i]
      /\ \A i \in 1 .. Len(t) : u[Len(s) + i] = t[i]
  BY Joined
<1> HIDE DEF u
<1>2. /\ SubSeq(u, 1, Len(s)) \in Seq(S) /\ Len(SubSeq(u, 1, Len(s))) = Len(s)
      /\ \A i \in 1 .. Len(s) : SubSeq(u, 1, Len(s))[i] = u[i]
  BY <1>1, Part
<1>3. SubSeq(u, 1, Len(s)) = s
  BY <1>1, <1>2, SeqEqual
<1> DEFINE v == SubSeq(u, Len(s) + 1, Len(s) + Len(t))
<1>4. v \in Seq(S) /\ Len(v) = Len(t) /\ \A i \in 1 .. Len(t) : v[i] = u[Len(s) + i]
  BY <1>1, Part
<1> HIDE DEF v
<1>5. v = t
  BY <1>1, <1>4, SeqEqual
<1> QED  BY <1>3, <1>5 DEF u, v

LEMMA FrontOfJoined ==
  ASSUME NEW S, NEW s \in Seq(S), NEW t \in Seq(S), NEW a \in Nat, NEW b \in Nat,
         1 <= a, a <= b + 1, b <= Len(s)
  PROVE  SubSeq(s \o t, a, b) = SubSeq(s, a, b)
<1> DEFINE u == s \o t
           x == SubSeq(u, a, b)
           y == SubSeq(s, a, b)
<1>1. /\ u \in Seq(S) /\ Len(u) = Len(s) + Len(t)
      /\ Len(s) \in Nat /\ Len(t) \in Nat
      /\ \A i \in 1 .. Len(s) : u[i] = s[i]
  BY Joined
<1> HIDE DEF u
<1>2. x \in Seq(S) /\ Len(x) = (b + 1) - a /\ \A i \in 1 .. (b + 1) - a : x[i] = u[(a - 1) + i]
  BY <1>1, Part
<1>3. y \in Seq(S) /\ Len(y) = (b + 1) - a /\ \A i \in 1 .. (b + 1) - a : y[i] = s[(a - 1) + i]
  BY Part
<1> HIDE DEF x, y
<1>4. \A i \in 1 .. (b + 1) - a : (a - 1) + i \in 1 .. Len(s)
  BY <1>1
<1>5. \A i \in 1 .. (b + 1) - a : x[i] = y[i]
  BY <1>1, <1>2, <1>3, <1>4
<1>6. x = y
  BY <1>2, <1>3, <1>5, SeqEqual
<1> QED  BY <1>6 DEF u, x, y

LEMMA PartOfPart ==
  ASSUME NEW S, NEW s \in Seq(S), NEW a \in Nat, NEW b \in Nat,
         1 <= a, a <= b + 1, b <= Len(s),
         NEW c \in Nat, NEW d \in Nat, 1 <= c, c <= d + 1, d <= (b + 1) - a
  PROVE  SubSeq(SubSeq(s, a, b), c, d) = SubSeq(s, (a + c) - 1, (a + d) - 1)
<1> DEFINE u == SubSeq(s, a, b)
           x == SubSeq(u, c, d)
           y == SubSeq(s, (a + c) - 1, (a + d) - 1)
<1>1. Len(s) \in Nat
  BY LenProperties
<1>2. u \in Seq(S) /\ Len(u) = (b + 1) - a /\ \A i \in 1 .. (b + 1) - a : u[i] = s[(a - 1) + i]
  BY Part
<1> HIDE DEF u
<1>3. x \in Seq(S) /\ Len(x) = (d + 1) - c /\ \A i \in 1 .. (d + 1) - c : x[i] = u[(c - 1) + i]
  BY <1>2, Part
<1> HIDE DEF x
<1>4. /\ (a + c) - 1 \in Nat /\ (a + d) - 1 \in Nat /\ 1 <= (a + c) - 1
      /\ (a + c) - 1 <= ((a + d) - 1) + 1 /\ (a + d) - 1 <= Len(s)
      /\ (((a + d) - 1) + 1) - ((a + c) - 1) = (d + 1) - c
      /\ ((a + c) - 1) - 1 = (a - 1) + (c - 1)
  BY <1>1
<1>5. /\ y \in Seq(S) /\ Len(y) = (d + 1) - c
      /\ \A i \in 1 .. (d + 1) - c : y[i] = s[((a - 1) + (c - 1)) + i]
  BY <1>4, Part
<1> HIDE DEF y
<1>6. ASSUME NEW i \in 1 .. (d + 1) - c
      PROVE  x[i] = y[i]
  <2>1. /\ (c - 1) + i \in 1 .. (b + 1) - a
        /\ (a - 1) + ((c - 1) + i) = ((a - 1) + (c - 1)) + i
    BY <1>1
  <2>2. x[i] = u[(c - 1) + i]
    BY <1>3
  <2>3. u[(c - 1) + i] = s[(a - 1) + ((c - 1) + i)]
    BY <1>2, <2>1
  <2> QED  BY <1>5, <2>1, <2>2, <2>3
<1>7. x = y
  BY <1>3, <1>5, <1>6, SeqEqual
<1> QED  BY <1>7 DEF u, x, y

(***************************************************************************)
(* writeInt, writeMQTTString and readInt: the two bytes of a number or of  *)
(* the length of a string, as the standard has them.                       *)
(***************************************************************************)
LEMMA WordStandard ==
  ASSUME NEW n \in Word
  PROVE  /\ WriteInt(n) = TwoBytes(n)
         /\ TwoBytes(n) \in Seq(Byte) /\ Len(TwoBytes(n)) = 2
         /\ 256 * TwoBytes(n)[1] + TwoBytes(n)[2] = n
<1>1. n \in Nat /\ n < 256 * 256
  BY SMT DEF Word
<1>2. /\ n \div 256 \in 0 .. 255 /\ n % 256 \in 0 .. 255
      /\ (n \div 256) % 256 = n \div 256
  BY <1>1, SMT
<1>3. 256 * (n \div 256) + (n % 256) = n
  BY <1>1, SMT
<1>4. TwoBytes(n)[1] = n \div 256 /\ TwoBytes(n)[2] = n % 256
  BY DEF TwoBytes
<1> DEFINE a == n \div 256
           b == n % 256
<1>5. a \in Byte /\ b \in Byte /\ WriteInt(n) = <<a, b>> /\ TwoBytes(n) = <<a, b>>
  BY <1>2, Zenon DEF WriteInt, TwoBytes, Byte
<1>6. 256 * TwoBytes(n)[1] + TwoBytes(n)[2] = n
  BY <1>3, <1>4
<1> HIDE DEF a, b
<1>7. <<a, b>> \in Seq(Byte) /\ Len(<<a, b>>) = 2
  BY <1>5
<1>8. TwoBytes(n) \in Seq(Byte) /\ Len(TwoBytes(n)) = 2 /\ WriteInt(n) = TwoBytes(n)
  BY <1>5, <1>7, Zenon
<1> QED  BY <1>6, <1>8

LEMMA StringStandard ==
  ASSUME NEW s \in String
  PROVE  /\ WriteString(s) = Text(s)
         /\ Text(s) \in Seq(Byte) /\ Len(Text(s)) = 2 + Len(s)
         /\ 256 * Text(s)[1] + Text(s)[2] = Len(s)
<1> DEFINE t == TwoBytes(Len(s))
<1>1. s \in Seq(Byte)
  BY DEF String
<1>2. WriteString(s) = t \o s /\ t \in Seq(Byte) /\ Len(t) = 2
  BY WordStandard DEF WriteString, String
<1>3. 256 * t[1] + t[2] = Len(s)
  BY WordStandard DEF String
<1>4. Text(s) = t \o s
  BY DEF t, Text
<1> HIDE DEF t
<1>5. t \in Seq(Byte)
  BY <1>2
<1>6. /\ t \o s \in Seq(Byte) /\ Len(t \o s) = Len(t) + Len(s)
      /\ \A i \in 1 .. Len(t) : (t \o s)[i] = t[i]
  BY <1>1, <1>5, Joined
<1>7. (t \o s)[1] = t[1] /\ (t \o s)[2] = t[2]
  BY <1>2, <1>6
<1>8. 256 * (t \o s)[1] + (t \o s)[2] = Len(s)
  BY <1>3, <1>7, Zenon
<1>9. Len(t \o s) = 2 + Len(s)
  BY <1>2, <1>6, Zenon
<1> QED  BY <1>2, <1>4, <1>6, <1>8, <1>9, Zenon

(***************************************************************************)
(* A packet of a header, a length and a body, wherever it comes from: its  *)
(* length and its body are found again (MQTTPacket_decodeBuf).             *)
(***************************************************************************)
LEMMA FramedFacts ==
  ASSUME NEW h \in Byte, NEW body \in Seq(Byte), Len(body) \in Length
  PROVE  LET b == Framed(h, body)
             m == EncodedLen(Len(body))
         IN  /\ b \in Seq(Byte) /\ Len(b) = 1 + m + Len(body)
             /\ b[1] = h
             /\ Tail(b) = Encode(Len(body)) \o body
             /\ LengthBytes(Tail(b)) = m /\ Decode(Tail(b), m) = Len(body)
             /\ SubSeq(b, 2 + m, 1 + m + Len(body)) = body
             /\ BodyOf(b) = body
<1> DEFINE n == Len(body)
           e == Encode(n)
           m == EncodedLen(n)
           b == Framed(h, body)
<1>1. m \in 1 .. 4 /\ e \in Seq(Byte) /\ Len(e) = m /\ n \in Nat
  BY EncodeType, LenProperties
<1>2. LengthBytes(e \o body) = m /\ Decode(e \o body, m) = n
  BY LengthReadBack
<1>3. <<h>> \in Seq(Byte) /\ Len(<<h>>) = 1 /\ <<h>>[1] = h
  OBVIOUS
<1>4. b = (<<h>> \o e) \o body
  BY DEF Framed
<1>5. n = Len(body)
  OBVIOUS
<1> HIDE DEF b, e, m, n
<1>6. b = <<h>> \o (e \o body)
  BY <1>1, <1>3, <1>4, ConcatAssociative
<1>7. /\ e \o body \in Seq(Byte) /\ Len(e \o body) = m + n
      /\ <<h>> \o e \in Seq(Byte) /\ Len(<<h>> \o e) = 1 + m
  BY <1>1, <1>3, <1>5, Joined
<1>8. /\ b \in Seq(Byte) /\ Len(b) = 1 + (m + n)
      /\ b[1] = h
      /\ \A i \in 1 .. m + n : b[1 + i] = (e \o body)[i]
  <2>1. /\ b \in Seq(Byte) /\ Len(b) = 1 + (m + n)
        /\ \A i \in 1 .. 1 : b[i] = <<h>>[i]
        /\ \A i \in 1 .. m + n : b[1 + i] = (e \o body)[i]
    BY <1>3, <1>6, <1>7, Joined
  <2>2. b[1] = <<h>>[1]
    BY <2>1
  <2> QED  BY <1>3, <2>1, <2>2, Zenon
<1>9. Tail(b) = e \o body
  <2>1. b # <<>> /\ (1 + (m + n)) - 1 = m + n
    BY <1>1, <1>8
  <2>2. /\ Tail(b) \in Seq(Byte) /\ Len(Tail(b)) = Len(b) - 1
        /\ \A i \in 1 .. Len(Tail(b)) : Tail(b)[i] = b[i + 1]
    BY <1>8, <2>1, HeadTailProperties, Zenon
  <2>3. Len(Tail(b)) = m + n
    BY <1>8, <2>1, <2>2, Zenon
  <2>4. ASSUME NEW i \in 1 .. m + n
        PROVE  Tail(b)[i] = (e \o body)[i]
    <3>1. i + 1 = 1 + i
      BY <1>1
    <3> QED  BY <1>8, <2>2, <2>3, <3>1, Zenon
  <2> QED  BY <1>7, <2>2, <2>3, <2>4, SeqEqual
<1>10. SubSeq(b, 2 + m, 1 + m + n) = body
  <2>1. SubSeq(b, (1 + m) + 1, (1 + m) + n) = body
    BY <1>4, <1>5, <1>7, PartsOfJoined
  <2>2. (1 + m) + 1 = 2 + m
    BY <1>1
  <2> QED  BY <2>1, <2>2
<1>11. BodyOf(b) = body
  <2>1. BodyOf(b) = SubSeq(b, 2 + m, (2 + m) - 1 + n)
    BY <1>2, <1>9 DEF BodyOf
  <2>2. (2 + m) - 1 + n = 1 + m + n
    BY <1>1
  <2> QED  BY <1>10, <2>1, <2>2
<1>12. Len(b) = 1 + m + n
  BY <1>1, <1>8
<1> QED  BY <1>2, <1>8, <1>9, <1>10, <1>11, <1>12 DEF b, e, m, n

(***************************************************************************)
(* What the standard says of each type.                                    *)
(***************************************************************************)
LEMMA StandardOf ==
  ASSUME NEW p
  PROVE  /\ p.type = PUBLISH =>
              StandardFlags(p) = 2 * p.qos /\ StandardBody(p) = MessageBytes(p)
         /\ p.type = SUBSCRIBE =>
              StandardFlags(p) = 2 /\ StandardBody(p) = SubscribeBytes(p)
         /\ p.type = UNSUBSCRIBE =>
              StandardFlags(p) = 2 /\ StandardBody(p) = UnsubscribeBytes(p)
         /\ p.type = SUBACK => StandardFlags(p) = 0 /\ StandardBody(p) = GrantBytes(p)
         /\ p.type \in {PUBACK, UNSUBACK} =>
              StandardFlags(p) = 0 /\ StandardBody(p) = TwoBytes(p.id)
         /\ p.type = CONNACK => StandardFlags(p) = 0 /\ StandardBody(p) = <<0, p.code>>
         /\ p.type = CONNECT => StandardFlags(p) = 0 /\ StandardBody(p) = ConnectBytes(p)
         /\ p.type \in {PINGREQ, PINGRESP} => StandardFlags(p) = 0 /\ StandardBody(p) = <<>>
<1> USE DEF CONNECT, CONNACK, PUBLISH, PUBACK, SUBSCRIBE, SUBACK, UNSUBSCRIBE, UNSUBACK,
            PINGREQ, PINGRESP
<1>1. CASE p.type = PUBLISH
  BY <1>1 DEF StandardBody, StandardFlags
<1>2. CASE p.type = SUBSCRIBE
  BY <1>2 DEF StandardBody, StandardFlags
<1>3. CASE p.type = UNSUBSCRIBE
  BY <1>3 DEF StandardBody, StandardFlags
<1>4. CASE p.type = SUBACK
  BY <1>4 DEF StandardBody, StandardFlags
<1>5. CASE p.type \in {PUBACK, UNSUBACK}
  BY <1>5 DEF StandardBody, StandardFlags
<1>6. CASE p.type = CONNACK
  BY <1>6 DEF StandardBody, StandardFlags
<1>7. CASE p.type = CONNECT
  BY <1>7 DEF StandardBody, StandardFlags
<1>8. CASE p.type \in {PINGREQ, PINGRESP}
  BY <1>8 DEF StandardBody, StandardFlags
<1> HIDE DEF CONNECT, CONNACK, PUBLISH, PUBACK, SUBSCRIBE, SUBACK, UNSUBSCRIBE, UNSUBACK,
             PINGREQ, PINGRESP
<1> QED  BY <1>1, <1>2, <1>3, <1>4, <1>5, <1>6, <1>7, <1>8, Zenon

(***************************************************************************)
(* The kinds of packet a client writes, and a broker.                      *)
(***************************************************************************)
IsMessage(p) ==
  /\ p.type = PUBLISH /\ p.qos \in 0 .. 2
  /\ p.topic \in String /\ p.id \in Word /\ p.payload \in Seq(Byte)
IsSubscribe(p) ==
  p.type = SUBSCRIBE /\ p.id \in Word /\ p.topic \in String /\ p.qos \in 0 .. 2
IsUnsubscribe(p) == p.type = UNSUBSCRIBE /\ p.id \in Word /\ p.topic \in String
IsConnect(p) ==
  /\ p.type = CONNECT /\ p.keepalive \in Word /\ p.clean \in BOOLEAN
  /\ p.client \in String /\ p.user \in String /\ p.password \in String

LEMMA RequestKinds ==
  ASSUME NEW p \in Requests
  PROVE  /\ Len(StandardBody(p)) <= MaxRemaining
         /\ \/ IsMessage(p)
            \/ IsSubscribe(p)
            \/ IsUnsubscribe(p)
            \/ IsConnect(p)
            \/ p.type = PUBACK /\ p.id \in Word
            \/ p.type = PINGREQ
<1>1. Len(StandardBody(p)) <= MaxRemaining
  BY DEF Requests
<1>2. CASE p \in Messages
  BY <1>1, <1>2 DEF Messages, IsMessage
<1>3. CASE p \in [type : {SUBSCRIBE}, id : Word, topic : String, qos : 0 .. 2]
  BY <1>1, <1>3 DEF IsSubscribe
<1>4. CASE p \in [type : {UNSUBSCRIBE}, id : Word, topic : String]
  BY <1>1, <1>4 DEF IsUnsubscribe
<1>5. CASE p \in [type : {CONNECT}, keepalive : Word, clean : BOOLEAN, client : String,
                  user : String, password : String]
  BY <1>1, <1>5 DEF IsConnect
<1>6. CASE p \in [type : {PUBACK}, id : Word]
  BY <1>1, <1>6
<1>7. CASE p \in [type : {PINGREQ}]
  BY <1>1, <1>7
<1> QED  BY <1>2, <1>3, <1>4, <1>5, <1>6, <1>7 DEF Requests

LEMMA ReplyKinds ==
  ASSUME NEW p \in Replies
  PROVE  /\ Len(StandardBody(p)) <= MaxRemaining
         /\ \/ /\ IsMessage(p) /\ (p.qos = 0 => p.id = 0)
               /\ p = [type |-> PUBLISH, qos |-> p.qos, topic |-> p.topic, id |-> p.id,
                       payload |-> p.payload]
            \/ /\ p = [type |-> SUBACK, id |-> p.id, granted |-> p.granted]
               /\ p.id \in Word /\ p.granted \in [{1} -> Byte]
            \/ /\ p = [type |-> p.type, id |-> p.id] /\ p.type \in {PUBACK, UNSUBACK}
               /\ p.id \in Word
            \/ p = [type |-> CONNACK, code |-> p.code] /\ p.code \in Byte
            \/ p = [type |-> PINGRESP]
<1>1. Len(StandardBody(p)) <= MaxRemaining
  BY DEF Replies
<1>2. CASE p \in {m \in Messages : m.qos = 0 => m.id = 0}
  BY <1>1, <1>2 DEF Messages, IsMessage
<1>3. CASE p \in [type : {SUBACK}, id : Word, granted : [{1} -> Byte]]
  BY <1>1, <1>3
<1>4. CASE p \in [type : {PUBACK, UNSUBACK}, id : Word]
  BY <1>1, <1>4
<1>5. CASE p \in [type : {CONNACK}, code : Byte]
  BY <1>1, <1>5
<1>6. CASE p \in [type : {PINGRESP}]
  BY <1>1, <1>6
<1> QED  BY <1>2, <1>3, <1>4, <1>5, <1>6 DEF Replies

(***************************************************************************)
(* Every one of them is bytes, and no longer than a length can say.        *)
(***************************************************************************)
LEMMA NameString == <<77, 81, 84, 84>> \in String
<1>1. 77 \in Byte /\ 81 \in Byte /\ 84 \in Byte
  BY DEF Byte
<1>2. <<77, 81, 84, 84>> \in Seq(Byte) /\ Len(<<77, 81, 84, 84>>) = 4
  BY <1>1
<1>3. 4 \in Word
  BY DEF Word
<1> QED  BY <1>2, <1>3 DEF String

LEMMA TwoJoined ==
  ASSUME NEW s \in Seq(Byte), NEW t \in Seq(Byte)
  PROVE  s \o t \in Seq(Byte)
BY Joined

LEMMA BodyBytes ==
  ASSUME NEW p
  PROVE  /\ IsMessage(p) => MessageBytes(p) \in Seq(Byte)
         /\ IsSubscribe(p) => SubscribeBytes(p) \in Seq(Byte)
         /\ IsUnsubscribe(p) => UnsubscribeBytes(p) \in Seq(Byte)
         /\ IsConnect(p) => ConnectBytes(p) \in Seq(Byte)
<1>1. ASSUME IsMessage(p)
      PROVE  MessageBytes(p) \in Seq(Byte)
  <2>1. Text(p.topic) \in Seq(Byte) /\ TwoBytes(p.id) \in Seq(Byte)
    BY <1>1, WordStandard, StringStandard DEF IsMessage
  <2>2. (IF p.qos = 0 THEN <<>> ELSE TwoBytes(p.id)) \in Seq(Byte)
    BY <2>1, EmptySeq
  <2>3. p.payload \in Seq(Byte)
    BY <1>1 DEF IsMessage
  <2> QED  BY <2>1, <2>2, <2>3, TwoJoined, Zenon DEF MessageBytes
<1>2. ASSUME IsSubscribe(p)
      PROVE  SubscribeBytes(p) \in Seq(Byte)
  <2>1. Text(p.topic) \in Seq(Byte) /\ TwoBytes(p.id) \in Seq(Byte)
    BY <1>2, WordStandard, StringStandard DEF IsSubscribe
  <2>2. p.qos \in Byte
    BY <1>2 DEF IsSubscribe, Byte
  <2>3. <<p.qos>> \in Seq(Byte)
    BY <2>2
  <2> QED  BY <2>1, <2>3, TwoJoined, Zenon DEF SubscribeBytes
<1>3. ASSUME IsUnsubscribe(p)
      PROVE  UnsubscribeBytes(p) \in Seq(Byte)
  <2>1. Text(p.topic) \in Seq(Byte) /\ TwoBytes(p.id) \in Seq(Byte)
    BY <1>3, WordStandard, StringStandard DEF IsUnsubscribe
  <2> QED  BY <2>1, TwoJoined, Zenon DEF UnsubscribeBytes
<1>4. ASSUME IsConnect(p)
      PROVE  ConnectBytes(p) \in Seq(Byte)
  <2> DEFINE name == Text(<<77, 81, 84, 84>>)
             flags == <<4, IF p.clean THEN 194 ELSE 192>>
             alive == TwoBytes(p.keepalive)
             client == Text(p.client)
             user == Text(p.user)
             word == Text(p.password)
  <2>1. client \in Seq(Byte) /\ user \in Seq(Byte) /\ word \in Seq(Byte)
    BY <1>4, StringStandard DEF IsConnect
  <2>2. alive \in Seq(Byte)
    BY <1>4, WordStandard DEF IsConnect
  <2>3. name \in Seq(Byte)
    BY NameString, StringStandard
  <2>4. flags \in Seq(Byte)
    <3>1. (IF p.clean THEN 194 ELSE 192) \in Byte /\ 4 \in Byte
      BY DEF Byte
    <3> QED  BY <3>1
  <2>5. ConnectBytes(p) = ((((name \o flags) \o alive) \o client) \o user) \o word
    BY DEF ConnectBytes
  <2> HIDE DEF name, flags, alive, client, user, word
  <2>6. (name \o flags) \o alive \in Seq(Byte)
    BY <2>2, <2>3, <2>4, TwoJoined, Zenon
  <2>7. (((name \o flags) \o alive) \o client) \o user \in Seq(Byte)
    BY <2>1, <2>6, TwoJoined, Zenon
  <2> QED  BY <2>1, <2>5, <2>7, TwoJoined, Zenon
<1> QED  BY <1>1, <1>2, <1>3, <1>4

LEMMA PacketBytes ==
  ASSUME NEW p \in Requests \cup Replies
  PROVE  /\ StandardBody(p) \in Seq(Byte) /\ Len(StandardBody(p)) \in Length
         /\ 16 * p.type + StandardFlags(p) \in Byte
         /\ OnWire(p) = Framed(16 * p.type + StandardFlags(p), StandardBody(p))
<1>1. Len(StandardBody(p)) <= MaxRemaining
  BY RequestKinds, ReplyKinds
<1>2. /\ StandardBody(p) \in Seq(Byte)
      /\ p.type \in 1 .. 14 /\ StandardFlags(p) \in 0 .. 4
  <2>1. CASE IsMessage(p)
    <3>1. /\ p.type = PUBLISH /\ p.qos \in 0 .. 2
          /\ StandardFlags(p) = 2 * p.qos /\ StandardBody(p) = MessageBytes(p)
      BY <2>1, StandardOf DEF IsMessage
    <3>2. 2 * p.qos \in 0 .. 4 /\ PUBLISH \in 1 .. 14
      BY <3>1 DEF PUBLISH
    <3> QED  BY <2>1, <3>1, <3>2, BodyBytes
  <2>2. CASE IsSubscribe(p)
    BY <2>2, StandardOf, BodyBytes DEF IsSubscribe, SUBSCRIBE
  <2>3. CASE IsUnsubscribe(p)
    BY <2>3, StandardOf, BodyBytes DEF IsUnsubscribe, UNSUBSCRIBE
  <2>4. CASE IsConnect(p)
    BY <2>4, StandardOf, BodyBytes DEF IsConnect, CONNECT
  <2>5. CASE p.type \in {PUBACK, UNSUBACK} /\ p.id \in Word
    <3>1. StandardFlags(p) = 0 /\ StandardBody(p) = TwoBytes(p.id)
      BY <2>5, StandardOf
    <3> QED  BY <2>5, <3>1, WordStandard DEF PUBACK, UNSUBACK
  <2>6. CASE p.type \in {PINGREQ, PINGRESP}
    <3>1. StandardFlags(p) = 0 /\ StandardBody(p) = <<>>
      BY <2>6, StandardOf
    <3> QED  BY <2>6, <3>1, EmptySeq DEF PINGREQ, PINGRESP
  <2>7. CASE p.type = SUBACK /\ p.id \in Word /\ p.granted \in [{1} -> Byte]
    <3>1. p.granted \in Seq(Byte)
      <4>1. {1} = 1 .. 1
        OBVIOUS
      <4> QED  BY <2>7, <4>1, SeqDef, Zenon
    <3>2. TwoBytes(p.id) \o p.granted \in Seq(Byte)
      BY <2>7, <3>1, WordStandard, TwoJoined
    <3>3. StandardFlags(p) = 0 /\ StandardBody(p) = TwoBytes(p.id) \o p.granted
      BY <2>7, StandardOf, Zenon DEF GrantBytes
    <3>4. p.type \in 1 .. 14
      BY <2>7 DEF SUBACK
    <3> QED  BY <3>2, <3>3, <3>4
  <2>8. CASE p.type = CONNACK /\ p.code \in Byte
    <3>1. 0 \in Byte
      BY DEF Byte
    <3>2. <<0, p.code>> \in Seq(Byte)
      BY <2>8, <3>1
    <3>3. StandardFlags(p) = 0 /\ StandardBody(p) = <<0, p.code>>
      BY <2>8, StandardOf
    <3>4. p.type \in 1 .. 14
      BY <2>8 DEF CONNACK
    <3> QED  BY <3>2, <3>3, <3>4
  <2>9. \/ IsMessage(p) \/ IsSubscribe(p) \/ IsUnsubscribe(p) \/ IsConnect(p)
        \/ p.type \in {PUBACK, UNSUBACK} /\ p.id \in Word
        \/ p.type \in {PINGREQ, PINGRESP}
        \/ p.type = SUBACK /\ p.id \in Word /\ p.granted \in [{1} -> Byte]
        \/ p.type = CONNACK /\ p.code \in Byte
    BY RequestKinds, ReplyKinds
  <2> QED  BY <2>1, <2>2, <2>3, <2>4, <2>5, <2>6, <2>7, <2>8, <2>9
<1>3. Len(StandardBody(p)) \in Length
  BY <1>1, <1>2, LenProperties DEF Length
<1>4. 16 * p.type + StandardFlags(p) \in Byte
  <2>1. \A t \in 1 .. 14, f \in 0 .. 4 : 16 * t + f \in 0 .. 255
    OBVIOUS
  <2> QED  BY <1>2, <2>1, Zenon DEF Byte
<1>5. OnWire(p) = Framed(16 * p.type + StandardFlags(p), StandardBody(p))
  <2>1. Base128(Len(StandardBody(p))) = Encode(Len(StandardBody(p)))
    BY <1>3, EncodeStandard
  <2> QED  BY <2>1, Zenon DEF OnWire, Framed
<1> QED  BY <1>2, <1>3, <1>4, <1>5, Zenon

(***************************************************************************)
(* Which serializer writes a packet, into how large a buffer.              *)
(***************************************************************************)
LEMMA SerializedBy ==
  ASSUME NEW p
  PROVE  /\ p.type = PUBLISH => Serialized(p) =
              MQTTSerialize_publish(SendBuffer(Len(p.topic) + Len(p.payload)), p)
         /\ p.type = SUBSCRIBE => Serialized(p) =
              MQTTSerialize_subscribe(SendBuffer(Len(p.topic)), p)
         /\ p.type = UNSUBSCRIBE => Serialized(p) =
              MQTTSerialize_unsubscribe(SendBuffer(Len(p.topic)), p)
         /\ p.type = PUBACK => Serialized(p) = MQTTSerialize_ack(SendBuffer(0), p.id)
         /\ p.type = CONNECT => Serialized(p) =
              MQTTSerialize_connect(SendBuffer(PacketLen(Len(ConnectBody(p)))), p)
         /\ p.type = PINGREQ => Serialized(p) = MQTTSerialize_zero(SendBuffer(0), p.type)
<1> USE DEF CONNECT, PUBLISH, PUBACK, SUBSCRIBE, UNSUBSCRIBE, PINGREQ
<1>1. CASE p.type = PUBLISH
  BY <1>1 DEF Serialized
<1>2. CASE p.type = SUBSCRIBE
  BY <1>2 DEF Serialized
<1>3. CASE p.type = UNSUBSCRIBE
  BY <1>3 DEF Serialized
<1>4. CASE p.type = PUBACK
  BY <1>4 DEF Serialized
<1>5. CASE p.type = CONNECT
  BY <1>5 DEF Serialized
<1>6. CASE p.type = PINGREQ
  BY <1>6 DEF Serialized
<1> HIDE DEF CONNECT, PUBLISH, PUBACK, SUBSCRIBE, UNSUBSCRIBE, PINGREQ
<1> QED  BY <1>1, <1>2, <1>3, <1>4, <1>5, <1>6, Zenon

(***************************************************************************)
(* MQTTSerialize_publish, _subscribe, _unsubscribe, _ack, _zero and        *)
(* _connect, in the buffer of _alloc_send_buffer: for every request, of    *)
(* any length, what they write is what the standard says of it, or nothing *)
(* where the buffer may not hold it.                                       *)
(***************************************************************************)
THEOREM SerializedIsStandard ==
  ASSUME NEW p \in Requests
  PROVE  Serialized(p) \in {<<>>, OnWire(p)}
<1> DEFINE h == 16 * p.type + StandardFlags(p)
           body == StandardBody(p)
<1>1. OnWire(p) = Framed(h, body)
  BY PacketBytes
<1>2. ASSUME NEW buflen
      PROVE  Fitting(buflen, h, body) \in {<<>>, OnWire(p)}
  BY <1>1, Zenon DEF Fitting
<1>3. CASE IsMessage(p)
  <2>1. p.type = PUBLISH /\ p.qos \in 0 .. 2 /\ body = MessageBytes(p) /\ h = 16 * p.type + 2 * p.qos
    BY <1>3, StandardOf DEF IsMessage
  <2>2. Header(PUBLISH, 0, p.qos, 0) = h
    BY <2>1 DEF Header, PUBLISH
  <2>3. WriteString(p.topic) = Text(p.topic) /\ WriteInt(p.id) = TwoBytes(p.id)
    BY <1>3, WordStandard, StringStandard DEF IsMessage
  <2>4. (p.qos > 0) <=> ~(p.qos = 0)
    BY <2>1
  <2>5. PublishBody(p) = body
    BY <2>1, <2>3, <2>4, Zenon DEF PublishBody, MessageBytes
  <2>6. Serialized(p) = Fitting(SendBuffer(Len(p.topic) + Len(p.payload)), h, body)
    BY <2>1, <2>2, <2>5, SerializedBy, Zenon DEF MQTTSerialize_publish
  <2> QED  BY <1>2, <2>6
<1>4. CASE IsSubscribe(p)
  <2>1. p.type = SUBSCRIBE /\ body = SubscribeBytes(p) /\ h = 16 * p.type + 2
    BY <1>4, StandardOf DEF IsSubscribe
  <2>2. Header(SUBSCRIBE, 0, 1, 0) = h
    BY <2>1 DEF Header, SUBSCRIBE
  <2>3. WriteString(p.topic) = Text(p.topic) /\ WriteInt(p.id) = TwoBytes(p.id)
    BY <1>4, WordStandard, StringStandard DEF IsSubscribe
  <2>4. WriteInt(p.id) \o WriteString(p.topic) \o <<p.qos>> = body
    BY <2>1, <2>3, Zenon DEF SubscribeBytes
  <2>5. Serialized(p) = Fitting(SendBuffer(Len(p.topic)), h, body)
    BY <2>1, <2>2, <2>4, SerializedBy, Zenon DEF MQTTSerialize_subscribe
  <2> QED  BY <1>2, <2>5
<1>5. CASE IsUnsubscribe(p)
  <2>1. p.type = UNSUBSCRIBE /\ body = UnsubscribeBytes(p) /\ h = 16 * p.type + 2
    BY <1>5, StandardOf DEF IsUnsubscribe
  <2>2. Header(UNSUBSCRIBE, 0, 1, 0) = h
    BY <2>1 DEF Header, UNSUBSCRIBE
  <2>3. WriteString(p.topic) = Text(p.topic) /\ WriteInt(p.id) = TwoBytes(p.id)
    BY <1>5, WordStandard, StringStandard DEF IsUnsubscribe
  <2>4. WriteInt(p.id) \o WriteString(p.topic) = body
    BY <2>1, <2>3, Zenon DEF UnsubscribeBytes
  <2>5. Serialized(p) = Fitting(SendBuffer(Len(p.topic)), h, body)
    BY <2>1, <2>2, <2>4, SerializedBy, Zenon DEF MQTTSerialize_unsubscribe
  <2> QED  BY <1>2, <2>5
<1>6. CASE IsConnect(p)
  <2>1. p.type = CONNECT /\ body = ConnectBytes(p) /\ h = 16 * p.type + 0
    BY <1>6, StandardOf DEF IsConnect
  <2>2. Header(CONNECT, 0, 0, 0) = h
    BY <2>1 DEF Header, CONNECT
  <2>3. /\ WriteString(p.client) = Text(p.client) /\ WriteString(p.user) = Text(p.user)
        /\ WriteString(p.password) = Text(p.password)
        /\ WriteInt(p.keepalive) = TwoBytes(p.keepalive)
    BY <1>6, WordStandard, StringStandard DEF IsConnect
  <2>4. WriteString(<<77, 81, 84, 84>>) = Text(<<77, 81, 84, 84>>)
    BY NameString, StringStandard
  <2>5. ConnectFlags(p) = IF p.clean THEN 194 ELSE 192
    BY DEF ConnectFlags
  <2>6. ConnectBody(p) = body
    BY <2>1, <2>3, <2>4, <2>5, Zenon DEF ConnectBody, ConnectBytes
  <2>7. Serialized(p) = Fitting(SendBuffer(PacketLen(Len(ConnectBody(p)))), h, body)
    BY <2>1, <2>2, <2>6, SerializedBy, Zenon DEF MQTTSerialize_connect
  <2> QED  BY <1>2, <2>7
<1>7. CASE p.type = PUBACK /\ p.id \in Word
  <2>1. body = TwoBytes(p.id) /\ h = 16 * p.type + 0
    BY <1>7, StandardOf
  <2>2. Header(PUBACK, 0, 0, 0) = h
    BY <1>7, <2>1 DEF Header, PUBACK
  <2>3. WriteInt(p.id) = body
    BY <1>7, <2>1, WordStandard
  <2>4. Serialized(p) = IF SendBuffer(0) < 4 THEN <<>> ELSE Framed(h, body)
    BY <1>7, <2>2, <2>3, SerializedBy, Zenon DEF MQTTSerialize_ack
  <2> QED  BY <1>1, <2>4
<1>8. CASE p.type = PINGREQ
  <2>1. body = <<>> /\ h = 16 * p.type + 0
    BY <1>8, StandardOf
  <2>2. Header(p.type, 0, 0, 0) = h
    BY <1>8, <2>1 DEF Header, PINGREQ
  <2>3. Serialized(p) = IF SendBuffer(0) < 2 THEN <<>> ELSE Framed(h, body)
    BY <1>8, <2>1, <2>2, SerializedBy, Zenon DEF MQTTSerialize_zero
  <2> QED  BY <1>1, <2>3
<1> QED  BY <1>3, <1>4, <1>5, <1>6, <1>7, <1>8, RequestKinds

(***************************************************************************)
(* Which deserializer reads a packet.                                      *)
(***************************************************************************)
LEMMA DeserializedBy ==
  ASSUME NEW b
  PROVE  LET type == HeaderType(b[1])
         IN  /\ type = PUBLISH => Deserialized(b) = MQTTDeserialize_publish(b)
             /\ type = SUBACK => Deserialized(b) = MQTTDeserialize_suback(b)
             /\ type \in {PUBACK, UNSUBACK} => Deserialized(b) = MQTTDeserialize_ack(b)
             /\ type = CONNACK => Deserialized(b) = MQTTDeserialize_connack(b)
             /\ type = PINGRESP => Deserialized(b) = [type |-> type]
             /\ type \notin {PUBLISH, SUBACK, PUBACK, UNSUBACK, CONNACK} =>
                  Deserialized(b) = [type |-> type]
<1> DEFINE type == HeaderType(b[1])
<1> USE DEF CONNACK, PUBLISH, PUBACK, SUBACK, UNSUBACK, PINGRESP
<1>1. Deserialized(b) = CASE type = PUBLISH -> MQTTDeserialize_publish(b)
                          [] type = SUBACK -> MQTTDeserialize_suback(b)
                          [] type \in {PUBACK, UNSUBACK} -> MQTTDeserialize_ack(b)
                          [] type = CONNACK -> MQTTDeserialize_connack(b)
                          [] OTHER -> [type |-> type]
  BY DEF Deserialized
<1> HIDE DEF type
<1>2. type = PUBLISH => Deserialized(b) = MQTTDeserialize_publish(b)
  BY <1>1
<1>3. type = SUBACK => Deserialized(b) = MQTTDeserialize_suback(b)
  BY <1>1
<1>4. type \in {PUBACK, UNSUBACK} => Deserialized(b) = MQTTDeserialize_ack(b)
  BY <1>1
<1>5. type = CONNACK => Deserialized(b) = MQTTDeserialize_connack(b)
  BY <1>1
<1>6. type = PINGRESP => Deserialized(b) = [type |-> type]
  BY <1>1
<1>7. type \notin {PUBLISH, SUBACK, PUBACK, UNSUBACK, CONNACK} =>
        Deserialized(b) = [type |-> type]
  BY <1>1
<1> HIDE DEF CONNACK, PUBLISH, PUBACK, SUBACK, UNSUBACK, PINGRESP
<1> QED  BY <1>2, <1>3, <1>4, <1>5, <1>6, <1>7, Zenon DEF type

(***************************************************************************)
(* The parts of a message, where MQTTDeserialize_publish looks for them.   *)
(***************************************************************************)
LEMMA MessageParts ==
  ASSUME NEW p, IsMessage(p)
  PROVE  LET body == MessageBytes(p)
             stop == 2 + Len(p.topic)
             from == stop + (IF p.qos > 0 THEN 2 ELSE 0)
         IN  /\ Len(body) = from + Len(p.payload)
             /\ ReadInt(body, 1) = Len(p.topic)
             /\ SubSeq(body, 3, stop) = p.topic
             /\ p.qos > 0 => ReadInt(body, stop + 1) = p.id
             /\ SubSeq(body, from + 1, Len(body)) = p.payload
<1> DEFINE n == Len(p.topic)
           stop == 2 + n
           from == stop + (IF p.qos > 0 THEN 2 ELSE 0)
           text == Text(p.topic)
           id == IF p.qos = 0 THEN <<>> ELSE TwoBytes(p.id)
           head == text \o id
           body == MessageBytes(p)
<1>1. /\ p.topic \in String /\ p.id \in Word /\ p.qos \in 0 .. 2
      /\ p.topic \in Seq(Byte) /\ n \in Word
  BY DEF IsMessage, String
<1>2. p.payload \in Seq(Byte)
  BY DEF IsMessage
<1>3. n \in Nat
  BY <1>1, LenProperties
<1>4. text \in Seq(Byte)
  BY <1>1, StringStandard
<1>5. 256 * text[1] + text[2] = n /\ Len(text) = stop
  BY <1>1, StringStandard, Zenon
<1>6. SubSeq(text, 3, stop) = p.topic
  <2>1. TwoBytes(n) \in Seq(Byte) /\ Len(TwoBytes(n)) = 2
    BY <1>1, WordStandard
  <2>2. text = TwoBytes(n) \o p.topic /\ p.topic \in Seq(Byte)
    BY <1>1, Zenon DEF Text
  <2> HIDE DEF text
  <2>3. SubSeq(text, Len(TwoBytes(n)) + 1, Len(TwoBytes(n)) + n) = p.topic
    BY <2>1, <2>2, PartsOfJoined
  <2>4. 2 + 1 = 3
    OBVIOUS
  <2> QED  BY <2>1, <2>3, <2>4, Zenon
<1>7. id \in Seq(Byte) /\ Len(id) = (IF p.qos > 0 THEN 2 ELSE 0)
  <2>1. CASE p.qos = 0
    BY <2>1, EmptySeq
  <2>2. CASE p.qos # 0
    <3>1. id = TwoBytes(p.id) /\ (IF p.qos > 0 THEN 2 ELSE 0) = 2
      BY <1>1, <2>2
    <3>2. TwoBytes(p.id) \in Seq(Byte) /\ Len(TwoBytes(p.id)) = 2
      BY <1>1, WordStandard
    <3> QED  BY <3>1, <3>2, Zenon
  <2> QED  BY <2>1, <2>2
<1>8. p.qos > 0 => 256 * id[1] + id[2] = p.id
  <2>1. CASE p.qos > 0
    <3>1. id = TwoBytes(p.id)
      BY <1>1, <2>1
    <3>2. 256 * TwoBytes(p.id)[1] + TwoBytes(p.id)[2] = p.id
      BY <1>1, WordStandard, Zenon
    <3> QED  BY <3>1, <3>2, Zenon
  <2> QED  BY <2>1, Zenon
<1>9. body = head \o p.payload
  BY DEF MessageBytes
<1>10. head = text \o id
  OBVIOUS
<1>11. from = stop + (IF p.qos > 0 THEN 2 ELSE 0) /\ stop = 2 + n
  OBVIOUS
<1> HIDE DEF n, stop, from, text, id, head, body
<1>12. /\ n \in Nat /\ stop \in Nat /\ from \in Nat /\ 2 <= stop /\ stop <= from
       /\ from = stop + Len(id)
  BY <1>3, <1>7, <1>11
<1>13. /\ head \in Seq(Byte) /\ Len(head) = Len(text) + Len(id)
       /\ \A i \in 1 .. Len(text) : head[i] = text[i]
       /\ \A i \in 1 .. Len(id) : head[Len(text) + i] = id[i]
  <2>1. id \in Seq(Byte)
    BY <1>7
  <2> QED  BY <1>4, <1>10, <2>1, Joined
<1>14. Len(head) = from
  BY <1>5, <1>12, <1>13, Zenon
<1>15. /\ body \in Seq(Byte) /\ Len(body) = Len(head) + Len(p.payload)
       /\ \A i \in 1 .. Len(head) : body[i] = head[i]
  <2>1. head \in Seq(Byte)
    BY <1>13
  <2> QED  BY <1>2, <1>9, <2>1, Joined
<1>16. ReadInt(body, 1) = n
  <2>1. 1 \in 1 .. stop /\ 2 \in 1 .. stop /\ 1 \in 1 .. from /\ 2 \in 1 .. from /\ 1 + 1 = 2
    BY <1>12
  <2>2. body[1] = text[1]
    BY <1>5, <1>13, <1>14, <1>15, <2>1
  <2>3. body[2] = text[2]
    BY <1>5, <1>13, <1>14, <1>15, <2>1
  <2> QED  BY <1>5, <2>1, <2>2, <2>3, Zenon DEF ReadInt
<1>17. SubSeq(body, 3, stop) = p.topic
  <2>1. 3 \in Nat /\ 1 <= 3 /\ 3 <= stop + 1 /\ stop <= Len(head) /\ stop <= Len(text)
    BY <1>5, <1>12, <1>14
  <2>2. SubSeq(body, 3, stop) = SubSeq(head, 3, stop)
    BY <1>2, <1>9, <1>12, <1>13, <2>1, FrontOfJoined
  <2>3. SubSeq(head, 3, stop) = SubSeq(text, 3, stop)
    BY <1>4, <1>7, <1>10, <1>12, <2>1, FrontOfJoined
  <2> QED  BY <1>6, <2>2, <2>3, Zenon
<1>18. p.qos > 0 => ReadInt(body, stop + 1) = p.id
  <2>1. CASE p.qos > 0
    <3>1. /\ 1 \in 1 .. Len(id) /\ 2 \in 1 .. Len(id)
          /\ stop + 1 \in 1 .. from /\ stop + 2 \in 1 .. from
          /\ (stop + 1) + 1 = stop + 2
      BY <1>7, <1>12, <2>1
    <3>2. body[stop + 1] = id[1]
      BY <1>5, <1>13, <1>14, <1>15, <3>1
    <3>3. body[stop + 2] = id[2]
      BY <1>5, <1>13, <1>14, <1>15, <3>1
    <3> QED  BY <1>8, <2>1, <3>1, <3>2, <3>3, Zenon DEF ReadInt
  <2> QED  BY <2>1
<1>19. SubSeq(body, Len(head) + 1, Len(head) + Len(p.payload)) = p.payload
  BY <1>2, <1>9, <1>13, PartsOfJoined
<1>20. Len(body) = from + Len(p.payload) /\ SubSeq(body, from + 1, Len(body)) = p.payload
  BY <1>14, <1>15, <1>19, Zenon
<1> QED  BY <1>11, <1>16, <1>17, <1>18, <1>20, Zenon DEF n, stop, from, body

(***************************************************************************)
(* MQTTDeserialize_publish, _suback, _ack, _unsuback and _connack: what a  *)
(* broker writes by the standard is read back as the packet it wrote, for  *)
(* every topic, payload, identifier and code.                              *)
(***************************************************************************)
THEOREM DeserializedIsSent ==
  ASSUME NEW p \in Replies
  PROVE  Deserialized(OnWire(p)) = p
<1> DEFINE h == 16 * p.type + StandardFlags(p)
           body == StandardBody(p)
           b == OnWire(p)
<1>1. b[1] = h /\ BodyOf(b) = body
  <2>1. h \in Byte /\ body \in Seq(Byte) /\ Len(body) \in Length /\ b = Framed(h, body)
    BY PacketBytes
  <2> HIDE DEF h, body, b
  <2> QED  BY <2>1, FramedFacts, Zenon
<1>2. CASE /\ IsMessage(p) /\ (p.qos = 0 => p.id = 0)
           /\ p = [type |-> PUBLISH, qos |-> p.qos, topic |-> p.topic, id |-> p.id,
                   payload |-> p.payload]
  <2> DEFINE n == Len(p.topic)
             stop == 2 + n
             from == stop + (IF p.qos > 0 THEN 2 ELSE 0)
  <2>1. p.type = PUBLISH /\ p.qos \in 0 .. 2 /\ body = MessageBytes(p) /\ h = 16 * p.type + 2 * p.qos
    BY <1>2, StandardOf DEF IsMessage
  <2>2. HeaderType(b[1]) = PUBLISH /\ HeaderQos(b[1]) = p.qos
    BY <1>1, <2>1 DEF HeaderType, HeaderQos, PUBLISH
  <2>3. n \in Nat /\ Len(p.payload) \in Nat
    BY <1>2, LenProperties DEF IsMessage, String
  <2>4. /\ Len(body) = from + Len(p.payload)
        /\ ReadInt(body, 1) = n
        /\ SubSeq(body, 3, stop) = p.topic
        /\ p.qos > 0 => ReadInt(body, stop + 1) = p.id
        /\ SubSeq(body, from + 1, Len(body)) = p.payload
    BY <1>2, <2>1, MessageParts
  <2> HIDE DEF n, body
  <2>5. HasString(body) /\ from <= Len(body)
    <3>1. /\ from \in Nat /\ 2 + n <= from + Len(p.payload) /\ 2 <= from + Len(p.payload)
          /\ from <= from + Len(p.payload)
      <4> DEFINE idLen == IF p.qos > 0 THEN 2 ELSE 0
      <4>1. idLen \in Nat /\ from = (2 + n) + idLen
        OBVIOUS
      <4> HIDE DEF from, idLen
      <4>2. \A x \in Nat, y \in Nat, z \in Nat :
              /\ (2 + x) + y \in Nat /\ 2 + x <= ((2 + x) + y) + z
              /\ 2 <= ((2 + x) + y) + z /\ (2 + x) + y <= ((2 + x) + y) + z
        OBVIOUS
      <4> QED  BY <2>3, <4>1, <4>2, Zenon
    <3>2. Len(body) = from + Len(p.payload) /\ ReadInt(body, 1) = n
      BY <2>4
    <3> HIDE DEF from
    <3> QED  BY <3>1, <3>2 DEF HasString
  <2>6. (IF p.qos > 0 /\ from <= Len(body) THEN ReadInt(body, stop + 1) ELSE 0) = p.id
    BY <1>2, <2>1, <2>4, <2>5
  <2>7. MQTTDeserialize_publish(b)
          = [type |-> PUBLISH, qos |-> p.qos, topic |-> SubSeq(body, 3, stop),
             id |-> IF p.qos > 0 /\ from <= Len(body) THEN ReadInt(body, stop + 1) ELSE 0,
             payload |-> SubSeq(body, from + 1, Len(body))]
    BY <1>1, <2>2, <2>4, <2>5, Zenon DEF MQTTDeserialize_publish
  <2>8. MQTTDeserialize_publish(b) = p
    BY <1>2, <2>4, <2>6, <2>7, Zenon
  <2> QED  BY <2>2, <2>8, DeserializedBy, Zenon
<1>3. CASE /\ p = [type |-> SUBACK, id |-> p.id, granted |-> p.granted]
           /\ p.id \in Word /\ p.granted \in [{1} -> Byte]
  <2>1. p.type = SUBACK
    BY <1>3
  <2>2. body = TwoBytes(p.id) \o p.granted /\ h = 16 * SUBACK + 0
    BY <2>1, StandardOf, Zenon DEF GrantBytes
  <2>3. HeaderType(b[1]) = SUBACK
    BY <1>1, <2>2 DEF HeaderType, SUBACK
  <2>4. /\ TwoBytes(p.id) \in Seq(Byte) /\ Len(TwoBytes(p.id)) = 2
        /\ 256 * TwoBytes(p.id)[1] + TwoBytes(p.id)[2] = p.id
    BY <1>3, WordStandard
  <2>5. p.granted \in Seq(Byte) /\ Len(p.granted) = 1
    <3>1. {1} = 1 .. 1
      OBVIOUS
    <3>2. p.granted \in Seq(Byte)
      BY <1>3, <3>1, SeqDef, Zenon
    <3> QED  BY <1>3, <3>1, <3>2
  <2>6. /\ Len(body) = Len(TwoBytes(p.id)) + Len(p.granted)
        /\ \A i \in 1 .. Len(TwoBytes(p.id)) : body[i] = TwoBytes(p.id)[i]
        /\ SubSeq(body, Len(TwoBytes(p.id)) + 1, Len(TwoBytes(p.id)) + Len(p.granted))
             = p.granted
    <3>1. TwoBytes(p.id) \in Seq(Byte) /\ p.granted \in Seq(Byte)
      BY <2>4, <2>5
    <3>2. body = TwoBytes(p.id) \o p.granted
      BY <2>2
    <3> HIDE DEF body
    <3>3. SubSeq(body, Len(TwoBytes(p.id)) + 1, Len(TwoBytes(p.id)) + Len(p.granted))
            = p.granted
      BY <3>1, <3>2, PartsOfJoined
    <3> QED  BY <3>1, <3>2, <3>3, Joined
  <2> HIDE DEF body
  <2>7. Len(body) = 3 /\ SubSeq(body, 3, Len(body)) = p.granted
    BY <2>4, <2>5, <2>6
  <2>8. body[1] = TwoBytes(p.id)[1] /\ body[2] = TwoBytes(p.id)[2]
    BY <2>4, <2>6
  <2>9. ReadInt(body, 1) = p.id
    BY <2>4, <2>8 DEF ReadInt
  <2>10. Len(body) \in 2 .. 2 + MUTLI_SUBSCIRBE_MAX
    BY <2>7 DEF MUTLI_SUBSCIRBE_MAX
  <2>11. MQTTDeserialize_suback(b) = p
    BY <1>1, <1>3, <2>7, <2>9, <2>10, Zenon DEF MQTTDeserialize_suback
  <2> QED  BY <2>3, <2>11, DeserializedBy, Zenon
<1>4. CASE /\ p = [type |-> p.type, id |-> p.id] /\ p.type \in {PUBACK, UNSUBACK}
           /\ p.id \in Word
  <2>1. body = TwoBytes(p.id) /\ h = 16 * p.type + 0
    BY <1>4, StandardOf
  <2>2. HeaderType(b[1]) = p.type
    BY <1>1, <1>4, <2>1 DEF HeaderType, PUBACK, UNSUBACK
  <2>3. Len(body) = 2 /\ 256 * body[1] + body[2] = p.id
    <3>1. /\ Len(TwoBytes(p.id)) = 2
          /\ 256 * TwoBytes(p.id)[1] + TwoBytes(p.id)[2] = p.id
      BY <1>4, WordStandard
    <3> QED  BY <2>1, <3>1, Zenon
  <2> HIDE DEF body
  <2>4. ReadInt(body, 1) = p.id /\ ~(Len(body) < 2)
    BY <2>3 DEF ReadInt
  <2>5. MQTTDeserialize_ack(b) = p
    BY <1>1, <1>4, <2>2, <2>4, Zenon DEF MQTTDeserialize_ack
  <2> QED  BY <1>4, <2>2, <2>5, DeserializedBy, Zenon
<1>5. CASE p = [type |-> CONNACK, code |-> p.code] /\ p.code \in Byte
  <2>1. p.type = CONNACK
    BY <1>5
  <2>2. body = <<0, p.code>> /\ h = 16 * CONNACK + 0
    BY <2>1, StandardOf
  <2>3. HeaderType(b[1]) = CONNACK
    BY <1>1, <2>2 DEF HeaderType, CONNACK
  <2>4. ~(Len(body) < 2) /\ body[2] = p.code
    BY <2>2
  <2>5. MQTTDeserialize_connack(b) = p
    BY <1>1, <1>5, <2>4, Zenon DEF MQTTDeserialize_connack
  <2> QED  BY <2>3, <2>5, DeserializedBy, Zenon
<1>6. CASE p = [type |-> PINGRESP]
  <2>1. p.type = PINGRESP
    BY <1>6
  <2>2. h = 16 * PINGRESP + 0
    BY <2>1, StandardOf
  <2>3. HeaderType(b[1]) = PINGRESP
    BY <1>1, <2>2 DEF HeaderType, PINGRESP
  <2> QED  BY <1>6, <2>3, DeserializedBy, Zenon
<1> QED  BY <1>2, <1>3, <1>4, <1>5, <1>6, ReplyKinds, Zenon

-----------------------------------------------------------------------------
(* Reading a packet.                                                         *)

(***************************************************************************)
(* The length found at the front of any bytes, and its value.              *)
(***************************************************************************)
LEMMA LengthFound ==
  ASSUME NEW s \in Seq(Byte), LengthBytes(s) # 0
  PROVE  LET m == LengthBytes(s)
         IN  /\ m \in 1 .. 4 /\ m <= Len(s)
             /\ s[m] < K /\ \A j \in 1 .. m - 1 : s[j] >= K
<1> DEFINE Stops(i) == i <= Len(s) /\ s[i] < K
           Least(i) == Stops(i) /\ \A j \in 1 .. i - 1 : s[j] >= K
<1>1. Len(s) \in Nat /\ \A i \in 1 .. Len(s) : s[i] \in Nat
  <2>1. \A b \in Byte : b \in Nat
    BY DEF Byte
  <2> QED  BY <2>1, LenProperties, ElementOfSeq
<1>2. \E i \in 1 .. 4 : Stops(i)
  BY DEF LengthBytes
<1>3. ASSUME NEW i \in 1 .. 4, Stops(i), ~ \E j \in 1 .. 4 : j < i /\ Stops(j)
      PROVE  Least(i)
  <2>1. ASSUME NEW j \in 1 .. i - 1
        PROVE  s[j] >= K
    <3>1. j \in 1 .. 4 /\ j < i /\ j \in 1 .. Len(s) /\ j <= Len(s)
      BY <1>1, <1>3
    <3>2. ~(s[j] < K) /\ s[j] \in Nat
      BY <1>1, <1>3, <3>1
    <3> QED  BY <3>2 DEF K
  <2> QED  BY <1>3, <2>1
<1>4. \E i \in 1 .. 4 : Stops(i) /\ ~ \E j \in 1 .. 4 : j < i /\ Stops(j)
  <2> HIDE DEF Stops
  <2>1. CASE Stops(1)
    BY <2>1
  <2>2. CASE ~Stops(1) /\ Stops(2)
    BY <2>2
  <2>3. CASE ~Stops(1) /\ ~Stops(2) /\ Stops(3)
    BY <2>3
  <2>4. CASE ~Stops(1) /\ ~Stops(2) /\ ~Stops(3) /\ Stops(4)
    BY <2>4
  <2> QED  BY <1>2, <2>1, <2>2, <2>3, <2>4
<1>5. \E i \in 1 .. 4 : Least(i)
  BY <1>3, <1>4
<1>6. LengthBytes(s) = CHOOSE i \in 1 .. 4 : Least(i)
  BY <1>2 DEF LengthBytes
<1>7. LengthBytes(s) \in 1 .. 4 /\ Least(LengthBytes(s))
  <2> HIDE DEF Least
  <2> QED  BY <1>5, <1>6
<1> QED  BY <1>7

LEMMA DecodeRange ==
  ASSUME NEW s \in Seq(Byte), NEW m \in 1 .. 4, m <= Len(s)
  PROVE  Decode(s, m) \in Length
<1>1. ASSUME NEW i \in 1 .. 4
      PROVE  \E d \in 0 .. 127 : Digit(s, m, i) = d * Weight[i]
  <2>1. CASE i <= m
    <3>1. s[i] \in Byte
      BY <2>1, ElementOfSeq, LenProperties
    <3>2. \A x \in Byte : x % K \in 0 .. 127
      BY SMT DEF Byte, K
    <3>3. Digit(s, m, i) = (s[i] % K) * Weight[i]
      BY <2>1 DEF Digit
    <3> QED  BY <3>1, <3>2, <3>3
  <2>2. CASE ~(i <= m)
    <3>1. Weight[i] \in Nat /\ 0 \in 0 .. 127
      BY DEF Weight, K
    <3>2. \A w \in Nat : 0 * w = 0
      OBVIOUS
    <3> QED  BY <2>2, <3>1, <3>2 DEF Digit
  <2> QED  BY <2>1, <2>2
<1>2. /\ Weight[1] = 1 /\ Weight[2] = K /\ Weight[3] = K * K /\ Weight[4] = K * K * K
      /\ 1 \in 1 .. 4 /\ 2 \in 1 .. 4 /\ 3 \in 1 .. 4 /\ 4 \in 1 .. 4
  BY DEF Weight
<1>3. PICK a \in 0 .. 127 : Digit(s, m, 1) = a * 1
  BY <1>1, <1>2, Zenon
<1>4. PICK b \in 0 .. 127 : Digit(s, m, 2) = b * K
  BY <1>1, <1>2, Zenon
<1>5. PICK c \in 0 .. 127 : Digit(s, m, 3) = c * (K * K)
  BY <1>1, <1>2, Zenon
<1>6. PICK d \in 0 .. 127 : Digit(s, m, 4) = d * (K * K * K)
  BY <1>1, <1>2, Zenon
<1>7. a * 1 + b * K + c * (K * K) + d * (K * K * K) \in Length
  BY SMT DEF Length, MaxRemaining, K
<1> QED  BY <1>3, <1>4, <1>5, <1>6, <1>7, Zenon DEF Decode

(***************************************************************************)
(* iotx_mc_read_packet got k bytes: whether it took the header and the     *)
(* length to be there, and what it returns.                                *)
(***************************************************************************)
Got(k) == SubSeq(wire, 1, k)
LengthAt(k) == IF Got(k) = <<>> THEN 0 ELSE LengthBytes(Tail(Got(k)))
Remaining(k) == Decode(Tail(Got(k)), LengthAt(k))

LEMMA ReadOutcome ==
  ASSUME NEW k \in Nat, LengthAt(k) \in Nat, Remaining(k) \in Int
  PROVE  LET r == iotx_mc_read_packet(k)
         IN  /\ r \in {"error", "timeout", "short", "bad", "over", "packet"}
             /\ r = "error" => sock # "up" /\ k = Len(wire)
             /\ r = "timeout" => k = 0
             /\ r \in {"over", "packet"} =>
                  /\ k > 0 /\ LengthAt(k) > 0 /\ 1 + LengthAt(k) + Remaining(k) <= k
                  /\ r = "over" <=> Remaining(k) > ReadMax - (1 + EncodedLen(Remaining(k)))
<1> DEFINE m == LengthAt(k)
           rem == Remaining(k)
           room == ReadMax - (1 + EncodedLen(rem))
           closed == sock # "up" /\ k = Len(wire)
           none == IF closed THEN "error" ELSE "timeout"
           header == IF k = 5 THEN "bad" ELSE IF closed THEN "error" ELSE "short"
           part == IF closed /\ (k = 1 + m \/ (rem > room /\ k = 1 + m + room))
                     THEN "error" ELSE "short"
           whole == IF rem > room THEN "over" ELSE "packet"
           r == iotx_mc_read_packet(k)
<1>1. r = CASE k = 0 -> none
            [] k > 0 /\ m = 0 -> header
            [] m > 0 /\ k < 1 + m + rem -> part
            [] OTHER -> whole
  BY DEF iotx_mc_read_packet, Got, LengthAt, Remaining
<1>2. k = 0 => m = 0
  <2>1. SubSeq(wire, 1, 0) = <<>>
    BY SubSeqEmpty
  <2> QED  BY <2>1 DEF LengthAt, Got
<1> HIDE DEF m, rem, none, header, part, whole, r
<1>3. CASE k = 0
  <2>1. r = none
    BY <1>1, <1>2, <1>3
  <2> QED  BY <1>3, <2>1 DEF r, none
<1>4. CASE k > 0 /\ m = 0
  <2>1. r = header
    BY <1>1, <1>4
  <2> QED  BY <2>1 DEF r, header
<1>5. CASE k > 0 /\ m > 0 /\ k < 1 + m + rem
  <2>1. r = part
    BY <1>1, <1>5
  <2> QED  BY <2>1 DEF r, part
<1>6. CASE k > 0 /\ m > 0 /\ ~(k < 1 + m + rem)
  <2>1. r = whole
    BY <1>1, <1>6
  <2>2. 1 + m + rem <= k
    BY <1>6 DEF m, rem
  <2> QED  BY <1>6, <2>1, <2>2 DEF r, m, rem, whole
<1> QED  BY <1>3, <1>4, <1>5, <1>6 DEF m

(***************************************************************************)
(* The length at the front depends on its own bytes only.                  *)
(***************************************************************************)
LEMMA SameLength ==
  ASSUME NEW s \in Seq(Byte), NEW t \in Seq(Byte), LengthBytes(s) # 0,
         LengthBytes(s) <= Len(t), \A i \in 1 .. LengthBytes(s) : t[i] = s[i]
  PROVE  LengthBytes(t) = LengthBytes(s)
         /\ Decode(t, LengthBytes(s)) = Decode(s, LengthBytes(s))
<1> DEFINE m == LengthBytes(s)
<1>1. m \in 1 .. 4 /\ m <= Len(s) /\ s[m] < K /\ \A j \in 1 .. m - 1 : s[j] >= K
  BY LengthFound
<1>2. m <= Len(t) /\ \A i \in 1 .. m : t[i] = s[i]
  OBVIOUS
<1> HIDE DEF m
<1>3. m \in 1 .. m /\ \A j \in 1 .. m - 1 : j \in 1 .. m
  BY <1>1
<1>4. t[m] < K /\ \A j \in 1 .. m - 1 : t[j] >= K
  BY <1>1, <1>2, <1>3
<1>5. LengthBytes(t) = m
  BY <1>1, <1>2, <1>4, LengthStops
<1>6. ASSUME NEW i \in 1 .. 4
      PROVE  Digit(t, m, i) = Digit(s, m, i)
  <2>1. i <= m => i \in 1 .. m
    BY <1>1
  <2> QED  BY <1>2, <2>1, Zenon DEF Digit
<1>7. Decode(t, m) = Decode(s, m)
  BY <1>6 DEF Decode
<1> QED  BY <1>5, <1>7 DEF m

LEMMA GotFacts ==
  ASSUME wire \in Seq(Byte), NEW k \in Nat, k <= Len(wire)
  PROVE  /\ Got(k) \in Seq(Byte) /\ Len(Got(k)) = k
         /\ \A i \in 1 .. k : Got(k)[i] = wire[i]
         /\ k > 0 => /\ Got(k) # <<>> /\ Tail(Got(k)) \in Seq(Byte)
                     /\ Len(Tail(Got(k))) = k - 1
                     /\ \A i \in 1 .. k - 1 : Tail(Got(k))[i] = wire[i + 1]
         /\ LengthAt(k) \in 0 .. 4 /\ Remaining(k) \in Length
         /\ LengthAt(k) # 0 => LengthAt(k) <= k - 1
<1> DEFINE s == Got(k)
<1>1. s \in Seq(Byte) /\ Len(s) = k /\ \A i \in 1 .. k : s[i] = wire[i]
  <2>1. (k + 1) - 1 = k /\ \A i \in 1 .. k : (1 - 1) + i = i
    OBVIOUS
  <2>2. /\ SubSeq(wire, 1, k) \in Seq(Byte) /\ Len(SubSeq(wire, 1, k)) = (k + 1) - 1
        /\ \A i \in 1 .. (k + 1) - 1 : SubSeq(wire, 1, k)[i] = wire[(1 - 1) + i]
    BY Part
  <2> QED  BY <2>1, <2>2, Zenon DEF Got
<1> HIDE DEF s
<1>2. ASSUME k > 0
      PROVE  /\ s # <<>> /\ Tail(s) \in Seq(Byte)
             /\ Len(Tail(s)) = k - 1
             /\ \A i \in 1 .. k - 1 : Tail(s)[i] = wire[i + 1]
  <2>1. s # <<>>
    BY <1>1, <1>2
  <2>2. /\ Tail(s) \in Seq(Byte) /\ Len(Tail(s)) = Len(s) - 1
        /\ \A i \in 1 .. Len(Tail(s)) : Tail(s)[i] = s[i + 1]
    BY <1>1, <2>1, HeadTailProperties
  <2>3. \A i \in 1 .. k - 1 : i + 1 \in 1 .. k
    OBVIOUS
  <2>4. Len(Tail(s)) = k - 1
    BY <1>1, <2>2, Zenon
  <2> QED  BY <1>1, <2>1, <2>2, <2>3, <2>4, Zenon
<1>3. ASSUME LengthAt(k) = 0
      PROVE  Remaining(k) \in Length
  <2>1. \A i \in 1 .. 4 : Digit(Tail(Got(k)), 0, i) = 0
    BY DEF Digit
  <2>2. Decode(Tail(Got(k)), 0) = 0
    BY <2>1 DEF Decode
  <2>3. 0 \in Length
    BY DEF Length, MaxRemaining, K
  <2> QED  BY <1>3, <2>2, <2>3 DEF Remaining
<1>4. ASSUME LengthAt(k) # 0
      PROVE  /\ LengthAt(k) \in 1 .. 4 /\ LengthAt(k) <= k - 1
             /\ Remaining(k) \in Length
  <2>1. s # <<>> /\ LengthAt(k) = LengthBytes(Tail(s))
    BY <1>4 DEF LengthAt, s
  <2>2. k > 0
    BY <1>1, <2>1
  <2>3. Tail(s) \in Seq(Byte) /\ Len(Tail(s)) = k - 1
    BY <1>2, <2>2
  <2>4. LengthAt(k) \in 1 .. 4 /\ LengthAt(k) <= k - 1
    BY <1>4, <2>1, <2>3, LengthFound
  <2>5. Remaining(k) \in Length
    BY <2>3, <2>4, DecodeRange DEF Remaining, s
  <2> QED  BY <2>4, <2>5
<1>5. /\ LengthAt(k) \in 0 .. 4 /\ Remaining(k) \in Length
      /\ LengthAt(k) # 0 => LengthAt(k) <= k - 1
  BY <1>3, <1>4
<1> QED  BY <1>1, <1>2, <1>5, Zenon DEF s

(***************************************************************************)
(* iotx_mc_read_packet: of any bytes, a packet it takes to be whole is     *)
(* the front packet and no byte more, and the buffer then holds its first  *)
(* byte and its body.                                                      *)
(***************************************************************************)
LEMMA WholeRead ==
  ASSUME wire \in Seq(Byte), NEW k \in Nat, k <= FrontLen(wire), k <= Len(wire),
         k > 0, LengthAt(k) > 0, 1 + LengthAt(k) + Remaining(k) <= k
  PROVE  LET body == SubSeq(Got(k), 2 + LengthAt(k), k)
         IN  /\ k = 1 + LengthAt(k) + Remaining(k)
             /\ wire[1] \in Byte
             /\ body \in Seq(Byte) /\ Len(body) = Remaining(k) /\ Len(body) \in Length
             /\ ReadBuffer(k) = Framed(wire[1], body)
<1> DEFINE s == Got(k)
           m == LengthAt(k)
           rem == Remaining(k)
           body == SubSeq(s, 2 + m, k)
<1>1. /\ s \in Seq(Byte) /\ Len(s) = k /\ s # <<>>
      /\ \A i \in 1 .. k : s[i] = wire[i]
  BY GotFacts
<1>2. /\ Tail(s) \in Seq(Byte) /\ Len(Tail(s)) = k - 1
      /\ \A i \in 1 .. k - 1 : Tail(s)[i] = wire[i + 1]
  BY GotFacts
<1>3. m \in 1 .. 4 /\ rem \in Length /\ m <= k - 1
  BY GotFacts
<1>4. m = LengthBytes(Tail(s)) /\ rem = Decode(Tail(s), m)
  BY <1>1 DEF LengthAt, Remaining
<1>5. Len(wire) \in Nat /\ wire # <<>>
  BY LenProperties
<1>6. k > 0 /\ 1 + m + rem <= k /\ k <= FrontLen(wire)
  OBVIOUS
<1> HIDE DEF s, m, rem
<1>7. /\ Tail(wire) \in Seq(Byte) /\ Len(Tail(wire)) = Len(wire) - 1
      /\ \A i \in 1 .. Len(wire) - 1 : Tail(wire)[i] = wire[i + 1]
  BY <1>5, HeadTailProperties
<1>8. LengthBytes(Tail(wire)) = m /\ Decode(Tail(wire), m) = rem
  <2>1. LengthBytes(Tail(s)) # 0 /\ LengthBytes(Tail(s)) <= Len(Tail(wire))
    BY <1>3, <1>4, <1>5, <1>7
  <2>2. ASSUME NEW i \in 1 .. LengthBytes(Tail(s))
        PROVE  Tail(wire)[i] = Tail(s)[i]
    <3>1. i \in 1 .. k - 1 /\ i \in 1 .. Len(wire) - 1
      BY <1>3, <1>4, <1>5
    <3> QED  BY <1>2, <1>7, <3>1, Zenon
  <2> QED  BY <1>2, <1>4, <1>7, <2>1, <2>2, SameLength
<1>9. FrontLen(wire) <= 1 + m + rem
  <2>1. FrontLen(wire) = IF 1 + m + rem < Len(wire) THEN 1 + m + rem ELSE Len(wire)
    BY <1>3, <1>5, <1>8 DEF FrontLen
  <2> QED  BY <1>3, <1>5, <2>1 DEF Length
<1>10. k = 1 + m + rem
  <2>1. FrontLen(wire) \in Nat
    <3>1. FrontLen(wire) = IF 1 + m + rem < Len(wire) THEN 1 + m + rem ELSE Len(wire)
      BY <1>3, <1>5, <1>8 DEF FrontLen
    <3> QED  BY <1>3, <1>5, <3>1 DEF Length
  <2> QED  BY <1>3, <1>6, <1>9, <2>1 DEF Length
<1>11. body \in Seq(Byte) /\ Len(body) = rem
  <2>1. /\ 2 + m \in Nat /\ 1 <= 2 + m /\ 2 + m <= k + 1 /\ k <= Len(s)
        /\ (k + 1) - (2 + m) = rem
    BY <1>1, <1>3, <1>10 DEF Length
  <2> QED  BY <1>1, <2>1, Part
<1>12. s[1] = wire[1] /\ wire[1] \in Byte
  <2>1. 1 \in 1 .. k /\ 1 \in 1 .. Len(wire)
    BY <1>5, <1>6
  <2> QED  BY <1>1, <2>1, ElementOfSeq
<1>13. ReadBuffer(k) = Framed(wire[1], body)
  <2>1. ReadBuffer(k) = <<s[1]>> \o Encode(rem) \o body
    BY <1>4 DEF ReadBuffer, s, Got
  <2> HIDE DEF body
  <2> QED  BY <1>11, <1>12, <2>1, Zenon DEF Framed
<1> QED  BY <1>3, <1>10, <1>11, <1>12, <1>13 DEF s, m, rem, body

(***************************************************************************)
(* The acknowledgement of what was taken for a message, of any bytes, is   *)
(* a packet of the standard.                                               *)
(***************************************************************************)
LEMMA WordBound ==
  ASSUME NEW x \in Nat, NEW y \in Nat, x <= 255, y <= 255
  PROVE  256 * x + y \in Word
<1>1. 256 * x + y \in Nat /\ 256 * x + y < 256 * 256
  OBVIOUS
<1> QED  BY <1>1 DEF Word

LEMMA WordRead ==
  ASSUME NEW body \in Seq(Byte), NEW i \in Nat, 1 <= i, i + 1 <= Len(body)
  PROVE  ReadInt(body, i) \in Word
<1>1. Len(body) \in Nat
  BY LenProperties
<1>2. i \in 1 .. Len(body) /\ i + 1 \in 1 .. Len(body)
  BY <1>1
<1>3. body[i] \in Byte /\ body[i + 1] \in Byte
  BY <1>2, ElementOfSeq
<1>4. \A b \in Byte : b \in Nat /\ b <= 255
  BY DEF Byte
<1>5. body[i] \in Nat /\ body[i + 1] \in Nat /\ body[i] <= 255 /\ body[i + 1] <= 255
  BY <1>3, <1>4
<1>6. ASSUME NEW x \in Nat, NEW y \in Nat, x <= 255, y <= 255
      PROVE  256 * x + y \in Word
  BY <1>6, WordBound
<1>7. 256 * body[i] + body[i + 1] \in Word
  BY <1>5, <1>6
<1> QED  BY <1>7 DEF ReadInt

LEMMA AckRequest ==
  ASSUME NEW id \in Word
  PROVE  [type |-> PUBACK, id |-> id] \in Requests
<1> DEFINE p == [type |-> PUBACK, id |-> id]
<1>1. p.type = PUBACK /\ p.id = id /\ p \in [type : {PUBACK}, id : Word]
  OBVIOUS
<1>2. StandardBody(p) = TwoBytes(id)
  BY <1>1, StandardOf
<1>3. Len(StandardBody(p)) = 2
  BY <1>2, WordStandard
<1>4. 2 <= MaxRemaining
  BY DEF MaxRemaining, K
<1> HIDE DEF p
<1>5. Len(StandardBody(p)) <= MaxRemaining
  BY <1>3, <1>4
<1> QED  BY <1>1, <1>5, Zenon DEF Requests, p

LEMMA MessageRead ==
  ASSUME NEW h \in Byte, NEW body \in Seq(Byte), Len(body) \in Length,
         Deserialized(Framed(h, body)).type = PUBLISH
  PROVE  /\ Deserialized(Framed(h, body)).id \in Word
         /\ Deserialized(Framed(h, body)).topic \in Seq(Byte)
<1> DEFINE b == Framed(h, body)
           d == Deserialized(b)
           type == HeaderType(b[1])
<1>1. BodyOf(b) = body
  BY FramedFacts
<1> HIDE DEF b
<1>2. type = PUBLISH
  <2>1. Malformed.type # PUBLISH /\ SUBACK # PUBLISH /\ CONNACK # PUBLISH
    BY DEF Malformed, SUBACK, CONNACK, PUBLISH
  <2>2. d.type = PUBLISH
    BY DEF b
  <2>3. type = SUBACK => d.type \in {Malformed.type, SUBACK}
    <3>1. MQTTDeserialize_suback(b).type \in {Malformed.type, SUBACK}
      BY DEF MQTTDeserialize_suback
    <3> QED  BY <3>1, DeserializedBy
  <2>4. type \in {PUBACK, UNSUBACK} => d.type \in {Malformed.type, type}
    <3>1. MQTTDeserialize_ack(b).type \in {Malformed.type, type}
      BY DEF MQTTDeserialize_ack
    <3> QED  BY <3>1, DeserializedBy, Zenon
  <2>5. type = CONNACK => d.type \in {Malformed.type, CONNACK}
    <3>1. MQTTDeserialize_connack(b).type \in {Malformed.type, CONNACK}
      BY DEF MQTTDeserialize_connack
    <3> QED  BY <3>1, DeserializedBy
  <2>6. type \notin {PUBLISH, SUBACK, PUBACK, UNSUBACK, CONNACK} => d.type = type
    <3>1. [type |-> type].type = type
      OBVIOUS
    <3> QED  BY <3>1, DeserializedBy, Zenon
  <2> HIDE DEF d, type
  <2> QED  BY <2>1, <2>2, <2>3, <2>4, <2>5, <2>6, Zenon
<1>3. d = MQTTDeserialize_publish(b)
  BY <1>2, DeserializedBy
<1> DEFINE qos == HeaderQos(b[1])
           end == 2 + ReadInt(body, 1)
           from == end + (IF qos > 0 THEN 2 ELSE 0)
           id == IF qos > 0 /\ from <= Len(body) THEN ReadInt(body, end + 1) ELSE 0
           message == [type |-> PUBLISH, qos |-> qos, topic |-> SubSeq(body, 3, end),
                       id |-> id, payload |-> SubSeq(body, from + 1, Len(body))]
<1>4. d = IF type # PUBLISH \/ ~HasString(body) THEN Malformed ELSE message
  BY <1>1, <1>3, Zenon DEF MQTTDeserialize_publish
<1>5. HasString(body) /\ d = message
  <2>1. Malformed.type # PUBLISH
    BY DEF Malformed, PUBLISH
  <2>2. d.type = PUBLISH
    BY DEF b
  <2> HIDE DEF d, message, type
  <2> QED  BY <1>4, <2>1, <2>2, Zenon
<1>6. d.id = id /\ d.topic = SubSeq(body, 3, end)
  <2>1. message.id = id /\ message.topic = SubSeq(body, 3, end)
    OBVIOUS
  <2> HIDE DEF d, message, id, end
  <2> QED  BY <1>5, <2>1, Zenon
<1>7. id \in Word
  <2>1. 0 \in Word
    BY DEF Word
  <2>2. ASSUME qos > 0, from <= Len(body)
        PROVE  ReadInt(body, end + 1) \in Word
    <3>1. Len(body) \in Nat /\ 2 <= Len(body)
      BY <1>5, LenProperties DEF HasString
    <3>2. ReadInt(body, 1) \in Nat
      <4>1. ReadInt(body, 1) \in Word
        BY <3>1, WordRead
      <4>2. \A x \in Word : x \in Nat
        BY SMT DEF Word
      <4> QED  BY <4>1, <4>2, Zenon
    <3>3. from = end + 2
      BY <2>2
    <3>4. end + 1 \in Nat /\ 1 <= end + 1 /\ (end + 1) + 1 <= Len(body)
      BY <2>2, <3>1, <3>2, <3>3
    <3> HIDE DEF end, from, qos
    <3> QED  BY <3>4, WordRead
  <2> QED  BY <2>1, <2>2, Zenon
<1>8. SubSeq(body, 3, end) \in Seq(Byte)
  <2>1. Len(body) \in Nat /\ 2 <= Len(body) /\ end <= Len(body)
    BY <1>5, LenProperties DEF HasString
  <2>2. ReadInt(body, 1) \in Word
    BY <2>1, WordRead
  <2>3. end \in Nat /\ 3 \in Nat /\ 1 <= 3 /\ 3 <= end + 1
    <3>1. \A x \in Word : 2 + x \in Nat /\ 3 <= (2 + x) + 1
      BY SMT DEF Word
    <3> QED  BY <2>2, <3>1
  <2> HIDE DEF end
  <2> QED  BY <2>1, <2>3, Part
<1> QED  BY <1>6, <1>7, <1>8, Zenon DEF b

(***************************************************************************)
(* A packet the broker wrote, at the front of what arrived: a read that    *)
(* takes it to be whole took all of it, and the buffer holds its bytes.    *)
(***************************************************************************)
LEMMA FrontPacket ==
  ASSUME wire \in Seq(Byte), NEW k \in Nat, k <= FrontLen(wire), k <= Len(wire),
         k > 0, LengthAt(k) > 0, 1 + LengthAt(k) + Remaining(k) <= k,
         NEW p \in Replies,
         \A i \in 1 .. Len(wire) : i <= Len(OnWire(p)) => wire[i] = OnWire(p)[i]
  PROVE  /\ k = Len(OnWire(p)) /\ ReadBuffer(k) = OnWire(p)
         /\ Remaining(k) = Len(StandardBody(p))
         /\ k = 1 + EncodedLen(Remaining(k)) + Remaining(k)
<1> DEFINE s == Got(k)
           m == LengthAt(k)
           rem == Remaining(k)
           h == 16 * p.type + StandardFlags(p)
           body == StandardBody(p)
           n == Len(body)
           w == EncodedLen(n)
           q == OnWire(p)
<1>1. /\ h \in Byte /\ body \in Seq(Byte) /\ n \in Length /\ q = Framed(h, body)
  BY PacketBytes
<1>2. /\ q \in Seq(Byte) /\ Len(q) = 1 + w + n /\ q[1] = h
      /\ LengthBytes(Tail(q)) = w /\ Decode(Tail(q), w) = n
      /\ SubSeq(q, 2 + w, 1 + w + n) = body
  <2> HIDE DEF h, body, q
  <2> QED  BY <1>1, FramedFacts, Zenon
<1>3. w \in 1 .. 4 /\ n \in Nat
  <2> HIDE DEF body
  <2> QED  BY <1>1, EncodeType DEF Length
<1>4. /\ s \in Seq(Byte) /\ Len(s) = k /\ s # <<>>
      /\ \A i \in 1 .. k : s[i] = wire[i]
      /\ Tail(s) \in Seq(Byte) /\ Len(Tail(s)) = k - 1
      /\ \A i \in 1 .. k - 1 : Tail(s)[i] = wire[i + 1]
      /\ m \in 1 .. 4 /\ m <= k - 1 /\ rem \in Length
  BY GotFacts
<1>5. m = LengthBytes(Tail(s)) /\ rem = Decode(Tail(s), m)
  BY <1>4 DEF LengthAt, Remaining
<1>6. Len(wire) \in Nat /\ k <= Len(wire) /\ k \in Nat /\ k > 0
  BY LenProperties
<1>7. \A i \in 1 .. Len(wire) : i <= Len(q) => wire[i] = q[i]
  OBVIOUS
<1>8. k = 1 + m + rem /\ ReadBuffer(k) = Framed(wire[1], SubSeq(s, 2 + m, k))
  BY WholeRead
<1> HIDE DEF s, m, rem, h, body, n, w, q
<1>9. /\ Tail(q) \in Seq(Byte) /\ Len(Tail(q)) = w + n
      /\ \A i \in 1 .. w + n : Tail(q)[i] = q[i + 1]
  <2>1. q # <<>>
    BY <1>2, <1>3
  <2>2. /\ Tail(q) \in Seq(Byte) /\ Len(Tail(q)) = Len(q) - 1
        /\ \A i \in 1 .. Len(Tail(q)) : Tail(q)[i] = q[i + 1]
    BY <1>2, <2>1, HeadTailProperties
  <2>3. (1 + w + n) - 1 = w + n
    BY <1>3
  <2>4. Len(Tail(q)) = w + n
    BY <1>2, <2>2, <2>3, Zenon
  <2> QED  BY <2>2, <2>4, Zenon
<1>10. ASSUME NEW i \in Nat, 1 <= i, i <= w + n, i <= k - 1
       PROVE  Tail(s)[i] = Tail(q)[i]
  <2>1. i \in 1 .. w + n /\ i \in 1 .. k - 1 /\ i + 1 \in 1 .. Len(wire)
    BY <1>3, <1>6, <1>10
  <2>2. i + 1 <= Len(q)
    BY <1>2, <1>3, <1>10
  <2> QED  BY <1>4, <1>7, <1>9, <2>1, <2>2, Zenon
<1>11. m = w /\ rem = n
  <2>1. CASE w <= m
    <3>1. LengthBytes(Tail(q)) # 0 /\ LengthBytes(Tail(q)) <= Len(Tail(s))
      BY <1>2, <1>3, <1>4, <1>6, <2>1
    <3>2. ASSUME NEW i \in 1 .. LengthBytes(Tail(q))
          PROVE  Tail(s)[i] = Tail(q)[i]
      <4>1. i \in Nat /\ 1 <= i /\ i <= w + n /\ i <= k - 1
        BY <1>2, <1>3, <1>4, <1>6, <2>1
      <4> QED  BY <1>10, <4>1
    <3>3. LengthBytes(Tail(s)) = w /\ Decode(Tail(s), w) = n
      BY <1>2, <1>4, <1>9, <3>1, <3>2, SameLength, Zenon
    <3> QED  BY <1>5, <3>3, Zenon
  <2>2. CASE m < w
    <3>1. LengthBytes(Tail(s)) # 0 /\ LengthBytes(Tail(s)) <= Len(Tail(q))
      BY <1>3, <1>4, <1>5, <1>9, <2>2
    <3>2. ASSUME NEW i \in 1 .. LengthBytes(Tail(s))
          PROVE  Tail(q)[i] = Tail(s)[i]
      <4>1. i \in Nat /\ 1 <= i /\ i <= w + n /\ i <= k - 1
        BY <1>3, <1>4, <1>5, <1>6, <2>2
      <4> QED  BY <1>10, <4>1
    <3>3. LengthBytes(Tail(q)) = LengthBytes(Tail(s))
      BY <1>4, <1>9, <3>1, <3>2, SameLength, Zenon
    <3>4. w = m
      BY <1>2, <1>5, <3>3, Zenon
    <3> QED  BY <1>3, <2>2, <3>4
  <2> QED  BY <1>3, <1>4, <2>1, <2>2
<1>12. k = Len(q) /\ k = 1 + w + n
  BY <1>2, <1>8, <1>11
<1>13. s = q
  <2>1. ASSUME NEW i \in 1 .. Len(q)
        PROVE  s[i] = q[i]
    <3>1. i \in 1 .. k /\ i \in 1 .. Len(wire) /\ i <= Len(q)
      BY <1>6, <1>12
    <3> QED  BY <1>4, <1>7, <3>1, Zenon
  <2>2. Len(s) = Len(q)
    BY <1>4, <1>12, Zenon
  <2> QED  BY <1>2, <1>4, <2>1, <2>2, SeqEqual
<1>14. wire[1] = h
  <2>1. 1 \in 1 .. k
    BY <1>6
  <2> QED  BY <1>2, <1>4, <1>13, <2>1, Zenon
<1>15. ReadBuffer(k) = q
  BY <1>1, <1>2, <1>8, <1>11, <1>12, <1>13, <1>14, Zenon
<1> QED  BY <1>11, <1>12, <1>15, Zenon DEF rem, n, w, q, body

-----------------------------------------------------------------------------
(* The streams.                                                            *)

Log(S) == Seq([packet : S, from : Nat])

LEMMA WireBytes ==
  ASSUME NEW p \in Requests \cup Replies
  PROVE  OnWire(p) \in Seq(Byte) /\ Len(OnWire(p)) \in Nat /\ Len(OnWire(p)) > 0
<1> DEFINE h == 16 * p.type + StandardFlags(p)
           body == StandardBody(p)
           q == OnWire(p)
<1>1. h \in Byte /\ body \in Seq(Byte) /\ Len(body) \in Length /\ q = Framed(h, body)
  BY PacketBytes
<1> HIDE DEF h, body, q
<1>2. q \in Seq(Byte) /\ Len(q) = 1 + EncodedLen(Len(body)) + Len(body)
  BY <1>1, FramedFacts
<1>3. EncodedLen(Len(body)) \in 1 .. 4 /\ Len(body) \in Nat
  BY <1>1, EncodeType DEF Length
<1> QED  BY <1>2, <1>3 DEF q

LEMMA LogFacts ==
  ASSUME NEW S, S \subseteq Requests \cup Replies, NEW log \in Log(S)
  PROVE  /\ Len(log) \in Nat /\ DOMAIN log = 1 .. Len(log)
         /\ \A i \in 1 .. Len(log) :
              /\ log[i].packet \in S /\ log[i].from \in Nat
              /\ OnWire(log[i].packet) \in Seq(Byte)
              /\ Len(OnWire(log[i].packet)) \in Nat /\ Len(OnWire(log[i].packet)) > 0
              /\ End(log[i]) = log[i].from + Len(OnWire(log[i].packet))
              /\ End(log[i]) \in Nat
<1>1. Len(log) \in Nat /\ DOMAIN log = 1 .. Len(log)
  BY LenProperties DEF Log
<1>2. ASSUME NEW i \in 1 .. Len(log)
      PROVE  /\ log[i].packet \in S /\ log[i].from \in Nat
             /\ OnWire(log[i].packet) \in Seq(Byte)
             /\ Len(OnWire(log[i].packet)) \in Nat /\ Len(OnWire(log[i].packet)) > 0
             /\ End(log[i]) = log[i].from + Len(OnWire(log[i].packet))
             /\ End(log[i]) \in Nat
  <2>1. log[i] \in [packet : S, from : Nat]
    BY ElementOfSeq DEF Log
  <2>2. log[i].packet \in S /\ log[i].from \in Nat
    BY <2>1
  <2>3. /\ OnWire(log[i].packet) \in Seq(Byte)
        /\ Len(OnWire(log[i].packet)) \in Nat /\ Len(OnWire(log[i].packet)) > 0
    BY <2>2, WireBytes
  <2>4. End(log[i]) = log[i].from + Len(OnWire(log[i].packet))
    BY DEF End
  <2>5. End(log[i]) \in Nat
    BY <2>2, <2>3, <2>4
  <2> QED  BY <2>2, <2>3, <2>4, <2>5
<1> QED  BY <1>1, <1>2

(***************************************************************************)
(* Bytes that read as packets, and one packet more.                        *)
(***************************************************************************)
LEMMA ReadsOn ==
  ASSUME NEW S, S \subseteq Requests \cup Replies,
         NEW b \in Seq(Byte), NEW log \in Log(S), ReadsAs(b, log), NEW p \in S
  PROVE  /\ b \o OnWire(p) \in Seq(Byte) /\ Append(log, Entry(p, b)) \in Log(S)
         /\ ReadsAs(b \o OnWire(p), Append(log, Entry(p, b)))
<1> DEFINE q == OnWire(p)
           c == b \o q
           e == Entry(p, b)
           new == Append(log, e)
           n == Len(log)
<1>1. q \in Seq(Byte) /\ Len(q) \in Nat
  BY WireBytes
<1>2. /\ c \in Seq(Byte) /\ Len(c) = Len(b) + Len(q) /\ Len(b) \in Nat
  BY <1>1, Joined
<1>3. e.packet = p /\ e.from = Len(b) /\ End(e) = Len(b) + Len(q)
  BY DEF Entry, End
<1>4. /\ n \in Nat /\ DOMAIN log = 1 .. n
      /\ \A i \in 1 .. n : log[i].from \in Nat /\ End(log[i]) \in Nat /\ log[i].from <= End(log[i])
  <2>1. \A x \in Nat, y \in Nat : x <= x + y
    OBVIOUS
  <2> QED  BY <2>1, LogFacts, Zenon
<1>5. e \in [packet : S, from : Nat]
  BY <1>2 DEF Entry
<1>6. /\ new \in Log(S) /\ Len(new) = n + 1 /\ new[n + 1] = e
      /\ \A i \in 1 .. n : new[i] = log[i]
  BY <1>4, <1>5, AppendProperties DEF Log
<1>7. DOMAIN new = 1 .. n + 1 /\ new # <<>>
  <2>1. new # <<>>
    BY <1>5, AppendProperties DEF Log
  <2> HIDE DEF new
  <2> QED  BY <1>6, <2>1, LenProperties, Zenon DEF Log
<1>8. /\ \A i \in 1 .. n : log[i].from = IF i = 1 THEN 0 ELSE End(log[i - 1])
      /\ \A i \in 1 .. n : End(log[i]) <= Len(b)
      /\ \A i \in 1 .. n : SubSeq(b, log[i].from + 1, End(log[i])) = OnWire(log[i].packet)
      /\ Len(b) = IF n = 0 THEN 0 ELSE End(log[n])
  <2>1. log = <<>> <=> n = 0
    BY EmptySeq DEF Log
  <2>2. ReadsAs(b, log) /\ DOMAIN log = 1 .. n
    BY <1>4
  <2> QED  BY <2>1, <2>2, Zenon DEF ReadsAs
<1> HIDE DEF q, c, e, new, n
<1>9. ASSUME NEW i \in 1 .. n + 1
      PROVE  new[i].from = IF i = 1 THEN 0 ELSE End(new[i - 1])
  <2>1. CASE i = n + 1
    <3>1. new[i].from = Len(b)
      BY <1>3, <1>6, <2>1
    <3>2. i # 1 => i - 1 = n /\ n \in 1 .. n
      BY <1>4, <2>1
    <3>3. i = 1 <=> n = 0
      BY <1>4, <2>1
    <3>4. i # 1 => new[i - 1] = log[n]
      BY <1>6, <3>2
    <3> QED  BY <1>8, <3>1, <3>3, <3>4
  <2>2. CASE i # n + 1
    <3>1. i \in 1 .. n /\ (i # 1 => i - 1 \in 1 .. n)
      BY <1>4, <2>2
    <3>2. new[i] = log[i] /\ (i # 1 => new[i - 1] = log[i - 1])
      BY <1>6, <3>1
    <3> QED  BY <1>8, <3>1, <3>2
  <2> QED  BY <2>1, <2>2
<1>10. ASSUME NEW i \in 1 .. n + 1
       PROVE  /\ End(new[i]) <= Len(c)
              /\ SubSeq(c, new[i].from + 1, End(new[i])) = OnWire(new[i].packet)
  <2>1. CASE i = n + 1
    <3>1. new[i] = e
      BY <1>6, <2>1
    <3>2. SubSeq(c, Len(b) + 1, Len(b) + Len(q)) = q
      BY <1>1, PartsOfJoined DEF c
    <3>3. Len(b) + Len(q) <= Len(c)
      BY <1>1, <1>2
    <3> QED  BY <1>3, <3>1, <3>2, <3>3, Zenon DEF q
  <2>2. CASE i # n + 1
    <3>1. i \in 1 .. n
      BY <1>4, <2>2
    <3>2. new[i] = log[i]
      BY <1>6, <3>1
    <3> DEFINE x == log[i].from
               y == End(log[i])
    <3>3. x \in Nat /\ y \in Nat /\ x <= y /\ y <= Len(b)
      BY <1>4, <1>8, <3>1
    <3>4. SubSeq(b, x + 1, y) = OnWire(log[i].packet)
      BY <1>8, <3>1
    <3> HIDE DEF x, y
    <3>5. x + 1 \in Nat /\ 1 <= x + 1 /\ x + 1 <= y + 1 /\ y <= Len(c)
      BY <1>1, <1>2, <3>3
    <3>6. SubSeq(c, x + 1, y) = SubSeq(b, x + 1, y)
      BY <1>1, <3>3, <3>5, FrontOfJoined DEF c
    <3> QED  BY <3>2, <3>4, <3>5, <3>6, Zenon DEF x, y
  <2> QED  BY <2>1, <2>2
<1>11. Len(c) = End(new[n + 1])
  BY <1>2, <1>3, <1>6, Zenon
<1>12. ReadsAs(c, new)
  BY <1>6, <1>7, <1>9, <1>10, <1>11, Zenon DEF ReadsAs
<1> QED  BY <1>2, <1>6, <1>12, Zenon DEF c, new, e, q

(***************************************************************************)
(* What the client handled of a log, and what is left of the bytes.        *)
(***************************************************************************)
From(log, b, j) == IF j < Len(log) THEN log[j + 1].from ELSE Len(b)

Aligned(w, b, log, h, socket) ==
  /\ Len(h) <= Len(log)
  /\ \A i \in DOMAIN h : h[i] = Due(log[i].packet)
  /\ From(log, b, Len(h)) + Len(w) <= Len(b)
  /\ w = SubSeq(b, From(log, b, Len(h)) + 1, From(log, b, Len(h)) + Len(w))
  /\ socket = "up" => From(log, b, Len(h)) + Len(w) = Len(b)

LEMMA FromFacts ==
  ASSUME NEW b \in Seq(Byte), NEW log \in Log(Replies), ReadsAs(b, log),
         NEW j \in Nat, j <= Len(log)
  PROVE  LET f == From(log, b, j)
             p == log[j + 1].packet
             q == OnWire(p)
         IN  /\ f \in Nat /\ f <= Len(b) /\ (j = Len(log) => f = Len(b))
             /\ j < Len(log) => /\ p \in Replies /\ f + Len(q) <= Len(b)
                                /\ \A i \in 1 .. Len(q) : b[f + i] = q[i]
                                /\ From(log, b, j + 1) = f + Len(q)
<1> DEFINE n == Len(log)
           f == From(log, b, j)
           p == log[j + 1].packet
           q == OnWire(p)
<1>1. /\ n \in Nat /\ DOMAIN log = 1 .. n /\ Len(b) \in Nat
      /\ \A i \in 1 .. n :
           /\ log[i].packet \in Replies /\ log[i].from \in Nat
           /\ OnWire(log[i].packet) \in Seq(Byte) /\ Len(OnWire(log[i].packet)) \in Nat
           /\ End(log[i]) = log[i].from + Len(OnWire(log[i].packet))
  BY LogFacts, LenProperties, Zenon
<1>2. /\ \A i \in 1 .. n : log[i].from = IF i = 1 THEN 0 ELSE End(log[i - 1])
      /\ \A i \in 1 .. n : End(log[i]) <= Len(b)
      /\ \A i \in 1 .. n : SubSeq(b, log[i].from + 1, End(log[i])) = OnWire(log[i].packet)
      /\ Len(b) = IF n = 0 THEN 0 ELSE End(log[n])
  <2>1. log = <<>> <=> n = 0
    BY EmptySeq DEF Log
  <2> QED  BY <1>1, <2>1, Zenon DEF ReadsAs
<1> HIDE DEF n
<1>3. ASSUME j < n
      PROVE  /\ j + 1 \in 1 .. n /\ f = log[j + 1].from
             /\ p \in Replies /\ q \in Seq(Byte) /\ Len(q) \in Nat
             /\ f \in Nat /\ End(log[j + 1]) = f + Len(q)
  <2>1. j + 1 \in 1 .. n /\ f = log[j + 1].from
    BY <1>1, <1>3 DEF From, n
  <2> QED  BY <1>1, <2>1, Zenon
<1>4. ASSUME j < n
      PROVE  f \in Nat /\ f <= Len(b) /\ f + Len(q) <= Len(b)
  <2>1. End(log[j + 1]) <= Len(b)
    BY <1>2, <1>3, <1>4
  <2>2. f \in Nat /\ Len(q) \in Nat /\ f + Len(q) <= Len(b)
    BY <1>3, <1>4, <2>1, Zenon
  <2> HIDE DEF f, q
  <2> QED  BY <1>1, <2>2
<1>5. ASSUME j = n
      PROVE  f = Len(b)
  BY <1>1, <1>5 DEF From, n
<1>6. ASSUME j < n, NEW i \in 1 .. Len(q)
      PROVE  b[f + i] = q[i]
  <2>1. SubSeq(b, f + 1, f + Len(q)) = q
    BY <1>2, <1>3, <1>6, Zenon
  <2>2. f \in Nat /\ Len(q) \in Nat /\ f + Len(q) <= Len(b)
    BY <1>3, <1>4, <1>6
  <2> HIDE DEF f, q
  <2> DEFINE x == f + 1
             y == f + Len(q)
  <2>3. x \in Nat /\ y \in Nat /\ 1 <= x /\ x <= y + 1 /\ y <= Len(b)
    BY <2>2
  <2>4. (y + 1) - x = Len(q) /\ (x - 1) + i = f + i
    BY <2>2
  <2>5. SubSeq(b, x, y) = q
    BY <2>1
  <2> HIDE DEF x, y
  <2>6. \A a \in 1 .. (y + 1) - x : SubSeq(b, x, y)[a] = b[(x - 1) + a]
    BY <2>3, Part
  <2> QED  BY <2>4, <2>5, <2>6, Zenon
<1>7. ASSUME j < n
      PROVE  From(log, b, j + 1) = f + Len(q)
  <2>1. CASE j + 1 < n
    <3>1. From(log, b, j + 1) = log[(j + 1) + 1].from
      BY <2>1 DEF From, n
    <3>2. (j + 1) + 1 \in 1 .. n /\ (j + 1) + 1 # 1 /\ ((j + 1) + 1) - 1 = j + 1
      BY <1>1, <2>1
    <3> QED  BY <1>2, <1>3, <1>7, <3>1, <3>2, Zenon
  <2>2. CASE ~(j + 1 < n)
    <3>1. From(log, b, j + 1) = Len(b)
      BY <2>2 DEF From, n
    <3>2. n = j + 1 /\ n # 0
      BY <1>1, <1>7, <2>2
    <3> QED  BY <1>2, <1>3, <1>7, <3>1, <3>2, Zenon
  <2> QED  BY <2>1, <2>2
<1>8. j = n \/ j < n
  <2>1. n \in Nat /\ j <= n
    BY <1>1, Zenon DEF n
  <2> QED  BY <2>1
<1>9. f \in Nat /\ f <= Len(b)
  <2> HIDE DEF f
  <2> QED  BY <1>1, <1>4, <1>5, <1>8
<1> HIDE DEF f, q, p
<1> QED  BY <1>3, <1>4, <1>5, <1>6, <1>7, <1>9, Zenon DEF n, f, p, q

LEMMA AlignedFacts ==
  ASSUME NEW w \in Seq(Byte), NEW b \in Seq(Byte), NEW log \in Log(Replies),
         NEW h \in Seq(Replies \cup {Overflow}), NEW socket,
         ReadsAs(b, log), Aligned(w, b, log, h, socket)
  PROVE  LET f == From(log, b, Len(h))
         IN  /\ Len(h) \in Nat /\ Len(h) <= Len(log) /\ Len(w) \in Nat /\ Len(b) \in Nat
             /\ f \in Nat /\ f + Len(w) <= Len(b)
             /\ w = SubSeq(b, f + 1, f + Len(w))
             /\ \A i \in 1 .. Len(w) : w[i] = b[f + i]
             /\ \A i \in 1 .. Len(h) : h[i] = Due(log[i].packet)
<1> DEFINE f == From(log, b, Len(h))
           l == Len(w)
<1>1. Len(h) \in Nat /\ l \in Nat /\ Len(b) \in Nat /\ DOMAIN h = 1 .. Len(h)
  BY LenProperties
<1>2. /\ Len(h) <= Len(log) /\ f + l <= Len(b) /\ w = SubSeq(b, f + 1, f + l)
      /\ \A i \in 1 .. Len(h) : h[i] = Due(log[i].packet)
  BY <1>1, Zenon DEF Aligned
<1>3. f \in Nat
  BY <1>1, <1>2, FromFacts
<1> HIDE DEF f, l
<1>4. ASSUME NEW i \in 1 .. l
      PROVE  w[i] = b[f + i]
  <2> DEFINE x == f + 1
             y == f + l
  <2>1. x \in Nat /\ y \in Nat /\ 1 <= x /\ x <= y + 1 /\ y <= Len(b)
    BY <1>1, <1>2, <1>3
  <2>2. (y + 1) - x = l /\ (x - 1) + i = f + i
    BY <1>1, <1>3
  <2>3. w = SubSeq(b, x, y)
    BY <1>2
  <2> HIDE DEF x, y
  <2>4. \A a \in 1 .. (y + 1) - x : SubSeq(b, x, y)[a] = b[(x - 1) + a]
    BY <2>1, Part
  <2> QED  BY <2>2, <2>3, <2>4, Zenon
<1> QED  BY <1>1, <1>2, <1>3, <1>4, Zenon DEF f, l

(***************************************************************************)
(* The next packet is taken off whole, and handled.                        *)
(***************************************************************************)
LEMMA PacketTaken ==
  ASSUME NEW w \in Seq(Byte), NEW b \in Seq(Byte), NEW log \in Log(Replies),
         NEW h \in Seq(Replies \cup {Overflow}), NEW socket,
         ReadsAs(b, log), Aligned(w, b, log, h, socket), Len(h) < Len(log),
         NEW k \in Nat, k <= Len(w), k = Len(OnWire(log[Len(h) + 1].packet))
  PROVE  LET done == Append(h, Due(log[Len(h) + 1].packet))
         IN  /\ done \in Seq(Replies \cup {Overflow})
             /\ Aligned(SubSeq(w, k + 1, Len(w)), b, log, done, socket)
<1> DEFINE j == Len(h)
           l == Len(w)
           f == From(log, b, j)
           p == log[j + 1].packet
           done == Append(h, Due(p))
           rest == SubSeq(w, k + 1, l)
<1>1. /\ j \in Nat /\ l \in Nat /\ Len(b) \in Nat /\ f \in Nat /\ f + l <= Len(b)
      /\ w = SubSeq(b, f + 1, f + l)
      /\ \A i \in 1 .. j : h[i] = Due(log[i].packet)
  <2> HIDE DEF rest, done, p
  <2> QED  BY AlignedFacts, Zenon
<1>2. /\ p \in Replies /\ From(log, b, j + 1) = f + Len(OnWire(p))
  BY <1>1, FromFacts
<1>3. socket = "up" => f + l = Len(b)
  BY DEF Aligned
<1>4. Len(log) \in Nat /\ j < Len(log) /\ k \in Nat /\ k <= l /\ k = Len(OnWire(p))
  BY LogFacts
<1>5. Due(p) \in Replies \cup {Overflow}
  BY <1>2, Zenon DEF Due
<1>6. /\ done \in Seq(Replies \cup {Overflow}) /\ Len(done) = j + 1
      /\ \A i \in 1 .. j : done[i] = h[i]
      /\ done[j + 1] = Due(p)
  <2> HIDE DEF p
  <2> QED  BY <1>5, AppendProperties
<1>7. DOMAIN done = 1 .. j + 1
  <2> HIDE DEF done
  <2> QED  BY <1>6, LenProperties, Zenon
<1> HIDE DEF j, l, f, p, done
<1>8. ASSUME NEW i \in 1 .. j + 1
      PROVE  done[i] = Due(log[i].packet)
  <2>1. i \in 1 .. j \/ i = j + 1
    BY <1>1
  <2> QED  BY <1>1, <1>6, <2>1, Zenon DEF p
<1>9. Len(rest) = l - k
  <2> DEFINE c == k + 1
  <2>1. c \in Nat /\ l \in Nat /\ 1 <= c /\ c <= l + 1 /\ (l + 1) - c = l - k
    BY <1>1, <1>4
  <2>2. l <= Len(w)
    BY <1>1 DEF l
  <2>3. rest = SubSeq(w, c, l)
    OBVIOUS
  <2> HIDE DEF c, rest
  <2>4. Len(SubSeq(w, c, l)) = (l + 1) - c
    BY <2>1, <2>2, Part
  <2> QED  BY <2>1, <2>3, <2>4, Zenon
<1>10. rest = SubSeq(b, (f + k) + 1, f + l)
  <2> DEFINE x == f + 1
             y == f + l
             c == k + 1
  <2>1. /\ x \in Nat /\ y \in Nat /\ 1 <= x /\ x <= y + 1 /\ y <= Len(b)
        /\ c \in Nat /\ 1 <= c /\ c <= l + 1 /\ l <= (y + 1) - x
        /\ (x + c) - 1 = (f + k) + 1 /\ (x + l) - 1 = f + l
    BY <1>1, <1>4
  <2>2. rest = SubSeq(SubSeq(b, x, y), c, l)
    BY <1>1, Zenon
  <2> HIDE DEF x, y, c, rest
  <2>3. SubSeq(SubSeq(b, x, y), c, l) = SubSeq(b, (x + c) - 1, (x + l) - 1)
    BY <1>1, <2>1, PartOfPart
  <2> QED  BY <2>1, <2>2, <2>3, Zenon DEF y
<1>11. From(log, b, j + 1) = f + k
  BY <1>2, <1>4, Zenon
<1>12. (f + k) + (l - k) = f + l
  BY <1>1, <1>4
<1> HIDE DEF rest
<1>13. /\ (f + k) + Len(rest) = f + l /\ j + 1 <= Len(log)
  <2>1. (f + k) + Len(rest) = f + l
    BY <1>9, <1>12, Zenon
  <2>2. j + 1 <= Len(log)
    BY <1>1, <1>4
  <2> QED  BY <2>1, <2>2
<1>14. Aligned(rest, b, log, done, socket)
  BY <1>1, <1>3, <1>6, <1>7, <1>8, <1>10, <1>11, <1>13, Zenon DEF Aligned
<1> QED  BY <1>6, <1>14, Zenon DEF done, rest, j, l, p

(***************************************************************************)
(* The last bytes are lost, or given up, with the connection.              *)
(***************************************************************************)
LEMMA FrontKept ==
  ASSUME NEW w \in Seq(Byte), NEW b \in Seq(Byte), NEW log \in Log(Replies),
         NEW h \in Seq(Replies \cup {Overflow}), NEW socket, NEW other,
         ReadsAs(b, log), Aligned(w, b, log, h, socket), other # "up",
         NEW k \in Nat, k <= Len(w)
  PROVE  Aligned(SubSeq(w, 1, k), b, log, h, other)
<1> DEFINE l == Len(w)
           f == From(log, b, Len(h))
           kept == SubSeq(w, 1, k)
<1>1. /\ l \in Nat /\ Len(b) \in Nat /\ f \in Nat /\ f + l <= Len(b)
      /\ w = SubSeq(b, f + 1, f + l)
  BY AlignedFacts
<1>2. Len(h) <= Len(log) /\ \A i \in DOMAIN h : h[i] = Due(log[i].packet)
  BY Zenon DEF Aligned
<1>3. k \in Nat /\ k <= l
  OBVIOUS
<1> HIDE DEF l, f
<1>4. Len(kept) = k
  <2>1. 1 \in Nat /\ 1 <= 1 /\ 1 <= k + 1 /\ (k + 1) - 1 = k
    BY <1>3
  <2>2. Len(SubSeq(w, 1, k)) = (k + 1) - 1
    BY <1>3, <2>1, Part DEF l
  <2> QED  BY <2>1, <2>2, Zenon
<1>5. kept = SubSeq(b, f + 1, f + k)
  <2> DEFINE x == f + 1
             y == f + l
  <2>1. /\ x \in Nat /\ y \in Nat /\ 1 <= x /\ x <= y + 1 /\ y <= Len(b)
        /\ 1 \in Nat /\ 1 <= 1 /\ 1 <= k + 1 /\ k <= (y + 1) - x
        /\ (x + 1) - 1 = f + 1 /\ (x + k) - 1 = f + k
    BY <1>1, <1>3
  <2>2. kept = SubSeq(SubSeq(b, x, y), 1, k)
    BY <1>1, Zenon
  <2> HIDE DEF x, y, kept
  <2>3. SubSeq(SubSeq(b, x, y), 1, k) = SubSeq(b, (x + 1) - 1, (x + k) - 1)
    BY <2>1, PartOfPart
  <2> QED  BY <2>1, <2>2, <2>3, Zenon
<1>6. f + k <= Len(b)
  BY <1>1, <1>3
<1> HIDE DEF kept
<1> QED  BY <1>2, <1>4, <1>5, <1>6, Zenon DEF Aligned, f, kept

(***************************************************************************)
(* The broker writes a packet.                                             *)
(***************************************************************************)
LEMMA TailOfJoined ==
  ASSUME NEW S, NEW s \in Seq(S), NEW t \in Seq(S), NEW f \in Nat, f <= Len(s)
  PROVE  SubSeq(s \o t, f + 1, Len(s) + Len(t)) = SubSeq(s, f + 1, Len(s)) \o t
<1> DEFINE n == Len(s)
           m == Len(t)
           u == s \o t
           a == SubSeq(s, f + 1, n)
           x == SubSeq(u, f + 1, n + m)
           y == a \o t
<1>1. n \in Nat /\ m \in Nat /\ f \in Nat /\ f <= n
  BY LenProperties
<1>2. /\ u \in Seq(S) /\ Len(u) = n + m
      /\ \A i \in 1 .. n : u[i] = s[i]
      /\ \A i \in 1 .. m : u[n + i] = t[i]
  BY Joined
<1> DEFINE c == f + 1
           d == n + m
<1>3. /\ c \in Nat /\ d \in Nat /\ 1 <= c /\ c <= n + 1 /\ c <= d + 1
      /\ (n + 1) - c = n - f /\ (d + 1) - c = (n - f) + m /\ c - 1 = f
      /\ n - f \in Nat
  BY <1>1
<1> HIDE DEF n, m, u
<1>4. /\ a \in Seq(S) /\ Len(a) = n - f /\ \A i \in 1 .. n - f : a[i] = s[f + i]
  <2>1. n <= Len(s)
    BY <1>1 DEF n
  <2> HIDE DEF c
  <2>2. /\ SubSeq(s, c, n) \in Seq(S) /\ Len(SubSeq(s, c, n)) = (n + 1) - c
        /\ \A i \in 1 .. (n + 1) - c : SubSeq(s, c, n)[i] = s[(c - 1) + i]
    BY <1>1, <1>3, <2>1, Part
  <2> QED  BY <1>3, <2>2, Zenon DEF c
<1>5. /\ x \in Seq(S) /\ Len(x) = (n - f) + m
      /\ \A i \in 1 .. (n - f) + m : x[i] = u[f + i]
  <2>1. d <= Len(u)
    BY <1>1, <1>2
  <2> HIDE DEF c, d
  <2>2. /\ SubSeq(u, c, d) \in Seq(S) /\ Len(SubSeq(u, c, d)) = (d + 1) - c
        /\ \A i \in 1 .. (d + 1) - c : SubSeq(u, c, d)[i] = u[(c - 1) + i]
    BY <1>2, <1>3, <2>1, Part
  <2> QED  BY <1>3, <2>2, Zenon DEF c, d
<1> HIDE DEF a, x, c, d
<1>6. /\ y \in Seq(S) /\ Len(y) = (n - f) + m
      /\ \A i \in 1 .. n - f : y[i] = a[i]
      /\ \A i \in 1 .. m : y[(n - f) + i] = t[i]
  <2>1. /\ a \o t \in Seq(S) /\ Len(a \o t) = Len(a) + Len(t)
        /\ \A i \in 1 .. Len(a) : (a \o t)[i] = a[i]
        /\ \A i \in 1 .. Len(t) : (a \o t)[Len(a) + i] = t[i]
    <3>1. a \in Seq(S)
      BY <1>4
    <3> HIDE DEF y
    <3> QED  BY <3>1, Joined
  <2> QED  BY <1>4, <2>1, Zenon DEF m
<1> HIDE DEF y
<1>7. ASSUME NEW i \in 1 .. (n - f) + m
      PROVE  x[i] = y[i]
  <2>1. x[i] = u[f + i]
    BY <1>5
  <2>2. CASE i <= n - f
    <3>1. i \in 1 .. n - f /\ f + i \in 1 .. n
      BY <1>1, <2>2
    <3> QED  BY <1>2, <1>4, <1>6, <2>1, <3>1, Zenon
  <2>3. CASE ~(i <= n - f)
    <3>1. PICK r \in 1 .. m : i = (n - f) + r
      <4>1. i - (n - f) \in 1 .. m /\ i = (n - f) + (i - (n - f))
        BY <1>1, <2>3
      <4> QED  BY <4>1
    <3>2. f + i = n + r
      BY <1>1, <3>1
    <3> QED  BY <1>2, <1>6, <2>1, <3>1, <3>2, Zenon
  <2> QED  BY <2>2, <2>3
<1>8. x = y
  <2>1. Len(x) = Len(y) /\ \A i \in 1 .. Len(x) : x[i] = y[i]
    BY <1>5, <1>6, <1>7, Zenon
  <2> QED  BY <1>5, <1>6, <2>1, SeqEqual
<1> QED  BY <1>8 DEF x, y, a, u, n, m

LEMMA PacketWritten ==
  ASSUME NEW w \in Seq(Byte), NEW b \in Seq(Byte), NEW log \in Log(Replies),
         NEW h \in Seq(Replies \cup {Overflow}),
         ReadsAs(b, log), Aligned(w, b, log, h, "up"), NEW p \in Replies
  PROVE  Aligned(w \o OnWire(p), b \o OnWire(p), Append(log, Entry(p, b)), h, "up")
<1> DEFINE q == OnWire(p)
           l == Len(w)
           n == Len(b)
           j == Len(h)
           f == From(log, b, j)
           c == b \o q
           new == Append(log, Entry(p, b))
           g == From(new, c, j)
<1>1. /\ j \in Nat /\ j <= Len(log) /\ l \in Nat /\ n \in Nat /\ f \in Nat
      /\ w = SubSeq(b, f + 1, f + l)
      /\ \A i \in 1 .. j : h[i] = Due(log[i].packet)
  <2> HIDE DEF q, c, new, g
  <2> QED  BY AlignedFacts, Zenon
<1>2. f + l = n
  BY Zenon DEF Aligned
<1>3. q \in Seq(Byte) /\ Len(q) \in Nat
  BY WireBytes
<1>4. /\ Len(log) \in Nat /\ Len(new) = Len(log) + 1
      /\ \A i \in 1 .. Len(log) : new[i] = log[i]
      /\ new[Len(log) + 1].from = n
  <2> DEFINE e == Entry(p, b)
  <2>1. e \in [packet : Replies, from : Nat] /\ e.from = n
    BY <1>1 DEF Entry
  <2>2. Len(log) \in Nat
    BY LogFacts
  <2> HIDE DEF e
  <2>3. /\ Len(Append(log, e)) = Len(log) + 1
        /\ \A i \in 1 .. Len(log) : Append(log, e)[i] = log[i]
        /\ Append(log, e)[Len(log) + 1] = e
    BY <2>1, AppendProperties DEF Log
  <2> QED  BY <2>1, <2>2, <2>3, Zenon DEF e
<1>5. j = Len(log) => f = n
  BY <1>1, FromFacts
<1>6. Len(w \o q) = l + Len(q)
  BY <1>3, Joined
<1>7. Len(c) = n + Len(q)
  BY <1>3, Joined
<1>8. w \o q = SubSeq(c, f + 1, n + Len(q))
  <2>1. f <= Len(b)
    BY <1>1, <1>2
  <2>2. SubSeq(b \o q, f + 1, Len(b) + Len(q)) = SubSeq(b, f + 1, Len(b)) \o q
    BY <1>1, <1>3, <2>1, TailOfJoined
  <2> QED  BY <1>1, <1>2, <2>2, Zenon
<1>9. DOMAIN h = 1 .. j
  BY LenProperties
<1> HIDE DEF q, l, n, j, f, c, new
<1>10. g = f
  <2>1. CASE j < Len(log)
    <3>1. j < Len(new) /\ j + 1 \in 1 .. Len(log)
      BY <1>1, <1>4, <2>1
    <3>2. g = new[j + 1].from /\ f = log[j + 1].from
      BY <2>1, <3>1, Zenon DEF f, From
    <3> QED  BY <1>4, <3>1, <3>2, Zenon
  <2>2. CASE ~(j < Len(log))
    <3>1. j = Len(log) /\ j < Len(new)
      BY <1>1, <1>4, <2>2
    <3>2. g = new[j + 1].from
      BY <3>1, Zenon DEF From
    <3> QED  BY <1>4, <1>5, <3>1, <3>2, Zenon
  <2> QED  BY <2>1, <2>2
<1>11. ASSUME NEW i \in 1 .. j
       PROVE  h[i] = Due(new[i].packet)
  <2>1. i \in 1 .. Len(log)
    BY <1>1, <1>4
  <2> QED  BY <1>1, <1>4, <2>1, Zenon
<1>12. j <= Len(new)
  BY <1>1, <1>4
<1>13. f + (l + Len(q)) = n + Len(q) /\ n + Len(q) <= n + Len(q)
  <2>1. f \in Nat /\ l \in Nat /\ n \in Nat /\ Len(q) \in Nat
    BY <1>1, <1>3
  <2> QED  BY <1>2, <2>1
<1> HIDE DEF g
<1>14. /\ g + Len(w \o q) = Len(c) /\ g + Len(w \o q) <= Len(c)
       /\ w \o q = SubSeq(c, g + 1, g + Len(w \o q))
  BY <1>6, <1>7, <1>8, <1>10, <1>13, Zenon
<1>15. Aligned(w \o q, c, new, h, "up")
  BY <1>9, <1>11, <1>12, <1>14, Zenon DEF Aligned, g, j
<1> QED  BY <1>15, Zenon DEF q, c, new

LEMMA AllEmpty ==
  ASSUME NEW socket
  PROVE  Aligned(<<>>, <<>>, <<>>, <<>>, socket) /\ ReadsAs(<<>>, <<>>)
<1>1. Len(<<>>) = 0 /\ DOMAIN <<>> = {}
  OBVIOUS
<1>2. From(<<>>, <<>>, 0) = 0
  BY <1>1 DEF From
<1>3. SubSeq(<<>>, 0 + 1, 0 + 0) = <<>> /\ 0 + 0 = 0 /\ 0 <= 0
  BY SubSeqEmpty
<1>4. Aligned(<<>>, <<>>, <<>>, <<>>, socket)
  BY <1>1, <1>2, <1>3, Zenon DEF Aligned
<1>5. ReadsAs(<<>>, <<>>)
  BY <1>1 DEF ReadsAs
<1> QED  BY <1>4, <1>5

-----------------------------------------------------------------------------
(* The reads of a connection.                                              *)

LEMMA FrontLenRange ==
  ASSUME wire \in Seq(Byte)
  PROVE  FrontLen(wire) \in 0 .. Len(wire)
<1> DEFINE t == Tail(wire)
           m == LengthBytes(t)
           n == IF m = 0 THEN 5 ELSE 1 + m + Decode(t, m)
<1>1. Len(wire) \in Nat
  BY LenProperties
<1>2. CASE wire = <<>>
  BY <1>1, <1>2 DEF FrontLen
<1>3. CASE wire # <<>>
  <2>1. t \in Seq(Byte)
    BY <1>3, HeadTailProperties
  <2> HIDE DEF t
  <2>2. n \in Nat
    <3>1. CASE m = 0
      BY <3>1
    <3>2. CASE m # 0
      <4>1. m \in 1 .. 4 /\ m <= Len(t)
        BY <2>1, <3>2, LengthFound
      <4> HIDE DEF m
      <4>2. Decode(t, m) \in Nat
        BY <2>1, <4>1, DecodeRange DEF Length
      <4> QED  BY <4>1, <4>2
    <3> QED  BY <3>1, <3>2
  <2>3. FrontLen(wire) = IF n < Len(wire) THEN n ELSE Len(wire)
    BY <1>3 DEF FrontLen, t
  <2> HIDE DEF n
  <2> QED  BY <1>1, <2>2, <2>3
<1> QED  BY <1>2, <1>3

(***************************************************************************)
(* A read that does not end in the middle of a packet.                     *)
(***************************************************************************)
LEMMA AlignedRead ==
  ASSUME wire \in Seq(Byte), said \in Seq(Byte), sent \in Log(Replies),
         handled \in Seq(Replies \cup {Overflow}),
         ReadsAs(said, sent), Aligned(wire, said, sent, handled, sock),
         NEW k \in Nat, k <= FrontLen(wire),
         NEW r, r = iotx_mc_read_packet(k), r \notin {"short", "bad"},
         NEW p, r = "packet" => p = Deserialized(ReadBuffer(k)),
         r = "over" => p = Overflow
  PROVE  LET done == IF r \notin {"over", "packet"} THEN handled ELSE Append(handled, p)
         IN  /\ done \in Seq(Replies \cup {Overflow})
             /\ Aligned(SubSeq(wire, k + 1, Len(wire)), said, sent, done, sock)
<1> DEFINE l == Len(wire)
           m == LengthAt(k)
           rem == Remaining(k)
           j == Len(handled)
           f == From(sent, said, j)
           rest == SubSeq(wire, k + 1, l)
<1>1. l \in Nat /\ k <= l
  BY FrontLenRange, LenProperties
<1>2. m \in Nat /\ rem \in Nat
  <2> HIDE DEF j, f, rest
  <2>1. m \in 0 .. 4 /\ rem \in Length
    BY <1>1, GotFacts
  <2> HIDE DEF m, rem
  <2> QED  BY <2>1 DEF Length
<1>3. /\ r \in {"error", "timeout", "over", "packet"}
      /\ r = "error" => sock # "up" /\ k = l
      /\ r = "timeout" => k = 0
      /\ r \in {"over", "packet"} =>
           /\ k > 0 /\ m > 0 /\ 1 + m + rem <= k
           /\ r = "over" <=> rem > ReadMax - (1 + EncodedLen(rem))
  <2> HIDE DEF l, j, f, rest
  <2>1. LET x == iotx_mc_read_packet(k)
        IN  /\ x \in {"error", "timeout", "short", "bad", "over", "packet"}
            /\ x = "error" => sock # "up" /\ k = Len(wire)
            /\ x = "timeout" => k = 0
            /\ x \in {"over", "packet"} =>
                 /\ k > 0 /\ m > 0 /\ 1 + m + rem <= k
                 /\ x = "over" <=> rem > ReadMax - (1 + EncodedLen(rem))
    BY <1>2, ReadOutcome
  <2> HIDE DEF m, rem
  <2> QED  BY <2>1, Zenon DEF l
<1>4. CASE r = "error"
  <2>1. rest = <<>>
    BY <1>1, <1>3, <1>4, SubSeqEmpty
  <2>2. SubSeq(wire, 1, 0) = <<>> /\ 0 \in Nat /\ 0 <= l
    BY <1>1, SubSeqEmpty
  <2>3. Aligned(SubSeq(wire, 1, 0), said, sent, handled, sock)
    BY <1>3, <1>4, <2>2, FrontKept
  <2> QED  BY <1>4, <2>1, <2>2, <2>3
<1>5. CASE r = "timeout"
  <2>1. k + 1 = 1
    BY <1>3, <1>5
  <2>2. SubSeq(wire, 1, l) = wire
    BY SubSeqFull
  <2> QED  BY <1>5, <2>1, <2>2
<1>6. CASE r \in {"over", "packet"}
  <2>1. /\ j \in Nat /\ j <= Len(sent) /\ f \in Nat /\ f + l <= Len(said) /\ Len(said) \in Nat
        /\ \A i \in 1 .. l : wire[i] = said[f + i]
    <3> HIDE DEF rest, m, rem
    <3> QED  BY AlignedFacts
  <2>2. Len(sent) \in Nat
    BY LogFacts
  <2>3. k > 0 /\ m > 0 /\ 1 + m + rem <= k
    BY <1>3, <1>6, Zenon
  <2>4. j < Len(sent)
    <3>1. j = Len(sent) => f = Len(said)
      BY <2>1, FromFacts
    <3> HIDE DEF j, f, l, m, rem
    <3> QED  BY <1>1, <2>1, <2>2, <2>3, <3>1
  <2> DEFINE e == sent[j + 1].packet
             q == OnWire(e)
  <2>5. e \in Replies /\ \A i \in 1 .. Len(q) : said[f + i] = q[i]
    BY <2>1, <2>4, FromFacts
  <2>6. Len(q) \in Nat
    BY <2>5, WireBytes
  <2>7. \A i \in 1 .. l : i <= Len(q) => wire[i] = q[i]
    <3>1. \A i \in 1 .. l : i <= Len(q) => i \in 1 .. Len(q)
      BY <1>1, <2>6
    <3> QED  BY <2>1, <2>5, <3>1, Zenon
  <2>8. /\ k = Len(q) /\ ReadBuffer(k) = q
        /\ k = 1 + EncodedLen(rem) + rem
    BY <1>1, <2>3, <2>5, <2>7, FrontPacket
  <2>9. Deserialized(q) = e
    BY <2>5, DeserializedIsSent
  <2>10. r = "over" <=> Len(q) > ReadMax
    <3>1. r = "over" <=> rem > ReadMax - (1 + EncodedLen(rem))
      BY <1>3, <1>6, Zenon
    <3>2. EncodedLen(rem) \in Nat /\ ReadMax \in Nat
      BY SizesAssumption DEF EncodedLen
    <3> DEFINE d == EncodedLen(rem)
    <3> HIDE DEF d, rem, q
    <3>3. \A x \in Nat, y \in Nat, z \in Nat : x > z - (1 + y) <=> 1 + y + x > z
      OBVIOUS
    <3>4. 1 + d + rem = Len(q)
      BY <2>8 DEF d
    <3>5. rem > ReadMax - (1 + d) <=> 1 + d + rem > ReadMax
      BY <1>2, <3>2, <3>3 DEF d
    <3> QED  BY <3>1, <3>4, <3>5, Zenon DEF d
  <2>11. p = Due(e)
    <3>1. Due(e) = IF Len(q) > ReadMax THEN Overflow ELSE e
      BY Zenon DEF Due
    <3>2. r = "packet" => p = e
      BY <2>8, <2>9, Zenon
    <3> HIDE DEF e, q
    <3> QED  BY <1>6, <2>10, <3>1, <3>2, Zenon
  <2> HIDE DEF m, rem, f
  <2>12. /\ Append(handled, Due(e)) \in Seq(Replies \cup {Overflow})
         /\ Aligned(rest, said, sent, Append(handled, Due(e)), sock)
    BY <1>1, <2>4, <2>8, PacketTaken
  <2> HIDE DEF e, rest, j
  <2> QED  BY <1>6, <2>11, <2>12, Zenon DEF rest, l
<1> QED  BY <1>3, <1>4, <1>5, <1>6, Zenon

LEMMA AmountsRange ==
  ASSUME NEW n \in Nat, NEW k \in Amounts(n)
  PROVE  k \in 0 .. n
<1>1. k \in {n} \/ k \in {0, 1, 2, 3, n \div 2, n - 1, n} \cap 0 .. n
  BY Zenon DEF Amounts
<1>2. n \in 0 .. n
  OBVIOUS
<1> QED  BY <1>1, <1>2, Zenon

\* Between two connections nothing is on its way.
Unlinked ==
  yielder = "yield" /\ state = "DISCONNECTED_RECONNECTING" =>
    sock = "none" /\ wire = <<>> /\ said = <<>> /\ sent = <<>> /\ handled = <<>>

ReadInv ==
  /\ env \in DOMAIN Environments
  /\ wire \in Seq(Byte) /\ said \in Seq(Byte) /\ sent \in Log(Replies)
  /\ handled \in Seq(Replies \cup {Overflow}) /\ torn \in BOOLEAN
  /\ ReadsAs(said, sent)
  /\ Unlinked
  /\ ~torn => Aligned(wire, said, sent, handled, sock)

LEMMA ReadInvIsInStep == ReadInv => InStep
<1>1. From(sent, said, Len(handled)) = Front
  BY Zenon DEF From, Front
<1> QED  BY <1>1, Zenon DEF ReadInv, InStep, Aligned

LEMMA ReadInit == WireInit => ReadInv
<1> SUFFICES ASSUME WireInit
             PROVE  ReadInv
  OBVIOUS
<1>1. /\ env \in DOMAIN Environments /\ state = "CONNECTED"
      /\ wire = <<>> /\ said = <<>> /\ sent = <<>> /\ handled = <<>> /\ torn = FALSE
  BY Zenon DEF WireInit
<1>2. ReadsAs(<<>>, <<>>) /\ Aligned(<<>>, <<>>, <<>>, <<>>, sock)
  BY AllEmpty
<1>3. <<>> \in Seq(Byte) /\ <<>> \in Log(Replies) /\ <<>> \in Seq(Replies \cup {Overflow})
  BY EmptySeq DEF Log
<1>4. Unlinked
  BY <1>1 DEF Unlinked
<1> QED  BY <1>1, <1>2, <1>3, <1>4, Zenon DEF ReadInv

(***************************************************************************)
(* The reads of iotx_mc_cycle and iotx_mc_wait_CONNACK.                    *)
(***************************************************************************)
LEMMA ConsumedStep ==
  ASSUME ReadInv, NEW k \in HAL_TCP_Read(FrontLen(wire)),
         NEW r, r = iotx_mc_read_packet(k),
         NEW p, r = "packet" => p = Deserialized(ReadBuffer(k)),
         r = "over" => p = Overflow,
         Consumed(k, r, p), UNCHANGED <<env, sock>>,
         ~(yielder' = "yield" /\ state' = "DISCONNECTED_RECONNECTING")
  PROVE  ReadInv'
<1> DEFINE rest == SubSeq(wire, k + 1, Len(wire))
           done == IF r \notin {"over", "packet"} THEN handled ELSE Append(handled, p)
<1>1. /\ env \in DOMAIN Environments
      /\ wire \in Seq(Byte) /\ said \in Seq(Byte) /\ sent \in Log(Replies)
      /\ handled \in Seq(Replies \cup {Overflow}) /\ torn \in BOOLEAN
      /\ ReadsAs(said, sent)
      /\ ~torn => Aligned(wire, said, sent, handled, sock)
  BY Zenon DEF ReadInv
<1>2. /\ wire' = rest /\ said' = said /\ sent' = sent /\ env' = env /\ sock' = sock
      /\ torn' = (torn \/ r \in {"short", "bad"})
      /\ handled' = IF torn \/ r \notin {"over", "packet"} THEN handled
                    ELSE Append(handled, p)
  BY Zenon DEF Consumed
<1>3. k \in Nat /\ k <= FrontLen(wire) /\ k <= Len(wire) /\ Len(wire) \in Nat
  <2>1. FrontLen(wire) \in 0 .. Len(wire) /\ Len(wire) \in Nat
    BY <1>1, FrontLenRange, LenProperties
  <2>2. FrontLen(wire) \in Nat
    BY <2>1
  <2>3. k \in 0 .. FrontLen(wire)
    BY <2>2, AmountsRange DEF HAL_TCP_Read
  <2> QED  BY <2>1, <2>2, <2>3
<1>4. rest \in Seq(Byte)
  <2> DEFINE a == k + 1
             l == Len(wire)
  <2>1. a \in Nat /\ l \in Nat /\ 1 <= a /\ a <= l + 1 /\ l <= Len(wire)
    BY <1>3
  <2>2. wire \in Seq(Byte)
    BY <1>1
  <2> HIDE DEF a, l, rest, done
  <2>3. SubSeq(wire, a, l) \in Seq(Byte)
    BY <2>1, <2>2, Part
  <2> QED  BY <2>3, Zenon DEF a, l, rest
<1>5. Unlinked'
  BY Zenon DEF Unlinked
<1>6. torn' \in BOOLEAN
  BY <1>2, Zenon
<1>7. CASE torn
  <2>1. torn' /\ handled' = handled
    BY <1>2, <1>7, Zenon
  <2> HIDE DEF rest
  <2> QED  BY <1>1, <1>2, <1>4, <1>5, <1>6, <2>1, Zenon DEF ReadInv
<1>8. CASE ~torn /\ r \in {"short", "bad"}
  <2>1. torn' /\ handled' = handled
    BY <1>2, <1>8
  <2> HIDE DEF rest
  <2> QED  BY <1>1, <1>2, <1>4, <1>5, <1>6, <2>1, Zenon DEF ReadInv
<1>9. CASE ~torn /\ r \notin {"short", "bad"}
  <2>1. handled' = done /\ ~torn'
    BY <1>2, <1>9, Zenon
  <2>2. /\ done \in Seq(Replies \cup {Overflow})
        /\ Aligned(rest, said, sent, done, sock)
    BY <1>1, <1>3, <1>9, AlignedRead, Zenon
  <2> HIDE DEF rest, done
  <2> QED  BY <1>1, <1>2, <1>4, <1>5, <1>6, <2>1, <2>2, Zenon DEF ReadInv
<1> QED  BY <1>7, <1>8, <1>9, Zenon

LEMMA DisconnectStep ==
  ASSUME ReadInv, Disconnect, env' = env
  PROVE  ReadInv'
<1>1. /\ sock' = "none" /\ wire' = <<>> /\ said' = <<>>
      /\ sent' = <<>> /\ handled' = <<>> /\ torn' = FALSE
  BY Zenon DEF Disconnect
<1>2. ReadsAs(<<>>, <<>>) /\ Aligned(<<>>, <<>>, <<>>, <<>>, sock')
  BY AllEmpty
<1>3. <<>> \in Seq(Byte) /\ <<>> \in Log(Replies) /\ <<>> \in Seq(Replies \cup {Overflow})
  BY EmptySeq DEF Log
<1>4. Unlinked'
  BY <1>1, Zenon DEF Unlinked
<1>5. env' \in DOMAIN Environments
  BY Zenon DEF ReadInv
<1> QED  BY <1>1, <1>2, <1>3, <1>4, <1>5, Zenon DEF ReadInv

\* Steps that leave what was said and read alone.
LEMMA QuietStep ==
  ASSUME ReadInv, UNCHANGED <<env, wire, said, sent, handled, torn, sock>>,
         \/ yielder' = yielder /\ state' \in {state, "DISCONNECTED"}
         \/ yielder' # "yield"
  PROVE  ReadInv'
<1>1. Unlinked'
  BY DEF ReadInv, Unlinked
<1> QED  BY <1>1, Zenon DEF ReadInv

LEMMA BrokerStep ==
  ASSUME ReadInv, NEW p \in Replies, BrokerSays(p)
  PROVE  ReadInv'
<1>1. /\ wire \in Seq(Byte) /\ said \in Seq(Byte) /\ sent \in Log(Replies)
      /\ handled \in Seq(Replies \cup {Overflow})
      /\ ReadsAs(said, sent)
      /\ ~torn => Aligned(wire, said, sent, handled, sock)
  BY Zenon DEF ReadInv
<1>2. /\ sock = "up" /\ sent' = Append(sent, Entry(p, said))
      /\ said' = said \o OnWire(p) /\ wire' = wire \o OnWire(p)
      /\ UNCHANGED <<env, state, yielder, sock, handled, torn>>
  BY Zenon DEF BrokerSays
<1>3. OnWire(p) \in Seq(Byte)
  BY WireBytes
<1>4. wire' \in Seq(Byte)
  BY <1>1, <1>2, <1>3, TwoJoined, Zenon
<1>5. Replies \subseteq Requests \cup Replies
  BY Zenon
<1>6. said' \in Seq(Byte) /\ sent' \in Log(Replies) /\ ReadsAs(said', sent')
  BY <1>1, <1>2, <1>5, ReadsOn, Zenon
<1>7. Unlinked'
  BY <1>2 DEF ReadInv, Unlinked
<1>8. ~torn => Aligned(wire', said', sent', handled, "up")
  BY <1>1, <1>2, PacketWritten, Zenon
<1> QED  BY <1>2, <1>4, <1>6, <1>7, <1>8, Zenon DEF ReadInv

LEMMA ConnackReply ==
  ASSUME NEW code \in {0, 5}
  PROVE  [type |-> CONNACK, code |-> code] \in Replies
<1> DEFINE p == [type |-> CONNACK, code |-> code]
<1>1. p.type = CONNACK /\ p.code = code
  OBVIOUS
<1>2. code \in Byte
  BY DEF Byte
<1>3. p \in [type : {CONNACK}, code : Byte]
  BY <1>2
<1> HIDE DEF p
<1>4. StandardBody(p) = <<0, code>>
  BY <1>1, StandardOf
<1>5. Len(StandardBody(p)) <= MaxRemaining
  BY <1>4 DEF MaxRemaining, K
<1> QED  BY <1>3, <1>5, Zenon DEF Replies, p

LEMMA ReadStep ==
  ASSUME ReadInv, [WireNext]_wireVars
  PROVE  ReadInv'
<1>1. env \in DOMAIN Environments
  BY Zenon DEF ReadInv
<1>2. ASSUME NEW p \in Env.calls, CallBegins(p)
      PROVE  ReadInv'
  <2>1. UNCHANGED <<env, wire, said, sent, handled, torn, sock>> /\ yielder' = yielder
        /\ state' = state
    BY <1>2, Zenon DEF CallBegins, stream
  <2> QED  BY <2>1, QuietStep, Zenon
<1>3. ASSUME NEW k, CallWrites(k)
      PROVE  ReadInv'
  <2>1. UNCHANGED <<env, wire, said, sent, handled, torn, sock>> /\ yielder' = yielder
        /\ state' = state
    BY <1>3, Zenon DEF CallWrites
  <2> QED  BY <2>1, QuietStep, Zenon
<1>4. CASE CallReturns
  <2>1. UNCHANGED <<env, wire, said, sent, handled, torn, sock>> /\ yielder' = yielder
        /\ state' \in {state, "DISCONNECTED"}
    BY <1>4, Zenon DEF CallReturns, stream
  <2> QED  BY <2>1, QuietStep, Zenon
<1>5. ASSUME NEW k, Ping(k)
      PROVE  ReadInv'
  <2>1. UNCHANGED <<env, wire, said, sent, handled, torn, sock>> /\ yielder' = yielder
        /\ state' \in {state, "DISCONNECTED"}
    BY <1>5, Zenon DEF Ping
  <2> QED  BY <2>1, QuietStep, Zenon
<1>6. ASSUME NEW k \in HAL_TCP_Read(FrontLen(wire)), Cycle(k)
      PROVE  ReadInv'
  <2> DEFINE r == iotx_mc_read_packet(k)
             d == IF r \in {"over", "packet"} THEN Deserialized(ReadBuffer(k)) ELSE Malformed
             p == IF r = "over" THEN Overflow ELSE d
  <2>1. /\ Consumed(k, r, p) /\ UNCHANGED <<env, sock>> /\ state = "CONNECTED"
        /\ state' = IF r = "error" THEN "DISCONNECTED" ELSE state
    BY <1>6, Zenon DEF Cycle
  <2>2. r = "packet" => p = Deserialized(ReadBuffer(k))
    <3> HIDE DEF r
    <3> QED  OBVIOUS
  <2>3. r = "over" => p = Overflow
    BY Zenon
  <2> HIDE DEF p, r
  <2>4. state' # "DISCONNECTED_RECONNECTING"
    BY <2>1
  <2> QED  BY <2>1, <2>2, <2>3, <2>4, ConsumedStep, Zenon DEF r
<1>7. CASE KeepaliveDisconnected
  BY <1>7, DisconnectStep, Zenon DEF KeepaliveDisconnected
<1>8. CASE Reconnect
  <2>1. /\ yielder = "yield" /\ state = "DISCONNECTED_RECONNECTING" /\ yielder' = "connect"
        /\ UNCHANGED <<env, wire, said, sent, handled, torn>>
    BY <1>8, Zenon DEF Reconnect, stream
  <2>2. wire = <<>> /\ said = <<>> /\ sent = <<>> /\ handled = <<>>
    BY <2>1, Zenon DEF ReadInv, Unlinked
  <2>3. Aligned(<<>>, <<>>, <<>>, <<>>, sock')
    BY AllEmpty
  <2>4. Unlinked'
    BY <2>1 DEF Unlinked
  <2>5. Aligned(wire', said', sent', handled', sock')
    BY <2>1, <2>2, <2>3, Zenon
  <2> QED  BY <2>1, <2>4, <2>5, Zenon DEF ReadInv
<1>9. ASSUME NEW k, Connect(k)
      PROVE  ReadInv'
  <2>1. \/ UNCHANGED <<env, wire, said, sent, handled, torn, sock>> /\ yielder' = "connack"
        \/ Disconnect /\ env' = env
    BY <1>9, Zenon DEF Connect
  <2>2. "connack" # "yield"
    OBVIOUS
  <2> QED  BY <2>1, <2>2, QuietStep, DisconnectStep, Zenon
<1>10. ASSUME NEW k \in HAL_TCP_Read(FrontLen(wire)), WaitConnack(k)
       PROVE  ReadInv'
  <2> DEFINE r == iotx_mc_read_packet(k)
             d == IF r = "packet" THEN Deserialized(ReadBuffer(k)) ELSE Malformed
             p == IF r = "over" THEN Overflow ELSE d
             accepted == r = "packet" /\ d = [type |-> CONNACK, code |-> 0]
             counted  == r \in {"timeout", "over"}
                           \/ (r = "packet" /\ HeaderType(wire[1]) # CONNACK)
             again == counted /\ waits < WAIT_CONNACK_MAX
  <2>1. /\ \/ (accepted \/ again) /\ Consumed(k, r, p) /\ sock' = sock
           \/ Disconnect
        /\ yielder' = IF again THEN "connack" ELSE "yield"
        /\ state' = IF accepted THEN "CONNECTED" ELSE state
        /\ env' = env
    <3> HIDE DEF r, d, p
    <3> QED  BY <1>10, Zenon DEF WaitConnack, r, d, p
  <2>2. r = "packet" => p = Deserialized(ReadBuffer(k))
    <3> HIDE DEF r
    <3> QED  OBVIOUS
  <2>3. r = "over" => p = Overflow
    BY Zenon
  <2> HIDE DEF p, r, accepted, counted, again
  <2>4. CASE Disconnect
    BY <2>1, <2>4, DisconnectStep, Zenon
  <2>5. CASE (accepted \/ again) /\ Consumed(k, r, p) /\ sock' = sock
    <3>1. again => yielder' # "yield"
      BY <2>1
    <3>2. accepted => state' # "DISCONNECTED_RECONNECTING"
      BY <2>1
    <3> QED  BY <2>1, <2>2, <2>3, <2>5, <3>1, <3>2, ConsumedStep, Zenon DEF r
  <2> QED  BY <2>1, <2>4, <2>5, Zenon
<1>11. ASSUME NEW code \in {0, 5}, BrokerConnack(code)
       PROVE  ReadInv'
  BY <1>11, ConnackReply, BrokerStep, Zenon DEF BrokerConnack
<1>12. ASSUME NEW p \in Env.packets, BrokerSends(p)
       PROVE  ReadInv'
  <2>1. p \in Replies
    BY <1>1, StandardAssumption, Zenon DEF Env
  <2> QED  BY <1>12, <2>1, BrokerStep, Zenon DEF BrokerSends
<1>13. ASSUME NEW n \in Amounts(Len(wire)), LinkCloses(n)
       PROVE  ReadInv'
  <2>1. /\ wire \in Seq(Byte) /\ said \in Seq(Byte) /\ sent \in Log(Replies)
        /\ handled \in Seq(Replies \cup {Overflow})
        /\ ReadsAs(said, sent)
        /\ ~torn => Aligned(wire, said, sent, handled, sock)
    BY Zenon DEF ReadInv
  <2>2. /\ sock = "up" /\ sock' = "down" /\ wire' = SubSeq(wire, 1, n)
        /\ UNCHANGED <<env, state, yielder, said, sent, handled, torn>>
    BY <1>13, Zenon DEF LinkCloses
  <2>3. n \in Nat /\ n <= Len(wire)
    <3>1. Len(wire) \in Nat
      BY <2>1, LenProperties
    <3> QED  BY <3>1, AmountsRange
  <2>4. SubSeq(wire, 1, n) \in Seq(Byte)
    <3>1. 1 \in Nat /\ 1 <= 1 /\ 1 <= n + 1
      BY <2>3
    <3>2. wire \in Seq(Byte)
      BY <2>1
    <3> QED  BY <2>3, <3>1, <3>2, Part
  <2>5. sock' # "up"
    BY <2>2
  <2>6. ~torn => Aligned(SubSeq(wire, 1, n), said, sent, handled, sock')
    BY <2>1, <2>3, <2>5, FrontKept, Zenon
  <2>7. Unlinked'
    BY <2>2 DEF ReadInv, Unlinked
  <2>8. wire' \in Seq(Byte) /\ (~torn' => Aligned(wire', said', sent', handled', sock'))
    BY <2>2, <2>4, <2>6, Zenon
  <2> QED  BY <2>2, <2>7, <2>8, Zenon DEF ReadInv
<1>14. CASE UNCHANGED wireVars
  <2>1. UNCHANGED <<env, wire, said, sent, handled, torn, sock>> /\ yielder' = yielder
        /\ state' = state
    BY <1>14, Zenon DEF wireVars
  <2> QED  BY <2>1, QuietStep, Zenon
<1> QED  BY <1>2, <1>3, <1>4, <1>5, <1>6, <1>7, <1>8, <1>9, <1>10, <1>11, <1>12, <1>13,
            <1>14, Zenon DEF WireNext

(***************************************************************************)
(* iotx_mc_read_packet: for any packets of the standard, buffers and       *)
(* environments, and however the bytes arrive, every packet is handled as  *)
(* it was sent, once and in order, or dropped whole if it is longer than   *)
(* the buffer, until a read ends in the middle of one.                     *)
(***************************************************************************)
THEOREM ReadsStayInStep == WireSpec => []InStep
<1>1. ReadInv /\ [WireNext]_wireVars => ReadInv'
  BY ReadStep
<1> QED  BY <1>1, ReadInit, ReadInvIsInStep, PTL DEF WireSpec

-----------------------------------------------------------------------------
(* The writes of a connection.                                             *)

WriteInv ==
  /\ out \in Seq(Byte) /\ asked \in Log(Requests)
  /\ at # "idle" => call \in Requests
  /\ RequestsWhole

LEMMA PingRequest == PingReq \in Requests
<1>1. PingReq.type = PINGREQ /\ PingReq \in [type : {PINGREQ}]
  BY DEF PingReq
<1>2. StandardBody(PingReq) = <<>>
  BY <1>1, StandardOf
<1>3. Len(StandardBody(PingReq)) <= MaxRemaining
  BY <1>2 DEF MaxRemaining, K
<1> QED  BY <1>1, <1>3, Zenon DEF Requests

LEMMA SerializedBytes ==
  ASSUME NEW p \in Requests
  PROVE  /\ Serialized(p) \in Seq(Byte) /\ Len(Serialized(p)) \in Nat
         /\ Len(Serialized(p)) > 0 => Serialized(p) = OnWire(p)
<1>1. Serialized(p) \in {<<>>, OnWire(p)}
  BY SerializedIsStandard
<1>2. OnWire(p) \in Seq(Byte) /\ Len(OnWire(p)) \in Nat
  BY WireBytes
<1>3. <<>> \in Seq(Byte) /\ Len(<<>>) \in Nat /\ ~(Len(<<>>) > 0)
  BY EmptySeq
<1> DEFINE b == Serialized(p)
           q == OnWire(p)
<1> HIDE DEF b, q
<1>4. b \in {<<>>, q} /\ q \in Seq(Byte) /\ Len(q) \in Nat
  BY <1>1, <1>2 DEF b, q
<1>5. b \in Seq(Byte) /\ Len(b) \in Nat /\ (Len(b) > 0 => b = q)
  BY <1>3, <1>4, Zenon
<1> QED  BY <1>5 DEF b, q

(***************************************************************************)
(* iotx_mc_send_packet: all of a packet, a part of it, or nothing.         *)
(***************************************************************************)
LEMMA WritesStep ==
  ASSUME out \in Seq(Byte), asked \in Log(Requests), RequestsWhole,
         NEW p \in Requests, NEW k \in HAL_TCP_Write(Len(Serialized(p))),
         NEW who, who # "none", Writes(p, Serialized(p), k, who)
  PROVE  out' \in Seq(Byte) /\ asked' \in Log(Requests) /\ RequestsWhole'
<1> DEFINE b == Serialized(p)
           n == Len(b)
<1>1. b \in Seq(Byte) /\ n \in Nat /\ (n > 0 => b = OnWire(p))
  BY SerializedBytes
<1>2. k \in Nat /\ k <= n
  <2> HIDE DEF b
  <2>1. k \in 0 .. n
    BY <1>1, AmountsRange DEF HAL_TCP_Write, b
  <2> HIDE DEF n
  <2> QED  BY <1>1, <2>1
<1>3. CASE cut # "none" \/ k = 0
  <2>1. UNCHANGED <<out, asked, cut>>
    BY <1>3, Zenon DEF Writes
  <2> QED  BY <2>1, Zenon DEF RequestsWhole
<1>4. CASE ~(cut # "none" \/ k = 0)
  <2>1. /\ out' = out \o SubSeq(b, 1, k)
        /\ asked' = IF k = n THEN Append(asked, Entry(p, out)) ELSE asked
        /\ cut' = IF k < n THEN who ELSE "none"
    BY <1>4, Zenon DEF Writes
  <2> HIDE DEF b, n
  <2>2. b = OnWire(p)
    BY <1>1, <1>2, <1>4
  <2>3. CASE k < n
    <3>1. cut' # "none" /\ asked' = asked
      BY <1>2, <2>1, <2>3
    <3>2. SubSeq(b, 1, k) \in Seq(Byte)
      <4>1. 1 \in Nat /\ 1 <= 1 /\ 1 <= k + 1 /\ k <= Len(b) /\ k \in Nat
        BY <1>2 DEF n
      <4>2. b \in Seq(Byte)
        BY <1>1
      <4> QED  BY <4>1, <4>2, Part
    <3>3. out' \in Seq(Byte)
      BY <2>1, <3>2, TwoJoined, Zenon
    <3> QED  BY <3>1, <3>3, Zenon DEF RequestsWhole
  <2>4. CASE ~(k < n)
    <3>1. k = n
      BY <1>1, <1>2, <2>4
    <3>2. SubSeq(b, 1, k) = b
      BY <1>1, <3>1, SubSeqFull, Zenon DEF n
    <3>3. out' = out \o OnWire(p) /\ asked' = Append(asked, Entry(p, out))
      BY <2>1, <2>2, <3>1, <3>2, Zenon
    <3>4. ReadsAs(out, asked) /\ Requests \subseteq Requests \cup Replies
      BY <1>4, Zenon DEF RequestsWhole
    <3>5. /\ out \o OnWire(p) \in Seq(Byte) /\ Append(asked, Entry(p, out)) \in Log(Requests)
          /\ ReadsAs(out \o OnWire(p), Append(asked, Entry(p, out)))
      BY <3>4, ReadsOn, Zenon
    <3> QED  BY <3>3, <3>5, Zenon DEF RequestsWhole
  <2> QED  BY <2>3, <2>4, Zenon
<1> QED  BY <1>3, <1>4, Zenon

\* What is taken for a message has a topic and can be acknowledged, whatever the
\* bytes.
LEMMA HandledAck ==
  ASSUME wire \in Seq(Byte), NEW k \in HAL_TCP_Read(FrontLen(wire)),
         iotx_mc_read_packet(k) \in {"over", "packet"},
         Deserialized(ReadBuffer(k)).type = PUBLISH
  PROVE  /\ [type |-> PUBACK, id |-> Deserialized(ReadBuffer(k)).id] \in Requests
         /\ Deserialized(ReadBuffer(k)).topic \in Seq(Byte)
<1> DEFINE m == LengthAt(k)
           rem == Remaining(k)
           body == SubSeq(Got(k), 2 + m, k)
<1>1. k \in Nat /\ k <= FrontLen(wire) /\ k <= Len(wire)
  <2>1. FrontLen(wire) \in 0 .. Len(wire) /\ Len(wire) \in Nat
    BY FrontLenRange, LenProperties
  <2>2. FrontLen(wire) \in Nat
    BY <2>1
  <2>3. k \in 0 .. FrontLen(wire)
    BY <2>2, AmountsRange DEF HAL_TCP_Read
  <2> QED  BY <2>1, <2>2, <2>3
<1>2. m \in Nat /\ rem \in Int
  <2> HIDE DEF body
  <2>1. m \in 0 .. 4 /\ rem \in Length
    BY <1>1, GotFacts
  <2> HIDE DEF m, rem
  <2> QED  BY <2>1 DEF Length
<1>3. k > 0 /\ m > 0 /\ 1 + m + rem <= k
  <2> HIDE DEF body
  <2>1. LET x == iotx_mc_read_packet(k)
        IN  x \in {"over", "packet"} => k > 0 /\ m > 0 /\ 1 + m + rem <= k
    BY <1>1, <1>2, ReadOutcome
  <2> HIDE DEF m, rem
  <2> QED  BY <2>1, Zenon
<1>4. /\ wire[1] \in Byte /\ body \in Seq(Byte) /\ Len(body) \in Length
      /\ ReadBuffer(k) = Framed(wire[1], body)
  BY <1>1, <1>3, WholeRead
<1> HIDE DEF body
<1>5. Deserialized(Framed(wire[1], body)).type = PUBLISH
  BY <1>4, Zenon
<1>6. /\ Deserialized(ReadBuffer(k)).id \in Word
      /\ Deserialized(ReadBuffer(k)).topic \in Seq(Byte)
  BY <1>4, <1>5, MessageRead, Zenon
<1> QED  BY <1>6, AckRequest, Zenon

LEMMA WriteStep ==
  ASSUME ReadInv, WriteInv, [WireNext]_wireVars
  PROVE  WriteInv'
<1>1. /\ env \in DOMAIN Environments /\ wire \in Seq(Byte)
      /\ out \in Seq(Byte) /\ asked \in Log(Requests) /\ RequestsWhole
      /\ at # "idle" => call \in Requests
  BY Zenon DEF ReadInv, WriteInv
<1>2. ASSUME UNCHANGED <<out, asked, cut>>, at' # "idle" => call' \in Requests
      PROVE  WriteInv'
  BY <1>1, <1>2, Zenon DEF WriteInv, RequestsWhole
<1>3. ASSUME Disconnect, UNCHANGED <<call, at>>
      PROVE  WriteInv'
  <2>1. out' = <<>> /\ asked' = <<>>
    BY <1>3, Zenon DEF Disconnect
  <2>2. ReadsAs(<<>>, <<>>) /\ <<>> \in Seq(Byte) /\ <<>> \in Log(Requests)
    BY AllEmpty, EmptySeq DEF Log
  <2> QED  BY <1>1, <1>3, <2>1, <2>2, Zenon DEF WriteInv, RequestsWhole
<1>4. ASSUME NEW p \in Requests, NEW k \in HAL_TCP_Write(Len(Serialized(p))),
             NEW who, who # "none", Writes(p, Serialized(p), k, who),
             at' # "idle" => call' \in Requests
      PROVE  WriteInv'
  <2>1. out' \in Seq(Byte) /\ asked' \in Log(Requests) /\ RequestsWhole'
    BY <1>1, <1>4, WritesStep, Zenon
  <2> QED  BY <1>4, <2>1, Zenon DEF WriteInv
<1>5. ASSUME NEW p \in Env.calls, CallBegins(p)
      PROVE  WriteInv'
  <2>1. p \in Requests
    BY <1>1, StandardAssumption, Zenon DEF Env
  <2>2. UNCHANGED <<out, asked, cut>> /\ (call' = p \/ UNCHANGED <<call, at>>)
    BY <1>5, Zenon DEF CallBegins, stream
  <2> QED  BY <1>1, <1>2, <2>1, <2>2, Zenon
<1>6. ASSUME at = "checked", NEW k \in HAL_TCP_Write(Len(Serialized(call))), CallWrites(k)
      PROVE  WriteInv'
  <2>1. call \in Requests /\ call' = call
    <3>1. at # "idle"
      BY <1>6
    <3> QED  BY <1>1, <1>6, <3>1, Zenon DEF CallWrites
  <2> DEFINE who == IF yielder = "yield" THEN "call" ELSE "early"
  <2>2. UNCHANGED <<out, asked, cut>> \/ Writes(call, Serialized(call), k, who)
    BY <1>6, Zenon DEF CallWrites
  <2>3. who # "none"
    OBVIOUS
  <2> HIDE DEF who
  <2> QED  BY <1>2, <1>4, <1>6, <2>1, <2>2, <2>3, Zenon
<1>7. CASE CallReturns
  BY <1>1, <1>2, <1>7, Zenon DEF CallReturns, stream
<1>8. ASSUME NEW k \in HAL_TCP_Write(Len(Serialized(PingReq))), Ping(k)
      PROVE  WriteInv'
  <2>1. Writes(PingReq, Serialized(PingReq), k, "call") /\ UNCHANGED <<call, at>>
    BY <1>8, Zenon DEF Ping
  <2>2. "call" # "none"
    OBVIOUS
  <2> QED  BY <1>1, <1>4, <1>8, <2>1, <2>2, PingRequest, Zenon
<1>9. ASSUME NEW k \in HAL_TCP_Read(FrontLen(wire)), Cycle(k)
      PROVE  WriteInv'
  <2> DEFINE r == iotx_mc_read_packet(k)
             d == Deserialized(ReadBuffer(k))
             p == IF r \in {"over", "packet"} THEN d ELSE Malformed
  <2>1. /\ UNCHANGED <<call, at>>
        /\ \/ UNCHANGED <<out, asked, cut>>
           \/ r \in {"over", "packet"} /\ p.type = PUBLISH /\ HandlePublish(p)
    <3> HIDE DEF r, d
    <3>1. /\ UNCHANGED caller
          /\ \/ r = "packet" /\ p.type = PUBLISH /\ HandlePublish(p)
             \/ /\ r = "over" /\ p.type = PUBLISH
                /\ HandlePublish(p) \/ UNCHANGED <<last, out, asked, cut>>
             \/ p.type # PUBLISH /\ UNCHANGED <<last, out, asked, cut>>
      BY <1>9, Zenon DEF Cycle, r, d
    <3> HIDE DEF p
    <3>2. "over" \in {"over", "packet"} /\ "packet" \in {"over", "packet"}
      OBVIOUS
    <3> QED  BY <3>1, <3>2, Zenon DEF caller
  <2>2. CASE UNCHANGED <<out, asked, cut>>
    BY <1>1, <1>2, <2>1, <2>2, Zenon
  <2>3. CASE r \in {"over", "packet"} /\ p.type = PUBLISH /\ HandlePublish(p)
    <3> DEFINE ack == [type |-> PUBACK, id |-> p.id]
    <3>1. p = d
      BY <2>3, Zenon
    <3>2. ack \in Requests
      BY <1>1, <1>9, <2>3, <3>1, HandledAck, Zenon
    <3>3. \/ UNCHANGED <<out, asked, cut>>
          \/ \E n \in HAL_TCP_Write(Len(Serialized(ack))) : Writes(ack, Serialized(ack), n, "ack")
      BY <2>3, Zenon DEF HandlePublish
    <3>4. "ack" # "none"
      OBVIOUS
    <3> HIDE DEF ack
    <3> QED  BY <1>1, <1>2, <1>4, <2>1, <3>2, <3>3, <3>4, Zenon
  <2> QED  BY <2>1, <2>2, <2>3, Zenon
<1>10. CASE KeepaliveDisconnected
  BY <1>3, <1>10, Zenon DEF KeepaliveDisconnected, caller
<1>11. CASE Reconnect
  BY <1>1, <1>2, <1>11, Zenon DEF Reconnect, stream, caller
<1>12. ASSUME NEW k \in HAL_TCP_Write(Len(Serialized(Login))), Connect(k)
       PROVE  WriteInv'
  <2>1. Login \in Requests
    BY StandardAssumption
  <2>2. /\ UNCHANGED <<call, at>>
        /\ Writes(Login, Serialized(Login), k, "early") \/ Disconnect
    BY <1>12, Zenon DEF Connect, caller
  <2>3. "early" # "none"
    OBVIOUS
  <2> QED  BY <1>1, <1>3, <1>4, <1>12, <2>1, <2>2, <2>3, Zenon
<1>13. ASSUME NEW k, WaitConnack(k)
       PROVE  WriteInv'
  <2>1. /\ UNCHANGED <<call, at>>
        /\ UNCHANGED <<out, asked, cut>> \/ Disconnect
    BY <1>13, Zenon DEF WaitConnack, caller
  <2> QED  BY <1>1, <1>2, <1>3, <2>1, Zenon
<1>14. ASSUME NEW p, BrokerSays(p)
       PROVE  WriteInv'
  BY <1>1, <1>2, <1>14, Zenon DEF BrokerSays, caller
<1>15. ASSUME NEW n, LinkCloses(n)
       PROVE  WriteInv'
  BY <1>1, <1>2, <1>15, Zenon DEF LinkCloses, caller
<1>16. CASE UNCHANGED wireVars
  BY <1>1, <1>2, <1>16, Zenon DEF wireVars
<1>17. ASSUME NEW code, BrokerConnack(code)
       PROVE  WriteInv'
  BY <1>14, <1>17, Zenon DEF BrokerConnack
<1>18. ASSUME NEW p, BrokerSends(p)
       PROVE  WriteInv'
  BY <1>14, <1>18, Zenon DEF BrokerSends
<1> QED  BY <1>5, <1>6, <1>7, <1>8, <1>9, <1>10, <1>11, <1>12, <1>13, <1>15, <1>16,
            <1>17, <1>18, Zenon DEF WireNext

LEMMA WriteInit == WireInit => WriteInv
<1> SUFFICES ASSUME WireInit
             PROVE  WriteInv
  OBVIOUS
<1>1. out = <<>> /\ asked = <<>> /\ at = "idle"
  BY Zenon DEF WireInit
<1>2. ReadsAs(<<>>, <<>>) /\ <<>> \in Seq(Byte) /\ <<>> \in Log(Requests)
  BY AllEmpty, EmptySeq DEF Log
<1> QED  BY <1>1, <1>2, Zenon DEF WriteInv, RequestsWhole

(***************************************************************************)
(* The serializers, _alloc_send_buffer and iotx_mc_send_packet: for any    *)
(* requests of the standard, buffers and environments, what the broker     *)
(* received reads as the packets that were made, in their order, until a   *)
(* write was cut short.                                                    *)
(***************************************************************************)
THEOREM RequestsReadWhole == WireSpec => []RequestsWhole
<1>1. ReadInv /\ WriteInv /\ [WireNext]_wireVars => ReadInv' /\ WriteInv'
  BY ReadStep, WriteStep
<1>2. WriteInv => RequestsWhole
  BY Zenon DEF WriteInv
<1> QED  BY <1>1, <1>2, ReadInit, WriteInit, PTL DEF WireSpec

-----------------------------------------------------------------------------
(* Loops.  The induction theorems of the library need an operator; that each *)
(* set of numbers has a least one does as well.                              *)

LEMMA LeastNumber ==
    ASSUME NEW T, T \subseteq Nat, T # {}
    PROVE  \E n \in T : \A m \in Nat : m < n => m \notin T
<1> DEFINE Less == {ss \in Nat \X Nat : ss[1] < ss[2]}
<1>1. IsWellFoundedOn(Less, Nat)
  BY NatLessThanWellFounded, Zenon DEF OpToRel
<1>2. PICK x \in T : \A y \in T : ~ (<<y, x>> \in Less)
  BY <1>1, WFMin, Zenon
<1> QED BY <1>2

\* What holds of the first number, and of each next one if it holds of the one
\* before.
LEMMA Counting ==
    ASSUME NEW N \in Nat, NEW S, 0 \in S,
           \A k \in 1 .. N : k - 1 \in S => k \in S
    PROVE  \A k \in 0 .. N : k \in S
<1> DEFINE T == {k \in Nat : k <= N /\ k \notin S}
<1>1. SUFFICES ASSUME T # {} PROVE FALSE
  OBVIOUS
<1>2. PICK n \in T : \A m \in Nat : m < n => m \notin T
  BY <1>1, LeastNumber, T \subseteq Nat, Zenon
<1>3. n \in Nat /\ n <= N /\ n # 0 /\ n \notin S
  BY <1>2
<1>4. n - 1 \in Nat /\ n - 1 < n /\ n - 1 <= N /\ n \in 1 .. N
  BY <1>3
<1>5. n - 1 \in S
  BY <1>2, <1>4
<1> QED BY <1>3, <1>4, <1>5

\* A loop that starts from v and does step[k] in its pass k.
LoopOf(g, N, V, v, step) ==
    g \in [0 .. N -> V] /\ g[0] = v /\ \A k \in 1 .. N : g[k] = step[k][g[k - 1]]

LEMMA Loop ==
    ASSUME NEW N \in Nat, NEW V, NEW v \in V, NEW step \in [1 .. N -> [V -> V]]
    PROVE  \E g : LoopOf(g, N, V, v, step)
<1> DEFINE Runs(k, g) == g[0] = v /\ \A m \in 1 .. k : g[m] = step[m][g[m - 1]]
           S == {k \in 0 .. N : \E g \in [0 .. k -> V] : Runs(k, g)}
<1>1. 0 \in S
  <2>1. [m \in 0 .. 0 |-> v] \in [0 .. 0 -> V] /\ Runs(0, [m \in 0 .. 0 |-> v])
    OBVIOUS
  <2>2. 0 \in 0 .. N
    OBVIOUS
  <2> QED BY <2>1, <2>2, Zenon
<1>2. ASSUME NEW k \in 1 .. N, k - 1 \in S
      PROVE  k \in S
  <2>1. PICK g \in [0 .. k - 1 -> V] : Runs(k - 1, g)
    BY <1>2
  <2> DEFINE h == [m \in 0 .. k |-> IF m = k THEN step[k][g[k - 1]] ELSE g[m]]
  <2>2. g[k - 1] \in V /\ step[k][g[k - 1]] \in V
    OBVIOUS
  <2>3. h \in [0 .. k -> V]
    BY <2>2
  <2>4. h[0] = v
    BY <2>1
  <2>5. ASSUME NEW m \in 1 .. k
        PROVE  h[m] = step[m][h[m - 1]]
    <3>1. CASE m = k
      BY <3>1
    <3>2. CASE m # k
      <4>1. m \in 1 .. k - 1 /\ m - 1 \in 0 .. k /\ m - 1 # k
        BY <3>2
      <4>2. g[m] = step[m][g[m - 1]]
        BY <4>1, <2>1
      <4> QED BY <3>2, <4>1, <4>2
    <3> QED BY <3>1, <3>2
  <2> HIDE DEF h
  <2> QED BY <2>3, <2>4, <2>5
<1> HIDE DEF S
<1>3. N \in S
  BY <1>1, <1>2, Counting, N \in 0 .. N, Zenon
<1> QED BY <1>3, Zenon DEF S, LoopOf
-----------------------------------------------------------------------------
(* Topics and their levels.                                                  *)

LEMMA FirstIsLeast ==
    ASSUME NEW S, S \subseteq Nat, S # {}, NEW d
    PROVE  First(S, d) \in S /\ \A j \in S : First(S, d) <= j
<1>1. PICK n \in S : \A m \in Nat : m < n => m \notin S
  BY LeastNumber, Zenon
<1>2. \A j \in S : n <= j
  BY <1>1
<1>3. \E k \in S : \A j \in S : k <= j
  BY <1>1, <1>2, Zenon
<1> QED BY <1>3, Zenon DEF First

Texts == Seq(Byte)
Lists == {s \in Seq(Texts) : s # <<>>}
Final(s) == s[Len(s)]

LEMMA LastPlace ==
    ASSUME NEW n \in Nat, n # 0
    PROVE  n \in 1 .. n /\ n - 1 \in Nat /\ n + 1 # 0 /\ \A d \in 1 .. n - 1 : d \in 1 .. n /\ d # n
OBVIOUS

LEMMA ListFacts ==
    ASSUME NEW s \in Lists
    PROVE  /\ s \in Seq(Texts) /\ Len(s) \in Nat /\ Len(s) # 0 /\ DOMAIN s = 1 .. Len(s)
           /\ Final(s) \in Texts /\ \A d \in 1 .. Len(s) : s[d] \in Texts
<1>1. s \in Seq(Texts) /\ s # <<>> /\ Len(s) \in Nat /\ DOMAIN s = 1 .. Len(s)
  BY LenProperties, Zenon DEF Lists
<1>2. Len(s) # 0
  BY <1>1, EmptySeq, Zenon
<1>3. \A d \in 1 .. Len(s) : s[d] \in Texts
  BY <1>1, ElementOfSeq, Zenon
<1>4. Final(s) \in Texts
  BY <1>1, <1>2, <1>3, LastPlace, Zenon DEF Final
<1> QED BY <1>1, <1>2, <1>3, <1>4, Zenon

LEMMA NonEmpty ==
    ASSUME NEW s \in Seq(Texts), Len(s) # 0
    PROVE  s \in Lists
BY EmptySeq, Zenon DEF Lists

LEMMA LongerBySlash ==
    ASSUME NEW s \in Lists
    PROVE  /\ Longer(s, Slash) \in Lists /\ Len(Longer(s, Slash)) = Len(s) + 1
           /\ Final(Longer(s, Slash)) = <<>>
           /\ \A d \in 1 .. Len(s) : Longer(s, Slash)[d] = s[d]
<1> DEFINE l == Append(s, <<>>)
<1>1. s \in Seq(Texts) /\ Len(s) \in Nat /\ Len(s) # 0
  BY ListFacts, Zenon
<1>2. <<>> \in Texts
  BY DEF Texts
<1>3. /\ l \in Seq(Texts) /\ Len(l) = Len(s) + 1 /\ l[Len(s) + 1] = <<>>
      /\ \A d \in 1 .. Len(s) : l[d] = s[d]
  BY <1>1, <1>2, AppendProperties
<1> HIDE DEF l
<1>4. l \in Lists /\ Final(l) = <<>>
  BY <1>1, <1>3, LastPlace, NonEmpty, Zenon DEF Final
<1>5. Longer(s, Slash) = l
  BY Zenon DEF Longer, l
<1> QED BY <1>3, <1>4, <1>5, Zenon

LEMMA LongerByOther ==
    ASSUME NEW s \in Lists, NEW c \in Byte, c # Slash
    PROVE  /\ Longer(s, c) \in Lists /\ Len(Longer(s, c)) = Len(s)
           /\ Final(Longer(s, c)) = Append(Final(s), c)
           /\ \A d \in 1 .. Len(s) - 1 : Longer(s, c)[d] = s[d]
<1> DEFINE e == Append(Final(s), c)
           l == [s EXCEPT ![Len(s)] = e]
<1>1. /\ s \in Seq(Texts) /\ Len(s) \in Nat /\ Len(s) # 0 /\ Len(s) \in 1 .. Len(s)
      /\ Final(s) \in Texts
  BY ListFacts, LastPlace, Zenon
<1>2. e \in Texts
  BY <1>1, AppendProperties, Zenon DEF Texts
<1> HIDE DEF e
<1>3. /\ l \in Seq(Texts) /\ Len(l) = Len(s)
      /\ \A d \in 1 .. Len(s) : l[d] = IF d = Len(s) THEN e ELSE s[d]
  BY <1>1, <1>2, ExceptSeq
<1> HIDE DEF l
<1>4. l \in Lists /\ Final(l) = e /\ \A d \in 1 .. Len(s) - 1 : l[d] = s[d]
  BY <1>1, <1>3, LastPlace, NonEmpty, Zenon DEF Final
<1>5. Longer(s, c) = l
  BY Zenon DEF Longer, l, e, Final
<1> QED BY <1>3, <1>4, <1>5, Zenon DEF e

\* The levels of each front of t.
FrontLevels(u, t) ==
    /\ u \in [0 .. Len(t) -> Lists]
    /\ u[0] = << <<>> >>
    /\ \A k \in 1 .. Len(t) : u[k] = Longer(u[k - 1], t[k])

LEMMA LevelsOfFronts ==
    ASSUME NEW t \in Texts
    PROVE  \E u : FrontLevels(u, t) /\ Levels(t) = u[Len(t)]
<1> DEFINE N == Len(t)
           v == << <<>> >>
           step == [k \in 1 .. N |-> [s \in Lists |-> Longer(s, t[k])]]
           Body(g) == [k \in 0 .. N |-> IF k = 0 THEN v ELSE Longer(g[k - 1], t[k])]
           u == CHOOSE g : g = Body(g)
<1>1. N \in Nat /\ \A k \in 1 .. N : t[k] \in Byte
  BY LenProperties, ElementOfSeq DEF Texts
<1>2. v \in Lists
  BY DEF Lists, Texts
<1> HIDE DEF v
<1>3. \A s \in Lists : \A c \in Byte : Longer(s, c) \in Lists
  BY LongerBySlash, LongerByOther, Zenon
<1>4. step \in [1 .. N -> [Lists -> Lists]]
  <2> HIDE DEF N
  <2> QED BY <1>1, <1>3
<1>5. PICK g : LoopOf(g, N, Lists, v, step)
  <2> HIDE DEF step, N
  <2> QED BY <1>1, <1>2, <1>4, Loop, Zenon
<1>6. ASSUME NEW k \in 1 .. N
      PROVE  k \in 0 .. N /\ k - 1 \in 0 .. N /\ k # 0
  BY <1>1
<1>7. 0 \in 0 .. N /\ N \in 0 .. N /\ \A k \in 0 .. N : k # 0 => k \in 1 .. N
  BY <1>1
<1> HIDE DEF N
<1>8. g = Body(g)
  <2>1. g \in [0 .. N -> Lists]
    BY <1>5, Zenon DEF LoopOf
  <2>2. ASSUME NEW k \in 0 .. N
        PROVE  g[k] = IF k = 0 THEN v ELSE Longer(g[k - 1], t[k])
    <3>1. CASE k = 0
      BY <1>5, <3>1, Zenon DEF LoopOf
    <3>2. CASE k # 0
      <4>1. k \in 1 .. N /\ g[k - 1] \in Lists
        BY <1>6, <1>7, <2>1, <3>2, Zenon
      <4>2. g[k] = step[k][g[k - 1]]
        BY <1>5, <4>1, Zenon DEF LoopOf
      <4> QED BY <3>2, <4>1, <4>2, Zenon
    <3> QED BY <3>1, <3>2
  <2> QED BY <2>1, <2>2, Zenon
<1>9. u = Body(u)
  BY <1>8, Zenon
<1>10. Levels(t) = u[N]
  BY Zenon DEF Levels, u, v, N
<1> HIDE DEF u
<1>11. u[0] = v /\ \A k \in 1 .. N : u[k] = Longer(u[k - 1], t[k])
  BY <1>6, <1>7, <1>9, Zenon
<1>12. \A k \in 0 .. N : u[k] \in Lists
  <2> DEFINE S == {k \in 0 .. N : u[k] \in Lists}
  <2>1. 0 \in S
    BY <1>2, <1>7, <1>11, Zenon
  <2>2. ASSUME NEW k \in 1 .. N, k - 1 \in S
        PROVE  k \in S
    BY <1>1, <1>3, <1>6, <1>11, <2>2, Zenon
  <2> HIDE DEF S
  <2>3. \A k \in 0 .. N : k \in S
    BY <1>1, <2>1, <2>2, Counting, Zenon
  <2> QED BY <2>3, Zenon DEF S
<1>13. u \in [0 .. N -> Lists]
  BY <1>9, <1>12, Zenon
<1>14. FrontLevels(u, t)
  BY <1>11, <1>13, Zenon DEF FrontLevels, v, N
<1> QED BY <1>10, <1>14, Zenon DEF N

\* The list q goes on where p ends.
Begins(p, q) ==
    /\ Len(p) <= Len(q) /\ \A d \in 1 .. Len(p) - 1 : p[d] = q[d]
    /\ Len(Final(p)) <= Len(q[Len(p)])
    /\ \A x \in 1 .. Len(Final(p)) : Final(p)[x] = q[Len(p)][x]

LEMMA BeginsItself ==
    ASSUME NEW p \in Lists
    PROVE  Begins(p, p)
<1>1. Len(p) \in Nat /\ Len(Final(p)) \in Nat
  BY ListFacts, LenProperties, Zenon DEF Texts
<1>2. Len(p) <= Len(p) /\ Len(Final(p)) <= Len(Final(p))
  BY <1>1
<1> QED BY <1>2, Zenon DEF Begins, Final

LEMMA BeginsSooner ==
    ASSUME NEW p \in Lists, NEW q \in Lists, NEW c \in Byte, Begins(Longer(p, c), q)
    PROVE  Begins(p, q)
<1> DEFINE l == Longer(p, c)
           n == Len(p)
           f == Final(p)
<1>1. n \in Nat /\ n # 0 /\ Len(q) \in Nat /\ f \in Texts /\ Len(f) \in Nat
  BY ListFacts, LenProperties, Zenon DEF Texts
<1>2. n \in 1 .. n /\ \A d \in 1 .. n - 1 : d \in 1 .. n
  BY <1>1, LastPlace, Zenon
<1>3. CASE c = Slash
  <2>1. Len(l) = n + 1 /\ \A d \in 1 .. n : l[d] = p[d]
    BY <1>3, LongerBySlash, Zenon
  <2>2. \A d \in 1 .. (n + 1) - 1 : l[d] = q[d]
    BY <2>1, Zenon DEF Begins
  <2>3. n + 1 <= Len(q)
    BY <2>1, Zenon DEF Begins
  <2> HIDE DEF l, n
  <2>4. (n + 1) - 1 = n /\ n <= Len(q)
    BY <1>1, <2>3
  <2>5. \A d \in 1 .. n : p[d] = q[d]
    BY <2>1, <2>2, <2>4, Zenon
  <2>6. q[n] = f /\ Len(f) <= Len(f)
    <3>1. Len(f) <= Len(f)
      BY <1>1
    <3> QED BY <1>2, <2>5, <3>1, Zenon DEF Final, n
  <2> QED BY <1>2, <2>4, <2>5, <2>6, Zenon DEF Begins, n
<1>4. CASE c # Slash
  <2>1. Len(l) = n /\ Final(l) = Append(f, c) /\ \A d \in 1 .. n - 1 : l[d] = p[d]
    BY <1>4, LongerByOther, Zenon
  <2>2. /\ Len(Append(f, c)) = Len(f) + 1
        /\ \A x \in 1 .. Len(f) : x \in 1 .. Len(f) + 1 /\ Append(f, c)[x] = f[x]
    <3> HIDE DEF f
    <3>1. /\ Len(Append(f, c)) = Len(f) + 1
          /\ \A x \in 1 .. Len(f) : Append(f, c)[x] = f[x]
      BY <1>1, AppendProperties DEF Texts
    <3>2. \A x \in 1 .. Len(f) : x \in 1 .. Len(f) + 1
      BY <1>1
    <3> QED BY <3>1, <3>2, Zenon
  <2> HIDE DEF l, n, f
  <2>3. /\ n <= Len(q) /\ \A d \in 1 .. n - 1 : p[d] = q[d]
        /\ Len(f) + 1 <= Len(q[n]) /\ \A x \in 1 .. Len(f) : f[x] = q[n][x]
    BY <2>1, <2>2, Zenon DEF Begins, l
  <2>4. q[n] \in Texts
    <3>1. n \in 1 .. Len(q)
      BY <1>1, <2>3
    <3> QED BY <3>1, ListFacts, Zenon
  <2>5. Len(q[n]) \in Nat
    BY <2>4, LenProperties, Zenon DEF Texts
  <2>6. Len(f) <= Len(q[n])
    BY <1>1, <2>3, <2>5
  <2> QED BY <2>3, <2>6, Zenon DEF Begins, n, f
<1> QED BY <1>3, <1>4

LEMMA FrontsBegin ==
    ASSUME NEW t \in Texts, NEW u, FrontLevels(u, t)
    PROVE  \A k \in 0 .. Len(t) : Begins(u[k], u[Len(t)])
<1> DEFINE N == Len(t)
           S == {k \in 0 .. N : Begins(u[N - k], u[N])}
<1>1. N \in Nat /\ \A k \in 1 .. N : t[k] \in Byte
  BY LenProperties, ElementOfSeq DEF Texts
<1>2. u \in [0 .. N -> Lists] /\ \A k \in 1 .. N : u[k] = Longer(u[k - 1], t[k])
  BY Zenon DEF FrontLevels
<1> HIDE DEF N
<1>3. 0 \in S
  <2>1. N - 0 = N /\ N \in 0 .. N /\ 0 \in 0 .. N
    BY <1>1
  <2> QED BY <1>2, <2>1, BeginsItself, Zenon
<1>4. ASSUME NEW k \in 1 .. N, k - 1 \in S
      PROVE  k \in S
  <2>1. /\ k \in 0 .. N /\ N - k \in 0 .. N /\ N \in 0 .. N
        /\ N - (k - 1) \in 1 .. N /\ (N - (k - 1)) - 1 = N - k
    BY <1>1
  <2>2. Begins(Longer(u[N - k], t[N - (k - 1)]), u[N])
    BY <1>2, <1>4, <2>1, Zenon
  <2>3. Begins(u[N - k], u[N])
    BY <1>1, <1>2, <2>1, <2>2, BeginsSooner, Zenon
  <2> QED BY <2>1, <2>3, Zenon
<1>5. ASSUME NEW k \in 0 .. N
      PROVE  Begins(u[k], u[N])
  <2>1. N - k \in 0 .. N /\ N - (N - k) = k
    BY <1>1
  <2> HIDE DEF S
  <2>2. N - k \in S
    BY <1>1, <1>3, <1>4, <2>1, Counting, Zenon
  <2>3. Begins(u[N - (N - k)], u[N])
    BY <2>2, Zenon DEF S
  <2> QED BY <2>1, <2>3, Zenon
<1> QED BY <1>5, Zenon DEF N

\* After k characters of t: how many levels have begun, and what there is of the
\* last one.
Fronts(t)   == CHOOSE u : FrontLevels(u, t) /\ Levels(t) = u[Len(t)]
Depth(t, k) == Len(Fronts(t)[k])
Begun(t, k) == Final(Fronts(t)[k])

LEMMA Places ==
    ASSUME NEW t \in Texts
    PROVE  /\ Len(t) \in Nat /\ \A k \in 1 .. Len(t) : t[k] \in Byte
           /\ 0 \in 0 .. Len(t) /\ Len(t) \in 0 .. Len(t)
           /\ \A k \in 1 .. Len(t) : k \in 0 .. Len(t) /\ k - 1 \in 0 .. Len(t)
<1>1. Len(t) \in Nat /\ \A k \in 1 .. Len(t) : t[k] \in Byte
  BY LenProperties, ElementOfSeq DEF Texts
<1>2. 0 \in 0 .. Len(t) /\ Len(t) \in 0 .. Len(t)
  BY <1>1
<1>3. \A k \in 1 .. Len(t) : k \in 0 .. Len(t) /\ k - 1 \in 0 .. Len(t)
  BY <1>1
<1> QED BY <1>1, <1>2, <1>3, Zenon

LEMMA FrontsFacts ==
    ASSUME NEW t \in Texts
    PROVE  /\ Levels(t) \in Lists /\ Levels(t) = Fronts(t)[Len(t)]
           /\ Fronts(t)[0] = << <<>> >>
           /\ \A k \in 0 .. Len(t) : Fronts(t)[k] \in Lists /\ Begins(Fronts(t)[k], Levels(t))
           /\ \A k \in 1 .. Len(t) : Fronts(t)[k] = Longer(Fronts(t)[k - 1], t[k])
<1>1. FrontLevels(Fronts(t), t) /\ Levels(t) = Fronts(t)[Len(t)]
  BY LevelsOfFronts, Zenon DEF Fronts
<1> DEFINE u == Fronts(t)
<1> HIDE DEF u
<1>2. FrontLevels(u, t) /\ Levels(t) = u[Len(t)]
  BY <1>1, Zenon DEF u
<1>3. /\ u \in [0 .. Len(t) -> Lists] /\ u[0] = << <<>> >>
      /\ \A k \in 1 .. Len(t) : u[k] = Longer(u[k - 1], t[k])
  BY <1>2, Zenon DEF FrontLevels
<1>4. \A k \in 0 .. Len(t) : u[k] \in Lists /\ Begins(u[k], Levels(t))
  BY <1>2, <1>3, FrontsBegin, Zenon
<1>5. Levels(t) \in Lists
  BY <1>2, <1>4, Places, Zenon
<1> QED BY <1>2, <1>3, <1>4, <1>5, Zenon DEF u

LEMMA ReadAll ==
    ASSUME NEW t \in Texts
    PROVE  /\ Levels(t) \in Lists
           /\ Depth(t, 0) = 1 /\ Begun(t, 0) = <<>>
           /\ Depth(t, Len(t)) = Len(Levels(t)) /\ Begun(t, Len(t)) = Final(Levels(t))
<1>1. Len(<< <<>> >>) = 1 /\ Final(<< <<>> >>) = <<>>
  BY DEF Final
<1> QED BY <1>1, FrontsFacts, Zenon DEF Depth, Begun

LEMMA ReadSome ==
    ASSUME NEW t \in Texts, NEW k \in 0 .. Len(t)
    PROVE  /\ Depth(t, k) \in 1 .. Len(Levels(t)) /\ Begun(t, k) \in Texts
           /\ Depth(t, k) \in Nat /\ Len(Begun(t, k)) \in Nat
<1>1. Fronts(t)[k] \in Lists /\ Begins(Fronts(t)[k], Levels(t)) /\ Levels(t) \in Lists
  BY FrontsFacts, Zenon
<1>2. /\ Depth(t, k) \in Nat /\ Depth(t, k) # 0 /\ Len(Levels(t)) \in Nat
      /\ Begun(t, k) \in Texts
  BY <1>1, ListFacts, Zenon DEF Depth, Begun
<1>3. Depth(t, k) <= Len(Levels(t))
  BY <1>1, Zenon DEF Begins, Depth
<1>4. Depth(t, k) \in 1 .. Len(Levels(t))
  BY <1>2, <1>3
<1>5. Len(Begun(t, k)) \in Nat
  BY <1>2, LenProperties, Zenon DEF Texts
<1> QED BY <1>2, <1>4, <1>5, Zenon

\* A separator ends a level.
LEMMA ReadSlash ==
    ASSUME NEW t \in Texts, NEW k \in 1 .. Len(t), t[k] = Slash
    PROVE  /\ Depth(t, k) = Depth(t, k - 1) + 1 /\ Begun(t, k) = <<>>
           /\ Levels(t)[Depth(t, k - 1)] = Begun(t, k - 1)
<1> DEFINE p == Fronts(t)[k - 1]
           q == Fronts(t)[k]
           n == Len(p)
<1>1. p \in Lists /\ q = Longer(p, Slash) /\ Begins(q, Levels(t))
  BY Places, FrontsFacts, Zenon
<1> HIDE DEF p, q
<1>2. Len(q) = n + 1 /\ Final(q) = <<>> /\ \A d \in 1 .. n : q[d] = p[d]
  BY <1>1, LongerBySlash, Zenon
<1>3. n \in Nat /\ n # 0
  BY <1>1, ListFacts, Zenon
<1> HIDE DEF n
<1>4. n \in 1 .. n /\ n \in 1 .. (n + 1) - 1
  BY <1>3
<1>5. q[n] = Levels(t)[n]
  BY <1>1, <1>2, <1>4, Zenon DEF Begins
<1>6. Levels(t)[n] = Final(p)
  BY <1>2, <1>4, <1>5, Zenon DEF n, Final
<1> QED BY <1>2, <1>6, Zenon DEF n, p, q, Depth, Begun

\* Another character goes on with it.
LEMMA ReadOther ==
    ASSUME NEW t \in Texts, NEW k \in 1 .. Len(t), t[k] # Slash
    PROVE  /\ Depth(t, k) = Depth(t, k - 1) /\ Begun(t, k) = Append(Begun(t, k - 1), t[k])
           /\ Len(Begun(t, k - 1)) + 1 <= Len(Levels(t)[Depth(t, k - 1)])
           /\ Levels(t)[Depth(t, k - 1)][Len(Begun(t, k - 1)) + 1] = t[k]
           /\ \A x \in 1 .. Len(Begun(t, k - 1)) :
                Levels(t)[Depth(t, k - 1)][x] = Begun(t, k - 1)[x]
<1> DEFINE p == Fronts(t)[k - 1]
           q == Fronts(t)[k]
           b == Final(p)
           n == Len(b)
           l == Levels(t)[Len(p)]
<1>1. p \in Lists /\ q = Longer(p, t[k]) /\ Begins(q, Levels(t)) /\ t[k] \in Byte
  BY Places, FrontsFacts, Zenon
<1> HIDE DEF p, q
<1>2. Len(Longer(p, t[k])) = Len(p) /\ Final(Longer(p, t[k])) = Append(b, t[k])
  BY <1>1, LongerByOther, Zenon
<1>3. Len(q) = Len(p) /\ Final(q) = Append(b, t[k])
  BY <1>1, <1>2, Zenon
<1>4. b \in Texts
  BY <1>1, ListFacts, Zenon
<1> HIDE DEF b
<1>5. /\ Len(Append(b, t[k])) = n + 1 /\ Append(b, t[k])[n + 1] = t[k] /\ n \in Nat
      /\ \A x \in 1 .. n : Append(b, t[k])[x] = b[x]
  BY <1>1, <1>4, AppendProperties, LenProperties DEF Texts
<1>6. n + 1 <= Len(l) /\ \A x \in 1 .. n + 1 : Append(b, t[k])[x] = l[x]
  BY <1>1, <1>3, <1>5, Zenon DEF Begins
<1> HIDE DEF n
<1>7. n + 1 \in 1 .. n + 1 /\ \A x \in 1 .. n : x \in 1 .. n + 1
  BY <1>5
<1>8. l[n + 1] = t[k] /\ \A x \in 1 .. n : l[x] = b[x]
  BY <1>5, <1>6, <1>7, Zenon
<1> QED BY <1>3, <1>6, <1>8, Zenon DEF n, l, b, p, q, Depth, Begun

-----------------------------------------------------------------------------
(* A filter that is well formed, read character by character.                *)

LEMMA Characters == Plus # Slash /\ Hash # Slash /\ Plus # Hash /\ Wildcards = {Plus, Hash}
BY DEF Plus, Slash, Hash, Wildcards

LEMMA OneByte ==
    ASSUME NEW c \in Byte
    PROVE  /\ <<c>> \in Texts /\ Len(<<c>>) = 1 /\ <<c>>[1] = c /\ Append(<<>>, c) = <<c>>
           /\ \A s \in Texts : Len(s) = 1 /\ s[1] = c => s = <<c>>
BY DEF Texts

LEMMA TextFacts ==
    ASSUME NEW s \in Texts
    PROVE  /\ Len(s) \in Nat /\ DOMAIN s = 1 .. Len(s)
           /\ (Len(s) = 0 => s = <<>>) /\ \A k \in 1 .. Len(s) : s[k] \in Byte
<1>1. Len(s) \in Nat /\ DOMAIN s = 1 .. Len(s) /\ \A k \in 1 .. Len(s) : s[k] \in Byte
  BY LenProperties, ElementOfSeq, Zenon DEF Texts
<1>2. Len(s) = 0 => s = <<>>
  BY EmptySeq, Zenon DEF Texts
<1> QED BY <1>1, <1>2, Zenon

\* The level a character that is no separator stands in.
LEMMA ReadWhere ==
    ASSUME NEW t \in Texts, NEW k \in 1 .. Len(t), t[k] # Slash
    PROVE  /\ Depth(t, k - 1) \in 1 .. Len(Levels(t)) /\ Depth(t, k - 1) \in DOMAIN Levels(t)
           /\ Levels(t)[Depth(t, k - 1)] \in Texts
           /\ Len(Begun(t, k - 1)) + 1 \in DOMAIN Levels(t)[Depth(t, k - 1)]
           /\ Levels(t)[Depth(t, k - 1)] # Begun(t, k - 1)
           /\ Levels(t)[Depth(t, k - 1)] # <<>>
<1> DEFINE l == Levels(t)[Depth(t, k - 1)]
           b == Begun(t, k - 1)
<1>1. k - 1 \in 0 .. Len(t)
  BY Places, Zenon
<1>2. /\ Depth(t, k - 1) \in 1 .. Len(Levels(t)) /\ b \in Texts /\ Len(b) \in Nat
      /\ Levels(t) \in Lists
  BY <1>1, ReadSome, ReadAll, Zenon
<1>3. Depth(t, k - 1) \in DOMAIN Levels(t) /\ l \in Texts
  BY <1>2, ListFacts, Zenon
<1>4. Len(b) + 1 <= Len(l)
  BY ReadOther, Zenon
<1> HIDE DEF l, b
<1>5. DOMAIN l = 1 .. Len(l) /\ Len(l) \in Nat
  BY <1>3, TextFacts, Zenon
<1>6. Len(b) + 1 \in 1 .. Len(l) /\ Len(l) # Len(b) /\ Len(l) # 0
  BY <1>2, <1>4, <1>5
<1>7. Len(<<>>) = 0
  OBVIOUS
<1> QED BY <1>2, <1>3, <1>5, <1>6, <1>7, Zenon DEF l, b

LEMMA WildcardAlone ==
    ASSUME NEW f \in Texts, WellFormedFilter(f), NEW i \in 1 .. Len(f), f[i] \in Wildcards
    PROVE  /\ f[i] # Slash /\ Depth(f, i) = Depth(f, i - 1)
           /\ Begun(f, i - 1) = <<>> /\ Begun(f, i) = <<f[i]>>
           /\ Levels(f)[Depth(f, i - 1)] = <<f[i]>>
<1> DEFINE l == Levels(f)[Depth(f, i - 1)]
           b == Begun(f, i - 1)
<1>1. f[i] # Slash /\ f[i] \in Byte
  BY Characters, Places, Zenon
<1>2. /\ Depth(f, i) = Depth(f, i - 1) /\ Begun(f, i) = Append(b, f[i])
      /\ l[Len(b) + 1] = f[i]
  BY <1>1, ReadOther, Zenon
<1>3. /\ l \in Texts /\ Len(b) + 1 \in DOMAIN l /\ Depth(f, i - 1) \in DOMAIN Levels(f)
  BY <1>1, ReadWhere, Zenon
<1>4. b \in Texts /\ Len(b) \in Nat
  BY Places, ReadSome, Zenon
<1>5. Len(l) = 1
  BY <1>2, <1>3, Zenon DEF WellFormedFilter, HasWildcard
<1> HIDE DEF l, b
<1>6. Len(b) + 1 \in 1 .. 1
  BY <1>3, <1>5, TextFacts, Zenon
<1>7. Len(b) = 0
  BY <1>4, <1>6
<1>8. b = <<>> /\ 0 + 1 = 1
  BY <1>4, <1>7, TextFacts
<1>9. l[1] = f[i]
  BY <1>2, <1>7, <1>8
<1>10. l = <<f[i]>> /\ Append(b, f[i]) = <<f[i]>>
  BY <1>1, <1>3, <1>5, <1>8, <1>9, OneByte, Zenon
<1> QED BY <1>1, <1>2, <1>8, <1>10, Zenon DEF l, b

LEMMA WildcardEndsLevel ==
    ASSUME NEW f \in Texts, WellFormedFilter(f), NEW i \in 1 .. Len(f), f[i] # Slash
    PROVE  Begun(f, i - 1) # <<Plus>> /\ Begun(f, i - 1) # <<Hash>>
<1> DEFINE l == Levels(f)[Depth(f, i - 1)]
           b == Begun(f, i - 1)
<1> SUFFICES ASSUME NEW w \in Wildcards, b = <<w>> PROVE FALSE
  BY Characters, Zenon
<1>1. /\ Len(b) + 1 \in DOMAIN l /\ Depth(f, i - 1) \in DOMAIN Levels(f) /\ l \in Texts
  BY ReadWhere, Zenon
<1>2. \A x \in 1 .. Len(b) : l[x] = b[x]
  BY ReadOther, Zenon
<1>3. w \in Byte
  BY DEF Wildcards, Plus, Hash, Byte
<1>4. Len(b) = 1 /\ b[1] = w
  BY <1>3, OneByte, Zenon
<1> HIDE DEF b
<1>5. 1 \in 1 .. 1 /\ 1 + 1 = 2
  OBVIOUS
<1>6. l[1] = w /\ 2 \in DOMAIN l
  BY <1>1, <1>2, <1>4, <1>5, Zenon
<1>7. DOMAIN l = 1 .. Len(l) /\ Len(l) \in Nat
  BY <1>1, TextFacts, Zenon
<1> HIDE DEF l
<1>8. 1 \in DOMAIN l /\ Len(l) # 1
  BY <1>6, <1>7
<1> QED BY <1>1, <1>6, <1>8, Zenon DEF l, WellFormedFilter, HasWildcard

LEMMA HashIsLast ==
    ASSUME NEW f \in Texts, WellFormedFilter(f), NEW i \in 1 .. Len(f), f[i] = Hash
    PROVE  i = Len(f)
<1> SUFFICES ASSUME i # Len(f) PROVE FALSE
  OBVIOUS
<1>1. Len(f) \in Nat /\ Levels(f) \in Lists
  BY Places, ReadAll, Zenon
<1>2. i + 1 \in 1 .. Len(f) /\ (i + 1) - 1 = i /\ i + 1 \in 0 .. Len(f) /\ i \in 0 .. Len(f)
  BY <1>1
<1>3. f[i] \in Wildcards
  BY Characters, Zenon
<1>4. /\ Depth(f, i) = Depth(f, i - 1) /\ Begun(f, i) = <<Hash>>
      /\ Levels(f)[Depth(f, i)] = <<Hash>>
  BY <1>3, WildcardAlone, Zenon
<1>5. f[i + 1] = Slash
  BY <1>2, <1>4, WildcardEndsLevel, Zenon
<1>6. Depth(f, i) \in 1 .. Len(Levels(f))
  BY <1>2, ReadSome, Zenon
<1>7. DOMAIN Levels(f) = 1 .. Len(Levels(f)) /\ Len(Levels(f)) \in Nat
  BY <1>1, ListFacts, Zenon
<1>8. Depth(f, i) = Len(Levels(f))
  BY <1>4, <1>6, <1>7, Zenon DEF WellFormedFilter
<1>9. Depth(f, i + 1) = Depth(f, i) + 1
  BY <1>2, <1>5, ReadSlash, Zenon
<1>10. Depth(f, i + 1) \in 1 .. Len(Levels(f))
  BY <1>2, ReadSome, Zenon
<1> HIDE DEF Levels
<1> QED BY <1>7, <1>8, <1>9, <1>10

-----------------------------------------------------------------------------
(* The loop of iotx_mc_is_topic_matched.                                     *)

\* No new level begins before the next separator.
LEMMA SameLevel ==
    ASSUME NEW t \in Texts, NEW i \in 1 .. Len(t), NEW e \in i .. Len(t),
           \A k \in i .. e : t[k] # Slash
    PROVE  Depth(t, e) = Depth(t, i - 1)
<1> DEFINE N == e - i + 1
           S == {k \in 0 .. N : Depth(t, i - 1 + k) = Depth(t, i - 1)}
<1>1. Len(t) \in Nat
  BY Places, Zenon
<1>2. N \in Nat /\ 0 \in 0 .. N /\ N \in 0 .. N /\ i - 1 + 0 = i - 1 /\ i - 1 + N = e
  BY <1>1
<1>3. 0 \in S
  BY <1>2, Zenon
<1>4. ASSUME NEW k \in 1 .. N, k - 1 \in S
      PROVE  k \in S
  <2>1. /\ k \in 0 .. N /\ i - 1 + k \in i .. e /\ i - 1 + k \in 1 .. Len(t)
        /\ (i - 1 + k) - 1 = i - 1 + (k - 1)
    BY <1>1
  <2>2. Depth(t, i - 1 + k) = Depth(t, (i - 1 + k) - 1)
    BY <2>1, ReadOther, Zenon
  <2> QED BY <1>4, <2>1, <2>2, Zenon
<1>5. N \in S
  BY <1>2, <1>3, <1>4, Counting, Zenon
<1> QED BY <1>2, <1>5, Zenon

LEMMA PlusStops ==
    ASSUME NEW n \in Texts, NEW j \in 1 .. Len(n), n[j] # Slash
    PROVE  /\ LevelEnd(n, j) \in j .. Len(n) /\ LevelEnd(n, j) + 1 \in 1 .. Len(n) + 1
           /\ LevelEnd(n, j) + 1 # 0 /\ (LevelEnd(n, j) + 1) - 1 = LevelEnd(n, j)
           /\ LevelEnd(n, j) + 1 = Len(n) + 1 \/ n[LevelEnd(n, j) + 1] = Slash
           /\ Depth(n, LevelEnd(n, j)) = Depth(n, j - 1)
<1> DEFINE S == {k \in j + 1 .. Len(n) : n[k] = Slash}
           g == First(S, Len(n) + 1)
           e == LevelEnd(n, j)
           Stops == /\ e \in j .. Len(n) /\ (e + 1 = Len(n) + 1 \/ n[e + 1] = Slash)
                    /\ \A k \in j .. e : n[k] # Slash
<1>1. Len(n) \in Nat /\ S \subseteq Nat
  <2>1. Len(n) \in Nat
    BY Places, Zenon
  <2>2. \A k \in j + 1 .. Len(n) : k \in Nat
    BY <2>1
  <2> QED BY <2>1, <2>2, Zenon
<1>2. e = g - 1
  BY Zenon DEF LevelEnd
<1>3. Stops
  <2>1. CASE S = {}
    <3>1. g = Len(n) + 1
      BY <2>1, Zenon DEF First
    <3> HIDE DEF g, e
    <3>2. e \in j .. Len(n) /\ e + 1 = Len(n) + 1
      BY <1>1, <1>2, <3>1
    <3>3. \A k \in j .. e : k = j \/ k \in j + 1 .. Len(n)
      BY <1>1, <3>2
    <3> QED BY <2>1, <3>2, <3>3, Zenon
  <2>2. CASE S # {}
    <3>1. g \in S /\ \A k \in S : g <= k
      BY <1>1, <2>2, FirstIsLeast, Zenon
    <3>2. g \in j + 1 .. Len(n) /\ n[g] = Slash
      BY <3>1, Zenon
    <3> HIDE DEF g, e
    <3>3. e \in j .. Len(n) /\ e + 1 = g
      BY <1>1, <1>2, <3>2
    <3>4. \A k \in j .. e : k = j \/ (k \in j + 1 .. Len(n) /\ ~(g <= k))
      BY <1>1, <3>2, <3>3
    <3> QED BY <3>1, <3>2, <3>3, <3>4, Zenon
  <2> QED BY <2>1, <2>2, Zenon
<1>4. Depth(n, e) = Depth(n, j - 1)
  BY <1>3, SameLevel, Zenon
<1> HIDE DEF e, S, g
<1>5. e + 1 \in 1 .. Len(n) + 1 /\ e + 1 # 0 /\ (e + 1) - 1 = e
  BY <1>1, <1>3
<1> QED BY <1>3, <1>4, <1>5, Zenon DEF e

\* Where curf is at i and curn at j: the levels that have ended match, and the one
\* that has begun so far.
Agree(f, n, i, j) ==
    /\ j \in 1 .. Len(n) + 1 /\ j - 1 \in 0 .. Len(n)
    /\ Depth(f, i) = Depth(n, j - 1)
    /\ \A d \in 1 .. Depth(f, i) - 1 : Levels(f)[d] = <<Plus>> \/ Levels(f)[d] = Levels(n)[d]
    /\ Begun(f, i) # <<Hash>>
    /\ IF Begun(f, i) = <<Plus>> THEN j = Len(n) + 1 \/ n[j] = Slash
       ELSE Begun(f, i) = Begun(n, j - 1)

\* After '#' there is nothing.
Ended(f, n, i, j) ==
    /\ i = Len(f) /\ j = Len(n) + 1
    /\ Depth(f, i) \in 1 .. Len(Levels(n))
    /\ \A d \in 1 .. Depth(f, i) - 1 : Levels(f)[d] = <<Plus>> \/ Levels(f)[d] = Levels(n)[d]
    /\ Begun(f, i) = <<Hash>>

LEMMA AgreeFirst ==
    ASSUME NEW f \in Texts, NEW n \in Texts
    PROVE  Agree(f, n, 0, 1)
<1>1. Depth(f, 0) = 1 /\ Depth(n, 0) = 1 /\ Begun(f, 0) = <<>> /\ Begun(n, 0) = <<>>
  BY ReadAll, Zenon
<1>2. Len(n) \in Nat
  BY Places, Zenon
<1>3. 1 \in 1 .. Len(n) + 1 /\ 1 - 1 = 0 /\ 0 \in 0 .. Len(n) /\ 1 .. 1 - 1 = {}
  BY <1>2
<1>4. <<>> # <<Hash>> /\ <<>> # <<Plus>>
  OBVIOUS
<1> QED BY <1>1, <1>3, <1>4, Zenon DEF Agree

\* A level ends in both.
LEMMA BothSlash ==
    ASSUME NEW f \in Texts, NEW n \in Texts, NEW i \in 1 .. Len(f), NEW j \in 1 .. Len(n),
           Agree(f, n, i - 1, j), f[i] = Slash, n[j] = Slash
    PROVE  Agree(f, n, i, j + 1)
<1> DEFINE D == Depth(f, i - 1)
<1>1. /\ Depth(f, i) = D + 1 /\ Begun(f, i) = <<>>
      /\ Levels(f)[D] = Begun(f, i - 1)
  BY ReadSlash, Zenon
<1>2. /\ Depth(n, j) = Depth(n, j - 1) + 1 /\ Begun(n, j) = <<>>
      /\ Levels(n)[Depth(n, j - 1)] = Begun(n, j - 1)
  BY ReadSlash, Zenon
<1>3. D = Depth(n, j - 1)
  BY Zenon DEF Agree
<1>4. Levels(f)[D] = <<Plus>> \/ Levels(f)[D] = Levels(n)[D]
  BY <1>1, <1>2, <1>3, Zenon DEF Agree
<1>5. i - 1 \in 0 .. Len(f) /\ j \in 0 .. Len(n)
  BY Places, Zenon
<1>6. D \in Nat
  BY <1>5, ReadSome, Zenon
<1>7. Len(n) \in Nat
  BY Places, Zenon
<1>8. j + 1 \in 1 .. Len(n) + 1 /\ (j + 1) - 1 = j
  BY <1>7
<1> HIDE DEF D
<1>9. \A d \in 1 .. (D + 1) - 1 : d = D \/ d \in 1 .. D - 1
  BY <1>6
<1>10. \A d \in 1 .. D - 1 : Levels(f)[d] = <<Plus>> \/ Levels(f)[d] = Levels(n)[d]
  BY Zenon DEF Agree, D
<1>11. \A d \in 1 .. Depth(f, i) - 1 : Levels(f)[d] = <<Plus>> \/ Levels(f)[d] = Levels(n)[d]
  BY <1>1, <1>4, <1>9, <1>10, Zenon
<1>12. Depth(f, i) = Depth(n, j)
  BY <1>1, <1>2, <1>3, Zenon
<1>13. Begun(f, i) # <<Hash>> /\ Begun(f, i) # <<Plus>> /\ Begun(f, i) = Begun(n, j)
  <2>1. <<>> # <<Hash>> /\ <<>> # <<Plus>>
    OBVIOUS
  <2> QED BY <2>1, <1>1, <1>2, Zenon
<1> QED BY <1>5, <1>8, <1>11, <1>12, <1>13, Zenon DEF Agree

LEMMA Appended ==
    ASSUME NEW s \in Texts, NEW c \in Byte, NEW w, w # c
    PROVE  Append(s, c) # <<w>>
<1> DEFINE k == Len(s) + 1
           a == Append(s, c)
<1>1. Len(a) = k /\ a[k] = c
  BY AppendProperties DEF Texts
<1> HIDE DEF a, k
<1>2. ASSUME a = <<w>> PROVE FALSE
  <2>1. Len(a) = 1 /\ a[1] = w
    BY <1>2
  <2> QED BY <1>1, <2>1, Zenon
<1> QED BY <1>2, Zenon DEF a

\* A character of both.
LEMMA BothOther ==
    ASSUME NEW f \in Texts, NEW n \in Texts, NEW i \in 1 .. Len(f), NEW j \in 1 .. Len(n),
           WellFormedFilter(f), Agree(f, n, i - 1, j),
           f[i] = n[j], f[i] # Slash, f[i] \notin Wildcards
    PROVE  Agree(f, n, i, j + 1)
<1> DEFINE b == Begun(f, i - 1)
           c == f[i]
<1>1. Depth(f, i) = Depth(f, i - 1) /\ Begun(f, i) = Append(b, c)
  BY ReadOther, Zenon
<1>2. Depth(n, j) = Depth(n, j - 1) /\ Begun(n, j) = Append(Begun(n, j - 1), n[j])
  BY ReadOther, Zenon
<1>3. b = Begun(n, j - 1)
  BY WildcardEndsLevel, Zenon DEF Agree
<1>4. b \in Texts /\ c \in Byte
  BY Places, ReadSome, Zenon
<1>5. c # Hash /\ c # Plus
  BY Characters, Zenon
<1> HIDE DEF b, c
<1>6. Append(b, c) # <<Hash>> /\ Append(b, c) # <<Plus>>
  BY <1>4, <1>5, Appended, Zenon
<1>7. Len(n) \in Nat /\ j \in 0 .. Len(n)
  BY Places, Zenon
<1>8. j + 1 \in 1 .. Len(n) + 1 /\ (j + 1) - 1 = j
  BY <1>7
<1>9. Depth(f, i) = Depth(n, j) /\ Depth(f, i - 1) = Depth(f, i)
  BY <1>1, <1>2, Zenon DEF Agree
<1>10. Begun(f, i) = Begun(n, j) /\ Begun(f, i) # <<Hash>> /\ Begun(f, i) # <<Plus>>
  BY <1>1, <1>2, <1>3, <1>6, Zenon DEF c
<1>11. \A d \in 1 .. Depth(f, i) - 1 : Levels(f)[d] = <<Plus>> \/ Levels(f)[d] = Levels(n)[d]
  BY <1>9, Zenon DEF Agree
<1> QED BY <1>7, <1>8, <1>9, <1>10, <1>11, Zenon DEF Agree

\* '+' takes the rest of the level.
LEMMA PlusTakes ==
    ASSUME NEW f \in Texts, NEW n \in Texts, NEW i \in 1 .. Len(f), NEW j \in 1 .. Len(n),
           WellFormedFilter(f), Agree(f, n, i - 1, j), f[i] = Plus, n[j] # Slash
    PROVE  Agree(f, n, i, LevelEnd(n, j) + 1)
<1> DEFINE e == LevelEnd(n, j)
<1>1. Depth(f, i) = Depth(f, i - 1) /\ Begun(f, i) = <<Plus>>
  BY Characters, WildcardAlone, Zenon
<1>2. /\ e + 1 \in 1 .. Len(n) + 1 /\ (e + 1) - 1 = e /\ e \in j .. Len(n)
      /\ e + 1 = Len(n) + 1 \/ n[e + 1] = Slash
      /\ Depth(n, e) = Depth(n, j - 1)
  BY PlusStops, Zenon
<1> HIDE DEF e
<1>3. e \in 0 .. Len(n)
  BY <1>2
<1>4. <<Plus>> # <<Hash>>
  BY DEF Plus, Hash
<1>5. Depth(f, i) = Depth(n, e)
  BY <1>1, <1>2, Zenon DEF Agree
<1>6. \A d \in 1 .. Depth(f, i) - 1 : Levels(f)[d] = <<Plus>> \/ Levels(f)[d] = Levels(n)[d]
  BY <1>1, Zenon DEF Agree
<1> QED BY <1>1, <1>2, <1>3, <1>4, <1>5, <1>6, Zenon DEF Agree, e

\* '#' takes all that is left.
LEMMA HashTakes ==
    ASSUME NEW f \in Texts, NEW n \in Texts, NEW i \in 1 .. Len(f), NEW j \in 1 .. Len(n),
           WellFormedFilter(f), Agree(f, n, i - 1, j), f[i] = Hash
    PROVE  Ended(f, n, i, Len(n) + 1)
<1>1. Depth(f, i) = Depth(f, i - 1) /\ Begun(f, i) = <<Hash>>
  BY Characters, WildcardAlone, Zenon
<1>2. i = Len(f)
  BY HashIsLast, Zenon
<1>3. Depth(f, i) \in 1 .. Len(Levels(n))
  BY <1>1, Places, ReadSome, Zenon DEF Agree
<1>4. \A d \in 1 .. Depth(f, i) - 1 : Levels(f)[d] = <<Plus>> \/ Levels(f)[d] = Levels(n)[d]
  BY <1>1, Zenon DEF Agree
<1> QED BY <1>1, <1>2, <1>3, <1>4, Zenon DEF Ended

LEMMA RoundAgrees ==
    ASSUME NEW f \in Texts, NEW n \in Texts, NEW i \in 1 .. Len(f), NEW j,
           WellFormedFilter(f), Agree(f, n, i - 1, j), Round(f, n, i, j) # 0
    PROVE  Agree(f, n, i, Round(f, n, i, j)) \/ Ended(f, n, i, Round(f, n, i, j))
<1>1. ~(j = 0 \/ j > Len(n))
  BY Zenon DEF Round
<1>2. j \in 1 .. Len(n)
  <2>1. Len(n) \in Nat /\ j \in 1 .. Len(n) + 1
    BY Places, Zenon DEF Agree
  <2> QED BY <1>1, <2>1
<1>3. n[j] = Slash => f[i] = Slash
  BY <1>1, Zenon DEF Round
<1>4. CASE f[i] = Plus
  BY <1>1, <1>2, <1>3, <1>4, Characters, PlusTakes, Zenon DEF Round
<1>5. CASE f[i] = Hash
  BY <1>1, <1>2, <1>3, <1>5, Characters, HashTakes, Zenon DEF Round
<1>6. CASE f[i] # Plus /\ f[i] # Hash
  <2>1. f[i] = n[j] /\ Round(f, n, i, j) = j + 1
    BY <1>1, <1>3, <1>6, Zenon DEF Round
  <2>2. CASE f[i] = Slash
    BY <1>2, <2>1, <2>2, BothSlash, Zenon
  <2>3. CASE f[i] # Slash
    BY <1>2, <1>6, <2>1, <2>3, Characters, BothOther, Zenon
  <2> QED BY <2>2, <2>3, Zenon
<1> QED BY <1>4, <1>5, <1>6, Zenon

\* Where curn is after each round, 0 once the loop has ended.
Rounds(f, n, g) ==
    /\ g[0] = 1 /\ \A i \in 1 .. Len(f) : g[i] = Round(f, n, i, g[i - 1])
    /\ Matched(f, n) <=> g[Len(f)] = Len(n) + 1

LEMMA RoundsOfMatched ==
    ASSUME NEW f \in Texts, NEW n \in Texts
    PROVE  \E g : Rounds(f, n, g)
<1> DEFINE N == Len(f)
           V == 0 .. Len(n) + 1
           step == [i \in 1 .. N |-> [j \in V |-> Round(f, n, i, j)]]
           Body(g) == [i \in 0 .. N |-> IF i = 0 THEN 1 ELSE Round(f, n, i, g[i - 1])]
           u == CHOOSE g : g = Body(g)
<1>1. N \in Nat /\ Len(n) \in Nat
  BY Places, Zenon
<1>2. ASSUME NEW i \in 1 .. N, NEW j \in V
      PROVE  Round(f, n, i, j) \in V
  <2>1. CASE j = 0 \/ j > Len(n)
    <3>1. Round(f, n, i, j) = 0 /\ 0 \in V
      BY <1>1, <2>1 DEF Round
    <3> QED BY <3>1, Zenon
  <2>2. CASE ~(j = 0 \/ j > Len(n))
    <3>1. j \in 1 .. Len(n)
      BY <1>1, <2>2
    <3>2. 0 \in V /\ j + 1 \in V /\ Len(n) + 1 \in V /\ \A k \in 1 .. Len(n) + 1 : k \in V
      BY <1>1, <3>1
    <3>3. n[j] # Slash => LevelEnd(n, j) + 1 \in V
      BY <3>1, <3>2, PlusStops, Zenon
    <3> HIDE DEF V
    <3>4. CASE n[j] = Slash /\ f[i] # Slash
      BY <2>2, <3>2, <3>4, Zenon DEF Round
    <3>5. CASE ~(n[j] = Slash /\ f[i] # Slash)
      BY <2>2, <3>2, <3>3, <3>5, Characters, Zenon DEF Round
    <3> QED BY <3>4, <3>5, Zenon
  <2> QED BY <2>1, <2>2, Zenon
<1>3. 1 \in V
  BY <1>1
<1> HIDE DEF V
<1>4. step \in [1 .. N -> [V -> V]]
  BY <1>2, Zenon
<1>5. PICK g : LoopOf(g, N, V, 1, step)
  BY <1>1, <1>3, <1>4, Loop, Zenon
<1>6. ASSUME NEW k \in 1 .. N
      PROVE  k \in 0 .. N /\ k - 1 \in 0 .. N /\ k # 0
  BY <1>1
<1>7. 0 \in 0 .. N /\ \A k \in 0 .. N : k # 0 => k \in 1 .. N
  BY <1>1
<1>8. Matched(f, n) <=> u[N] = Len(n) + 1
  BY Zenon DEF Matched
<1> HIDE DEF N
<1>9. g = Body(g)
  <2>1. g \in [0 .. N -> V]
    BY <1>5, Zenon DEF LoopOf
  <2>2. ASSUME NEW k \in 0 .. N
        PROVE  g[k] = IF k = 0 THEN 1 ELSE Round(f, n, k, g[k - 1])
    <3>1. CASE k = 0
      BY <1>5, <3>1, Zenon DEF LoopOf
    <3>2. CASE k # 0
      <4>1. k \in 1 .. N /\ g[k - 1] \in V
        BY <1>6, <1>7, <2>1, <3>2, Zenon
      <4>2. g[k] = step[k][g[k - 1]]
        BY <1>5, <4>1, Zenon DEF LoopOf
      <4> QED BY <3>2, <4>1, <4>2, Zenon
    <3> QED BY <3>1, <3>2, Zenon
  <2> QED BY <2>1, <2>2, Zenon
<1>10. u = Body(u)
  BY <1>9, Zenon
<1> HIDE DEF u
<1>11. u[0] = 1 /\ \A i \in 1 .. N : u[i] = Round(f, n, i, u[i - 1])
  BY <1>6, <1>7, <1>10, Zenon
<1> QED BY <1>8, <1>11, Zenon DEF Rounds, N

LEMMA RoundsAgree ==
    ASSUME NEW f \in Texts, NEW n \in Texts, NEW g, Rounds(f, n, g), WellFormedFilter(f)
    PROVE  g[Len(f)] = 0 \/ Agree(f, n, Len(f), g[Len(f)]) \/ Ended(f, n, Len(f), g[Len(f)])
<1> DEFINE N == Len(f)
           S == {i \in 0 .. N : g[i] = 0 \/ Agree(f, n, i, g[i]) \/ Ended(f, n, i, g[i])}
<1>1. N \in Nat /\ 0 \in 0 .. N /\ N \in 0 .. N /\ \A i \in 1 .. N : i \in 0 .. N
  BY Places, Zenon
<1>2. 0 \in S
  BY <1>1, AgreeFirst, Zenon DEF Rounds
<1>3. ASSUME NEW i \in 1 .. N, i - 1 \in S
      PROVE  i \in S
  <2>1. g[i] = Round(f, n, i, g[i - 1])
    BY Zenon DEF Rounds
  <2>2. i - 1 # N
    BY <1>1
  <2>3. CASE g[i - 1] = 0
    BY <1>1, <2>1, <2>3, Zenon DEF Round
  <2>4. CASE Agree(f, n, i - 1, g[i - 1])
    BY <1>1, <2>1, <2>4, RoundAgrees, Zenon
  <2>5. ~ Ended(f, n, i - 1, g[i - 1])
    BY <2>2, Zenon DEF Ended
  <2> QED BY <1>3, <2>3, <2>4, <2>5, Zenon
<1>4. N \in S
  BY <1>1, <1>2, <1>3, Counting, Zenon
<1> QED BY <1>4, Zenon

\* A filter matches, by the standard, if its levels do.
LEMMA MatchByLevels ==
    ASSUME NEW f \in Texts, NEW n \in Texts, Matched(f, n), WellFormedFilter(f)
    PROVE  StandardMatch(f, n)
<1>1. PICK g : Rounds(f, n, g)
  BY RoundsOfMatched, Zenon
<1> DEFINE i == Len(f)
           j == g[i]
           F == Levels(f)
           M == Levels(n)
<1>2. j = Len(n) + 1
  BY <1>1, Zenon DEF Rounds
<1>3. Len(n) \in Nat /\ j # 0 /\ j - 1 = Len(n)
  <2>1. Len(n) \in Nat
    BY Places, Zenon
  <2> HIDE DEF j
  <2> QED BY <1>2, <2>1
<1>4. /\ F \in Lists /\ Depth(f, i) = Len(F) /\ Begun(f, i) = F[Len(F)]
      /\ M \in Lists /\ Depth(n, Len(n)) = Len(M) /\ Begun(n, Len(n)) = M[Len(M)]
  BY ReadAll, Zenon DEF Final
<1>5. Len(F) \in Nat /\ Len(F) # 0 /\ Len(M) \in Nat
  BY <1>4, ListFacts, Zenon
<1>6. Agree(f, n, i, j) \/ Ended(f, n, i, j)
  BY <1>1, <1>3, RoundsAgree, Zenon
<1>7. CASE Ended(f, n, i, j)
  <2>1. /\ F[Len(F)] = <<Hash>> /\ Len(F) \in 1 .. Len(M)
        /\ \A d \in 1 .. Len(F) - 1 : F[d] = <<Plus>> \/ F[d] = M[d]
    BY <1>4, <1>7, Zenon DEF Ended
  <2> HIDE DEF F, M
  <2>2. Len(M) >= Len(F) - 1
    BY <1>5, <2>1
  <2> QED BY <2>1, <2>2, Zenon DEF StandardMatch, F, M
<1>8. CASE Agree(f, n, i, j)
  <2>1. /\ F[Len(F)] # <<Hash>> /\ Len(F) = Len(M)
        /\ \A d \in 1 .. Len(F) - 1 : F[d] = <<Plus>> \/ F[d] = M[d]
    BY <1>3, <1>4, <1>8, Zenon DEF Agree
  <2>2. F[Len(F)] = <<Plus>> \/ F[Len(F)] = M[Len(F)]
    BY <1>3, <1>4, <1>8, <2>1, Zenon DEF Agree
  <2> HIDE DEF F, M
  <2>3. \A d \in 1 .. Len(F) : d = Len(F) \/ d \in 1 .. Len(F) - 1
    BY <1>5
  <2>4. \A d \in 1 .. Len(F) : F[d] = <<Plus>> \/ F[d] = M[d]
    BY <2>1, <2>2, <2>3, Zenon
  <2> QED BY <2>1, <2>4, Zenon DEF StandardMatch, F, M
<1> QED BY <1>6, <1>7, <1>8, Zenon

\* A message is given to the handlers whose filters match its topic, no others.
LEMMA SoundDelivery ==
    ASSUME NEW f \in Texts, NEW n \in Texts
    PROVE  DeliverySound(f, n, Delivered(f, n))
<1> SUFFICES ASSUME WellFormedFilter(f), f = n PROVE StandardMatch(f, n)
  BY MatchByLevels, Zenon DEF DeliverySound, Delivered
<1> DEFINE F == Levels(f)
<1>1. Len(F) \in Nat
  BY ReadAll, ListFacts, Zenon
<1> HIDE DEF F
<1>2. Len(F) >= Len(F) - 1
  BY <1>1
<1> QED BY <1>2, Zenon DEF StandardMatch, F

\* The filters and topics of DeliveryComplete.
Regular(f, n) ==
    /\ WellFormedFilter(f) /\ StandardMatch(f, n)
    /\ Levels(n)[1] = <<>> /\ Levels(f)[1] = <<>>
    /\ \A k \in 2 .. Len(Levels(n)) : Levels(n)[k] # <<>>
    /\ Len(Levels(n)) >= Len(Levels(f))

\* A level of the filter and the level it stands for.
LEMMA RegularLevel ==
    ASSUME NEW f \in Texts, NEW n \in Texts, Regular(f, n),
           NEW d \in 1 .. Len(Levels(f))
    PROVE  /\ d \in 1 .. Len(Levels(n))
           /\ \/ Levels(f)[d] = <<Plus>> \/ Levels(f)[d] = Levels(n)[d]
              \/ Levels(f)[d] = <<Hash>> /\ d = Len(Levels(f))
           /\ Levels(n)[d] = <<>> => d = 1
<1> DEFINE F == Levels(f)
           M == Levels(n)
<1>1. Len(F) \in Nat /\ Len(M) \in Nat
  BY ReadAll, ListFacts, Zenon
<1>2. /\ Len(M) >= Len(F) /\ \A k \in 2 .. Len(M) : M[k] # <<>>
      /\ StandardMatch(f, n)
  BY Zenon DEF Regular
<1> HIDE DEF F, M
<1>3. d \in 1 .. Len(F)
  BY Zenon DEF F
<1>4. d \in 1 .. Len(M) /\ (d \in 1 .. Len(F) - 1 \/ d = Len(F)) /\ (d = 1 \/ d \in 2 .. Len(M))
  BY <1>1, <1>2, <1>3
<1>5. CASE F[Len(F)] = <<Hash>>
  <2>1. \A k \in 1 .. Len(F) - 1 : F[k] = <<Plus>> \/ F[k] = M[k]
    BY <1>2, <1>5, Zenon DEF StandardMatch, F, M
  <2> QED BY <1>2, <1>4, <1>5, <2>1, Zenon DEF F, M
<1>6. CASE F[Len(F)] # <<Hash>>
  <2>1. \A k \in 1 .. Len(F) : F[k] = <<Plus>> \/ F[k] = M[k]
    BY <1>2, <1>6, Zenon DEF StandardMatch, F, M
  <2> QED BY <1>2, <1>3, <1>4, <2>1, Zenon DEF F, M
<1> QED BY <1>5, <1>6, Zenon

\* A level of n that has ended with the characters read so far.
LEMMA LevelGoesOn ==
    ASSUME NEW n \in Texts, NEW j \in 1 .. Len(n) + 1, j - 1 \in 0 .. Len(n),
           Levels(n)[Depth(n, j - 1)] # Begun(n, j - 1)
    PROVE  j \in 1 .. Len(n) /\ n[j] # Slash
<1>1. Len(n) \in Nat
  BY Places, Zenon
<1>2. j # Len(n) + 1
  <2> SUFFICES ASSUME j = Len(n) + 1 PROVE FALSE
    OBVIOUS
  <2>1. j - 1 = Len(n)
    BY <1>1
  <2> QED BY <2>1, ReadAll, Zenon DEF Final
<1>3. j \in 1 .. Len(n)
  BY <1>1, <1>2
<1>4. n[j] # Slash
  BY <1>3, ReadSlash, Zenon
<1> QED BY <1>3, <1>4, Zenon

LEMMA NoBreakAtSlash ==
    ASSUME NEW f \in Texts, NEW n \in Texts, NEW i \in 1 .. Len(f), NEW j,
           Regular(f, n), Agree(f, n, i - 1, j), f[i] = Slash
    PROVE  j \in 1 .. Len(n) /\ n[j] = Slash
<1> DEFINE D == Depth(f, i - 1)
           F == Levels(f)
           M == Levels(n)
<1>1. /\ j \in 1 .. Len(n) + 1 /\ D = Depth(n, j - 1) /\ j - 1 \in 0 .. Len(n)
      /\ IF Begun(f, i - 1) = <<Plus>> THEN j = Len(n) + 1 \/ n[j] = Slash
         ELSE Begun(f, i - 1) = Begun(n, j - 1)
      /\ Begun(f, i - 1) # <<Hash>>
  BY Zenon DEF Agree
<1>2. Depth(f, i) = D + 1 /\ F[D] = Begun(f, i - 1)
  BY ReadSlash, Zenon
<1>3. D + 1 \in 1 .. Len(F) /\ D \in 1 .. Len(F)
  BY <1>2, Places, ReadSome, Zenon
<1>4. Len(F) \in Nat /\ Len(M) \in Nat /\ Len(n) \in Nat
  BY Places, ReadAll, ListFacts, Zenon
<1>5. Len(M) >= Len(F)
  BY Zenon DEF Regular
<1>6. Depth(n, Len(n)) = Len(M)
  BY ReadAll, Zenon
<1> HIDE DEF F, M, D
<1>7. j - 1 # Len(n)
  <2>1. D # Len(M)
    BY <1>3, <1>4, <1>5
  <2> QED BY <1>1, <1>6, <2>1, Zenon
<1>8. j \in 1 .. Len(n) /\ j # Len(n) + 1
  BY <1>1, <1>4, <1>7
<1>9. CASE Begun(f, i - 1) = <<Plus>>
  BY <1>1, <1>8, <1>9, Zenon
<1>10. CASE Begun(f, i - 1) # <<Plus>>
  <2>1. F[D] = M[D]
    BY <1>1, <1>2, <1>3, <1>10, RegularLevel, Zenon DEF F, M
  <2>2. M[Depth(n, j - 1)] = Begun(n, j - 1)
    BY <1>1, <1>2, <1>10, <2>1, Zenon
  <2> QED BY <1>8, <2>2, ReadWhere, Zenon DEF M
<1> QED BY <1>8, <1>9, <1>10, Zenon

LEMMA NoBreakAtOther ==
    ASSUME NEW f \in Texts, NEW n \in Texts, NEW i \in 1 .. Len(f), NEW j,
           Regular(f, n), Agree(f, n, i - 1, j), f[i] # Slash
    PROVE  /\ j \in 1 .. Len(n) /\ n[j] # Slash
           /\ f[i] \in Wildcards \/ f[i] = n[j]
<1> DEFINE D == Depth(f, i - 1)
           F == Levels(f)
           M == Levels(n)
           b == Begun(f, i - 1)
<1>1. WellFormedFilter(f) /\ F[1] = <<>>
  BY Zenon DEF Regular
<1>2. b # <<Plus>>
  BY <1>1, WildcardEndsLevel, Zenon
<1>3. /\ j \in 1 .. Len(n) + 1 /\ D = Depth(n, j - 1) /\ j - 1 \in 0 .. Len(n)
      /\ b = Begun(n, j - 1)
  BY <1>2, Zenon DEF Agree
<1>4. /\ D \in 1 .. Len(F) /\ F[D] # <<>> /\ F[D] # b /\ F[D] \in Texts
      /\ Len(b) + 1 \in DOMAIN F[D]
  BY ReadWhere, Zenon
<1>5. b \in Texts /\ Len(b) \in Nat
  BY Places, ReadSome, Zenon
<1>6. F[D][Len(b) + 1] = f[i]
  BY ReadOther, Zenon
<1>7. M[D] # <<>>
  BY <1>1, <1>4, RegularLevel, Zenon
<1> HIDE DEF F, M, D, b
<1>8. ASSUME NEW w \in Wildcards, F[D] = <<w>>
      PROVE  b = <<>> /\ f[i] = w
  <2>1. w \in Byte
    BY DEF Wildcards, Plus, Hash, Byte
  <2>2. Len(F[D]) = 1 /\ F[D][1] = w
    BY <1>8, <2>1, OneByte, Zenon
  <2>3. Len(b) + 1 \in 1 .. 1
    BY <1>4, <2>2, TextFacts, Zenon
  <2>4. Len(b) = 0 /\ Len(b) + 1 = 1
    BY <1>5, <2>3
  <2> QED BY <1>5, <1>6, <2>2, <2>4, TextFacts, Zenon
<1>9. CASE F[D] = M[D]
  <2>1. j \in 1 .. Len(n) /\ n[j] # Slash
    BY <1>3, <1>4, <1>9, LevelGoesOn, Zenon DEF M
  <2>2. M[D][Len(b) + 1] = n[j]
    BY <1>3, <2>1, ReadOther, Zenon DEF M
  <2> QED BY <1>6, <1>9, <2>1, <2>2, Zenon
<1>10. CASE F[D] # M[D]
  <2>1. \E w \in Wildcards : F[D] = <<w>>
    BY <1>4, <1>10, RegularLevel, Characters, Zenon DEF F, M
  <2>2. b = <<>> /\ f[i] \in Wildcards
    BY <1>8, <2>1, Zenon
  <2>3. j \in 1 .. Len(n) /\ n[j] # Slash
    BY <1>3, <1>7, <2>2, LevelGoesOn, Zenon DEF M
  <2> QED BY <2>2, <2>3, Zenon
<1> QED BY <1>9, <1>10, Zenon

LEMMA NoBreak ==
    ASSUME NEW f \in Texts, NEW n \in Texts, NEW i \in 1 .. Len(f), NEW j,
           Regular(f, n), Agree(f, n, i - 1, j)
    PROVE  Round(f, n, i, j) # 0
<1>1. Len(n) \in Nat
  BY Places, Zenon
<1>2. j \in 1 .. Len(n) /\ (n[j] = Slash <=> f[i] = Slash) /\ (f[i] \in Wildcards \/ f[i] = n[j])
  <2>1. CASE f[i] = Slash
    <3>1. j \in 1 .. Len(n) /\ n[j] = Slash
      BY <2>1, NoBreakAtSlash, Zenon
    <3> QED BY <2>1, <3>1, Zenon
  <2>2. CASE f[i] # Slash
    <3>1. j \in 1 .. Len(n) /\ n[j] # Slash /\ (f[i] \in Wildcards \/ f[i] = n[j])
      BY <2>2, NoBreakAtOther
    <3> QED BY <2>2, <3>1, Zenon
  <2> QED BY <2>1, <2>2, Zenon
<1>3. ~(j = 0 \/ j > Len(n)) /\ Len(n) + 1 # 0 /\ j + 1 # 0
  BY <1>1, <1>2
<1>4. ~(n[j] = Slash /\ f[i] # Slash)
  BY <1>2, Zenon
<1>5. CASE f[i] = Plus
  <2>1. LevelEnd(n, j) + 1 # 0
    BY <1>2, <1>5, Characters, PlusStops, Zenon
  <2> QED BY <1>3, <1>4, <1>5, <2>1, Zenon DEF Round
<1>6. CASE f[i] = Hash
  BY <1>3, <1>4, <1>6, Characters, Zenon DEF Round
<1>7. CASE f[i] \notin Wildcards
  <2>1. f[i] # Plus /\ f[i] # Hash /\ f[i] = n[j]
    BY <1>2, <1>7, Characters, Zenon
  <2> QED BY <1>3, <1>4, <2>1, Zenon DEF Round
<1>8. f[i] \in Wildcards => f[i] = Plus \/ f[i] = Hash
  BY DEF Wildcards
<1> QED BY <1>5, <1>6, <1>7, <1>8, Zenon

LEMMA RoundsGoOn ==
    ASSUME NEW f \in Texts, NEW n \in Texts, NEW g, Rounds(f, n, g), Regular(f, n)
    PROVE  Agree(f, n, Len(f), g[Len(f)]) \/ Ended(f, n, Len(f), g[Len(f)])
<1> DEFINE N == Len(f)
           S == {i \in 0 .. N : Agree(f, n, i, g[i]) \/ Ended(f, n, i, g[i])}
<1>1. N \in Nat /\ 0 \in 0 .. N /\ N \in 0 .. N /\ \A i \in 1 .. N : i \in 0 .. N
  BY Places, Zenon
<1>2. 0 \in S
  BY <1>1, AgreeFirst, Zenon DEF Rounds
<1>3. ASSUME NEW i \in 1 .. N, i - 1 \in S
      PROVE  i \in S
  <2>1. g[i] = Round(f, n, i, g[i - 1])
    BY Zenon DEF Rounds
  <2>2. i - 1 # N
    BY <1>1
  <2>3. Agree(f, n, i - 1, g[i - 1])
    BY <1>3, <2>2, Zenon DEF Ended
  <2>4. WellFormedFilter(f) /\ g[i] # 0
    BY <2>1, <2>3, NoBreak, Zenon DEF Regular
  <2> QED BY <1>1, <2>1, <2>3, <2>4, RoundAgrees, Zenon
<1>4. N \in S
  BY <1>1, <1>2, <1>3, Counting, Zenon
<1> QED BY <1>4, Zenon

LEMMA CompleteDelivery ==
    ASSUME NEW f \in Texts, NEW n \in Texts
    PROVE  DeliveryComplete(f, n, Delivered(f, n))
<1> SUFFICES ASSUME Regular(f, n) PROVE Matched(f, n)
  BY Zenon DEF DeliveryComplete, Delivered, Regular
<1>1. PICK g : Rounds(f, n, g)
  BY RoundsOfMatched, Zenon
<1> DEFINE j == g[Len(f)]
           F == Levels(f)
           M == Levels(n)
<1> SUFFICES j = Len(n) + 1
  BY <1>1, Zenon DEF Rounds
<1>2. Agree(f, n, Len(f), j) \/ Ended(f, n, Len(f), j)
  BY <1>1, RoundsGoOn, Zenon
<1>3. CASE Ended(f, n, Len(f), j)
  BY <1>3, Zenon DEF Ended
<1>4. CASE Agree(f, n, Len(f), j)
  <2>1. F \in Lists /\ Depth(f, Len(f)) = Len(F) /\ Begun(f, Len(f)) = F[Len(F)]
    BY ReadAll, Zenon DEF Final
  <2>2. Len(F) \in Nat /\ Len(F) # 0 /\ Len(M) \in Nat /\ Len(n) \in Nat
    BY <2>1, Places, ReadAll, ListFacts, Zenon
  <2>3. Len(F) \in 1 .. Len(F) /\ F[Len(F)] # <<Hash>>
    BY <1>4, <2>1, <2>2, LastPlace, Zenon DEF Agree
  <2>4. F[Len(F)] = <<Plus>> \/ F[Len(F)] = M[Len(F)]
    BY <2>3, RegularLevel, Zenon
  <2>5. Len(F) = Len(M)
    BY <2>3, Zenon DEF Regular, StandardMatch
  <2> SUFFICES ASSUME j # Len(n) + 1 PROVE FALSE
    OBVIOUS
  <2>6. j \in 1 .. Len(n) + 1 /\ Len(F) = Depth(n, j - 1)
    BY <1>4, <2>1, Zenon DEF Agree
  <2> HIDE DEF j, F
  <2>7. j \in 1 .. Len(n)
    BY <2>2, <2>6
  <2>8. n[j] # Slash
    <3> SUFFICES ASSUME n[j] = Slash PROVE FALSE
      OBVIOUS
    <3>1. Depth(n, j) = Depth(n, j - 1) + 1 /\ Depth(n, j) \in 1 .. Len(M)
      BY <2>7, Places, ReadSlash, ReadSome, Zenon
    <3> HIDE DEF M
    <3> QED BY <2>2, <2>5, <2>6, <3>1
  <2>9. F[Len(F)] = Begun(n, j - 1) /\ F[Len(F)] = M[Len(F)]
    BY <1>4, <2>1, <2>4, <2>7, <2>8, Zenon DEF Agree, j
  <2> QED BY <2>6, <2>7, <2>8, <2>9, ReadWhere, Zenon
<1> QED BY <1>2, <1>3, <1>4, Zenon

-----------------------------------------------------------------------------
(* The tokens of iotx_mc_check_topic.                                        *)

LEMMA FirstPlace ==
    ASSUME NEW L \in Nat, NEW i \in 1 .. L + 1, NEW P, P \subseteq i .. L
    PROVE  /\ First(P, L + 1) \in i .. L + 1
           /\ \A m \in i .. First(P, L + 1) - 1 : m \notin P
           /\ First(P, L + 1) # L + 1 => First(P, L + 1) \in P
<1> DEFINE g == First(P, L + 1)
<1>1. CASE P = {}
  <2>1. g = L + 1
    BY <1>1, Zenon DEF First
  <2> HIDE DEF g
  <2>2. g \in i .. L + 1
    BY <2>1
  <2> QED BY <1>1, <2>1, <2>2, Zenon DEF g
<1>2. CASE P # {}
  <2>1. \A m \in i .. L : m \in Nat
    OBVIOUS
  <2>2. P \subseteq Nat
    BY <2>1, Zenon
  <2>3. g \in P /\ \A m \in P : g <= m
    BY <1>2, <2>2, FirstIsLeast, Zenon
  <2>4. g \in i .. L
    BY <2>3, Zenon
  <2> HIDE DEF g
  <2>5. g \in i .. L + 1 /\ \A m \in i .. g - 1 : ~(g <= m)
    BY <2>4
  <2> QED BY <2>3, <2>5, Zenon DEF g
<1> QED BY <1>1, <1>2, Zenon

\* What is between two separators is a level.
LEMMA Segment ==
    ASSUME NEW t \in Texts, NEW b \in 1 .. Len(t), NEW e \in b + 1 .. Len(t) + 1,
           Begun(t, b - 1) = <<>>, \A m \in b .. e - 1 : t[m] # Slash,
           e = Len(t) + 1 \/ t[e] = Slash
    PROVE  \E d \in DOMAIN Levels(t) : Levels(t)[d] = SubSeq(t, b, e - 1)
<1> DEFINE N == e - b
           D == Depth(t, b - 1)
           S == {k \in 0 .. N : Depth(t, b - 1 + k) = D /\ Begun(t, b - 1 + k) = SubSeq(t, b, b - 1 + k)}
<1>1. Len(t) \in Nat
  BY Places, Zenon
<1>2. /\ N \in Nat /\ 0 \in 0 .. N /\ N \in 0 .. N /\ b - 1 + 0 = b - 1 /\ b - 1 + N = e - 1
      /\ b - 1 < b /\ b \in Int /\ b - 1 \in Int /\ e - 1 \in 0 .. Len(t)
  BY <1>1
<1>3. 0 \in S
  BY <1>2, SubSeqEmpty, Zenon
<1>4. ASSUME NEW k \in 1 .. N, k - 1 \in S
      PROVE  k \in S
  <2> DEFINE x == b - 1 + k
  <2>1. /\ k \in 0 .. N /\ x \in b .. e - 1 /\ x \in 1 .. Len(t) /\ x \in b .. Len(t)
        /\ x - 1 = b - 1 + (k - 1)
    BY <1>1
  <2>2. Depth(t, x - 1) = D /\ Begun(t, x - 1) = SubSeq(t, b, x - 1)
    BY <1>4, <2>1, Zenon
  <2> HIDE DEF x
  <2>3. Depth(t, x) = Depth(t, x - 1) /\ Begun(t, x) = Append(Begun(t, x - 1), t[x])
    BY <2>1, ReadOther, Zenon
  <2>4. SubSeq(t, b, x) = SubSeq(t, b, x - 1) \o <<t[x]>>
    BY <2>1, SubSeqRecursiveSecond, Zenon DEF Texts
  <2>5. Begun(t, x - 1) \in Texts /\ t[x] \in Byte
    BY <2>1, Places, ReadSome, Zenon
  <2>6. Append(Begun(t, x - 1), t[x]) = Begun(t, x - 1) \o <<t[x]>>
    BY <2>5, AppendIsConcat, Zenon DEF Texts
  <2>7. Begun(t, x) = SubSeq(t, b, x)
    BY <2>2, <2>3, <2>4, <2>6, Zenon
  <2> QED BY <2>1, <2>2, <2>3, <2>7, Zenon DEF x
<1>5. N \in S
  BY <1>2, <1>3, <1>4, Counting, Zenon
<1>6. Depth(t, e - 1) = D /\ Begun(t, e - 1) = SubSeq(t, b, e - 1)
  BY <1>2, <1>5, Zenon
<1>7. D \in DOMAIN Levels(t)
  <2>1. D \in 1 .. Len(Levels(t))
    BY Places, ReadSome, Zenon
  <2> QED BY <2>1, ReadAll, ListFacts, Zenon
<1>8. Levels(t)[D] = Begun(t, e - 1)
  <2>1. CASE e = Len(t) + 1
    <3>1. e - 1 = Len(t)
      BY <1>1, <2>1
    <3> QED BY <1>6, <3>1, ReadAll, Zenon DEF Final
  <2>2. CASE e # Len(t) + 1
    <3>1. e \in 1 .. Len(t)
      BY <1>1, <2>2
    <3> QED BY <1>6, <2>2, <3>1, ReadSlash, Zenon
  <2> QED BY <2>1, <2>2, Zenon
<1> QED BY <1>6, <1>7, <1>8, Zenon

\* The next token: where it begins, and where the separator after it is.
TokenBegins(t, i) == First({m \in i .. Len(t) : t[m] # Slash}, Len(t) + 1)
TokenEnds(t, b)   == First({m \in b .. Len(t) : t[m] = Slash}, Len(t) + 1)

\* What the calls of infra_strtok have taken so far of an acceptable filter.
Taken(t, type) ==
    {c \in [pos : 1 .. Len(t) + 1, toks : Seq(Texts)] :
       /\ c.pos = 1 \/ (c.toks # <<>> /\ (c.pos = Len(t) + 1 \/ t[c.pos - 1] = Slash))
       /\ \A k \in 1 .. Len(c.toks) : CheckRule(c.toks[k], type)
       /\ \A k \in 1 .. Len(c.toks) - 1 : c.toks[k] # <<Hash>>
       /\ c.toks # <<>> /\ Final(c.toks) = <<Hash>> => c.pos = Len(t) + 1}

LEMMA TokenFound ==
    ASSUME NEW t \in Texts, NEW i \in 1 .. Len(t) + 1, i = 1 \/ t[i - 1] = Slash,
           TokenBegins(t, i) <= Len(t)
    PROVE  LET b == TokenBegins(t, i)
               e == TokenEnds(t, b)
           IN  /\ b \in i .. Len(t) /\ b \in 1 .. Len(t) /\ e \in b + 1 .. Len(t) + 1
               /\ Begun(t, b - 1) = <<>> /\ \A m \in b .. e - 1 : t[m] # Slash
               /\ e = Len(t) + 1 \/ t[e] = Slash
<1> DEFINE P == {m \in i .. Len(t) : t[m] # Slash}
           b == TokenBegins(t, i)
           Q == {m \in b .. Len(t) : t[m] = Slash}
           e == TokenEnds(t, b)
<1>1. Len(t) \in Nat
  BY Places, Zenon
<1>2. b \in i .. Len(t) + 1 /\ (\A m \in i .. b - 1 : m \notin P) /\ (b # Len(t) + 1 => b \in P)
  BY <1>1, FirstPlace, Zenon DEF TokenBegins
<1> HIDE DEF b
<1>3. b \in i .. Len(t) /\ b \in 1 .. Len(t) /\ b # Len(t) + 1 /\ b \in 1 .. Len(t) + 1
  BY <1>1, <1>2 DEF b
<1>4. t[b] # Slash
  BY <1>2, <1>3, Zenon
<1>5. Begun(t, b - 1) = <<>>
  <2>1. CASE b = 1
    <3>1. b - 1 = 0
      BY <2>1
    <3> QED BY <3>1, ReadAll, Zenon
  <2>2. CASE b # 1
    <3>1. b - 1 \in 1 .. Len(t) /\ (b = i \/ (b - 1 \in i .. b - 1 /\ b - 1 \in i .. Len(t)))
      BY <1>1, <1>3, <2>2
    <3>2. t[b - 1] = Slash
      BY <1>2, <2>2, <3>1, Zenon
    <3> QED BY <3>1, <3>2, ReadSlash, Zenon
  <2> QED BY <2>1, <2>2, Zenon
<1>6. e \in b .. Len(t) + 1 /\ (\A m \in b .. e - 1 : m \notin Q) /\ (e # Len(t) + 1 => e \in Q)
  BY <1>1, <1>3, FirstPlace, Zenon DEF TokenEnds
<1> HIDE DEF e
<1>7. e # b
  BY <1>3, <1>4, <1>6, Zenon
<1>8. e \in b + 1 .. Len(t) + 1 /\ \A m \in b .. e - 1 : m \in b .. Len(t)
  BY <1>1, <1>3, <1>6, <1>7
<1> QED BY <1>3, <1>5, <1>6, <1>8, Zenon DEF b, e

Allowed(t, type) ==
    /\ WellFormedFilter(t) /\ (type = "NAME" => ~HasWildcard(t)) /\ type \in {"NAME", "FILTER"}
    /\ \A k \in DOMAIN t : t[k] \in 32 .. 126

CharactersOf(s, t) == \A k \in DOMAIN s : \E m \in DOMAIN t : s[k] = t[m]

LEMMA SegmentFacts ==
    ASSUME NEW t \in Texts, NEW b \in 1 .. Len(t), NEW e \in b + 1 .. Len(t) + 1
    PROVE  /\ SubSeq(t, b, e - 1) \in Texts /\ Len(SubSeq(t, b, e - 1)) = e - b
           /\ SubSeq(t, b, e - 1)[1] = t[b]
           /\ CharactersOf(SubSeq(t, b, e - 1), t)
<1> DEFINE s == SubSeq(t, b, e - 1)
<1>1. Len(t) \in Nat /\ DOMAIN t = 1 .. Len(t) /\ \A m \in 1 .. Len(t) : t[m] \in Byte
  BY TextFacts, Zenon
<1>2. /\ b \in Int /\ e - 1 \in Int /\ (\A m \in b .. e - 1 : m \in 1 .. Len(t)) /\ b <= e - 1
      /\ (e - 1) - b + 1 = e - b /\ e - b \in Nat /\ 1 \in 1 .. e - b /\ b + 1 - 1 = b
      /\ \A k \in 1 .. e - b : b + k - 1 \in 1 .. Len(t)
  BY <1>1
<1>3. \A m \in b .. e - 1 : t[m] \in Byte
  BY <1>1, <1>2, Zenon
<1>4. s \in Seq(Byte) /\ Len(s) = e - b /\ \A k \in 1 .. e - b : s[k] = t[b + k - 1]
  <2>1. /\ s \in Seq(Byte) /\ Len(s) = IF b <= e - 1 THEN (e - 1) - b + 1 ELSE 0
        /\ \A k \in 1 .. (e - 1) - b + 1 : s[k] = t[b + k - 1]
    BY <1>2, <1>3, SubSeqProperties
  <2> HIDE DEF s
  <2> QED BY <1>2, <2>1, Zenon
<1> HIDE DEF s
<1>5. DOMAIN s = 1 .. e - b
  BY <1>4, LenProperties, Zenon
<1>6. s[1] = t[b]
  BY <1>2, <1>4, Zenon
<1>7. CharactersOf(s, t)
  BY <1>1, <1>2, <1>4, <1>5, Zenon DEF CharactersOf
<1> QED BY <1>4, <1>6, <1>7, Zenon DEF s, Texts

LEMMA TokenChecked ==
    ASSUME NEW t \in Texts, NEW type, Allowed(t, type), NEW i \in 1 .. Len(t) + 1,
           i = 1 \/ t[i - 1] = Slash, NEW b, NEW e,
           b = TokenBegins(t, i), e = TokenEnds(t, b), b <= Len(t)
    PROVE  /\ SubSeq(t, b, e - 1) \in Texts /\ CheckRule(SubSeq(t, b, e - 1), type)
           /\ SubSeq(t, b, e - 1) = <<Hash>> => e = Len(t) + 1
           /\ e \in 1 .. Len(t) + 1 /\ (e < Len(t) => t[e] = Slash)
<1> DEFINE s == SubSeq(t, b, e - 1)
<1>1. /\ b \in 1 .. Len(t) /\ e \in b + 1 .. Len(t) + 1
      /\ Begun(t, b - 1) = <<>> /\ (\A m \in b .. e - 1 : t[m] # Slash)
      /\ e = Len(t) + 1 \/ t[e] = Slash
  BY TokenFound, Zenon
<1>2. Len(t) \in Nat
  BY Places, Zenon
<1>3. PICK d \in DOMAIN Levels(t) : Levels(t)[d] = s
  BY <1>1, Segment, Zenon
<1>4. s \in Texts /\ Len(s) = e - b /\ s[1] = t[b] /\ CharactersOf(s, t)
  BY <1>1, SegmentFacts, Zenon
<1> HIDE DEF s
<1>5. HasWildcard(s) => Len(s) = 1 /\ HasWildcard(t)
  BY <1>3, <1>4, Zenon DEF Allowed, WellFormedFilter, HasWildcard, CharactersOf
<1>6. CheckRule(s, type)
  BY <1>4, <1>5, Zenon DEF CheckRule, Allowed, CharactersOf
<1>7. ASSUME s = <<Hash>> PROVE e = Len(t) + 1
  <2>1. s[1] = Hash /\ Len(s) = 1
    BY <1>7
  <2>2. t[b] = Hash /\ WellFormedFilter(t)
    BY <1>4, <2>1, Zenon DEF Allowed
  <2>3. b = Len(t)
    BY <1>1, <2>2, HashIsLast
  <2> QED BY <1>1, <1>2, <2>3
<1>8. e \in 1 .. Len(t) + 1 /\ (e < Len(t) => e # Len(t) + 1)
  BY <1>1, <1>2
<1> QED BY <1>1, <1>4, <1>6, <1>7, <1>8, Zenon DEF s

\* What a call takes.
LEMMA CallTakes ==
    ASSUME NEW t \in Texts, NEW type, Allowed(t, type), NEW c \in Taken(t, type)
    PROVE  infra_strtok(t, c) \in Taken(t, type)
<1> DEFINE i == c.pos
           b == TokenBegins(t, i)
           e == TokenEnds(t, b)
           s == SubSeq(t, b, e - 1)
           p == IF e < Len(t) THEN e + 1 ELSE Len(t) + 1
           r == Append(c.toks, s)
<1>1. CASE Len(t) - c.pos + 1 <= 1 \/ b > Len(t)
  BY <1>1, Zenon DEF infra_strtok, TokenBegins
<1>2. CASE ~(Len(t) - c.pos + 1 <= 1 \/ b > Len(t))
  <2>1. /\ i \in 1 .. Len(t) + 1 /\ c.toks \in Seq(Texts)
        /\ i = 1 \/ (c.toks # <<>> /\ (i = Len(t) + 1 \/ t[i - 1] = Slash))
        /\ \A k \in 1 .. Len(c.toks) : CheckRule(c.toks[k], type)
        /\ \A k \in 1 .. Len(c.toks) - 1 : c.toks[k] # <<Hash>>
        /\ c.toks # <<>> /\ Final(c.toks) = <<Hash>> => i = Len(t) + 1
    BY Zenon DEF Taken
  <2>2. Len(t) \in Nat
    BY Places, Zenon
  <2>3. i # Len(t) + 1
    BY <1>2, <2>1, <2>2
  <2>4. ~(b > Len(t))
    BY <1>2, Zenon
  <2>5. b \in 1 .. Len(t) + 1
    <3> DEFINE P == {m \in i .. Len(t) : t[m] # Slash}
    <3>1. P \subseteq i .. Len(t)
      BY Zenon
    <3>2. b = First(P, Len(t) + 1)
      BY Zenon DEF TokenBegins
    <3> HIDE DEF b, P, i
    <3>3. b \in i .. Len(t) + 1
      BY <2>1, <2>2, <3>1, <3>2, FirstPlace, Zenon
    <3> QED BY <2>1, <2>2, <3>3
  <2>6. b <= Len(t)
    BY <2>2, <2>4, <2>5
  <2>7. i = 1 \/ t[i - 1] = Slash
    BY <2>1, <2>3, Zenon
  <2>8. /\ s \in Texts /\ CheckRule(s, type) /\ (s = <<Hash>> => e = Len(t) + 1)
        /\ e \in 1 .. Len(t) + 1 /\ (e < Len(t) => t[e] = Slash)
    BY <2>1, <2>6, <2>7, TokenChecked, Zenon
  <2>9. infra_strtok(t, c) = [pos |-> p, toks |-> r]
    BY <1>2, Zenon DEF infra_strtok, TokenBegins, TokenEnds
  <2> HIDE DEF b, e, s
  <2>10. p \in 1 .. Len(t) + 1 /\ (p = Len(t) + 1 \/ t[p - 1] = Slash) /\ (e = Len(t) + 1 => p = Len(t) + 1)
    <3>1. CASE e < Len(t)
      <4>1. p = e + 1 /\ p \in 1 .. Len(t) + 1 /\ p - 1 = e /\ e # Len(t) + 1
        BY <2>2, <2>8, <3>1
      <4> QED BY <2>8, <3>1, <4>1, Zenon
    <3>2. CASE ~(e < Len(t))
      <4>1. p = Len(t) + 1 /\ Len(t) + 1 \in 1 .. Len(t) + 1
        BY <2>2, <3>2
      <4> QED BY <4>1, Zenon
    <3> QED BY <3>1, <3>2, Zenon
  <2>11. /\ r \in Seq(Texts) /\ r # <<>> /\ Len(r) = Len(c.toks) + 1 /\ r[Len(c.toks) + 1] = s
         /\ \A k \in 1 .. Len(c.toks) : r[k] = c.toks[k]
    BY <2>1, <2>8, AppendProperties
  <2>12. Len(c.toks) \in Nat
    BY <2>1, LenProperties, Zenon
  <2> DEFINE n == Len(c.toks)
  <2>13. /\ \A k \in 1 .. n + 1 : k \in 1 .. n \/ k = n + 1
         /\ \A k \in 1 .. (n + 1) - 1 : k \in 1 .. n /\ (k \in 1 .. n - 1 \/ k = n)
    BY <2>12
  <2>14. c.toks = <<>> => 1 .. n = {}
    OBVIOUS
  <2> HIDE DEF p, r
  <2>15. \A k \in 1 .. Len(r) : CheckRule(r[k], type)
    BY <2>1, <2>8, <2>11, <2>13, Zenon
  <2>16. \A k \in 1 .. Len(r) - 1 : r[k] # <<Hash>>
    <3>1. c.toks # <<>> => c.toks[n] # <<Hash>>
      BY <2>1, <2>3, Zenon DEF Final
    <3> QED BY <2>1, <2>11, <2>13, <2>14, <3>1, Zenon
  <2>17. Final(r) = s
    BY <2>11, Zenon DEF Final
  <2> DEFINE x == [pos |-> p, toks |-> r]
  <2>18. x \in [pos : 1 .. Len(t) + 1, toks : Seq(Texts)] /\ x.pos = p /\ x.toks = r
    BY <2>10, <2>11, Zenon
  <2> HIDE DEF x
  <2>19. x \in Taken(t, type)
    BY <2>8, <2>10, <2>11, <2>15, <2>16, <2>17, <2>18, Zenon DEF Taken
  <2> QED BY <2>9, <2>19, Zenon DEF x
<1> QED BY <1>1, <1>2, Zenon

\* The first call takes something of a text that has a level.
LEMMA FirstCallTakes ==
    ASSUME NEW t \in Texts, t[1] = Slash, NEW m \in 1 .. Len(t), t[m] # Slash,
           NEW c, c.pos = 1, c.toks \in Seq(Texts)
    PROVE  infra_strtok(t, c).toks # <<>> /\ Len(t) # 0
<1> DEFINE b == TokenBegins(t, 1)
           e == TokenEnds(t, b)
           s == SubSeq(t, b, e - 1)
<1>1. Len(t) \in Nat
  BY Places, Zenon
<1>2. ~(Len(t) - 1 + 1 <= 1) /\ Len(t) # 0 /\ 1 \in 1 .. Len(t) + 1
  BY <1>1
<1>3. ~(b > Len(t))
  <2> DEFINE P == {k \in 1 .. Len(t) : t[k] # Slash}
  <2>1. P # {} /\ P \subseteq 1 .. Len(t)
    BY Zenon
  <2>2. b \in 1 .. Len(t) + 1 /\ \A k \in 1 .. b - 1 : k \notin P
    <3>1. b = First(P, Len(t) + 1)
      BY Zenon DEF TokenBegins
    <3> HIDE DEF b, P
    <3> QED BY <1>1, <1>2, <2>1, <3>1, FirstPlace, Zenon
  <2> HIDE DEF b
  <2>3. b > Len(t) => m \in 1 .. b - 1
    BY <1>1, <2>2
  <2> QED BY <2>2, <2>3, Zenon
<1>4. infra_strtok(t, c).toks = Append(c.toks, s)
  BY <1>2, <1>3, Zenon DEF infra_strtok, TokenBegins, TokenEnds
<1> HIDE DEF s
<1>5. Append(c.toks, s) # <<>>
  OBVIOUS
<1> QED BY <1>2, <1>4, <1>5, Zenon

LEMMA StillTaken ==
    ASSUME NEW t, NEW c, c.toks # <<>>
    PROVE  infra_strtok(t, c).toks # <<>>
<1> DEFINE b == TokenBegins(t, c.pos)
           e == TokenEnds(t, b)
           s == SubSeq(t, b, e - 1)
<1>1. infra_strtok(t, c) = c \/ infra_strtok(t, c).toks = Append(c.toks, s)
  BY Zenon DEF infra_strtok, TokenBegins, TokenEnds
<1> HIDE DEF s
<1>2. Append(c.toks, s) # <<>>
  OBVIOUS
<1> QED BY <1>1, <1>2, Zenon

LEMMA TokensTaken ==
    ASSUME NEW t \in Texts, NEW type, Allowed(t, type),
           t[1] = Slash, NEW m \in 1 .. Len(t), t[m] # Slash
    PROVE  \E c \in Taken(t, type) : c.toks # <<>> /\ Tokens(t) = c.toks
<1> DEFINE N == Len(t)
           V == Taken(t, type)
           v == [pos |-> 1, toks |-> <<>>]
           step == [k \in 1 .. N |-> [c \in V |-> infra_strtok(t, c)]]
           Body(g) == [k \in 0 .. N |-> IF k = 0 THEN v ELSE infra_strtok(t, g[k - 1])]
           u == CHOOSE g : g = Body(g)
<1>1. N \in Nat
  BY Places, Zenon
<1>2. v \in V
  <2>1. /\ 1 \in 1 .. N + 1 /\ <<>> \in Seq(Texts) /\ Len(<<>>) = 0
        /\ 1 .. 0 = {} /\ 1 .. 0 - 1 = {}
    BY <1>1
  <2>2. v \in [pos : 1 .. N + 1, toks : Seq(Texts)] /\ v.pos = 1 /\ v.toks = <<>>
    BY <2>1, Zenon
  <2> HIDE DEF v
  <2>3. v \in V
    BY <2>1, <2>2, Zenon DEF Taken
  <2> QED BY <2>3, Zenon
<1> HIDE DEF v
<1>3. \A c \in V : infra_strtok(t, c) \in V
  BY CallTakes, Zenon
<1> HIDE DEF V
<1>4. step \in [1 .. N -> [V -> V]]
  BY <1>3, Zenon
<1>5. PICK g : LoopOf(g, N, V, v, step)
  BY <1>1, <1>2, <1>4, Loop, Zenon
<1>6. ASSUME NEW k \in 1 .. N
      PROVE  k \in 0 .. N /\ k - 1 \in 0 .. N /\ k # 0
  BY <1>1
<1>7. 0 \in 0 .. N /\ N \in 0 .. N /\ \A k \in 0 .. N : k # 0 => k \in 1 .. N
  BY <1>1
<1>8. Tokens(t) = u[N].toks
  BY Zenon DEF Tokens, v
<1>9. ASSUME NEW c, c.pos = 1, c.toks \in Seq(Texts)
      PROVE  infra_strtok(t, c).toks # <<>> /\ N # 0
  BY <1>9, FirstCallTakes, Zenon
<1> HIDE DEF N
<1>10. g = Body(g)
  <2>1. g \in [0 .. N -> V]
    BY <1>5, Zenon DEF LoopOf
  <2>2. ASSUME NEW k \in 0 .. N
        PROVE  g[k] = IF k = 0 THEN v ELSE infra_strtok(t, g[k - 1])
    <3>1. CASE k = 0
      BY <1>5, <3>1, Zenon DEF LoopOf
    <3>2. CASE k # 0
      <4>1. k \in 1 .. N /\ g[k - 1] \in V
        BY <1>6, <1>7, <2>1, <3>2, Zenon
      <4>2. g[k] = step[k][g[k - 1]]
        BY <1>5, <4>1, Zenon DEF LoopOf
      <4> QED BY <3>2, <4>1, <4>2, Zenon
    <3> QED BY <3>1, <3>2, Zenon
  <2> QED BY <2>1, <2>2, Zenon
<1>11. u = Body(u)
  BY <1>10, Zenon
<1> HIDE DEF u
<1>12. u[0] = v /\ \A k \in 1 .. N : u[k] = infra_strtok(t, u[k - 1])
  BY <1>6, <1>7, <1>11, Zenon
<1>13. \A k \in 0 .. N : u[k] \in V
  <2> DEFINE S == {k \in 0 .. N : u[k] \in V}
  <2>1. 0 \in S
    BY <1>2, <1>7, <1>12, Zenon
  <2>2. ASSUME NEW k \in 1 .. N, k - 1 \in S
        PROVE  k \in S
    BY <1>3, <1>6, <1>12, <2>2, Zenon
  <2> HIDE DEF S
  <2>3. \A k \in 0 .. N : k \in S
    BY <1>1, <2>1, <2>2, Counting, Zenon
  <2> QED BY <2>3, Zenon DEF S
<1>14. u[N].toks # <<>>
  <2>1. N # 0
    BY <1>2, <1>9, Zenon DEF V, Taken, v
  <2>2. N \in 1 .. N /\ N - 1 \in 0 .. N
    BY <1>6, <1>7, <2>1, Zenon
  <2>3. u[N] = infra_strtok(t, u[N - 1]) /\ u[N - 1] \in V
    BY <1>12, <1>13, <2>2, Zenon
  <2>4. u[N - 1].pos = 1 => u[N].toks # <<>>
    BY <1>9, <2>3, Zenon DEF V, Taken
  <2>5. ASSUME NEW c \in V, c.pos # 1 PROVE infra_strtok(t, c).toks # <<>>
    <3>1. c.toks # <<>>
      BY <2>5, Zenon DEF V, Taken
    <3> QED BY <3>1, StillTaken, Zenon
  <2> QED BY <2>3, <2>4, <2>5, Zenon
<1> QED BY <1>7, <1>8, <1>13, <1>14, Zenon DEF V

\* What is to be accepted is.
LEMMA AcceptedTopic ==
    ASSUME NEW f \in Texts, NEW type \in {"NAME", "FILTER"}, MustBeAccepted(f, type)
    PROVE  CheckTopic(f, type)
<1>1. /\ Allowed(f, type) /\ f # <<>> /\ f[1] = Slash /\ Len(f) < TopicMax
      /\ \E m \in DOMAIN f : f[m] # Slash
  BY Zenon DEF MustBeAccepted, Allowed
<1>2. PICK c \in Taken(f, type) : c.toks # <<>> /\ Tokens(f) = c.toks
  BY <1>1, TextFacts, TokensTaken, Zenon
<1> DEFINE toks == Tokens(f)
<1>3. /\ toks \in Seq(Texts) /\ toks # <<>>
      /\ \A k \in 1 .. Len(toks) : CheckRule(toks[k], type)
      /\ \A k \in 1 .. Len(toks) - 1 : toks[k] # <<Hash>>
  BY <1>2, Zenon DEF Taken
<1>4. Len(f) \in Nat /\ TopicMax \in Nat
  BY Places, TopicAssumption, Zenon
<1>5. Len(f) # TopicMax /\ Len(f) <= TopicMax
  BY <1>1, <1>4
<1> HIDE DEF toks
<1>6. DOMAIN toks = 1 .. Len(toks) /\ Len(toks) \in Nat
  BY <1>3, LenProperties, Zenon
<1>7. \A k \in 2 .. Len(toks) - 1 : k \in 1 .. Len(toks) - 1
  BY <1>6
<1> QED BY <1>1, <1>3, <1>5, <1>6, <1>7, Zenon DEF CheckTopic, toks

-----------------------------------------------------------------------------
(* The topics of a connection.                                               *)

ServeInv ==
  /\ filters \subseteq Texts
  /\ at # "idle" => call.topic \in Texts
  /\ FilterServed

LEMMA CallTopic ==
  ASSUME NEW p \in Requests, p.type \in {PUBLISH, SUBSCRIBE, UNSUBSCRIBE}
  PROVE  p.topic \in Texts
<1>1. p.topic \in String
  <2>1. /\ CONNECT \notin {PUBLISH, SUBSCRIBE, UNSUBSCRIBE}
        /\ PUBACK \notin {PUBLISH, SUBSCRIBE, UNSUBSCRIBE}
        /\ PINGREQ \notin {PUBLISH, SUBSCRIBE, UNSUBSCRIBE}
    BY DEF CONNECT, PUBLISH, PUBACK, SUBSCRIBE, UNSUBSCRIBE, PINGREQ
  <2>2. p.type \notin {CONNECT, PUBACK, PINGREQ}
    BY <2>1, Zenon
  <2> QED  BY <2>2, RequestKinds, Zenon DEF IsMessage, IsSubscribe, IsUnsubscribe, IsConnect
<1> QED  BY <1>1, Zenon DEF String, Texts

LEMMA TopicRefused ==
  ASSUME NEW t, NEW type, ~MustBeAccepted(t, type),
         last' = [is |-> "refused", filter |-> t, type |-> type]
  PROVE  FilterServed'
<1>1. last'.is = "refused" /\ last'.filter = t /\ last'.type = type
  OBVIOUS
<1>2. ~MustBeAccepted(last'.filter, last'.type)
  BY <1>1, Zenon
<1>3. "refused" # "served"
  OBVIOUS
<1> QED  BY <1>1, <1>2, <1>3, Zenon DEF FilterServed

LEMMA TopicServed ==
  ASSUME NEW n \in Texts, filters \subseteq Texts,
         last' = [is |-> "served", topic |-> n, filters |-> filters,
                  to |-> {f \in filters : Delivered(f, n)}]
  PROVE  FilterServed'
<1>1. /\ last'.is = "served" /\ last'.topic = n /\ last'.filters = filters
      /\ last'.to = {f \in filters : Delivered(f, n)}
  OBVIOUS
<1>2. ASSUME NEW f \in filters
      PROVE  DeliverySound(f, n, f \in last'.to) /\ DeliveryComplete(f, n, f \in last'.to)
  <2>1. f \in last'.to <=> Delivered(f, n)
    BY <1>1, Zenon
  <2>2. DeliverySound(f, n, Delivered(f, n)) /\ DeliveryComplete(f, n, Delivered(f, n))
    BY SoundDelivery, CompleteDelivery, Zenon
  <2> QED  BY <2>1, <2>2, Zenon DEF DeliverySound, DeliveryComplete
<1>3. "refused" # "served"
  OBVIOUS
<1> QED  BY <1>1, <1>2, <1>3, Zenon DEF FilterServed

LEMMA ServeStep ==
  ASSUME ReadInv, ServeInv, [WireNext]_wireVars
  PROVE  ServeInv'
<1>1. /\ env \in DOMAIN Environments /\ wire \in Seq(Byte)
      /\ filters \subseteq Texts /\ FilterServed
      /\ at # "idle" => call.topic \in Texts
  BY Zenon DEF ReadInv, ServeInv
<1>2. ASSUME UNCHANGED <<filters, last>>, UNCHANGED <<call, at>>
      PROVE  ServeInv'
  BY <1>1, <1>2, Zenon DEF ServeInv, FilterServed
<1>3. ASSUME NEW p \in Env.calls, CallBegins(p)
      PROVE  ServeInv'
  <2>1. p.topic \in Texts
    <3>1. p \in Requests /\ p.type \in {PUBLISH, SUBSCRIBE, UNSUBSCRIBE}
      BY <1>1, StandardAssumption, Zenon DEF Env
    <3> QED  BY <3>1, CallTopic, Zenon
  <2>2. filters' = filters
    BY <1>3, Zenon DEF CallBegins
  <2>3. CASE CheckTopic(p.topic, TopicType(p))
    <3>1. call' = p /\ last' = last
      BY <1>3, <2>3, Zenon DEF CallBegins
    <3> QED  BY <1>1, <2>1, <2>2, <3>1, Zenon DEF ServeInv, FilterServed
  <2>4. CASE ~CheckTopic(p.topic, TopicType(p))
    <3>1. /\ last' = [is |-> "refused", filter |-> p.topic, type |-> TopicType(p)]
          /\ UNCHANGED <<call, at>>
      BY <1>3, <2>4, Zenon DEF CallBegins
    <3>2. TopicType(p) \in {"NAME", "FILTER"}
      BY DEF TopicType
    <3>3. ~MustBeAccepted(p.topic, TopicType(p))
      BY <2>1, <2>4, <3>2, AcceptedTopic, Zenon
    <3>4. FilterServed'
      BY <3>1, <3>3, TopicRefused, Zenon
    <3> QED  BY <1>1, <2>2, <3>1, <3>4, Zenon DEF ServeInv
  <2> QED  BY <2>3, <2>4, Zenon
<1>4. ASSUME at = "checked", NEW k, CallWrites(k)
      PROVE  ServeInv'
  <2>1. /\ call' = call /\ last' = last
        /\ filters' = filters \/ filters' = filters \ Unsubscribed(call.topic)
    BY <1>4, Zenon DEF CallWrites
  <2>2. at # "idle"
    BY <1>4
  <2> QED  BY <1>1, <2>1, <2>2, Zenon DEF ServeInv, FilterServed
<1>5. CASE CallReturns
  <2>1. /\ at # "idle" /\ at' = "idle" /\ last' = last
        /\ filters' = filters \/ filters' = filters \cup {call.topic}
    <3>1. "written" # "idle" /\ "failed" # "idle"
      OBVIOUS
    <3> QED  BY <1>5, <3>1, Zenon DEF CallReturns
  <2> QED  BY <1>1, <2>1, Zenon DEF ServeInv, FilterServed
<1>6. ASSUME NEW k, Ping(k)
      PROVE  ServeInv'
  BY <1>2, <1>6, Zenon DEF Ping
<1>7. ASSUME NEW k \in HAL_TCP_Read(FrontLen(wire)), Cycle(k)
      PROVE  ServeInv'
  <2> DEFINE r == iotx_mc_read_packet(k)
             d == Deserialized(ReadBuffer(k))
             p == IF r \in {"over", "packet"} THEN d ELSE Malformed
  <2>1. /\ UNCHANGED filters /\ UNCHANGED <<call, at>>
        /\ \/ last' = last
           \/ r \in {"over", "packet"} /\ p.type = PUBLISH /\ HandlePublish(p)
    <3> HIDE DEF r, d
    <3>1. /\ UNCHANGED filters /\ UNCHANGED caller
          /\ \/ r = "packet" /\ p.type = PUBLISH /\ HandlePublish(p)
             \/ /\ r = "over" /\ p.type = PUBLISH
                /\ HandlePublish(p) \/ UNCHANGED <<last, out, asked, cut>>
             \/ p.type # PUBLISH /\ UNCHANGED <<last, out, asked, cut>>
      BY <1>7, Zenon DEF Cycle, r, d
    <3> HIDE DEF p
    <3>2. "over" \in {"over", "packet"} /\ "packet" \in {"over", "packet"}
      OBVIOUS
    <3> QED  BY <3>1, <3>2, Zenon DEF caller
  <2>2. CASE last' = last
    BY <1>2, <2>1, <2>2, Zenon
  <2>3. CASE r \in {"over", "packet"} /\ p.type = PUBLISH /\ HandlePublish(p) /\ last' # last
    <3>1. p = d
      BY <2>3, Zenon
    <3>2. p.topic \in Texts
      BY <1>1, <1>7, <2>3, <3>1, HandledAck, Zenon DEF Texts
    <3>3. last' = [is |-> "served", topic |-> p.topic, filters |-> filters,
                   to |-> {f \in filters : Delivered(f, p.topic)}]
      BY <2>3, Zenon DEF HandlePublish
    <3> HIDE DEF p
    <3>4. FilterServed'
      BY <1>1, <3>2, <3>3, TopicServed, Zenon
    <3> QED  BY <1>1, <2>1, <3>4, Zenon DEF ServeInv
  <2> QED  BY <2>1, <2>2, <2>3, Zenon
<1>8. CASE KeepaliveDisconnected
  BY <1>2, <1>8, Zenon DEF KeepaliveDisconnected, caller
<1>9. CASE Reconnect
  BY <1>2, <1>9, Zenon DEF Reconnect, caller
<1>10. ASSUME NEW k, Connect(k)
       PROVE  ServeInv'
  BY <1>2, <1>10, Zenon DEF Connect, caller
<1>11. ASSUME NEW k, WaitConnack(k)
       PROVE  ServeInv'
  BY <1>2, <1>11, Zenon DEF WaitConnack, caller
<1>12. ASSUME NEW p, BrokerSays(p)
       PROVE  ServeInv'
  BY <1>2, <1>12, Zenon DEF BrokerSays, caller
<1>13. ASSUME NEW n, LinkCloses(n)
       PROVE  ServeInv'
  BY <1>2, <1>13, Zenon DEF LinkCloses, caller
<1>14. CASE UNCHANGED wireVars
  BY <1>2, <1>14, Zenon DEF wireVars
<1>15. ASSUME NEW code, BrokerConnack(code)
       PROVE  ServeInv'
  BY <1>12, <1>15, Zenon DEF BrokerConnack
<1>16. ASSUME NEW p, BrokerSends(p)
       PROVE  ServeInv'
  BY <1>12, <1>16, Zenon DEF BrokerSends
<1> QED  BY <1>3, <1>4, <1>5, <1>6, <1>7, <1>8, <1>9, <1>10, <1>11, <1>13, <1>14,
            <1>15, <1>16, Zenon DEF WireNext

LEMMA ServeInit == WireInit => ServeInv
<1> SUFFICES ASSUME WireInit
             PROVE  ServeInv
  OBVIOUS
<1>1. filters = {} /\ at = "idle" /\ last = [is |-> "none"]
  BY Zenon DEF WireInit
<1>2. last.is = "none" /\ "none" # "refused" /\ "none" # "served"
  BY <1>1
<1>3. FilterServed
  BY <1>2, Zenon DEF FilterServed
<1> QED  BY <1>1, <1>3, Zenon DEF ServeInv

(***************************************************************************)
(* From iotx_mc_check_topic to iotx_mc_deliver_message: for any filters    *)
(* and topics, whatever their length and characters, what the standard and *)
(* the client's bound allow is not refused, and a message reaches the      *)
(* handlers whose filters match its topic by the standard, no others; but  *)
(* it may miss one where a level is empty, or '#' stands for the parent.   *)
(***************************************************************************)
THEOREM FiltersAreServed == WireSpec => []FilterServed
<1>1. ReadInv /\ ServeInv /\ [WireNext]_wireVars => ReadInv' /\ ServeInv'
  BY ReadStep, ServeStep
<1>2. ServeInv => FilterServed
  BY Zenon DEF ServeInv
<1> QED  BY <1>1, <1>2, ReadInit, ServeInit, PTL DEF WireSpec

=============================================================================

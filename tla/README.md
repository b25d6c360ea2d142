# TLA+ verification of esp32-aliyun-demo

The repository is an ESP-IDF application framework for an ESP32 that talks to the
Alibaba Cloud IoT platform. Its core is Alibaba's C SDK ("iotkit-embedded", under
`src/components/esp-aliyun/iotkit-embedded`) with a port to the ESP32 beside it
(`src/components/esp-aliyun/wrappers`, `conn_mgr`) and four example programs.
This directory holds TLA+ models of that code, the TLC configurations that check
them on small instances, and TLAPS proofs.

Paths below are relative to `src/components/esp-aliyun/iotkit-embedded` unless they say otherwise.

## 1. Inventory

### 1.1 What is built

`component.mk` builds `dev_bind`, `dev_model`, `dev_reset`, `dev_sign`,
`dynamic_register`, `infra`, `mqtt`, `ota`, `wifi_provision`, `coap_server`,
`certs`, `wrappers` and `conn_mgr`. The directories `coap_cloud`, `http`, `http2`
and `wrappers/external_libs` are in the tree and not in the build. The build has
dynamic memory, an OS, the device model, OTA, the CoAP server, device reset and
bind, and Wi-Fi provisioning. ALCS, CoAP communication, the deprecated solo and
gateway interfaces and the asynchronous protocol stack are compiled out. HAL
mutexes are not recursive and wait for ever.

### 1.2 Components: state, operations, what is hard

| Component | State it keeps | Operations | Hard behaviour |
|---|---|---|---|
| MQTT client (`mqtt/iotx_mqtt_client.c`) | connection state, packet identifiers, wait list of PUBLISH, wait list of SUBACK, topic handlers, probe counter, reconnection timer, five mutexes | connect, yield, publish, subscribe (also synchronous), unsubscribe, disconnect, release | many publishing threads against one yielding thread; state read under a lock and used after it; retransmission, reconnection; callbacks that call back |
| MQTT API (`mqtt/mqtt_api.c`) | the singleton client, the list of subscriptions made offline | construct, destroy, publish, subscribe, unsubscribe, yield | offline list without a lock |
| OTA (`ota/*.c`, `dev_model/dm_fota.c`, `dm_cota.c`, `../wrappers/wrapper_ota.c`) | one session: state, type, sizes, digests, channel; the flags of what was reported; the partition being written | handler of a message, FetchYield, Ioctl, status check, perform_sync | two threads with no lock; a long protocol of calls; two kinds of download share one session |
| Device reset (`dev_bind/impl/awss_reset`, the examples' `factory_restore.c`) | flags and timer in memory; reset flag, restart count and router in flash | report, reply, check at connection, restore after quick restarts | power cuts between writes of flash; lost report or reply; three threads |
| Device binding (`dev_bind/impl`) | token, its life and report counters, notification timers, a waiting request | token report and reply, multicast and its answer, request of device information | retries and one-shot timers that handlers stop and arm; identifiers that wrap |
| CoAP server (`coap_server/`) | send list with retransmission, observers, resources | send, receive, retransmit, observe, notify | lock order between two lists; ACK matched by message identifier alone; list limits |
| Device model (`dev_model/*.c`) | event queue, cache of requests that wait for a reply, connection table, list of synchronous upstream calls | open, connect, yield, post, reply, close | a reply before the request is cached; timeouts racing replies; checks outside the lock |
| Wi-Fi provisioning (`wifi_provision/`) | channel and its lock, fragments of the message being assembled, access points | smartconfig, phone AP, router AP, device AP | lost and repeated frames, channel hopping, timeouts |
| Registrar (`wifi_provision/zero_config/awss_registrar.c`) | the table of the devices heard that want on the network, two timers, the frame with the password | hear, report, check in, ask for a cipher, transmit, forget | four threads work on the table with no lock; the daemon blocks while it transmits; places are used again |
| Connection manager (`../conn_mgr`) | Wi-Fi events, saved network | start, stop, event handler | reconnection, persistence |
| Infrastructure (`infra/`) | - | JSON, timers, digests, sockets, logging | 32-bit clock wrap; a tokenizer with static state |
| Dynamic registration, signature, device reset (`dynamic_register`, `dev_sign`, `dev_reset`) | per-call state | one request and its reply | the reply races the timeout |
| Port (`../wrappers`) | HAL: mutexes, timers, flash, sockets, partitions | the HAL contract | - |
| Examples (`src/examples`) | application state | main loops, event handlers | who calls what from which thread |

How they interact. The application runs one loop that calls `IOT_Linkkit_Yield`
(or `IOT_MQTT_Yield`) for ever. Below it the device model dispatches events and,
in gateway builds, a second thread of `iotx_cm.c` yields to the MQTT client;
every other thread may publish or subscribe. Handlers run inside the yield, or
inside the yield that a synchronous subscription does while it waits. A new
connection starts the reports of `dev_bind` (token and reset), whose retries
run in the one daemon of the FreeRTOS timers. `dev_bind` and Wi-Fi provisioning
share the CoAP server, which has a thread of its own. OTA takes its messages from
the MQTT client and its download is run by the user's handler of an event.

### 1.3 What makes each component correct

- **MQTT client.** A QoS 1 message that was accepted reaches the broker; success
  is told only for what the broker has; a publish that failed leaves nothing
  behind; CONNECTED means a session; the client finds its way back; a dead link
  is noticed, a live one is not flooded and pinged in time; a message goes to the
  handlers whose filter matches and to no other; a subscription that returned
  success is in force.
- **OTA.** One download is of one announcement; what passes the check was written
  whole; every announced version is tried.
- **Device reset.** The flag in flash outlives everything until the cloud knows of
  the reset, which it does in the end, unless it takes the reply to an earlier reset for that of this one; a router is forgotten only if the user asked.
- **Device binding.** A token that is told to a phone was told to the cloud first;
  no multicast is left behind; a request is answered or the reports were given up.
- **CoAP server.** No thread waits for ever, but for the two that lock two lists crosswise; every
  confirmable message ends, acknowledged or given up after its retries; an observer that
  keeps silent is forgotten.
- **Device model.** A synchronous call returns success only if the cloud granted it, and it
  returns; the application is told of every cached request whose reply came; closing the master
  ends, whether its reading thread has run yet or not.
- **Wi-Fi provisioning.** Success means the device is on the router of the user; a received
  configuration is used; a stop returns; the message that is assembled from frames is the one that was sent,
  and soon after the last disturbance.
- **Registrar.** The password goes only to a device the cloud checked in, under that device's cipher, if the
  cloud gave one; each device that is checked in is served.

The hazards, each at its line, are in `PROJECT.json`, with the properties that
would catch each one going wrong.

## 2. Modules and the code

| Module | What it is | Code |
|---|---|---|
| `AtLeastOnce` | the abstract promise: accepted, received, confirmed | what `mqtt_api.h` promises for QoS 1 |
| `MqttClient` | publishers, yielding thread, wait list, connection, broker | `MQTTPublish`, `wrapper_mqtt_publish`, `iotx_mc_cycle`, `MQTTPubInfoProc`, `iotx_mc_keepalive`, `iotx_mc_handle_reconnect`, `_mqtt_connect` |
| `MqttKeepalive` | pings, probes and backoff over a clock that wraps | `iotx_mc_keepalive_sub`, `iotx_mc_handle_reconnect`, `iotx_mc_cycle`, `infra_timer.c` |
| `MqttTopic` | check of filters and matching, beside MQTT 3.1.1 section 4.7 | `iotx_mc_check_topic`, `infra_strtok`, `iotx_mc_is_topic_matched` |
| `MqttPacket` | packets to bytes and back | `MQTTPacket.c`, `MQTTSerialize*.c`, `MQTTDeserializePublish.c`, `MQTTConnectClient.c`, `MQTTSubscribeClient.c`, `MQTTUnsubscribeClient.c` |
| `MqttWire` | the byte streams of a connection, read and written in parts, and the handlers | `iotx_mc_read_packet`, `iotx_mc_send_packet`, `iotx_mc_cycle`, `iotx_mc_wait_CONNACK`, `MQTTConnect`, `MQTTSubscribe`, `MQTTUnsubscribe`, `MQTTPublish`, `MQTTPuback`, `MQTTKeepalive`, `HAL_TCP_Read` |
| `MqttSubscribe` | synchronous subscriptions, SUBACK list, delivery to handlers | `wrapper_mqtt_subscribe_sync`, `MQTTSubscribe`, `iotx_mc_handle_recv_SUBACK`, `iotx_mc_deliver_message` |
| `Ota` | messages against downloads, both kinds | `ota_callback`, `IOT_OTA_FetchYield`, `IOT_OTA_Ioctl`, `dm_fota_*`, `dm_cota_*`, `HAL_Firmware_*` |
| `DevReset` | reset report across crashes, factory restore | `awss_dev_reset.c`, `factory_restore.c`, `conn_mgr_reset_wifi_config` |
| `DevBind` | token report, notification, request | `awss_report.c`, `awss_notify.c`, `awss_bind.c` |
| `CoapServer` | send list, observers, the server's thread, the daemon | `CoAPMessage.c`, `CoAPObserve.c`, `CoAPServer.c`, the request of `awss_wifimgr.c` to switch |
| `SyncCall` | the abstract promise of a call that waits | `iotx_dm.h`, `linkkit_export.h` |
| `Upstream` | synchronous calls, requests, cache, queue, dispatcher, close | `impl_linkkit.c`, `dm_message.c`, `dm_message_cache.c`, `dm_ipc.c`, `dm_manager.c`, `iotx_cm.c`, `iotx_cm_mqtt.c` |
| `Provision` | start, scan, hotspots, switch and stop of provisioning | `awss.c`, `awss_main.c`, `zconfig_vendor_common.c`, `zconfig_protocol.c`, `awss_aplist.c`, `awss_wifimgr.c`, `conn_mgr.c` |
| `SmartConfig` | the assembly of a message from frames | `awss_smartconfig.c` |
| `Registrar` | the table of devices that want on the network | `awss_registrar.c` |
| `MC*` | the instance TLC checks | - |
| `MqttClientProofs` | theorems about `MqttClient` | - |
| `MqttLinkProofs` | theorems about `MqttKeepalive`, `MqttPacket`, `MqttTopic` and `MqttWire` (it EXTENDS them all, and no variable is shared; hence the names `WireInit`, `WireNext`, `WireSpec`, `wireVars`) | - |
| `MqttSubscribeProofs` | theorems about `MqttSubscribe` | - |
| `OtaProofs` | theorems about `Ota` | - |
| `DevResetProofs` | theorems about `DevReset` | - |
| `DevBindProofs` | theorems about `DevBind` and `CoapServer` (it EXTENDS both, which share no variable; hence the names `CoapInit`, `CoapNext`, `CoapSpec`) | - |
| `UpstreamProofs` | theorems about `Upstream`, its refinement of `SyncCall` among them | - |
| `WifiProofs` | theorems about `Provision` and `Registrar` (it EXTENDS both, which share no variable; hence the names `RegistrarInit`, `RegistrarNext`, `RegistrarSpec`) | - |

The MQTT modules look at one source file from several sides and leave out what the
others hold. `MqttClient` has the publish path and takes a ping that fails, or probes
that run out, for one more fault; `MqttKeepalive` has the time and takes a publisher
for a late write of the state; `MqttSubscribe` has the SUBACKs and takes topics for
model values; `MqttTopic` and `MqttPacket` have the characters and bytes, and `MqttWire`, which EXTENDS both, the
streams they travel in, with no list of what waits for an answer. What the broker sent and the client made is kept in logs, `sent` and `asked`: each
packet with where its bytes begin in the stream, by the standard's own description of them (`OnWire`), which shares no operator with the model of the code. `MqttClient` INSTANCEs `AtLeastOnce`
with the sets `accepted`, `received` and `confirmed` restricted to QoS 1; `Upstream` INSTANCEs
`SyncCall` with what its callers wait for and were told. `Provision` takes a configuration for
something that arrives; `SmartConfig` says which one.

Names follow the source. A variable has the name of the field or static variable it
models; an action has the name of its function, or a name of its own when a
function is cut at the points where another thread can come between: at a lock that is
released, a call that blocks, a callback. What happens under one lock is one action,
unless the lock is held across a blocking call, when the lock is a variable
(`lock_list_pub`, `lock_yield`, the two lists of `CoapServer`, `ctx->mutex` of `Upstream`, `aws_mutex` of `Provision`).
Where no lock is taken at all each write that
another thread can see is a step (`DevReset`: the flag in memory, then the one
in flash; `Ota`: state and type). `DevBind` cuts its handlers where they publish, lock,
send or cancel, and between a decision and the stop of a timer that follows from it. History variables, marked as
such, record what no variable of the code does (what the broker has, what was
asked for). Definitions commented "Mistake", "Mutant" or "Defect" are not part of a
specification: each is a plausible bug that the property it is paired with in
`PROJECT.json` must detect.

Behaviour of undefined order is left open: a timer that is polled may be found
expired or not where the time is not a variable, and a connection may be
lost with any of the packets in flight on it.

What the newer modules simplify, beyond what their comments say:

- `CoapServer`: of the kept multicasts it has the one of `__awss_devinfo_notify`, and `DevBind` the one of `__awss_dev_bind_notify`. Message identifiers do not repeat within the bound. The handler of the request to switch
  the network waits in the server's own thread, so the acknowledgement it waits for cannot come while it waits.
- `DevBind`: the application closes when the yielding thread is in no handler. A thread whose mutex is destroyed under it goes on
  without it or waits for ever; a mutex given by one that does not hold it restarts the device, which ends the behaviour. Commands to
  the timers take effect at once, and the server is not released while the daemon sends.
- `Upstream`: the dispatcher is one thread; a closed device is not opened again; the cloud acts only while the
  connection is open; the application closes the master when no other thread is in a call. The tick of the cache
  takes the n oldest requests. The variable `missed` names the requests that were cached after their reply was handled.
  A login ends with the subscription to the services of the subdevice and the callback `ITE_INITIALIZE_COMPLETED`, both with `ctx->mutex` held
  (`impl_linkkit.c:1337`); that the callback makes no call that takes the mutex is assumed, as `user_initialized` of `linkkit_solo.c` makes none.
  The reading thread sees the end when it looks at `yield_task_leave`; `pthread_cancel` is taken to do nothing, so that the close waits for the thread
  (`HAL_ThreadDelete` joins it), also for one that has not run yet. A reply that nobody waits for always carries the same code.
- `Provision`: one phone; channels and hopping, statistics and notifications are left out; the
  application starts again only when no stop is in progress. Of the list of access points it has how many places are taken and which hotspots
  are found in one. The driver is external: told to connect it leaves the access point of before, connects at some time or never,
  also after the call has given up, and may lose the connection at any time; association and address are one step, and the handler
  of the address runs with it. `overtaken` names the start that went on while it was being stopped. `outlived` names what is left
  of a call or a wait that is over: a request to switch, `switch_ap_done` (which nothing resets), a frame that is still being handled when the call begins or the
  list is cleared. The properties except exactly those.
- `Registrar`: each handler is one step, but for `enrollee_report` and `enrollee_checkin`, which are cut where they publish or
  transmit; two handlers that preempt each other within their few instructions are not modelled. A device is its product
  key and name. A cipher that the cloud leaves out, or that is too long, counts as a fault; one that is too short is the same to the property. The frame holds whom it is for and the key it is under; what the port puts into it is in section 5.
- `SmartConfig`: the ssid is symbols whatever its alphabet; frames of other senders and links that shift the
  lengths are left out. Of frames, it has the index in a group, the symbol and the serial number.

## 3. Model checking

Twelve runs, one for each component and question. Deadlock is checked except
where the system really stops: after all calls have returned, all announcements or
resets are made, the calls and packets of `MqttWire` are used up, the message is received, the check-ins are used up, or the master is closed; and in `CoapServer`, where two threads
really can block each other.

| Run | What it asks | What it shows |
|---|---|---|
| `mqtt_client` | two publishers, two QoS 1 messages, two slots, two identifiers, one fault, two attempts to connect | `NoLoss`, `ConfirmedOnlyReceived`, `ConnectedMeansSession`, `NoOrphanNode` hold under every interleaving, with state writes that come late; when faults stop the list drains; `ImplementsAtLeastOnce`: the client implements `AtLeastOnce!Spec`, its fairness included |
| `mqtt_keepalive` | two outages, one late state write, a clock of ten ticks started at either end | `LinkWatched`: pings keep their time across the wrap, and a dead link is given up after `PROBE_MAX + 1` ping intervals plus polls; the client settles in CONNECTED |
| `mqtt_wire` | three environments: every filter of up to five characters with every name of up to four; packets at the sizes 127, 128, buffer and buffer + 1 read in parts; calls and pings written in parts; two connections | until a read is torn every packet is handled once, in order, or dropped whole, and the next read starts at its border; what was written reads by the standard as what was asked; a cut write ends the connection; handlers get what the standard gives them, and no legal filter or name is refused |
| `mqtt_subscribe` | two callers and a yield loop, one refusal or reset, two messages | a call that waited and succeeded was granted; later messages reach its handler; every call returns |
| `ota` | two firmwares and a configuration, four announcements, three bad messages or downloads, one failed write | a download is of one announcement; what passes the check was written whole; every version is tried |
| `devreset` | two resets by the application or by quick restarts, two power cuts, one lost connection, a message in flight in each direction | the flag outlives all of it; a router is forgotten only on request; the cloud is told of each reset, unless the reply to an earlier one came `late` |
| `devbind` | four threads over two connections, two answers, one close, identifiers that do not wrap | no multicast is left, a token that was told was reported, a request is answered; but for the races that `overlapped`, `cleared` and `crossed` name |
| `coap_server` | one phone, two requests, one beacon, send list and observers of two, one retry | the threads block in no other way than crosswise on the two lists; messages end; a silent observer is forgotten |
| `upstream` | one thread that connects, logs in and out, deletes and closes, one that posts, one subdevice, a queue of one, a cache of two | calls implement `SyncCall!Spec` and end, the close among them, whether the reading thread has run or not; a login that lasts was granted; the application is told of its requests |
| `provision` | one start, one stop, one request to switch, a list of two places, a driver that connects late or loses its connection | success means the router; no hotspot is taken twice in a call, unless the full list had no place for it; a received configuration is used; a stop returns |
| `smartconfig` | a message of 13 symbols in two groups, two faults, either direction deaf or none, the ssid unknown, known or wrong in the list | only what was sent is received, and it is received within three passes of the last fault |
| `registrar` | two devices, two places, one check-in each, one lost message, reply without a cipher, stop or restart | the password goes to a device that was checked in, under its own cipher, or the zero key if the cloud gave none; each that is checked in is served and its place freed, unless its cipher was lost or there is no timer |

**Bounds.** Each constant commented "bound" cuts the number of times the outside
acts: faults, messages, outages, restarts, announcements. They are chosen so that the
interesting case happens at least once with room around it: two publishers
because each pair of threads meets; two messages over two slots and two identifiers, so that the list fills, and
one identifier taken before, so that they wrap between the two messages. Only once an identifier is given that is still in use
do `NoLoss` and `ConfirmedOnlyReceived` promise nothing more (the code gives
out an identifier without asking whether it still waits); no behaviour of this instance comes to that. The theorems of section
4 hold up to that moment for any `PACKET_ID_MAX`, 65535 included, and any number of wraps; two connection attempts because a
failed first attempt is retried inside `_mqtt_connect`; a clock of ten ticks, more
than twice the longest interval, as the assumption on `CLOCK` asks, for the 32-bit
clock; five characters because a filter then has room for two levels, a wildcard, and
an empty or a last one-character level, the cases where the two pointers of
the matcher differ, with a longest topic of five, so that some are longer and some lose their last character to the copy; buffers of 140 bytes in `MqttWire` because lengths of one and of two bytes then fit
and a packet can be too long for them; parts of 0, 1, 2, 3, half, all but one and all bytes because they end in the
header, the length, the body and at a border; one wait for a CONNACK instead of ten; four announcements so that one arrives before, during, at the end of and after
a download; two restarts because the factory restore is made of `MaxTimes` = 2 of
them; lists of two in `CoapServer` so that one is full while the other is not; a queue of one in `Upstream` because a full one
is the interesting one; two places in `Provision` because the first is never looked up, so that one hotspot or one other access point fills the list, and one start, because the call
begins again by itself (`awss_start` loops until it is on the router or stopped), so that state is left over from one scan to the next; the theorems hold for any number of starts; two faults in `SmartConfig`
because one loss puts symbols in a wrong place and the second keeps them there; two places in `Registrar` because the one
served and the one that waits are what matters, and a place is used again at once. `MaxInFlight`, `MaxWire` and `MaxInbox` keep
retransmission from filling a channel.

`SmartConfig` has `MaxPkgNums` 32 for the code's 128 and the code's own `GroupNumber`. With three faults `ReceivedIsSent`
fails: the checksum of the protocol is a sum and does not see two symbols change places.

**Fairness** is what the code's own loops give. The application calls yield for ever
(`while (1)` in the examples), so `WF(Yielder)`. A read of a packet that stays
readable, the end of a cycle, the reconnection timer and the timeout of an
acknowledgement are strongly fair (`MqttClient`): each is polled again and
again and its time is up at last. A publisher that has begun finishes;
it need not begin. In `MqttSubscribe` a caller waiting for `lock_yield` is strongly fair
because `_mqtt_cycle` releases the lock between cycles and sleeps there. The broker
and the cloud answer (weakly fair, or strongly over a connection that comes and goes);
faults are never fair and are bounded: a liveness property says what happens when
they stop. `DevBind` asks nothing of the network, only that threads go on
with what they began, and, strongly, that the daemon runs each timer that is due, in the order of their times.
`DevReset` asks that a device without a router is provisioned again, and that a
subscription tried for ever succeeds at last. `CoapServer` asks that time passes, that a read times out, and that
the thread of the server and the daemon of the timers run, strongly, since each waits for locks that the other keeps taking; nothing of
the phone. `Upstream` asks it of the threads, the tick of the cache and the timeout of a call, and nothing of the cloud. `Provision` asks it of its
threads and of the end of a scan's time, and nothing of phones and hotspots. `Registrar` asks that the daemon comes back and
takes its timers in the order they expire in, hence strongly, that the thread that yields runs and the cloud answers what was not lost. `MqttWire` asks
only that a call that wrote returns and that the application yields again. `SmartConfig` needs none: `SoonReceived` bounds the frames since the last fault by an invariant.

**Mutants.** Each property of each passing run is paired with one definition and a
mutated form of it: the property fails for the mutant and holds for the code.

## 4. Proofs

TLC checks an instance; the theorems hold for every value of the constants. Seventeen of the runs' nineteen invariants,
three of their action properties and the safety part of both refinements are theorems, and so are some lasting facts that no run lists. Their only
assumptions are the named ones of the modules (limits are natural numbers, values that stand for none are distinct from the rest, the packets of an environment are those of MQTT 3.1.1; TLC
evaluates them in the runs), and two more, each stated with its theorem: `Polled` and `Wraps = "no"`.

| Module | Theorem | Property |
|---|---|---|
| `MqttClientProofs` | `TypeCorrect` | `Safety => []TypeOK` |
| | `ConnectedOnSession` | `Safety => []ConnectedMeansSession` |
| | `NothingLost` | `Safety => []NoLoss` |
| | `NothingFalselyConfirmed` | `Safety => []ConfirmedOnlyReceived` |
| | `NothingOrphaned` | `Safety => []NoOrphanNode` |
| | `ClientKeepsPromise` | until an identifier in use is given again, each step is a step of `AtLeastOnce` or a stutter |
| `MqttLinkProofs` | `LinkIsWatched` | with `Polled`: `Safety => []LinkWatched` |
| | `LengthReadBack` | each remaining length the protocol allows (up to 268 435 455) is read back by `MQTTPacket_decode`, with the number of its bytes, whatever follows them |
| | `PacketFitsBuffer` | a packet that passes `MQTTPacket_len`'s check of the room is never longer than the buffer |
| | `SerializedIsStandard` | what the serializers write of a request, of any size, is what the standard says, or nothing when there is no room |
| | `DeserializedIsSent` | what the deserializers read of a reply, of any size, is what was sent |
| | `ReadsStayInStep` | `WireSpec => []InStep` |
| | `RequestsReadWhole` | `WireSpec => []RequestsWhole` |
| | `FiltersAreServed` | `WireSpec => []FilterServed` |
| `MqttSubscribeProofs` | `TypeInvariant` | `Spec => []TypeOK` |
| | `WaitedIsGranted` | `Spec => []WaitedCallWasGranted` |
| | `ReturnedIsServed` | `Spec => []ServedAfterReturn` |
| `OtaProofs` | `TypeInvariant` | `Spec => []TypeOK` |
| | `OneAnnouncement` | `Spec => []DownloadIsOfOneAnnouncement` |
| | `AcceptedWasWritten` | `Spec => []AcceptedFirmwareWasWritten` |
| `DevResetProofs` | `RestoreOnlyAskedFor` | `Spec => RestoreIsAskedFor` |
| | `ClearedOnlyTold` | `Spec => []ClearedMeansTold` |
| `DevBindProofs` | `TypeInvariant` | `Spec => []TypeOK` |
| | `NothingIsLeft` | `Spec => []NoMulticastIsLeft` |
| | `NotifiedWasReported` | with `Wraps = "no"`: `Spec => NotifiedTokenWasReported` |
| | `CoapTypeInvariant` | `CoapSpec => []CoapTypeOK` |
| | `MulticastsStayFew` | `CoapSpec => []MulticastsDoNotPileUp`: one multicast at most is in the send list, and none once its timer is stopped |
| | `NotifiedStayObservers` | `CoapSpec => []NotifiedAreObservers`: who is still to be notified is an observer |
| | `BlocksOnlyCrossed` | `CoapSpec => []BlockedOnlyCrossed`: no thread waits for a mutex it holds, and the two wait for each other only where the lists are locked crosswise |
| `UpstreamProofs` | `TypeInvariant` | `Spec => []TypeOK` |
| | `LoginedIsLoggedIn` | `Spec => []LoginedMeansLoggedIn` |
| | `KeepsThePromise` | `Spec => ImplementsSyncCall` |
| `WifiProofs` | `ProvisionTypes` | `Spec => []TypeOK` |
| | `StartedOnRouter` | `Spec => []StartedMeansOnRouter` |
| | `HotspotOnce` | `Spec => NoHotspotTwice` |
| | `PasswordStaysWithAdmitted` | `RegistrarSpec => []PasswordOnlyToAdmitted` |

**MQTT client.** `TypeOK` is inductive. `ConnectedMeansSession` is not: CONNECTED is written at the end of a
reconnection, long after the CONNACK was read, while publishers write DISCONNECTED at
any time. Its strengthening says for each place of the yielding thread what the socket
and the session are there, and that nobody but the yielding thread writes CONNECTED.

`NoLoss` needs much more. `DeliveryInv` is the conjunction of

- `LockInv`: who holds `lock_list_pub` is where the holder is in its code;
- `CallInv`: a message is in one thread's hands and not accepted while it is;
- `NodeInv`: a node is of an accepted message, or of the one being written under the lock;
- `IdInv`: identifiers tell *live* messages apart: those with a node, in the hands of a thread, or in flight to the broker;
- `PacketInv`: a PUBLISH in flight carries its message's identifier, and a PUBACK in flight, or in
  the read buffer, an identifier whose live bearer, if there still is one, is at the broker;
- `FateInv`: the three properties, and that a node marked INVALID is of a message the broker has.

`IdInv` and `PacketInv` are asked only while no identifier in use was given again (`reused`), however often they have wrapped: a
PUBACK may outlive its message's node, and be harmless, as long as its identifier is not given to another message. Asked of all messages instead of
the live ones they would fail at the first wrap. The lemma `StillApart` says that they survive every step but two: one that gives an identifier (`GetIdStep`)
and one that acknowledges (`BrokerPublishStep`), as only these bring an identifier to life.

The heart of the argument is that marking nodes by identifier (`iotx_mc_mask_pubInfo_from`) marks at most one node, because of
`IdInv`, and one of a message that the broker has, because of
`PacketInv`; a node that is not marked goes only when its publish failed, and then it was never accepted (`CallInv`). Two lemmas, `QuietStep` and `QuietYielder`, dispose
of the steps that touch none of this.

**Keepalive.** `LinkWatched` bounds two times that no variable of the code holds, so `WatchInv` ties each of them to what the
code does hold: the ping timer is at `KeepAlive` after the last ping, up to one wrap of the clock, and how late it can be found
expired depends on where the thread is in its poll (`PingInv`); a packet that can be read answers the last ping (`AnswerInv`);
on a dead link each interval of silence has its probe, but for a packet that arrived before it died (`ProbeInv`); `LinkInv` says what a
closed link excludes. `Polled` is what this needs of the environment: the application polls at least every half wrap of the clock
(24 days), an answer is read before the next ping is due, and `PROBE_MAX` fits its byte. The second matters: with `PROBE_MAX` = 2 and slow answers TLC finds `LinkWatched` violated, as
a late answer that is read on a dead link sets the probes back. The code has 1.

**Packets.** The run meets lengths of one and two bytes only; `LengthReadBack` covers three and four. It rests on
`Digits` (the digits to the base 128 add up to the length, by four divisions) and `LengthStops` (the first byte with a clear top bit ends it).
`SerializedIsStandard` and `DeserializedIsSent` go through the packets kind by kind, each field at its place in the bytes.

**Byte streams.** A log says where each packet begins, so that nothing has to be proved by induction over a stream: the last packet written ends where
the stream ends. `ReadInv` says that the broker's stream reads as its log (`ReadsAs`), that nothing is left of one connection when the next is
opened (`Unlinked`), and that, until a read is torn, what was handled is what the first packets of the log are due, and the bytes
on their way are those that follow (`Aligned`). The step that matters is a read. It may end after any number of the bytes that have arrived; `FrontPacket` says that
if it takes what it has for a packet, the length it decoded is the front packet's (`SameLength`), so it took that packet and no byte more, and
`DeserializedIsSent` says that it made of it what was sent. `PacketTaken` and `PacketWritten` keep `Aligned` when a packet leaves the stream and when one enters it.
A read that takes less is torn, and `ReadInv` asks no more of that connection. `WriteInv` is simpler: a write that is not cut short appends what
`SerializedIsStandard` says it does (`ReadsOn`). Its one surprise is the acknowledgement: it answers whatever was taken for a message, also
once the reading is torn, and it is a packet of the standard all the same (`HandledAck`), as its identifier was read from two bytes.

**Topics.** The code walks characters, the standard speaks of levels. `Fronts` are the levels of what has been read of a text, `Depth` and `Begun` how many there are and
what the last one has so far. `Agree` is what the two pointers of `iotx_mc_is_topic_matched` keep: the levels that both texts have ended match, and the begun ones so far, or the filter has
come to its '#' (`Ended`). Each round keeps it (`RoundAgrees`), so that a match of the code is one of the standard (`SoundDelivery`). The other way, no round of the loop breaks off while a filter
that matches has characters left (`NoBreak`), if neither text has an empty level and '#' has a level to stand for (`Regular`); hence `CompleteDelivery`. Of `infra_strtok` it is shown that every token it
takes is a level of the text (`Segment`, `CallTakes`), wherever it drops the rest, and a legal text has legal levels (`AcceptedTopic`). `Levels`, `Matched` and `Tokens` are recursive functions, so that
what they compute is proved by induction along them, with `Counting` and `Loop`, both from `LeastNumber`. `ServeInv` adds to `FilterServed` only that what is listed and what a call has in hand are texts.

**Subscriptions.** `SubscribeInv`: identifiers are given out once, so that two callers never hold the same (`IdInv`); a list of SUBACKs has one node of each,
and it is that of a caller that waits (`NodeInv`); whatever carries an acknowledgement, from the request on its way to the node, carries that of the
filter that was asked for under its identifier (`GrantInv`); what a call knows at each of its places (`CallInv`); a message that is due finds its handler listed (`DueInv`). A refusal, a reset or
another caller's scan can then only take a node away, never give a call the answer of another.

**OTA.** `AnnounceInv` says that the handle is set to what the message in hand announces, and that no message is in hand while a download is on.
For `AcceptedFirmwareWasWritten`, a file that passes has the digest that was fed: `WriteInv` says that what was written ends with what the
digest was fed, unless the digest was fed other data before; then a chunk is not at its place in the file (`Spoiled`), or the first chunk of this file is
to come and will be so (`Inherits`), and the check fails. That is why the inherited digest of section 5 can refuse a good firmware and never admit a bad one.

**Device reset.** The first theorem needs `RestartsCounted` (flash never counts a restart that was not, though the count is read and written in
two steps) and `RestoreBegun`. For the second every reply carries, wherever it is, how many resets the cloud had been told of when it sent it (`RepliesTold`):
a reply that answers the youngest reset proves that the cloud knows of it, and any other sets `late`, which is taken back when the flag is set or found set again.
Without `late` the theorem is false (section 5).

**Device binding.** `MulticastInv` follows a multicast that is kept: `g_notify_msg_id` names it, it is cancelled before that is forgotten, and until then the daemon is
at it or its timer is armed; but for the race that `overlapped` names. `NotifiedWasReported` rests on `ReportInv`: the daemon acts on a `suc` that is still set
unless another thread cleared it, and once the current token was reported the youngest report is of it, so that its reply says the cloud has that token. That the youngest is known by its
identifier is `AgeInv`, which holds while they do not wrap: with `Wraps = "yes"` the theorem is false (section 5). `BindTypes` adds to `TypeOK` what bounds the two counters (`CountInv`).

**CoAP server.** `ServerTypes` says where each thread is while it holds a mutex (`LockTypes`), and of what kind the node in its hands is. That is enough for
`NotifiedAreObservers`, as the observers change in sections of their mutex alone, and for `BlockedOnlyCrossed`, the safety half of what `EveryCallReturns`
promises. `MulticastsDoNotPileUp` matters because nothing but `__awss_devinfo_notify` takes a multicast from the list: were it to leave one each time, they would
fill the list and no answer would ever be sent again. `BeaconInv` says that the list has none but the one that `beacon` names, and none at all between the section that
cancels it and the one that lists the next. Each other step leaves of the list what it was, less some nodes (`LeftOf`), or appends a node that is not a multicast, and so is `Harmless`. For
`CoAPMessageId_cancel`, which goes through a list of any length, this is proved by induction (`Loop`): the library's induction theorems take an operator, which the provers cannot
instantiate, but that each set of numbers has a least one (`LeastNumber`) does as well. TLC checked the three invariants on a small instance before they were proved.

**Device model.** `ReplyInv`: a reply carries the cloud's answer wherever it is, on its way, in the hands of
the reading thread or in the queue. `CallInv`: a call that was woken with success waits for a request that was granted, and all its earlier ones were; with them each step is a step of
`SyncCall`, or a stutter (`MapsNext`, with a lemma each for a call that begins, asks and returns). `SyncCall` states no fairness, so this is the whole refinement. `LoginInv`: a login that the cloud has undone since is undone in the
table by a message that comes later, or by one that was passed over because its request was not cached yet.

**Provisioning.** `StopInv` says when a stop is under way; it holds that the thread that starts never comes to wait in `aws_destroy`, since a scan ends with a result or a stop. `SwitchInv`: the
driver is connected with the access point it is configured for, if with any, and a request configures another one only while the call waits for it on the phone's hotspot; so what `awss_start`
judges is what it asked for, however late the driver connects, unless a request outlived its wait. `HotspotInv`: while a call scans, what was taken has a place in the list, or the list is full (`Listed`), and
what is in hand was not taken, or has no place in the full list (`Fresh`); so it is when the scan is over, unless the call is stopped.

**Registrar.** That the frame is right is not inductive, as it is made of a place of the table:
`TableInv` says that a place that waits for a cipher is of a device that was checked in, and one that is served has that
device's key, or the zero key and the cloud has left that device's cipher out of a reply (`bare`). The daemon may come back to a place that is someone else's by then; all it does to it is to leave or empty it, or
to call it reported, which gives nobody a key.

Only model-checked:

- every liveness property and the fairness of the refinement of `AtLeastOnce`, which the prover does not reach; the properties of `CoapServer`'s run are all of this kind;
- `ReceivedIsSent` and `SoonReceived` of `SmartConfig`: the first is true up to the bound of two faults only (section 3), and
  the second is a bound on the frames that TLC measures, not one that an argument gives.

## 5. Where the code and its documents disagree

These were met while modelling, and the models do what the code does:

- A firmware inherits the digest and the count of what was fetched before: `ota_callback` starts them anew for a configuration only
  (`iotx_ota.c:135`), and `otalib_MD5Finalize` leaves its padding in the context. After any earlier download or check a valid firmware
  is answered 0, where `ota_api.h:213` says "0, firmware is invalid; 1, firmware is valid". `AcceptedFirmwareWasWritten` is the half that holds.
- `MQTTUnsubscribe` compares with one byte too many (`iotx_mqtt_client.c:2451`): the handler of a filter without a wildcard
  in its last level is never removed, and unsubscribing `/a` removes the handlers of `/+` and `/#`; `mqtt_api.h:283` promises the
  removal of the filter. `Unsubscribed` of `MqttWire` does what the code does.
- A read whose time ends in the middle of a packet drops what it has and leaves the client CONNECTED
  (`iotx_mqtt_client.c:658` returns FAIL_RETURN, `iotx_mqtt_client.c:1505` disconnects for MQTT_NETWORK_ERROR alone): the rest of the packet
  is read as the head of the next one. Over TLS no time need pass, as `HAL_SSL_Read` returns what one record holds.
  `InStep` says what holds until then; after it the model reads on, as the code does.
- Nobody heeds a PUBACK of which only a part was written (`iotx_mqtt_client.c:1554`), and a call that began before a reconnection
  may write a part of its packet into the new connection while its CONNACK is awaited: the DISCONNECTED it sets is
  overwritten at `iotx_mqtt_client.c:817`. `CutIsEnded` is about the writes of calls and pings on a connection that was accepted.
- An oversized packet is reported with SUCCESS and no type, and `iotx_mc_cycle` acts on a type it never set (`iotx_mqtt_client.c:1479`).
- A body too short for its fields is taken for success (`MQTTDeserializePublish.c`: `rc` still is the number of length bytes, 1).
- `_in_yield_cb` is global (`iotx_mqtt_client.c:2937`): a thread that subscribes while another is in a
  callback returns success with no SUBACK, where `mqtt_api.h:253` promises one. `WaitedCallWasGranted` is about the calls that wait.
- `keepalive_probes` is not reset by a reconnection (`iotx_mqtt_client.c:1493`): a healthy connection may
  be torn down by its first ping. `SettlesConnected` shows that it costs at most that.
- `iotx_mc_check_topic` accepts the name `/b/+` and the filters `/#/` and `/#/b`: `infra_strtok` drops a
  last level of one character (`infra_string.c:49`). It also looks at a copy, in which a topic of exactly
  `CONFIG_MQTT_TOPIC_MAXLEN` lacks its last character (`iotx_mqtt_client.c:2283`). `FilterServed` is what remains true.
- The scan for a SUBACK looks at the first node only (`iotx_mqtt_client.c:2999`): a second caller may
  time out although its SUBACK came. `WaitedCallWasGranted` and `EveryCallReturns` hold all the same.
- `IOT_OTA_FetchYield` writes `state` before `type` when it fails (`iotx_ota.c:700`): with a message in between, state FETCHING
  stays with type NONE and nothing is downloaded any more. `EveryUpgradeIsTried` excepts it.
- The reply of the cloud to a reset is not matched to its report (`awss_dev_reset.c:43`): the reply to the first reset clears the flag of the second,
  or keeps it from being reported (`awss_dev_reset.c:72`). Without `late` `ClearedMeansTold` and `ResetIsTold` fail in `DevReset.cfg`.
- The restore deletes its count before it erases the router (`factory_restore.c:61`): a power cut in
  between leaves the router in flash.
- `dev_bind_notify_mutex` does not exclude: it is made by the daemon (`awss_notify.c:389`), tested for by the stop (`awss_notify.c:468`) and
  destroyed by both with the other waiting (`awss_notify.c:451`, `awss_notify.c:488`). A stop that found none while the daemon sends leaves a
  multicast in the list for good, or gives a mutex it does not hold, which FreeRTOS asserts against. Without `overlapped` = "no" `NoMulticastIsLeft` fails.
- The daemon tells the token on a `suc` it read before it waited for that mutex (`awss_notify.c:379`): without `cleared`
  `NotifiedTokenWasReported` fails after a request that replaced the token in between.
- `awss_process_get_devinfo` and `awss_report_token_reply` stop their timers last (`awss_notify.c:299`, `awss_report.c:107`): a request taken, or a token
  replaced, just before has its timer stopped as well. The first keeps `coap_session_ctx` for ever; `RequestIsAnswered` excepts `crossed`.
- With `Wraps = "yes"` and `IdMod = 4` in `DevBind.cfg` `NotifiedTokenWasReported` fails: ids of reports are compared with `<` across their wrap
  (`awss_report.c:102`). There is also one report more than `MATCH_REPORT_CNT_MAX` (`awss_report.c:302`), and a reply that comes twice acknowledges
  a token that was not sent (`awss_notify.c:326` says the opposite).
- A message that was acknowledged before it is listed is sent again (`CoAPMessage.c:207`; the comment at `CoAPMessage.c:624` says it is not).
- Notifying and giving up lock the two lists of the CoAP server crosswise (`CoAPObserve.c:182`): both threads can wait for ever.
- Closing a subdevice sends no deletion of its topology (`impl_linkkit.c:1167` against `dev_model_api.h:116`); `IOT_Linkkit_Connect` of a
  subdevice returns 0 where the header promises its id; the reply to a deletion sets the status ATTACHED (`iotx_dm.h:149` says what it means).
- The test by which `dm_msg_thing_delete` looks for a device is inverted (`dm_message.c:1149`).
- The group frame that locks the channel is used after a new scan has begun (`awss_smartconfig.c:984` against the comment at
  `zconfig_protocol.c:111`); a stop that comes before the flags are set is forgotten (`awss_main.c:21` against `wifi_provision_api.h:28`).
- A hotspot for which the list of access points has no place, because beacons of 99 others came first, is put in place 0, where the search that begins
  with place 1 does not find it (`awss_aplist.c:213`): one scan after the other may take it again, up to `MAX_APLIST_NUM` times, and after that no hotspot is taken
  any more, until the list is cleared. `NoHotspotTwice` excepts it.
- An access point that `HAL_Awss_Connect_Ap` has given up may be reached all the same, as the driver goes on trying (`conn_mgr.c:183`): the
  router is saved, and the call, which has found no connection, scans on. A stop does nothing then, because `conn_mgr_stop` finds the device
  configured (`conn_mgr.c:315`).
- `switch_ap_done` is never reset: after a switch whose connection was lost, a later wait of the same or another call ends at once, also on a hotspot, and `awss_start`
  returns 0 there. `StartedMeansOnRouter` excepts it (`outlived`).
- A reply without a cipher, or with one too long, is no error (`awss_registrar.c:568`): the password is sent under a key of zeros. `PasswordOnlyToAdmitted`
  says that nothing else leads to that key.
- A reply with a cipher is known by its device alone (`awss_registrar.c:240`): with `MaxCheckins = 2` and `MaxAnswers = 2` in `Registrar.cfg`
  the late reply to an earlier request is taken, and the password is sent under a random the device no longer has.
- Reported devices are forgotten only by the timer of the reports, which a place that is taken, or a device that is heard again, arms
  (`awss_registrar.c:890`): a table full of devices that left stays full. A device whose cipher is lost stays checked in for ever
  (`awss_registrar.c:467` asks once). `awss_enrollee.h:134` says that any state ends in ENR_FREE.
- `checkin_timer` is created by the reply to a report alone (`awss_registrar.c:521`): a reply that is lost, or handled before the daemon is
  back from publishing, leaves devices checked in without a timer. `EachIsServed` excepts the two.
- `online_dev_bind_monitor` frees the place and not the frame (`awss_registrar.c:150`); `awss_registrar_deinit` does not stop the hearing, as
  `HAL_Wifi_Enable_Mgmt_Frame_Filter` refuses NULL (`wrapper_wifi.c:59`); `HAL_Wifi_Get_Ap_Info` never fills in the password (`wrapper_wifi.c`), so that the frame carries an empty one.
- The comment of `zconfig_vendor_common.c` "don't destroy zconfig_data until monitor_cb is finished" does not hold for a stop.

## 6. What is not modelled

The components with status `not_modelled` in `PROJECT.json`, each with its reason there. In the
components that are: allocation failures (but for that of a login's last request in `Upstream`), the release of handles while others use them, `infra_strtok`'s static
state shared by threads, calls into the client from its own callbacks (a yield from a callback waits
for its own lock), percentages and progress reports, the unlocking twice after a failed allocation and the node read after
its unlock in `dm_message_cache.c`, and all formatting of texts.

The share of `src/` that the map covers is small for a reason that more modelling would not change: most of the lines
are code that no build file compiles (`wrappers/external_libs`, with nghttp2 alone above 20,000 lines, `http`, `http2`, `coap_cloud`, the
deprecated interfaces, ALCS), parsers, digests and generated tables, or calls of ESP-IDF. What is built is some
40,000 lines, of which the modules hold about a fifth; most of the rest parses, formats or forwards.

## 7. Plan

Done, in the order of their weight: `AtLeastOnce`, `MqttClient` and its proofs, `MqttKeepalive`,
`MqttTopic`, `MqttPacket`, `MqttWire`, `MqttSubscribe`, `Ota`, `DevReset`, `DevBind`, `CoapServer`, `SyncCall`, `Upstream`, `Provision`, `SmartConfig`, `Registrar`,
and the proofs of section 4, which hold of every invariant within the prover's reach. Left, for the components that are `partly` modelled:

1. The release of a client and of the device model's handles while other threads use them.
2. Calls into the MQTT client from its own callbacks, and `infra_strtok` called by two threads at once, its state being static.
3. Failed allocations, where they leave something half done: a lock taken twice, a node listed without its data.

----------------------------- MODULE CoapServer -----------------------------
(***************************************************************************)
(* The CoAP server of the provisioning services: the list of messages that *)
(* wait for an acknowledgement, the peers that observe the list of access  *)
(* points, and the two threads that use them.  The thread of the server    *)
(* reads packets, sends again what is due and gives up what was sent often *)
(* enough; the daemon of the timers multicasts and notifies.  Each list    *)
(* has a mutex that is not recursive: a section that takes no other lock   *)
(* is one step here, a section that takes the second lock is several.      *)
(***************************************************************************)
EXTENDS Naturals, Sequences, SequencesExt, FiniteSets

CONSTANTS Peers,        \* phones on the network
          ObserveTypes, \* types of the requests to observe: "CON", "NON"
          PeerIds,      \* identifiers that phones give to their requests
          OwnIds,       \* identifiers that the server generates, in order
          MaxSend,      \* sendlist.maxcount
          MaxObs,       \* obsserver.maxcount
          MaxRetry,     \* COAP_MAX_RETRY_COUNT
          MaxBeacons,   \* AWSS_NOTIFY_CNT_MAX
          MaxRequests,  \* bound: requests of the phones
          MaxInbox      \* bound: packets on their way to the server

ASSUME CoapServerAssumption ==
    /\ ObserveTypes \subseteq {"CON", "NON"}
    /\ PeerIds \subseteq Nat
    /\ OwnIds \in Seq(Nat) /\ OwnIds # <<>>
    /\ MaxSend \in Nat \ {0} /\ MaxObs \in Nat /\ MaxRetry \in Nat \ {0}
    /\ MaxBeacons \in Nat /\ MaxRequests \in Nat /\ MaxInbox \in Nat

CoapThreads == {"server", "daemon"}
Nobody  == "nobody"
Group   == "group"            \* the address of the multicasts

VARIABLES sendlist,   \* nodes that wait, in the order they were listed
          observers,  \* phones that observe, with the type of their request
          owner,      \* who holds the mutex of each list
          pc,         \* where each thread is
          serving,    \* the packet or node that the server's thread is at
          notifying,  \* observers that a notification has yet to reach
          listing,    \* the node that the daemon has sent and not yet listed
          beacon,     \* identifier of the last multicast, 0: none
          beacons,    \* multicasts sent
          answered,   \* awss_notify_resp
          lastId,     \* place in OwnIds of the last identifier
          jobs,       \* timers of the daemon that have expired
          inbox,      \* packets on their way to the server
          air,        \* messages that were transmitted
          heard,      \* acknowledgements that were handled
          requests    \* requests that phones have made

locks == <<owner, pc>>
notes == <<notifying, listing>>
group == <<beacon, beacons, answered>>
phones == <<inbox, air, heard, requests>>
coapVars  == <<sendlist, observers, locks, serving, notes, group, lastId, jobs, phones>>

Kinds == {"answer", "notification", "multicast"}
Free(mutex) == owner[mutex] = Nobody
At(thread, place) == pc[thread] = place
Goto(thread, place) == pc' = [pc EXCEPT ![thread] = place]

\* CoAPMessageList_add: a confirmable message is sent again MaxRetry times; a
\* multicast is kept, never sent again and never given up.
Node(id, peer, kind) ==
    [id |-> id, peer |-> peer, kind |-> kind,
     tries |-> IF kind = "multicast" THEN 0 ELSE MaxRetry,
     due |-> FALSE, acked |-> FALSE]
Kept(n) == n.kind = "multicast"
NoNode == Node(0, Group, "multicast")

\* A full list refuses the message, which was transmitted all the same.
Listed(list, n) == IF Len(list) >= MaxSend THEN list ELSE Append(list, n)

\* CoAPMessageId_cancel takes every node that has the identifier.
Cancelled(list, id) ==
    LET rest[k \in 0 .. Len(list)] ==
          IF k = 0 THEN <<>>
          ELSE IF list[k].id = id THEN rest[k - 1]
          ELSE Append(rest[k - 1], list[k])
    IN  rest[Len(list)]

\* CoAPMessageId_gen
NextId == OwnIds[(lastId % Len(OwnIds)) + 1]
GenerateId == lastId' = (lastId % Len(OwnIds)) + 1

Packet(kind, id, peer, type) == [kind |-> kind, id |-> id, peer |-> peer, type |-> type]
Message(n) == [id |-> n.id, peer |-> n.peer, kind |-> n.kind]

NodeType == [id : Nat, peer : Peers \cup {Group}, kind : Kinds, tries : 0 .. MaxRetry,
             due : BOOLEAN, acked : BOOLEAN]

CoapTypeOK ==
    /\ sendlist \in Seq(NodeType) /\ Len(sendlist) <= MaxSend
    /\ observers \subseteq [peer : Peers, type : ObserveTypes]
    /\ Cardinality(observers) <= MaxObs
    /\ owner \in [{"send", "obs"} -> CoapThreads \cup {Nobody}]
    /\ owner["send"] = "server" <=> At("server", "forget")
    /\ owner["obs"] = "daemon" <=> pc["daemon"] \in {"notify", "list notification"}

CoapInit ==
    /\ sendlist = <<>> /\ observers = {}
    /\ owner = [m \in {"send", "obs"} |-> Nobody]
    /\ pc = [t \in CoapThreads |-> IF t = "server" THEN "read" ELSE "idle"]
    /\ serving = NoNode /\ notifying = {} /\ listing = NoNode
    /\ beacon = 0 /\ beacons = 0 /\ answered = FALSE
    /\ lastId = 0 /\ jobs = {"multicast"}
    /\ inbox = {} /\ air = {} /\ heard = {} /\ requests = 0

-----------------------------------------------------------------------------
(* The network and the phones.  A message or packet that is lost is one that *)
(* nobody goes on with.                                                      *)

Arrives(p) == Cardinality(inbox) < MaxInbox /\ inbox' = inbox \cup {p}

\* A phone acknowledges a confirmable message each time it gets it.
PeerAcks(m) ==
    /\ m.kind # "multicast"
    /\ Arrives(Packet("ack", m.id, m.peer, "ACK"))
    /\ UNCHANGED <<sendlist, observers, locks, serving, notes, group, lastId, jobs,
                   air, heard, requests>>

PeerAnswers(m, peer) ==
    /\ m.kind = "multicast"
    /\ Arrives(Packet("response", m.id, peer, "NON"))
    /\ UNCHANGED <<sendlist, observers, locks, serving, notes, group, lastId, jobs,
                   air, heard, requests>>

PeerAsks(peer, kind, id, type) ==
    /\ requests < MaxRequests
    /\ requests' = requests + 1
    /\ Arrives(Packet(kind, id, peer, type))
    /\ UNCHANGED <<sendlist, observers, locks, serving, notes, group, lastId, jobs,
                   air, heard>>

\* The time of a node passes.
BecomesDue(i) ==
    /\ ~sendlist[i].due
    /\ sendlist' = [sendlist EXCEPT ![i].due = TRUE]
    /\ UNCHANGED <<observers, locks, serving, notes, group, lastId, jobs, phones>>

-----------------------------------------------------------------------------
(* The thread of the server: CoAPMessage_cycle.                             *)

Read(p) == At("server", "read") /\ p \in inbox /\ inbox' = inbox \ {p}

\* CoAPAckMessage_handle.  Only the first node with the identifier is looked
\* at, whoever it was sent to; a response that is acknowledged is removed.
Acknowledged(list, id) ==
    LET hits == {i \in DOMAIN list : list[i].id = id}
        i    == CHOOSE j \in hits : \A k \in hits : j <= k
    IN  IF hits = {} THEN list
        ELSE IF Kept(list[i]) THEN [list EXCEPT ![i].acked = TRUE]
        ELSE RemoveAt(list, i)

HandleAck(p) ==
    /\ Read(p) /\ p.kind = "ack"
    /\ Free("send")
    /\ sendlist' = Acknowledged(sendlist, p.id)
    /\ heard' = heard \cup {<<p.id, p.peer>>}
    /\ UNCHANGED <<observers, locks, serving, notes, group, lastId, jobs, air, requests>>

\* CoAPRespMessage_handle: the multicast whose token the answer has is kept;
\* its handler, awss_notify_response, runs with no lock held.
HandleResponse(p) ==
    /\ Read(p) /\ p.kind = "response"
    /\ Free("send")
    /\ IF \E i \in DOMAIN sendlist : Kept(sendlist[i]) /\ sendlist[i].id = p.id
       THEN Goto("server", "answered")
       ELSE UNCHANGED pc
    /\ UNCHANGED <<sendlist, observers, owner, serving, notes, group, lastId, jobs,
                   air, heard, requests>>

NotifyResponse ==
    /\ At("server", "answered") /\ Goto("server", "read")
    /\ answered' = TRUE
    /\ UNCHANGED <<sendlist, observers, owner, serving, notes, beacon, beacons, lastId,
                   jobs, phones>>

\* A request for the list of access points: CoAPObsServer_add looks for the
\* observer in one section and adds it in another, then the answer is sent,
\* which is not listed.
HandleGetWifilist(p) ==
    /\ Read(p) /\ p.kind = "get"
    /\ Free("obs")
    /\ IF \E o \in observers : o.peer = p.peer
       THEN jobs' = jobs \cup {"notify"} /\ UNCHANGED <<pc, serving>>
       ELSE Goto("server", "observe") /\ serving' = p /\ UNCHANGED jobs
    /\ UNCHANGED <<sendlist, observers, owner, notes, group, lastId, air, heard, requests>>

AddObserver ==
    /\ At("server", "observe") /\ Goto("server", "read")
    /\ Free("obs")
    /\ observers' = IF Cardinality(observers) >= MaxObs THEN observers
                    ELSE observers \cup {[peer |-> serving.peer, type |-> serving.type]}
    /\ jobs' = jobs \cup {"notify"}
    /\ serving' = NoNode
    /\ UNCHANGED <<sendlist, owner, notes, group, lastId, phones>>

\* wifimgr_process_dev_ap_switchap_request: the answer, confirmable and with
\* the identifier of the request, is sent and listed.  If it says success, its
\* acknowledgement is waited for in this thread and the answer is cancelled.
HandleSwitchAp(p) ==
    /\ Read(p) /\ p.kind = "switch" /\ Goto("server", "answering")
    /\ serving' = Node(p.id, p.peer, "answer")
    /\ air' = air \cup {Message(serving')}
    /\ UNCHANGED <<sendlist, observers, owner, notes, group, lastId, jobs, heard, requests>>

ListAnswer ==
    /\ At("server", "answering")
    /\ Free("send")
    /\ sendlist' = Listed(sendlist, serving)
    /\ \/ Goto("server", "waiting") /\ UNCHANGED serving
       \/ Goto("server", "read") /\ serving' = NoNode
    /\ UNCHANGED <<observers, owner, notes, group, lastId, jobs, phones>>

CancelAnswer ==
    /\ At("server", "waiting") /\ Goto("server", "read")
    /\ Free("send")
    /\ sendlist' = Cancelled(sendlist, serving.id)
    /\ serving' = NoNode
    /\ UNCHANGED <<observers, owner, notes, group, lastId, jobs, phones>>

\* Nothing came while the read waited.
ReadTimesOut ==
    /\ At("server", "read") /\ Goto("server", "resend")
    /\ UNCHANGED <<sendlist, observers, owner, serving, notes, group, lastId, jobs, phones>>

\* Mutant: what is sent again is not counted.
ResentForEver(n) == IF n.due /\ n.tries > 0 THEN [n EXCEPT !.due = FALSE] ELSE n

\* Retansmit
IsResent(n) == n.due /\ n.tries > 0
Resent(n) == IF IsResent(n) THEN [n EXCEPT !.tries = @ - 1, !.due = FALSE] ELSE n
Retransmit ==
    /\ At("server", "resend") /\ Goto("server", "check")
    /\ Free("send")
    /\ sendlist' = [i \in DOMAIN sendlist |-> Resent(sendlist[i])]
    /\ air' = air \cup {Message(n) : n \in {k \in ToSet(sendlist) : IsResent(k) /\ ~k.acked}}
    /\ UNCHANGED <<observers, owner, serving, notes, group, lastId, jobs, inbox, heard,
                   requests>>

\* Check_timeout: the first node that was sent often enough is taken from the
\* list, and with the list still locked its peer is no observer any more.
IsGivenUp(n) == n.due /\ n.tries = 0 /\ ~Kept(n)
GivesUp == \E i \in DOMAIN sendlist : IsGivenUp(sendlist[i])
FirstGivenUp == CHOOSE i \in DOMAIN sendlist :
                    /\ IsGivenUp(sendlist[i])
                    /\ \A j \in 1 .. i - 1 : ~IsGivenUp(sendlist[j])
CheckTimeout ==
    /\ At("server", "check")
    /\ Free("send")
    /\ IF GivesUp
       THEN /\ owner' = [owner EXCEPT !["send"] = "server"]
            /\ serving' = sendlist[FirstGivenUp]
            /\ sendlist' = RemoveAt(sendlist, FirstGivenUp)
            /\ Goto("server", "forget")
       ELSE Goto("server", "read") /\ UNCHANGED <<owner, serving, sendlist>>
    /\ UNCHANGED <<observers, notes, group, lastId, jobs, phones>>

\* Mutant: the send list stays locked.
ForgetKeepsLock ==
    /\ At("server", "forget") /\ Goto("server", "check")
    /\ Free("obs")
    /\ observers' = {o \in observers : o.peer # serving.peer}
    /\ serving' = NoNode
    /\ UNCHANGED <<sendlist, owner, notes, group, lastId, jobs, phones>>

\* Mutant: an observer stays one although its message was given up.
ForgetNobody ==
    /\ At("server", "forget") /\ Goto("server", "check")
    /\ Free("obs")
    /\ owner' = [owner EXCEPT !["send"] = Nobody]
    /\ serving' = NoNode
    /\ UNCHANGED <<sendlist, observers, notes, group, lastId, jobs, phones>>

\* CoapObsServerAll_delete
ForgetObserver ==
    /\ At("server", "forget") /\ Goto("server", "check")
    /\ Free("obs")
    /\ observers' = {o \in observers : o.peer # serving.peer}
    /\ owner' = [owner EXCEPT !["send"] = Nobody]
    /\ serving' = NoNode
    /\ UNCHANGED <<sendlist, notes, group, lastId, jobs, phones>>

-----------------------------------------------------------------------------
(* The daemon of the timers.                                                *)

\* __awss_devinfo_notify: the multicast before is cancelled and a new one is
\* sent and listed, until one is answered or there were enough.
SendBeacon ==
    /\ At("daemon", "idle") /\ "multicast" \in jobs
    /\ ~answered /\ beacons < MaxBeacons
    /\ Free("send")
    /\ sendlist' = Cancelled(sendlist, beacon)
    /\ GenerateId /\ beacon' = NextId /\ beacons' = beacons + 1
    /\ listing' = Node(NextId, Group, "multicast")
    /\ air' = air \cup {Message(listing')}
    /\ Goto("daemon", "list beacon")
    /\ UNCHANGED <<observers, owner, serving, notifying, answered, jobs, inbox, heard,
                   requests>>

ListBeacon ==
    /\ At("daemon", "list beacon") /\ Goto("daemon", "idle")
    /\ Free("send")
    /\ sendlist' = Listed(sendlist, listing)
    /\ listing' = NoNode
    /\ UNCHANGED <<observers, owner, serving, notifying, group, lastId, jobs, phones>>

EndBeacons ==
    /\ At("daemon", "idle") /\ "multicast" \in jobs
    /\ answered \/ beacons = MaxBeacons
    /\ Free("send")
    /\ sendlist' = Cancelled(sendlist, beacon)
    /\ beacon' = 0 /\ beacons' = 0 /\ answered' = FALSE
    /\ jobs' = jobs \ {"multicast"}
    /\ UNCHANGED <<observers, locks, serving, notes, lastId, phones>>

\* wifimgr_scan_tx_wifilist, CoAPObsServer_notify: the observers stay locked
\* while a message is sent to each, as confirmable as its request was.
BeginNotify ==
    /\ At("daemon", "idle") /\ "notify" \in jobs
    /\ Free("obs")
    /\ owner' = [owner EXCEPT !["obs"] = "daemon"]
    /\ notifying' = observers
    /\ jobs' = jobs \ {"notify"}
    /\ Goto("daemon", "notify")
    /\ UNCHANGED <<sendlist, observers, serving, listing, group, lastId, phones>>

NotifyObserver(o) ==
    /\ At("daemon", "notify") /\ o \in notifying
    /\ notifying' = notifying \ {o}
    /\ GenerateId
    /\ IF o.type = "CON"
       THEN /\ listing' = Node(NextId, o.peer, "notification")
            /\ air' = air \cup {Message(listing')}
            /\ Goto("daemon", "list notification")
       ELSE UNCHANGED <<listing, air, pc>>
    /\ UNCHANGED <<sendlist, observers, owner, serving, group, jobs, inbox, heard, requests>>

ListNotification ==
    /\ At("daemon", "list notification") /\ Goto("daemon", "notify")
    /\ Free("send")
    /\ sendlist' = Listed(sendlist, listing)
    /\ listing' = NoNode
    /\ UNCHANGED <<observers, owner, serving, notifying, group, lastId, jobs, phones>>

FinishNotify ==
    /\ At("daemon", "notify") /\ notifying = {} /\ Goto("daemon", "idle")
    /\ owner' = [owner EXCEPT !["obs"] = Nobody]
    /\ UNCHANGED <<sendlist, observers, serving, notes, group, lastId, jobs, phones>>

-----------------------------------------------------------------------------
Network ==
    \/ \E m \in air : PeerAcks(m) \/ (\E peer \in Peers : PeerAnswers(m, peer))
    \/ \E peer \in Peers :
          \/ \E type \in ObserveTypes : PeerAsks(peer, "get", 0, type)
          \/ \E id \in PeerIds : PeerAsks(peer, "switch", id, "CON")
Time == \E i \in DOMAIN sendlist : BecomesDue(i)

Handle == \E p \in inbox : \/ HandleAck(p) \/ HandleResponse(p)
                           \/ HandleGetWifilist(p) \/ HandleSwitchAp(p)
Server ==
    \/ NotifyResponse \/ AddObserver \/ ListAnswer \/ CancelAnswer
    \/ Retransmit \/ CheckTimeout \/ ForgetObserver
Daemon ==
    \/ SendBeacon \/ ListBeacon \/ EndBeacons
    \/ BeginNotify \/ ListNotification \/ FinishNotify
    \/ \E o \in notifying : NotifyObserver(o)

CoapNext == Network \/ Time \/ Handle \/ ReadTimesOut \/ Server \/ Daemon
CoapSpec == CoapInit /\ [][CoapNext]_coapVars

\* The threads run, the clock too, and a lock that is free again and again is
\* taken at last.  Packets do not come without a pause for ever: the read times
\* out again and again.  Nothing is asked of the network and the phones.
FairCoapSpec ==
    /\ CoapSpec
    /\ WF_coapVars(Time) /\ SF_coapVars(ReadTimesOut)
    /\ SF_coapVars(Server) /\ SF_coapVars(Daemon)

-----------------------------------------------------------------------------
(* Properties.                                                              *)

\* The server gives up a message, with the send list locked, and asks for the
\* observers, which the daemon has locked while it lists a message for one that
\* asked for confirmable notifications.  CoAPMessage.c:593 and CoAPObserve.c:182
\* take the two mutexes in opposite orders.
Crossed ==
    /\ At("server", "forget") /\ At("daemon", "list notification")

\* Both threads come back from every message, timer and lock, unless the two
\* lists are locked crosswise: there is no other way to block them.
EveryCallReturns ==
    /\ ~At("server", "read") ~> At("server", "read") \/ Crossed
    /\ ~At("daemon", "idle") ~> At("daemon", "idle") \/ Crossed

\* What waits for an acknowledgement leaves the list: acknowledged, cancelled
\* or given up after COAP_MAX_RETRY_COUNT times.  Only multicasts stay.
Waits(id, peer) == \E i \in DOMAIN sendlist : /\ sendlist[i].id = id
                                             /\ sendlist[i].peer = peer
EveryMessageEnds ==
    \A peer \in Peers : \A id \in ToSet(OwnIds) \cup PeerIds :
        Waits(id, peer) ~> ~Waits(id, peer) \/ Crossed

\* A phone that acknowledges no notification is an observer no longer.
Unheard(peer) == \A id \in ToSet(OwnIds) : <<id, peer>> \notin heard
SilentObserverIsForgotten ==
    \A peer \in Peers :
        (\E id \in ToSet(OwnIds) : Waits(id, peer)) ~>
            ~Unheard(peer) \/ (\A o \in observers : o.peer # peer) \/ Crossed

=============================================================================

------------------------------ MODULE Upstream ------------------------------
(***************************************************************************)
(* Requests of the device model to the cloud, in the build for gateways:   *)
(* the calls of the application that wait for a reply, the cache of        *)
(* requests that are not answered yet, the queue of events, the thread     *)
(* that reads the connection, the thread of the application that delivers  *)
(* the events (IOT_Linkkit_Yield), opening and closing.  A call holds      *)
(* ctx->mutex from its beginning to its end, the waiting included.         *)
(*   A section under the mutex of the cache, of the queue or of the list   *)
(* of waiting calls takes no other lock but the queue's and is one step.   *)
(***************************************************************************)
EXTENDS Naturals, Sequences, FiniteSets

CONSTANTS Callers,      \* threads of the application that make calls
          Devices,      \* subdevices
          PostReplies,  \* DM_OPT_DOWNSTREAM_EVENT_POST_REPLY
          Calls,        \* bound: calls that these threads make
          MaxQueue,     \* CONFIG_DISPATCH_QUEUE_MAXLEN
          MaxCache,     \* CONFIG_MSGCACHE_QUEUE_MAXLEN
          MaxRequests,  \* bound: requests that are made
          MaxOpens      \* bound: times that the master is opened

CallNames == {"connect", "login", "logout", "delete_topo", "post", "close"}

Dispatcher == "dispatcher"
Closer     == "closer"
Nobody     == "nobody"

ASSUME UpstreamAssumption ==
    /\ Calls \subseteq CallNames
    /\ {Dispatcher, Closer, Nobody} \cap Callers = {}
    /\ PostReplies \in BOOLEAN
    /\ MaxQueue \in Nat /\ MaxCache \in Nat
    /\ MaxRequests \in Nat /\ MaxOpens \in Nat

Threads    == Callers \cup {Dispatcher}
Ids        == 1 .. MaxRequests

VARIABLES life,      \* is_opened, is_connected and what lies between
          opens,     \* times that the master was opened
          lock,      \* who holds ctx->mutex
          pc,        \* where each thread is
          job,       \* the call that each thread is in, and its device
          plan,      \* requests that this call has yet to make
          waits,     \* the last request of the call, as the list has it
          result,    \* what the call returns
          devs,      \* dev_status of each device, or "absent"
          secret,    \* devices whose device_secret is known
          cache,     \* requests that wait for their reply, oldest first
          queue,     \* events that wait to be delivered
          yielder,   \* the thread that reads the connection
          conns,     \* inited_conn_num
          down,      \* messages of the cloud on their way to the device
          answer,    \* what the cloud has answered to each request
          online,    \* devices that the cloud has logged in
          req,       \* requests that were made
          asked,     \* requests of the last call of each thread
          settled,   \* requests the application was told of, or whose event
                     \* the full queue refused
          missed,    \* requests that their reply did not find in the cache, or
                     \* did not find the device of
          credit     \* requests that may still be made

threads == <<lock, pc, job, plan, waits, result, asked>>
master  == <<life, opens, conns>>
things  == <<devs, secret>>
cloud   == <<answer, online>>
history == <<settled, missed, credit>>
vars == <<master, threads, things, cache, queue, yielder, down, cloud, req, history>>

Statuses == {"absent", "authorized", "registered", "attached", "logined", "closed"}
Ops      == {"register", "topo_add", "login", "logout", "topo_delete", "post", "device_info"}

\* The requests that a call makes, one after the other.
Connect    == <<"register", "topo_add">>
DeleteTopo == <<"topo_delete">>
Login      == <<"login", "device_info">>
Logout     == <<"logout">>
Report     == <<"post">>
Steps(call) ==
    CASE call = "connect" -> Connect [] call = "delete_topo" -> DeleteTopo
      [] call = "login" -> Login     [] call = "logout" -> Logout
      [] call = "post" -> Report     [] call = "close" -> <<>>

\* What the device is (iotx_dm_send_aos_active) and what it reports is sent
\* without waiting for the reply.
Waits(op) == op \notin {"post", "device_info"}

\* Defect: a logout that the cloud granted does not change the status of the device.
LogoutReplyIgnored == [by |-> "names", status |-> "same"]

\* What the handler of a reply matches it by, its identifier in the cache or
\* the names of the device that it carries, and what a success makes of the
\* device.
RegisterReply   == [by |-> "names", status |-> "registered"]
TopoAddReply    == [by |-> "cache", status |-> "attached"]
TopoDeleteReply == [by |-> "cache", status |-> "attached"]
LoginReply      == [by |-> "names", status |-> "logined"]
LogoutReply     == [by |-> "names", status |-> "attached"]
PostReply       == [by |-> "cache", status |-> "same"]
DeviceInfoReply == [by |-> "cache", status |-> "same"]
Reply(op) ==
    CASE op = "register" -> RegisterReply [] op = "topo_add" -> TopoAddReply
      [] op = "topo_delete" -> TopoDeleteReply [] op = "login" -> LoginReply
      [] op = "logout" -> LogoutReply [] op = "post" -> PostReply
      [] op = "device_info" -> DeviceInfoReply
ByCache(op) == Reply(op).by = "cache"

Waiting(i) == [id |-> i, listed |-> FALSE, code |-> "ok", posts |-> 0]
NoWait == Waiting(0)
NoHand == [kind |-> "none", id |-> 0, code |-> "ok"]
AtHome(t) == pc[t] = "idle"
Goto(t, place) == pc' = [pc EXCEPT ![t] = place]
Event(kind, id, code) == [kind |-> kind, id |-> id, code |-> code]
CachedIds == {cache[k] : k \in DOMAIN cache}
Known(d)  == devs[d] \notin {"absent", "closed"}
Dev(id) == req[id].dev
Op(id)  == req[id].op

\* dm_ipc_msg_insert: a full queue refuses the event, and it is freed.
Tell(e) == IF Len(queue) < MaxQueue
           THEN queue' = Append(queue, e) /\ UNCHANGED settled
           ELSE UNCHANGED queue /\ settled' = settled \cup {e.id}

Init ==
    /\ life = "closed" /\ opens = 0 /\ lock = Nobody
    /\ pc = [t \in Threads |-> "idle"]
    /\ job = [t \in Threads |-> <<>>]
    /\ plan = [t \in Threads |-> <<>>]
    /\ waits = [t \in Threads |-> NoWait]
    /\ result = [t \in Threads |-> "none"]
    /\ asked = [t \in Threads |-> {}]
    /\ devs = [d \in Devices |-> "absent"] /\ secret = {}
    /\ cache = <<>> /\ queue = <<>>
    /\ yielder = [at |-> "none", hand |-> NoHand] /\ conns = 0
    /\ down = <<>> /\ answer = [i \in Ids |-> "none"] /\ online = {}
    /\ req = <<>> /\ settled = {} /\ missed = {}
    /\ credit = MaxRequests

-----------------------------------------------------------------------------
(* Opening and closing the master device.                                    *)

MasterOpen ==
    /\ life = "closed" /\ opens < MaxOpens
    /\ life' = "open" /\ opens' = opens + 1
    /\ devs' = [d \in Devices |-> "absent"] /\ secret' = {}
    /\ cache' = <<>> /\ queue' = <<>>
    /\ yielder' = [at |-> "none", hand |-> NoHand]
    /\ UNCHANGED <<conns, threads, down, cloud, req, history>>

\* The first connection creates the thread that reads it, which runs when it
\* is scheduled.
MasterConnect ==
    /\ life = "open" /\ lock = Nobody
    /\ life' = "connected" /\ conns' = conns + 1
    /\ yielder' = IF conns = 0 THEN [yielder EXCEPT !.at = "born"] ELSE yielder
    /\ UNCHANGED <<opens, threads, things, cache, queue, down, cloud, req, history>>

\* The application closes the master when no other thread of it is in a call.
BeginClose ==
    /\ life \in {"open", "connected"} /\ lock = Nobody
    /\ \A t \in Threads : AtHome(t)
    /\ lock' = Closer /\ life' = "closing"
    /\ conns' = IF conns > 0 THEN conns - 1 ELSE 0
    /\ UNCHANGED <<opens, pc, job, plan, waits, result, asked, things, cache, queue,
                   yielder, down, cloud, req, history>>

\* With the last connection closing waits for yield_task_leave, which is 1 also
\* before the thread ran for the first time.
SeesLeave ==
    /\ life = "closing"
    /\ conns = 0 => yielder.at \in {"none", "born", "left"}
    /\ life' = "joining"
    /\ UNCHANGED <<opens, conns, threads, things, cache, queue, yielder, down, cloud, req,
                   history>>

\* HAL_ThreadDelete joins the thread, so that it still runs to its end; then the
\* connection and the rest are freed.
EndClose ==
    /\ life = "joining"
    /\ conns = 0 => yielder.at \in {"none", "left"}
    /\ life' = "closed" /\ lock' = Nobody
    /\ devs' = [d \in Devices |-> "absent"] /\ secret' = {}
    /\ queue' = <<>> /\ cache' = <<>> /\ down' = <<>>
    /\ UNCHANGED <<opens, conns, pc, job, plan, waits, result, asked, yielder,
                   cloud, req, history>>

\* IOT_Linkkit_Open of a subdevice, with its device_secret or without.
\* Bound: a device that was closed is not opened again.
SlaveOpen(d, given) ==
    /\ life \in {"open", "connected"} /\ devs[d] = "absent"
    /\ devs' = [devs EXCEPT ![d] = "authorized"]
    /\ secret' = IF given THEN secret \cup {d} ELSE secret
    /\ UNCHANGED <<master, threads, cache, queue, yielder, down, cloud, req, history>>

-----------------------------------------------------------------------------
(* A call of the application.                                                *)

Begin(t, call, d) ==
    /\ job' = [job EXCEPT ![t] = <<call, d>>]
    /\ plan' = [plan EXCEPT ![t] = Steps(call)]
    /\ result' = [result EXCEPT ![t] = "none"]
    /\ Goto(t, "lock")
Spend(n) == credit >= n /\ credit' = credit - n
Costs(call) == IF call = "login" THEN 1 ELSE Len(Steps(call))

\* is_opened and is_connected are read before the mutex is taken.
Call(t, call, d) ==
    /\ t \in Callers /\ pc[t] = "idle" /\ life = "connected"
    /\ Begin(t, call, d) /\ Spend(Costs(call))
    /\ UNCHANGED <<master, lock, waits, asked, things, cache, queue, yielder, down, cloud,
                   req, settled, missed>>

Lock(t) ==
    /\ pc[t] = "lock" /\ lock = Nobody
    /\ lock' = t
    /\ Goto(t, IF job[t][1] = "close" THEN "destroy" ELSE "send")
    /\ UNCHANGED <<master, job, plan, waits, result, asked, things, cache, queue, yielder,
                   down, cloud, req, history>>

\* Defect: a failure returns without the unlock.
EndsLocked(t, res) ==
    /\ result' = [result EXCEPT ![t] = res]
    /\ plan' = [plan EXCEPT ![t] = <<>>]
    /\ asked' = [asked EXCEPT ![t] = {}]
    /\ job' = [job EXCEPT ![t] = <<>>]
    /\ Goto(t, "idle") /\ lock' = (IF res = "failed" THEN lock ELSE Nobody)

\* The call returns, and unlocks on its way.
Ends(t, res) == /\ result' = [result EXCEPT ![t] = res]
                /\ plan' = [plan EXCEPT ![t] = <<>>]
                /\ asked' = [asked EXCEPT ![t] = {}]
                /\ job' = [job EXCEPT ![t] = <<>>]
                /\ Goto(t, "idle") /\ lock' = Nobody
Continues(t, place) == Goto(t, place) /\ UNCHANGED <<lock, job, result, asked>>

\* iotx_dm_subdev_destroy: the device is forgotten here; nothing is sent.
Destroy(t) ==
    /\ pc[t] = "destroy"
    /\ devs' = [devs EXCEPT ![job[t][2]] = "closed"] /\ secret' = secret \ {job[t][2]}
    /\ Ends(t, "ok")
    /\ UNCHANGED <<master, waits, cache, queue, yielder, down, cloud, req, history>>

\* A device that is registered is not registered again; a device that is not
\* known, or not logged in, does not get as far as sending.
Refused(op, d) == ~Known(d) \/ (op = "logout" /\ devs[d] # "logined")

SkipsRegister(t) ==
    /\ pc[t] = "send" /\ Head(plan[t]) = "register" /\ Known(job[t][2])
    /\ job[t][2] \in secret
    /\ plan' = [plan EXCEPT ![t] = Tail(@)]
    /\ UNCHANGED <<master, lock, pc, job, waits, result, asked, things, cache, queue, yielder,
                   down, cloud, req, history>>

SendRefused(t) ==
    /\ pc[t] = "send" /\ Refused(Head(plan[t]), job[t][2])
    /\ Ends(t, "failed")
    /\ UNCHANGED <<master, waits, things, cache, queue, yielder, down, cloud, req, history>>

\* Whether the publishing worked is not asked.  Bound: the call has credit for
\* the requests that it waits for, so this is not what keeps it waiting.
Send(t) ==
    /\ pc[t] = "send" /\ Len(req) < MaxRequests
    /\ LET op == Head(plan[t])   d == job[t][2]   id == Len(req) + 1 IN
       /\ ~Refused(op, d) /\ ~(op = "register" /\ d \in secret)
       /\ req' = Append(req, [op |-> op, dev |-> d])
       /\ waits' = [waits EXCEPT ![t] = Waiting(id)]
       /\ asked' = IF Waits(op) THEN [asked EXCEPT ![t] = @ \cup {id}] ELSE asked
       /\ plan' = [plan EXCEPT ![t] = Tail(@)]
       /\ IF op = "device_info" THEN Spend(1) ELSE UNCHANGED credit
    /\ Goto(t, "cache")
    /\ UNCHANGED <<master, lock, job, result, things, cache, queue, yielder, down, cloud,
                   settled, missed>>

\* The last request of a login is not made (no memory for it): nobody asks.
InfoFails(t) ==
    /\ pc[t] = "send" /\ Head(plan[t]) = "device_info"
    /\ plan' = [plan EXCEPT ![t] = Tail(@)]
    /\ Continues(t, "callback")
    /\ UNCHANGED <<master, waits, things, cache, queue, yielder, down, cloud, req, history>>

\* The request enters the cache after it was sent, if the cache has room; a
\* request whose reply is not waited for ends its call, or is the last of a login.
Cache(t) ==
    /\ pc[t] = "cache"
    /\ LET id == waits[t].id   op == Op(id) IN
       /\ cache' = IF Len(cache) < MaxCache /\ (op = "post" => PostReplies)
                   THEN Append(cache, id) ELSE cache
       /\ IF Waits(op) THEN Continues(t, "list") /\ UNCHANGED <<plan, waits>>
          ELSE /\ waits' = [waits EXCEPT ![t] = NoWait]
               /\ IF op = "post" THEN Ends(t, "ok") ELSE Continues(t, "callback") /\ UNCHANGED plan
    /\ UNCHANGED <<master, things, queue, yielder, down, cloud, req, history>>

\* The call enters the list of those that wait after its request was sent.
List(t) ==
    /\ pc[t] = "list"
    /\ waits' = [waits EXCEPT ![t].listed = TRUE]
    /\ Goto(t, "wait")
    /\ UNCHANGED <<master, lock, job, plan, result, asked, things, cache, queue, yielder,
                   down, cloud, req, history>>

\* After a success the next request is made, that of a login when the topics of
\* the device were subscribed to.
Answered(t) ==
    /\ pc[t] = "wait" /\ waits[t].posts > 0
    /\ waits' = [waits EXCEPT ![t] = NoWait]
    /\ IF waits[t].code # "ok" THEN Ends(t, "failed")
       ELSE IF plan[t] # <<>>
       THEN /\ Continues(t, IF Head(plan[t]) = "device_info" THEN "subscribe" ELSE "send")
            /\ UNCHANGED plan
       ELSE Ends(t, "ok")
    /\ UNCHANGED <<master, things, cache, queue, yielder, down, cloud, req, history>>

\* iotx_dm_subscribe fails for a device that is not known only.
Subscribe(t) ==
    /\ pc[t] = "subscribe"
    /\ IF Known(job[t][2]) THEN Continues(t, "send") /\ UNCHANGED plan ELSE Ends(t, "failed")
    /\ UNCHANGED <<master, waits, things, cache, queue, yielder, down, cloud, req, history>>

\* ITE_INITIALIZE_COMPLETED: the application is told of the login with
\* ctx->mutex held.  Assumed: what it registered makes no call that takes it.
Callback(t) ==
    /\ pc[t] = "callback"
    /\ Ends(t, "ok")
    /\ UNCHANGED <<master, waits, things, cache, queue, yielder, down, cloud, req, history>>

TimesOut(t) ==
    /\ pc[t] = "wait" /\ waits[t].posts = 0
    /\ waits' = [waits EXCEPT ![t] = NoWait]
    /\ Ends(t, "failed")
    /\ UNCHANGED <<master, things, cache, queue, yielder, down, cloud, req, history>>

-----------------------------------------------------------------------------
(* The cloud, and messages on their way.                                     *)

\* Bound: the cloud does nothing that matters once the connection is closed.
Arrives(m) == conns > 0 /\ down' = Append(down, m)

\* The cloud answers in any order, or never: the request, or the answer, is
\* lost.  A refusal carries the names of the device ("refused") or does not.
\* Bound: the code of a reply that nobody waits for, which nothing here depends
\* on, is always the same.
CloudAnswers(i, code) ==
    /\ answer[i] = "none"
    /\ code = "bare" => ~ByCache(Op(i))
    /\ code # "ok" => Waits(Op(i))
    /\ answer' = [answer EXCEPT ![i] = code]
    /\ Arrives(Event("reply", i, code))
    /\ online' = IF code # "ok" THEN online
                 ELSE CASE Op(i) = "login" -> online \cup {Dev(i)}
                        [] Op(i) \in {"logout", "topo_delete"} -> online \ {Dev(i)}
                        [] OTHER -> online
    /\ UNCHANGED <<master, threads, things, cache, queue, yielder, req, history>>

\* A request for a service; the credit is for what it makes the application
\* report.
CloudAsks ==
    /\ Arrives(Event("service", 0, "ok")) /\ Spend(1)
    /\ UNCHANGED <<master, threads, things, cache, queue, yielder, cloud, req, settled,
                   missed>>

-----------------------------------------------------------------------------
(* The thread that reads the connection.                                     *)

At(place) == yielder.at = place

\* It finds the connection, or that the connection was closed in the meantime.
YielderStarts ==
    /\ At("born")
    /\ yielder' = [yielder EXCEPT !.at = IF conns > 0 THEN "poll" ELSE "left"]
    /\ UNCHANGED <<master, threads, things, cache, queue, down, cloud, req, history>>

SetDevice(i) ==
    /\ devs' = IF Known(Dev(i)) /\ Reply(Op(i)).status # "same"
               THEN [devs EXCEPT ![Dev(i)] = Reply(Op(i)).status] ELSE devs
    /\ secret' = IF Op(i) = "register" THEN secret \cup {Dev(i)} ELSE secret

\* The request, or its device, is looked for, and the device is set.
ReceiveReply ==
    /\ At("poll") /\ down # <<>> /\ Head(down).kind = "reply"
    /\ LET m == Head(down)   i == m.id
           found == IF ByCache(Op(i)) THEN i \in CachedIds ELSE Known(Dev(i)) IN
       /\ down' = Tail(down)
       /\ IF found /\ m.code = "ok" THEN SetDevice(i) ELSE UNCHANGED things
       /\ yielder' = [at |-> IF found /\ m.code # "bare" THEN "tell" ELSE "remove", hand |-> m]
       /\ missed' = IF found THEN missed ELSE missed \cup {i}
    /\ UNCHANGED <<master, threads, cache, queue, cloud, req, settled, credit>>

TellReply ==
    /\ At("tell")
    /\ Tell(yielder.hand)
    /\ yielder' = [yielder EXCEPT !.at = "remove"]
    /\ UNCHANGED <<master, threads, things, cache, down, cloud, req, missed, credit>>

\* The request leaves the cache, where it is once, whatever became of its reply.
Remove ==
    /\ At("remove")
    /\ \/ yielder.hand.id \notin CachedIds /\ UNCHANGED cache
       \/ \E k \in DOMAIN cache :
             /\ cache[k] = yielder.hand.id
             /\ cache' = SubSeq(cache, 1, k - 1) \o SubSeq(cache, k + 1, Len(cache))
    /\ yielder' = [at |-> "poll", hand |-> NoHand]
    /\ UNCHANGED <<master, threads, things, queue, down, cloud, req, history>>

ReceiveService ==
    /\ At("poll") /\ down # <<>> /\ Head(down).kind = "service"
    /\ down' = Tail(down) /\ Tell(Head(down))
    /\ UNCHANGED <<master, threads, things, cache, yielder, cloud, req, missed, credit>>

\* The loop ends after the read in which the connection was closed.
YielderLeaves ==
    /\ At("poll") /\ conns = 0
    /\ yielder' = [yielder EXCEPT !.at = "left"]
    /\ UNCHANGED <<master, threads, things, cache, queue, down, cloud, req, history>>

-----------------------------------------------------------------------------
(* The thread of the application that delivers the events.                   *)

\* Defect: the request whose time is over leaves the cache silently.
TickSilently(n) ==
    /\ AtHome(Dispatcher) /\ life = "connected" /\ n \in 1 .. Len(cache)
    /\ cache' = SubSeq(cache, n + 1, Len(cache))
    /\ UNCHANGED <<master, threads, things, queue, yielder, down, cloud, req, history>>

\* dm_msg_cache_tick: the n oldest requests have been in the cache for
\* DM_MSG_CACHE_TIMEOUT_MS_DEFAULT; each is told of as far as the queue has
\* room, and leaves the cache.
Tick(n) ==
    /\ AtHome(Dispatcher) /\ life = "connected" /\ n \in 1 .. Len(cache)
    /\ LET fit == IF MaxQueue - Len(queue) < n THEN MaxQueue - Len(queue) ELSE n IN
       /\ queue' = queue \o [k \in 1 .. fit |-> Event("timeout", cache[k], "failed")]
       /\ settled' = settled \cup {cache[k] : k \in fit + 1 .. n}
    /\ cache' = SubSeq(cache, n + 1, Len(cache))
    /\ UNCHANGED <<master, threads, things, yielder, down, cloud, req, missed, credit>>

\* Defect: the code of the reply is not passed on.
WakeAnyway(e) == waits' = [t \in Threads |->
    IF waits[t].listed /\ waits[t].id = e.id
    THEN [waits[t] EXCEPT !.code = "ok", !.posts = @ + 1] ELSE waits[t]]

\* _iotx_linkkit_upstream_callback_remove: the call that waits for this
\* request, if it is in the list, gets the code and is woken.
Wake(e) == waits' = [t \in Threads |->
    IF waits[t].listed /\ waits[t].id = e.id
    THEN [waits[t] EXCEPT !.code = IF e.code = "ok" THEN "ok" ELSE "failed", !.posts = @ + 1]
    ELSE waits[t]]

Delivers(kinds) == /\ AtHome(Dispatcher) /\ life = "connected"
                   /\ queue # <<>> /\ Head(queue).kind \in kinds
                   /\ queue' = Tail(queue)

Deliver ==
    /\ Delivers({"reply", "timeout"})
    /\ settled' = settled \cup {Head(queue).id}
    /\ IF Waits(Op(Head(queue).id)) THEN Wake(Head(queue)) ELSE UNCHANGED waits
    /\ UNCHANGED <<master, lock, pc, job, plan, result, asked, things, cache, yielder, down,
                   cloud, req, missed, credit>>

\* The callback of the application may report what the service changed.
DeliverService ==
    /\ Delivers({"service"})
    /\ \/ \E d \in Devices : Begin(Dispatcher, "post", d)
       \/ UNCHANGED <<pc, job, plan, result>>
    /\ UNCHANGED <<master, lock, waits, asked, things, cache, yielder, down, cloud, req,
                   history>>

-----------------------------------------------------------------------------
Step(t) == \/ SkipsRegister(t) \/ SendRefused(t) \/ Send(t) \/ InfoFails(t) \/ Cache(t) \/ List(t)
           \/ Destroy(t) \/ Answered(t) \/ Subscribe(t) \/ Callback(t)

Next ==
    \/ MasterOpen \/ MasterConnect \/ BeginClose \/ SeesLeave \/ EndClose
    \/ \E d \in Devices, given \in BOOLEAN : SlaveOpen(d, given)
    \/ \E t \in Callers, call \in Calls, d \in Devices : Call(t, call, d)
    \/ \E t \in Threads : Lock(t) \/ Step(t) \/ TimesOut(t)
    \/ \E i \in DOMAIN req, code \in {"ok", "refused", "bare"} : CloudAnswers(i, code)
    \/ CloudAsks
    \/ YielderStarts \/ ReceiveReply \/ TellReply \/ Remove \/ ReceiveService \/ YielderLeaves
    \/ (\E n \in 1 .. MaxCache : Tick(n)) \/ Deliver \/ DeliverService

Spec == Init /\ [][Next]_vars

\* Threads are scheduled and time passes: a request that stays in the cache
\* gets old, a mutex that is free again and again is taken.  The application
\* goes on calling IOT_Linkkit_Yield.
FairSpec ==
    /\ Spec
    /\ \A t \in Threads : SF_vars(Lock(t)) /\ WF_vars(Step(t)) /\ WF_vars(TimesOut(t))
    /\ WF_vars(SeesLeave) /\ WF_vars(EndClose)
    /\ WF_vars(YielderStarts) /\ WF_vars(YielderLeaves)
    /\ WF_vars(ReceiveReply \/ TellReply \/ Remove \/ ReceiveService)
    /\ SF_vars(Tick(Len(cache))) /\ SF_vars(Deliver \/ DeliverService)

-----------------------------------------------------------------------------
(* Properties.                                                               *)

InFlight == {yielder.hand.id} \cup {down[k].id : k \in DOMAIN down}

Places   == {"idle", "lock", "send", "cache", "list", "wait", "subscribe", "callback", "destroy"}
Codes    == {"ok", "refused", "bare", "failed"}
Messages == [kind : {"none", "reply", "timeout", "service"}, id : Nat, code : Codes]
Plans    == {<<>>, Connect, <<"topo_add">>, DeleteTopo, Login, <<"device_info">>, Logout, Report}

Inside   == Places \ {"idle", "lock"}

MasterType == /\ life \in {"closed", "open", "connected", "closing", "joining"}
              /\ opens \in Nat /\ conns \in Nat
ThreadType ==
    /\ lock \in Threads \cup {Closer, Nobody}
    /\ pc \in [Threads -> Places]
    /\ job \in [Threads -> {<<>>} \cup (CallNames \X Devices)]
    /\ plan \in [Threads -> Plans]
    /\ result \in [Threads -> {"none", "ok", "failed"}]
    /\ asked \in [Threads -> SUBSET Ids]
CallShape == \A t \in Threads :
    /\ pc[t] \in Inside <=> lock = t
    /\ pc[t] # "idle" => job[t] # <<>>
    /\ pc[t] = "lock" => plan[t] = Steps(job[t][1])
    /\ pc[t] \in {"send", "subscribe"} => plan[t] # <<>>
    /\ waits[t].listed => pc[t] = "wait"
ClosingHolds == life \in {"closing", "joining"} => lock = Closer
WaitType  == waits \in [Threads -> [id : Nat, listed : BOOLEAN, code : {"ok", "failed"}, posts : Nat]]
ThingType == devs \in [Devices -> Statuses] /\ secret \subseteq Devices
TrafficType ==
    /\ cache \in Seq(Nat) /\ down \in Seq(Messages)
    /\ queue \in Seq(Messages) /\ Len(queue) <= MaxQueue
    /\ yielder \in [at : {"none", "born", "poll", "tell", "remove", "left"}, hand : Messages]
CloudType ==
    /\ answer \in [Ids -> Codes \cup {"none"}] /\ online \subseteq Devices
    /\ req \in Seq([op : Ops, dev : Devices]) /\ Len(req) <= MaxRequests
HistoryType == settled \subseteq Nat /\ missed \subseteq Nat /\ credit \in Nat

Types ==
    /\ MasterType /\ ThreadType /\ WaitType /\ CallShape /\ ClosingHolds
    /\ ThingType /\ TrafficType /\ CloudType /\ HistoryType
RepliesMade == \A k \in DOMAIN down : down[k].kind = "reply" => down[k].id \in DOMAIN req

\* Each variable has its type; at most one thread is inside a call, it holds
\* ctx->mutex (IOT_Linkkit_Connect and its like) and it alone is in the list
\* of the calls that wait.  Closing the master holds that mutex too.  A reply
\* is one to a request that was made.
TypeOK == Types /\ RepliesMade

\* A synchronous call returns success only if the cloud granted each request
\* that it made and waited for: no late, repeated or other reply, no timeout
\* of the cache and no full queue makes it succeed (impl_linkkit.c, the list
\* of the waiting calls).
SyncRequests == {i \in DOMAIN req : Waits(Op(i))}
Granted == {i \in SyncRequests : answer[i] = "ok"}
Promise == INSTANCE SyncCall WITH
    Callers  <- Threads,
    Requests <- Ids,
    busy     <- {t \in Threads : ~AtHome(t)},
    asks     <- asked,
    granted  <- Granted,
    result   <- [t \in Threads |-> IF AtHome(t) THEN result[t] ELSE "none"]
ImplementsSyncCall == Promise!Spec

\* Every call ends, whatever the cloud and the other threads do, and closing
\* the master ends: a call that waits for a reply keeps ctx->mutex meanwhile,
\* and the thread that would deliver the reply may be waiting for that mutex.
EveryCallReturns ==
    /\ \A t \in Threads : pc[t] = "lock" ~> AtHome(t)
    /\ life = "closing" ~> life = "closed"

\* The application is told what became of every request that entered the
\* cache, by a reply or by a timeout, unless the queue was full, the reply
\* does not name its device, or the master was closed.  (A reply that is
\* looked for before its request is in the cache may be removed after that:
\* such a request is lost without a word.)
EveryRequestIsTold ==
    \A i \in Ids : i \in CachedIds ~>
        i \in settled \cup missed \/ answer[i] = "bare" \/ life # "connected"

\* A device that the gateway has as logged in is so at the cloud, but for the
\* reply of a logout or a deletion that has not been handled, or that was
\* handled before its request was in the cache.
LoginedMeansLoggedIn ==
    \A d \in Devices : life = "connected" /\ devs[d] = "logined" /\ d \notin online =>
        \E i \in DOMAIN req : /\ Dev(i) = d /\ Op(i) \in {"logout", "topo_delete"}
                             /\ answer[i] = "ok" /\ i \in InFlight \cup missed

=============================================================================

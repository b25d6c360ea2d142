--------------------------- MODULE UpstreamProofs ---------------------------
(***************************************************************************)
(* Proofs about the requests of the device model: its variables keep their *)
(* types, a synchronous call keeps the promise   *)
(* of SyncCall, and what the gateway has as logged in is so at the cloud.  *)
(* Every theorem holds for any callers, devices, requests, and sizes of    *)
(* the queue and of the cache.                                             *)
(***************************************************************************)
EXTENDS Upstream, SequenceTheorems, TLAPS

-----------------------------------------------------------------------------
(* Names, plans, and what a thread does to its own place.                    *)

\* The thread that delivers is one of the threads; the names that stand for no
\* thread are none.
LEMMA ThreadNames ==
    /\ Dispatcher \in Threads /\ Closer \notin Threads /\ Nobody \notin Threads
    /\ Closer # Nobody
BY UpstreamAssumption DEF Threads, Dispatcher, Closer, Nobody

\* The first request of a plan is an operation, and the rest is a plan again.
LEMMA PlanSteps ==
    ASSUME NEW p \in Plans, p # <<>>
    PROVE  /\ Head(p) \in Ops /\ Tail(p) \in Plans
           /\ Head(p) = "register" => Tail(p) # <<>>
<1>1. CASE p = Connect
  BY <1>1 DEF Connect, Plans, Ops
<1>2. CASE p = Login
  BY <1>2 DEF Login, Plans, Ops
<1>3. ASSUME NEW op \in Ops \ {"register"}, p = <<op>>
      PROVE  Head(p) = op /\ Tail(p) = <<>>
  BY <1>3
<1>4. p = Connect \/ p = Login \/ \E op \in Ops \ {"register"} : p = <<op>>
  BY DEF Plans, Ops, DeleteTopo, Logout, Report
<1>5. <<>> \in Plans
  BY DEF Plans
<1> QED BY <1>1, <1>2, <1>3, <1>4, <1>5

\* A call begins with a plan, which only that of closing leaves empty.
LEMMA StepsArePlans ==
    ASSUME NEW call \in CallNames
    PROVE  /\ Steps(call) \in Plans /\ Len(Steps(call)) \in 0 .. 2
           /\ call # "close" => Steps(call) # <<>>
<1>1. CASE call = "connect"
  BY <1>1 DEF Steps, Plans, Connect
<1>2. CASE call = "delete_topo"
  BY <1>2 DEF Steps, Plans, DeleteTopo
<1>3. CASE call = "login"
  BY <1>3 DEF Steps, Plans, Login
<1>4. CASE call = "logout"
  BY <1>4 DEF Steps, Plans, Logout
<1>5. CASE call = "post"
  BY <1>5 DEF Steps, Plans, Report
<1>6. CASE call = "close"
  BY <1>6 DEF Steps, Plans
<1> QED BY <1>1, <1>2, <1>3, <1>4, <1>5, <1>6 DEF CallNames

\* What the types say of one thread.
LEMMA OneThread ==
    ASSUME TypeOK, NEW t \in Threads
    PROVE  /\ pc[t] \in Places /\ plan[t] \in Plans /\ asked[t] \subseteq Ids
           /\ result[t] \in {"none", "ok", "failed"}
           /\ waits[t] \in [id : Nat, listed : BOOLEAN, code : {"ok", "failed"}, posts : Nat]
           /\ pc[t] # "idle" =>
                 job[t] \in CallNames \X Devices /\ job[t][1] \in CallNames /\ job[t][2] \in Devices
           /\ pc[t] \in Inside <=> lock = t
           /\ pc[t] = "lock" => plan[t] = Steps(job[t][1])
           /\ pc[t] \in {"send", "subscribe"} => plan[t] # <<>>
           /\ waits[t].listed => pc[t] = "wait"
BY DEF TypeOK, Types, ThreadType, WaitType, CallShape

\* The type of a call that goes on, or ends: every other thread is outside.
ThreadOK == ThreadType /\ WaitType /\ CallShape /\ ClosingHolds

LEMMA EndsIsTyped ==
    ASSUME TypeOK, NEW t \in Threads, pc[t] \in Inside, NEW res \in {"ok", "failed"},
           Ends(t, res), WaitType', life' = life,
           \A u \in Threads : waits'[u] = waits[u] \/ ~waits'[u].listed,
           ~waits'[t].listed
    PROVE  ThreadOK'
<1>1. lock = t /\ \A u \in Threads : u # t => pc[u] \notin Inside
  BY OneThread
<1>2. ThreadType'
  <2>1. <<>> \in Plans /\ "idle" \in Places
    BY DEF Plans, Places
  <2> QED BY <2>1, ThreadNames DEF TypeOK, Types, ThreadType, Ends, Goto
<1>3. CallShape'
  <2> SUFFICES ASSUME NEW u \in Threads
               PROVE  /\ pc'[u] \in Inside <=> lock' = u
                      /\ pc'[u] # "idle" => job'[u] # <<>>
                      /\ pc'[u] = "lock" => plan'[u] = Steps(job'[u][1])
                      /\ pc'[u] \in {"send", "subscribe"} => plan'[u] # <<>>
                      /\ waits'[u].listed => pc'[u] = "wait"
    BY DEF CallShape
  <2>1. lock' = Nobody /\ u # Nobody
    BY ThreadNames DEF Ends
  <2>2. CASE u = t
    <3>1. pc'[u] = "idle" /\ ~waits'[u].listed
      BY <2>2 DEF Ends, Goto, TypeOK, Types, ThreadType
    <3> QED BY <3>1, <2>1 DEF Inside, Places
  <2>3. CASE u # t
    <3>1. pc'[u] = pc[u] /\ job'[u] = job[u] /\ plan'[u] = plan[u]
      BY <2>3 DEF Ends, Goto, TypeOK, Types, ThreadType
    <3> QED BY <3>1, <2>1, <2>3, <1>1, OneThread
  <2> QED BY <2>2, <2>3
<1>4. ClosingHolds'
  BY OneThread, ThreadNames DEF TypeOK, Types, ClosingHolds
<1> QED BY <1>2, <1>3, <1>4 DEF ThreadOK

\* A thread that goes on from one place inside the call to another, and may
\* change its own plan, request and place in the list, keeps the types.
LEMMA MovesIsTyped ==
    ASSUME TypeOK, NEW t \in Threads, NEW place \in Inside, WaitType', life' = life,
           asked' \in [Threads -> SUBSET Ids],
           \/ pc[t] \in Inside /\ lock' = lock
           \/ pc[t] = "lock" /\ lock = Nobody /\ lock' = t,
           Goto(t, place), UNCHANGED <<job, result>>, plan' \in [Threads -> Plans],
           \A u \in Threads \ {t} : plan'[u] = plan[u],
           place \in {"send", "subscribe"} => plan'[t] # <<>>,
           \A u \in Threads : u # t => waits'[u] = waits[u] \/ ~waits'[u].listed,
           waits'[t].listed => place = "wait"
    PROVE  ThreadOK'
<1>1. place \in Places /\ place \notin {"idle", "lock"}
  BY DEF Inside, Places
<1>2. ThreadType'
  BY <1>1 DEF TypeOK, Types, ThreadType, Goto
<1>3. CallShape'
  <2> SUFFICES ASSUME NEW u \in Threads
               PROVE  /\ pc'[u] \in Inside <=> lock' = u
                      /\ pc'[u] # "idle" => job'[u] # <<>>
                      /\ pc'[u] = "lock" => plan'[u] = Steps(job'[u][1])
                      /\ pc'[u] \in {"send", "subscribe"} => plan'[u] # <<>>
                      /\ waits'[u].listed => pc'[u] = "wait"
    BY DEF CallShape
  <2>1. lock' = t /\ u # Nobody /\ (lock = t \/ lock = Nobody)
    BY OneThread, ThreadNames
  <2>2. CASE u = t
    <3>1. pc'[u] = place /\ job'[u] = job[u] /\ pc[u] # "idle"
      BY <2>2 DEF Goto, TypeOK, Types, ThreadType, Inside
    <3> QED BY <3>1, <2>1, <2>2, <1>1, OneThread DEF TypeOK, Types, CallShape
  <2>3. CASE u # t
    <3>1. pc'[u] = pc[u] /\ job'[u] = job[u] /\ plan'[u] = plan[u]
      BY <2>3 DEF Goto, TypeOK, Types, ThreadType
    <3> QED BY <3>1, <2>1, <2>3, OneThread DEF TypeOK, Types, CallShape
  <2> QED BY <2>2, <2>3
<1>4. ClosingHolds'
  BY OneThread, ThreadNames DEF TypeOK, Types, ClosingHolds
<1> QED BY <1>2, <1>3, <1>4 DEF ThreadOK

\* A call begins: the thread waits for the mutex.
LEMMA BeginIsTyped ==
    ASSUME TypeOK, NEW t \in Threads, pc[t] = "idle", NEW call \in CallNames,
           NEW d \in Devices, Begin(t, call, d), UNCHANGED <<life, lock, waits, asked>>
    PROVE  ThreadOK'
<1>1. ThreadType'
  <2>1. <<call, d>> \in CallNames \X Devices /\ Steps(call) \in Plans /\ "lock" \in Places
    BY StepsArePlans DEF Places
  <2> QED BY <2>1 DEF TypeOK, Types, ThreadType, Begin, Goto
<1>2. CallShape'
  <2> SUFFICES ASSUME NEW u \in Threads
               PROVE  /\ pc'[u] \in Inside <=> lock' = u
                      /\ pc'[u] # "idle" => job'[u] # <<>>
                      /\ pc'[u] = "lock" => plan'[u] = Steps(job'[u][1])
                      /\ pc'[u] \in {"send", "subscribe"} => plan'[u] # <<>>
                      /\ waits'[u].listed => pc'[u] = "wait"
    BY DEF CallShape
  <2>1. CASE u = t
    <3>1. pc'[u] = "lock" /\ job'[u] = <<call, d>> /\ plan'[u] = Steps(call)
      BY <2>1 DEF Begin, Goto, TypeOK, Types, ThreadType
    <3>2. lock # t /\ ~waits[u].listed
      BY OneThread, <2>1 DEF Inside, Places
    <3> QED BY <3>1, <3>2, <2>1 DEF Inside, Places
  <2>2. CASE u # t
    <3>1. pc'[u] = pc[u] /\ job'[u] = job[u] /\ plan'[u] = plan[u]
      BY <2>2 DEF Begin, Goto, TypeOK, Types, ThreadType
    <3> QED BY <3>1, OneThread DEF TypeOK, Types, CallShape
  <2> QED BY <2>1, <2>2
<1> QED BY <1>1, <1>2 DEF ThreadOK, TypeOK, Types, WaitType, ClosingHolds

-----------------------------------------------------------------------------
(* Types.                                                                    *)

\* The events of the queue after one was told: room for it or not.
LEMMA TellIsTyped ==
    ASSUME TypeOK, NEW e \in Messages, Tell(e)
    PROVE  queue' \in Seq(Messages) /\ Len(queue') <= MaxQueue /\ settled' \subseteq Nat
<1>1. e.id \in Nat
  BY DEF Messages
<1>2. queue \in Seq(Messages) /\ Len(queue) <= MaxQueue /\ settled \subseteq Nat
  BY DEF TypeOK, Types, TrafficType, HistoryType
<1>3. CASE Len(queue) < MaxQueue
  <2>1. queue' = Append(queue, e) /\ settled' = settled
    BY <1>3, Zenon DEF Tell
  <2> QED BY <1>2, <1>3, <2>1, UpstreamAssumption
<1>4. CASE ~(Len(queue) < MaxQueue)
  <2>1. queue' = queue /\ settled' = settled \cup {e.id}
    BY <1>4, Zenon DEF Tell
  <2> QED BY <1>1, <1>2, <2>1
<1> QED BY <1>3, <1>4

\* A call takes the mutex, and what it does at each of its places.
LEMMA CallsAreTyped ==
    ASSUME TypeOK, NEW t \in Threads, Lock(t) \/ Step(t) \/ TimesOut(t)
    PROVE  Types'
<1> USE DEF ThreadOK
<1> DEFINE Other == MasterType /\ ThingType /\ TrafficType /\ CloudType /\ HistoryType
<1> HIDE DEF Other
<1>1. Other
  BY DEF TypeOK, Types, Other
<1>2. UNCHANGED <<master, things, cache, down, queue, yielder, cloud, req, history>> => Other'
  BY <1>1 DEF Other, MasterType, ThingType, TrafficType, CloudType, HistoryType,
              master, things, cloud, history
<1>3. WaitType /\ (UNCHANGED waits => WaitType') /\ life' = life
  <2>1. WaitType /\ (UNCHANGED waits => WaitType')
    BY DEF TypeOK, Types, WaitType
  <2>2. UNCHANGED master
    BY Zenon DEF Lock, Step, SkipsRegister, SendRefused, Send, Cache, List, Destroy, InfoFails,
         Answered, Subscribe, Callback, TimesOut
  <2> QED BY <2>1, <2>2 DEF master
<1>4. (waits' = [waits EXCEPT ![t] = NoWait]) =>
         WaitType' /\ ~waits'[t].listed /\ \A u \in Threads : u # t => waits'[u] = waits[u]
  BY <1>3 DEF WaitType, NoWait, Waiting
<1>5. pc[t] # "idle" => job[t] \in CallNames \X Devices /\ job[t][1] \in CallNames
                        /\ job[t][2] \in Devices
  BY OneThread
<1>6. CASE Lock(t)
  <2>1. pc[t] = "lock" /\ lock = Nobody /\ lock' = t
        /\ Goto(t, IF job[t][1] = "close" THEN "destroy" ELSE "send")
        /\ UNCHANGED <<job, plan, waits, result, asked>> /\ Other'
    BY <1>2, <1>6, Zenon DEF Lock
  <2>2. plan[t] = Steps(job[t][1]) /\ plan' \in [Threads -> Plans]
        /\ asked' \in [Threads -> SUBSET Ids] /\ ~waits[t].listed
    BY <2>1, OneThread DEF TypeOK, Types, ThreadType
  <2>3. job[t][1] # "close" => plan'[t] # <<>>
    BY <1>5, <2>1, <2>2, StepsArePlans
  <2>4. "send" \in Inside /\ "destroy" \in Inside
    BY DEF Inside, Places
  <2>5. CASE job[t][1] = "close"
    BY <1>3, <2>1, <2>2, <2>4, <2>5, MovesIsTyped DEF TypeOK, Types, Other
  <2>6. CASE job[t][1] # "close"
    BY <1>3, <2>1, <2>2, <2>3, <2>4, <2>6, MovesIsTyped DEF TypeOK, Types, Other
  <2> QED BY <2>5, <2>6
<1>7. CASE SkipsRegister(t)
  <2>1. pc[t] = "send" /\ Head(plan[t]) = "register" /\ plan' = [plan EXCEPT ![t] = Tail(@)]
        /\ UNCHANGED <<lock, pc, job, waits, result, asked>> /\ Other'
    BY <1>2, <1>7, Zenon DEF SkipsRegister
  <2>2. plan[t] \in Plans /\ plan[t] # <<>> /\ plan \in [Threads -> Plans] /\ ~waits[t].listed
        /\ asked \in [Threads -> SUBSET Ids] /\ pc \in [Threads -> Places]
    BY <2>1, OneThread DEF TypeOK, Types, ThreadType
  <2>3. Tail(plan[t]) \in Plans /\ Tail(plan[t]) # <<>>
    BY <2>1, <2>2, PlanSteps
  <2>4. plan' \in [Threads -> Plans] /\ plan'[t] # <<>>
        /\ \A u \in Threads \ {t} : plan'[u] = plan[u]
    BY <2>1, <2>2, <2>3
  <2>5. "send" \in Inside /\ Goto(t, "send") /\ pc[t] \in Inside
    BY <2>1, <2>2 DEF Inside, Places, Goto
  <2> QED BY <1>3, <2>1, <2>2, <2>4, <2>5, MovesIsTyped DEF TypeOK, Types, Other
<1>8. CASE SendRefused(t) \/ Destroy(t)
  <2>1. PICK res \in {"ok", "failed"} : Ends(t, res)
    BY <1>8 DEF SendRefused, Destroy
  <2>2. pc[t] \in Inside /\ UNCHANGED waits
    BY <1>8 DEF SendRefused, Destroy, Inside, Places
  <2>3. ThreadOK'
    <3>1. ~waits'[t].listed
      BY <1>8, <2>2, OneThread DEF SendRefused, Destroy
    <3> QED BY <1>3, <2>1, <2>2, <3>1, EndsIsTyped
  <2>4. Other'
    <3>1. CASE SendRefused(t)
      BY <1>2, <3>1, Zenon DEF SendRefused
    <3>2. CASE Destroy(t)
      <4>1. devs' = [devs EXCEPT ![job[t][2]] = "closed"] /\ secret' = secret \ {job[t][2]}
            /\ UNCHANGED <<master, cache, down, queue, yielder, cloud, req, history>>
        BY <3>2, Zenon DEF Destroy
      <4>2. ThingType'
        BY <1>1, <4>1 DEF Other, ThingType, Statuses
      <4> QED BY <1>1, <4>1, <4>2 DEF Other, MasterType, TrafficType, CloudType, HistoryType,
                                  master, cloud, history
    <3> QED BY <1>8, <3>1, <3>2
  <2> QED BY <2>3, <2>4 DEF TypeOK, Types, Other
<1>9. CASE Send(t)
  <2> DEFINE op == Head(plan[t])   d == job[t][2]   id == Len(req) + 1
  <2>1. pc[t] = "send" /\ Len(req) < MaxRequests /\ req' = Append(req, [op |-> op, dev |-> d])
        /\ waits' = [waits EXCEPT ![t] = Waiting(id)]
        /\ (asked' = IF Waits(op) THEN [asked EXCEPT ![t] = @ \cup {id}] ELSE asked)
        /\ plan' = [plan EXCEPT ![t] = Tail(@)] /\ Goto(t, "cache")
        /\ (IF op = "device_info" THEN Spend(1) ELSE UNCHANGED credit)
        /\ UNCHANGED <<master, lock, job, result, things, cache, queue, yielder, down, cloud,
                       settled, missed>>
    BY <1>9, Zenon DEF Send
  <2>2. plan[t] \in Plans /\ plan[t] # <<>> /\ plan \in [Threads -> Plans]
        /\ asked \in [Threads -> SUBSET Ids] /\ pc \in [Threads -> Places]
    BY <2>1, OneThread DEF TypeOK, Types, ThreadType
  <2>3. op \in Ops /\ Tail(plan[t]) \in Plans /\ d \in Devices
    BY <1>5, <2>1, <2>2, PlanSteps
  <2>4. CloudType /\ id \in Ids
    BY <1>1, <2>1, UpstreamAssumption DEF Other, CloudType, Ids
  <2>5. CloudType'
    BY <2>1, <2>3, <2>4, UpstreamAssumption DEF CloudType, cloud
  <2>6. Other'
    <3>1. HistoryType'
      BY <1>1, <2>1 DEF Other, HistoryType, Spend
    <3> QED BY <1>1, <2>1, <2>5, <3>1 DEF Other, MasterType, ThingType, TrafficType, master, things
  <2>7. WaitType' /\ ~waits'[t].listed /\ \A u \in Threads : u # t => waits'[u] = waits[u]
    <3>1. Waiting(id) \in [id : Nat, listed : BOOLEAN, code : {"ok", "failed"}, posts : Nat]
          /\ ~Waiting(id).listed
      BY <2>4 DEF Waiting, Ids
    <3> QED BY <1>3, <2>1, <3>1 DEF WaitType
  <2>8. asked' \in [Threads -> SUBSET Ids]
    BY <2>1, <2>2, <2>4
  <2>9. plan' \in [Threads -> Plans] /\ \A u \in Threads \ {t} : plan'[u] = plan[u]
    BY <2>1, <2>2, <2>3
  <2>10. "cache" \in Inside /\ pc[t] \in Inside
    BY <2>1 DEF Inside, Places
  <2> QED BY <1>3, <2>1, <2>6, <2>7, <2>8, <2>9, <2>10, MovesIsTyped DEF TypeOK, Types, Other
<1>10. CASE Cache(t)
  <2> DEFINE id == waits[t].id
  <2>1. pc[t] = "cache" /\ (cache' = Append(cache, id) \/ cache' = cache)
        /\ UNCHANGED <<master, things, queue, yielder, down, cloud, req, history>>
    BY <1>10, Zenon DEF Cache
  <2>2. id \in Nat /\ ~waits[t].listed
    BY <2>1, OneThread
  <2>3. Other'
    <3>1. cache' \in Seq(Nat)
      <4>1. cache \in Seq(Nat)
        BY <1>1 DEF Other, TrafficType
      <4> HIDE DEF id
      <4> QED BY <2>1, <2>2, <4>1
    <3> QED BY <1>1, <2>1, <3>1 DEF Other, MasterType, ThingType, TrafficType, CloudType,
                                    HistoryType, master, things, cloud, history
  <2>4. pc[t] \in Inside
    BY <2>1 DEF Inside, Places
  <2>5. CASE Continues(t, "list") /\ UNCHANGED <<plan, waits>>
    <3>1. Goto(t, "list") /\ UNCHANGED <<lock, job, result, asked>> /\ "list" \in Inside
      BY <2>5 DEF Continues, Inside, Places
    <3>2. plan' \in [Threads -> Plans] /\ asked' \in [Threads -> SUBSET Ids]
      BY <2>5, <3>1 DEF TypeOK, Types, ThreadType
    <3> QED BY <1>3, <2>2, <2>3, <2>4, <2>5, <3>1, <3>2, MovesIsTyped DEF TypeOK, Types, Other
  <2>6. CASE Ends(t, "ok") /\ waits' = [waits EXCEPT ![t] = NoWait]
    BY <1>3, <1>4, <2>3, <2>4, <2>6, EndsIsTyped DEF TypeOK, Types, Other
  <2>7. CASE Continues(t, "callback") /\ UNCHANGED plan /\ waits' = [waits EXCEPT ![t] = NoWait]
    <3>1. Goto(t, "callback") /\ UNCHANGED <<lock, job, result, asked>> /\ "callback" \in Inside
      BY <2>7 DEF Continues, Inside, Places
    <3>2. plan' \in [Threads -> Plans] /\ asked' \in [Threads -> SUBSET Ids]
      BY <2>7, <3>1 DEF TypeOK, Types, ThreadType
    <3> QED BY <1>3, <1>4, <2>3, <2>4, <2>7, <3>1, <3>2, MovesIsTyped DEF TypeOK, Types, Other
  <2> QED BY <1>10, <2>5, <2>6, <2>7, Zenon DEF Cache
<1>11. CASE List(t)
  <2>1. pc[t] = "list" /\ waits' = [waits EXCEPT ![t].listed = TRUE] /\ Goto(t, "wait")
        /\ UNCHANGED <<lock, job, plan, result, asked>>
        /\ UNCHANGED <<master, things, cache, down, queue, yielder, cloud, req, history>>
    BY <1>11, Zenon DEF List
  <2>2. WaitType' /\ \A u \in Threads : u # t => waits'[u] = waits[u]
    BY <1>3, <2>1 DEF WaitType
  <2>3. pc[t] \in Inside /\ "wait" \in Inside
    BY <2>1 DEF Inside, Places
  <2>4. plan' \in [Threads -> Plans] /\ asked' \in [Threads -> SUBSET Ids]
    BY <2>1 DEF TypeOK, Types, ThreadType
  <2>5. Other'
    BY <1>2, <2>1
  <2>6. \A u \in Threads \ {t} : plan'[u] = plan[u]
    BY <2>1
  <2>7. ThreadOK'
    BY <1>3, <2>1, <2>2, <2>3, <2>4, <2>6, MovesIsTyped
  <2> QED BY <2>5, <2>7 DEF TypeOK, Types, Other
<1>12. CASE Answered(t) \/ TimesOut(t)
  <2>1. pc[t] = "wait" /\ waits' = [waits EXCEPT ![t] = NoWait] /\ Other'
    BY <1>2, <1>12, Zenon DEF Answered, TimesOut
  <2>2. pc[t] \in Inside /\ "send" \in Inside /\ "subscribe" \in Inside
    BY <2>1 DEF Inside, Places
  <2>3. CASE \E res \in {"ok", "failed"} : Ends(t, res)
    BY <1>3, <1>4, <2>1, <2>2, <2>3, EndsIsTyped DEF TypeOK, Types, Other
  <2>4. ASSUME NEW place \in {"send", "subscribe"}, plan[t] # <<>>, Continues(t, place), UNCHANGED plan
        PROVE  Types'
    <3>1. Goto(t, place) /\ UNCHANGED <<lock, job, result, asked>> /\ place \in Inside
      BY <2>2, <2>4 DEF Continues
    <3>2. plan' \in [Threads -> Plans] /\ asked' \in [Threads -> SUBSET Ids]
      BY <2>4, <3>1 DEF TypeOK, Types, ThreadType
    <3> QED BY <1>3, <1>4, <2>1, <2>2, <2>4, <3>1, <3>2, MovesIsTyped DEF TypeOK, Types, Other
  <2>5. \/ \E res \in {"ok", "failed"} : Ends(t, res)
        \/ /\ plan[t] # <<>> /\ UNCHANGED plan
           /\ Continues(t, IF Head(plan[t]) = "device_info" THEN "subscribe" ELSE "send")
    BY <1>12, Zenon DEF Answered, TimesOut
  <2> QED BY <2>3, <2>4, <2>5
<1>13. CASE InfoFails(t)
  <2>1. pc[t] = "send" /\ plan' = [plan EXCEPT ![t] = Tail(@)] /\ Goto(t, "callback")
        /\ UNCHANGED <<lock, job, result, asked, waits>> /\ Other'
    BY <1>2, <1>13, Zenon DEF InfoFails, Continues
  <2>2. plan[t] \in Plans /\ plan[t] # <<>> /\ plan \in [Threads -> Plans] /\ ~waits[t].listed
        /\ asked \in [Threads -> SUBSET Ids]
    BY <2>1, OneThread DEF TypeOK, Types, ThreadType
  <2>3. Tail(plan[t]) \in Plans
    BY <2>2, PlanSteps
  <2>4. plan' \in [Threads -> Plans] /\ \A u \in Threads \ {t} : plan'[u] = plan[u]
    BY <2>1, <2>2, <2>3
  <2>5. "callback" \in Inside /\ pc[t] \in Inside
    BY <2>1 DEF Inside, Places
  <2> QED BY <1>3, <2>1, <2>2, <2>4, <2>5, MovesIsTyped DEF TypeOK, Types, Other
<1>14. CASE Subscribe(t) \/ Callback(t)
  <2>1. pc[t] \in {"subscribe", "callback"} /\ UNCHANGED waits /\ Other'
    BY <1>2, <1>14, Zenon DEF Subscribe, Callback
  <2>2. pc[t] \in Inside /\ "send" \in Inside /\ ~waits[t].listed
        /\ (pc[t] = "subscribe" => plan[t] # <<>>)
    BY <2>1, OneThread DEF Inside, Places
  <2>3. CASE \E res \in {"ok", "failed"} : Ends(t, res)
    BY <1>3, <2>1, <2>2, <2>3, EndsIsTyped DEF TypeOK, Types, Other
  <2>4. CASE Continues(t, "send") /\ UNCHANGED plan /\ pc[t] = "subscribe"
    <3>1. Goto(t, "send") /\ UNCHANGED <<lock, job, result, asked>>
      BY <2>4 DEF Continues
    <3>2. plan' \in [Threads -> Plans] /\ asked' \in [Threads -> SUBSET Ids]
      BY <2>4, <3>1 DEF TypeOK, Types, ThreadType
    <3> QED BY <1>3, <2>1, <2>2, <2>4, <3>1, <3>2, MovesIsTyped DEF TypeOK, Types, Other
  <2> QED BY <1>14, <2>3, <2>4, Zenon DEF Subscribe, Callback
<1> QED BY <1>6, <1>7, <1>8, <1>9, <1>10, <1>11, <1>12, <1>13, <1>14 DEF Step

\* Opening and closing.
LEMMA MasterIsTyped ==
    ASSUME TypeOK,
           \/ MasterOpen \/ MasterConnect \/ BeginClose \/ SeesLeave \/ EndClose
           \/ \E d \in Devices, given \in BOOLEAN : SlaveOpen(d, given)
    PROVE  Types'
<1> USE DEF threads, things, master, cloud, history
<1>1. MasterType /\ ThreadType /\ WaitType /\ CallShape /\ ClosingHolds /\ ThingType /\ TrafficType
      /\ CloudType /\ HistoryType
  BY DEF TypeOK, Types
<1>2. NoHand \in Messages /\ Statuses # {} /\ "absent" \in Statuses
  BY DEF NoHand, Messages, Codes, Statuses
<1>3. CASE MasterOpen
  <2>1. MasterType'
    BY <1>1, <1>3 DEF MasterOpen, MasterType
  <2>2. ThreadType' /\ WaitType' /\ CallShape' /\ ClosingHolds'
    BY <1>1, <1>3 DEF MasterOpen, ThreadType, WaitType, CallShape, ClosingHolds
  <2>3. ThingType' /\ CloudType' /\ HistoryType'
    BY <1>1, <1>2, <1>3 DEF MasterOpen, ThingType, CloudType, HistoryType
  <2>4. TrafficType'
    BY <1>1, <1>2, <1>3, UpstreamAssumption DEF MasterOpen, TrafficType
  <2> QED BY <2>1, <2>2, <2>3, <2>4 DEF TypeOK, Types
<1>4. CASE MasterConnect
  <2>1. MasterType' /\ ThingType' /\ CloudType' /\ HistoryType'
    BY <1>1, <1>4 DEF MasterConnect, MasterType, ThingType, CloudType, HistoryType
  <2>2. ThreadType' /\ WaitType' /\ CallShape' /\ ClosingHolds'
    BY <1>1, <1>4 DEF MasterConnect, ThreadType, WaitType, CallShape, ClosingHolds
  <2>3. TrafficType'
    BY <1>1, <1>4 DEF MasterConnect, TrafficType
  <2> QED BY <2>1, <2>2, <2>3 DEF TypeOK, Types
<1>5. CASE BeginClose \/ EndClose
  <2>1. UNCHANGED <<pc, job, plan, waits, result, asked, yielder, cloud, req, history>>
        /\ lock' \in {Closer, Nobody} /\ lock \notin Threads
    <3>1. CASE BeginClose
      BY <3>1, ThreadNames DEF BeginClose
    <3>2. CASE EndClose
      BY <3>2, ThreadNames DEF EndClose, TypeOK, Types, ClosingHolds
    <3> QED BY <1>5, <3>1, <3>2
  <2>2. MasterType' /\ ClosingHolds' /\ ThingType'
    <3>1. CASE BeginClose
      <4>1. (conns' = IF conns > 0 THEN conns - 1 ELSE 0) /\ life' = "closing" /\ lock' = Closer
            /\ UNCHANGED <<opens, things>>
        BY <3>1, Zenon DEF BeginClose
      <4> QED BY <1>1, <4>1 DEF MasterType, ClosingHolds, ThingType
    <3>2. CASE EndClose
      BY <1>1, <1>2, <3>2 DEF EndClose, MasterType, ClosingHolds, ThingType
    <3> QED BY <1>5, <3>1, <3>2
  <2>3. ThreadType' /\ WaitType'
    BY <1>1, <2>1 DEF ThreadType, WaitType
  <2>4. CallShape'
    <3>1. lock' \notin Threads
      BY <2>1, ThreadNames
    <3> QED BY <1>1, <2>1, <3>1 DEF CallShape
  <2>5. TrafficType' /\ CloudType' /\ HistoryType'
    <3>1. (UNCHANGED <<cache, queue, down>>) \/ (queue' = <<>> /\ cache' = <<>> /\ down' = <<>>)
      BY <1>5, Zenon DEF BeginClose, SeesLeave, EndClose
    <3>2. TrafficType'
      <4>1. TrafficType /\ yielder' = yielder
        BY <1>1, <2>1
      <4>2. CASE UNCHANGED <<cache, queue, down>>
        BY <4>1, <4>2 DEF TrafficType
      <4>3. CASE queue' = <<>> /\ cache' = <<>> /\ down' = <<>>
        BY <4>1, <4>3, UpstreamAssumption DEF TrafficType
      <4> QED BY <3>1, <4>2, <4>3
    <3> QED BY <1>1, <2>1, <3>2 DEF CloudType, HistoryType
  <2> QED BY <2>2, <2>3, <2>4, <2>5 DEF TypeOK, Types
<1>6. ASSUME NEW d \in Devices, NEW given \in BOOLEAN, SlaveOpen(d, given)
      PROVE  Types'
  <2>1. ThingType'
    <3>1. devs' = [devs EXCEPT ![d] = "authorized"] /\ secret' \subseteq secret \cup {d}
      BY <1>6 DEF SlaveOpen
    <3> QED BY <1>1, <3>1 DEF ThingType, Statuses
  <2>2. UNCHANGED <<master, threads, cache, queue, yielder, down, cloud, req, history>>
    BY <1>6 DEF SlaveOpen
  <2>3. MasterType' /\ CloudType' /\ HistoryType' /\ TrafficType'
    BY <1>1, <2>2 DEF MasterType, CloudType, HistoryType, TrafficType
  <2>4. ThreadType' /\ WaitType' /\ CallShape' /\ ClosingHolds'
    BY <1>1, <2>2 DEF ThreadType, WaitType, CallShape, ClosingHolds
  <2> QED BY <2>1, <2>3, <2>4 DEF TypeOK, Types
<1>7. CASE SeesLeave
  <2>1. life = "closing" /\ life' = "joining"
        /\ UNCHANGED <<opens, conns, threads, things, cache, queue, yielder, down, cloud, req, history>>
    BY <1>7 DEF SeesLeave
  <2>2. MasterType' /\ ThingType' /\ CloudType' /\ HistoryType' /\ TrafficType'
    BY <1>1, <2>1 DEF MasterType, ThingType, CloudType, HistoryType, TrafficType
  <2>3. ThreadType' /\ WaitType' /\ CallShape' /\ ClosingHolds'
    BY <1>1, <2>1 DEF ThreadType, WaitType, CallShape, ClosingHolds
  <2> QED BY <2>2, <2>3 DEF TypeOK, Types
<1> QED BY <1>3, <1>4, <1>5, <1>6, <1>7

\* What the types say of one request.
LEMMA OneRequest ==
    ASSUME TypeOK, NEW i \in DOMAIN req
    PROVE  i \in Nat /\ i \in Ids /\ Op(i) \in Ops /\ Dev(i) \in Devices
<1> DEFINE R == [op : Ops, dev : Devices]
<1>1. req \in Seq(R) /\ Len(req) <= MaxRequests
  BY DEF TypeOK, Types, CloudType
<1>2. \A r \in R : r.op \in Ops /\ r.dev \in Devices
  OBVIOUS
<1> HIDE DEF R
<1>3. req[i] \in R /\ i \in 1 .. Len(req)
  BY <1>1
<1> QED BY <1>1, <1>2, <1>3, UpstreamAssumption DEF Ids, Op, Dev

\* What a reply makes of its device is a status, or nothing.
LEMMA ReplyStatus ==
    ASSUME NEW op \in Ops
    PROVE  Reply(op).status \in Statuses \cup {"same"}
<1> USE DEF Reply, Statuses
<1>1. CASE op = "register"
  BY <1>1 DEF RegisterReply
<1>2. CASE op = "topo_add"
  BY <1>2 DEF TopoAddReply
<1>3. CASE op = "topo_delete"
  BY <1>3 DEF TopoDeleteReply
<1>4. CASE op = "login"
  BY <1>4 DEF LoginReply
<1>5. CASE op = "logout"
  BY <1>5 DEF LogoutReply
<1>6. CASE op = "post"
  BY <1>6 DEF PostReply
<1>7. CASE op = "device_info"
  BY <1>7 DEF DeviceInfoReply
<1> QED BY <1>1, <1>2, <1>3, <1>4, <1>5, <1>6, <1>7 DEF Ops

\* The cloud, and the thread that reads the connection.
LEMMA TrafficIsTyped ==
    ASSUME TypeOK,
           \/ \E i \in DOMAIN req, code \in {"ok", "refused", "bare"} : CloudAnswers(i, code)
           \/ CloudAsks \/ ReceiveReply \/ TellReply \/ Remove \/ ReceiveService
           \/ YielderStarts \/ YielderLeaves
    PROVE  Types'
<1> USE DEF things, master, cloud, history
<1> DEFINE Calls0 == MasterType /\ ThreadType /\ WaitType /\ CallShape /\ ClosingHolds
<1>1. ThingType /\ TrafficType /\ CloudType /\ HistoryType
  BY DEF TypeOK, Types
<1>2. Calls0'
  <2>1. UNCHANGED <<master, threads>>
    BY Zenon DEF CloudAnswers, CloudAsks, ReceiveReply, TellReply, Remove, ReceiveService,
                 YielderStarts, YielderLeaves
  <2>2. (MasterType /\ ThreadType)'
    BY <2>1 DEF TypeOK, Types, MasterType, ThreadType, threads
  <2>3. (WaitType /\ CallShape /\ ClosingHolds)'
    BY <2>1 DEF TypeOK, Types, WaitType, CallShape, ClosingHolds, threads
  <2> QED BY <2>2, <2>3
<1> HIDE DEF Calls0
<1>3. ASSUME NEW m \in Messages, Arrives(m)
      PROVE  down' \in Seq(Messages)
  BY <1>1, <1>3 DEF Arrives, TrafficType
<1>4. ASSUME NEW i \in DOMAIN req, NEW code \in {"ok", "refused", "bare"}, CloudAnswers(i, code)
      PROVE  Types'
  <2>1. i \in Ids /\ i \in Nat /\ req[i].dev \in Devices
    BY OneRequest DEF Dev
  <2>2. Event("reply", i, code) \in Messages
    BY <2>1 DEF Event, Messages, Codes
  <2>3. TrafficType'
    BY <1>1, <1>3, <1>4, <2>2 DEF CloudAnswers, TrafficType
  <2>4. online' \subseteq Devices
    <3>1. online' \in {online, online \cup {Dev(i)}, online \ {Dev(i)}}
      BY <1>4 DEF CloudAnswers
    <3> QED BY <1>1, <2>1, <3>1 DEF CloudType, Dev
  <2>5. CloudType'
    BY <1>1, <1>4, <2>1, <2>4 DEF CloudAnswers, CloudType, Codes
  <2>6. ThingType' /\ HistoryType'
    BY <1>1, <1>4 DEF CloudAnswers, ThingType, HistoryType
  <2> QED BY <1>2, <2>3, <2>5, <2>6 DEF TypeOK, Types, Calls0
<1>5. CASE CloudAsks
  <2>1. Event("service", 0, "ok") \in Messages
    BY DEF Event, Messages, Codes
  <2>2. TrafficType'
    BY <1>1, <1>3, <1>5, <2>1 DEF CloudAsks, TrafficType
  <2>3. ThingType' /\ CloudType' /\ HistoryType'
    BY <1>1, <1>5 DEF CloudAsks, ThingType, CloudType, HistoryType, Spend
  <2> QED BY <1>2, <2>2, <2>3 DEF TypeOK, Types, Calls0
<1>6. ASSUME down # <<>>
      PROVE  Head(down) \in Messages /\ Tail(down) \in Seq(Messages) /\ Head(down).id \in Nat
  <2>1. Head(down) \in Messages /\ Tail(down) \in Seq(Messages)
    BY <1>1, <1>6 DEF TrafficType
  <2>2. \A m \in Messages : m.id \in Nat
    BY DEF Messages
  <2> QED BY <2>1, <2>2
<1>7. NoHand \in Messages
  BY DEF NoHand, Messages, Codes
<1>8. CASE ReceiveReply
  <2> DEFINE i == Head(down).id
  <2>1. /\ down # <<>> /\ down' = Tail(down) /\ UNCHANGED <<cache, queue>>
        /\ \E at \in {"tell", "remove"} : yielder' = [at |-> at, hand |-> Head(down)]
    BY <1>8 DEF ReceiveReply
  <2>2. TrafficType'
    BY <1>1, <1>6, <2>1 DEF TrafficType
  <2>3. SetDevice(i) \/ UNCHANGED things
    BY <1>8, Zenon DEF ReceiveReply
  <2>4. ThingType'
    <3>1. CASE SetDevice(i)
      <4>1. i \in DOMAIN req
        <5>1. Head(down).kind = "reply" /\ 1 \in DOMAIN down /\ Head(down) = down[1]
          BY <1>1, <1>8, <2>1 DEF ReceiveReply, TrafficType
        <5> QED BY <5>1 DEF TypeOK, RepliesMade
      <4>2. Dev(i) \in Devices /\ Op(i) \in Ops
        BY <4>1, OneRequest
      <4>3. Reply(Op(i)).status \in Statuses \cup {"same"}
        BY <4>2, ReplyStatus
      <4>4. \/ UNCHANGED devs
            \/ /\ devs' = [devs EXCEPT ![Dev(i)] = Reply(Op(i)).status]
               /\ Reply(Op(i)).status # "same"
        BY <3>1 DEF SetDevice
      <4>5. secret' \subseteq secret \cup {Dev(i)}
        BY <3>1 DEF SetDevice
      <4>6. secret' \subseteq Devices
        BY <1>1, <4>2, <4>5 DEF ThingType
      <4>7. devs' \in [Devices -> Statuses]
        BY <1>1, <4>3, <4>4 DEF ThingType
      <4> QED BY <4>6, <4>7 DEF ThingType
    <3>2. CASE UNCHANGED things
      BY <1>1, <3>2 DEF ThingType
    <3> QED BY <2>3, <3>1, <3>2
  <2>5. missed' \in {missed, missed \cup {i}} /\ UNCHANGED <<settled, credit>>
    BY <1>8 DEF ReceiveReply
  <2>6. HistoryType'
    BY <1>1, <1>6, <2>1, <2>5 DEF HistoryType
  <2>7. CloudType'
    BY <1>1, <1>8 DEF ReceiveReply, CloudType
  <2> QED BY <1>2, <2>2, <2>4, <2>6, <2>7 DEF TypeOK, Types, Calls0
<1>9. CASE TellReply
  <2>1. yielder.hand \in Messages /\ Tell(yielder.hand)
    BY <1>1, <1>9 DEF TellReply, TrafficType
  <2>2. TrafficType' /\ HistoryType'
    BY <1>1, <1>9, <2>1, TellIsTyped DEF TellReply, TrafficType, HistoryType
  <2>3. ThingType' /\ CloudType'
    BY <1>1, <1>9 DEF TellReply, ThingType, CloudType
  <2> QED BY <1>2, <2>2, <2>3 DEF TypeOK, Types, Calls0
<1>10. CASE Remove
  <2>1. cache' \in Seq(Nat)
    <3>1. cache \in Seq(Nat)
      BY <1>1 DEF TrafficType
    <3>2. cache' = cache \/ \E k \in DOMAIN cache :
             cache' = SubSeq(cache, 1, k - 1) \o SubSeq(cache, k + 1, Len(cache))
      BY <1>10, Zenon DEF Remove
    <3>3. ASSUME NEW k \in DOMAIN cache
          PROVE  SubSeq(cache, 1, k - 1) \o SubSeq(cache, k + 1, Len(cache)) \in Seq(Nat)
      <4>1. SubSeq(cache, 1, k - 1) \in Seq(Nat) /\ SubSeq(cache, k + 1, Len(cache)) \in Seq(Nat)
        BY <3>1
      <4> QED BY <4>1, ConcatProperties
    <3> QED BY <3>1, <3>2, <3>3
  <2>2. TrafficType'
    BY <1>1, <1>7, <1>10, <2>1 DEF Remove, TrafficType
  <2>3. ThingType' /\ CloudType' /\ HistoryType'
    BY <1>1, <1>10 DEF Remove, ThingType, CloudType, HistoryType
  <2> QED BY <1>2, <2>2, <2>3 DEF TypeOK, Types, Calls0
<1>11. CASE ReceiveService
  <2>1. TrafficType' /\ HistoryType'
    BY <1>1, <1>6, <1>11, TellIsTyped DEF ReceiveService, TrafficType, HistoryType
  <2>2. ThingType' /\ CloudType'
    BY <1>1, <1>11 DEF ReceiveService, ThingType, CloudType
  <2> QED BY <1>2, <2>1, <2>2 DEF TypeOK, Types, Calls0
<1>12. CASE YielderStarts \/ YielderLeaves
  <2>1. TrafficType'
    BY <1>1, <1>12 DEF YielderStarts, YielderLeaves, TrafficType
  <2>2. ThingType' /\ CloudType' /\ HistoryType'
    BY <1>1, <1>12 DEF YielderStarts, YielderLeaves, ThingType, CloudType, HistoryType
  <2> QED BY <1>2, <2>1, <2>2 DEF TypeOK, Types, Calls0
<1> QED BY <1>4, <1>5, <1>8, <1>9, <1>10, <1>11, <1>12

\* The requests whose time is over are told of as far as the queue has room.
Overdue(fit) == [k \in 1 .. fit |-> Event("timeout", cache[k], "failed")]

LEMMA TickFits ==
    ASSUME TypeOK, NEW n \in 1 .. MaxCache, Tick(n)
    PROVE  \E fit \in 0 .. n :
              /\ fit <= MaxQueue - Len(queue) /\ queue' = queue \o Overdue(fit)
              /\ settled' = settled \cup {cache[k] : k \in fit + 1 .. n}
              /\ Overdue(fit) \in Seq(Messages) /\ Len(Overdue(fit)) = fit
              /\ n \in Nat /\ \A k \in 1 .. n : cache[k] \in Nat
<1> DEFINE fit == IF MaxQueue - Len(queue) < n THEN MaxQueue - Len(queue) ELSE n
<1>1. cache \in Seq(Nat) /\ queue \in Seq(Messages) /\ Len(queue) <= MaxQueue
      /\ MaxQueue \in Nat /\ MaxCache \in Nat
  BY UpstreamAssumption DEF TypeOK, Types, TrafficType
<1>2. n \in 1 .. Len(cache) /\ queue' = queue \o Overdue(fit)
      /\ settled' = settled \cup {cache[k] : k \in fit + 1 .. n}
  BY Zenon DEF Tick, Overdue
<1>3. fit \in 0 .. n /\ fit \in Nat /\ fit <= MaxQueue - Len(queue) /\ n \in Nat
  <2>1. Len(queue) \in Nat /\ n \in Nat /\ n > 0
    BY <1>1
  <2> QED BY <1>1, <2>1
<1>4. \A k \in 1 .. n : cache[k] \in Nat
  BY <1>1, <1>2
<1> HIDE DEF fit
<1>5. Overdue(fit) \in Seq(Messages) /\ Len(Overdue(fit)) = fit
  <2>1. \A k \in 1 .. fit : Event("timeout", cache[k], "failed") \in Messages
    BY <1>3, <1>4 DEF Event, Messages, Codes
  <2> QED BY <1>3, <2>1 DEF Overdue
<1> QED BY <1>2, <1>3, <1>4, <1>5

\* A call that waits is woken with a code.
LEMMA WokenIsTyped ==
    ASSUME NEW w \in [id : Nat, listed : BOOLEAN, code : {"ok", "failed"}, posts : Nat],
           NEW c \in {"ok", "failed"}
    PROVE  /\ [w EXCEPT !.code = c, !.posts = @ + 1]
                 \in [id : Nat, listed : BOOLEAN, code : {"ok", "failed"}, posts : Nat]
           /\ [w EXCEPT !.code = c, !.posts = @ + 1].listed = w.listed
           /\ [w EXCEPT !.code = c, !.posts = @ + 1].id = w.id
           /\ [w EXCEPT !.code = c, !.posts = @ + 1].code = c
<1> DEFINE n == w.posts + 1   C == {"ok", "failed"}   v == [w EXCEPT !.code = c, !.posts = n]
<1>1. w \in [id : Nat, listed : BOOLEAN, code : C, posts : Nat] /\ n \in Nat /\ c \in C
  OBVIOUS
<1> HIDE DEF n, C
<1>2. v \in [id : Nat, listed : BOOLEAN, code : C, posts : Nat]
      /\ v.listed = w.listed /\ v.id = w.id /\ v.code = c
  BY <1>1
<1> QED BY <1>2 DEF n, C

\* Calls that begin, and the events of the queue.
LEMMA EventsAreTyped ==
    ASSUME TypeOK,
           \/ \E t \in Callers, call \in Calls, d \in Devices : Call(t, call, d)
           \/ (\E n \in 1 .. MaxCache : Tick(n)) \/ Deliver \/ DeliverService
    PROVE  Types'
<1> USE DEF things, master, cloud, history
<1>1. MasterType /\ ThingType /\ TrafficType /\ CloudType /\ HistoryType
  BY DEF TypeOK, Types
<1>2. ThreadType /\ WaitType /\ CallShape /\ ClosingHolds
  BY DEF TypeOK, Types
<1>3. ASSUME NEW t \in Callers, NEW call \in Calls, NEW d \in Devices, Call(t, call, d)
      PROVE  Types'
  <2>1. t \in Threads /\ call \in CallNames
    BY UpstreamAssumption DEF Threads
  <2>2. ThreadOK'
    BY <1>3, <2>1, BeginIsTyped DEF Call
  <2>3. credit' \in Nat
    <3>1. Costs(call) \in Nat
      BY <2>1, StepsArePlans DEF Costs
    <3> QED BY <1>1, <1>3, <3>1 DEF Call, Spend, HistoryType
  <2>4. HistoryType'
    BY <1>1, <1>3, <2>3 DEF Call, HistoryType
  <2>5. (MasterType /\ ThingType /\ TrafficType /\ CloudType)'
    BY <1>1, <1>3 DEF Call, MasterType, ThingType, TrafficType, CloudType
  <2> QED BY <2>2, <2>4, <2>5 DEF Types, ThreadOK
<1>4. ASSUME NEW n \in 1 .. MaxCache, Tick(n)
      PROVE  Types'
  <2>1. PICK fit \in 0 .. n :
           /\ fit <= MaxQueue - Len(queue) /\ queue' = queue \o Overdue(fit)
           /\ settled' = settled \cup {cache[k] : k \in fit + 1 .. n}
           /\ Overdue(fit) \in Seq(Messages) /\ Len(Overdue(fit)) = fit
           /\ n \in Nat /\ \A k \in 1 .. n : cache[k] \in Nat
    BY <1>4, TickFits
  <2>2. cache' = SubSeq(cache, n + 1, Len(cache))
        /\ UNCHANGED <<master, threads, things, yielder, down, cloud, req, missed, credit>>
    BY <1>4, Zenon DEF Tick
  <2>3. queue' \in Seq(Messages) /\ Len(queue') <= MaxQueue
    <3>1. queue \in Seq(Messages)
      BY <1>1 DEF TrafficType
    <3>2. queue \o Overdue(fit) \in Seq(Messages)
          /\ Len(queue \o Overdue(fit)) = Len(queue) + Len(Overdue(fit))
      BY <2>1, <3>1, ConcatProperties
    <3>3. Len(queue) \in Nat /\ MaxQueue \in Nat
      BY <3>1, UpstreamAssumption
    <3> QED BY <2>1, <3>2, <3>3
  <2>4. cache' \in Seq(Nat)
    <3>1. cache \in Seq(Nat)
      BY <1>1 DEF TrafficType
    <3>2. n + 1 \in Nat /\ Len(cache) \in Nat
      BY <2>1, <3>1
    <3> QED BY <2>2, <3>1, <3>2
  <2>5. settled' \subseteq Nat
    <3>1. {cache[k] : k \in fit + 1 .. n} \subseteq Nat
      BY <2>1
    <3> QED BY <1>1, <2>1, <3>1 DEF HistoryType
  <2>6. TrafficType' /\ HistoryType'
    BY <1>1, <2>2, <2>3, <2>4, <2>5 DEF TrafficType, HistoryType
  <2>7. (MasterType /\ ThingType /\ CloudType)'
    BY <1>1, <2>2 DEF MasterType, ThingType, CloudType
  <2>8. (ThreadType /\ WaitType /\ CallShape /\ ClosingHolds)'
    BY <1>2, <2>2 DEF ThreadType, WaitType, CallShape, ClosingHolds, threads
  <2> QED BY <2>6, <2>7, <2>8 DEF Types
<1>5. ASSUME NEW kinds, Delivers(kinds)
      PROVE  queue # <<>> /\ Head(queue) \in Messages /\ queue' \in Seq(Messages)
             /\ Len(queue') <= MaxQueue /\ Head(queue).id \in Nat
  <2>1. queue # <<>> /\ Head(queue) \in Messages /\ queue' \in Seq(Messages)
        /\ Len(queue') <= MaxQueue
    BY <1>1, <1>5, UpstreamAssumption DEF Delivers, TrafficType
  <2>2. \A m \in Messages : m.id \in Nat
    BY DEF Messages
  <2> QED BY <2>1, <2>2
<1>6. CASE Deliver
  <2>1. WaitType' /\ \A t \in Threads : waits'[t].listed = waits[t].listed
    <3>1. CASE UNCHANGED waits
      BY <1>2, <3>1 DEF WaitType
    <3>2. CASE Wake(Head(queue))
      <4> SUFFICES ASSUME NEW t \in Threads
                   PROVE  /\ waits'[t] \in [id : Nat, listed : BOOLEAN, code : {"ok", "failed"}, posts : Nat]
                          /\ waits'[t].listed = waits[t].listed
        BY <3>2 DEF Wake, WaitType
      <4>1. waits[t] \in [id : Nat, listed : BOOLEAN, code : {"ok", "failed"}, posts : Nat]
        BY <1>2 DEF WaitType
      <4>2. waits'[t] = waits[t] \/ \E c \in {"ok", "failed"} :
               waits'[t] = [waits[t] EXCEPT !.code = c, !.posts = @ + 1]
        BY <3>2 DEF Wake
      <4>3. ASSUME NEW c \in {"ok", "failed"},
                   waits'[t] = [waits[t] EXCEPT !.code = c, !.posts = @ + 1]
            PROVE  /\ waits'[t] \in [id : Nat, listed : BOOLEAN, code : {"ok", "failed"}, posts : Nat]
                   /\ waits'[t].listed = waits[t].listed
        <5> DEFINE v == [waits[t] EXCEPT !.code = c, !.posts = @ + 1]
        <5>1. /\ v \in [id : Nat, listed : BOOLEAN, code : {"ok", "failed"}, posts : Nat]
              /\ v.listed = waits[t].listed
          BY <4>1, WokenIsTyped, Zenon
        <5>2. waits'[t] = v
          BY <4>3, Zenon
        <5> HIDE DEF v
        <5> QED BY <5>1, <5>2, Zenon
      <4> QED BY <4>1, <4>2, <4>3, Zenon
    <3> QED BY <1>6, <3>1, <3>2 DEF Deliver
  <2>2. UNCHANGED <<lock, pc, job, plan, result, asked, life>>
    BY <1>6 DEF Deliver
  <2>3. (ThreadType /\ CallShape /\ ClosingHolds)'
    BY <1>2, <2>1, <2>2 DEF ThreadType, CallShape, ClosingHolds
  <2>4. (MasterType /\ ThingType /\ CloudType)'
    BY <1>1, <1>6 DEF Deliver, MasterType, ThingType, CloudType
  <2>5. TrafficType' /\ HistoryType'
    BY <1>1, <1>5, <1>6 DEF Deliver, TrafficType, HistoryType
  <2> QED BY <2>1, <2>3, <2>4, <2>5 DEF Types
<1>7. CASE DeliverService
  <2>1. ThreadOK'
    <3>1. CASE UNCHANGED <<pc, job, plan, result>>
      BY <1>2, <1>7, <3>1 DEF DeliverService, ThreadType, WaitType, CallShape, ClosingHolds,
           ThreadOK
    <3>2. ASSUME NEW d \in Devices, Begin(Dispatcher, "post", d)
          PROVE  ThreadOK'
      <4>1. pc[Dispatcher] = "idle" /\ UNCHANGED <<life, lock, waits, asked>>
        BY <1>7 DEF DeliverService, Delivers, AtHome
      <4>2. "post" \in CallNames /\ Dispatcher \in Threads
        BY ThreadNames DEF CallNames
      <4> QED BY <3>2, <4>1, <4>2, BeginIsTyped
    <3> QED BY <1>7, <3>1, <3>2 DEF DeliverService
  <2>2. (MasterType /\ ThingType /\ CloudType /\ HistoryType)'
    BY <1>1, <1>7 DEF DeliverService, MasterType, ThingType, CloudType, HistoryType
  <2>3. TrafficType'
    BY <1>1, <1>5, <1>7 DEF DeliverService, TrafficType
  <2> QED BY <2>1, <2>2, <2>3 DEF Types, ThreadOK
<1> QED BY <1>3, <1>4, <1>6, <1>7

\* A message on its way was on its way before, or it is an answer of the cloud
\* that was given in this step, or no reply.
LEMMA DownStep ==
    ASSUME TypeOK, [Next]_vars, NEW k \in DOMAIN down', down'[k].kind = "reply"
    PROVE  \/ k + 1 \in DOMAIN down /\ down'[k] = down[k + 1] /\ down' = Tail(down)
           \/ k \in DOMAIN down /\ down'[k] = down[k]
           \/ \E i \in DOMAIN req, code \in {"ok", "refused", "bare"} :
                 CloudAnswers(i, code) /\ down'[k] = Event("reply", i, code)
                 /\ k = Len(down) + 1
<1>1. down \in Seq(Messages)
  BY DEF TypeOK, Types, TrafficType
<1>2. \/ UNCHANGED down
      \/ down' = <<>>
      \/ down # <<>> /\ down' = Tail(down)
      \/ \E i \in DOMAIN req, code \in {"ok", "refused", "bare"} : CloudAnswers(i, code)
      \/ down' = Append(down, Event("service", 0, "ok"))
  BY Zenon DEF Next, MasterOpen, MasterConnect, BeginClose, SeesLeave, EndClose, SlaveOpen, Call,
       Lock, Step, TimesOut, SkipsRegister, SendRefused, Send, Cache, List, Destroy, InfoFails,
       Answered, Subscribe, Callback, CloudAsks, ReceiveReply, TellReply, Remove, ReceiveService,
       YielderStarts, YielderLeaves, Tick, Deliver, DeliverService, Arrives, vars
<1>3. CASE down # <<>> /\ down' = Tail(down)
  BY <1>1, <1>3
<1>4. CASE UNCHANGED down \/ down' = <<>>
  BY <1>1, <1>4
<1>5. ASSUME NEW m, down' = Append(down, m)
      PROVE  \/ k \in DOMAIN down /\ down'[k] = down[k]
             \/ k = Len(down) + 1 /\ down'[k] = m
  BY <1>1, <1>5
<1>6. CASE down' = Append(down, Event("service", 0, "ok"))
  BY <1>5, <1>6 DEF Event
<1>7. ASSUME NEW i \in DOMAIN req, NEW code \in {"ok", "refused", "bare"}, CloudAnswers(i, code)
      PROVE  \/ k \in DOMAIN down /\ down'[k] = down[k]
             \/ CloudAnswers(i, code) /\ down'[k] = Event("reply", i, code) /\ k = Len(down) + 1
  BY <1>5, <1>7, Zenon DEF CloudAnswers, Arrives
<1> QED BY <1>2, <1>3, <1>4, <1>6, <1>7, Zenon

\* A reply on its way is one to a request that was made, and requests are
\* only added.
LEMMA RepliesStayMade ==
    ASSUME TypeOK, Next
    PROVE  RepliesMade'
<1> DEFINE R == [op : Ops, dev : Devices]
<1>1. RepliesMade /\ req \in Seq(R)
  BY DEF TypeOK, Types, CloudType
<1>2. req' = req \/ \E r : req' = Append(req, r)
  BY Zenon DEF Next, MasterOpen, MasterConnect, BeginClose, SeesLeave, EndClose, SlaveOpen, Call,
       Lock, Step, TimesOut, SkipsRegister, SendRefused, Send, Cache, List, Destroy, InfoFails,
       Answered, Subscribe, Callback, CloudAnswers, CloudAsks, ReceiveReply, TellReply, Remove,
       ReceiveService, YielderStarts, YielderLeaves, Tick, Deliver, DeliverService
<1>3. DOMAIN req \subseteq DOMAIN req'
  BY <1>1, <1>2
<1>4. ASSUME NEW k \in DOMAIN down', down'[k].kind = "reply"
      PROVE  down'[k].id \in DOMAIN req
  BY <1>1, <1>4, DownStep DEF RepliesMade, Event
<1> QED BY <1>3, <1>4 DEF RepliesMade

\* The variables have their types at first, and each step keeps them.
LEMMA TypeInit == Init => TypeOK
<1> SUFFICES ASSUME Init PROVE TypeOK
  OBVIOUS
<1> USE DEF Init
<1>1. MasterType /\ ThingType /\ HistoryType /\ ClosingHolds
  BY UpstreamAssumption DEF MasterType, ThingType, HistoryType, ClosingHolds, Statuses
<1>2. ThreadType
  BY DEF ThreadType, Places, Plans
<1>3. WaitType /\ CallShape
  BY ThreadNames DEF WaitType, CallShape, NoWait, Waiting, Inside
<1>4. TrafficType
  BY UpstreamAssumption DEF TrafficType, NoHand, Messages, Codes
<1>5. CloudType /\ RepliesMade
  BY UpstreamAssumption DEF CloudType, RepliesMade
<1> QED BY <1>1, <1>2, <1>3, <1>4, <1>5 DEF TypeOK, Types

LEMMA TypeStep == TypeOK /\ [Next]_vars => TypeOK'
<1> SUFFICES ASSUME TypeOK, [Next]_vars PROVE TypeOK'
  OBVIOUS
<1>1. CASE UNCHANGED vars
  BY <1>1 DEF vars, master, threads, things, cloud, history, TypeOK, Types, RepliesMade, MasterType,
              ThreadType, WaitType, CallShape, ClosingHolds, ThingType, TrafficType, CloudType,
              HistoryType
<1>2. CASE Next
  <2>1. Types'
    BY <1>2, CallsAreTyped, MasterIsTyped, TrafficIsTyped, EventsAreTyped, Zenon DEF Next
  <2> QED BY <1>2, <2>1, RepliesStayMade DEF TypeOK
<1> QED BY <1>1, <1>2

\* Each variable has its type, the mutex its holder, and each reply its
\* request (TypeOK), whatever the threads, the cloud and the time do.
THEOREM TypeInvariant == Spec => []TypeOK
BY TypeInit, TypeStep, PTL DEF Spec

-----------------------------------------------------------------------------
(* What the cloud has answered, and what of it is on its way.                *)

\* e carries the answer to a request that was made.
Told(e) == e.id \in DOMAIN req /\ answer[e.id] = e.code

\* A reply carries the answer of the cloud wherever it is: on its way, in the
\* hands of the reading thread, or, if it grants the request, as an event.
ReplyInv ==
    /\ \A k \in DOMAIN down : down[k].kind = "reply" => Told(down[k])
    /\ yielder.at \in {"tell", "remove"} => yielder.hand.kind = "reply" /\ Told(yielder.hand)
    /\ \A k \in DOMAIN queue :
          queue[k].kind \in {"reply", "timeout"} /\ queue[k].code = "ok" => Told(queue[k])
    /\ \A i \in Ids \ DOMAIN req : answer[i] = "none"

\* Requests are only added, and an answer stays what it is.
LEMMA CloudStep ==
    ASSUME TypeOK, [Next]_vars
    PROVE  /\ req' = req \/ (\E r \in [op : Ops, dev : Devices] : req' = Append(req, r))
           /\ \A i \in DOMAIN req : i \in DOMAIN req' /\ req'[i] = req[i]
           /\ answer' = answer \/ \E i \in DOMAIN req, code \in {"ok", "refused", "bare"} :
                                     CloudAnswers(i, code)
           /\ \A i \in Ids : answer[i] # "none" => answer'[i] = answer[i]
<1> DEFINE R == [op : Ops, dev : Devices]
<1>1. req \in Seq(R) /\ req' \in Seq(R) /\ answer \in [Ids -> Codes \cup {"none"}]
  BY TypeStep DEF TypeOK, Types, CloudType
<1> HIDE DEF R
<1>2. req' = req \/ \E r : req' = Append(req, r)
  BY Zenon DEF Next, MasterOpen, MasterConnect, BeginClose, SeesLeave, EndClose, SlaveOpen, Call,
       Lock, Step, TimesOut, SkipsRegister, SendRefused, Send, Cache, List, Destroy, InfoFails,
       Answered, Subscribe, Callback, CloudAnswers, CloudAsks, ReceiveReply, TellReply, Remove,
       ReceiveService, YielderStarts, YielderLeaves, Tick, Deliver, DeliverService, vars
<1>3. req' = req \/ \E r \in R : req' = Append(req, r)
  <2>1. ASSUME NEW r, req' = Append(req, r)
        PROVE  r \in R
    <3>1. Len(req') = Len(req) + 1 /\ req'[Len(req) + 1] = r /\ Len(req) \in Nat
      BY <1>1, <2>1
    <3> QED BY <1>1, <3>1
  <2> QED BY <1>2, <2>1, Zenon
<1>4. \A i \in DOMAIN req : i \in DOMAIN req' /\ req'[i] = req[i]
  BY <1>1, <1>2
<1>5. answer' = answer \/ \E i \in DOMAIN req, code \in {"ok", "refused", "bare"} :
         CloudAnswers(i, code)
  BY Zenon DEF Next, MasterOpen, MasterConnect, BeginClose, SeesLeave, EndClose, SlaveOpen, Call,
       Lock, Step, TimesOut, SkipsRegister, SendRefused, Send, Cache, List, Destroy, InfoFails,
       Answered, Subscribe, Callback, CloudAsks, ReceiveReply, TellReply, Remove, ReceiveService,
       YielderStarts, YielderLeaves, Tick, Deliver, DeliverService, vars, cloud
<1>6. \A i \in Ids : answer[i] # "none" => answer'[i] = answer[i]
  BY <1>1, <1>5 DEF CloudAnswers
<1> QED BY <1>3, <1>4, <1>5, <1>6 DEF R

\* So what was told stays true.
LEMMA ToldStays ==
    ASSUME TypeOK, [Next]_vars, NEW e \in Messages, Told(e)
    PROVE  e.id \in DOMAIN req' /\ answer'[e.id] = e.code
<1>1. e.id \in Ids /\ e.code # "none"
  BY OneRequest DEF Told, Messages, Codes
<1> QED BY <1>1, CloudStep DEF Told

\* An event of the queue was there before, or the reading thread has just told
\* of it, or it is no success of a request.
LEMMA QueueStep ==
    ASSUME TypeOK, [Next]_vars, NEW k \in DOMAIN queue',
           queue'[k].kind \in {"reply", "timeout"}, queue'[k].code = "ok"
    PROVE  \/ \E j \in DOMAIN queue : queue'[k] = queue[j]
           \/ At("tell") /\ queue'[k] = yielder.hand
<1>1. queue \in Seq(Messages) /\ down \in Seq(Messages)
  BY DEF TypeOK, Types, TrafficType
<1>2. \/ UNCHANGED queue
      \/ queue' = <<>>
      \/ queue # <<>> /\ queue' = Tail(queue)
      \/ \E n \in 1 .. MaxCache : Tick(n)
      \/ TellReply \/ ReceiveService
  BY Zenon DEF Next, MasterOpen, MasterConnect, BeginClose, SeesLeave, EndClose, SlaveOpen, Call,
       Lock, Step, TimesOut, SkipsRegister, SendRefused, Send, Cache, List, Destroy, InfoFails,
       Answered, Subscribe, Callback, CloudAnswers, CloudAsks, ReceiveReply, Remove,
       YielderStarts, YielderLeaves, Deliver, Delivers, DeliverService, vars
<1>3. CASE UNCHANGED queue \/ queue' = <<>>
  BY <1>1, <1>3
<1>4. CASE queue # <<>> /\ queue' = Tail(queue)
  BY <1>1, <1>4
<1>5. ASSUME NEW n \in 1 .. MaxCache, Tick(n)
      PROVE  \E j \in DOMAIN queue : queue'[k] = queue[j]
  <2>1. PICK fit \in 0 .. n : /\ queue' = queue \o Overdue(fit)
                              /\ Overdue(fit) \in Seq(Messages) /\ Len(Overdue(fit)) = fit
    BY <1>5, TickFits
  <2>2. \A j \in 1 .. fit : Overdue(fit)[j].code = "failed"
    BY DEF Overdue, Event
  <2>3. k \in 1 .. Len(queue) + fit
        /\ queue'[k] = IF k <= Len(queue) THEN queue[k] ELSE Overdue(fit)[k - Len(queue)]
    BY <1>1, <2>1, ConcatProperties
  <2>4. Len(queue) \in Nat /\ fit \in Nat /\ DOMAIN queue = 1 .. Len(queue)
    BY <1>1
  <2>5. CASE k <= Len(queue)
    BY <2>3, <2>4, <2>5
  <2>6. CASE ~(k <= Len(queue))
    <3>1. k - Len(queue) \in 1 .. fit
      BY <2>3, <2>4, <2>6
    <3> QED BY <2>2, <2>3, <2>6, <3>1
  <2> QED BY <2>5, <2>6
<1>6. ASSUME NEW e \in Messages, Tell(e)
      PROVE  (\E j \in DOMAIN queue : queue'[k] = queue[j]) \/ queue'[k] = e
  <2>1. queue' = queue \/ queue' = Append(queue, e)
    BY <1>6, Zenon DEF Tell
  <2> QED BY <1>1, <2>1
<1>7. CASE TellReply
  <2>1. yielder.hand \in Messages
    BY DEF TypeOK, Types, TrafficType
  <2> QED BY <1>6, <1>7, <2>1 DEF TellReply
<1>8. CASE ReceiveService
  <2>1. Head(down) \in Messages /\ Head(down).kind = "service" /\ Tell(Head(down))
    BY <1>1, <1>8 DEF ReceiveService
  <2> QED BY <1>6, <2>1
<1> QED BY <1>2, <1>3, <1>4, <1>5, <1>7, <1>8

LEMMA ReplyStep == TypeOK /\ ReplyInv /\ [Next]_vars => ReplyInv'
<1> SUFFICES ASSUME TypeOK, ReplyInv, [Next]_vars PROVE ReplyInv'
  OBVIOUS
<1>1. down \in Seq(Messages) /\ queue \in Seq(Messages) /\ yielder.hand \in Messages
      /\ answer \in [Ids -> Codes \cup {"none"}]
  BY DEF TypeOK, Types, TrafficType, CloudType
<1>2. ASSUME NEW e \in Messages, Told(e)
      PROVE  e.id \in DOMAIN req' /\ answer'[e.id] = e.code
  BY <1>2, ToldStays
<1>3. ASSUME NEW k \in DOMAIN down', down'[k].kind = "reply"
      PROVE  down'[k].id \in DOMAIN req' /\ answer'[down'[k].id] = down'[k].code
  <2>1. CASE \E j \in DOMAIN down : down'[k] = down[j]
    BY <1>1, <1>2, <1>3, <2>1 DEF ReplyInv
  <2>2. ASSUME NEW i \in DOMAIN req, NEW code, CloudAnswers(i, code),
               down'[k] = Event("reply", i, code)
        PROVE  i \in DOMAIN req' /\ answer'[i] = code
    BY <1>1, <2>2, OneRequest, CloudStep DEF CloudAnswers
  <2> QED BY <1>3, <2>1, <2>2, DownStep DEF Event
<1>4. ASSUME yielder'.at \in {"tell", "remove"}
      PROVE  yielder'.hand.kind = "reply" /\ yielder'.hand.id \in DOMAIN req'
             /\ answer'[yielder'.hand.id] = yielder'.hand.code
  <2>1. \/ yielder.at \in {"tell", "remove"} /\ yielder'.hand = yielder.hand
        \/ down # <<>> /\ Head(down).kind = "reply" /\ yielder'.hand = Head(down)
    <3>1. yielder \in [at : {"none", "born", "poll", "tell", "remove", "left"}, hand : Messages]
      BY DEF TypeOK, Types, TrafficType
    <3>2. \/ UNCHANGED yielder
          \/ MasterOpen \/ MasterConnect \/ ReceiveReply \/ TellReply \/ Remove
          \/ YielderStarts \/ YielderLeaves
      BY Zenon DEF Next, BeginClose, SeesLeave, EndClose, SlaveOpen, Call, Lock, Step, TimesOut,
           SkipsRegister, SendRefused, Send, Cache, List, Destroy, InfoFails, Answered, Subscribe,
           Callback, CloudAnswers, CloudAsks, ReceiveService, Tick, Deliver, DeliverService, vars
    <3>3. CASE UNCHANGED yielder
      BY <1>4, <3>3
    <3>4. CASE MasterOpen \/ MasterConnect
      BY <1>4, <3>1, <3>4 DEF MasterOpen, MasterConnect
    <3>5. CASE ReceiveReply
      BY <1>4, <3>5 DEF ReceiveReply
    <3>6. CASE TellReply
      BY <3>1, <3>6 DEF TellReply, At
    <3>7. CASE Remove \/ YielderStarts \/ YielderLeaves
      BY <1>4, <3>1, <3>7 DEF Remove, YielderStarts, YielderLeaves
    <3> QED BY <3>2, <3>3, <3>4, <3>5, <3>6, <3>7
  <2>2. CASE yielder.at \in {"tell", "remove"} /\ yielder'.hand = yielder.hand
    BY <1>1, <1>2, <2>2 DEF ReplyInv
  <2>3. CASE down # <<>> /\ Head(down).kind = "reply" /\ yielder'.hand = Head(down)
    BY <1>1, <1>2, <2>3 DEF ReplyInv
  <2> QED BY <2>1, <2>2, <2>3
<1>5. ASSUME NEW k \in DOMAIN queue', queue'[k].kind \in {"reply", "timeout"}, queue'[k].code = "ok"
      PROVE  queue'[k].id \in DOMAIN req' /\ answer'[queue'[k].id] = queue'[k].code
  BY <1>1, <1>2, <1>5, QueueStep DEF ReplyInv, At
<1>6. ASSUME NEW i \in Ids, i \notin DOMAIN req'
      PROVE  answer'[i] = "none"
  BY <1>1, <1>6, CloudStep DEF ReplyInv, CloudAnswers
<1> QED BY <1>3, <1>4, <1>5, <1>6 DEF ReplyInv, Told

-----------------------------------------------------------------------------
(* What a call knows of its requests.                                        *)

\* A call that was woken with success waits for a request that was granted,
\* and the requests it has made are granted, but for the one it waits for.
CallOK(t) ==
    /\ waits[t].posts > 0 /\ waits[t].code = "ok" =>
          waits[t].id \in DOMAIN req /\ answer[waits[t].id] = "ok"
    /\ pc[t] \in {"cache", "list", "wait"} => waits[t].id \in DOMAIN req
    /\ asked[t] \subseteq SyncRequests
    /\ pc[t] \in {"idle", "lock", "destroy"} => asked[t] = {}
    /\ pc[t] \in {"send", "subscribe", "callback"} => asked[t] \subseteq Granted
    /\ asked[t] \subseteq Granted \cup {waits[t].id}
CallInv == \A t \in Threads : CallOK(t)

\* Requests that were granted stay so; only the cloud grants one, and one at a
\* time.
LEMMA GrantedStep ==
    ASSUME TypeOK, ReplyInv, [Next]_vars
    PROVE  /\ SyncRequests \subseteq SyncRequests' /\ Granted \subseteq Granted'
           /\ \/ Granted' = Granted
              \/ \E i \in DOMAIN req : CloudAnswers(i, "ok") /\ Granted' = Granted \cup {i}
<1> USE DEF SyncRequests, Granted, Op
<1>1. /\ \A i \in DOMAIN req : i \in DOMAIN req' /\ req'[i] = req[i]
      /\ \A i \in Ids : answer[i] # "none" => answer'[i] = answer[i]
      /\ answer \in [Ids -> Codes \cup {"none"}] /\ DOMAIN req \subseteq Ids
      /\ DOMAIN req' \subseteq Ids
  <2>1. DOMAIN req \subseteq Ids /\ answer \in [Ids -> Codes \cup {"none"}]
    BY OneRequest DEF TypeOK, Types, CloudType
  <2>2. DOMAIN req' \subseteq Ids
    <3>1. TypeOK'
      BY TypeStep
    <3>2. DOMAIN req' = 1 .. Len(req') /\ Len(req') \in Nat /\ Len(req') <= MaxRequests
      BY <3>1 DEF TypeOK, Types, CloudType
    <3> QED BY <3>2, UpstreamAssumption DEF Ids
  <2> QED BY <2>1, <2>2, CloudStep
<1>2. SyncRequests \subseteq SyncRequests'
  BY <1>1
<1>3. Granted \subseteq Granted'
  BY <1>1, <1>2
<1>4. \A i \in Ids \ DOMAIN req : answer[i] = "none"
  BY DEF ReplyInv
<1>5. CASE answer' = answer
  BY <1>1, <1>3, <1>4, <1>5
<1>6. ASSUME NEW i \in DOMAIN req, NEW code \in {"ok", "refused", "bare"}, CloudAnswers(i, code)
      PROVE  Granted' = Granted \/ (code = "ok" /\ Granted' = Granted \cup {i})
  <2>1. answer[i] = "none" /\ answer' = [answer EXCEPT ![i] = code] /\ req' = req
    BY <1>6 DEF CloudAnswers
  <2> QED BY <1>1, <1>3, <2>1
<1>7. answer' = answer \/ \E i \in DOMAIN req, code \in {"ok", "refused", "bare"} :
         CloudAnswers(i, code)
  BY CloudStep
<1>8. Granted' = Granted \/ \E i \in DOMAIN req : CloudAnswers(i, "ok") /\ Granted' = Granted \cup {i}
  <2>1. ASSUME NEW i \in DOMAIN req, NEW code \in {"ok", "refused", "bare"}, CloudAnswers(i, code)
        PROVE  Granted' = Granted \/ (CloudAnswers(i, "ok") /\ Granted' = Granted \cup {i})
    BY <1>6, <2>1
  <2> HIDE DEF Granted
  <2> QED BY <1>5, <1>7, <2>1
<1> QED BY <1>2, <1>3, <1>8

\* What a call knows stays true while the call stands still.
LEMMA CallStands ==
    ASSUME TypeOK, ReplyInv, [Next]_vars, NEW t \in Threads, CallOK(t),
           pc'[t] = pc[t], waits'[t] = waits[t], asked'[t] = asked[t]
    PROVE  CallOK(t)'
<1>1. \A i \in DOMAIN req : i \in DOMAIN req' /\ i \in Ids
  BY CloudStep, OneRequest
<1>2. \A i \in Ids : answer[i] = "ok" => answer'[i] = "ok"
  BY CloudStep
<1>3. SyncRequests \subseteq SyncRequests' /\ Granted \subseteq Granted'
  BY GrantedStep
<1> QED BY <1>1, <1>2, <1>3 DEF CallOK

LEMMA CallStep == TypeOK /\ ReplyInv /\ CallInv /\ [Next]_vars => CallInv'
<1> SUFFICES ASSUME TypeOK, ReplyInv, CallInv, [Next]_vars, NEW u \in Threads
             PROVE  CallOK(u)'
  BY DEF CallInv
<1>1. CallOK(u) /\ TypeOK'
  BY TypeStep DEF CallInv
<1>2. SyncRequests \subseteq SyncRequests' /\ Granted \subseteq Granted'
  BY GrantedStep
<1>3. CASE pc'[u] = pc[u] /\ waits'[u] = waits[u] /\ asked'[u] = asked[u]
  BY <1>1, <1>3, CallStands
<1>4. ASSUME NEW t \in Threads, NEW call, NEW d, Begin(t, call, d), UNCHANGED <<waits, asked, req, answer>>,
             pc[t] = "idle"
      PROVE  CallOK(u)'
  <2>1. CASE u # t
    BY <1>3, <1>4, <2>1 DEF Begin, Goto, TypeOK, Types, ThreadType
  <2>2. CASE u = t
    <3>1. pc'[u] = "lock"
      BY <1>4, <2>2 DEF Begin, Goto, TypeOK, Types, ThreadType
    <3> QED BY <1>1, <1>4, <2>2, <3>1 DEF CallOK, SyncRequests, Granted
  <2> QED BY <2>1, <2>2
<1>5. waits[u] \in [id : Nat, listed : BOOLEAN, code : {"ok", "failed"}, posts : Nat]
      /\ waits \in [Threads -> [id : Nat, listed : BOOLEAN, code : {"ok", "failed"}, posts : Nat]]
      /\ pc \in [Threads -> Places] /\ asked \in [Threads -> SUBSET Ids]
  BY OneThread DEF TypeOK, Types, WaitType, ThreadType
<1>6. \A i \in DOMAIN req : i \in DOMAIN req' /\ i \in Ids /\ (answer[i] = "ok" => answer'[i] = "ok")
  BY CloudStep, OneRequest
<1>7. ASSUME NEW t \in Threads, Lock(t) \/ Step(t) \/ TimesOut(t), u # t
      PROVE  CallOK(u)'
  <2>1. UNCHANGED pc \/ \E place : pc' = [pc EXCEPT ![t] = place]
    BY <1>7, Zenon DEF Lock, Step, TimesOut, SkipsRegister, SendRefused, Send, Cache, List,
         Destroy, InfoFails, Answered, Subscribe, Callback, Ends, Continues, Goto
  <2>2. UNCHANGED waits \/ \E w : waits' = [waits EXCEPT ![t] = w]
    <3>1. CASE List(t)
      BY <1>5, <3>1 DEF List
    <3> QED BY <1>7, <3>1, Zenon DEF Lock, Step, TimesOut, SkipsRegister, SendRefused, Send, Cache,
               Destroy, InfoFails, Answered, Subscribe, Callback
  <2>3. UNCHANGED asked \/ \E r : asked' = [asked EXCEPT ![t] = r]
    BY <1>7, Zenon DEF Lock, Step, TimesOut, SkipsRegister, SendRefused, Send, Cache, List,
         Destroy, InfoFails, Answered, Subscribe, Callback, Ends, Continues
  <2>4. pc'[u] = pc[u]
    BY <1>5, <1>7, <2>1
  <2>5. waits'[u] = waits[u]
    BY <1>5, <1>7, <2>2
  <2>6. asked'[u] = asked[u]
    BY <1>5, <1>7, <2>3
  <2> QED BY <1>3, <2>4, <2>5, <2>6
<1>8. ASSUME NEW res, Ends(u, res), UNCHANGED <<req, answer>>,
             UNCHANGED waits \/ waits' = [waits EXCEPT ![u] = NoWait]
      PROVE  CallOK(u)'
  <2>1. pc'[u] = "idle" /\ asked'[u] = {}
    BY <1>5, <1>8 DEF Ends, Goto
  <2>2. waits'[u] = waits[u] \/ waits'[u].posts = 0
    BY <1>5, <1>8 DEF NoWait, Waiting
  <2> QED BY <1>1, <1>8, <2>1, <2>2 DEF CallOK
<1>9. CASE Lock(u)
  <2>1. pc[u] = "lock" /\ pc'[u] \in {"destroy", "send"} /\ UNCHANGED <<waits, asked, req, answer>>
    BY <1>5, <1>9 DEF Lock, Goto, cloud
  <2> QED BY <1>1, <2>1 DEF CallOK
<1>10. CASE SkipsRegister(u)
  BY <1>3, <1>10, Zenon DEF SkipsRegister
<1>11. CASE SendRefused(u) \/ Destroy(u)
  BY <1>8, <1>11, Zenon DEF SendRefused, Destroy, cloud
<1>12. CASE Send(u)
  <2> DEFINE op == Head(plan[u])   d == job[u][2]   id == Len(req) + 1
  <2>1. pc[u] = "send" /\ req' = Append(req, [op |-> op, dev |-> d])
        /\ waits' = [waits EXCEPT ![u] = Waiting(id)]
        /\ (asked' = IF Waits(op) THEN [asked EXCEPT ![u] = @ \cup {id}] ELSE asked)
        /\ Goto(u, "cache")
    BY <1>12, Zenon DEF Send
  <2>2. id \in DOMAIN req' /\ req'[id].op = op
    <3>1. req \in Seq([op : Ops, dev : Devices])
      BY DEF TypeOK, Types, CloudType
    <3> QED BY <2>1, <3>1
  <2>3. asked[u] \subseteq Granted'
    BY <1>1, <1>2, <2>1 DEF CallOK
  <2>4. waits'[u].posts = 0 /\ waits'[u].id = id /\ pc'[u] = "cache"
    BY <1>5, <2>1 DEF Waiting, Goto
  <2>5. asked'[u] \subseteq asked[u] \cup {id} /\ (~Waits(op) => asked'[u] = asked[u])
    BY <1>5, <2>1
  <2>6. Waits(op) => id \in SyncRequests'
    BY <2>2 DEF SyncRequests, Op
  <2>7. asked'[u] \subseteq SyncRequests'
    BY <1>1, <1>2, <2>5, <2>6 DEF CallOK
  <2> HIDE DEF id
  <2> QED BY <2>2, <2>3, <2>4, <2>5, <2>7 DEF CallOK
<1>13. CASE Cache(u)
  <2>1. CASE Ends(u, "ok") /\ waits' = [waits EXCEPT ![u] = NoWait]
    BY <1>8, <1>13, <2>1 DEF Cache, cloud
  <2>2. CASE Continues(u, "list") /\ UNCHANGED waits
    <3>1. pc[u] = "cache" /\ pc'[u] = "list" /\ UNCHANGED asked
      BY <1>5, <1>13, <2>2 DEF Cache, Continues, Goto
    <3> QED BY <1>1, <1>2, <1>6, <2>2, <3>1 DEF CallOK
  <2>3. CASE Continues(u, "callback") /\ ~Waits(Op(waits[u].id)) /\ waits' = [waits EXCEPT ![u] = NoWait]
    <3>1. pc[u] = "cache" /\ pc'[u] = "callback" /\ UNCHANGED asked /\ waits'[u].posts = 0
      BY <1>5, <1>13, <2>3 DEF Cache, Continues, Goto, NoWait, Waiting
    <3>2. asked[u] \subseteq Granted
      BY <1>1, <2>3 DEF CallOK, SyncRequests
    <3> QED BY <1>1, <1>2, <3>1, <3>2 DEF CallOK
  <2> QED BY <1>13, <2>1, <2>2, <2>3, Zenon DEF Cache
<1>14. CASE List(u)
  <2>1. pc[u] = "list" /\ pc'[u] = "wait" /\ UNCHANGED asked
        /\ waits'[u].id = waits[u].id /\ waits'[u].posts = waits[u].posts
        /\ waits'[u].code = waits[u].code
    BY <1>5, <1>14 DEF List, Goto
  <2> QED BY <1>1, <1>2, <1>6, <2>1 DEF CallOK
<1>15. CASE Answered(u)
  <2>1. pc[u] = "wait" /\ waits[u].posts > 0 /\ waits' = [waits EXCEPT ![u] = NoWait]
        /\ UNCHANGED <<req, answer>>
    BY <1>15, Zenon DEF Answered, cloud
  <2>2. CASE \E res : Ends(u, res)
    BY <1>8, <2>1, <2>2
  <2>3. ASSUME NEW place \in {"send", "subscribe"}, waits[u].code = "ok", Continues(u, place)
        PROVE  CallOK(u)'
    <3>1. pc'[u] = place /\ UNCHANGED asked /\ waits'[u].posts = 0
      BY <1>5, <2>1, <2>3 DEF Continues, Goto, NoWait, Waiting
    <3>2. answer[waits[u].id] = "ok"
      BY <1>1, <2>1, <2>3 DEF CallOK
    <3>3. asked[u] \subseteq Granted
      BY <1>1, <3>2 DEF CallOK, Granted
    <3> QED BY <1>1, <1>2, <3>1, <3>3 DEF CallOK
  <2>4. \/ \E res : Ends(u, res)
        \/ /\ waits[u].code = "ok"
           /\ Continues(u, IF Head(plan[u]) = "device_info" THEN "subscribe" ELSE "send")
    BY <1>15, Zenon DEF Answered
  <2> QED BY <2>2, <2>3, <2>4
<1>16. CASE TimesOut(u)
  BY <1>8, <1>16, Zenon DEF TimesOut, cloud
<1>17. CASE Deliver
  <2>1. UNCHANGED <<pc, asked, req, answer>> /\ queue # <<>> /\ Head(queue).kind \in {"reply", "timeout"}
        /\ (Wake(Head(queue)) \/ UNCHANGED waits)
    BY <1>17, Zenon DEF Deliver, Delivers, cloud
  <2>2. waits'[u] = waits[u]
        \/ \E c \in {"ok", "failed"} :
              /\ waits'[u] = [waits[u] EXCEPT !.code = c, !.posts = @ + 1]
              /\ waits[u].id = Head(queue).id
              /\ c = "ok" => Head(queue).code = "ok"
    BY <2>1 DEF Wake
  <2>3. ASSUME NEW c \in {"ok", "failed"}, waits[u].id = Head(queue).id,
               waits'[u] = [waits[u] EXCEPT !.code = c, !.posts = @ + 1],
               c = "ok" => Head(queue).code = "ok"
        PROVE  CallOK(u)'
    <3> DEFINE v == [waits[u] EXCEPT !.code = c, !.posts = @ + 1]
    <3>1. v.id = waits[u].id /\ v.code = c
      BY <1>5, WokenIsTyped, Zenon
    <3>2. waits'[u] = v
      BY <2>3, Zenon
    <3> HIDE DEF v
    <3>3. waits'[u].id = waits[u].id /\ waits'[u].code = c
      BY <3>1, <3>2
    <3>4. c = "ok" => Told(Head(queue))
      <4>1. queue \in Seq(Messages)
        BY DEF TypeOK, Types, TrafficType
      <4>2. 1 \in DOMAIN queue /\ Head(queue) = queue[1]
        BY <2>1, <4>1
      <4> QED BY <2>1, <2>3, <4>2 DEF ReplyInv
    <3>5. waits'[u].code = "ok" => waits'[u].id \in DOMAIN req /\ answer[waits'[u].id] = "ok"
      BY <2>3, <3>3, <3>4 DEF Told
    <3> QED BY <1>1, <1>2, <2>1, <3>3, <3>5 DEF CallOK
  <2> QED BY <1>3, <2>1, <2>2, <2>3
<1>18. CASE pc' = pc /\ waits' = waits /\ asked' = asked
  BY <1>3, <1>18
<1>19. CASE InfoFails(u) \/ Subscribe(u) \/ Callback(u)
  <2>1. pc[u] \in {"send", "subscribe", "callback"} /\ UNCHANGED <<waits, req, answer>>
    BY <1>19, Zenon DEF InfoFails, Subscribe, Callback, cloud
  <2>2. CASE \E res : Ends(u, res)
    BY <1>8, <2>1, <2>2
  <2>3. ASSUME NEW place \in {"send", "callback"}, Continues(u, place)
        PROVE  CallOK(u)'
    <3>1. pc'[u] = place /\ UNCHANGED asked
      BY <1>5, <2>3 DEF Continues, Goto
    <3> QED BY <1>1, <1>2, <2>1, <3>1 DEF CallOK
  <2> QED BY <1>19, <2>2, <2>3, Zenon DEF InfoFails, Subscribe, Callback
<1>20. \/ UNCHANGED <<pc, waits, asked>>
       \/ \E t \in Threads : Lock(t) \/ Step(t) \/ TimesOut(t)
       \/ Deliver
       \/ \E t \in Threads : \E call, d : /\ Begin(t, call, d) /\ pc[t] = "idle"
                                         /\ UNCHANGED <<waits, asked, req, answer>>
  <2>1. \A t \in Callers : t \in Threads
    BY DEF Threads
  <2> QED BY <2>1, ThreadNames, Zenon DEF Next, MasterOpen, MasterConnect, BeginClose, SeesLeave,
         EndClose, SlaveOpen, Call, CloudAnswers, CloudAsks, ReceiveReply, TellReply, Remove,
         ReceiveService, YielderStarts, YielderLeaves, Tick, DeliverService, Delivers, AtHome,
         vars, threads, cloud
<1> QED BY <1>4, <1>7, <1>9, <1>10, <1>11, <1>12, <1>13, <1>14, <1>15, <1>16, <1>17, <1>18, <1>19,
       <1>20, Zenon DEF Step

-----------------------------------------------------------------------------
(* A synchronous call keeps its promise.                                     *)

Busy    == {t \in Threads : ~AtHome(t)}
Outcome == [t \in Threads |-> IF AtHome(t) THEN result[t] ELSE "none"]

\* A call begins, asks, or returns as SyncCall has it.
LEMMA MapsBegin ==
    ASSUME TypeOK, NEW t \in Threads, pc[t] = "idle", NEW call, NEW d, Begin(t, call, d),
           asked' = asked, Granted' = Granted
    PROVE  Promise!Call(t)
<1>1. pc \in [Threads -> Places] /\ result \in [Threads -> {"none", "ok", "failed"}]
  BY DEF TypeOK, Types, ThreadType
<1>2. pc' = [pc EXCEPT ![t] = "lock"] /\ result' = [result EXCEPT ![t] = "none"]
  BY DEF Begin, Goto
<1>3. t \notin Busy /\ Busy' = Busy \cup {t}
  BY <1>1, <1>2 DEF Busy, AtHome
<1>4. Outcome' = [Outcome EXCEPT ![t] = "none"]
  BY <1>1, <1>2 DEF Outcome, AtHome
<1> QED BY <1>3, <1>4 DEF Promise!Call, Busy, Outcome

LEMMA MapsReturn ==
    ASSUME TypeOK, NEW t \in Threads, pc[t] # "idle", NEW res \in {"ok", "failed"}, Ends(t, res),
           Granted' = Granted, res = "ok" => asked[t] \subseteq Granted
    PROVE  Promise!Return(t, res)
<1>1. pc \in [Threads -> Places] /\ result \in [Threads -> {"none", "ok", "failed"}]
  BY DEF TypeOK, Types, ThreadType
<1>2. pc' = [pc EXCEPT ![t] = "idle"] /\ result' = [result EXCEPT ![t] = res]
      /\ asked' = [asked EXCEPT ![t] = {}]
  BY DEF Ends, Goto
<1>3. t \in Busy /\ Busy' = Busy \ {t}
  BY <1>1, <1>2 DEF Busy, AtHome
<1>4. Outcome' = [Outcome EXCEPT ![t] = res]
  BY <1>1, <1>2 DEF Outcome, AtHome
<1> QED BY <1>2, <1>3, <1>4 DEF Promise!Return, Busy, Outcome

LEMMA MapsStutter ==
    ASSUME TypeOK, \A t \in Threads : AtHome(t)' <=> AtHome(t),
           UNCHANGED <<result, asked>>, Granted' = Granted
    PROVE  UNCHANGED Promise!vars
<1>1. Busy' = Busy
  BY DEF Busy
<1>2. Outcome' = Outcome
  BY DEF Outcome
<1> QED BY <1>1, <1>2 DEF Promise!vars, Busy, Outcome

LEMMA MapsAsk ==
    ASSUME TypeOK, ReplyInv, CallInv, [Next]_vars, NEW t \in Threads, Send(t)
    PROVE  \/ \E r \in Ids : Promise!Ask(t, r)
           \/ UNCHANGED Promise!vars
<1> DEFINE op == Head(plan[t])   id == Len(req) + 1
<1>1. pc[t] = "send" /\ Len(req) < MaxRequests /\ pc' = [pc EXCEPT ![t] = "cache"] /\ result' = result
      /\ (asked' = IF Waits(op) THEN [asked EXCEPT ![t] = @ \cup {id}] ELSE asked)
      /\ answer' = answer
  BY Zenon DEF Send, Goto, cloud
<1>2. pc \in [Threads -> Places] /\ Len(req) \in Nat /\ DOMAIN req = 1 .. Len(req)
  BY DEF TypeOK, Types, ThreadType, CloudType
<1>3. Granted' = Granted
  <2>1. ~ \E i \in DOMAIN req : CloudAnswers(i, "ok")
    <3> SUFFICES ASSUME NEW i \in DOMAIN req, CloudAnswers(i, "ok") PROVE FALSE
      OBVIOUS
    <3>1. answer[i] = "none" /\ answer' = [answer EXCEPT ![i] = "ok"] /\ i \in Ids
      BY OneRequest DEF CloudAnswers
    <3>2. answer \in [Ids -> Codes \cup {"none"}]
      BY DEF TypeOK, Types, CloudType
    <3> QED BY <1>1, <3>1, <3>2
  <2> QED BY <2>1, GrantedStep
<1>4. \A u \in Threads : AtHome(u)' <=> AtHome(u)
  BY <1>1, <1>2 DEF AtHome
<1>5. CASE ~Waits(op)
  BY <1>1, <1>3, <1>4, <1>5, MapsStutter
<1>6. CASE Waits(op)
  <2>1. id \in Ids /\ id \notin DOMAIN req
    BY <1>1, <1>2, UpstreamAssumption DEF Ids
  <2>2. id \notin Promise!Asked
    BY <2>1 DEF Promise!Asked, CallInv, CallOK, SyncRequests
  <2>3. asked' = [asked EXCEPT ![t] = @ \cup {id}]
    BY <1>1, <1>6
  <2>4. t \in Busy /\ Busy' = Busy
    BY <1>1, <1>4 DEF Busy, AtHome
  <2>5. Outcome' = Outcome
    BY <1>1, <1>4 DEF Outcome
  <2> HIDE DEF id
  <2> QED BY <1>3, <2>1, <2>2, <2>3, <2>4, <2>5 DEF Promise!Ask, Busy, Outcome
<1> QED BY <1>5, <1>6

\* A call that returns success has had all of its requests granted.
LEMMA MapsCall ==
    ASSUME TypeOK, ReplyInv, CallInv, [Next]_vars, NEW t \in Threads,
           Lock(t) \/ Step(t) \/ TimesOut(t)
    PROVE  Promise!Next \/ UNCHANGED Promise!vars
<1>1. pc \in [Threads -> Places] /\ pc[t] # "idle" /\ CallOK(t)
  <2>1. pc[t] # "idle"
    BY Zenon DEF Lock, Step, SkipsRegister, SendRefused, Send, Cache, List, Destroy, InfoFails,
         Answered, Subscribe, Callback, TimesOut
  <2> QED BY <2>1 DEF TypeOK, Types, ThreadType, CallInv
<1>2. CASE Send(t)
  <2>1. (\E r \in Ids : Promise!Ask(t, r)) \/ UNCHANGED Promise!vars
    BY <1>2, MapsAsk
  <2> QED BY <2>1 DEF Promise!Next
<1>3. ASSUME ~Send(t)
      PROVE  Granted' = Granted
  <2>1. UNCHANGED <<req, answer>>
    BY <1>3, Zenon DEF Lock, Step, SkipsRegister, SendRefused, Cache, List, Destroy, InfoFails,
         Answered, Subscribe, Callback, TimesOut, cloud
  <2> QED BY <2>1 DEF Granted, SyncRequests, Op
<1>4. ASSUME ~Send(t), NEW res \in {"ok", "failed"}, Ends(t, res), res = "ok" => asked[t] \subseteq Granted
      PROVE  Promise!Next
  <2>1. Promise!Return(t, res)
    BY <1>1, <1>3, <1>4, MapsReturn
  <2> QED BY <2>1 DEF Promise!Next
<1>5. ASSUME ~Send(t), NEW place, place # "idle", pc' = [pc EXCEPT ![t] = place] \/ pc' = pc,
             UNCHANGED <<result, asked>>
      PROVE  UNCHANGED Promise!vars
  <2>1. \A u \in Threads : AtHome(u)' <=> AtHome(u)
    BY <1>1, <1>5 DEF AtHome
  <2> QED BY <1>3, <1>5, <2>1, MapsStutter
<1>6. CASE ~Send(t) /\ Lock(t)
  <2>1. \E place \in {"destroy", "send"} : pc' = [pc EXCEPT ![t] = place]
    BY <1>6 DEF Lock, Goto
  <2>2. UNCHANGED <<result, asked>>
    BY <1>6 DEF Lock
  <2> QED BY <1>5, <1>6, <2>1, <2>2
<1>7. CASE ~Send(t) /\ SkipsRegister(t)
  BY <1>5, <1>7, Zenon DEF SkipsRegister
<1>8. CASE ~Send(t) /\ SendRefused(t)
  BY <1>4, <1>8 DEF SendRefused
<1>9. CASE ~Send(t) /\ TimesOut(t)
  BY <1>4, <1>9 DEF TimesOut
<1>10. CASE ~Send(t) /\ Destroy(t)
  BY <1>1, <1>4, <1>10 DEF Destroy, CallOK
<1>11. CASE ~Send(t) /\ List(t)
  BY <1>5, <1>11 DEF List, Goto
<1>12. CASE ~Send(t) /\ Cache(t)
  <2>1. pc[t] = "cache"
    BY <1>12 DEF Cache
  <2>2. CASE Waits(Op(waits[t].id)) /\ Continues(t, "list")
    BY <1>5, <1>12, <2>2 DEF Continues, Goto
  <2>3. CASE ~Waits(Op(waits[t].id)) /\ Ends(t, "ok")
    <3>1. asked[t] \subseteq Granted
      BY <1>1, <2>3 DEF CallOK, SyncRequests
    <3> QED BY <1>4, <1>12, <2>3, <3>1
  <2>4. CASE Continues(t, "callback")
    BY <1>5, <1>12, <2>4 DEF Continues, Goto
  <2> QED BY <1>12, <2>2, <2>3, <2>4, Zenon DEF Cache
<1>13. CASE ~Send(t) /\ Answered(t)
  <2>1. pc[t] = "wait" /\ waits[t].posts > 0
    BY <1>13 DEF Answered
  <2>2. CASE Ends(t, "failed")
    BY <1>4, <1>13, <2>2
  <2>3. ASSUME NEW place \in {"send", "subscribe"}, Continues(t, place)
        PROVE  UNCHANGED Promise!vars
    BY <1>5, <1>13, <2>3 DEF Continues, Goto
  <2>4. CASE waits[t].code = "ok" /\ Ends(t, "ok")
    <3>1. asked[t] \subseteq Granted
      BY <1>1, <2>1, <2>4 DEF CallOK, Granted
    <3> QED BY <1>4, <1>13, <2>4, <3>1
  <2>5. \/ Ends(t, "failed") \/ (waits[t].code = "ok" /\ Ends(t, "ok"))
        \/ Continues(t, IF Head(plan[t]) = "device_info" THEN "subscribe" ELSE "send")
    BY <1>13, Zenon DEF Answered
  <2> QED BY <2>2, <2>3, <2>4, <2>5
<1>14. CASE ~Send(t) /\ (InfoFails(t) \/ Subscribe(t) \/ Callback(t))
  <2>1. pc[t] \in {"send", "subscribe", "callback"}
    BY <1>14, Zenon DEF InfoFails, Subscribe, Callback
  <2>2. asked[t] \subseteq Granted
    BY <1>1, <2>1 DEF CallOK
  <2>3. CASE \E res \in {"ok", "failed"} : Ends(t, res)
    BY <1>4, <1>14, <2>2, <2>3
  <2>4. ASSUME NEW place \in {"send", "callback"}, Continues(t, place)
        PROVE  UNCHANGED Promise!vars
    BY <1>5, <1>14, <2>4 DEF Continues, Goto
  <2> QED BY <1>14, <2>3, <2>4, Zenon DEF InfoFails, Subscribe, Callback
<1> QED BY <1>2, <1>6, <1>7, <1>8, <1>9, <1>10, <1>11, <1>12, <1>13, <1>14, Zenon DEF Step

LEMMA MapsNext ==
    ASSUME TypeOK, ReplyInv, CallInv, [Next]_vars
    PROVE  [Promise!Next]_Promise!vars
<1>1. ASSUME NEW t \in Threads, Lock(t) \/ Step(t) \/ TimesOut(t)
      PROVE  Promise!Next \/ UNCHANGED Promise!vars
  BY <1>1, MapsCall
<1>2. ASSUME NEW t \in Threads, NEW call, NEW d, Begin(t, call, d), UNCHANGED <<asked, req, answer>>,
             pc[t] = "idle"
      PROVE  Promise!Next
  <2>1. Granted' = Granted
    BY <1>2 DEF Granted, SyncRequests, Op
  <2>2. Promise!Call(t)
    BY <1>2, <2>1, MapsBegin
  <2> QED BY <2>2 DEF Promise!Next
<1>3. CASE UNCHANGED <<pc, result, asked>>
  <2>1. Busy' = Busy /\ Outcome' = Outcome
    BY <1>3 DEF Busy, Outcome, AtHome
  <2>2. CASE Granted' = Granted
    BY <1>3, <2>1, <2>2 DEF Promise!vars, Busy, Outcome
  <2>3. ASSUME NEW i \in DOMAIN req, Granted' = Granted \cup {i}
        PROVE  Promise!Next
    <3>1. i \in Ids /\ asked' = asked
      BY <1>3, OneRequest
    <3>2. Promise!Grant(i)
      BY <2>1, <2>3, <3>1 DEF Promise!Grant, Busy, Outcome
    <3> QED BY <3>1, <3>2 DEF Promise!Next
  <2> QED BY <2>2, <2>3, GrantedStep
<1>4. \/ UNCHANGED <<pc, result, asked>>
      \/ \E t \in Threads : Lock(t) \/ Step(t) \/ TimesOut(t)
      \/ \E t \in Threads : \E call, d : /\ Begin(t, call, d) /\ pc[t] = "idle"
                                        /\ UNCHANGED <<asked, req, answer>>
  <2>1. \A t \in Callers : t \in Threads
    BY DEF Threads
  <2> QED BY <2>1, ThreadNames, Zenon DEF Next, MasterOpen, MasterConnect, BeginClose, SeesLeave,
         EndClose, SlaveOpen, Call, CloudAnswers, CloudAsks, ReceiveReply, TellReply, Remove,
         ReceiveService, YielderStarts, YielderLeaves, Tick, Deliver, DeliverService, Delivers,
         AtHome, vars, threads, cloud
<1> QED BY <1>1, <1>2, <1>3, <1>4

\* A synchronous call returns success only if the cloud granted each request
\* that it made and waited for: the threads, the list of the waiting calls and
\* the queue implement SyncCall (the calls of impl_linkkit.c that wait for a reply).
THEOREM KeepsThePromise == Spec => ImplementsSyncCall
<1>1. Init => ReplyInv /\ CallInv /\ Promise!Init
  <2> SUFFICES ASSUME Init PROVE ReplyInv /\ CallInv /\ Promise!Init
    OBVIOUS
  <2>1. ReplyInv
    BY DEF Init, ReplyInv
  <2>2. CallInv
    BY DEF Init, CallInv, CallOK, NoWait, Waiting
  <2>3. Promise!Init
    BY DEF Init, Promise!Init, AtHome, Granted, SyncRequests
  <2> QED BY <2>1, <2>2, <2>3
<1> QED BY <1>1, TypeInit, TypeStep, ReplyStep, CallStep, MapsNext, PTL
        DEF Spec, ImplementsSyncCall, Promise!Spec

-----------------------------------------------------------------------------
(* Who is logged in.                                                         *)

\* A message that says of d that it was logged in, and one that says of it
\* that it was logged out or deleted.
Logs(e, d)   == e.kind = "reply" /\ e.code = "ok" /\ Op(e.id) = "login" /\ Dev(e.id) = d
Undoes(e, d) == /\ e.kind = "reply" /\ e.code = "ok"
                /\ Op(e.id) \in {"logout", "topo_delete"} /\ Dev(e.id) = d
Overlooked(d) == \E i \in DOMAIN req : /\ i \in missed /\ answer[i] = "ok"
                                      /\ Op(i) \in {"logout", "topo_delete"} /\ Dev(i) = d
UndoneFrom(n, d) == (\E j \in DOMAIN down : j >= n /\ Undoes(down[j], d)) \/ Overlooked(d)

\* What the device has of a login that the cloud has undone since, in its table
\* or on its way, is undone by a later message.  (The messages keep the order
\* in which the cloud sent them.)
LoginInv ==
    \A d \in Devices \ online :
        /\ devs[d] = "logined" => UndoneFrom(1, d)
        /\ \A k \in DOMAIN down : Logs(down[k], d) => UndoneFrom(k + 1, d)

\* The only reply that makes a device logged in is that to a login.
LEMMA OnlyLoginLogsIn ==
    ASSUME NEW op \in Ops, Reply(op).status = "logined"
    PROVE  op = "login"
<1> USE DEF Reply
<1>1. op # "register"
  BY DEF RegisterReply
<1>2. op # "topo_add"
  BY DEF TopoAddReply
<1>3. op # "topo_delete"
  BY DEF TopoDeleteReply
<1>4. op # "logout"
  BY DEF LogoutReply
<1>5. op # "post"
  BY DEF PostReply
<1>6. op # "device_info"
  BY DEF DeviceInfoReply
<1> QED BY <1>1, <1>2, <1>3, <1>4, <1>5, <1>6 DEF Ops

\* A message says the same wherever it is.
LEMMA MessageStays ==
    ASSUME TypeOK, [Next]_vars, NEW d, NEW j \in DOMAIN down, NEW k \in DOMAIN down',
           down'[k] = down[j]
    PROVE  (Undoes(down[k], d)' <=> Undoes(down[j], d)) /\ (Logs(down[k], d)' <=> Logs(down[j], d))
<1>1. down[j].kind = "reply" => down[j].id \in DOMAIN req /\ req'[down[j].id] = req[down[j].id]
  BY CloudStep DEF TypeOK, RepliesMade
<1> QED BY <1>1 DEF Undoes, Logs, Op, Dev

LEMMA OverlookedStays ==
    ASSUME TypeOK, [Next]_vars, NEW d, Overlooked(d)
    PROVE  Overlooked(d)'
<1>1. missed \subseteq missed'
  <2>1. missed' = missed \/ \E i : missed' = missed \cup {i}
    <3>1. CASE ReceiveReply
      BY <3>1 DEF ReceiveReply
    <3> QED BY <3>1, Zenon DEF Next, MasterOpen, MasterConnect, BeginClose, SeesLeave, EndClose,
           SlaveOpen, Call, Lock, Step, TimesOut, SkipsRegister, SendRefused, Send, Cache, List,
           Destroy, InfoFails, Answered, Subscribe, Callback, CloudAnswers, CloudAsks, TellReply,
           Remove, ReceiveService, YielderStarts, YielderLeaves, Tick, Deliver, DeliverService,
           vars, history
  <2> QED BY <2>1
<1>2. PICK i \in DOMAIN req : /\ i \in missed /\ answer[i] = "ok"
                             /\ Op(i) \in {"logout", "topo_delete"} /\ Dev(i) = d
  BY DEF Overlooked
<1>3. i \in DOMAIN req' /\ req'[i] = req[i] /\ answer'[i] = "ok"
  BY <1>2, CloudStep, OneRequest
<1> QED BY <1>1, <1>2, <1>3 DEF Overlooked, Op, Dev

\* What undoes a login still does so after a message was added, and after the
\* first was taken.
LEMMA UndoneStays ==
    ASSUME TypeOK, [Next]_vars, NEW d, NEW n \in Nat, UndoneFrom(n, d),
           UNCHANGED down \/ \E m : down' = Append(down, m)
    PROVE  UndoneFrom(n, d)'
<1>1. down \in Seq(Messages)
  BY DEF TypeOK, Types, TrafficType
<1>2. \A j \in DOMAIN down : j \in DOMAIN down' /\ down'[j] = down[j]
  BY <1>1
<1>3. CASE Overlooked(d)
  BY <1>3, OverlookedStays DEF UndoneFrom
<1>4. ASSUME NEW j \in DOMAIN down, j >= n, Undoes(down[j], d)
      PROVE  UndoneFrom(n, d)'
  <2>1. j \in DOMAIN down' /\ Undoes(down[j], d)'
    BY <1>2, <1>4, MessageStays
  <2> QED BY <1>4, <2>1 DEF UndoneFrom
<1> QED BY <1>3, <1>4 DEF UndoneFrom

LEMMA UndoneMovesUp ==
    ASSUME TypeOK, [Next]_vars, NEW d, NEW n \in Nat \ {0}, UndoneFrom(n + 1, d),
           down # <<>>, down' = Tail(down)
    PROVE  UndoneFrom(n, d)'
<1>1. down \in Seq(Messages)
  BY DEF TypeOK, Types, TrafficType
<1>2. CASE Overlooked(d)
  BY <1>2, OverlookedStays DEF UndoneFrom
<1>3. ASSUME NEW j \in DOMAIN down, j >= n + 1, Undoes(down[j], d)
      PROVE  UndoneFrom(n, d)'
  <2> DEFINE k == j - 1
  <2>1. k \in DOMAIN down' /\ down'[k] = down[j] /\ k >= n
    BY <1>1, <1>3
  <2> HIDE DEF k
  <2>2. Undoes(down[k], d)'
    BY <1>3, <2>1, MessageStays
  <2> QED BY <2>1, <2>2 DEF UndoneFrom
<1> QED BY <1>2, <1>3 DEF UndoneFrom

LEMMA LoginStep == TypeOK /\ ReplyInv /\ LoginInv /\ [Next]_vars => LoginInv'
<1> SUFFICES ASSUME TypeOK, ReplyInv, LoginInv, [Next]_vars, NEW d \in Devices, d \notin online'
             PROVE  /\ devs'[d] = "logined" => UndoneFrom(1, d)'
                    /\ \A k \in DOMAIN down' : Logs(down[k], d)' => UndoneFrom(k + 1, d)'
  BY DEF LoginInv
<1>1. down \in Seq(Messages) /\ devs \in [Devices -> Statuses]
  BY DEF TypeOK, Types, TrafficType, ThingType
<1>2. d \notin online => /\ devs[d] = "logined" => UndoneFrom(1, d)
                        /\ \A k \in DOMAIN down : Logs(down[k], d) => UndoneFrom(k + 1, d)
  BY DEF LoginInv
\* Nothing is taken from the messages, and none says that d was logged in.
<1>3. ASSUME UNCHANGED down \/ (\E m : down' = Append(down, m) /\ m.kind # "reply"),
             devs'[d] = "logined" => devs[d] = "logined", d \notin online
      PROVE  /\ devs'[d] = "logined" => UndoneFrom(1, d)'
             /\ \A k \in DOMAIN down' : Logs(down[k], d)' => UndoneFrom(k + 1, d)'
  <2>1. ASSUME NEW n \in Nat, UndoneFrom(n, d)
        PROVE  UndoneFrom(n, d)'
    BY <1>3, <2>1, UndoneStays
  <2>2. ASSUME NEW k \in DOMAIN down', Logs(down[k], d)'
        PROVE  UndoneFrom(k + 1, d)'
    <3>1. down'[k].kind = "reply"
      BY <2>2 DEF Logs
    <3>2. k \in DOMAIN down /\ down'[k] = down[k] /\ k + 1 \in Nat
      BY <1>1, <1>3, <3>1
    <3>3. Logs(down[k], d)
      BY <2>2, <3>2, MessageStays
    <3> QED BY <1>2, <1>3, <2>1, <3>2, <3>3
  <2> QED BY <1>2, <1>3, <2>1, <2>2
\* The first message is taken.
<1>4. ASSUME down # <<>>, down' = Tail(down), d \notin online
      PROVE  /\ UndoneFrom(2, d) => UndoneFrom(1, d)'
             /\ \A k \in DOMAIN down' : Logs(down[k], d)' => UndoneFrom(k + 1, d)'
  <2>1. ASSUME NEW n \in Nat \ {0}, UndoneFrom(n + 1, d)
        PROVE  UndoneFrom(n, d)'
    BY <1>4, <2>1, UndoneMovesUp
  <2>2. ASSUME NEW k \in DOMAIN down', Logs(down[k], d)'
        PROVE  UndoneFrom(k + 1, d)'
    <3> DEFINE j == k + 1
    <3>1. j \in DOMAIN down /\ down'[k] = down[j] /\ j \in Nat \ {0}
      BY <1>1, <1>4
    <3> HIDE DEF j
    <3>2. Logs(down[j], d)
      BY <2>2, <3>1, MessageStays
    <3>3. UndoneFrom(j + 1, d)
      BY <1>2, <1>4, <3>1, <3>2
    <3> QED BY <2>1, <3>1, <3>3 DEF j
  <2> QED BY <2>1, <2>2
<1>5. ASSUME NEW i \in DOMAIN req, NEW code \in {"ok", "refused", "bare"}, CloudAnswers(i, code)
      PROVE  /\ devs'[d] = "logined" => UndoneFrom(1, d)'
             /\ \A k \in DOMAIN down' : Logs(down[k], d)' => UndoneFrom(k + 1, d)'
  <2>0. PICK last \in Nat : last = Len(down) + 1
    BY <1>1
  <2>1. down' = Append(down, Event("reply", i, code)) /\ UNCHANGED <<devs, req>>
        /\ (online' = IF code # "ok" THEN online
                      ELSE CASE Op(i) = "login" -> online \cup {Dev(i)}
                             [] Op(i) \in {"logout", "topo_delete"} -> online \ {Dev(i)}
                             [] OTHER -> online)
    BY <1>5, Zenon DEF CloudAnswers, Arrives, things
  <2>2. last \in DOMAIN down' /\ down'[last] = Event("reply", i, code)
        /\ \A k \in DOMAIN down' : \/ k = last
                                   \/ /\ k \in DOMAIN down /\ down'[k] = down[k]
                                      /\ k + 1 \in Nat /\ k + 1 <= last
        /\ last >= 1
    BY <1>1, <2>0, <2>1
  <2>3. ~Logs(down[last], d)'
    <3>1. CASE code = "ok" /\ Op(i) = "login"
      <4>1. d # Dev(i)
        BY <2>1, <3>1
      <4> QED BY <2>1, <2>2, <4>1 DEF Logs, Event, Dev
    <3>2. CASE ~(code = "ok" /\ Op(i) = "login")
      BY <2>1, <2>2, <3>2 DEF Logs, Event, Op
    <3> QED BY <3>1, <3>2
  <2>4. CASE d \notin online
    <3>1. ASSUME NEW n \in Nat, UndoneFrom(n, d)
          PROVE  UndoneFrom(n, d)'
      BY <2>1, <3>1, UndoneStays
    <3>2. ASSUME NEW k \in DOMAIN down', Logs(down[k], d)'
          PROVE  UndoneFrom(k + 1, d)'
      <4>1. k \in DOMAIN down /\ down'[k] = down[k] /\ k + 1 \in Nat
        BY <2>2, <2>3, <3>2
      <4>2. Logs(down[k], d)
        BY <3>2, <4>1, MessageStays
      <4> QED BY <1>2, <2>4, <3>1, <4>1, <4>2
    <3> QED BY <1>2, <2>1, <2>4, <3>1, <3>2
  <2>5. CASE d \in online
    <3>1. code = "ok" /\ Op(i) \in {"logout", "topo_delete"} /\ Dev(i) = d
      BY <2>1, <2>5
    <3>2. Undoes(down[last], d)'
      BY <2>1, <2>2, <3>1 DEF Undoes, Event, Op, Dev
    <3>3. ASSUME NEW n \in Nat, n <= last
          PROVE  UndoneFrom(n, d)'
      BY <2>2, <3>2, <3>3 DEF UndoneFrom
    <3>4. ASSUME NEW k \in DOMAIN down', Logs(down[k], d)'
          PROVE  k + 1 \in Nat /\ k + 1 <= last
      BY <2>2, <2>3, <3>4
    <3> QED BY <2>2, <3>3, <3>4
  <2> QED BY <2>4, <2>5
<1>6. CASE ReceiveReply
  <2> DEFINE m == Head(down)   i == m.id
             found == IF ByCache(Op(i)) THEN i \in CachedIds ELSE Known(Dev(i))
  <2>1. /\ down # <<>> /\ m.kind = "reply" /\ down' = Tail(down) /\ online' = online
        /\ IF found /\ m.code = "ok" THEN SetDevice(i) ELSE UNCHANGED things
        /\ missed' = (IF found THEN missed ELSE missed \cup {i})
        /\ req' = req /\ answer' = answer
    BY <1>6, Zenon DEF ReceiveReply, cloud
  <2>2. 1 \in DOMAIN down /\ m = down[1]
    BY <1>1, <2>1
  <2>3. i \in DOMAIN req /\ answer[i] = m.code /\ Op(i) \in Ops /\ Dev(i) \in Devices
    <3>1. Told(m)
      BY <2>1, <2>2 DEF ReplyInv
    <3>2. i \in DOMAIN req /\ answer[i] = m.code
      BY <3>1 DEF Told
    <3> HIDE DEF m
    <3> QED BY <3>2, OneRequest
  <2> HIDE DEF m
  <2>4. ASSUME devs'[d] = "logined"
        PROVE  UndoneFrom(1, d)'
    <3>1. CASE devs[d] = "logined"
      <4>1. CASE UndoneFrom(2, d)
        BY <1>4, <2>1, <4>1
      <4>2. CASE Undoes(m, d)
        <5>1. Op(i) \in {"logout", "topo_delete"} /\ Dev(i) = d /\ m.code = "ok"
          BY <4>2 DEF Undoes
        <5>2. Reply(Op(i)).status = "attached" /\ (ByCache(Op(i)) <=> Op(i) = "topo_delete")
          BY <5>1 DEF Reply, ByCache, LogoutReply, TopoDeleteReply
        <5>3. Known(Dev(i))
          BY <3>1, <5>1 DEF Known
        <5>4. ~found
          <6> SUFFICES ASSUME found PROVE FALSE
            OBVIOUS
          <6>1. SetDevice(i)
            BY <2>1, <5>1
          <6>2. devs' = [devs EXCEPT ![Dev(i)] = "attached"]
            BY <5>2, <5>3, <6>1 DEF SetDevice
          <6> QED BY <1>1, <2>4, <5>1, <6>2
        <5>5. i \in missed'
          BY <2>1, <5>4
        <5>6. Overlooked(d)'
          BY <2>1, <2>3, <5>1, <5>5 DEF Overlooked, Op, Dev
        <5> QED BY <5>6 DEF UndoneFrom
      <4>3. UndoneFrom(1, d)
        BY <1>2, <2>1, <3>1
      <4>4. ASSUME NEW j \in DOMAIN down, Undoes(down[j], d), j # 1
            PROVE  UndoneFrom(2, d)
        <5>1. j \in Nat /\ j >= 1
          BY <1>1
        <5> QED BY <4>4, <5>1 DEF UndoneFrom
      <4>5. CASE Overlooked(d)
        BY <4>1, <4>5 DEF UndoneFrom
      <4> QED BY <2>2, <4>1, <4>2, <4>3, <4>4, <4>5 DEF UndoneFrom
    <3>2. CASE devs[d] # "logined"
      <4>1. SetDevice(i) /\ m.code = "ok"
        BY <2>1, <2>4, <3>2 DEF things
      <4>2. Dev(i) = d /\ Reply(Op(i)).status = "logined"
        BY <1>1, <2>4, <3>2, <4>1 DEF SetDevice
      <4>3. Op(i) = "login"
        BY <2>3, <4>2, OnlyLoginLogsIn
      <4>4. Logs(m, d)
        BY <2>1, <4>1, <4>2, <4>3 DEF Logs
      <4>5. UndoneFrom(1 + 1, d)
        BY <1>2, <2>1, <2>2, <4>4
      <4>6. UndoneFrom(2, d)
        BY <4>5
      <4> QED BY <1>4, <2>1, <4>6
    <3> QED BY <3>1, <3>2
  <2> QED BY <1>4, <2>1, <2>4
<1>7. CASE ReceiveService
  <2>1. down # <<>> /\ down' = Tail(down) /\ UNCHANGED <<devs, online>> /\ Head(down).kind = "service"
    BY <1>7, Zenon DEF ReceiveService, things, cloud
  <2>2. Head(down) = down[1]
    BY <1>1, <2>1
  <2>3. UndoneFrom(1, d) => UndoneFrom(2, d)
    <3>1. \A j \in DOMAIN down : j \in Nat /\ j >= 1
      BY <1>1
    <3>2. ~Undoes(down[1], d)
      BY <2>1, <2>2 DEF Undoes
    <3> QED BY <3>1, <3>2 DEF UndoneFrom
  <2> QED BY <1>2, <1>4, <2>1, <2>3
<1>8. CASE MasterOpen \/ EndClose
  <2>1. devs'[d] # "logined" /\ (UNCHANGED down \/ down' = <<>>) /\ online' = online
    BY <1>8 DEF MasterOpen, EndClose, cloud
  <2>2. CASE down' = <<>>
    BY <2>1, <2>2
  <2> QED BY <1>3, <2>1, <2>2
<1>9. CASE CloudAsks
  <2>1. down' = Append(down, Event("service", 0, "ok")) /\ devs' = devs /\ online' = online
    BY <1>9, Zenon DEF CloudAsks, Arrives, things, cloud
  <2> QED BY <1>3, <2>1 DEF Event
<1>10. ASSUME down' = down, online' = online,
              \/ devs' = devs
              \/ \E x : devs' = [devs EXCEPT ![x] = "authorized"]
              \/ \E x : devs' = [devs EXCEPT ![x] = "closed"]
       PROVE  /\ devs'[d] = "logined" => UndoneFrom(1, d)'
              /\ \A k \in DOMAIN down' : Logs(down[k], d)' => UndoneFrom(k + 1, d)'
  <2>1. devs'[d] = "logined" => devs[d] = "logined"
    BY <1>1, <1>10
  <2> QED BY <1>3, <1>10, <2>1
<1>11. \/ down' = down /\ online' = online
      \/ CloudAsks \/ MasterOpen \/ EndClose \/ ReceiveReply \/ ReceiveService
      \/ \E i \in DOMAIN req, code \in {"ok", "refused", "bare"} : CloudAnswers(i, code)
  BY Zenon DEF Next, MasterConnect, BeginClose, SeesLeave, SlaveOpen, Call, Lock, Step, TimesOut,
       SkipsRegister, SendRefused, Send, Cache, List, Destroy, InfoFails, Answered, Subscribe,
       Callback, TellReply, Remove, YielderStarts, YielderLeaves, Tick, Deliver, DeliverService,
       vars, cloud
<1>12. \/ devs' = devs
       \/ \E x : devs' = [devs EXCEPT ![x] = "authorized"]
       \/ \E x : devs' = [devs EXCEPT ![x] = "closed"]
       \/ CloudAsks \/ MasterOpen \/ EndClose \/ ReceiveReply \/ ReceiveService
       \/ \E i \in DOMAIN req, code \in {"ok", "refused", "bare"} : CloudAnswers(i, code)
  BY Zenon DEF Next, MasterConnect, BeginClose, SeesLeave, SlaveOpen, Call, Lock, Step, TimesOut,
       SkipsRegister, SendRefused, Send, Cache, List, Destroy, InfoFails, Answered, Subscribe,
       Callback, TellReply, Remove, YielderStarts, YielderLeaves, Tick, Deliver, DeliverService,
       vars, things
<1> QED BY <1>5, <1>6, <1>7, <1>8, <1>9, <1>10, <1>11, <1>12

\* What the gateway has as logged in is so at the cloud, but for an answer that
\* was not handled yet, or was passed over (LoginedMeansLoggedIn).
THEOREM LoginedIsLoggedIn == Spec => []LoginedMeansLoggedIn
<1>1. Init => ReplyInv /\ LoginInv
  BY DEF Init, ReplyInv, LoginInv
<1>2. TypeOK /\ ReplyInv /\ LoginInv => LoginedMeansLoggedIn
  <2> SUFFICES ASSUME TypeOK, ReplyInv, LoginInv, NEW d \in Devices, devs[d] = "logined", d \notin online
               PROVE  \E i \in DOMAIN req : /\ Dev(i) = d /\ Op(i) \in {"logout", "topo_delete"}
                                            /\ answer[i] = "ok" /\ i \in InFlight \cup missed
    BY DEF LoginedMeansLoggedIn
  <2>1. UndoneFrom(1, d)
    BY DEF LoginInv
  <2>2. CASE Overlooked(d)
    BY <2>2 DEF Overlooked
  <2>3. ASSUME NEW j \in DOMAIN down, Undoes(down[j], d)
        PROVE  \E i \in DOMAIN req : /\ Dev(i) = d /\ Op(i) \in {"logout", "topo_delete"}
                                     /\ answer[i] = "ok" /\ i \in InFlight \cup missed
    BY <2>3 DEF ReplyInv, Told, Undoes, InFlight
  <2> QED BY <2>1, <2>2, <2>3 DEF UndoneFrom
<1> QED BY <1>1, <1>2, TypeInit, TypeStep, ReplyStep, LoginStep, PTL DEF Spec

=============================================================================

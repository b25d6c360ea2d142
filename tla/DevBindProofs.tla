---------------------------- MODULE DevBindProofs ----------------------------
(***************************************************************************)
(* Proofs about binding a device and about the CoAP server that carries    *)
(* it.  DevBind: the variables keep their types, no multicast is left      *)
(* behind, and no token is told that the cloud was not sent, for any       *)
(* limits of the counters and any number of connections, answers and       *)
(* closes.  CoapServer: the variables keep their types, the list holds one *)
(* multicast at most, who is notified is an observer, and the two threads  *)
(* wait for each other in one place only, for any phones, identifiers and  *)
(* limits of the lists.  The two share no variable.                        *)
(***************************************************************************)
EXTENDS DevBind, CoapServer, SequenceTheorems, FiniteSetTheorems, WellFoundedInduction, TLAPS

-----------------------------------------------------------------------------
(* Ages and identifiers of reports.                                          *)

LEMMA AgeFacts == 1 \in Ages /\ \A a \in Ages : a \in Nat /\ a >= 1 /\ a <= IdMod - 1
BY IdAssumption DEF Ages

\* An age is of messages that were one report younger.
LEMMA OlderFacts ==
    ASSUME NEW ages \in SUBSET Ages
    PROVE  Older(ages) \subseteq Ages /\ 1 \notin Older(ages)
BY AgeFacts DEF Older

LEMMA IdIsTyped ==
    ASSUME reportId \in 0 .. IdMod - 1, TakeId
    PROVE  /\ reportId' \in 0 .. IdMod - 1
           /\ Wraps = "no" => reportId' = reportId + 1 \/ reportId' = IdMod - 1
BY IdAssumption DEF TakeId

\* Without a wrap, the reply of an older report is refused.
LEMMA OlderReplyIsRefused ==
    ASSUME reportId \in 0 .. IdMod - 1, NEW a \in Ages, a <= reportId,
           ~(((reportId + IdMod - a) % IdMod) + 1 < reportId)
    PROVE  a = 1
<1>1. reportId - a \in 0 .. IdMod - 1 /\ IdMod \in Nat \ {0} /\ a \in Nat
  BY IdAssumption, AgeFacts
<1>2. ASSUME NEW n \in Nat \ {0}, NEW x \in 0 .. n - 1
      PROVE  (x + n) % n = x
  OBVIOUS
<1>3. ((reportId - a) + IdMod) % IdMod = reportId - a
  BY <1>1, <1>2
<1>4. (reportId - a) + IdMod = reportId + IdMod - a
  BY <1>1
<1>5. ~((reportId - a) + 1 < reportId)
  BY <1>3, <1>4
<1> QED BY <1>1, <1>5, AgeFacts

-----------------------------------------------------------------------------
(* No multicast is left.                                                     *)

\* As long as nobody came into the section of the mutex while the other was
\* there: a multicast that is kept is the one g_notify_msg_id names, it is
\* cancelled by the time awss_dev_bind_notify_stop forgets it, and until then
\* the daemon is at it or its timer is armed.
MulticastInv ==
    overlapped = "no" =>
        /\ ~(DaemonInside /\ AppInside)
        /\ orphans = "no"
        /\ daemon = "sending" => msgId = "yes"
        /\ kept # "no" =>
             /\ msgId = "yes" /\ app # "cancelled" /\ daemon # "lost"
             /\ notifyTimer = "armed" \/ daemon \in {"locking", "sending", "ending"}

\* Steps that touch neither the multicasts nor the section.
LEMMA MulticastRests ==
    ASSUME MulticastInv, UNCHANGED <<notifyTimer, msgId, kept, orphans, overlapped>>,
           \/ daemon' = daemon
           \/ {daemon, daemon'} \cap {"locking", "lost", "sending", "ending"} = {},
           app' = app \/ app' \notin {"cancelling", "cancelled"}
    PROVE  MulticastInv'
BY DEF MulticastInv, DaemonInside, AppInside

LEMMA ReportsRest ==
    ASSUME MulticastInv,
           \/ ReportTimerFires \/ AnswerDeviceInfo \/ DaemonPublished \/ SendAnswer
           \/ StopDevinfoTimer \/ BindResponse \/ GetDeviceInfo \/ NewTokenPublished
           \/ ReportCloud \/ Deinit \/ Expire \/ StopReportTimer \/ CloudReported \/ StopAgain
           \/ \E a \in Ages : Reply(a) \/ CloudReplies(a)
    PROVE  MulticastInv'
<1> USE MulticastRests DEF notify, multicast
<1>1. CASE ReportTimerFires \/ AnswerDeviceInfo \/ DaemonPublished \/ SendAnswer \/ StopDevinfoTimer
  BY <1>1 DEF ReportTimerFires, AnswerDeviceInfo, DaemonPublished, SendAnswer, StopDevinfoTimer
<1>2. CASE BindResponse \/ GetDeviceInfo \/ NewTokenPublished
  BY <1>2 DEF BindResponse, GetDeviceInfo, NewTokenPublished
<1>3. CASE ReportCloud \/ Deinit \/ Expire \/ StopReportTimer \/ CloudReported \/ StopAgain
  BY <1>3 DEF ReportCloud, Deinit, Expire, StopReportTimer, CloudReported, StopAgain
<1>4. ASSUME NEW a \in Ages, Reply(a) \/ CloudReplies(a)
      PROVE  MulticastInv'
  <2>1. UNCHANGED <<notify, daemon>> /\ (app' = app \/ app' = "replying")
    BY <1>4, Zenon DEF Reply, CloudReplies
  <2> QED BY <2>1
<1> QED BY <1>1, <1>2, <1>3, <1>4

LEMMA MulticastStep == MulticastInv /\ [Next]_vars => MulticastInv'
<1> SUFFICES ASSUME MulticastInv, [Next]_vars PROVE MulticastInv'
  OBVIOUS
<1> USE DEF MulticastInv, DaemonInside, AppInside, multicast, Overlaps
<1>1. CASE UNCHANGED vars
  BY <1>1 DEF vars, notify
<1>2. CASE NotifyTimerFires
  BY <1>2 DEF NotifyTimerFires
<1>3. CASE LockAndNotify \/ NotifyUnlocked
  <2>1. CASE Notify
    BY <1>3, <2>1 DEF LockAndNotify, NotifyUnlocked, Notify
  <2>2. CASE daemon = "lost" /\ daemon' = "stuck"
             /\ UNCHANGED <<notifyTimer, multicast, overlapped, app>>
    BY <2>2
  <2> QED BY <1>3, <2>1, <2>2 DEF LockAndNotify, NotifyUnlocked
<1>4. CASE SendNotify
  <2>1. /\ daemon = "sending" /\ UNCHANGED <<msgId, overlapped, app>>
        /\ (msgId = "yes" /\ UNCHANGED orphans) \/ msgId # "yes"
        /\ (notifyTimer' = "armed" /\ daemon' = "idle") \/ daemon' = "ending"
    BY <1>4, Zenon DEF SendNotify
  <2> QED BY <2>1
<1>5. CASE EndNotify
  BY <1>5 DEF EndNotify, Bereave
<1>6. CASE StopNotify
  BY <1>6 DEF StopNotify
<1>7. CASE LockToStop
  BY <1>7 DEF LockToStop
<1>8. CASE CancelNotify
  BY <1>8 DEF CancelNotify
<1>9. CASE ForgetNotify
  BY <1>9 DEF ForgetNotify, Bereave
<1>10. CASE StartNotify
  BY <1>10 DEF StartNotify
<1>11. CASE ReleaseServer
  BY <1>11 DEF ReleaseServer
<1> HIDE DEF MulticastInv
<1>12. CASE \/ ReportTimerFires \/ AnswerDeviceInfo \/ DaemonPublished \/ SendAnswer
            \/ StopDevinfoTimer \/ BindResponse \/ GetDeviceInfo \/ NewTokenPublished
            \/ ReportCloud \/ Deinit \/ Expire \/ StopReportTimer \/ CloudReported \/ StopAgain
            \/ \E a \in Ages : Reply(a) \/ CloudReplies(a)
  BY <1>12, ReportsRest
<1> QED BY <1>1, <1>2, <1>3, <1>4, <1>5, <1>6, <1>7, <1>8, <1>9, <1>10, <1>11, <1>12, Zenon
        DEF Next, DaemonStep, AppStep

\* Once the notification is over, by an answer, by its count or by
\* awss_dev_bind_notify_stop, no multicast stays in the list of the CoAP server
\* (NoMulticastIsLeft).
THEOREM NothingIsLeft == Spec => []NoMulticastIsLeft
<1>1. Init => MulticastInv
  BY DEF Init, MulticastInv, DaemonInside, AppInside
<1>2. MulticastInv => NoMulticastIsLeft
  BY DEF MulticastInv, NoMulticastIsLeft
<1> QED BY <1>1, <1>2, MulticastStep, PTL DEF Spec

-----------------------------------------------------------------------------
(* Types.                                                                    *)

\* The reports are counted while their timer is armed, and given up once.  A
\* notification may be counted after it was stopped, and is over then.
CountInv ==
    /\ reportTimer = "armed" => cnt <= ReportMax + 1
    /\ daemon \notin {"ending", "stuck"} => bindCnt <= NotifyMax
BindTypes == TypeOK /\ CountInv

LEMMA MakeReportFacts ==
    ASSUME TypeOK, NEW t \in Threads, NEW c \in 0 .. ReportMax, MakeReport(t, c)
    PROVE  /\ cnt' \in 0 .. ReportMax + 1 /\ reportTimer' = "armed" /\ tokenTime' = "fresh"
           /\ reportId' \in 0 .. IdMod - 1 /\ reports' \subseteq Ages /\ replies' \subseteq Ages
           /\ 1 \notin reports' \cup replies'
           /\ packet' \in [Threads -> Ages \cup {0}]
           /\ \A u \in Threads : packet'[u] = 1 => u = t
<1>1. cnt' \in 0 .. ReportMax + 1 /\ reportTimer' = "armed" /\ tokenTime' = "fresh"
  BY BoundsAssumption DEF MakeReport
<1>2. reportId' \in 0 .. IdMod - 1
  BY IdIsTyped DEF MakeReport, TypeOK
<1>3. reports' \subseteq Ages /\ replies' \subseteq Ages /\ 1 \notin reports' \cup replies'
  BY OlderFacts DEF MakeReport, TypeOK
<1>4. \A u \in Threads : packet'[u] = IF u = t THEN 1
                                       ELSE IF packet[u] + 1 \in Ages /\ packet[u] # 0
                                            THEN packet[u] + 1 ELSE 0
  BY DEF MakeReport
<1>5. \A u \in Threads : packet[u] \in Nat
  <2>1. packet \in [Threads -> Ages \cup {0}]
    BY DEF TypeOK
  <2> QED BY <2>1, AgeFacts
<1>6. \A u \in Threads : packet'[u] \in Ages \cup {0} /\ (packet'[u] = 1 => u = t)
  BY <1>4, <1>5, AgeFacts
<1>7. packet' \in [Threads -> Ages \cup {0}]
  BY <1>6 DEF MakeReport
<1> QED BY <1>1, <1>2, <1>3, <1>6, <1>7

LEMMA PublishFacts ==
    ASSUME TypeOK, NEW t \in Threads, Publish(t)
    PROVE  /\ reports' \subseteq Ages /\ published' \in YesNo
           /\ packet' = [packet EXCEPT ![t] = 0] /\ packet' \in [Threads -> Ages \cup {0}]
           /\ telling' = telling \ {t} /\ telling' \subseteq Threads
           /\ \/ UNCHANGED <<reports, published>>
              \/ /\ online = "yes" /\ reports' \subseteq reports \cup {packet[t]}
                 /\ published' = IF t \in telling THEN "yes" ELSE published
           /\ UNCHANGED <<reportId, replies, suc, cnt, tokenTime, cleared, reportTimer>>
<1>1. published \in YesNo /\ "yes" \in YesNo /\ reports \subseteq Ages
      /\ packet \in [Threads -> Ages \cup {0}] /\ telling \subseteq Threads
  BY DEF TypeOK, YesNo
<1>2. /\ packet' = [packet EXCEPT ![t] = 0] /\ telling' = telling \ {t}
      /\ \/ UNCHANGED <<reports, published>>
         \/ /\ online = "yes" /\ reports' = reports \cup ({packet[t]} \cap Ages)
            /\ published' = IF t \in telling THEN "yes" ELSE published
      /\ UNCHANGED <<reportId, replies, suc, cnt, tokenTime, cleared, reportTimer>>
  BY DEF Publish
<1> QED BY <1>1, <1>2

\* Reporting a token, new or not, clears suc.
LEMMA ClearFacts ==
    ASSUME TypeOK, ClearSuc
    PROVE  suc' = 0 /\ cleared' \in YesNo /\ crossed' \subseteq {"report", "devinfo"}
           /\ (DaemonChecked => cleared' = "yes")
BY DEF TypeOK, ClearSuc, YesNo

LEMMA DaemonTypes ==
    ASSUME BindTypes, ReportTimerFires \/ NotifyTimerFires \/ AnswerDeviceInfo \/ DaemonStep
    PROVE  BindTypes'
<1> USE BoundsAssumption DEF BindTypes, bounds, world, devinfo, notify, multicast
<1>1. CASE ReportTimerFires
  <2>1. UNCHANGED <<published, suc, cleared, notify, devinfo, world, coap, app, job, bounds, crossed>>
        /\ daemon = "idle" /\ reportTimer = "armed"
    BY <1>1 DEF ReportTimerFires
  <2>2. CASE cnt <= ReportMax /\ MakeReport("daemon", cnt) /\ daemon' = "publishing"
             /\ telling' = telling \cup {"daemon"}
    <3>1. "daemon" \in Threads /\ cnt \in 0 .. ReportMax
      BY <2>2 DEF Threads, TypeOK
    <3>2. /\ cnt' \in 0 .. ReportMax + 1 /\ reportTimer' = "armed" /\ tokenTime' = "fresh"
          /\ reportId' \in 0 .. IdMod - 1 /\ reports' \subseteq Ages /\ replies' \subseteq Ages
          /\ packet' \in [Threads -> Ages \cup {0}]
      BY <2>2, <3>1, MakeReportFacts
    <3> QED BY <2>1, <2>2, <3>1, <3>2 DEF TypeOK, CountInv, Timer
  <2>3. CASE /\ reportTimer' = "fired" \/ (reportTimer' = "none" /\ cnt' = cnt + 1)
             /\ reportTimer' = "fired" => cnt' = cnt
             /\ UNCHANGED <<tokenTime, telling, ids, daemon>>
    <3>1. cnt' \in 0 .. ReportMax + 2
      BY <2>1, <2>3 DEF TypeOK, CountInv
    <3> QED BY <2>1, <2>3, <3>1 DEF TypeOK, CountInv, Timer, ids
  <2> QED BY <1>1, <2>2, <2>3, Zenon DEF ReportTimerFires
<1>2. CASE NotifyTimerFires
  BY <1>2 DEF NotifyTimerFires, TypeOK, CountInv, YesNo, Timer, ids
<1>3. CASE AnswerDeviceInfo
  <2>1. daemon = "idle" /\ devinfoTimer' = "fired" /\ UNCHANGED <<notify, session, world, coap, app, job, bounds>>
        /\ (UNCHANGED <<report, daemon, crossed>> \/ (UpdateToken /\ daemon' = "answering"))
    BY <1>3 DEF AnswerDeviceInfo
  <2>2. CASE UNCHANGED <<report, daemon, crossed>>
    BY <2>1, <2>2 DEF TypeOK, CountInv, Timer, report, ids, token
  <2>3. CASE UpdateToken /\ daemon' = "answering"
    <3>1. /\ published' = "no" /\ telling' = {} /\ cnt' = 0 /\ tokenTime' = "never"
          /\ reportTimer' = "armed" /\ suc' = 0 /\ cleared' \in YesNo
          /\ crossed' \subseteq {"report", "devinfo"} /\ UNCHANGED ids
      BY <2>3, ClearFacts DEF UpdateToken
    <3> QED BY <2>1, <2>3, <3>1 DEF TypeOK, CountInv, YesNo, Timer, ids
  <2> QED BY <2>1, <2>2, <2>3
<1>4. CASE DaemonPublished
  <2>1. "daemon" \in Threads
    BY DEF Threads
  <2>2. Publish("daemon") /\ daemon = "publishing" /\ daemon' = "idle"
        /\ UNCHANGED <<notify, devinfo, world, coap, app, job, bounds, crossed>>
    BY <1>4 DEF DaemonPublished
  <2>3. /\ reports' \subseteq Ages /\ published' \in YesNo
        /\ packet' \in [Threads -> Ages \cup {0}] /\ telling' \subseteq Threads
        /\ UNCHANGED <<reportId, replies, suc, cnt, tokenTime, cleared, reportTimer>>
    BY <2>1, <2>2, PublishFacts
  <2> QED BY <2>2, <2>3 DEF TypeOK, CountInv
<1>5. CASE LockAndNotify \/ NotifyUnlocked
  <2>1. /\ UNCHANGED <<report, resp, bindCnt, devinfo, world, coap, app, job, bounds, crossed, orphans>>
        /\ daemon \in {"locking", "lost"} /\ daemon' \in {"idle", "sending", "ending", "stuck"}
        /\ notifyTimer' \in {notifyTimer, "armed"} /\ mutex' \in {mutex, "free", "daemon"}
        /\ msgId' \in {msgId, "yes"} /\ kept' \in {kept, "no"}
        /\ overlapped' \in {overlapped, "yes"}
    BY <1>5 DEF LockAndNotify, NotifyUnlocked, Notify, Overlaps
  <2> QED BY <2>1 DEF TypeOK, CountInv, YesNo, Timer, report, ids, token
<1>6. CASE SendNotify
  <2>1. /\ bindCnt' \in 0 .. NotifyMax + 1
        /\ daemon' # "ending" => bindCnt' <= NotifyMax
    BY <1>6 DEF SendNotify, TypeOK, CountInv
  <2>2. /\ kept' \in {kept, "yes"} /\ orphans' \in {orphans, "yes"}
        /\ server' \in {server, "bare"} /\ notifyTimer' \in {notifyTimer, "armed"}
        /\ mutex' \in {mutex, "free"} /\ daemon' \in {"idle", "ending"}
        /\ UNCHANGED <<report, resp, msgId, overlapped, devinfo, online, coap, app, job, bounds,
                       crossed>>
    BY <1>6 DEF SendNotify
  <2> QED BY <2>1, <2>2 DEF TypeOK, CountInv, YesNo, Timer, report, ids, token
<1>7. CASE EndNotify
  BY <1>7 DEF EndNotify, DestroyMutex, Bereave, TypeOK, CountInv, YesNo, Timer, report, ids, token
<1>8. CASE SendAnswer \/ StopDevinfoTimer
  <2>1. /\ daemon \in {"answering", "answered"} /\ daemon' \in {"answered", "idle"} /\ server' \in {server, "bare"}
        /\ session' \in {session, "none"} /\ devinfoTimer' \in {devinfoTimer, "none"}
        /\ UNCHANGED <<report, notify, online, coap, app, job, bounds, crossed>>
    BY <1>8 DEF SendAnswer, StopDevinfoTimer
  <2> QED BY <2>1 DEF TypeOK, CountInv, Timer, report, ids, token
<1> QED BY <1>1, <1>2, <1>3, <1>4, <1>5, <1>6, <1>7, <1>8 DEF DaemonStep

LEMMA CoapTypes ==
    ASSUME BindTypes, BindResponse \/ GetDeviceInfo \/ NewTokenPublished
    PROVE  BindTypes'
<1> USE BoundsAssumption DEF BindTypes, world, notify, multicast
<1>1. CASE BindResponse
  <2>1. /\ answers' \in 0 .. MaxAnswers /\ resp' = 1 /\ UpdateToken
        /\ UNCHANGED <<bindCnt, notifyTimer, mutex, multicast, overlapped, devinfo, world, daemon,
                       coap, app, job, connects, closes>>
    BY <1>1 DEF BindResponse, TypeOK
  <2>2. /\ published' = "no" /\ telling' = {} /\ cnt' = 0 /\ tokenTime' = "never"
        /\ reportTimer' = "armed" /\ suc' = 0 /\ cleared' \in YesNo
        /\ crossed' \subseteq {"report", "devinfo"} /\ UNCHANGED ids
    BY <2>1, ClearFacts DEF UpdateToken
  <2> QED BY <2>1, <2>2 DEF TypeOK, CountInv, YesNo, Timer, ids, devinfo
<1>2. CASE GetDeviceInfo
  <2>1. session' = "waiting" /\ UNCHANGED <<notify, world, daemon, app, job, bounds>>
        /\ \/ ReportNewToken("coap") /\ coap' = "publishing" /\ UNCHANGED devinfoTimer
           \/ ArmDevinfoTimer /\ UNCHANGED <<report, coap>>
    BY <1>2 DEF GetDeviceInfo
  <2>2. CASE ReportNewToken("coap") /\ coap' = "publishing" /\ UNCHANGED devinfoTimer
    <3>1. "coap" \in Threads /\ 0 \in 0 .. ReportMax
      BY DEF Threads
    <3>2. MakeReport("coap", 0) /\ ClearSuc /\ published' = "no" /\ telling' = {"coap"}
      BY <2>2 DEF ReportNewToken
    <3>3. /\ cnt' \in 0 .. ReportMax + 1 /\ reportTimer' = "armed" /\ tokenTime' = "fresh"
          /\ reportId' \in 0 .. IdMod - 1 /\ reports' \subseteq Ages /\ replies' \subseteq Ages
          /\ packet' \in [Threads -> Ages \cup {0}]
      BY <3>1, <3>2, MakeReportFacts
    <3>4. suc' = 0 /\ cleared' \in YesNo /\ crossed' \subseteq {"report", "devinfo"}
      BY <3>2, ClearFacts
    <3> QED BY <2>1, <2>2, <3>1, <3>2, <3>3, <3>4 DEF TypeOK, CountInv, YesNo, Timer, bounds
  <2>3. CASE ArmDevinfoTimer /\ UNCHANGED <<report, coap>>
    <3>1. devinfoTimer' = "armed" /\ crossed' \subseteq {"report", "devinfo"}
      BY <2>3 DEF ArmDevinfoTimer, TypeOK
    <3> QED BY <2>1, <2>3, <3>1 DEF TypeOK, CountInv, Timer, report, ids, token, bounds
  <2> QED BY <2>1, <2>2, <2>3
<1>3. CASE NewTokenPublished
  <2>1. "coap" \in Threads
    BY DEF Threads
  <2>2. /\ Publish("coap") /\ coap' = "idle" /\ devinfoTimer' = "armed"
        /\ crossed' \subseteq {"report", "devinfo"}
        /\ UNCHANGED <<notify, session, world, daemon, app, job, bounds>>
    BY <1>3 DEF NewTokenPublished, ArmDevinfoTimer, TypeOK
  <2>3. /\ reports' \subseteq Ages /\ published' \in YesNo
        /\ packet' \in [Threads -> Ages \cup {0}] /\ telling' \subseteq Threads
        /\ UNCHANGED <<reportId, replies, suc, cnt, tokenTime, cleared, reportTimer>>
    BY <2>1, <2>2, PublishFacts
  <2> QED BY <2>2, <2>3 DEF TypeOK, CountInv, Timer, bounds
<1> QED BY <1>1, <1>2, <1>3

LEMMA AppTypes ==
    ASSUME BindTypes,
           \/ ReportCloud \/ Deinit \/ AppStep \/ Expire
           \/ \E a \in Ages : Reply(a) \/ CloudReplies(a)
    PROVE  BindTypes'
<1> USE BoundsAssumption DEF BindTypes, world, notify, multicast, devinfo
<1>1. CASE ReportCloud
  <2>1. /\ connects' \in 0 .. MaxConnects /\ online' = "yes" /\ ReportToken("app")
        /\ app' = "publishing" /\ job' = "connect"
        /\ UNCHANGED <<notify, devinfo, server, daemon, coap, answers, closes>>
    BY <1>1 DEF ReportCloud, TypeOK
  <2>2. "app" \in Threads /\ 0 \in 0 .. ReportMax
    BY DEF Threads
  <2>3. MakeReport("app", 0) /\ ClearSuc /\ UNCHANGED published /\ telling' = telling \cup {"app"}
    BY <2>1 DEF ReportToken
  <2>4. /\ cnt' \in 0 .. ReportMax + 1 /\ reportTimer' = "armed" /\ tokenTime' = "fresh"
        /\ reportId' \in 0 .. IdMod - 1 /\ reports' \subseteq Ages /\ replies' \subseteq Ages
        /\ packet' \in [Threads -> Ages \cup {0}]
    BY <2>2, <2>3, MakeReportFacts
  <2>5. suc' = 0 /\ cleared' \in YesNo /\ crossed' \subseteq {"report", "devinfo"}
    BY <2>3, ClearFacts
  <2> QED BY <2>1, <2>2, <2>3, <2>4, <2>5 DEF TypeOK, CountInv, YesNo, Timer
<1>2. CASE Deinit
  BY <1>2 DEF Deinit, TypeOK, CountInv, YesNo, Timer
<1>3. CASE CloudReported
  <2>1. "app" \in Threads
    BY DEF Threads
  <2>2. Publish("app") /\ app' = "stopping" /\ server' = "ready"
        /\ UNCHANGED <<notify, devinfo, online, daemon, coap, job, bounds, crossed>>
    BY <1>3 DEF CloudReported
  <2>3. /\ reports' \subseteq Ages /\ published' \in YesNo
        /\ packet' \in [Threads -> Ages \cup {0}] /\ telling' \subseteq Threads
        /\ UNCHANGED <<reportId, replies, suc, cnt, tokenTime, cleared, reportTimer>>
    BY <2>1, <2>2, PublishFacts
  <2> QED BY <2>2, <2>3 DEF TypeOK, CountInv, bounds
<1>4. CASE StopReportTimer
  BY <1>4 DEF StopReportTimer, TypeOK, CountInv, Timer, ids, token, bounds
<1>5. CASE StopNotify \/ LockToStop
  <2>1. /\ app' \in {"cancelling", "locking", "stuck"} /\ mutex' \in {mutex, "app"}
        /\ overlapped' \in {overlapped, "yes"}
        /\ UNCHANGED <<report, resp, bindCnt, notifyTimer, multicast, devinfo, world, daemon, coap,
                       job, bounds, crossed>>
    BY <1>5 DEF StopNotify, LockToStop, Overlaps
  <2> QED BY <2>1 DEF TypeOK, CountInv, YesNo, report, ids, token, bounds
<1>6. CASE CancelNotify
  <2>1. /\ app' = "cancelled" /\ resp' = 1 /\ bindCnt' = NotifyMax /\ notifyTimer' = "none"
        /\ kept' \in {kept, "no"}
        /\ UNCHANGED <<report, mutex, msgId, orphans, overlapped, devinfo, world, daemon, coap,
                       job, bounds, crossed>>
    BY <1>6 DEF CancelNotify
  <2> QED BY <2>1 DEF TypeOK, CountInv, YesNo, Timer, report, ids, token, bounds
<1>7. CASE ForgetNotify
  <2>1. /\ msgId' = "no" /\ kept' \in {kept, "no"} /\ orphans' \in {orphans, "yes"}
        /\ daemon' \in {daemon, "stuck", "lost"} /\ (daemon = "ending" => daemon' \in {"ending", "stuck"})
        /\ (daemon' # "stuck" /\ daemon' # "ending" => daemon # "stuck")
        /\ coap' \in {coap, "stuck"} /\ app' \in {"stuck", "stopped"} /\ mutex' \in {mutex, "none"}
        /\ UNCHANGED <<report, resp, bindCnt, notifyTimer, overlapped, devinfo, world, job, bounds,
                       crossed>>
    BY <1>7 DEF ForgetNotify, Bereave, DestroyMutex
  <2> QED BY <2>1 DEF TypeOK, CountInv, YesNo, report, ids, token, bounds
<1>8. CASE StartNotify \/ StopAgain
  <2>1. /\ bindCnt' \in {bindCnt, 0} /\ resp' \in {resp, 0}
        /\ notifyTimer' \in {notifyTimer, "armed"}
        /\ app' \in {"idle", "stopping"} /\ job' \in {"none", "reclose"}
        /\ UNCHANGED <<report, mutex, multicast, overlapped, devinfo, world, daemon, coap, bounds,
                       crossed>>
    BY <1>8 DEF StartNotify, StopAgain
  <2> QED BY <2>1 DEF TypeOK, CountInv, Timer, report, ids, token, bounds
<1>9. CASE ReleaseServer
  BY <1>9 DEF ReleaseServer, TypeOK, CountInv, YesNo, report, ids, token, bounds
<1>10. CASE Expire
  BY <1>10 DEF Expire, TypeOK, CountInv, ids, bounds
<1>11. ASSUME NEW a \in Ages, Reply(a) \/ CloudReplies(a)
       PROVE  BindTypes'
  <2>1. /\ reports' \subseteq reports /\ replies' \subseteq replies \cup {a}
        /\ suc' \in {suc, 1} /\ app' \in {app, "replying"}
        /\ UNCHANGED <<reportId, packet, published, telling, cnt, tokenTime, cleared, reportTimer,
                       notify, devinfo, world, daemon, coap, job, bounds, crossed>>
    BY <1>11 DEF Reply, CloudReplies, token
  <2> QED BY <1>11, <2>1 DEF TypeOK, CountInv, bounds
<1> QED BY <1>1, <1>2, <1>3, <1>4, <1>5, <1>6, <1>7, <1>8, <1>9, <1>10, <1>11, Zenon DEF AppStep

LEMMA BindTypesInvariant == Spec => []BindTypes
<1>1. Init => BindTypes
  <2> SUFFICES ASSUME Init PROVE TypeOK /\ CountInv
    BY DEF BindTypes
  <2>1. 0 \in 0 .. IdMod - 1
    BY IdAssumption
  <2>2. packet \in [Threads -> Ages \cup {0}]
    BY DEF Init
  <2> QED BY <2>1, <2>2, BoundsAssumption DEF Init, TypeOK, CountInv, YesNo, Timer
<1>2. BindTypes /\ [Next]_vars => BindTypes'
  <2> SUFFICES ASSUME BindTypes, [Next]_vars PROVE BindTypes'
    OBVIOUS
  <2>1. CASE UNCHANGED vars
    BY <2>1 DEF vars, report, ids, token, notify, multicast, devinfo, world, bounds, BindTypes,
                TypeOK, CountInv
  <2>2. CASE Next
    BY <2>2, DaemonTypes, CoapTypes, AppTypes, Zenon DEF Next
  <2> QED BY <2>1, <2>2
<1> QED BY <1>1, <1>2, PTL DEF Spec

\* Each variable has its type: no counter passes its limit.
THEOREM TypeInvariant == Spec => []TypeOK
BY BindTypesInvariant, PTL DEF BindTypes

-----------------------------------------------------------------------------
(* What is told was sent to the cloud.                                       *)

\* Until identifiers wrap, a message on its way is not older than they are many.
AgeInv ==
    Wraps = "no" => /\ \A a \in reports \cup replies : a <= reportId
                    /\ \A t \in Threads : packet[t] <= reportId

\* The daemon acts on a suc that is still set, unless another thread cleared it;
\* and once the current token was reported the youngest report is of it, so that
\* the reply to it says the cloud has that token.
ReportInv ==
    /\ DaemonChecked /\ cleared = "no" => suc = 1
    /\ online = "yes" /\ tokenTime # "never" =>
         /\ \A t \in Threads : packet[t] = 1 => t \in telling
         /\ 1 \in reports \cup replies \/ suc = 1 => published = "yes"

LEMMA AgeStep == TypeOK /\ AgeInv /\ [Next]_vars => AgeInv'
<1> SUFFICES ASSUME TypeOK, AgeInv, [Next]_vars, Wraps = "no" PROVE AgeInv'
  BY DEF AgeInv
<1>1. /\ reports \subseteq Ages /\ replies \subseteq Ages /\ reportId \in 0 .. IdMod - 1
      /\ packet \in [Threads -> Ages \cup {0}]
  BY DEF TypeOK
<1>2. ASSUME NEW t \in Threads, NEW c, MakeReport(t, c)
      PROVE  AgeInv'
  <2>1. (reportId' = reportId + 1 \/ reportId' = IdMod - 1) /\ reportId' \in 0 .. IdMod - 1
    BY <1>1, <1>2, IdIsTyped DEF MakeReport
  <2>2. \A a \in reports' \cup replies' : a \in Ages /\ a - 1 \in reports \cup replies
    BY <1>2 DEF MakeReport, Older
  <2>3. \A a \in reports' \cup replies' : a <= reportId'
    BY <1>1, <2>1, <2>2, AgeFacts DEF AgeInv
  <2>4. \A u \in Threads : \/ packet'[u] \in {0, 1}
                           \/ packet'[u] = packet[u] + 1 /\ packet[u] + 1 \in Ages
    BY <1>2 DEF MakeReport
  <2>5. \A u \in Threads : packet[u] \in Nat /\ packet[u] <= reportId
    BY <1>1, AgeFacts DEF AgeInv
  <2>6. \A u \in Threads : packet'[u] <= reportId'
    BY <1>1, <2>1, <2>4, <2>5, AgeFacts, IdAssumption
  <2> QED BY <2>3, <2>6 DEF AgeInv
<1>3. ASSUME NEW t \in Threads, Publish(t)
      PROVE  AgeInv'
  <2>1. /\ packet' = [packet EXCEPT ![t] = 0] /\ UNCHANGED <<reportId, replies>>
        /\ reports' \subseteq reports \cup {packet[t]}
    BY <1>3 DEF Publish
  <2> QED BY <1>1, <2>1 DEF AgeInv
<1>4. CASE UNCHANGED ids
  BY <1>4 DEF ids, AgeInv
<1>5. ASSUME NEW a \in Ages, Reply(a) \/ CloudReplies(a)
      PROVE  AgeInv'
  <2>1. reports' \cup replies' \subseteq reports \cup replies /\ UNCHANGED <<reportId, packet>>
    BY <1>5 DEF Reply, CloudReplies
  <2> QED BY <2>1 DEF AgeInv
<1>6. CASE Deinit
  BY <1>6 DEF Deinit, AgeInv
<1>7. "daemon" \in Threads /\ "coap" \in Threads /\ "app" \in Threads
  BY DEF Threads
<1>8. CASE ReportTimerFires \/ DaemonPublished \/ GetDeviceInfo \/ NewTokenPublished
           \/ ReportCloud \/ CloudReported
  <2>1. CASE ReportTimerFires
    BY <1>2, <1>4, <1>7, <2>1 DEF ReportTimerFires
  <2>2. CASE DaemonPublished \/ NewTokenPublished \/ CloudReported
    BY <1>3, <1>7, <2>2 DEF DaemonPublished, NewTokenPublished, CloudReported
  <2>3. CASE GetDeviceInfo
    BY <1>2, <1>4, <1>7, <2>3 DEF GetDeviceInfo, ReportNewToken, report
  <2>4. CASE ReportCloud
    BY <1>2, <1>7, <2>4 DEF ReportCloud, ReportToken
  <2> QED BY <1>8, <2>1, <2>2, <2>3, <2>4
<1>9. CASE \/ UNCHANGED vars \/ NotifyTimerFires \/ AnswerDeviceInfo \/ BindResponse \/ Expire
           \/ LockAndNotify \/ NotifyUnlocked \/ SendNotify \/ EndNotify
           \/ SendAnswer \/ StopDevinfoTimer \/ StopReportTimer
  BY <1>4, <1>9 DEF NotifyTimerFires, AnswerDeviceInfo, BindResponse, Expire, UpdateToken,
        LockAndNotify, NotifyUnlocked, Notify, SendNotify, EndNotify, SendAnswer,
        StopDevinfoTimer, StopReportTimer, report, vars
<1>10. CASE \/ StopNotify \/ LockToStop \/ CancelNotify \/ ForgetNotify
            \/ StartNotify \/ StopAgain \/ ReleaseServer
  BY <1>4, <1>10 DEF StopNotify, LockToStop, CancelNotify, ForgetNotify, StartNotify, StopAgain,
        ReleaseServer, report
<1> QED BY <1>5, <1>6, <1>8, <1>9, <1>10, Zenon DEF Next, DaemonStep, AppStep

LEMMA ReportStep ==
    ASSUME Wraps = "no", TypeOK, AgeInv, ReportInv, [Next]_vars
    PROVE  ReportInv'
<1>1. "daemon" \in Threads /\ "coap" \in Threads /\ "app" \in Threads
  BY DEF Threads
<1>2. packet \in [Threads -> Ages \cup {0}] /\ reportId \in 0 .. IdMod - 1
  BY DEF TypeOK
\* Steps that leave the reports alone, or forget the token.
<1>3. ASSUME UNCHANGED <<reports, replies, packet>>,
             \/ UNCHANGED <<telling, published, tokenTime, suc>>
             \/ tokenTime' = "never"
             \/ UNCHANGED <<telling, published, suc>> /\ tokenTime # "never",
             online' = online \/ online' = "no",
             DaemonChecked' => \/ DaemonChecked /\ (cleared' = "yes" \/ UNCHANGED <<suc, cleared>>)
                               \/ suc' = 1
      PROVE  ReportInv'
  BY <1>3 DEF ReportInv
\* A report is made in thread t, of a token that may be new.
<1>4. ASSUME NEW t \in Threads, NEW c \in 0 .. ReportMax, MakeReport(t, c),
             t \in telling', suc' = 0,
             DaemonChecked' => cleared' = "yes"
      PROVE  ReportInv'
  <2>1. 1 \notin reports' \cup replies' /\ \A u \in Threads : packet'[u] = 1 => u = t
    BY <1>4, MakeReportFacts
  <2> QED BY <1>4, <2>1 DEF ReportInv
<1>5. ASSUME NEW t \in Threads, Publish(t), UNCHANGED online,
             DaemonChecked' => DaemonChecked
      PROVE  ReportInv'
  <2>1. /\ packet' = [packet EXCEPT ![t] = 0] /\ telling' = telling \ {t}
        /\ \/ UNCHANGED <<reports, published>>
           \/ /\ online = "yes" /\ reports' \subseteq reports \cup {packet[t]}
              /\ published' = IF t \in telling THEN "yes" ELSE published
        /\ UNCHANGED <<replies, suc, tokenTime, cleared>>
    BY <1>5, PublishFacts
  <2>2. \A u \in Threads : packet'[u] = 1 => u # t /\ packet[u] = 1
    BY <1>2, <2>1
  <2>3. DaemonChecked' /\ cleared' = "no" => suc' = 1
    BY <1>5, <2>1 DEF ReportInv
  <2>4. ASSUME online = "yes", tokenTime # "never"
        PROVE  /\ \A u \in Threads : packet'[u] = 1 => u \in telling'
               /\ 1 \in reports' \cup replies' \/ suc' = 1 => published' = "yes"
    <3>1. \A u \in Threads : packet'[u] = 1 => u \in telling'
      BY <2>1, <2>2, <2>4 DEF ReportInv
    <3>2. published = "yes" => published' = "yes"
      BY <2>1
    <3>3. 1 \in reports' => 1 \in reports \/ published' = "yes"
      BY <2>1, <2>4 DEF ReportInv
    <3> QED BY <2>1, <2>4, <3>1, <3>2, <3>3 DEF ReportInv
  <2> QED BY <1>5, <2>1, <2>3, <2>4 DEF ReportInv
<1>6. CASE ReportTimerFires
  <2>1. CASE suc = 0 /\ cnt <= ReportMax /\ MakeReport("daemon", cnt)
             /\ telling' = telling \cup {"daemon"} /\ daemon' = "publishing"
    <3>1. cnt \in 0 .. ReportMax /\ suc' = 0
      BY <1>6, <2>1, BoundsAssumption DEF ReportTimerFires, TypeOK
    <3>2. "daemon" \in telling' /\ ~DaemonChecked'
      BY <2>1 DEF DaemonChecked
    <3> QED BY <1>1, <1>4, <2>1, <3>1, <3>2
  <2>2. CASE UNCHANGED <<tokenTime, telling, ids, daemon>>
    BY <1>3, <1>6, <2>2 DEF ReportTimerFires, ids, world, DaemonChecked
  <2> QED BY <1>6, <2>1, <2>2, Zenon DEF ReportTimerFires
<1>7. CASE DaemonPublished \/ NewTokenPublished \/ CloudReported
  BY <1>1, <1>5, <1>7 DEF DaemonPublished, NewTokenPublished, CloudReported, world, DaemonChecked
<1>8. CASE GetDeviceInfo
  <2>1. CASE ReportNewToken("coap")
    <3>1. MakeReport("coap", 0) /\ "coap" \in telling' /\ suc' = 0
          /\ (DaemonChecked => cleared' = "yes")
      BY <2>1, ClearFacts DEF ReportNewToken
    <3>2. 0 \in 0 .. ReportMax /\ UNCHANGED daemon
      BY <1>8, BoundsAssumption DEF GetDeviceInfo
    <3> QED BY <1>1, <1>4, <3>1, <3>2 DEF DaemonChecked
  <2>2. CASE UNCHANGED report
    BY <1>3, <1>8, <2>2 DEF GetDeviceInfo, report, ids, token, world, DaemonChecked
  <2> QED BY <1>8, <2>1, <2>2 DEF GetDeviceInfo
<1>9. CASE ReportCloud
  <2>1. MakeReport("app", 0) /\ "app" \in telling' /\ suc' = 0
        /\ (DaemonChecked => cleared' = "yes")
    BY <1>9, ClearFacts DEF ReportCloud, ReportToken
  <2>2. 0 \in 0 .. ReportMax /\ UNCHANGED daemon
    BY <1>9, BoundsAssumption DEF ReportCloud
  <2> QED BY <1>1, <1>4, <2>1, <2>2 DEF DaemonChecked
<1>10. CASE BindResponse \/ AnswerDeviceInfo
  <2>1. CASE UpdateToken
    BY <1>3, <1>10, <2>1, ClearFacts DEF BindResponse, AnswerDeviceInfo, UpdateToken, ids, world,
                                         DaemonChecked
  <2>2. CASE UNCHANGED <<report, daemon>>
    BY <1>3, <1>10, <2>2 DEF BindResponse, AnswerDeviceInfo, report, ids, token, world,
                             DaemonChecked
  <2> QED BY <1>10, <2>1, <2>2 DEF BindResponse, AnswerDeviceInfo
<1>11. CASE Deinit
  BY <1>11 DEF Deinit, ReportInv, DaemonChecked
<1>12. ASSUME NEW a \in Ages, Reply(a)
       PROVE  ReportInv'
  <2>1. /\ replies' \subseteq replies /\ a \in replies
        /\ UNCHANGED <<reports, packet, published, telling, tokenTime, cleared, online, daemon>>
        /\ UNCHANGED suc \/ (suc' = 1 /\ ~(((reportId + IdMod - a) % IdMod) + 1 < reportId))
    BY <1>12 DEF Reply, world
  <2>2. UNCHANGED suc \/ (suc' = 1 /\ 1 \in replies)
    <3>1. a <= reportId
      BY <2>1 DEF AgeInv
    <3> QED BY <1>2, <2>1, <3>1, OlderReplyIsRefused
  <2> QED BY <2>1, <2>2 DEF ReportInv, DaemonChecked
<1>13. ASSUME NEW a \in Ages, CloudReplies(a)
       PROVE  ReportInv'
  <2>1. /\ reports' \cup replies' \subseteq reports \cup replies
        /\ UNCHANGED <<packet, token, online, daemon>>
    BY <1>13 DEF CloudReplies, world
  <2> QED BY <2>1 DEF ReportInv, DaemonChecked, token
<1>14. CASE NotifyTimerFires
  BY <1>3, <1>14 DEF NotifyTimerFires, ids, world
<1>15. CASE Expire \/ StopReportTimer \/ UNCHANGED vars
  BY <1>3, <1>15 DEF Expire, StopReportTimer, vars, report, ids, token, world, DaemonChecked
<1>16. CASE \/ LockAndNotify \/ NotifyUnlocked \/ SendNotify \/ EndNotify
            \/ SendAnswer \/ StopDevinfoTimer
  <2>1. UNCHANGED <<report, online>> /\ (DaemonChecked' => DaemonChecked)
    BY <1>16 DEF LockAndNotify, NotifyUnlocked, Notify, SendNotify, EndNotify, SendAnswer,
                 StopDevinfoTimer, DaemonChecked, world
  <2> QED BY <1>3, <2>1 DEF report, ids, token
<1>17. CASE \/ StopNotify \/ LockToStop \/ CancelNotify \/ ForgetNotify
            \/ StartNotify \/ StopAgain \/ ReleaseServer
  <2>1. UNCHANGED <<report, online>> /\ (DaemonChecked' => DaemonChecked)
    BY <1>17 DEF StopNotify, LockToStop, CancelNotify, ForgetNotify, Bereave, StartNotify,
                 StopAgain, ReleaseServer, DaemonChecked, world
  <2> QED BY <1>3, <2>1 DEF report, ids, token
<1> QED BY <1>6, <1>7, <1>8, <1>9, <1>10, <1>11, <1>12, <1>13, <1>14, <1>15, <1>16, <1>17, Zenon
        DEF Next, DaemonStep, AppStep

\* The token that __awss_dev_bind_notify puts into a multicast was sent to the
\* cloud, unless the device is closing or another thread cleared suc after it
\* was read (NotifiedTokenWasReported): for behaviours that end before
\* awss_report_id, a char, wraps around.
THEOREM NotifiedWasReported ==
    ASSUME Wraps = "no"
    PROVE  Spec => NotifiedTokenWasReported
<1> DEFINE Inv == BindTypes /\ AgeInv /\ ReportInv
           Told == daemon # "sending" /\ daemon' = "sending"
                   => published = "yes" \/ cleared = "yes" \/ online = "no"
<1>1. Init => AgeInv /\ ReportInv
  <2> SUFFICES ASSUME Init PROVE AgeInv /\ ReportInv
    OBVIOUS
  <2>1. \A t \in Threads : packet[t] = 0
    BY DEF Init
  <2> QED BY <2>1 DEF Init, AgeInv, ReportInv, DaemonChecked
<1>2. TypeOK /\ AgeInv /\ ReportInv /\ [Next]_vars => AgeInv' /\ ReportInv'
  BY AgeStep, ReportStep
<1>3. TypeOK /\ ReportInv /\ [Next]_vars => [Told]_vars
  <2> SUFFICES ASSUME TypeOK, ReportInv, Next, daemon # "sending", daemon' = "sending"
               PROVE  published = "yes" \/ cleared = "yes" \/ online = "no"
    OBVIOUS
  <2>1. DaemonChecked /\ tokenTime = "fresh"
    <3>1. CASE LockAndNotify \/ NotifyUnlocked
      BY <3>1 DEF LockAndNotify, NotifyUnlocked, Notify, TokenTimeout, DaemonChecked
    <3>2. CASE \/ ReportTimerFires \/ NotifyTimerFires \/ AnswerDeviceInfo \/ BindResponse
               \/ GetDeviceInfo \/ NewTokenPublished \/ DaemonPublished \/ SendNotify \/ EndNotify
               \/ SendAnswer \/ StopDevinfoTimer
      BY <3>2 DEF ReportTimerFires, NotifyTimerFires, AnswerDeviceInfo, BindResponse,
                  GetDeviceInfo, NewTokenPublished, DaemonPublished, SendNotify, EndNotify,
                  SendAnswer, StopDevinfoTimer
    <3>3. CASE \/ ReportCloud \/ Deinit \/ AppStep \/ Expire
               \/ \E a \in Ages : Reply(a) \/ CloudReplies(a)
      BY <3>3 DEF ReportCloud, Deinit, AppStep, Expire, Reply, CloudReplies, StopReportTimer,
                  CloudReported, StopNotify, LockToStop, CancelNotify, ForgetNotify, Bereave,
                  StartNotify, StopAgain, ReleaseServer
    <3> QED BY <3>1, <3>2, <3>3, Zenon DEF Next, DaemonStep
  <2> QED BY <2>1 DEF ReportInv, TypeOK, YesNo
<1> QED BY <1>1, <1>2, <1>3, BindTypesInvariant, PTL DEF Spec, NotifiedTokenWasReported, BindTypes

-----------------------------------------------------------------------------
(* Loops.  The induction theorems of the library need an operator; that each *)
(* set of numbers has a least one does as well.                              *)

LEMMA LeastNumber ==
    ASSUME NEW T, T \subseteq Nat, T # {}
    PROVE  \E n \in T : \A m \in Nat : m < n => m \notin T
<1> DEFINE Less == {ss \in Nat \X Nat : ss[1] < ss[2]}
<1>1. IsWellFoundedOn(Less, Nat)
  BY NatLessThanWellFounded, Zenon DEF OpToRel
<1>2. PICK x \in T : \A y \in T : ~ (<<y, x>> \in Less)
  BY <1>1, WFMin, Zenon
<1> QED BY <1>2

\* What holds of the first number, and of each next one if it holds of the one
\* before.
LEMMA Counting ==
    ASSUME NEW N \in Nat, NEW S, 0 \in S,
           \A k \in 1 .. N : k - 1 \in S => k \in S
    PROVE  \A k \in 0 .. N : k \in S
<1> DEFINE T == {k \in Nat : k <= N /\ k \notin S}
<1>1. SUFFICES ASSUME T # {} PROVE FALSE
  OBVIOUS
<1>2. PICK n \in T : \A m \in Nat : m < n => m \notin T
  BY <1>1, LeastNumber, T \subseteq Nat, Zenon
<1>3. n \in Nat /\ n <= N /\ n # 0 /\ n \notin S
  BY <1>2
<1>4. n - 1 \in Nat /\ n - 1 < n /\ n - 1 <= N /\ n \in 1 .. N
  BY <1>3
<1>5. n - 1 \in S
  BY <1>2, <1>4
<1> QED BY <1>3, <1>4, <1>5

\* A loop that starts from v and does step[k] in its pass k.
LoopOf(g, N, V, v, step) ==
    g \in [0 .. N -> V] /\ g[0] = v /\ \A k \in 1 .. N : g[k] = step[k][g[k - 1]]

LEMMA Loop ==
    ASSUME NEW N \in Nat, NEW V, NEW v \in V, NEW step \in [1 .. N -> [V -> V]]
    PROVE  \E g : LoopOf(g, N, V, v, step)
<1> DEFINE Runs(k, g) == g[0] = v /\ \A m \in 1 .. k : g[m] = step[m][g[m - 1]]
           S == {k \in 0 .. N : \E g \in [0 .. k -> V] : Runs(k, g)}
<1>1. 0 \in S
  <2>1. [m \in 0 .. 0 |-> v] \in [0 .. 0 -> V] /\ Runs(0, [m \in 0 .. 0 |-> v])
    OBVIOUS
  <2>2. 0 \in 0 .. N
    OBVIOUS
  <2> QED BY <2>1, <2>2, Zenon
<1>2. ASSUME NEW k \in 1 .. N, k - 1 \in S
      PROVE  k \in S
  <2>1. PICK g \in [0 .. k - 1 -> V] : Runs(k - 1, g)
    BY <1>2
  <2> DEFINE h == [m \in 0 .. k |-> IF m = k THEN step[k][g[k - 1]] ELSE g[m]]
  <2>2. g[k - 1] \in V /\ step[k][g[k - 1]] \in V
    OBVIOUS
  <2>3. h \in [0 .. k -> V]
    BY <2>2
  <2>4. h[0] = v
    BY <2>1
  <2>5. ASSUME NEW m \in 1 .. k
        PROVE  h[m] = step[m][h[m - 1]]
    <3>1. CASE m = k
      BY <3>1
    <3>2. CASE m # k
      <4>1. m \in 1 .. k - 1 /\ m - 1 \in 0 .. k /\ m - 1 # k
        BY <3>2
      <4>2. g[m] = step[m][g[m - 1]]
        BY <4>1, <2>1
      <4> QED BY <3>2, <4>1, <4>2
    <3> QED BY <3>1, <3>2
  <2> HIDE DEF h
  <2> QED BY <2>3, <2>4, <2>5
<1> HIDE DEF S
<1>3. N \in S
  BY <1>1, <1>2, Counting, N \in 0 .. N, Zenon
<1> QED BY <1>3, Zenon DEF S, LoopOf

-----------------------------------------------------------------------------
(* The lists.                                                                *)

\* The nodes of c are those of list at pos, each once, none of the identifier.
Picks(pos, c, list, id) ==
    /\ pos \in [1 .. Len(c) -> 1 .. Len(list)]
    /\ \A i \in 1 .. Len(c) : c[i] = list[pos[i]] /\ list[pos[i]].id # id
    /\ \A i, j \in 1 .. Len(c) : pos[i] = pos[j] => i = j

\* CoAPMessageId_cancel leaves nodes of the list, each once and none of the
\* identifier.
LEMMA CancelledFacts ==
    ASSUME NEW list \in Seq(NodeType), NEW id
    PROVE  LET c == Cancelled(list, id)
           IN  /\ c \in Seq(NodeType) /\ Len(c) <= Len(list)
               /\ \E pos : Picks(pos, c, list, id)
<1> DEFINE N == Len(list)
           V == Seq(NodeType)
           Pass(k, s) == IF list[k].id = id THEN s ELSE Append(s, list[k])
           step == [k \in 1 .. N |-> [s \in V |-> Pass(k, s)]]
           Body(g) == [k \in 0 .. N |-> IF k = 0 THEN <<>>
                                        ELSE IF list[k].id = id THEN g[k - 1]
                                        ELSE Append(g[k - 1], list[k])]
           rest == CHOOSE g : g = Body(g)
           From(k, pos, c) ==
                    /\ \A i \in 1 .. Len(c) : c[i] = list[pos[i]] /\ list[pos[i]].id # id
                    /\ \A i, j \in 1 .. Len(c) : pos[i] = pos[j] => i = j
           Good(k, c) == 
               /\ c \in V /\ Len(c) <= k
               /\ \E pos \in [1 .. Len(c) -> 1 .. k] : From(k, pos, c)
           S == {k \in 0 .. N : Good(k, rest[k])}
<1>1. N \in Nat
  BY LenProperties
<1>2. \A k \in 1 .. N : list[k] \in NodeType
  BY ElementOfSeq
<1>3. step \in [1 .. N -> [V -> V]] /\ <<>> \in V
  BY <1>2
<1>4. PICK g : LoopOf(g, N, V, <<>>, step)
  <2> HIDE DEF step, V, N
  <2> QED BY <1>1, <1>3, Loop, Zenon
<1>5. ASSUME NEW k \in 1 .. N
      PROVE  g[k - 1] \in V /\ g[k] = Pass(k, g[k - 1])
  <2>1. k - 1 \in 0 .. N
    BY <1>1
  <2>2. g[k - 1] \in V
    <3> HIDE DEF V, N
    <3> QED BY <1>4, <2>1, Zenon DEF LoopOf
  <2>3. step[k][g[k - 1]] = Pass(k, g[k - 1])
    <3> HIDE DEF V, N
    <3> QED BY <2>2, Zenon
  <2> QED BY <1>4, <2>2, <2>3, Zenon DEF LoopOf
<1>6. g = Body(g)
  <2>1. g = [k \in 0 .. N |-> g[k]]
    <3> HIDE DEF V, N
    <3> QED BY <1>4, Zenon DEF LoopOf
  <2>2. ASSUME NEW k \in 0 .. N
        PROVE  g[k] = IF k = 0 THEN <<>> ELSE Pass(k, g[k - 1])
    <3>1. k # 0 => k \in 1 .. N
      BY <1>1
    <3> QED BY <1>4, <1>5, <3>1, Zenon DEF LoopOf
  <2> QED BY <2>1, <2>2, Zenon
<1>7. rest = Body(rest)
  BY <1>6, Zenon
<1>8. rest[0] = <<>> /\ \A k \in 1 .. N : rest[k] = Pass(k, rest[k - 1])
  <2>1. 0 \in 0 .. N /\ \A k \in 1 .. N : k \in 0 .. N /\ k # 0
    BY <1>1
  <2> HIDE DEF rest
  <2>2. ASSUME NEW k \in 0 .. N
        PROVE  rest[k] = IF k = 0 THEN <<>> ELSE Pass(k, rest[k - 1])
    BY <1>7, Zenon
  <2> QED BY <2>1, <2>2, Zenon
<1> HIDE DEF rest
<1>9. 0 \in S
  <2>1. 0 \in 0 .. N
    BY <1>1
  <2>2. <<>> \in V /\ Len(<<>>) = 0
    OBVIOUS
  <2>3. [i \in 1 .. 0 |-> 0] \in [1 .. 0 -> 1 .. 0]
    OBVIOUS
  <2>4. Good(0, <<>>)
    <3>1. From(0, [i \in 1 .. 0 |-> 0], <<>>)
      BY <2>2
    <3>2. Len(<<>>) <= 0
      BY <2>2
    <3>3. [i \in 1 .. 0 |-> 0] \in [1 .. Len(<<>>) -> 1 .. 0]
      BY <2>2, <2>3, Zenon
    <3> HIDE DEF From, V
    <3> QED BY <2>2, <3>1, <3>2, <3>3, Zenon
  <2> HIDE DEF Good
  <2> QED BY <1>8, <2>1, <2>4, Zenon
<1>10. ASSUME NEW k \in 1 .. N, k - 1 \in S
       PROVE  k \in S
  <2> DEFINE b == rest[k - 1]
             n == Len(b)
  <2>1. /\ k \in 0 .. N /\ k \in Nat /\ k - 1 \in Nat /\ k - 1 < k
        /\ b \in V /\ n <= k - 1 /\ n \in Nat
        /\ rest[k] = Pass(k, b)
    <3>1. k \in 0 .. N /\ k \in Nat /\ k - 1 \in Nat /\ k - 1 < k
      BY <1>1
    <3>2. b \in V /\ n <= k - 1
      BY <1>10, Zenon
    <3>3. n \in Nat
      BY <3>2, LenProperties
    <3> QED BY <3>1, <3>2, <3>3, <1>8, Zenon
  <2>2. PICK pos \in [1 .. n -> 1 .. k - 1] : From(k - 1, pos, b)
    BY <1>10, Zenon
  <2>3. CASE list[k].id = id
    <3>1. rest[k] = b
      BY <2>1, <2>3, Zenon
    <3>2. pos \in [1 .. n -> 1 .. k]
      BY <2>1
    <3>3. n <= k
      BY <2>1
    <3>4. Good(k, b)
      BY <2>1, <2>2, <3>2, <3>3, Zenon
    <3> HIDE DEF Good
    <3> QED BY <2>1, <3>1, <3>4, Zenon
  <2>4. CASE list[k].id # id
    <3> DEFINE c == Append(b, list[k])
               more == [i \in 1 .. n + 1 |-> IF i = n + 1 THEN k ELSE pos[i]]
    <3>1. rest[k] = c
      BY <2>1, <2>4, Zenon
    <3>2. /\ c \in V /\ Len(c) = n + 1 /\ c[n + 1] = list[k]
          /\ \A i \in 1 .. n : c[i] = b[i]
      BY <1>2, <2>1, AppendProperties
    <3>3. \A i \in 1 .. n : pos[i] \in 1 .. k - 1
      OBVIOUS
    <3>4. more \in [1 .. n + 1 -> 1 .. k]
      BY <2>1, <3>3
    <3>5. more[n + 1] = k /\ \A i \in 1 .. n : more[i] = pos[i]
      BY <2>1
    <3>6. \A i \in 1 .. n + 1 : i = n + 1 \/ i \in 1 .. n
      BY <2>1
    <3>7. \A i \in 1 .. n : more[i] # k
      BY <2>1, <3>3, <3>5
    <3> HIDE DEF more, c, b, n
    <3>8. \A i \in 1 .. n + 1 : c[i] = list[more[i]] /\ list[more[i]].id # id
      BY <2>2, <2>4, <3>2, <3>5, <3>6, Zenon DEF n
    <3>9. \A i, j \in 1 .. n + 1 : more[i] = more[j] => i = j
      BY <2>2, <3>5, <3>6, <3>7, Zenon DEF n
    <3>10. n + 1 <= k
      BY <2>1
    <3>11. Good(k, c)
      <4>1. more \in [1 .. Len(c) -> 1 .. k] /\ From(k, more, c)
        BY <3>2, <3>4, <3>8, <3>9, Zenon
      <4>2. c \in V /\ Len(c) <= k
        BY <3>2, <3>10, Zenon
      <4> HIDE DEF From, V
      <4> QED BY <4>1, <4>2, Zenon
    <3> HIDE DEF Good
    <3> QED BY <2>1, <3>1, <3>11, Zenon
  <2> QED BY <2>3, <2>4
<1>11. N \in S
  <2> HIDE DEF S, N
  <2>1. N \in 0 .. N
    BY <1>1
  <2> QED BY <1>1, <1>9, <1>10, <2>1, Counting, Zenon
<1>12. Cancelled(list, id) = rest[N]
  BY Zenon DEF Cancelled, rest
<1>13. Good(N, rest[N])
  <2> HIDE DEF Good
  <2> QED BY <1>11, Zenon
<1>14. Good(Len(list), Cancelled(list, id))
  <2> HIDE DEF Good
  <2> QED BY <1>12, <1>13, Zenon
<1>15. \E pos : Picks(pos, Cancelled(list, id), list, id)
  BY <1>14, Zenon DEF Picks
<1> QED BY <1>14, <1>15, Zenon

\* What is left of a list: each node once, as it was but for when it is due,
\* how often it is sent again and whether it was acknowledged.
LeftOf(rest, list) ==
    \E pos \in [1 .. Len(rest) -> 1 .. Len(list)] :
      /\ \A i \in 1 .. Len(rest) :
           rest[i].id = list[pos[i]].id /\ rest[i].kind = list[pos[i]].kind
      /\ \A i, j \in 1 .. Len(rest) : pos[i] = pos[j] => i = j

NodeList == {s \in Seq(NodeType) : Len(s) <= MaxSend}

LEMMA CancelledIsLeft ==
    ASSUME NEW list \in NodeList, NEW id
    PROVE  /\ Cancelled(list, id) \in NodeList /\ LeftOf(Cancelled(list, id), list)
           /\ \A i \in 1 .. Len(Cancelled(list, id)) : Cancelled(list, id)[i].id # id
<1> DEFINE c == Cancelled(list, id)
<1>1. list \in Seq(NodeType) /\ Len(list) <= MaxSend /\ MaxSend \in Nat
  BY CoapServerAssumption DEF NodeList
<1>2. c \in Seq(NodeType) /\ Len(c) <= Len(list)
  BY <1>1, CancelledFacts, Zenon
<1>3. PICK pos : Picks(pos, c, list, id)
  BY <1>1, CancelledFacts, Zenon
<1> HIDE DEF c
<1>4. LeftOf(c, list) /\ \A i \in 1 .. Len(c) : c[i].id # id
  <2>1. /\ pos \in [1 .. Len(c) -> 1 .. Len(list)]
        /\ \A i \in 1 .. Len(c) : c[i].id = list[pos[i]].id /\ c[i].kind = list[pos[i]].kind
        /\ \A i, j \in 1 .. Len(c) : pos[i] = pos[j] => i = j
    BY <1>3, Zenon DEF Picks
  <2>2. \A i \in 1 .. Len(c) : c[i].id # id
    BY <1>3, Zenon DEF Picks
  <2> QED BY <2>1, <2>2, Zenon DEF LeftOf
<1>5. Len(c) \in Nat /\ Len(list) \in Nat
  BY <1>1, <1>2, LenProperties
<1>6. Len(c) <= MaxSend
  BY <1>1, <1>2, <1>5
<1> QED BY <1>2, <1>4, <1>6, Zenon DEF c, NodeList

LEMMA RemovedIsLeft ==
    ASSUME NEW list \in NodeList, NEW n \in 1 .. Len(list)
    PROVE  RemoveAt(list, n) \in NodeList /\ LeftOf(RemoveAt(list, n), list)
<1> DEFINE a == SubSeq(list, 1, n - 1)
           b == SubSeq(list, n + 1, Len(list))
           l == Len(list)
           pos == [i \in 1 .. l - 1 |-> IF i < n THEN i ELSE i + 1]
<1>1. list \in Seq(NodeType) /\ l <= MaxSend /\ MaxSend \in Nat /\ l \in Nat /\ n \in Nat
  BY CoapServerAssumption, LenProperties DEF NodeList
<1>2. /\ a \in Seq(NodeType) /\ Len(a) = n - 1
      /\ \A i \in 1 .. n - 1 : a[i] = list[i]
  BY <1>1
<1>3. /\ b \in Seq(NodeType) /\ Len(b) = l - n
      /\ \A i \in 1 .. l - n : b[i] = list[n + i]
  BY <1>1
<1>4. /\ a \o b \in Seq(NodeType) /\ Len(a \o b) = l - 1
      /\ \A i \in 1 .. l - 1 : (a \o b)[i] = list[IF i < n THEN i ELSE i + 1]
  <2> HIDE DEF a, b, l
  <2>1. a \o b \in Seq(NodeType) /\ Len(a \o b) = l - 1
    <3>1. a \o b \in Seq(NodeType) /\ Len(a \o b) = Len(a) + Len(b)
      BY <1>2, <1>3, ConcatProperties
    <3>2. (n - 1) + (l - n) = l - 1
      BY <1>1
    <3> QED BY <1>2, <1>3, <3>1, <3>2, Zenon
  <2>2. ASSUME NEW i \in 1 .. l - 1
        PROVE  (a \o b)[i] = list[IF i < n THEN i ELSE i + 1]
    <3>1. CASE i < n
      <4>1. i \in 1 .. n - 1
        BY <1>1, <3>1
      <4> QED BY <1>2, <1>3, <3>1, <4>1
    <3>2. CASE ~(i < n)
      <4>1. i - (n - 1) \in 1 .. l - n /\ n + (i - (n - 1)) = i + 1
        BY <1>1, <3>2
      <4>2. (a \o b)[i] = b[i - (n - 1)]
        BY <1>1, <1>2, <1>3, <3>2, ConcatProperties
      <4> QED BY <1>3, <3>2, <4>1, <4>2
    <3> QED BY <3>1, <3>2
  <2> QED BY <2>1, <2>2
<1>5. RemoveAt(list, n) = a \o b
  BY Zenon DEF RemoveAt
<1>6. pos \in [1 .. l - 1 -> 1 .. l]
  BY <1>1
<1>7. \A i, j \in 1 .. l - 1 : pos[i] = pos[j] => i = j
  BY <1>1
<1>8. \A i \in 1 .. l - 1 : (a \o b)[i] = list[pos[i]]
  BY <1>4
<1> HIDE DEF a, b, pos
<1>9. LeftOf(a \o b, list)
  <2> DEFINE rest == a \o b
  <2>1. /\ pos \in [1 .. Len(rest) -> 1 .. Len(list)]
        /\ \A i \in 1 .. Len(rest) :
              rest[i].id = list[pos[i]].id /\ rest[i].kind = list[pos[i]].kind
        /\ \A i, j \in 1 .. Len(rest) : pos[i] = pos[j] => i = j
    BY <1>4, <1>6, <1>7, <1>8, Zenon
  <2> HIDE DEF rest
  <2>2. LeftOf(rest, list)
    BY <2>1, Zenon DEF LeftOf
  <2> QED BY <2>2, Zenon DEF rest
<1>10. l - 1 <= MaxSend
  BY <1>1
<1> QED BY <1>4, <1>5, <1>9, <1>10 DEF NodeList

\* Nodes change in place.
LEMMA ChangedIsLeft ==
    ASSUME NEW list \in NodeList, NEW l \in [1 .. Len(list) -> NodeType],
           \A i \in 1 .. Len(list) : l[i].id = list[i].id /\ l[i].kind = list[i].kind
    PROVE  l \in NodeList /\ LeftOf(l, list)
<1>1. Len(list) \in Nat /\ Len(list) <= MaxSend
  BY LenProperties DEF NodeList
<1>2. l \in Seq(NodeType) /\ Len(l) = Len(list)
  BY <1>1
<1>3. [i \in 1 .. Len(list) |-> i] \in [1 .. Len(l) -> 1 .. Len(list)]
  BY <1>2
<1>4. LeftOf(l, list)
  <2> DEFINE pos == [i \in 1 .. Len(list) |-> i]
  <2>1. \A i \in 1 .. Len(list) : pos[i] = i
    OBVIOUS
  <2> HIDE DEF pos
  <2>2. /\ pos \in [1 .. Len(l) -> 1 .. Len(list)]
        /\ \A i \in 1 .. Len(l) : l[i].id = list[pos[i]].id /\ l[i].kind = list[pos[i]].kind
        /\ \A i, j \in 1 .. Len(l) : pos[i] = pos[j] => i = j
    BY <1>2, <1>3, <2>1, Zenon DEF pos
  <2> QED BY <2>2, Zenon DEF LeftOf
<1> QED BY <1>1, <1>2, <1>4 DEF NodeList

LEMMA ListedFacts ==
    ASSUME NEW list \in NodeList, NEW n \in NodeType
    PROVE  /\ Listed(list, n) \in NodeList
           /\ Listed(list, n) = list \/ Listed(list, n) = Append(list, n)
<1>1. list \in Seq(NodeType) /\ Len(list) <= MaxSend /\ MaxSend \in Nat /\ Len(list) \in Nat
  BY CoapServerAssumption, LenProperties DEF NodeList
<1>2. CASE Len(list) >= MaxSend
  BY <1>2 DEF Listed
<1>3. CASE ~(Len(list) >= MaxSend)
  <2>1. Append(list, n) \in Seq(NodeType) /\ Len(Append(list, n)) = Len(list) + 1
    BY <1>1, AppendProperties
  <2>2. Len(list) + 1 <= MaxSend
    BY <1>1, <1>3
  <2>3. Listed(list, n) = Append(list, n)
    BY <1>3, Zenon DEF Listed
  <2>4. Append(list, n) \in NodeList
    BY <2>1, <2>2, Zenon DEF NodeList
  <2> QED BY <2>3, <2>4, Zenon
<1> QED BY <1>2, <1>3, Zenon

-----------------------------------------------------------------------------
(* The types of the server.                                                  *)

ServerPlaces == {"read", "answered", "observe", "answering", "waiting", "resend", "check", "forget"}
DaemonPlaces == {"idle", "list beacon", "notify", "list notification"}
Observers    == [peer : Peers, type : ObserveTypes]

\* A mutex is held from the step that takes the other one in between to the
\* step that gives it back.
LockTypes ==
    /\ pc \in [CoapThreads -> ServerPlaces \cup DaemonPlaces]
    /\ pc["server"] \in ServerPlaces /\ pc["daemon"] \in DaemonPlaces
    /\ owner \in [{"send", "obs"} -> CoapThreads \cup {Nobody}]
    /\ owner["send"] = IF At("server", "forget") THEN "server" ELSE Nobody
    /\ owner["obs"] = IF pc["daemon"] \in {"notify", "list notification"} THEN "daemon"
                      ELSE Nobody

ObserverTypes ==
    /\ observers \subseteq Observers /\ IsFiniteSet(observers)
    /\ Cardinality(observers) <= MaxObs

\* What a thread has in hand; only multicasts are kept.
ServingTypes ==
    /\ At("server", "observe") => serving.peer \in Peers /\ serving.type \in ObserveTypes
    /\ pc["server"] \in {"answering", "waiting", "forget"} =>
         serving \in NodeType /\ ~Kept(serving)

ListingTypes ==
    /\ At("daemon", "list beacon") => listing \in NodeType /\ Kept(listing)
    /\ At("daemon", "list notification") => listing \in NodeType /\ ~Kept(listing)
    /\ notifying \subseteq Observers
    /\ lastId \in 0 .. Len(OwnIds) /\ beacon \in Nat

\* Nothing depends on the types of what else arrives.
IsRequest(p) ==
    p.kind \in {"get", "switch"} =>
      p.id \in Nat /\ p.peer \in Peers /\ (p.kind = "get" => p.type \in ObserveTypes)
PhoneTypes == \A p \in inbox : IsRequest(p)

ServerTypes ==
    /\ LockTypes /\ ObserverTypes /\ PhoneTypes /\ ServingTypes /\ ListingTypes
    /\ sendlist \in NodeList

LEMMA CoapSteps ==
    ASSUME [CoapNext]_coapVars
    PROVE  \/ \E m \in air : PeerAcks(m) \/ (\E peer \in Peers : PeerAnswers(m, peer))
           \/ \E peer \in Peers :
                 \/ \E type \in ObserveTypes : PeerAsks(peer, "get", 0, type)
                 \/ \E id \in PeerIds : PeerAsks(peer, "switch", id, "CON")
           \/ \E i \in DOMAIN sendlist : BecomesDue(i)
           \/ \E p \in inbox : \/ HandleAck(p) \/ HandleResponse(p)
                               \/ HandleGetWifilist(p) \/ HandleSwitchAp(p)
           \/ NotifyResponse \/ AddObserver \/ ListAnswer \/ CancelAnswer
           \/ ReadTimesOut \/ Retransmit \/ CheckTimeout \/ ForgetObserver
           \/ SendBeacon \/ ListBeacon \/ EndBeacons
           \/ BeginNotify \/ ListNotification \/ FinishNotify
           \/ \E o \in notifying : NotifyObserver(o)
           \/ UNCHANGED coapVars
BY Zenon DEF CoapNext, Network, Time, Handle, Server, Daemon

\* Steps of the phones and the clock, and those that leave the threads where
\* they are.
LEMMA LockStep == LockTypes /\ [CoapNext]_coapVars => LockTypes'
<1> SUFFICES ASSUME LockTypes, [CoapNext]_coapVars PROVE LockTypes'
  OBVIOUS
<1> USE DEF LockTypes, At, Goto, Free, Nobody, CoapThreads, ServerPlaces, DaemonPlaces
<1>1. CASE UNCHANGED <<owner, pc>>
  BY <1>1
<1>2. CASE NotifyResponse \/ AddObserver \/ ListAnswer \/ CancelAnswer \/ ReadTimesOut
  <2>1. CASE NotifyResponse \/ AddObserver
    BY <2>1, Zenon DEF NotifyResponse, AddObserver
  <2>2. CASE ListAnswer \/ CancelAnswer
    BY <2>2, Zenon DEF ListAnswer, CancelAnswer
  <2>3. CASE ReadTimesOut
    BY <2>3, Zenon DEF ReadTimesOut
  <2> QED BY <1>2, <2>1, <2>2, <2>3
<1>3. CASE Retransmit
  BY <1>3, Zenon DEF Retransmit
<1>14. CASE CheckTimeout
  <2>1. CASE GivesUp
    BY <1>14, <2>1, Zenon DEF CheckTimeout
  <2>2. CASE ~GivesUp
    BY <1>14, <2>2, Zenon DEF CheckTimeout
  <2> QED BY <2>1, <2>2
<1>4. CASE ForgetObserver
  BY <1>4, Zenon DEF ForgetObserver
<1>5. CASE SendBeacon \/ ListBeacon \/ ListNotification
  <2>1. CASE SendBeacon
    BY <2>1, Zenon DEF SendBeacon
  <2>2. CASE ListBeacon
    BY <2>2, Zenon DEF ListBeacon
  <2>3. CASE ListNotification
    BY <2>3, Zenon DEF ListNotification
  <2> QED BY <1>5, <2>1, <2>2, <2>3
<1>6. CASE BeginNotify \/ FinishNotify
  <2>1. CASE BeginNotify
    BY <2>1, Zenon DEF BeginNotify
  <2>2. CASE FinishNotify
    BY <2>2, Zenon DEF FinishNotify
  <2> QED BY <1>6, <2>1, <2>2
<1>7. ASSUME NEW p \in inbox, HandleResponse(p) \/ HandleGetWifilist(p) \/ HandleSwitchAp(p)
      PROVE  LockTypes'
  <2>1. CASE HandleResponse(p)
    BY <2>1, Zenon DEF HandleResponse, Read
  <2>2. CASE HandleGetWifilist(p)
    BY <2>2, Zenon DEF HandleGetWifilist, Read
  <2>3. CASE HandleSwitchAp(p)
    BY <2>3, Zenon DEF HandleSwitchAp, Read
  <2> QED BY <1>7, <2>1, <2>2, <2>3
<1>8. ASSUME NEW o \in notifying, NotifyObserver(o)
      PROVE  LockTypes'
  BY <1>8, Zenon DEF NotifyObserver
<1> HIDE DEF LockTypes
<1>9. ASSUME NEW m \in air, PeerAcks(m) \/ \E peer \in Peers : PeerAnswers(m, peer)
      PROVE  LockTypes'
  BY <1>1, <1>9, Zenon DEF PeerAcks, PeerAnswers, locks
<1>10. ASSUME NEW peer \in Peers, NEW kind, NEW id, NEW type, PeerAsks(peer, kind, id, type)
       PROVE  LockTypes'
  BY <1>1, <1>10, Zenon DEF PeerAsks, locks
<1>11. ASSUME NEW i \in DOMAIN sendlist, BecomesDue(i)
       PROVE  LockTypes'
  BY <1>1, <1>11, Zenon DEF BecomesDue, locks
<1>12. ASSUME NEW p \in inbox, HandleAck(p)
       PROVE  LockTypes'
  BY <1>1, <1>12, Zenon DEF HandleAck, locks
<1>13. CASE EndBeacons \/ UNCHANGED coapVars
  BY <1>1, <1>13, Zenon DEF EndBeacons, coapVars, locks
<1> QED BY <1>2, <1>3, <1>4, <1>5, <1>6, <1>7, <1>8, <1>9, <1>10, <1>11, <1>12, <1>13,
           <1>14, CoapSteps, Zenon

\* Only the server's thread changes the observers, in a section of their mutex.
LEMMA ObserversRest ==
    ASSUME [CoapNext]_coapVars, ~AddObserver, ~ForgetObserver
    PROVE  UNCHANGED observers
<1>1. CASE \/ NotifyResponse \/ ListAnswer \/ CancelAnswer \/ ReadTimesOut \/ Retransmit
           \/ CheckTimeout \/ SendBeacon \/ ListBeacon \/ EndBeacons
  BY <1>1, Zenon DEF NotifyResponse, ListAnswer, CancelAnswer, ReadTimesOut, Retransmit,
                     CheckTimeout, SendBeacon, ListBeacon, EndBeacons
<1>2. CASE BeginNotify \/ ListNotification \/ FinishNotify \/ UNCHANGED coapVars
  BY <1>2, Zenon DEF BeginNotify, ListNotification, FinishNotify, coapVars
<1>3. ASSUME NEW p \in inbox, \/ HandleAck(p) \/ HandleResponse(p)
                              \/ HandleGetWifilist(p) \/ HandleSwitchAp(p)
      PROVE  UNCHANGED observers
  BY <1>3, Zenon DEF HandleAck, HandleResponse, HandleGetWifilist, HandleSwitchAp
<1>4. ASSUME NEW m \in air, PeerAcks(m) \/ \E peer \in Peers : PeerAnswers(m, peer)
      PROVE  UNCHANGED observers
  BY <1>4, Zenon DEF PeerAcks, PeerAnswers
<1>5. ASSUME NEW peer \in Peers, NEW kind, NEW id, NEW type, PeerAsks(peer, kind, id, type)
      PROVE  UNCHANGED observers
  BY <1>5, Zenon DEF PeerAsks
<1>6. ASSUME NEW i \in DOMAIN sendlist, BecomesDue(i)
      PROVE  UNCHANGED observers
  BY <1>6, Zenon DEF BecomesDue
<1>7. ASSUME NEW o \in notifying, NotifyObserver(o)
      PROVE  UNCHANGED observers
  BY <1>7, Zenon DEF NotifyObserver
<1> QED BY <1>1, <1>2, <1>3, <1>4, <1>5, <1>6, <1>7, CoapSteps, Zenon

LEMMA ObserverStep == ServerTypes /\ [CoapNext]_coapVars => ObserverTypes'
<1> SUFFICES ASSUME ServerTypes, [CoapNext]_coapVars PROVE ObserverTypes'
  OBVIOUS
<1>1. /\ observers \subseteq Observers /\ IsFiniteSet(observers)
      /\ Cardinality(observers) <= MaxObs /\ MaxObs \in Nat /\ Cardinality(observers) \in Nat
  BY CoapServerAssumption, FS_CardinalityType, Zenon DEF ServerTypes, ObserverTypes
<1>2. CASE AddObserver
  <2> DEFINE o == [peer |-> serving.peer, type |-> serving.type]
  <2>1. o \in Observers
    <3>1. serving.peer \in Peers /\ serving.type \in ObserveTypes
      BY <1>2, Zenon DEF AddObserver, ServerTypes, ServingTypes
    <3> QED BY <3>1 DEF Observers
  <2>2. CASE Cardinality(observers) >= MaxObs
    BY <1>1, <1>2, <2>2, Zenon DEF AddObserver, ObserverTypes
  <2>3. CASE ~(Cardinality(observers) >= MaxObs)
    <3>1. observers' = observers \cup {o}
      BY <1>2, <2>3, Zenon DEF AddObserver
    <3> HIDE DEF o
    <3>2. /\ IsFiniteSet(observers \cup {o})
          /\ Cardinality(observers \cup {o}) \in
               {Cardinality(observers), Cardinality(observers) + 1}
      BY <1>1, FS_AddElement
    <3>3. Cardinality(observers \cup {o}) <= MaxObs
      BY <1>1, <2>3, <3>2
    <3>4. observers \cup {o} \subseteq Observers
      BY <1>1, <2>1, Zenon
    <3> QED BY <3>1, <3>2, <3>3, <3>4, Zenon DEF ObserverTypes
  <2> QED BY <2>2, <2>3
<1>3. CASE ForgetObserver
  <2> DEFINE left == {o \in observers : o.peer # serving.peer}
  <2>1. observers' = left /\ left \subseteq observers
    BY <1>3, Zenon DEF ForgetObserver
  <2> HIDE DEF left
  <2>2. IsFiniteSet(left) /\ Cardinality(left) <= Cardinality(observers) /\ Cardinality(left) \in Nat
    BY <1>1, <2>1, FS_Subset, FS_CardinalityType, Zenon
  <2>3. Cardinality(left) <= MaxObs
    BY <1>1, <2>2
  <2>4. left \subseteq Observers
    BY <1>1, <2>1, Zenon
  <2> QED BY <2>1, <2>2, <2>3, <2>4, Zenon DEF ObserverTypes
<1> QED BY <1>1, <1>2, <1>3, ObserversRest, Zenon DEF ObserverTypes

LEMMA NodeFacts ==
    ASSUME NEW id \in Nat, NEW peer \in Peers \cup {Group}, NEW kind \in Kinds
    PROVE  /\ Node(id, peer, kind) \in NodeType /\ Node(id, peer, kind).id = id
           /\ Node(id, peer, kind).peer = peer /\ Node(id, peer, kind).kind = kind
BY CoapServerAssumption DEF Node, NodeType

LEMMA NextIdFacts ==
    ASSUME lastId \in 0 .. Len(OwnIds)
    PROVE  NextId \in Nat /\ (lastId % Len(OwnIds)) + 1 \in 0 .. Len(OwnIds)
<1>1. OwnIds \in Seq(Nat) /\ OwnIds # <<>> /\ Len(OwnIds) \in Nat
  BY CoapServerAssumption, LenProperties
<1>2. Len(OwnIds) # 0
  BY <1>1, EmptySeq
<1>3. (lastId % Len(OwnIds)) + 1 \in 1 .. Len(OwnIds)
  BY <1>1, <1>2
<1>4. NextId \in Nat
  BY <1>1, <1>3, ElementOfSeq, Zenon DEF NextId
<1> QED BY <1>1, <1>3, <1>4

LEMMA PhoneStep == ServerTypes /\ [CoapNext]_coapVars => PhoneTypes'
<1> SUFFICES ASSUME ServerTypes, [CoapNext]_coapVars PROVE PhoneTypes'
  OBVIOUS
<1>1. \A p \in inbox : IsRequest(p)
  BY Zenon DEF ServerTypes, PhoneTypes
<1> SUFFICES ASSUME NEW p \in inbox' PROVE IsRequest(p)
  BY Zenon DEF PhoneTypes
<1> SUFFICES ASSUME p \notin inbox PROVE IsRequest(p)
  BY <1>1
<1>2. ASSUME NEW m \in air, PeerAcks(m)
      PROVE  IsRequest(p)
  <2>1. p = Packet("ack", m.id, m.peer, "ACK")
    BY <1>2, Zenon DEF PeerAcks, Arrives
  <2> QED BY <2>1 DEF Packet, IsRequest
<1>3. ASSUME NEW m \in air, NEW peer \in Peers, PeerAnswers(m, peer)
      PROVE  IsRequest(p)
  <2>1. p = Packet("response", m.id, peer, "NON")
    BY <1>3, Zenon DEF PeerAnswers, Arrives
  <2> QED BY <2>1 DEF Packet, IsRequest
<1>4. ASSUME NEW peer \in Peers, NEW type \in ObserveTypes, PeerAsks(peer, "get", 0, type)
      PROVE  IsRequest(p)
  <2>1. p = Packet("get", 0, peer, type)
    BY <1>4, Zenon DEF PeerAsks, Arrives
  <2> QED BY <2>1 DEF Packet, IsRequest
<1>5. ASSUME NEW peer \in Peers, NEW id \in PeerIds, PeerAsks(peer, "switch", id, "CON")
      PROVE  IsRequest(p)
  <2>1. p = Packet("switch", id, peer, "CON")
    BY <1>5, Zenon DEF PeerAsks, Arrives
  <2>2. id \in Nat
    BY CoapServerAssumption
  <2> QED BY <2>1, <2>2 DEF Packet, IsRequest
<1>6. ~ \E q \in inbox : \/ HandleAck(q) \/ HandleResponse(q)
                         \/ HandleGetWifilist(q) \/ HandleSwitchAp(q)
  BY Zenon DEF HandleAck, HandleResponse, HandleGetWifilist, HandleSwitchAp, Read
<1>7. ~(\/ NotifyResponse \/ AddObserver \/ ListAnswer \/ CancelAnswer \/ ReadTimesOut)
  BY Zenon DEF NotifyResponse, AddObserver, ListAnswer, CancelAnswer, ReadTimesOut, phones
<1>8. ~(Retransmit \/ CheckTimeout \/ ForgetObserver \/ SendBeacon \/ ListBeacon \/ EndBeacons)
  BY Zenon DEF Retransmit, CheckTimeout, ForgetObserver, SendBeacon, ListBeacon, EndBeacons, phones
<1>9. ~(BeginNotify \/ ListNotification \/ FinishNotify \/ UNCHANGED coapVars)
  BY Zenon DEF BeginNotify, ListNotification, FinishNotify, coapVars, phones
<1>10. ~ \E o \in notifying : NotifyObserver(o)
  BY Zenon DEF NotifyObserver
<1>11. ~ \E i \in DOMAIN sendlist : BecomesDue(i)
  BY Zenon DEF BecomesDue, phones
<1> QED BY <1>2, <1>3, <1>4, <1>5, <1>6, <1>7, <1>8, <1>9, <1>10, <1>11, CoapSteps, Zenon

\* Check_timeout finds a node if there is one to give up.
LEMMA FirstIsGivenUp ==
    ASSUME sendlist \in Seq(NodeType), GivesUp
    PROVE  FirstGivenUp \in DOMAIN sendlist /\ IsGivenUp(sendlist[FirstGivenUp])
<1> DEFINE T == {i \in Nat : i \in DOMAIN sendlist /\ IsGivenUp(sendlist[i])}
           First(i) == /\ IsGivenUp(sendlist[i])
                       /\ \A j \in 1 .. i - 1 : ~IsGivenUp(sendlist[j])
<1>1. DOMAIN sendlist = 1 .. Len(sendlist) /\ Len(sendlist) \in Nat
  BY LenProperties
<1>2. T # {}
  <2>1. PICK i \in DOMAIN sendlist : IsGivenUp(sendlist[i])
    BY Zenon DEF GivesUp
  <2>2. i \in Nat
    BY <1>1, <2>1
  <2> QED BY <2>1, <2>2, Zenon
<1>3. PICK n \in T : \A m \in Nat : m < n => m \notin T
  BY <1>2, LeastNumber, T \subseteq Nat, Zenon
<1>4. n \in DOMAIN sendlist /\ n \in Nat /\ IsGivenUp(sendlist[n])
  BY <1>3
<1>5. ASSUME NEW j \in 1 .. n - 1
      PROVE  ~IsGivenUp(sendlist[j])
  <2>1. j \in Nat /\ j < n /\ j \in DOMAIN sendlist
    BY <1>1, <1>4
  <2>2. j \notin T
    BY <1>3, <2>1, Zenon
  <2> QED BY <2>1, <2>2, Zenon
<1>6. First(n)
  BY <1>4, <1>5, Zenon
<1> HIDE DEF First
<1>7. FirstGivenUp = CHOOSE i \in DOMAIN sendlist : First(i)
  BY Zenon DEF FirstGivenUp, First
<1>8. FirstGivenUp \in DOMAIN sendlist /\ First(FirstGivenUp)
  BY <1>4, <1>6, <1>7, Zenon
<1> QED BY <1>8, Zenon DEF First

\* What the server's thread has in hand.
LEMMA ServingStep == ServerTypes /\ [CoapNext]_coapVars => ServingTypes'
<1> SUFFICES ASSUME ServerTypes, [CoapNext]_coapVars PROVE ServingTypes'
  OBVIOUS
<1> USE DEF At, Goto
<1>1. /\ pc \in [CoapThreads -> ServerPlaces \cup DaemonPlaces] /\ pc["server"] \in ServerPlaces
      /\ ServingTypes /\ \A p \in inbox : IsRequest(p)
      /\ sendlist \in Seq(NodeType) /\ "server" \in CoapThreads /\ "daemon" \in CoapThreads
  BY Zenon DEF ServerTypes, LockTypes, PhoneTypes, NodeList, CoapThreads
<1>2. CASE UNCHANGED serving /\ pc'["server"] = pc["server"]
  BY <1>1, <1>2, Zenon DEF ServingTypes
<1>3. CASE pc'["server"] \in {"read", "answered", "resend", "check"}
  BY <1>3, Zenon DEF ServingTypes
<1>4. CASE NotifyResponse \/ AddObserver \/ CancelAnswer \/ ReadTimesOut \/ Retransmit \/ ForgetObserver
  <2>1. pc'["server"] \in {"read", "answered", "resend", "check"}
    BY <1>1, <1>4, Zenon DEF NotifyResponse, AddObserver, CancelAnswer, ReadTimesOut, Retransmit,
                             ForgetObserver
  <2> QED BY <1>3, <2>1
<1>5. CASE ListAnswer
  <2>1. \/ pc'["server"] = "read"
        \/ pc["server"] = "answering" /\ pc'["server"] = "waiting" /\ UNCHANGED serving
    BY <1>1, <1>5, Zenon DEF ListAnswer
  <2>2. CASE pc["server"] = "answering" /\ pc'["server"] = "waiting" /\ UNCHANGED serving
    BY <1>1, <2>2, Zenon DEF ServingTypes
  <2> QED BY <1>3, <2>1, <2>2, Zenon
<1>6. CASE CheckTimeout
  <2>1. CASE ~GivesUp
    BY <1>1, <1>3, <1>6, <2>1, Zenon DEF CheckTimeout
  <2>2. CASE GivesUp
    <3>1. /\ FirstGivenUp \in DOMAIN sendlist /\ IsGivenUp(sendlist[FirstGivenUp])
      BY <1>1, <2>2, FirstIsGivenUp
    <3>2. serving' = sendlist[FirstGivenUp] /\ pc'["server"] = "forget"
      BY <1>1, <1>6, <2>2, Zenon DEF CheckTimeout
    <3>3. sendlist[FirstGivenUp] \in NodeType
      BY <1>1, <3>1, ElementOfSeq, LenProperties
    <3> QED BY <3>1, <3>2, <3>3, Zenon DEF ServingTypes, IsGivenUp, Kept
  <2> QED BY <2>1, <2>2
<1>7. ASSUME NEW p \in inbox, HandleResponse(p)
      PROVE  ServingTypes'
  <2>1. pc'["server"] = "answered" \/ UNCHANGED <<serving, pc>>
    BY <1>1, <1>7, Zenon DEF HandleResponse
  <2> QED BY <1>2, <1>3, <2>1, Zenon
<1>8. ASSUME NEW p \in inbox, HandleGetWifilist(p)
      PROVE  ServingTypes'
  <2>1. \/ UNCHANGED <<serving, pc>>
        \/ pc'["server"] = "observe" /\ serving' = p /\ p.kind = "get"
    BY <1>1, <1>8, Zenon DEF HandleGetWifilist, Read
  <2>2. CASE pc'["server"] = "observe" /\ serving' = p /\ p.kind = "get"
    BY <1>1, <2>2, Zenon DEF ServingTypes, IsRequest
  <2> QED BY <1>2, <2>1, <2>2, Zenon
<1>9. ASSUME NEW p \in inbox, HandleSwitchAp(p)
      PROVE  ServingTypes'
  <2>1. pc'["server"] = "answering" /\ serving' = Node(p.id, p.peer, "answer") /\ p.kind = "switch"
    BY <1>1, <1>9, Zenon DEF HandleSwitchAp, Read
  <2>2. p.id \in Nat /\ p.peer \in Peers
    BY <1>1, <2>1, Zenon DEF IsRequest
  <2>3. serving' \in NodeType /\ serving'.kind = "answer"
    BY <2>1, <2>2, NodeFacts DEF Kinds
  <2>4. ~Kept(serving')
    BY <2>3 DEF Kept
  <2> QED BY <2>1, <2>3, <2>4, Zenon DEF ServingTypes, Kept
<1>10. CASE SendBeacon \/ ListBeacon \/ BeginNotify \/ ListNotification \/ FinishNotify
  <2>1. UNCHANGED serving /\ pc'["server"] = pc["server"]
    BY <1>1, <1>10, Zenon DEF SendBeacon, ListBeacon, BeginNotify, ListNotification, FinishNotify
  <2> QED BY <1>2, <2>1
<1>11. ASSUME NEW o \in notifying, NotifyObserver(o)
       PROVE  ServingTypes'
  <2>1. UNCHANGED serving /\ pc'["server"] = pc["server"]
    BY <1>1, <1>11, Zenon DEF NotifyObserver
  <2> QED BY <1>2, <2>1
<1>12. CASE EndBeacons \/ UNCHANGED coapVars
  BY <1>2, <1>12, Zenon DEF EndBeacons, coapVars, locks
<1>13. ASSUME NEW m \in air, PeerAcks(m) \/ \E peer \in Peers : PeerAnswers(m, peer)
       PROVE  ServingTypes'
  BY <1>2, <1>13, Zenon DEF PeerAcks, PeerAnswers, locks
<1>14. ASSUME NEW peer \in Peers, NEW kind, NEW id, NEW type, PeerAsks(peer, kind, id, type)
       PROVE  ServingTypes'
  BY <1>2, <1>14, Zenon DEF PeerAsks, locks
<1>15. ASSUME NEW i \in DOMAIN sendlist, BecomesDue(i)
       PROVE  ServingTypes'
  BY <1>2, <1>15, Zenon DEF BecomesDue, locks
<1>16. ASSUME NEW p \in inbox, HandleAck(p)
       PROVE  ServingTypes'
  BY <1>2, <1>16, Zenon DEF HandleAck, locks
<1> QED BY <1>4, <1>5, <1>6, <1>7, <1>8, <1>9, <1>10, <1>11, <1>12, <1>13, <1>14, <1>15, <1>16,
           CoapSteps, Zenon

\* What the daemon has in hand.
LEMMA ListingStep == ServerTypes /\ [CoapNext]_coapVars => ListingTypes'
<1> SUFFICES ASSUME ServerTypes, [CoapNext]_coapVars PROVE ListingTypes'
  OBVIOUS
<1> USE DEF At, Goto
<1>1. /\ pc \in [CoapThreads -> ServerPlaces \cup DaemonPlaces] /\ pc["daemon"] \in DaemonPlaces
      /\ ListingTypes /\ "server" \in CoapThreads /\ "daemon" \in CoapThreads
      /\ observers \subseteq Observers
  BY Zenon DEF ServerTypes, LockTypes, ObserverTypes, CoapThreads
<1>2. NextId \in Nat /\ (lastId % Len(OwnIds)) + 1 \in 0 .. Len(OwnIds)
  BY <1>1, NextIdFacts, Zenon DEF ListingTypes
<1>3. CASE UNCHANGED <<listing, notifying, lastId, beacon>> /\ pc'["daemon"] = pc["daemon"]
  BY <1>1, <1>3, Zenon DEF ListingTypes
<1>4. CASE SendBeacon
  <2>1. /\ lastId' = (lastId % Len(OwnIds)) + 1 /\ beacon' = NextId /\ UNCHANGED notifying
        /\ listing' = Node(NextId, Group, "multicast") /\ pc'["daemon"] = "list beacon"
    BY <1>1, <1>4, Zenon DEF SendBeacon, GenerateId
  <2>2. listing' \in NodeType /\ listing'.kind = "multicast"
    <3>1. Node(NextId, Group, "multicast") \in NodeType
          /\ Node(NextId, Group, "multicast").kind = "multicast"
      BY <1>2, NodeFacts DEF Kinds
    <3> QED BY <2>1, <3>1, Zenon
  <2> QED BY <1>1, <1>2, <2>1, <2>2, Zenon DEF ListingTypes, Kept
<1>5. CASE ListBeacon \/ ListNotification \/ FinishNotify
  <2>1. UNCHANGED <<notifying, lastId, beacon>> /\ pc'["daemon"] \in {"idle", "notify"}
    BY <1>1, <1>5, Zenon DEF ListBeacon, ListNotification, FinishNotify, group, notes
  <2> QED BY <1>1, <2>1, Zenon DEF ListingTypes
<1>6. CASE EndBeacons
  <2>1. UNCHANGED <<listing, notifying, lastId, pc>> /\ beacon' = 0
    BY <1>6, Zenon DEF EndBeacons, locks, notes
  <2>2. beacon' \in Nat
    BY <2>1
  <2> QED BY <1>1, <2>1, <2>2, Zenon DEF ListingTypes
<1>7. CASE BeginNotify
  <2>1. UNCHANGED <<lastId, beacon>> /\ notifying' = observers /\ pc'["daemon"] = "notify"
    BY <1>1, <1>7, Zenon DEF BeginNotify, group
  <2> QED BY <1>1, <2>1, Zenon DEF ListingTypes
<1>8. ASSUME NEW o \in notifying, NotifyObserver(o)
      PROVE  ListingTypes'
  <2>1. /\ lastId' = (lastId % Len(OwnIds)) + 1 /\ UNCHANGED beacon
        /\ notifying' = notifying \ {o}
        /\ \/ pc'["daemon"] = "list notification" /\ listing' = Node(NextId, o.peer, "notification")
           \/ pc'["daemon"] = "notify"
    <3>1. CASE o.type = "CON"
      BY <1>1, <1>8, <3>1, Zenon DEF NotifyObserver, GenerateId, group
    <3>2. CASE o.type # "CON"
      BY <1>1, <1>8, <3>2, Zenon DEF NotifyObserver, GenerateId, group
    <3> QED BY <3>1, <3>2, Zenon
  <2>2. o.peer \in Peers
    BY <1>1 DEF ListingTypes, Observers
  <2>3. \/ pc'["daemon"] = "notify"
        \/ pc'["daemon"] = "list notification" /\ listing' \in NodeType /\ listing'.kind = "notification"
    <3> DEFINE n == Node(NextId, o.peer, "notification")
    <3>1. n \in NodeType /\ n.kind = "notification"
      BY <1>2, <2>2, NodeFacts DEF Kinds
    <3> QED BY <2>1, <3>1, Zenon
  <2>4. /\ At("daemon", "list beacon")' => listing' \in NodeType /\ Kept(listing)'
        /\ At("daemon", "list notification")' => listing' \in NodeType /\ ~Kept(listing)'
    <3>1. CASE pc'["daemon"] = "notify"
      BY <3>1, Zenon
    <3>2. CASE /\ pc'["daemon"] = "list notification" /\ listing' \in NodeType
               /\ listing'.kind = "notification"
      BY <3>2, Zenon DEF Kept
    <3> QED BY <2>3, <3>1, <3>2
  <2> QED BY <1>1, <1>2, <2>1, <2>4, Zenon DEF ListingTypes
<1>9. CASE NotifyResponse \/ AddObserver \/ ListAnswer \/ CancelAnswer \/ ReadTimesOut
  BY <1>1, <1>3, <1>9, Zenon DEF NotifyResponse, AddObserver, ListAnswer, CancelAnswer, ReadTimesOut,
                                 notes, group
<1>10. CASE Retransmit \/ CheckTimeout \/ ForgetObserver \/ UNCHANGED coapVars
  BY <1>1, <1>3, <1>10, Zenon DEF Retransmit, CheckTimeout, ForgetObserver, coapVars, notes, group, locks
<1>11. ASSUME NEW p \in inbox, \/ HandleAck(p) \/ HandleResponse(p)
                               \/ HandleGetWifilist(p) \/ HandleSwitchAp(p)
       PROVE  ListingTypes'
  BY <1>1, <1>3, <1>11, Zenon DEF HandleAck, HandleResponse, HandleGetWifilist, HandleSwitchAp, Read,
                                  notes, group, locks
<1>12. ASSUME NEW m \in air, PeerAcks(m) \/ \E peer \in Peers : PeerAnswers(m, peer)
       PROVE  ListingTypes'
  BY <1>3, <1>12, Zenon DEF PeerAcks, PeerAnswers, locks, notes, group
<1>13. ASSUME NEW peer \in Peers, NEW kind, NEW id, NEW type, PeerAsks(peer, kind, id, type)
       PROVE  ListingTypes'
  BY <1>3, <1>13, Zenon DEF PeerAsks, locks, notes, group
<1>14. ASSUME NEW i \in DOMAIN sendlist, BecomesDue(i)
       PROVE  ListingTypes'
  BY <1>3, <1>14, Zenon DEF BecomesDue, locks, notes, group
<1> QED BY <1>4, <1>5, <1>6, <1>7, <1>8, <1>9, <1>10, <1>11, <1>12, <1>13, <1>14, CoapSteps, Zenon

-----------------------------------------------------------------------------
(* Multicasts in the list of messages.                                       *)

\* At most one multicast is in the list, and it has this identifier.
OneOf(list, id) ==
    /\ \A i \in 1 .. Len(list) : Kept(list[i]) => list[i].id = id
    /\ \A i, j \in 1 .. Len(list) : Kept(list[i]) /\ Kept(list[j]) => i = j
NoneOf(list) == \A i \in 1 .. Len(list) : ~Kept(list[i])

LEMMA LeftMulticasts ==
    ASSUME NEW rest, NEW list, LeftOf(rest, list), NEW id
    PROVE  (OneOf(list, id) => OneOf(rest, id)) /\ (NoneOf(list) => NoneOf(rest))
<1>1. PICK pos \in [1 .. Len(rest) -> 1 .. Len(list)] :
        /\ \A i \in 1 .. Len(rest) :
             rest[i].id = list[pos[i]].id /\ rest[i].kind = list[pos[i]].kind
        /\ \A i, j \in 1 .. Len(rest) : pos[i] = pos[j] => i = j
  BY Zenon DEF LeftOf
<1>2. \A i \in 1 .. Len(rest) : pos[i] \in 1 .. Len(list) /\ (Kept(rest[i]) <=> Kept(list[pos[i]]))
  BY <1>1, Zenon DEF Kept
<1>3. ASSUME OneOf(list, id)
      PROVE  OneOf(rest, id)
  <2>1. ASSUME NEW i \in 1 .. Len(rest), Kept(rest[i])
        PROVE  rest[i].id = id
    <3>1. list[pos[i]].id = id
      BY <1>2, <1>3, <2>1, Zenon DEF OneOf
    <3> QED BY <1>1, <3>1, Zenon
  <2>2. ASSUME NEW i \in 1 .. Len(rest), NEW j \in 1 .. Len(rest), Kept(rest[i]), Kept(rest[j])
        PROVE  i = j
    <3>1. pos[i] = pos[j]
      BY <1>2, <1>3, <2>2, Zenon DEF OneOf
    <3> QED BY <1>1, <3>1, Zenon
  <2> QED BY <2>1, <2>2, Zenon DEF OneOf
<1> QED BY <1>2, <1>3, Zenon DEF NoneOf

LEMMA ListedMulticasts ==
    ASSUME NEW list \in NodeList, NEW n \in NodeType, NEW id
    PROVE  /\ ~Kept(n) /\ OneOf(list, id) => OneOf(Listed(list, n), id)
           /\ ~Kept(n) /\ NoneOf(list) => NoneOf(Listed(list, n))
           /\ n.id = id /\ NoneOf(list) => OneOf(Listed(list, n), id)
<1> DEFINE c == Append(list, n)
           l == Len(list)
<1>1. list \in Seq(NodeType) /\ l \in Nat
  BY LenProperties DEF NodeList
<1>2. Len(c) = l + 1 /\ c[l + 1] = n /\ \A i \in 1 .. l : c[i] = list[i]
  BY <1>1, AppendProperties
<1>3. \A i \in 1 .. l + 1 : i \in 1 .. l \/ i = l + 1
  BY <1>1
<1>4. NoneOf(list) => OneOf(list, id)
  BY Zenon DEF NoneOf, OneOf
<1>5. Listed(list, n) = list \/ Listed(list, n) = c
  BY ListedFacts, Zenon
<1> HIDE DEF c, l
<1>6. ~Kept(n) /\ NoneOf(list) => NoneOf(c)
  BY <1>2, <1>3, Zenon DEF NoneOf, l
<1>7. ~Kept(n) /\ OneOf(list, id) => OneOf(c, id)
  <2> SUFFICES ASSUME ~Kept(n), OneOf(list, id) PROVE OneOf(c, id)
    OBVIOUS
  <2>1. ASSUME NEW i \in 1 .. l + 1, Kept(c[i])
        PROVE  i \in 1 .. l /\ c[i] = list[i] /\ Kept(list[i])
    <3>1. i # l + 1
      BY <1>2, <2>1, Zenon
    <3> QED BY <1>2, <1>3, <2>1, <3>1, Zenon
  <2>2. \A i \in 1 .. Len(c) : Kept(c[i]) => c[i].id = id
    BY <1>2, <2>1, Zenon DEF OneOf, l
  <2>3. \A i, j \in 1 .. Len(c) : Kept(c[i]) /\ Kept(c[j]) => i = j
    BY <1>2, <2>1, Zenon DEF OneOf, l
  <2> QED BY <2>2, <2>3, Zenon DEF OneOf
<1>8. n.id = id /\ NoneOf(list) => OneOf(c, id)
  BY <1>2, <1>3, Zenon DEF NoneOf, OneOf, l
<1> QED BY <1>4, <1>5, <1>6, <1>7, <1>8, Zenon

LEMMA AcknowledgedIsLeft ==
    ASSUME NEW list \in NodeList, NEW id
    PROVE  Acknowledged(list, id) \in NodeList /\ LeftOf(Acknowledged(list, id), list)
<1> DEFINE hits == {i \in DOMAIN list : list[i].id = id}
           First(i) == \A k \in hits : i <= k
           n == CHOOSE j \in hits : First(j)
<1>1. list \in Seq(NodeType) /\ DOMAIN list = 1 .. Len(list) /\ Len(list) \in Nat
  BY LenProperties DEF NodeList
<1>2. \A i \in 1 .. Len(list) : list[i] \in NodeType
  BY <1>1, ElementOfSeq
<1>3. CASE hits = {}
  <2>1. Acknowledged(list, id) = list
    BY <1>3, Zenon DEF Acknowledged
  <2>2. list \in [1 .. Len(list) -> NodeType]
    BY <1>1
  <2>3. LeftOf(list, list)
    BY <2>2, ChangedIsLeft
  <2> QED BY <2>1, <2>3, Zenon
<1>4. CASE hits # {}
  <2>1. \E j \in hits : First(j)
    <3>1. hits \subseteq Nat
      BY <1>1
    <3> HIDE DEF hits
    <3>2. PICK j \in hits : \A m \in Nat : m < j => m \notin hits
      BY <1>4, <3>1, LeastNumber
    <3>3. First(j)
      BY <3>1, <3>2
    <3> QED BY <3>3, Zenon
  <2>2. n \in hits
    <3> HIDE DEF First
    <3> QED BY <2>1, Zenon
  <2> HIDE DEF First
  <2>3. Acknowledged(list, id) = IF Kept(list[n]) THEN [list EXCEPT ![n].acked = TRUE]
                                 ELSE RemoveAt(list, n)
    BY <1>4, Zenon DEF Acknowledged, First
  <2> HIDE DEF n
  <2>4. n \in 1 .. Len(list)
    BY <1>1, <2>2, Zenon
  <2>5. CASE ~Kept(list[n])
    BY <2>3, <2>4, <2>5, RemovedIsLeft, Zenon
  <2>6. CASE Kept(list[n])
    <3> DEFINE c == [list EXCEPT ![n].acked = TRUE]
               new == [list[n] EXCEPT !.acked = TRUE]
    <3>1. new \in NodeType /\ new.id = list[n].id /\ new.kind = list[n].kind
      BY <1>2, <2>4 DEF NodeType
    <3>2. c = [i \in 1 .. Len(list) |-> IF i = n THEN new ELSE list[i]]
      BY <1>1, <2>4
    <3> HIDE DEF c, new
    <3>3. c \in [1 .. Len(list) -> NodeType]
      BY <1>2, <3>1, <3>2
    <3>4. \A i \in 1 .. Len(list) : c[i].id = list[i].id /\ c[i].kind = list[i].kind
      BY <3>1, <3>2
    <3>5. c \in NodeList /\ LeftOf(c, list)
      BY <3>3, <3>4, ChangedIsLeft, Zenon
    <3> QED BY <2>3, <2>6, <3>5, Zenon DEF c
  <2> QED BY <2>5, <2>6
<1> QED BY <1>3, <1>4

\* A step that lists no multicast.
Harmless ==
    /\ sendlist' \in NodeList
    /\ \A id \in Nat : OneOf(sendlist, id) => OneOf(sendlist, id)'
    /\ NoneOf(sendlist) => NoneOf(sendlist)'

LEMMA LeftIsHarmless ==
    ASSUME sendlist' \in NodeList, LeftOf(sendlist', sendlist)
    PROVE  Harmless
BY LeftMulticasts, Zenon DEF Harmless

LEMMA ListedIsHarmless ==
    ASSUME sendlist \in NodeList, NEW n \in NodeType, ~Kept(n), sendlist' = Listed(sendlist, n)
    PROVE  Harmless
BY ListedFacts, ListedMulticasts, Zenon DEF Harmless

LEMMA BecomesDueIsHarmless ==
    ASSUME sendlist \in NodeList, NEW i \in DOMAIN sendlist, BecomesDue(i)
    PROVE  Harmless
<1> DEFINE new == [sendlist[i] EXCEPT !.due = TRUE]
<1>1. sendlist \in Seq(NodeType) /\ DOMAIN sendlist = 1 .. Len(sendlist) /\ Len(sendlist) \in Nat
  BY LenProperties DEF NodeList
<1>2. \A j \in 1 .. Len(sendlist) : sendlist[j] \in NodeType
  BY <1>1, ElementOfSeq
<1>3. new \in NodeType /\ new.id = sendlist[i].id /\ new.kind = sendlist[i].kind
  BY <1>1, <1>2 DEF NodeType
<1>4. sendlist' = [j \in 1 .. Len(sendlist) |-> IF j = i THEN new ELSE sendlist[j]]
  <2>1. sendlist' = [sendlist EXCEPT ![i].due = TRUE]
    BY Zenon DEF BecomesDue
  <2> QED BY <1>1, <2>1
<1> HIDE DEF new
<1>5. sendlist' \in [1 .. Len(sendlist) -> NodeType]
  BY <1>2, <1>3, <1>4
<1>6. \A j \in 1 .. Len(sendlist) :
        sendlist'[j].id = sendlist[j].id /\ sendlist'[j].kind = sendlist[j].kind
  BY <1>3, <1>4
<1>7. sendlist' \in NodeList /\ LeftOf(sendlist', sendlist)
  BY <1>5, <1>6, ChangedIsLeft, Zenon
<1> QED BY <1>7, LeftIsHarmless

LEMMA RetransmitIsHarmless ==
    ASSUME sendlist \in NodeList, Retransmit
    PROVE  Harmless
<1>1. sendlist \in Seq(NodeType) /\ DOMAIN sendlist = 1 .. Len(sendlist) /\ Len(sendlist) \in Nat
  BY LenProperties DEF NodeList
<1>2. \A i \in 1 .. Len(sendlist) : sendlist[i] \in NodeType
  BY <1>1, ElementOfSeq
<1>3. ASSUME NEW n \in NodeType
      PROVE  Resent(n) \in NodeType /\ Resent(n).id = n.id /\ Resent(n).kind = n.kind
  <2>1. CASE ~IsResent(n)
    BY <2>1, Zenon DEF Resent
  <2>2. CASE IsResent(n)
    <3> DEFINE new == [n EXCEPT !.tries = @ - 1, !.due = FALSE]
    <3>1. n.tries - 1 \in 0 .. MaxRetry
      BY <2>2, CoapServerAssumption DEF IsResent, NodeType
    <3>2. new \in NodeType /\ new.id = n.id /\ new.kind = n.kind
      BY <3>1 DEF NodeType
    <3> HIDE DEF new
    <3>3. Resent(n) = new
      BY <2>2, Zenon DEF Resent, new
    <3> QED BY <3>2, <3>3, Zenon
  <2> QED BY <2>1, <2>2
<1>4. sendlist' = [i \in 1 .. Len(sendlist) |-> Resent(sendlist[i])]
  BY <1>1, Zenon DEF Retransmit
<1>5. sendlist' \in [1 .. Len(sendlist) -> NodeType]
  BY <1>2, <1>3, <1>4
<1>6. \A i \in 1 .. Len(sendlist) :
        sendlist'[i].id = sendlist[i].id /\ sendlist'[i].kind = sendlist[i].kind
  BY <1>2, <1>3, <1>4
<1>7. sendlist' \in NodeList /\ LeftOf(sendlist', sendlist)
  BY <1>5, <1>6, ChangedIsLeft, Zenon
<1> QED BY <1>7, LeftIsHarmless

LEMMA CheckTimeoutIsHarmless ==
    ASSUME sendlist \in NodeList, CheckTimeout, GivesUp
    PROVE  Harmless
<1>1. sendlist \in Seq(NodeType) /\ DOMAIN sendlist = 1 .. Len(sendlist)
  BY LenProperties DEF NodeList
<1>2. FirstGivenUp \in 1 .. Len(sendlist)
  BY <1>1, FirstIsGivenUp, Zenon
<1>3. sendlist' = RemoveAt(sendlist, FirstGivenUp)
  BY Zenon DEF CheckTimeout
<1> QED BY <1>2, <1>3, RemovedIsLeft, LeftIsHarmless, Zenon

LEMMA ListSteps ==
    ASSUME ServerTypes, [CoapNext]_coapVars, ~SendBeacon, ~ListBeacon, ~EndBeacons
    PROVE  Harmless
<1>1. sendlist \in NodeList /\ ServingTypes /\ ListingTypes
  BY Zenon DEF ServerTypes
<1>2. CASE UNCHANGED sendlist
  BY <1>1, <1>2, Zenon DEF Harmless, OneOf, NoneOf
<1>3. ASSUME NEW i \in DOMAIN sendlist, BecomesDue(i)
      PROVE  Harmless
  BY <1>1, <1>3, BecomesDueIsHarmless
<1>4. ASSUME NEW p \in inbox, HandleAck(p)
      PROVE  Harmless
  <2>1. sendlist' = Acknowledged(sendlist, p.id)
    BY <1>4, Zenon DEF HandleAck
  <2> QED BY <1>1, <2>1, AcknowledgedIsLeft, LeftIsHarmless, Zenon
<1>5. CASE ListAnswer
  <2>1. sendlist' = Listed(sendlist, serving) /\ serving \in NodeType /\ ~Kept(serving)
    BY <1>1, <1>5, Zenon DEF ListAnswer, ServingTypes, At
  <2> QED BY <1>1, <2>1, ListedIsHarmless
<1>6. CASE ListNotification
  <2>1. sendlist' = Listed(sendlist, listing) /\ listing \in NodeType /\ ~Kept(listing)
    BY <1>1, <1>6, Zenon DEF ListNotification, ListingTypes, At
  <2> QED BY <1>1, <2>1, ListedIsHarmless
<1>7. CASE CancelAnswer
  <2>1. sendlist' = Cancelled(sendlist, serving.id)
    BY <1>7, Zenon DEF CancelAnswer
  <2> QED BY <1>1, <2>1, CancelledIsLeft, LeftIsHarmless, Zenon
<1>8. CASE Retransmit
  BY <1>1, <1>8, RetransmitIsHarmless
<1>9. CASE CheckTimeout
  <2>1. CASE GivesUp
    BY <1>1, <1>9, <2>1, CheckTimeoutIsHarmless
  <2>2. CASE ~GivesUp
    BY <1>2, <1>9, <2>2, Zenon DEF CheckTimeout
  <2> QED BY <2>1, <2>2
<1>10. CASE \/ NotifyResponse \/ AddObserver \/ ReadTimesOut \/ ForgetObserver \/ BeginNotify
            \/ FinishNotify \/ UNCHANGED coapVars
  BY <1>2, <1>10, Zenon DEF NotifyResponse, AddObserver, ReadTimesOut, ForgetObserver, BeginNotify,
                            FinishNotify, coapVars
<1>11. ASSUME NEW p \in inbox, HandleResponse(p) \/ HandleGetWifilist(p) \/ HandleSwitchAp(p)
       PROVE  Harmless
  BY <1>2, <1>11, Zenon DEF HandleResponse, HandleGetWifilist, HandleSwitchAp
<1>12. ASSUME NEW o \in notifying, NotifyObserver(o)
       PROVE  Harmless
  BY <1>2, <1>12, Zenon DEF NotifyObserver
<1>13. ASSUME NEW m \in air, PeerAcks(m) \/ \E peer \in Peers : PeerAnswers(m, peer)
       PROVE  Harmless
  BY <1>2, <1>13, Zenon DEF PeerAcks, PeerAnswers
<1>14. ASSUME NEW peer \in Peers, NEW kind, NEW id, NEW type, PeerAsks(peer, kind, id, type)
       PROVE  Harmless
  BY <1>2, <1>14, Zenon DEF PeerAsks
<1> QED BY <1>3, <1>4, <1>5, <1>6, <1>7, <1>8, <1>9, <1>10, <1>11, <1>12, <1>13, <1>14, CoapSteps,
           Zenon

\* The multicast of __awss_devinfo_notify: the list has no other, and none once
\* its timer is stopped; between the two sections it has none at all.
BeaconInv ==
    /\ OneOf(sendlist, beacon)
    /\ At("daemon", "list beacon") =>
         NoneOf(sendlist) /\ listing.id = beacon /\ "multicast" \in jobs
    /\ "multicast" \notin jobs => NoneOf(sendlist)

\* The other steps leave the multicast alone.
LEMMA BeaconRests ==
    ASSUME LockTypes, [CoapNext]_coapVars, ~SendBeacon, ~ListBeacon, ~EndBeacons
    PROVE  /\ UNCHANGED beacon /\ ("multicast" \in jobs' <=> "multicast" \in jobs)
           /\ At("daemon", "list beacon")' => At("daemon", "list beacon") /\ UNCHANGED listing
<1> DEFINE Rests ==
             /\ UNCHANGED beacon /\ ("multicast" \in jobs' <=> "multicast" \in jobs)
             /\ pc'["daemon"] = "list beacon" => pc["daemon"] = "list beacon" /\ UNCHANGED listing
<1> SUFFICES Rests
  BY Zenon DEF At
<1>1. /\ pc \in [CoapThreads -> ServerPlaces \cup DaemonPlaces] /\ "multicast" # "notify"
      /\ "server" \in CoapThreads /\ "daemon" \in CoapThreads /\ "server" # "daemon"
  BY Zenon DEF LockTypes, CoapThreads
<1>2. CASE beacon' = beacon /\ listing' = listing /\ jobs' = jobs /\ pc'["daemon"] = pc["daemon"]
  BY <1>2, Zenon
<1>0. CASE /\ beacon' = beacon /\ listing' = listing /\ jobs' = jobs \cup {"notify"}
           /\ pc'["daemon"] = pc["daemon"]
  <2>1. "multicast" \in jobs' <=> "multicast" \in jobs
    BY <1>0
  <2> QED BY <1>0, <2>1, Zenon
<1>3. CASE NotifyResponse \/ ListAnswer \/ CancelAnswer \/ ReadTimesOut
  BY <1>1, <1>2, <1>3, Zenon DEF NotifyResponse, ListAnswer, CancelAnswer, ReadTimesOut, Goto,
                                 notes, group
<1>4. CASE AddObserver
  BY <1>0, <1>1, <1>4, Zenon DEF AddObserver, Goto, notes, group
<1>5. CASE Retransmit \/ CheckTimeout \/ ForgetObserver \/ UNCHANGED coapVars
  BY <1>1, <1>2, <1>5, Zenon DEF Retransmit, CheckTimeout, ForgetObserver, Goto, coapVars, notes,
                                 group, locks
<1>6. ASSUME NEW p \in inbox, HandleAck(p) \/ HandleResponse(p) \/ HandleSwitchAp(p)
      PROVE  Rests
  BY <1>1, <1>2, <1>6, Zenon DEF HandleAck, HandleResponse, HandleSwitchAp, Read, Goto, notes,
                                 group, locks
<1>7. ASSUME NEW p \in inbox, HandleGetWifilist(p)
      PROVE  Rests
  BY <1>0, <1>1, <1>2, <1>7, Zenon DEF HandleGetWifilist, Read, Goto, notes, group
<1>8. ASSUME NEW m \in air, PeerAcks(m) \/ \E peer \in Peers : PeerAnswers(m, peer)
      PROVE  Rests
  BY <1>2, <1>8, Zenon DEF PeerAcks, PeerAnswers, locks, notes, group
<1>9. ASSUME NEW peer \in Peers, NEW kind, NEW id, NEW type, PeerAsks(peer, kind, id, type)
      PROVE  Rests
  BY <1>2, <1>9, Zenon DEF PeerAsks, locks, notes, group
<1>10. ASSUME NEW i \in DOMAIN sendlist, BecomesDue(i)
       PROVE  Rests
  BY <1>2, <1>10, Zenon DEF BecomesDue, locks, notes, group
<1>11. CASE BeginNotify
  <2>1. beacon' = beacon /\ jobs' = jobs \ {"notify"} /\ pc'["daemon"] = "notify"
    BY <1>1, <1>11, Zenon DEF BeginNotify, Goto, group
  <2>2. "multicast" \in jobs' <=> "multicast" \in jobs
    BY <2>1
  <2> QED BY <2>1, <2>2, Zenon
<1>12. CASE ListNotification \/ FinishNotify
  <2>1. beacon' = beacon /\ jobs' = jobs /\ pc'["daemon"] # "list beacon"
    BY <1>1, <1>12, Zenon DEF ListNotification, FinishNotify, Goto, group
  <2> QED BY <2>1, Zenon
<1>13. ASSUME NEW o \in notifying, NotifyObserver(o)
       PROVE  Rests
  <2>1. beacon' = beacon /\ jobs' = jobs
    BY <1>13, Zenon DEF NotifyObserver, group
  <2>2. pc'["daemon"] # "list beacon"
    <3>1. CASE o.type = "CON"
      BY <1>1, <1>13, <3>1, Zenon DEF NotifyObserver, Goto
    <3>2. CASE o.type # "CON"
      BY <1>13, <3>2, Zenon DEF NotifyObserver, At
    <3> QED BY <3>1, <3>2, Zenon
  <2> QED BY <2>1, <2>2, Zenon
<1> HIDE DEF Rests
<1> QED BY <1>3, <1>4, <1>5, <1>6, <1>7, <1>8, <1>9, <1>10, <1>11, <1>12, <1>13, CoapSteps, Zenon

LEMMA BeaconStep ==
    ServerTypes /\ BeaconInv /\ [CoapNext]_coapVars => BeaconInv' /\ sendlist' \in NodeList
<1> SUFFICES ASSUME ServerTypes, BeaconInv, [CoapNext]_coapVars
             PROVE  BeaconInv' /\ sendlist' \in NodeList
  OBVIOUS
<1>1. LockTypes /\ ListingTypes /\ sendlist \in NodeList /\ beacon \in Nat
      /\ pc \in [CoapThreads -> ServerPlaces \cup DaemonPlaces] /\ "daemon" \in CoapThreads
  BY Zenon DEF ServerTypes, ListingTypes, LockTypes, CoapThreads
<1>2. CASE SendBeacon
  <2>1. /\ sendlist' = Cancelled(sendlist, beacon) /\ beacon' = NextId /\ UNCHANGED jobs
        /\ "multicast" \in jobs /\ listing' = Node(NextId, Group, "multicast")
    BY <1>2, Zenon DEF SendBeacon
  <2>2. /\ sendlist' \in NodeList /\ LeftOf(sendlist', sendlist)
        /\ \A i \in 1 .. Len(sendlist') : sendlist'[i].id # beacon
    BY <1>1, <2>1, CancelledIsLeft, Zenon
  <2>3. OneOf(sendlist', beacon)
    BY <2>2, LeftMulticasts, Zenon DEF BeaconInv
  <2>4. NoneOf(sendlist')
    BY <2>2, <2>3, Zenon DEF OneOf, NoneOf
  <2>5. listing'.id = beacon'
    BY <2>1 DEF Node
  <2>6. OneOf(sendlist', beacon')
    BY <2>4, Zenon DEF OneOf, NoneOf
  <2> QED BY <2>1, <2>2, <2>4, <2>5, <2>6, Zenon DEF BeaconInv
<1>3. CASE ListBeacon
  <2>1. /\ sendlist' = Listed(sendlist, listing) /\ UNCHANGED <<beacon, jobs>>
        /\ pc["daemon"] = "list beacon" /\ pc'["daemon"] = "idle"
    BY <1>1, <1>3, Zenon DEF ListBeacon, At, Goto, group
  <2>2. NoneOf(sendlist) /\ listing.id = beacon /\ "multicast" \in jobs /\ listing \in NodeType
    BY <1>1, <2>1, Zenon DEF BeaconInv, ListingTypes, At
  <2>3. sendlist' \in NodeList /\ OneOf(sendlist', beacon)
    BY <1>1, <2>1, <2>2, ListedFacts, ListedMulticasts, Zenon
  <2> QED BY <2>1, <2>2, <2>3, Zenon DEF BeaconInv, At
<1>4. CASE EndBeacons
  <2>1. /\ sendlist' = Cancelled(sendlist, beacon) /\ UNCHANGED pc /\ pc["daemon"] = "idle"
    BY <1>4, Zenon DEF EndBeacons, locks, At
  <2>2. /\ sendlist' \in NodeList /\ LeftOf(sendlist', sendlist)
        /\ \A i \in 1 .. Len(sendlist') : sendlist'[i].id # beacon
    BY <1>1, <2>1, CancelledIsLeft, Zenon
  <2>3. OneOf(sendlist', beacon)
    BY <2>2, LeftMulticasts, Zenon DEF BeaconInv
  <2>4. NoneOf(sendlist')
    BY <2>2, <2>3, Zenon DEF OneOf, NoneOf
  <2>5. OneOf(sendlist', beacon')
    BY <2>4, Zenon DEF OneOf, NoneOf
  <2> QED BY <2>1, <2>2, <2>4, <2>5, Zenon DEF BeaconInv, At
<1>5. CASE ~SendBeacon /\ ~ListBeacon /\ ~EndBeacons
  <2>1. Harmless
    BY <1>5, ListSteps
  <2>2. /\ UNCHANGED beacon /\ ("multicast" \in jobs' <=> "multicast" \in jobs)
        /\ At("daemon", "list beacon")' => At("daemon", "list beacon") /\ UNCHANGED listing
    BY <1>1, <1>5, BeaconRests
  <2>3. sendlist' \in NodeList /\ OneOf(sendlist', beacon')
    BY <1>1, <2>1, <2>2, Zenon DEF Harmless, BeaconInv
  <2> QED BY <2>1, <2>2, <2>3, Zenon DEF Harmless, BeaconInv
<1> QED BY <1>2, <1>3, <1>4, <1>5

ServerInv == ServerTypes /\ BeaconInv

LEMMA ServerInit == CoapInit => ServerInv
<1> SUFFICES ASSUME CoapInit PROVE ServerInv
  OBVIOUS
<1>1. pc = [t \in CoapThreads |-> IF t = "server" THEN "read" ELSE "idle"]
  BY Zenon DEF CoapInit
<1>2. pc["server"] = "read" /\ pc["daemon"] = "idle"
  BY <1>1, Zenon DEF CoapThreads
<1>3. pc \in [CoapThreads -> ServerPlaces \cup DaemonPlaces]
  BY <1>1, Zenon DEF CoapThreads, ServerPlaces, DaemonPlaces
<1>4. LockTypes
  BY <1>2, <1>3, Zenon DEF LockTypes, CoapInit, At, ServerPlaces, DaemonPlaces, Nobody
<1>5. ObserverTypes
  <2>1. IsFiniteSet({}) /\ Cardinality({}) = 0
    BY FS_EmptySet
  <2>2. 0 <= MaxObs
    BY CoapServerAssumption
  <2>3. observers = {}
    BY Zenon DEF CoapInit
  <2> QED BY <2>1, <2>2, <2>3, Zenon DEF ObserverTypes
<1>6. PhoneTypes /\ ServingTypes
  BY <1>2, Zenon DEF CoapInit, PhoneTypes, ServingTypes, At
<1>7. ListingTypes
  <2>1. 0 \in 0 .. Len(OwnIds) /\ 0 \in Nat
    BY CoapServerAssumption, LenProperties
  <2> QED BY <1>2, <2>1, Zenon DEF CoapInit, ListingTypes, At
<1>8. sendlist \in NodeList /\ NoneOf(sendlist)
  <2>1. sendlist = <<>> /\ Len(sendlist) = 0
    BY DEF CoapInit
  <2>2. 0 <= MaxSend /\ <<>> \in Seq(NodeType)
    BY CoapServerAssumption
  <2>3. \A i \in 1 .. 0 : FALSE
    OBVIOUS
  <2> QED BY <2>1, <2>2, <2>3, Zenon DEF NodeList, NoneOf
<1>9. BeaconInv
  BY <1>2, <1>8, Zenon DEF BeaconInv, OneOf, NoneOf, At
<1> QED BY <1>4, <1>5, <1>6, <1>7, <1>8, <1>9, Zenon DEF ServerInv, ServerTypes

LEMMA ServerInvariant == CoapSpec => []ServerInv
<1>1. ServerInv /\ [CoapNext]_coapVars => ServerInv'
  BY LockStep, ObserverStep, PhoneStep, ServingStep, ListingStep, BeaconStep, Zenon
     DEF ServerInv, ServerTypes
<1> QED BY <1>1, ServerInit, PTL DEF CoapSpec

(***************************************************************************)
(* The variables keep their types: the lists stay within their limits, and *)
(* a mutex is held only by the thread that is between its lock and unlock. *)
(***************************************************************************)
THEOREM CoapTypeInvariant == CoapSpec => []CoapTypeOK
<1>1. ServerInv => CoapTypeOK
  <2> SUFFICES ASSUME ServerInv PROVE CoapTypeOK
    OBVIOUS
  <2>1. /\ sendlist \in Seq(NodeType) /\ Len(sendlist) <= MaxSend
        /\ observers \subseteq [peer : Peers, type : ObserveTypes]
        /\ Cardinality(observers) <= MaxObs
        /\ owner \in [{"send", "obs"} -> CoapThreads \cup {Nobody}]
    BY Zenon DEF ServerInv, ServerTypes, NodeList, ObserverTypes, Observers, LockTypes
  <2>2. /\ owner["send"] = IF At("server", "forget") THEN "server" ELSE Nobody
        /\ owner["obs"] = IF pc["daemon"] \in {"notify", "list notification"} THEN "daemon"
                          ELSE Nobody
    BY Zenon DEF ServerInv, ServerTypes, LockTypes
  <2>3. Nobody # "server" /\ Nobody # "daemon"
    BY DEF Nobody
  <2> QED BY <2>1, <2>2, <2>3, Zenon DEF CoapTypeOK
<1> QED BY <1>1, ServerInvariant, PTL

(***************************************************************************)
(* __awss_devinfo_notify cancels the multicast before it sends the next,   *)
(* and the last when it ends: as nothing else takes a kept message from    *)
(* the list, they would fill it and lock every answer out.                 *)
(***************************************************************************)
MulticastsDoNotPileUp ==
    LET lasting == {i \in DOMAIN sendlist : Kept(sendlist[i])}
    IN  /\ \A i, j \in lasting : i = j
        /\ "multicast" \notin jobs => lasting = {}

THEOREM MulticastsStayFew == CoapSpec => []MulticastsDoNotPileUp
<1>1. ServerInv => MulticastsDoNotPileUp
  <2> SUFFICES ASSUME ServerInv PROVE MulticastsDoNotPileUp
    OBVIOUS
  <2>1. DOMAIN sendlist = 1 .. Len(sendlist)
    BY LenProperties DEF ServerInv, ServerTypes, NodeList
  <2> QED BY <2>1, Zenon DEF ServerInv, BeaconInv, OneOf, NoneOf, MulticastsDoNotPileUp
<1> QED BY <1>1, ServerInvariant, PTL

\* While the daemon notifies, and only then, the observers are locked; no step
\* but its own changes who is still to be notified.
Notifies == pc["daemon"] \in {"notify", "list notification"}

LEMMA NotifyingRests ==
    ASSUME LockTypes, [CoapNext]_coapVars, ~BeginNotify,
           \A o \in notifying : ~NotifyObserver(o)
    PROVE  UNCHANGED notifying /\ (Notifies' => Notifies)
<1> DEFINE Rests ==
             /\ notifying' = notifying
             /\ pc'["daemon"] \in {"notify", "list notification"} =>
                  pc["daemon"] \in {"notify", "list notification"}
<1> SUFFICES Rests
  BY Zenon DEF Notifies
<1>1. /\ pc \in [CoapThreads -> ServerPlaces \cup DaemonPlaces]
      /\ "server" \in CoapThreads /\ "daemon" \in CoapThreads /\ "server" # "daemon"
  BY Zenon DEF LockTypes, CoapThreads
<1>2. CASE notifying' = notifying /\ pc'["daemon"] = pc["daemon"]
  BY <1>2, Zenon
<1>3. CASE NotifyResponse \/ AddObserver \/ ListAnswer \/ CancelAnswer \/ ReadTimesOut
  BY <1>1, <1>2, <1>3, Zenon DEF NotifyResponse, AddObserver, ListAnswer, CancelAnswer,
                                 ReadTimesOut, Goto, notes
<1>4. CASE Retransmit \/ CheckTimeout \/ ForgetObserver \/ EndBeacons \/ UNCHANGED coapVars
  BY <1>1, <1>2, <1>4, Zenon DEF Retransmit, CheckTimeout, ForgetObserver, EndBeacons, Goto,
                                 coapVars, notes, locks
<1>5. CASE SendBeacon \/ ListBeacon
  <2>1. notifying' = notifying /\ pc'["daemon"] \in {"idle", "list beacon"}
    BY <1>1, <1>5, Zenon DEF SendBeacon, ListBeacon, Goto
  <2> QED BY <2>1, Zenon
<1>6. CASE ListNotification \/ FinishNotify
  BY <1>6, Zenon DEF ListNotification, FinishNotify, At, notes
<1>7. ASSUME NEW p \in inbox, \/ HandleAck(p) \/ HandleResponse(p)
                              \/ HandleGetWifilist(p) \/ HandleSwitchAp(p)
      PROVE  Rests
  BY <1>1, <1>2, <1>7, Zenon DEF HandleAck, HandleResponse, HandleGetWifilist, HandleSwitchAp,
                                 Goto, notes, locks
<1>8. ASSUME NEW m \in air, PeerAcks(m) \/ \E peer \in Peers : PeerAnswers(m, peer)
      PROVE  Rests
  BY <1>2, <1>8, Zenon DEF PeerAcks, PeerAnswers, locks, notes
<1>9. ASSUME NEW peer \in Peers, NEW kind, NEW id, NEW type, PeerAsks(peer, kind, id, type)
      PROVE  Rests
  BY <1>2, <1>9, Zenon DEF PeerAsks, locks, notes
<1>10. ASSUME NEW i \in DOMAIN sendlist, BecomesDue(i)
       PROVE  Rests
  BY <1>2, <1>10, Zenon DEF BecomesDue, locks, notes
<1> QED BY <1>3, <1>4, <1>5, <1>6, <1>7, <1>8, <1>9, <1>10, CoapSteps, Zenon

(***************************************************************************)
(* CoAPObsServer_notify goes through the list of observers and sends in    *)
(* between: who is still to be notified is in the list until then, as long *)
(* as the mutex keeps the server's thread from adding and forgetting.      *)
(***************************************************************************)
NotifiedAreObservers == Notifies => notifying \subseteq observers

THEOREM NotifiedStayObservers == CoapSpec => []NotifiedAreObservers
<1>1. CoapInit => NotifiedAreObservers
  BY Zenon DEF CoapInit, NotifiedAreObservers
<1>2. ServerInv /\ NotifiedAreObservers /\ [CoapNext]_coapVars => NotifiedAreObservers'
  <2> SUFFICES ASSUME ServerInv, NotifiedAreObservers, [CoapNext]_coapVars
               PROVE  NotifiedAreObservers'
    OBVIOUS
  <2>1. LockTypes
    BY Zenon DEF ServerInv, ServerTypes
  <2>2. CASE BeginNotify
    BY <2>2, Zenon DEF BeginNotify, NotifiedAreObservers
  <2>3. ASSUME NEW o \in notifying, NotifyObserver(o)
        PROVE  NotifiedAreObservers'
    <3>1. Notifies /\ notifying' = notifying \ {o} /\ observers' = observers
      BY <2>3, Zenon DEF NotifyObserver, Notifies, At
    <3> QED BY <3>1, Zenon DEF NotifiedAreObservers
  <2>4. CASE ~BeginNotify /\ \A o \in notifying : ~NotifyObserver(o)
    <3>1. UNCHANGED notifying /\ (Notifies' => Notifies)
      BY <2>1, <2>4, NotifyingRests
    <3>2. CASE AddObserver \/ ForgetObserver
      <4>1. ~Notifies
        BY <2>1, <3>2, Zenon DEF AddObserver, ForgetObserver, Free, LockTypes, Notifies, Nobody
      <4> QED BY <3>1, <4>1, Zenon DEF NotifiedAreObservers
    <3>3. CASE ~AddObserver /\ ~ForgetObserver
      BY <3>1, <3>3, ObserversRest, Zenon DEF NotifiedAreObservers
    <3> QED BY <3>2, <3>3
  <2> QED BY <2>2, <2>3, <2>4
<1> QED BY <1>1, <1>2, ServerInvariant, PTL DEF CoapSpec

-----------------------------------------------------------------------------
(* Who waits for whom.                                                      *)

\* The mutex that the next step of a thread takes, if it takes one.
Wanted(thread) ==
    {m \in {"send", "obs"} :
        \/ /\ m = "send"
           /\ \/ thread = "server" /\ pc[thread] \in {"answering", "waiting", "resend", "check"}
              \/ thread = "daemon" /\ pc[thread] \in {"list beacon", "list notification"}
        \/ /\ m = "obs"
           /\ thread = "server" /\ pc[thread] \in {"observe", "forget"}}
Blocked(thread) == \E m \in Wanted(thread) : ~Free(m)

(***************************************************************************)
(* A thread that is blocked waits for the other one, never for itself; and *)
(* the two wait for each other only where CoAPMessage.c and CoAPObserve.c  *)
(* lock the two lists crosswise.                                           *)
(***************************************************************************)
BlockedOnlyCrossed ==
    /\ \A t \in CoapThreads : \A m \in Wanted(t) : owner[m] # t
    /\ (\A t \in CoapThreads : Blocked(t)) => Crossed

THEOREM BlocksOnlyCrossed == CoapSpec => []BlockedOnlyCrossed
<1>1. LockTypes => BlockedOnlyCrossed
  <2> SUFFICES ASSUME LockTypes PROVE BlockedOnlyCrossed
    OBVIOUS
  <2>1. ASSUME NEW t \in CoapThreads, NEW m \in Wanted(t)
        PROVE  owner[m] # t
    BY Zenon DEF LockTypes, Wanted, CoapThreads, Nobody, At
  <2>2. ASSUME Blocked("server"), Blocked("daemon")
        PROVE  Crossed
    <3>1. PICK m \in Wanted("daemon") : ~Free(m)
      BY <2>2, Zenon DEF Blocked
    <3>2. m = "send" /\ ~Free("send") /\ pc["daemon"] \in {"list beacon", "list notification"}
      BY <3>1, Zenon DEF Wanted
    <3>3. At("server", "forget")
      BY <3>2, Zenon DEF LockTypes, Free
    <3>4. PICK n \in Wanted("server") : ~Free(n)
      BY <2>2, Zenon DEF Blocked
    <3>5. ~Free("obs")
      BY <3>3, <3>4, Zenon DEF Wanted, At
    <3>6. pc["daemon"] \in {"notify", "list notification"}
      BY <3>5, Zenon DEF LockTypes, Free
    <3> QED BY <3>2, <3>3, <3>6, Zenon DEF Crossed, At
  <2> QED BY <2>1, <2>2, Zenon DEF BlockedOnlyCrossed, CoapThreads
<1> QED BY <1>1, ServerInvariant, PTL DEF ServerInv, ServerTypes

=============================================================================

------------------------------- MODULE DevBind -------------------------------
(***************************************************************************)
(* Binding a device to its user (dev_bind/impl/awss_report.c,              *)
(* awss_notify.c, awss_bind.c).  The device makes a random token, reports  *)
(* it to the cloud over MQTT, waits for the reply, and then tells it to    *)
(* the phone over CoAP: by a multicast it repeats, or in the answer to a   *)
(* request.  The phone shows the token to the cloud, which binds the two.  *)
(*                                                                         *)
(* Four threads share the variables: the daemon of the timers, the thread  *)
(* of the CoAP server, the one that yields to MQTT, and the application's  *)
(* that closes (the last two never run at once and are "app" here).  Only  *)
(* the notification has a lock, and it is made, destroyed and tested for   *)
(* on the way.  A handler is cut where it publishes, locks, sends or       *)
(* cancels over CoAP, and between a decision and the stop of a timer that  *)
(* follows from it.  The token is not kept as a value: "published" says    *)
(* whether the current one was ever sent.  Every timer is one-shot.        *)
(***************************************************************************)
EXTENDS Naturals

CONSTANTS
    ReportMax,   \* MATCH_REPORT_CNT_MAX
    NotifyMax,   \* AWSS_NOTIFY_CNT_MAX
    IdMod,       \* the values of awss_report_id, a char
    Wraps,       \* "yes" if it wraps around, "no" for behaviours too short for that
    MaxConnects, \* bound: connections in a behaviour
    MaxAnswers,  \* bound: answers of phones to the multicasts in a behaviour
    MaxCloses    \* bound: calls of awss_bind_deinit in a behaviour

ASSUME BoundsAssumption == ReportMax \in Nat /\ NotifyMax \in Nat \ {0}
                          /\ MaxConnects \in Nat /\ MaxAnswers \in Nat /\ MaxCloses \in Nat
ASSUME IdAssumption == IdMod \in Nat /\ IdMod > 1 /\ Wraps \in {"yes", "no"}

VARIABLES
    published,     \* was the token, aes_random, sent to the cloud?
    suc,           \* awss_report_token_suc
    cnt,           \* awss_report_token_cnt
    reportId,      \* awss_report_id, the id of the next report
    tokenTime,     \* awss_report_token_time: 0, less than 45 s ago, or more
    reportTimer,   \* report_token_timer
    reports,       \* ages of the reports on their way: 1 is the last one made
    replies,       \* ages of the reports whose replies are on their way
    packet,        \* per thread: the age of the report it is publishing, or 0
    telling,       \* the threads that are publishing the current token
    resp,          \* awss_notify_resp
    bindCnt,       \* dev_bind_cnt
    notifyTimer,   \* dev_bind_notify_timer
    mutex,         \* dev_bind_notify_mutex: "none", "free", or the thread that holds it
    msgId,         \* does g_notify_msg_id name the last multicast, or is it 0?
    kept,          \* is the last multicast kept in the list of the CoAP server?
    orphans,       \* is one kept there that g_notify_msg_id no longer names?
    server,        \* g_coap_ctx: none, without resources, or with them
    session,       \* coap_session_ctx: a request that waits for its answer
    devinfoTimer,  \* get_devinfo_timer
    online,        \* connected to the cloud
    daemon, coap, app,   \* where the threads are
    job,           \* what "app" stops the notification for
    connects, answers, closes,
    \* history
    cleared,       \* was suc cleared after the daemon saw it set?
    overlapped,    \* were two threads inside the section of the mutex at once?
    crossed        \* timers that were started while another thread was about to stop them

ids == <<reportId, reports, replies, packet>>
token == <<published, telling, suc, cnt, tokenTime, cleared>>
report == <<ids, token, reportTimer>>
multicast == <<msgId, kept, orphans>>
notify == <<resp, bindCnt, notifyTimer, mutex, multicast, overlapped>>
devinfo == <<session, devinfoTimer>>
bounds == <<connects, answers, closes>>
world == <<server, online>>
vars == <<report, notify, devinfo, world, daemon, coap, app, job, bounds, crossed>>

YesNo == {"yes", "no"}
Timer == {"none", "armed", "fired"}
Ages == 1 .. IdMod \div 2   \* a message arrives before it is older, or never
Threads == {"daemon", "coap", "app"}

TypeOK ==
    /\ {published, msgId, kept, orphans, online, cleared, overlapped} \subseteq YesNo
    /\ suc \in {0, 1} /\ resp \in {0, 1}
    /\ cnt \in 0 .. ReportMax + 2 /\ reportId \in 0 .. IdMod - 1
    /\ tokenTime \in {"never", "fresh", "old"}
    /\ {reportTimer, notifyTimer, devinfoTimer} \subseteq Timer
    /\ reports \subseteq Ages /\ replies \subseteq Ages
    /\ packet \in [Threads -> Ages \cup {0}] /\ telling \subseteq Threads
    /\ bindCnt \in 0 .. NotifyMax + 1
    /\ mutex \in {"none", "free", "daemon", "app"}
    /\ server \in {"none", "bare", "ready"} /\ session \in {"none", "waiting"}
    /\ daemon \in {"idle", "publishing", "locking", "lost", "stuck", "sending", "ending",
                   "answering", "answered"}
    /\ coap \in {"idle", "publishing", "stuck"}
    /\ app \in {"idle", "replying", "publishing", "stopping", "locking", "lost", "stuck",
                "cancelling", "cancelled", "stopped"}
    /\ job \in {"none", "connect", "close", "reclose"}
    /\ crossed \subseteq {"report", "devinfo"}
    /\ connects \in 0 .. MaxConnects /\ answers \in 0 .. MaxAnswers /\ closes \in 0 .. MaxCloses

Init ==
    /\ published = "no" /\ suc = 0 /\ cnt = 0 /\ reportId = 0
    /\ tokenTime = "never" /\ reportTimer = "none" /\ reports = {} /\ replies = {}
    /\ packet = [t \in Threads |-> 0] /\ telling = {}
    /\ resp = 0 /\ bindCnt = 0 /\ notifyTimer = "none" /\ mutex = "none"
    /\ msgId = "no" /\ kept = "no" /\ orphans = "no" /\ server = "none"
    /\ session = "none" /\ devinfoTimer = "none" /\ online = "no"
    /\ daemon = "idle" /\ coap = "idle" /\ app = "idle" /\ job = "none"
    /\ connects = 0 /\ answers = 0 /\ closes = 0
    /\ cleared = "no" /\ overlapped = "no" /\ crossed = {}

-----------------------------------------------------------------------------
(* awss_report.c                                                            *)

\* awss_token_timeout
TokenTimeout == tokenTime # "fresh"

\* A report gets the next id, and every message on its way is one report older.
TakeId ==
    reportId' = IF reportId + 1 < IdMod THEN reportId + 1
                ELSE IF Wraps = "yes" THEN 0 ELSE reportId
Older(ages) == {a \in Ages : a - 1 \in ages}

\* Does the daemon act on a suc it has already read?
DaemonChecked == daemon \in {"locking", "lost"}

\* suc is cleared and a timer armed that awss_report_token_reply may be about to stop.
ClearSuc ==
    /\ suc' = 0
    /\ cleared' = IF DaemonChecked THEN "yes" ELSE cleared
    /\ crossed' = IF app = "replying" THEN crossed \cup {"report"} ELSE crossed \ {"report"}

\* awss_report_token_to_cloud, in thread t, up to the publish.
MakeReport(t, c) ==
    /\ cnt' = c + 1
    /\ reportTimer' = "armed"
    /\ tokenTime' = "fresh"
    /\ TakeId
    /\ reports' = Older(reports) /\ replies' = Older(replies)
    /\ packet' = [u \in Threads |-> IF u = t THEN 1
                                     ELSE IF packet[u] + 1 \in Ages /\ packet[u] # 0
                                          THEN packet[u] + 1 ELSE 0]

\* The publish returns; it fails without a connection, and may with one.
Publish(t) ==
    /\ \/ /\ online = "yes"
          /\ reports' = reports \cup ({packet[t]} \cap Ages)
          /\ published' = IF t \in telling THEN "yes" ELSE published
       \/ UNCHANGED <<reports, published>>
    /\ packet' = [packet EXCEPT ![t] = 0]
    /\ telling' = telling \ {t}
    /\ UNCHANGED <<reportId, replies, suc, cnt, tokenTime, cleared, reportTimer>>

\* awss_report_token of a new token, or of the one there is, up to the publish.
ReportNewToken(t) ==
    /\ published' = "no" /\ telling' = {t}
    /\ ClearSuc /\ MakeReport(t, 0)
ReportToken(t) ==
    /\ telling' = telling \cup {t}
    /\ ClearSuc /\ MakeReport(t, 0)
    /\ UNCHANGED published

\* awss_update_token: a new token, reported 10 ms later.
UpdateToken ==
    /\ published' = "no" /\ telling' = {} /\ cnt' = 0
    /\ tokenTime' = "never" /\ reportTimer' = "armed"
    /\ ClearSuc
    /\ UNCHANGED ids

\* awss_report_token_to_cloud, run by its timer.
ReportTimerFires ==
    /\ daemon = "idle" /\ reportTimer = "armed"
    /\ \/ /\ suc = 1
          /\ reportTimer' = "fired"
          /\ UNCHANGED <<cnt, tokenTime, telling, ids, daemon>>
       \/ /\ suc = 0 /\ cnt > ReportMax     \* the reports are given up
          /\ reportTimer' = "none" /\ cnt' = cnt + 1
          /\ UNCHANGED <<tokenTime, telling, ids, daemon>>
       \/ /\ suc = 0 /\ cnt <= ReportMax
          /\ MakeReport("daemon", cnt)
          /\ telling' = telling \cup {"daemon"}
          /\ daemon' = "publishing"
    /\ UNCHANGED <<published, suc, cleared, notify, devinfo, world, coap, app, job, bounds, crossed>>

DaemonPublished ==
    /\ daemon = "publishing" /\ daemon' = "idle"
    /\ Publish("daemon")
    /\ UNCHANGED <<notify, devinfo, world, coap, app, job, bounds, crossed>>

\* Mutant: the reply to any report will do.
ReplyToAnyReport(a) ==
    /\ app = "idle" /\ a \in replies
    /\ replies' \in {replies, replies \ {a}}
    /\ suc' = 1 /\ app' = "replying"
    /\ UNCHANGED <<reportId, reports, packet, published, telling, cnt, tokenTime, cleared,
                   reportTimer, notify, devinfo, world, daemon, coap, job, bounds, crossed>>

\* awss_report_token_reply, of the report of age a; the message may come again.
Reply(a) ==
    /\ app = "idle" /\ a \in replies
    /\ replies' \in {replies, replies \ {a}}
    /\ IF ((reportId + IdMod - a) % IdMod) + 1 < reportId
       THEN UNCHANGED <<suc, app>>
       ELSE suc' = 1 /\ app' = "replying"
    /\ UNCHANGED <<reportId, reports, packet, published, telling, cnt, tokenTime, cleared,
                   reportTimer, notify, devinfo, world, daemon, coap, job, bounds, crossed>>

\* Its end: the timer is stopped, whoever has armed it since.
StopReportTimer ==
    /\ app = "replying" /\ app' = "idle"
    /\ reportTimer' = "none"
    /\ UNCHANGED <<ids, token, notify, devinfo, world, daemon, coap, job, bounds, crossed>>

\* 45 seconds pass since the last report.
Expire ==
    /\ tokenTime = "fresh"
    /\ tokenTime' = "old"
    /\ UNCHANGED <<ids, published, telling, suc, cnt, cleared, reportTimer, notify, devinfo,
                   world, daemon, coap, app, job, bounds, crossed>>

\* The cloud answers a report, or the report is lost.
CloudReplies(a) ==
    /\ a \in reports
    /\ reports' = reports \ {a}
    /\ replies' \in {replies, replies \cup {a}}
    /\ UNCHANGED <<reportId, packet, token, reportTimer, notify, devinfo, world, daemon, coap,
                   app, job, bounds, crossed>>

-----------------------------------------------------------------------------
(* awss_notify.c: __awss_dev_bind_notify, in the daemon                     *)

\* The section of the mutex, in the two that enter it.
DaemonInside == daemon \in {"sending", "ending"}
AppInside == app \in {"cancelling", "cancelled"}
Overlaps(other) == overlapped' = IF other THEN "yes" ELSE overlapped

\* HAL_MutexDestroy: what a thread that waits for the mutex does now is undefined.
DestroyMutex == mutex' = "none"
Bereave(pc) == IF pc = "locking" THEN "lost" ELSE pc

\* Run by its timer.  Without a reply of the cloud it only arms its timer
\* again; else it makes the mutex, if there is none, and waits for it.
NotifyTimerFires ==
    /\ daemon = "idle" /\ notifyTimer = "armed" /\ suc = 1
    /\ notifyTimer' = "fired"
    /\ mutex' = IF mutex = "none" THEN "free" ELSE mutex
    /\ cleared' = "no"
    /\ daemon' = "locking"
    /\ UNCHANGED <<ids, published, telling, suc, cnt, tokenTime, reportTimer, resp, bindCnt,
                   multicast, overlapped, devinfo, world, coap, app, job, bounds, crossed>>

\* Inside: an answer, or the count, ends it; a token that is too old is not
\* told; else the message is made, the last one cancelled, and g_notify_msg_id
\* names the new one before it is listed.
Notify ==
    /\ \/ /\ resp = 1 \/ (TokenTimeout /\ bindCnt >= NotifyMax)
          /\ daemon' = "ending" /\ Overlaps(AppInside)
          /\ UNCHANGED <<notifyTimer, multicast>>
       \/ /\ resp = 0 /\ TokenTimeout /\ bindCnt < NotifyMax
          /\ daemon' = "idle" /\ notifyTimer' = "armed"
          /\ UNCHANGED <<multicast, overlapped>>
       \/ /\ resp = 0 /\ ~TokenTimeout
          /\ daemon' = "sending" /\ Overlaps(AppInside)
          /\ kept' = IF msgId = "yes" THEN "no" ELSE kept
          /\ msgId' = "yes"
          /\ UNCHANGED <<notifyTimer, orphans>>
    /\ UNCHANGED <<report, resp, bindCnt, devinfo, world, coap, app, job, bounds, crossed>>

\* HAL_MutexLock; a notification that only arms its timer gives it back at once.
LockAndNotify ==
    /\ daemon = "locking" /\ mutex = "free"
    /\ Notify
    /\ mutex' = IF daemon' = "idle" THEN "free" ELSE "daemon"

\* The mutex was destroyed under it: it goes on without, or waits for ever.
NotifyUnlocked ==
    /\ daemon = "lost"
    /\ UNCHANGED mutex
    /\ \/ Notify
       \/ /\ daemon' = "stuck"
          /\ UNCHANGED <<report, resp, bindCnt, notifyTimer, multicast, overlapped, devinfo,
                         world, coap, app, job, bounds, crossed>>

\* The rest of awss_notify_dev_info: sent and listed; then the timer is armed
\* for the next one, unless this was the last.
SendNotify ==
    /\ daemon = "sending"
    /\ IF msgId = "yes" THEN kept' = "yes" /\ UNCHANGED orphans
                        ELSE orphans' = "yes" /\ UNCHANGED kept
    /\ bindCnt' = bindCnt + 1
    /\ server' = IF server = "none" THEN "bare" ELSE server
    /\ IF bindCnt + 1 < NotifyMax /\ resp = 0
       THEN /\ notifyTimer' = "armed"
            /\ mutex' = IF mutex = "daemon" THEN "free" ELSE mutex
            /\ daemon' = "idle"
       ELSE /\ daemon' = "ending"
            /\ UNCHANGED <<notifyTimer, mutex>>
    /\ UNCHANGED <<report, resp, msgId, overlapped, devinfo, online, coap, app, job, bounds, crossed>>

\* Mutant: the last multicast is left in the list.
EndNotifyKeeps ==
    /\ daemon = "ending" /\ daemon' = "idle"
    /\ resp' = 0 /\ bindCnt' = 0 /\ notifyTimer' = "none"
    /\ DestroyMutex /\ app' = Bereave(app)
    /\ UNCHANGED <<report, multicast, overlapped, devinfo, world, coap, job, bounds, crossed>>

\* Its end: the multicast is cancelled, the mutex given back and destroyed.
EndNotify ==
    /\ daemon = "ending" /\ daemon' = "idle"
    /\ kept' = IF msgId = "yes" THEN "no" ELSE kept
    /\ msgId' = "no"
    /\ resp' = 0 /\ bindCnt' = 0 /\ notifyTimer' = "none"
    /\ DestroyMutex /\ app' = Bereave(app)
    /\ UNCHANGED <<report, orphans, overlapped, devinfo, world, coap, job, bounds, crossed>>

-----------------------------------------------------------------------------
(* awss_notify.c: answers and requests of phones, in the thread of CoAP     *)

\* awss_dev_bind_notify_resp: the phone answers a multicast that is kept.
BindResponse ==
    /\ coap = "idle" /\ server # "none" /\ "yes" \in {kept, orphans}
    /\ answers < MaxAnswers
    /\ answers' = answers + 1
    /\ resp' = 1
    /\ UpdateToken
    /\ UNCHANGED <<bindCnt, notifyTimer, mutex, multicast, overlapped, devinfo, world, daemon,
                   coap, app, job, connects, closes>>

\* online_get_device_info arms get_devinfo_timer, which awss_process_get_devinfo
\* may be about to stop.
ArmDevinfoTimer ==
    /\ devinfoTimer' = "armed"
    /\ crossed' = IF daemon = "answered" THEN crossed \cup {"devinfo"} ELSE crossed

\* "If cloud is not ready, don't response token"; "if the last one is not
\* finished, drop current request".  An old token is replaced and reported first.
GetDeviceInfo ==
    /\ coap = "idle" /\ server = "ready"
    /\ cnt # 0 /\ session = "none"
    /\ session' = "waiting"
    /\ \/ /\ TokenTimeout
          /\ ReportNewToken("coap")
          /\ coap' = "publishing"
          /\ UNCHANGED devinfoTimer
       \/ /\ ~TokenTimeout
          /\ ArmDevinfoTimer
          /\ UNCHANGED <<report, coap>>
    /\ UNCHANGED <<notify, world, daemon, app, job, bounds>>

NewTokenPublished ==
    /\ coap = "publishing" /\ coap' = "idle"
    /\ Publish("coap")
    /\ ArmDevinfoTimer
    /\ UNCHANGED <<notify, session, world, daemon, app, job, bounds>>

-----------------------------------------------------------------------------
(* awss_notify.c: awss_process_get_devinfo, in the daemon                   *)

\* Run by its timer; until the cloud has replied it only arms its timer again.
\* The token is put into the answer, and replaced.
AnswerDeviceInfo ==
    /\ daemon = "idle" /\ devinfoTimer = "armed" /\ suc = 1
    /\ devinfoTimer' = "fired"
    /\ \/ /\ session = "none"
          /\ UNCHANGED <<report, daemon, crossed>>
       \/ /\ session = "waiting"
          /\ UpdateToken
          /\ daemon' = "answering"
    /\ UNCHANGED <<notify, session, world, coap, app, job, bounds>>

\* Mutant: the session of an answered request is not released.
AnswerKeepsSession ==
    /\ daemon = "answering" /\ daemon' = "answered"
    /\ UNCHANGED <<report, notify, session, devinfoTimer, world, coap, app, job, bounds, crossed>>

\* awss_cmp_coap_send_resp, and coap_session_ctx is NULL again.
SendAnswer ==
    /\ daemon = "answering" /\ daemon' = "answered"
    /\ server' = IF server = "none" THEN "bare" ELSE server
    /\ session' = "none"
    /\ UNCHANGED <<report, notify, devinfoTimer, online, coap, app, job, bounds, crossed>>

\* Its end: the timer is stopped, even if a request has armed it since.
StopDevinfoTimer ==
    /\ daemon = "answered" /\ daemon' = "idle"
    /\ devinfoTimer' = "none"
    /\ UNCHANGED <<report, notify, session, world, coap, app, job, bounds, crossed>>

-----------------------------------------------------------------------------
(* awss_bind.c, in the thread that yields or the one that closes            *)

\* awss_report_cloud, on every new connection: awss_report_token,
\* awss_dev_bind_notify_stop, awss_dev_bind_notify.
ReportCloud ==
    /\ app = "idle" /\ connects < MaxConnects
    /\ connects' = connects + 1
    /\ online' = "yes"
    /\ ReportToken("app")
    /\ app' = "publishing" /\ job' = "connect"
    /\ UNCHANGED <<notify, devinfo, server, daemon, coap, answers, closes>>

\* The publish returns, and awss_cmp_local_init registers the resources.
CloudReported ==
    /\ app = "publishing" /\ app' = "stopping"
    /\ Publish("app")
    /\ server' = "ready"
    /\ UNCHANGED <<notify, devinfo, online, daemon, coap, job, bounds, crossed>>

\* awss_bind_deinit, once the MQTT client is closed: awss_stop_report_token
\* forgets the token; the notification is stopped twice.
Deinit ==
    /\ app = "idle" /\ online = "yes" /\ closes < MaxCloses
    /\ closes' = closes + 1
    /\ online' = "no"
    /\ reports' = {} /\ replies' = {}
    /\ reportTimer' = "none" /\ published' = "no" /\ telling' = {}
    /\ app' = "stopping" /\ job' = "close"
    /\ UNCHANGED <<reportId, packet, suc, cnt, tokenTime, cleared, notify, devinfo, server,
                   daemon, coap, connects, answers, crossed>>

\* awss_dev_bind_notify_stop: the mutex is locked if there is one.
StopNotify ==
    /\ app = "stopping"
    /\ IF mutex = "none"
       THEN app' = "cancelling" /\ Overlaps(DaemonInside)
       ELSE app' = "locking" /\ UNCHANGED overlapped
    /\ UNCHANGED <<report, resp, bindCnt, notifyTimer, mutex, multicast, devinfo, world, daemon,
                   coap, job, bounds, crossed>>

LockToStop ==
    /\ \/ /\ app = "locking" /\ mutex = "free"
          /\ mutex' = "app" /\ app' = "cancelling"
       \/ /\ app = "lost"
          /\ app' \in {"cancelling", "stuck"}
          /\ UNCHANGED mutex
    /\ Overlaps(app' = "cancelling" /\ DaemonInside)
    /\ UNCHANGED <<report, resp, bindCnt, notifyTimer, multicast, devinfo, world, daemon, coap,
                   job, bounds, crossed>>

\* The multicast that g_notify_msg_id names is cancelled, if it is listed yet.
CancelNotify ==
    /\ app = "cancelling" /\ app' = "cancelled"
    /\ resp' = 1 /\ bindCnt' = NotifyMax /\ notifyTimer' = "none"
    /\ kept' = IF msgId = "yes" THEN "no" ELSE kept
    /\ UNCHANGED <<report, mutex, msgId, orphans, overlapped, devinfo, world, daemon, coap, job,
                   bounds, crossed>>

\* g_notify_msg_id is 0; the mutex that is there now is given back and
\* destroyed.  To give one that the daemon holds is an assertion of the port,
\* which restarts the device: the behaviour ends here.
ForgetNotify ==
    /\ app = "cancelled"
    /\ msgId' = "no"
    /\ IF kept = "yes" THEN kept' = "no" /\ orphans' = "yes" ELSE UNCHANGED <<kept, orphans>>
    /\ IF mutex = "daemon"
       THEN /\ daemon' = "stuck" /\ coap' = "stuck" /\ app' = "stuck"
            /\ UNCHANGED mutex
       ELSE /\ app' = "stopped" /\ daemon' = Bereave(daemon)
            /\ DestroyMutex
            /\ UNCHANGED coap
    /\ UNCHANGED <<report, resp, bindCnt, notifyTimer, overlapped, devinfo, world, job, bounds,
                   crossed>>

\* awss_dev_bind_notify, which waits for the reply: awss_report_token cleared suc.
StartNotify ==
    /\ app = "stopped" /\ job = "connect"
    /\ bindCnt' = 0 /\ resp' = 0 /\ notifyTimer' = "armed"
    /\ app' = "idle" /\ job' = "none"
    /\ UNCHANGED <<report, mutex, multicast, overlapped, devinfo, world, daemon, coap, bounds,
                   crossed>>

StopAgain ==
    /\ app = "stopped" /\ job = "close"
    /\ app' = "stopping" /\ job' = "reclose"
    /\ UNCHANGED <<report, notify, devinfo, world, daemon, coap, bounds, crossed>>

\* awss_cmp_local_deinit waits for the thread of the server, and releases its list.
ReleaseServer ==
    /\ app = "stopped" /\ job = "reclose"
    /\ coap = "idle" /\ daemon \notin {"sending", "answering"}
    /\ server' = "none" /\ kept' = "no" /\ orphans' = "no"
    /\ app' = "idle" /\ job' = "none"
    /\ UNCHANGED <<report, resp, bindCnt, notifyTimer, mutex, msgId, overlapped, devinfo, online,
                   daemon, coap, bounds, crossed>>

-----------------------------------------------------------------------------
DaemonStep ==
    \/ DaemonPublished \/ LockAndNotify \/ NotifyUnlocked \/ SendNotify \/ EndNotify
    \/ SendAnswer \/ StopDevinfoTimer

AppStep ==
    \/ StopReportTimer \/ CloudReported \/ StopNotify \/ LockToStop \/ CancelNotify
    \/ ForgetNotify \/ StartNotify \/ StopAgain \/ ReleaseServer

Next ==
    \/ ReportTimerFires \/ NotifyTimerFires \/ AnswerDeviceInfo \/ DaemonStep
    \/ BindResponse \/ GetDeviceInfo \/ NewTokenPublished
    \/ ReportCloud \/ Deinit \/ AppStep \/ Expire
    \/ \E a \in Ages : Reply(a) \/ CloudReplies(a)

Spec == Init /\ [][Next]_vars

\* What a thread has begun it goes on with, and the daemon runs every timer
\* that is due, however many others are.  Nothing is asked of the network.
FairSpec ==
    /\ Spec
    /\ WF_vars(DaemonStep) /\ WF_vars(AppStep) /\ WF_vars(NewTokenPublished)
    /\ SF_vars(ReportTimerFires) /\ SF_vars(AnswerDeviceInfo)

-----------------------------------------------------------------------------
(* Properties.                                                              *)

\* "Wait for token is sent to cloud and rx reply from cloud": the token that
\* __awss_dev_bind_notify puts into a multicast was sent to the cloud, unless
\* the device is closing or another thread cleared suc after it was read.
NotifiedTokenWasReported ==
    [][daemon # "sending" /\ daemon' = "sending"
       => published = "yes" \/ cleared = "yes" \/ online = "no"]_vars

\* Once the notification is over, by an answer, by its count or by
\* awss_dev_bind_notify_stop, no multicast stays in the list of the CoAP
\* server, which never drops one by itself; unless a stop that found no mutex,
\* or one destroyed, ran into the daemon's sending.
NoMulticastIsLeft ==
    notifyTimer # "armed" /\ daemon \notin {"locking", "lost", "sending", "ending"}
    /\ overlapped = "no"
    => kept = "no" /\ orphans = "no"

\* A request of a phone is answered by awss_process_get_devinfo, unless the
\* reports are given up, the device closes, the daemon waits for a destroyed
\* mutex, or a timer that was armed for it is stopped by a thread whose
\* decision was older.
RequestIsAnswered ==
    session = "waiting"
    ~> \/ session = "none"
       \/ cnt > ReportMax \/ online = "no" \/ daemon = "stuck" \/ crossed # {}
=============================================================================

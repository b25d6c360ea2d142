------------------------------ MODULE DevReset ------------------------------
(***************************************************************************)
(* Resetting a device and telling the cloud of it.  The reset flag         *)
(* "awss.rst" is kept in flash and cleared by the reply of the cloud       *)
(* (dev_bind/impl/awss_reset/awss_dev_reset.c); an application asks for a  *)
(* reset through awss_report_reset, a user by rebooting the device quickly *)
(* MaxTimes times (factory_restore.c of the examples).                     *)
(*                                                                         *)
(* Three threads run awss_report_reset_to_cloud: the caller of the API     *)
(* ("app"), the thread that yields to MQTT and runs the handler of a new   *)
(* connection ("yield"), and the daemon of the FreeRTOS timers ("timer").  *)
(* The handler of a reply runs in "yield", or inside the                   *)
(* IOT_MQTT_Subscribe_Sync of another thread, which yields while it waits. *)
(* The report is published with QoS 0.  A crash loses everything but       *)
(* flash.                                                                  *)
(***************************************************************************)
EXTENDS Naturals, Sequences

CONSTANTS
    MaxTimes,     \* CONFIG_FACTORY_QUICK_REBOOT_MAX_TIMES
    MaxAsks,      \* resets asked for in a behaviour
    MaxCrashes,   \* restarts in a behaviour
    MaxDrops,     \* lost connections in a behaviour
    MaxWire       \* messages on their way in one direction

ASSUME MaxTimesAssumption == MaxTimes \in Nat \ {0}
ASSUME BoundsAssumption == MaxAsks \in Nat /\ MaxCrashes \in Nat /\ MaxDrops \in Nat /\ MaxWire \in Nat

VARIABLES
    rst,      \* flash: awss.rst
    times,    \* flash: q_rt
    wifi,     \* flash: the ssid and the password of the router
    boot,     \* where factory_restore_init is, or "running"
    quick,    \* the one-shot timer "factory_clear"
    link,     \* the connection to the cloud
    suc,      \* awss_report_reset_suc
    timer,    \* report_reset_timer
    pc,       \* where each thread is in its report
    reply,    \* where the handler of a reply is
    answer,   \* how many resets were told when the reply that it handles was sent
    up,       \* how many reports are on their way
    down,     \* the replies on their way: how many resets were told, for each
    asked,    \* how many resets were asked for
    told,     \* how many of them were asked for before the cloud last reset
    late,     \* the reply to an earlier reset was taken for that of the youngest
    boots,    \* restarts since the quick timer last cleared q_rt
    crashes,
    drops

flash == <<rst, times, wifi>>
ram == <<suc, timer, pc, reply, answer>>
net == <<link, up, down>>
history == <<asked, told, late, boots, crashes, drops>>
vars == <<flash, boot, quick, ram, net, history>>

Threads == {"app", "yield", "timer"}
Idle == [t \in Threads |-> "idle"]

TypeOK ==
    /\ rst \in {0, 1}
    /\ times \in 0 .. MaxTimes + MaxCrashes
    /\ wifi \in {"kept", "erased"}
    /\ boot \in {"count", "flag", "clear", "erase", "running"}
    /\ quick \in {"off", "armed"}
    /\ link \in {"down", "up"}
    /\ suc \in {0, 1}
    /\ timer \in {"none", "armed", "fired"}
    /\ pc \in [Threads -> {"idle", "save", "check", "report", "subscribe", "publish"}]
    /\ reply \in {"idle", "clear"}
    /\ answer \in 0 .. told
    /\ up \in 0 .. MaxWire
    /\ down \in Seq(0 .. told) /\ Len(down) <= MaxWire
    /\ asked \in 0 .. MaxAsks
    /\ told \in 0 .. asked
    /\ late \in BOOLEAN
    /\ boots \in 0 .. MaxCrashes + 1
    /\ crashes \in 0 .. MaxCrashes
    /\ drops \in 0 .. MaxDrops

Init ==
    /\ rst = 0 /\ times = 0 /\ wifi = "kept"
    /\ boot = "count" /\ quick = "armed"
    /\ link = "down" /\ up = 0 /\ down = <<>>
    /\ suc = 0 /\ timer = "none" /\ pc = Idle /\ reply = "idle" /\ answer = 0
    /\ asked = 0 /\ told = 0 /\ late = FALSE /\ boots = 1 /\ crashes = 0 /\ drops = 0

-----------------------------------------------------------------------------
(* factory_restore_init, at every start; each write of flash is a step that *)
(* a power cut may follow.                                                  *)

CountBoot ==
    /\ boot = "count"
    /\ times' = times + 1
    /\ IF times + 1 >= MaxTimes
       THEN /\ asked < MaxAsks \/ rst = 1
            /\ boot' = "flag"
       ELSE boot' = "running"
    /\ UNCHANGED <<rst, wifi, quick, ram, net, asked, told, late, boots, crashes, drops>>

\* A restore that a power cut interrupted goes on with the same reset.
SetFlag ==
    /\ boot = "flag"
    /\ rst' = 1
    /\ IF rst = 1
       THEN UNCHANGED <<asked, late>>
       ELSE asked' = asked + 1 /\ late' = FALSE
    /\ boot' = "clear"
    /\ UNCHANGED <<times, wifi, quick, ram, net, told, boots, crashes, drops>>

ClearTimes ==
    /\ boot = "clear"
    /\ times' = 0
    /\ boot' = "erase"
    /\ UNCHANGED <<rst, wifi, quick, ram, net, history>>

EraseConfig ==
    /\ boot = "erase"
    /\ wifi' = "erased"
    /\ boot' = "running"
    /\ UNCHANGED <<rst, times, quick, ram, net, asked, told, late, boots, crashes, drops>>

\* Mutant: the count of restarts is not erased.
QuickTimeoutKeepsTimes ==
    /\ boot = "running" /\ quick = "armed" /\ pc["timer"] = "idle"
    /\ quick' = "off"
    /\ boots' = 0
    /\ UNCHANGED <<flash, boot, ram, net, asked, told, late, crashes, drops>>

\* factory_restore_timer_handler, in the daemon of the timers.
QuickTimeout ==
    /\ boot = "running" /\ quick = "armed" /\ pc["timer"] = "idle"
    /\ quick' = "off"
    /\ times' = 0
    /\ boots' = 0
    /\ UNCHANGED <<rst, wifi, boot, ram, net, asked, told, late, crashes, drops>>

\* The device gets the password of a router again.
Provision ==
    /\ boot = "running" /\ wifi = "erased"
    /\ wifi' = "kept"
    /\ UNCHANGED <<rst, times, boot, quick, ram, net, history>>

\* The power fails, or the user restarts the device.
Crash ==
    /\ crashes < MaxCrashes
    /\ crashes' = crashes + 1
    /\ boots' = boots + 1
    /\ boot' = "count" /\ quick' = "armed"
    /\ link' = "down" /\ down' = <<>>
    /\ suc' = 0 /\ timer' = "none" /\ pc' = Idle /\ reply' = "idle" /\ answer' = 0
    /\ UNCHANGED <<flash, up, asked, told, late, drops>>

-----------------------------------------------------------------------------
(* The connection.                                                          *)

\* awss_report_cloud calls awss_check_reset on every new connection.
Connect ==
    /\ boot = "running" /\ wifi = "kept" /\ link = "down"
    /\ pc["yield"] = "idle" /\ reply = "idle"
    /\ link' = "up"
    /\ pc' = [pc EXCEPT !["yield"] = "check"]
    /\ UNCHANGED <<flash, boot, quick, suc, timer, reply, answer, up, down, history>>

CheckReset ==
    /\ pc["yield"] = "check"
    /\ IF rst = 1
       THEN suc' = 0 /\ late' = FALSE /\ pc' = [pc EXCEPT !["yield"] = "report"]
       ELSE UNCHANGED <<suc, late>> /\ pc' = [pc EXCEPT !["yield"] = "idle"]
    /\ UNCHANGED <<flash, boot, quick, timer, reply, answer, net, asked, told, boots,
                   crashes, drops>>

Drop ==
    /\ link = "up" /\ drops < MaxDrops
    /\ drops' = drops + 1
    /\ link' = "down" /\ down' = <<>>
    /\ UNCHANGED <<flash, boot, quick, ram, up, asked, told, late, boots, crashes>>

\* IOT_Linkkit_Close: the client is destroyed, awss_bind_deinit calls
\* awss_stop_report_reset.
Close ==
    /\ link = "up" /\ drops < MaxDrops /\ pc = Idle /\ reply = "idle"
    /\ drops' = drops + 1
    /\ link' = "down" /\ down' = <<>>
    /\ timer' = "none"
    /\ UNCHANGED <<flash, boot, quick, suc, pc, reply, answer, up, asked, told, late, boots,
                   crashes>>

-----------------------------------------------------------------------------
(* awss_report_reset and awss_report_reset_to_cloud.                        *)

AskReset ==
    /\ boot = "running" /\ pc["app"] = "idle" /\ asked < MaxAsks
    /\ suc' = 0
    /\ pc' = [pc EXCEPT !["app"] = "save"]
    /\ UNCHANGED <<flash, boot, quick, timer, reply, answer, net, history>>

\* A reply that came since then answers an earlier reset, and nothing is
\* reported for this one.
SaveReset ==
    /\ pc["app"] = "save"
    /\ rst' = 1
    /\ asked' = asked + 1
    /\ late' = (suc = 1)
    /\ pc' = [pc EXCEPT !["app"] = "report"]
    /\ UNCHANGED <<times, wifi, boot, quick, suc, timer, reply, answer, net, told, boots,
                   crashes, drops>>

TimerFires ==
    /\ timer = "armed" /\ pc["timer"] = "idle"
    /\ timer' = "fired"
    /\ pc' = [pc EXCEPT !["timer"] = "report"]
    /\ UNCHANGED <<flash, boot, quick, suc, reply, answer, net, history>>

\* Mutant: nothing retries a report.
BeginReportOnce(t) ==
    /\ pc[t] = "report"
    /\ pc' = [pc EXCEPT ![t] = IF suc = 1 THEN "idle" ELSE "subscribe"]
    /\ UNCHANGED <<flash, boot, quick, suc, timer, reply, answer, net, history>>

\* Nothing is reported once a reply has come; the timer is armed for a retry.
BeginReport(t) ==
    /\ pc[t] = "report"
    /\ IF suc = 1
       THEN pc' = [pc EXCEPT ![t] = "idle"] /\ UNCHANGED timer
       ELSE pc' = [pc EXCEPT ![t] = "subscribe"] /\ timer' = "armed"
    /\ UNCHANGED <<flash, boot, quick, suc, reply, answer, net, history>>

\* IOT_MQTT_Subscribe_Sync of the topic of the reply; without it no report.
Subscribe(t) ==
    /\ pc[t] = "subscribe" /\ reply = "idle"
    /\ \/ /\ link = "up"
          /\ pc' = [pc EXCEPT ![t] = "publish"]
       \/ pc' = [pc EXCEPT ![t] = "idle"]
    /\ UNCHANGED <<flash, boot, quick, suc, timer, reply, answer, net, history>>

\* Mutant: a published report is taken for a delivered one.
PublishAndForget(t) ==
    /\ pc[t] = "publish"
    /\ pc' = [pc EXCEPT ![t] = "idle"]
    /\ up' = IF link = "up" /\ up < MaxWire THEN up + 1 ELSE up
    /\ rst' = 0
    /\ UNCHANGED <<times, wifi, boot, quick, suc, timer, reply, answer, link, down, history>>

Publish(t) ==
    /\ pc[t] = "publish"
    /\ pc' = [pc EXCEPT ![t] = "idle"]
    /\ up' = IF link = "up" /\ up < MaxWire THEN up + 1 ELSE up
    /\ UNCHANGED <<flash, boot, quick, suc, timer, reply, answer, link, down, history>>

-----------------------------------------------------------------------------
(* The network and the cloud.                                               *)

\* The cloud resets the device and answers, however late, if it is connected.
CloudAnswers ==
    /\ up > 0
    /\ up' = up - 1
    /\ told' = asked
    /\ down' = IF link = "up" /\ Len(down) < MaxWire THEN Append(down, asked) ELSE down
    /\ UNCHANGED <<flash, boot, quick, ram, link, asked, late, boots, crashes, drops>>

LoseReport ==
    /\ up > 0
    /\ up' = up - 1
    /\ UNCHANGED <<flash, boot, quick, ram, link, down, history>>

LoseReply ==
    /\ down # <<>>
    /\ down' = Tail(down)
    /\ UNCHANGED <<flash, boot, quick, ram, link, up, history>>

\* Some thread runs the client.  (Whether the broker still has a subscription
\* of an earlier session is left open.)
CanReceive ==
    /\ boot = "running" /\ link = "up" /\ reply = "idle"
    /\ pc["yield"] = "idle" \/ \E t \in Threads : pc[t] = "subscribe"

\* awss_report_reset_reply: the flag in memory first, whichever report the reply
\* answers,
ReceiveReply ==
    /\ CanReceive /\ down # <<>>
    /\ down' = Tail(down)
    /\ suc' = 1
    /\ reply' = "clear" /\ answer' = Head(down)
    /\ UNCHANGED <<flash, boot, quick, timer, pc, link, up, history>>

\* then the one in flash and the timer.
ClearReset ==
    /\ reply = "clear"
    /\ rst' = 0
    /\ timer' = "none"
    /\ reply' = "idle" /\ answer' = 0
    /\ late' = (answer < asked)
    /\ UNCHANGED <<times, wifi, boot, quick, suc, pc, net, asked, told, boots, crashes, drops>>

-----------------------------------------------------------------------------
Startup == CountBoot \/ SetFlag \/ ClearTimes \/ EraseConfig

Work(t) == BeginReport(t) \/ Subscribe(t) \/ Publish(t)

Next ==
    \/ Startup \/ QuickTimeout \/ Provision \/ Crash
    \/ Connect \/ CheckReset \/ Drop \/ Close
    \/ AskReset \/ SaveReset \/ TimerFires \/ ClearReset
    \/ \E t \in Threads : Work(t)
    \/ CloudAnswers \/ LoseReport \/ LoseReply \/ ReceiveReply

Spec == Init /\ [][Next]_vars

\* Threads are scheduled, a device without a router gets one and connects, a
\* subscription that is tried for ever succeeds, and a network that is used
\* for ever does not lose everything.
Fairness ==
    /\ WF_vars(Startup) /\ WF_vars(Provision) /\ WF_vars(Connect)
    /\ WF_vars(CheckReset) /\ WF_vars(SaveReset) /\ WF_vars(ClearReset)
    /\ WF_vars(TimerFires)
    /\ \A t \in Threads :
          /\ WF_vars(Work(t))
          /\ SF_vars(Subscribe(t) /\ pc'[t] = "publish")
    /\ SF_vars(CloudAnswers) /\ SF_vars(ReceiveReply)

FairSpec == Spec /\ Fairness

-----------------------------------------------------------------------------
(* Properties.                                                              *)

\* awss_report_reset_reply clears the flag in flash only when the cloud has
\* reset the device since that was last asked for, whatever was lost, cut or
\* restarted in between; except that it takes the reply to an earlier report,
\* still on its way, for the reply to the youngest.
ClearedMeansTold == rst = 0 => told = asked \/ late

\* factory_restore_handle forgets a router only after MaxTimes restarts that
\* the quick timer did not separate.
RestoreIsAskedFor == [][wifi = "kept" /\ wifi' = "erased" => boots >= MaxTimes]_vars

\* "When connection between device and cloud is ready, device will retry to
\* report reset to cloud": every reset asked for reaches the cloud in the end,
\* unless the reply to an earlier one silenced the reports.
ResetIsTold == \A n \in 1 .. MaxAsks : asked >= n ~> told >= n \/ late

=============================================================================

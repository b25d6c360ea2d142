----------------------------- MODULE Provision -----------------------------
(***************************************************************************)
(* Provisioning of a device: the thread that starts it and scans           *)
(* (conn_mgr_start, awss_start, __awss_start, aws_main_thread_func), the   *)
(* Wi-Fi task that hands over the frames it hears                          *)
(* (aws_80211_frame_handler), the thread that stops it (conn_mgr_stop,     *)
(* awss_stop, aws_destroy) and the thread of the CoAP server, which        *)
(* switches the access point on a phone's request.                         *)
(*                                                                         *)
(* The threads share aws_info and zconfig_data, which one may free while   *)
(* another is about to use them.  Reading them then is reading through a   *)
(* null pointer: the chip restarts (Panic).  Channels are left out, the    *)
(* assembly of a message is in SmartConfig, and time is a choice.          *)
(***************************************************************************)
EXTENDS Naturals, FiniteSets

CONSTANTS Sides,        \* directions in which a frame of the phone is heard
          MaxAplist,    \* MAX_APLIST_NUM: places of the list of access points
          MaxStarts,    \* bound: calls of conn_mgr_start, restarts included
          MaxStops,     \* bound: calls of conn_mgr_stop
          MaxSwitches   \* bound: requests to switch the access point

ASSUME ProvisionAssumption ==
    /\ IsFiniteSet(Sides)
    /\ MaxAplist \in Nat \ {0}
    /\ MaxStarts \in Nat /\ MaxStops \in Nat /\ MaxSwitches \in Nat

Hotspots == {"aha", "adha"}      \* access points that lead to a router
Nobody   == "nobody"
Phone    == "phone"              \* source of the smart configuration

VARIABLES info,        \* aws_info
          zc,          \* zconfig_data
          finished,    \* zconfig_finished
          result,      \* aws_result_ssid
          aplist,      \* zconfig_aplist and adha_aplist
          zcMutex,     \* holder of zc_mutex
          awsMutex,    \* holder of aws_mutex
          monitor,     \* frames are handed over
          press,       \* g_user_press
          pc,          \* place of the thread that starts
          stopper,     \* place of the thread that stops
          sniffer,     \* place of the Wi-Fi task, with the frame it is at
          switching,   \* the CoAP server is switching the access point
          stopped,     \* awss_stopped
          stopConnecting, awssFinished,
          net,         \* access point of the connection
          target,      \* access point the driver is configured for
          switchDone,  \* switch_ap_done
          saved,       \* an access point is in the flash
          overtaken,   \* a start went on while it was being stopped
          outlived,    \* a request outlived the wait for it, a frame its call
                       \* or the list, or switch_ap_done its connection
          returned,    \* what awss_start returned last
          row,         \* hotspots taken in a row by this start
          starts, stops, switches

shared == <<info, zc, finished, result, aplist>>
locks  == <<zcMutex, awsMutex>>
flags  == <<stopped, stopConnecting, awssFinished, overtaken, outlived, returned, row>>
lan    == <<net, target, switchDone, saved, switching>>
bounds == <<starts, stops, switches>>
vars   == <<shared, locks, monitor, press, pc, stopper, sniffer, flags, lan, bounds>>

Hints == [kind : {"hint"}, side : Sides]
Lasts == [kind : {"last"}, side : Sides]
Kind(k) == [kind |-> k, side |-> Nobody]
Frames == Hints \cup Lasts \cup {Kind(k) : k \in {"p2p", "direct", "other"} \cup Hotspots}
Idle   == [at |-> "idle", frame |-> Kind("other")]

NoInfo == [alive |-> FALSE, state |-> "scanning", stop |-> "none"]
\* Places in use, the first included, which is never looked up; the hotspots
\* that are found in a place; and adha_aplist->cnt.
NoAps == [num |-> 1, known |-> {}, cnt |-> 0]
NoData == [alive |-> FALSE, side |-> [s \in Sides |-> "scanning"], bssid |-> Nobody]

Places == {"idle", "enter", "init", "open", "scan", "scan_body", "recv", "recv_body", "timeout",
           "asleep", "stop_or_scan", "reopen", "end", "result", "destroy", "destroying", "connect",
           "connecting", "adha", "adha_wait", "aha", "aha_wait", "out"}

AwsInfo == [alive : BOOLEAN, state : {"scanning", "locked", "success"},
            stop : {"none", "stopping", "stopped"}]
ZconfigData == [alive : BOOLEAN, side : [Sides -> {"scanning", "locked"}],
                bssid : {Nobody, Phone} \cup Hotspots]
ApList == [num : 1 .. MaxAplist, known : SUBSET Hotspots, cnt : 0 .. MaxAplist]
Hearing == [at : {"idle", "handle", "release", "check"}, frame : Frames]
Networks == {Nobody, "router"} \cup Hotspots

FlagTypes ==
    /\ finished \in BOOLEAN /\ monitor \in BOOLEAN /\ press \in BOOLEAN
    /\ stopped \in BOOLEAN /\ stopConnecting \in BOOLEAN
    /\ switching \in BOOLEAN /\ switchDone \in BOOLEAN /\ saved \in BOOLEAN
    /\ overtaken \in BOOLEAN /\ outlived \in BOOLEAN

TypeOK ==
    /\ FlagTypes
    /\ info \in AwsInfo /\ zc \in ZconfigData /\ sniffer \in Hearing
    /\ result \in Networks /\ net \in Networks /\ target \in Networks
    /\ aplist \in ApList /\ row \subseteq Hotspots
    /\ pc \in Places /\ stopper \in {"idle", "connecting", "destroy", "destroying", "wait"}
    /\ zcMutex \in {Nobody, "sniffer"} /\ awsMutex \in {Nobody, "starter", "stopper"}
    /\ zcMutex # Nobody => sniffer.at = "release"
    /\ awssFinished \in 0 .. 2 /\ returned \in {"none", "stopped"} \cup Networks
    /\ starts \in 0 .. MaxStarts /\ stops \in 0 .. MaxStops /\ switches \in 0 .. MaxSwitches

Init ==
    /\ info = NoInfo /\ zc = NoData /\ finished = FALSE /\ result = Nobody /\ aplist = NoAps
    /\ zcMutex = Nobody /\ awsMutex = Nobody /\ monitor = FALSE /\ press = FALSE
    /\ pc = "idle" /\ stopper = "idle" /\ sniffer = Idle /\ switching = FALSE
    /\ stopped = TRUE /\ stopConnecting = FALSE /\ awssFinished = 2
    /\ overtaken = FALSE /\ outlived = FALSE /\ returned = "none" /\ row = {}
    /\ net = Nobody /\ target = Nobody /\ switchDone = FALSE /\ saved = FALSE
    /\ starts = 0 /\ stops = 0 /\ switches = 0

Goto(place) == pc' = place
Stopping == info.stop = "stopping"

-----------------------------------------------------------------------------
(* conn_mgr_start, awss_config_press and the head of awss_start.            *)

\* The application starts when nothing is stored and no call is under way.
Start ==
    /\ pc = "idle" /\ stopper = "idle" /\ ~saved /\ starts < MaxStarts
    /\ starts' = starts + 1
    /\ press' = TRUE
    /\ stopped' = FALSE /\ overtaken' = FALSE /\ outlived' = (switching \/ sniffer # Idle)
    /\ returned' = "none"
    /\ row' = {}
    /\ Goto("enter")
    /\ UNCHANGED <<shared, locks, monitor, stopper, sniffer, stopConnecting,
                   awssFinished, lan, stops, switches>>

\* awss_press_timeout, in the daemon of the timers
PressLapses ==
    /\ press /\ press' = FALSE
    /\ UNCHANGED <<shared, locks, monitor, pc, stopper, sniffer, flags, lan, bounds>>

\* The head of __awss_start; nothing ever resets switch_ap_done.
Enter ==
    /\ pc = "enter" /\ Goto("init")
    /\ stopConnecting' = FALSE /\ awssFinished' = 0
    /\ overtaken' = (overtaken \/ stopper \in {"destroy", "wait"})
    /\ outlived' = (outlived \/ switchDone)
    /\ UNCHANGED <<shared, locks, monitor, press, stopper, sniffer, stopped, returned,
                   row, lan, bounds>>

\* aws_start up to the monitor, with zconfig_init.
Prepare ==
    /\ pc = "init" /\ Goto("open")
    /\ info' = [alive |-> TRUE, state |-> "scanning", stop |-> "none"]
    /\ zc' = [NoData EXCEPT !.alive = TRUE]
    /\ finished' = FALSE /\ result' = Nobody
    /\ overtaken' = (overtaken \/ stopper = "wait")
    /\ UNCHANGED <<aplist, locks, monitor, press, stopper, sniffer, stopped, stopConnecting,
                   awssFinished, outlived, returned, row, lan, bounds>>

Open ==
    /\ pc = "open" /\ Goto("scan")
    /\ monitor' = TRUE
    /\ UNCHANGED <<shared, locks, press, stopper, sniffer, flags, lan, bounds>>

-----------------------------------------------------------------------------
(* aws_main_thread_func: scanning, receiving, the pause after the timeout.  *)

MainKeeps == UNCHANGED <<locks, press, stopper, sniffer, flags, lan, bounds>>

\* The conditions of the two loops; a sleep follows each.
ScanHead ==
    /\ pc = "scan" /\ info.alive
    /\ Goto(IF info.state = "scanning" THEN "scan_body" ELSE "recv")
    /\ UNCHANGED <<shared, monitor>> /\ MainKeeps

ReceiveHead ==
    /\ pc = "recv" /\ info.alive
    /\ Goto(IF info.state = "success" THEN "end" ELSE "recv_body")
    /\ UNCHANGED <<shared, monitor>> /\ MainKeeps

\* aws_is_chnscan_timeout: asked to stop, or the time of a scan is over.
TimesOut ==
    /\ pc \in {"scan_body", "recv_body"} /\ info.alive /\ zc.alive
    /\ Goto("timeout")
    /\ UNCHANGED <<shared, monitor>> /\ MainKeeps

ScanAgain ==
    /\ pc = "scan_body" /\ info.alive /\ zc.alive /\ ~Stopping
    /\ Goto(IF info.state = "scanning" THEN "scan" ELSE "recv")
    /\ UNCHANGED <<shared, monitor>> /\ MainKeeps

\* The lock of the channel was lost: rescanning clears zc_bssid.
ReceiveAgain ==
    /\ pc = "recv_body" /\ info.alive /\ zc.alive /\ ~Stopping
    /\ IF info.state = "scanning"
         THEN Goto("scan") /\ zc' = [zc EXCEPT !.bssid = Nobody]
         ELSE Goto("recv") /\ UNCHANGED zc
    /\ UNCHANGED <<info, finished, result, aplist, monitor>> /\ MainKeeps

\* timeout_recving: start the timer of the pause and close the monitor.
Pause ==
    /\ pc = "timeout" /\ info.alive
    /\ IF Stopping THEN Goto("stop_or_scan") /\ UNCHANGED monitor
                   ELSE Goto("asleep") /\ monitor' = FALSE
    /\ UNCHANGED shared /\ MainKeeps

\* The timer has expired, the user has pressed, or a thread wants to stop.
PauseEnds ==
    /\ pc = "asleep" /\ info.alive
    /\ Goto("stop_or_scan")
    /\ UNCHANGED <<shared, monitor>> /\ MainKeeps

\* The stop is answered, or the device scans again; once a day
\* awss_clear_aplist clears the list.
Resume ==
    /\ pc = "stop_or_scan" /\ info.alive
    /\ IF Stopping
         THEN /\ info' = [info EXCEPT !.stop = "stopped"] /\ Goto("end")
              /\ UNCHANGED <<aplist, row, outlived>>
         ELSE /\ info' = [info EXCEPT !.state = "scanning"] /\ Goto("reopen")
              /\ \/ UNCHANGED <<aplist, row, outlived>>
                 \/ aplist' = NoAps /\ row' = {} /\ outlived' = (outlived \/ sniffer # Idle)
    /\ UNCHANGED <<zc, finished, result, monitor, locks, press, stopper, sniffer, stopped,
                   stopConnecting, awssFinished, overtaken, returned, lan, bounds>>

Reopen ==
    /\ pc = "reopen" /\ info.alive /\ zc.alive
    /\ monitor' = TRUE
    /\ zc' = [zc EXCEPT !.bssid = Nobody]
    /\ Goto("scan")
    /\ UNCHANGED <<info, finished, result, aplist>> /\ MainKeeps

\* Defect: the list is freed whatever ended the scan.
EndForgets ==
    /\ pc = "end" /\ info.alive /\ zc.alive /\ zcMutex = Nobody
    /\ zc' = NoData /\ aplist' = NoAps
    /\ Goto("result")
    /\ UNCHANGED <<info, finished, result, monitor>> /\ MainKeeps

\* success: wait for the frame handler, then zconfig_destroy; the list is
\* kept only if a hotspot was found now.
End ==
    /\ pc = "end" /\ info.alive /\ zc.alive /\ zcMutex = Nobody
    /\ zc' = NoData
    /\ aplist' = IF info.stop # "stopped" /\ result \in Hotspots THEN aplist ELSE NoAps
    /\ Goto("result")
    /\ UNCHANGED <<info, finished, result, monitor>> /\ MainKeeps

-----------------------------------------------------------------------------
(* __awss_start after the scan.                                             *)

\* aws_get_ssid_passwd; a call that was stopped leaves here.
TakeResult ==
    /\ pc = "result" /\ info.alive
    /\ IF stopConnecting THEN awssFinished' = 1 /\ Goto("adha")
                         ELSE UNCHANGED awssFinished /\ Goto("destroy")
    /\ result' = IF info.state = "success" THEN result ELSE Nobody
    /\ row' = IF result' \in Hotspots /\ ~stopConnecting THEN row \cup {result'} ELSE {}
    /\ UNCHANGED <<info, zc, finished, aplist, locks, monitor, press, stopper, sniffer,
                   stopped, stopConnecting, overtaken, outlived, returned, lan, bounds>>

ConnectKeeps == UNCHANGED <<shared, locks, monitor, press, stopper, sniffer, stopped,
                            stopConnecting, overtaken, outlived, returned, row, saved,
                            switchDone, switching, bounds>>

\* HAL_Awss_Connect_Ap: the driver leaves its access point for another one.
Connect ==
    /\ pc = "connect"
    /\ IF stopConnecting \/ result = Nobody
         THEN awssFinished' = 1 /\ Goto("adha") /\ UNCHANGED <<net, target>>
         ELSE target' = result /\ net' = Nobody /\ Goto("connecting") /\ UNCHANGED awssFinished
    /\ ConnectKeeps

\* The device has an address, or the time is over: the driver goes on trying.
ConnectEnds ==
    /\ pc = "connecting" /\ Goto("adha")
    /\ awssFinished' = 1
    /\ UNCHANGED <<net, target>> /\ ConnectKeeps

DriverKeeps == UNCHANGED <<shared, locks, monitor, press, pc, stopper, sniffer, flags, target,
                           switchDone, switching, bounds>>

\* SYSTEM_EVENT_STA_GOT_IP: a router is saved.
Join ==
    /\ net = Nobody /\ target # Nobody
    /\ net' = target
    /\ saved' = (saved \/ target = "router")
    /\ DriverKeeps

\* SYSTEM_EVENT_STA_DISCONNECTED: the handler connects again, when it can.
Drop ==
    /\ net # Nobody /\ net' = Nobody
    /\ UNCHANGED saved /\ DriverKeeps

-----------------------------------------------------------------------------
(* awss_start after __awss_start: what the connection is good for.          *)

StartKeeps == UNCHANGED <<shared, locks, monitor, press, stopper, sniffer,
                          stopConnecting, awssFinished, overtaken, row, lan, bounds>>

\* Connected to adha: wait for its router; not connected: scan again.  The
\* name of a router is kept for the next test, which then passes.
JudgeAdha ==
    /\ pc = "adha"
    /\ Goto(CASE net = "router" -> "out"
              [] net = "aha" -> "aha"
              [] net = "adha" -> "adha_wait"
              [] net = Nobody -> IF switchDone \/ stopped THEN "aha" ELSE "enter")
    /\ UNCHANGED <<stopped, outlived, returned>> /\ StartKeeps

AdhaEnds ==
    /\ pc = "adha_wait"
    /\ Goto(IF switchDone \/ stopped THEN "aha" ELSE "enter")
    /\ UNCHANGED <<stopped, outlived, returned>> /\ StartKeeps

\* Defect: an access point of a phone is taken for the router.
JudgeAhaAny ==
    /\ pc = "aha"
    /\ Goto(CASE stopped \/ switchDone \/ net # Nobody -> "out"
              [] OTHER -> "enter")
    /\ UNCHANGED <<stopped, outlived, returned>> /\ StartKeeps

\* Connected to a phone: wait until it has named the router.
JudgeAha ==
    /\ pc = "aha"
    /\ Goto(CASE stopped \/ switchDone \/ net \in {"router", "adha"} -> "out"
              [] net = "aha" -> "aha_wait"
              [] OTHER -> "enter")
    /\ UNCHANGED <<stopped, outlived, returned>> /\ StartKeeps

AhaEnds ==
    /\ pc = "aha_wait"
    /\ Goto(IF switchDone \/ stopped \/ net = "router" THEN "out" ELSE "enter")
    /\ outlived' = (outlived \/ switching)
    /\ UNCHANGED <<stopped, returned>> /\ StartKeeps

\* awss_start returns, or begins again without a connection.
Finish ==
    /\ pc = "out"
    /\ CASE stopped -> Goto("idle") /\ returned' = "stopped" /\ UNCHANGED <<stopped, press>>
         [] ~stopped /\ net # Nobody ->
              Goto("idle") /\ returned' = net /\ stopped' = TRUE /\ press' = FALSE
         [] OTHER -> Goto("enter") /\ UNCHANGED <<stopped, returned, press>>
    /\ UNCHANGED <<shared, locks, monitor, stopper, sniffer, stopConnecting,
                   awssFinished, overtaken, outlived, row, lan, bounds>>

-----------------------------------------------------------------------------
(* aws_destroy, by either thread.                                           *)

DestroyKeeps == UNCHANGED <<zc, finished, result, aplist, zcMutex, press, sniffer,
                            flags, lan, bounds>>

\* The two early returns leave with the mutex held.
Destroy(t, next, wait) ==
    /\ awsMutex = Nobody
    /\ IF ~info.alive \/ info.stop = "stopped"
         THEN awsMutex' = t /\ next /\ UNCHANGED <<info, monitor>>
         ELSE /\ monitor' = FALSE /\ UNCHANGED awsMutex
              /\ IF info.state = "success"
                   THEN info' = NoInfo /\ next
                   ELSE info' = [info EXCEPT !.stop = "stopping"] /\ wait
    /\ DestroyKeeps

\* Defect: a configuration that was received does not end the wait.
DestroyWaitsOn(next) ==
    /\ awsMutex = Nobody /\ info.alive
    /\ info.stop = "stopped"
    /\ info' = NoInfo /\ next
    /\ UNCHANGED <<awsMutex, monitor>> /\ DestroyKeeps

\* The mutex is free while the thread sleeps.
DestroyWaits(next) ==
    /\ awsMutex = Nobody /\ info.alive
    /\ info.stop = "stopped" \/ info.state = "success"
    /\ info' = NoInfo /\ next
    /\ UNCHANGED <<awsMutex, monitor>> /\ DestroyKeeps

StarterDestroys ==
    /\ \/ pc = "destroy" /\ Destroy("starter", Goto("connect"), Goto("destroying"))
       \/ pc = "destroying" /\ DestroyWaits(Goto("connect"))
    /\ UNCHANGED stopper

-----------------------------------------------------------------------------
(* conn_mgr_stop, awss_stop and __awss_stop.                                *)

StopBegins ==
    /\ stopper = "idle" /\ ~saved /\ stops < MaxStops
    /\ stops' = stops + 1
    /\ stopped' = TRUE /\ press' = FALSE
    /\ stopper' = "connecting"
    /\ UNCHANGED <<shared, locks, monitor, pc, sniffer, stopConnecting, awssFinished,
                   overtaken, outlived, returned, row, lan, starts, switches>>

StopConnecting ==
    /\ stopper = "connecting" /\ stopper' = "destroy"
    /\ stopConnecting' = TRUE
    /\ UNCHANGED <<shared, locks, monitor, press, pc, sniffer, stopped, awssFinished,
                   overtaken, outlived, returned, row, lan, bounds>>

StopperDestroys ==
    /\ \/ stopper = "destroy"
          /\ Destroy("stopper", stopper' = "wait", stopper' = "destroying")
       \/ stopper = "destroying" /\ DestroyWaits(stopper' = "wait")
    /\ UNCHANGED pc

\* awss_finished is set: aws_release_mutex.
StopEnds ==
    /\ stopper = "wait" /\ awssFinished # 0
    /\ stopper' = "idle"
    /\ awsMutex' = Nobody /\ awssFinished' = 2
    /\ UNCHANGED <<shared, zcMutex, monitor, press, pc, sniffer, stopped,
                   stopConnecting, overtaken, outlived, returned, row, lan, bounds>>

-----------------------------------------------------------------------------
(* The Wi-Fi task.                                                          *)

SnifferKeeps == UNCHANGED <<awsMutex, pc, stopper, flags, lan, bounds>>

Full == aplist.num = MaxAplist

\* awss_save_apinfo for a hotspot without a place: when the list is full it
\* gets the first one, so the next beacon does not find it either.
Save(hotspot) ==
    [num   |-> IF Full THEN aplist.num ELSE aplist.num + 1,
     known |-> IF Full THEN aplist.known ELSE aplist.known \cup {hotspot},
     cnt   |-> aplist.cnt + 1]

\* Only adha is of use while the user has not pressed, and only then; a
\* hotspot is taken when it was saved and counted.
Wanted(f) ==
    \/ f.kind = "other"
    \/ /\ ~finished
       /\ press <=> f.kind # "adha"
       /\ f.kind \in Hotspots => f.kind \notin aplist.known /\ aplist.cnt < MaxAplist

\* A frame that passes the first tests.
Sniff(f) ==
    /\ sniffer.at = "idle" /\ monitor /\ Wanted(f)
    /\ sniffer' = [at |-> "handle", frame |-> f]
    /\ IF f.kind \in Hotspots
         THEN /\ zc.alive
              /\ aplist' = Save(f.kind)
              /\ zc' = [zc EXCEPT !.bssid = f.kind]
              /\ press' = (press /\ f.kind # "aha")
         ELSE UNCHANGED <<aplist, zc, press>>
    /\ UNCHANGED <<info, finished, result, zcMutex, monitor>> /\ SnifferKeeps

\* awss_ieee80211_aplist_process: another access point takes a place.
Beacon ==
    /\ sniffer.at = "idle" /\ monitor /\ zc.alive /\ ~Full
    /\ aplist' = [aplist EXCEPT !.num = @ + 1]
    /\ sniffer' = [at |-> "handle", frame |-> Kind("other")]
    /\ UNCHANGED <<info, zc, finished, result, zcMutex, monitor, press>> /\ SnifferKeeps

Locked == [info EXCEPT !.state = IF @ = "scanning" THEN "locked" ELSE @]
At(s) == zc.side[s]
FromPhone == zc.bssid = Phone
Completes(f) ==
    \/ f.kind \in {"direct"} \cup Hotspots
    \/ f.kind = "last" /\ At(f.side) = "locked" /\ FromPhone

Handling(f) == sniffer = [at |-> "handle", frame |-> f] /\ zc.alive

\* A frame that cannot complete a message: a hint locks the channel.
Handle(f) ==
    /\ Handling(f) /\ info.alive
    /\ ~Completes(f) \/ f.kind = "last"
    /\ sniffer' = [sniffer EXCEPT !.at = "check"]
    /\ CASE f.kind = "p2p" -> info' = Locked /\ UNCHANGED zc
         [] f.kind = "hint" /\ At(f.side) = "scanning" /\ zc.bssid \in {Nobody, Phone} ->
              /\ info' = Locked
              /\ zc' = [zc EXCEPT !.side[f.side] = "locked", !.bssid = Phone]
         [] f.kind = "hint" /\ At(f.side) = "locked" /\ FromPhone ->
              info' = Locked /\ UNCHANGED zc
         [] OTHER -> UNCHANGED <<info, zc>>
    /\ UNCHANGED <<finished, result, aplist, zcMutex, monitor, press>> /\ SnifferKeeps

\* zconfig_set_state(STATE_RCV_DONE): zconfig_callback_over under zc_mutex.
Over(f) ==
    /\ Handling(f) /\ info.alive /\ Completes(f) /\ zcMutex = Nobody
    /\ zcMutex' = "sniffer"
    /\ sniffer' = [sniffer EXCEPT !.at = "release"]
    /\ IF finished THEN UNCHANGED <<info, result, finished>>
       ELSE /\ info' = [info EXCEPT !.state = "success"]
            /\ result' = IF f.kind \in Hotspots THEN f.kind ELSE "router"
            /\ finished' = TRUE
    /\ UNCHANGED <<zc, aplist, monitor, press>> /\ SnifferKeeps

\* Defect: the mutex stays with the frame handler.
ReleaseKeeps ==
    /\ sniffer.at = "release" /\ zc.alive
    /\ monitor' = FALSE
    /\ sniffer' = [sniffer EXCEPT !.at = "check"]
    /\ UNCHANGED <<shared, zcMutex, press>> /\ SnifferKeeps

\* HAL_Awss_Close_Monitor, and the mutex is released.
Release ==
    /\ sniffer.at = "release" /\ zc.alive
    /\ monitor' = FALSE /\ zcMutex' = Nobody
    /\ sniffer' = [sniffer EXCEPT !.at = "check"]
    /\ UNCHANGED <<shared, press>> /\ SnifferKeeps

\* A locked channel without a frame of the phone for eight seconds is left.
Check ==
    /\ sniffer.at = "check" /\ info.alive
    /\ sniffer' = Idle
    /\ IF info.state = "locked" /\ sniffer.frame.kind = "other"
         THEN \E late \in BOOLEAN :
                info' = [info EXCEPT !.state = IF late THEN "scanning" ELSE @]
         ELSE UNCHANGED info
    /\ UNCHANGED <<zc, finished, result, aplist, zcMutex, monitor, press>> /\ SnifferKeeps

-----------------------------------------------------------------------------
(* The thread of the CoAP server: wifimgr_process_switch_ap_request.        *)

SwitchBegins ==
    /\ pc = "aha_wait" /\ net = "aha" /\ ~switching /\ switches < MaxSwitches
    /\ switching' = TRUE /\ switches' = switches + 1
    /\ target' = "router" /\ net' = Nobody
    /\ UNCHANGED <<shared, locks, monitor, press, pc, stopper, sniffer, flags, switchDone,
                   saved, starts, stops>>

\* The device has an address: zconfig_force_destroy, whatever the other thread
\* does by now.  Or the time to connect is over.
SwitchEnds(ok) ==
    /\ switching /\ switching' = FALSE
    /\ IF ok THEN /\ net # Nobody /\ switchDone' = TRUE
                  /\ zc' = NoData /\ aplist' = NoAps
                  /\ zcMutex' = Nobody /\ row' = {}
             ELSE UNCHANGED <<switchDone, zc, aplist, zcMutex, row>>
    /\ UNCHANGED <<info, finished, result, awsMutex, monitor, press, pc, stopper,
                   sniffer, stopped, stopConnecting, awssFinished, overtaken, outlived,
                   returned, net, target, saved, bounds>>

-----------------------------------------------------------------------------
(* A thread reads what another has freed.                                   *)

NullInfo ==
    /\ ~info.alive
    /\ \/ pc \in {"scan", "scan_body", "recv", "recv_body", "timeout", "asleep",
                  "stop_or_scan", "reopen", "end", "result", "destroying"}
       \/ stopper = "destroying"
       \/ sniffer.at = "check"
       \/ \E f \in Frames : Handling(f)

\* Saving an access point, too, compares it with zc_bssid.
NullData ==
    /\ ~zc.alive
    /\ \/ pc \in {"scan_body", "recv_body", "reopen", "end"}
       \/ sniffer.at \in {"handle", "release"}
       \/ sniffer.at = "idle" /\ monitor

\* The chip restarts; the application may start again.
Panic ==
    /\ NullInfo \/ NullData
    /\ info' = NoInfo /\ zc' = NoData /\ finished' = FALSE /\ result' = Nobody
    /\ aplist' = NoAps
    /\ zcMutex' = Nobody /\ awsMutex' = Nobody /\ monitor' = FALSE /\ press' = FALSE
    /\ pc' = "idle" /\ stopper' = "idle" /\ sniffer' = Idle /\ switching' = FALSE
    /\ stopped' = TRUE /\ stopConnecting' = FALSE /\ awssFinished' = 2
    /\ overtaken' = FALSE /\ outlived' = FALSE /\ returned' = "none" /\ row' = {}
    /\ net' = Nobody /\ target' = Nobody /\ switchDone' = FALSE
    /\ UNCHANGED <<saved, bounds>>

Main ==
    \/ Enter \/ Prepare \/ Open \/ ScanHead \/ ReceiveHead \/ ScanAgain \/ ReceiveAgain
    \/ Pause \/ PauseEnds \/ Resume \/ Reopen \/ End \/ TakeResult \/ StarterDestroys
    \/ Connect \/ ConnectEnds \/ JudgeAdha \/ AdhaEnds \/ JudgeAha \/ AhaEnds \/ Finish
    \/ TimesOut /\ Stopping
Stopper == StopConnecting \/ StopperDestroys \/ StopEnds
Sniffer == Release \/ Check \/ \E f \in Frames : Handle(f) \/ Over(f)
Switcher == SwitchEnds(TRUE) \/ SwitchEnds(FALSE)

Next ==
    \/ Start \/ PressLapses \/ Main \/ TimesOut
    \/ StopBegins \/ Stopper
    \/ Beacon \/ \E f \in Frames : Sniff(f)
    \/ Sniffer
    \/ SwitchBegins \/ Switcher
    \/ Join \/ Drop
    \/ Panic

Spec == Init /\ [][Next]_vars

\* Every thread that can go on does, and so does a request of the phone.
FairSpec == Spec /\ WF_vars(Main) /\ WF_vars(Stopper) /\ WF_vars(Sniffer)
                 /\ WF_vars(Switcher) /\ WF_vars(Panic)

-----------------------------------------------------------------------------
(* Properties.                                                              *)

(***************************************************************************)
(* awss_start returns 0 only on the router: never on a hotspot, whatever   *)
(* the order of its timeouts, the request to switch, the stop and what     *)
(* the driver does late.  A request to switch is the exception once its    *)
(* wait is over: switch_ap_done, which stays set, then ends a later wait,  *)
(* on another hotspot.  So is a frame of an earlier call that is still     *)
(* being handled.                                                          *)
(***************************************************************************)
StartedMeansOnRouter == returned \in {"none", "stopped", "router"} \/ outlived

(***************************************************************************)
(* In a call that goes on, a hotspot that was tried is not tried again     *)
(* before the list of access points is cleared: one that leads nowhere     *)
(* cannot hold up the device.  The exception is a hotspot for which the    *)
(* list, full of other access points, had no place: it is taken again.     *)
(***************************************************************************)
NoHotspotTwice ==
    [][pc = "result" /\ pc' = "destroy" =>
         \/ result' \notin row
         \/ Full /\ result' \notin aplist.known
         \/ stopped \/ outlived]_vars

(***************************************************************************)
(* A configuration that was received is connected with, unless the time of *)
(* the scan ends before the loop looks again, the call is stopped, or a    *)
(* thread reads what another has freed.                                    *)
(***************************************************************************)
ReceivedIsUsed ==
    (pc \in {"scan", "recv", "scan_body", "recv_body"} /\ info.state = "success")
      ~> (pc \in {"connect", "timeout", "idle"} \/ stopped)

(***************************************************************************)
(* awss_stop returns, unless a start that was being left goes on.          *)
(***************************************************************************)
EveryStopReturns == (stopper # "idle") ~> (stopper = "idle" \/ overtaken)

=============================================================================

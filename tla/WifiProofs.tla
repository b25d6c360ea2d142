------------------------------ MODULE WifiProofs ------------------------------
(***************************************************************************)
(* The device and the network it is to be on: proofs about Provision,      *)
(* which looks for a network, and about Registrar, which hands the         *)
(* password of the network on.  awss_start returns only on the router, and *)
(* does not take a hotspot twice, for any directions, starts, stops and    *)
(* requests to switch; the password goes only to devices the cloud has     *)
(* checked in, for any devices, any size of the table and any number of    *)
(* lost messages, restarts and stops.  The two share no variable.          *)
(***************************************************************************)
EXTENDS Provision, Registrar, TLAPS

-----------------------------------------------------------------------------
(* The scan of a call.                                                       *)

\* aws_start has run, and aws_main_thread_func has not reached its end.
Scanning == {"open", "scan", "scan_body", "recv", "recv_body", "timeout", "asleep", "stop_or_scan",
             "reopen", "end"}

\* The sources say when a stop is under way: awss_stopped is set while a thread
\* stops, and while aws_info is marked.  A scan ends with a result or a stop, so
\* the thread that starts never waits in aws_destroy; zconfig_data lives as long
\* as the scan.
StopInv ==
    /\ stopper # "idle" => stopped
    /\ pc \notin {"enter", "init"} /\ info.stop # "none" => stopped
    /\ pc \in {"end", "result", "destroy"} /\ info.alive
         => info.state = "success" \/ info.stop = "stopped"
    /\ pc # "destroying"
    /\ zc.alive => pc \in Scanning

\* The driver connects with the access point it is configured for.  That is only
\* switched, and the wait on the phone's hotspot only ended, while the call waits
\* for it there; so the call ends with the router configured.
SwitchInv ==
    /\ net \in {Nobody, target}
    /\ ~outlived =>
         /\ switching => pc = "aha_wait" /\ target = "router"
         /\ switchDone => pc \in {"aha_wait", "out", "idle", "enter"}
         /\ switchDone /\ pc \in {"aha_wait", "out"} => target = "router"
         /\ pc = "aha" => stopped \/ target = "aha"
         /\ pc = "out" => stopped \/ target = "router"

\* A hotspot that was seen has a place in the list, or the list is full; one
\* may be taken that was not yet, or that has no place in the full list.
Listed(h) == h \in aplist.known \/ Full
Fresh(h) == h \notin row \/ (Full /\ h \notin aplist.known)

\* The frame of a hotspot that entered the list, on its way to be the result.
Entering == sniffer.at = "handle" /\ sniffer.frame.kind \in Hotspots

Received == info.state = "success" /\ result \in Hotspots

\* While the call scans, what was taken was seen, and the hotspot in hand was
\* seen and may be taken.
ScanInv ==
    /\ \A h \in row : Listed(h)
    /\ Received => Listed(result) /\ Fresh(result)
    /\ Entering => Listed(sniffer.frame.kind) /\ Fresh(sniffer.frame.kind) /\ ~finished

\* So it is when the scan is over, unless the call is stopped, and so it must be
\* when the next scan begins.
TakenInv ==
    pc \in {"enter", "init"} \/ ~stopped =>
      /\ ~Entering
      /\ pc # "result" \/ Received => \A h \in row : Listed(h)
      /\ pc = "result" /\ Received => Listed(result) /\ Fresh(result)

HotspotInv ==
    /\ pc \in Scanning /\ info.state = "success" => finished
    /\ ~outlived => IF pc \in Scanning THEN ScanInv ELSE TakenInv

-----------------------------------------------------------------------------
(* Types.                                                                    *)

\* The frames are told apart by their kinds; the Wi-Fi task is at one of them.
LEMMA FrameFacts ==
    /\ \A f \in Frames : f.kind = "hint" => f.side \in Sides
    /\ Idle \in Hearing /\ Idle.at = "idle"
    /\ \A f \in Frames, a \in {"handle", "release", "check"} :
         [at |-> a, frame |-> f] \in Hearing
    /\ \A h \in Hearing, a \in {"check", "release"} : [h EXCEPT !.at = a] \in Hearing
BY DEF Frames, Hints, Lasts, Kind, Idle, Hotspots, Hearing

\* aws_info keeps its type when one field is set.
LEMMA InfoFacts ==
    /\ NoInfo \in AwsInfo
    /\ [alive |-> TRUE, state |-> "scanning", stop |-> "none"] \in AwsInfo
    /\ \A i \in AwsInfo :
         /\ \A x \in {"scanning", "locked", "success"} : [i EXCEPT !.state = x] \in AwsInfo
         /\ \A x \in {"stopping", "stopped"} : [i EXCEPT !.stop = x] \in AwsInfo
         /\ [i EXCEPT !.state = @] = i
BY DEF NoInfo, AwsInfo

\* zconfig_data keeps its type when it is cleared, made, or named a source.
LEMMA DataFacts ==
    /\ NoData \in ZconfigData /\ [NoData EXCEPT !.alive = TRUE] \in ZconfigData
    /\ \A z \in ZconfigData, b \in {Nobody} \cup Hotspots :
         [z EXCEPT !.bssid = b] \in ZconfigData
<1>1. NoData \in ZconfigData /\ [NoData EXCEPT !.alive = TRUE] \in ZconfigData
  BY DEF NoData, ZconfigData
<1> QED BY <1>1 DEF ZconfigData

\* zconfig_data keeps its type when a direction is locked.
LEMMA SideFacts ==
    ASSUME NEW z \in ZconfigData, NEW x \in Sides
    PROVE  [z EXCEPT !.side[x] = "locked", !.bssid = Phone] \in ZconfigData
BY DEF ZconfigData

\* The list of access points is empty, or takes one more.
LEMMA ListFacts ==
    /\ NoAps \in ApList
    /\ aplist \in ApList /\ ~Full => [aplist EXCEPT !.num = @ + 1] \in ApList
    /\ \A h \in Hotspots :
         aplist \in ApList /\ aplist.cnt < MaxAplist => Save(h) \in ApList
BY ProvisionAssumption DEF NoAps, ApList, Full, Save

\* The networks a call can be on.
LEMMA NetworkFacts ==
    /\ Nobody \in Networks /\ "router" \in Networks
    /\ \A x \in Hotspots : x \in Networks
BY DEF Networks

\* The types when the application begins.
LEMMA TypeInit == ASSUME Init PROVE TypeOK
<1>1. FlagTypes
  BY Zenon DEF Init, FlagTypes
<1>2. pc \in Places
  BY DEF Init, Places
<1>3. starts \in 0 .. MaxStarts /\ stops \in 0 .. MaxStops /\ switches \in 0 .. MaxSwitches
  BY ProvisionAssumption DEF Init
<1>4. info \in AwsInfo /\ zc \in ZconfigData /\ sniffer \in Hearing /\ result \in Networks
      /\ net \in Networks /\ target \in Networks
  BY FrameFacts, InfoFacts, DataFacts, NetworkFacts, Zenon DEF Init
<1>5. aplist \in ApList
  BY ListFacts DEF Init
<1> QED BY <1>1, <1>2, <1>3, <1>4, <1>5 DEF Init, TypeOK

\* The flags are set from flags.
LEMMA FlagStep ==
    ASSUME FlagTypes, [Next]_vars
    PROVE  FlagTypes'
<1> USE DEF shared, locks, flags, lan, bounds, MainKeeps, Goto, StartKeeps, DestroyKeeps,
            SnifferKeeps
<1>1. ASSUME finished' \in {finished, TRUE, FALSE}, monitor' \in {monitor, TRUE, FALSE},
             press' \in {press, FALSE},
             UNCHANGED <<stopped, stopConnecting, overtaken, outlived, switching, switchDone,
                         saved>>
      PROVE  FlagTypes'
  <2>1. finished' \in BOOLEAN /\ monitor' \in BOOLEAN
    BY <1>1, Zenon DEF FlagTypes
  <2>2. press' \in BOOLEAN
    BY <1>1, Zenon DEF FlagTypes
  <2> QED BY <1>1, <2>1, <2>2, Zenon DEF FlagTypes
<1>2. CASE Start
  BY <1>2, Zenon DEF Start, FlagTypes
<1>3. CASE Enter
  BY <1>3, Zenon DEF Enter, FlagTypes
<1>4. CASE Prepare
  BY <1>4, Zenon DEF Prepare, FlagTypes
<1>5. CASE PressLapses \/ Open \/ ScanHead \/ ReceiveHead \/ TimesOut \/ ScanAgain \/ ReceiveAgain
           \/ Pause \/ PauseEnds \/ Reopen \/ End \/ TakeResult \/ Connect \/ ConnectEnds
           \/ JudgeAdha \/ AdhaEnds \/ JudgeAha
  <2>1. /\ monitor' \in {monitor, TRUE, FALSE} /\ press' \in {press, FALSE}
        /\ UNCHANGED <<finished, stopped, stopConnecting, overtaken, outlived, switching,
                       switchDone, saved>>
    BY <1>5 DEF PressLapses, Open, ScanHead, ReceiveHead, TimesOut, ScanAgain, ReceiveAgain, Pause,
       PauseEnds, Reopen, End, TakeResult, Connect, ConnectEnds, ConnectKeeps, JudgeAdha, AdhaEnds,
       JudgeAha
  <2> QED BY <1>1, <2>1, Zenon
<1>6. CASE Resume \/ Join \/ Drop
  <2>1. CASE Resume
    BY <2>1, Zenon DEF Resume, FlagTypes
  <2>2. CASE Join \/ Drop
    BY <2>2, Zenon DEF Join, Drop, DriverKeeps, FlagTypes
  <2> QED BY <1>6, <2>1, <2>2
<1>7. CASE AhaEnds
  BY <1>7, Zenon DEF AhaEnds, FlagTypes
<1>8. CASE Finish
  BY <1>8, Zenon DEF Finish, FlagTypes
<1>9. CASE StarterDestroys \/ StopperDestroys \/ StopEnds
  <2>1. /\ monitor' \in {monitor, TRUE, FALSE} /\ press' \in {press, FALSE}
        /\ UNCHANGED <<finished, stopped, stopConnecting, overtaken, outlived, lan>>
    BY <1>9 DEF StarterDestroys, StopperDestroys, Destroy, DestroyWaits, StopEnds
  <2> QED BY <1>1, <2>1, Zenon
<1>10. CASE StopBegins
  BY <1>10, Zenon DEF StopBegins, FlagTypes
<1>11. CASE StopConnecting
  BY <1>11, Zenon DEF StopConnecting, FlagTypes
<1>12. CASE Release \/ Check \/ Beacon
  <2>1. monitor' \in {monitor, FALSE} /\ UNCHANGED <<finished, press, flags, lan>>
    BY <1>12 DEF Release, Check, Beacon
  <2> QED BY <1>1, <2>1, Zenon
<1>13. ASSUME NEW f \in Frames, Sniff(f)
       PROVE  FlagTypes'
  BY <1>13, Zenon DEF Sniff, FlagTypes
<1>14. ASSUME NEW f \in Frames, Handle(f) \/ Over(f)
       PROVE  FlagTypes'
  <2>1. finished' \in {finished, TRUE} /\ UNCHANGED <<monitor, press, flags, lan>>
    BY <1>14 DEF Handle, Over
  <2> QED BY <1>1, <2>1, Zenon
<1>15. CASE SwitchBegins
  BY <1>15, Zenon DEF SwitchBegins, FlagTypes
<1>16. CASE SwitchEnds(TRUE) \/ SwitchEnds(FALSE)
  <2>1. CASE SwitchEnds(TRUE)
    BY <2>1, Zenon DEF SwitchEnds, FlagTypes
  <2>2. CASE SwitchEnds(FALSE)
    BY <2>2, Zenon DEF SwitchEnds, FlagTypes
  <2> QED BY <1>16, <2>1, <2>2
<1>17. CASE Panic
  BY <1>17, Zenon DEF Panic, FlagTypes
<1>18. CASE UNCHANGED vars
  BY <1>1, <1>18, Zenon DEF vars
<1> QED BY <1>2, <1>3, <1>4, <1>5, <1>6, <1>7, <1>8, <1>9, <1>10, <1>11, <1>12, <1>13, <1>14, <1>15,
           <1>16, <1>17, <1>18, Zenon DEF Next, Main, Stopper, Sniffer, Switcher

\* The thread that starts.
LEMMA StartTypes ==
    ASSUME TypeOK, FlagTypes',
           Start \/ PressLapses \/ Enter \/ Prepare \/ Open \/ ScanHead \/ ReceiveHead
           \/ TimesOut \/ ScanAgain \/ ReceiveAgain \/ Pause \/ PauseEnds \/ Resume \/ Reopen
           \/ End
    PROVE  TypeOK'
<1> USE DEF shared, locks, flags, lan, bounds, MainKeeps, Goto
<1>1. CASE Start
  <2>1. starts' \in 0 .. MaxStarts
    BY <1>1, ProvisionAssumption DEF Start, TypeOK
  <2> QED BY <1>1, <2>1 DEF Start, TypeOK, Places
<1>2. CASE PressLapses \/ Enter \/ Open
  BY <1>2 DEF PressLapses, Enter, Open, TypeOK, Places
<1>3. CASE Prepare
  <2>1. info' \in AwsInfo /\ zc' \in ZconfigData /\ result' \in Networks /\ pc' \in Places
    BY <1>3, InfoFacts, DataFacts, NetworkFacts DEF Prepare, Places
  <2> QED BY <1>3, <2>1 DEF Prepare, TypeOK
<1>4. CASE ScanHead \/ ReceiveHead \/ TimesOut \/ ScanAgain \/ Pause \/ PauseEnds
  BY <1>4 DEF ScanHead, ReceiveHead, TimesOut, ScanAgain, Pause, PauseEnds, TypeOK, Places
<1>5. CASE ReceiveAgain \/ Reopen
  <2>1. /\ zc' \in {zc, [zc EXCEPT !.bssid = Nobody]} /\ pc' \in {"scan", "recv"}
        /\ monitor' \in {monitor, TRUE}
        /\ UNCHANGED <<info, finished, result, aplist, locks, press, stopper, sniffer, flags, lan,
                       bounds>>
    BY <1>5 DEF ReceiveAgain, Reopen
  <2>2. zc' \in ZconfigData
    BY <2>1, DataFacts DEF TypeOK
  <2> QED BY <2>1, <2>2 DEF TypeOK, Places
<1>6. CASE Resume
  <2>1. /\ info' \in {[info EXCEPT !.stop = "stopped"], [info EXCEPT !.state = "scanning"]}
        /\ pc' \in {"end", "reopen"}
        /\ aplist' \in {aplist, NoAps} /\ row' \in {row, {}}
        /\ UNCHANGED <<zc, finished, result, monitor, locks, press, stopper, sniffer, stopped,
                       stopConnecting, awssFinished, overtaken, returned, lan, bounds>>
    BY <1>6 DEF Resume
  <2>2. info' \in AwsInfo /\ aplist' \in ApList
    BY <2>1, InfoFacts, ListFacts DEF TypeOK
  <2> QED BY <2>1, <2>2 DEF TypeOK, Places
<1>7. CASE End
  <2>1. aplist' \in ApList
    BY <1>7, ListFacts DEF End, TypeOK
  <2> QED BY <1>7, <2>1, DataFacts DEF End, TypeOK, Places
<1> QED BY <1>1, <1>2, <1>3, <1>4, <1>5, <1>6, <1>7

\* What comes after the scan, the thread that stops, the switch and the restart.
LEMMA AwssTypes ==
    ASSUME TypeOK, FlagTypes',
           TakeResult \/ Connect \/ ConnectEnds \/ JudgeAdha \/ AdhaEnds \/ JudgeAha \/ AhaEnds
           \/ Finish \/ Join \/ Drop \/ StarterDestroys
           \/ StopBegins \/ StopConnecting \/ StopperDestroys \/ StopEnds
           \/ SwitchBegins \/ SwitchEnds(TRUE) \/ SwitchEnds(FALSE) \/ Panic
    PROVE  TypeOK'
<1> USE DEF shared, locks, flags, lan, bounds, StartKeeps, DestroyKeeps, Goto
<1>1. CASE TakeResult
  <2>1. row' \subseteq Hotspots /\ result' \in Networks
    BY <1>1, NetworkFacts DEF TakeResult, TypeOK
  <2> QED BY <1>1, <2>1 DEF TakeResult, TypeOK, Places
<1>2. CASE Connect
  BY <1>2, NetworkFacts DEF Connect, ConnectKeeps, TypeOK, Places
<1>3. CASE JudgeAdha
  <2>1. pc' \in {"out", "aha", "adha_wait", "enter"}
    BY <1>3 DEF JudgeAdha, TypeOK, Networks, Hotspots
  <2> QED BY <1>3, <2>1 DEF JudgeAdha, TypeOK, Places
<1>4. CASE AdhaEnds \/ JudgeAha \/ AhaEnds
  <2>1. pc' \in {"aha", "enter", "out", "aha_wait"}
    BY <1>4 DEF AdhaEnds, JudgeAha, AhaEnds, TypeOK
  <2> QED BY <1>4, <2>1 DEF AdhaEnds, JudgeAha, AhaEnds, TypeOK, Places
<1>5. CASE Finish
  <2>1. pc' \in {"idle", "enter"}
        /\ returned' \in {"none", "stopped"} \cup Networks
    BY <1>5 DEF Finish, TypeOK
  <2> QED BY <1>5, <2>1 DEF Finish, TypeOK, Places
<1>6. CASE StarterDestroys \/ StopperDestroys
  <2>1. /\ info' \in {info, NoInfo, [info EXCEPT !.stop = "stopping"]}
        /\ monitor' \in {monitor, FALSE} /\ awsMutex' \in {awsMutex, "starter", "stopper"}
        /\ pc' \in {pc, "connect", "destroying"} /\ stopper' \in {stopper, "wait", "destroying"}
        /\ UNCHANGED <<zc, finished, result, aplist, zcMutex, press, sniffer, flags, lan, bounds>>
    BY <1>6 DEF StarterDestroys, StopperDestroys, Destroy, DestroyWaits
  <2>2. info' \in AwsInfo
    BY <2>1, InfoFacts DEF TypeOK
  <2> QED BY <2>1, <2>2 DEF TypeOK, Places
<1>7. CASE StopBegins
  <2>1. stops' \in 0 .. MaxStops
    BY <1>7, ProvisionAssumption DEF StopBegins, TypeOK
  <2> QED BY <1>7, <2>1 DEF StopBegins, TypeOK
<1>8. CASE StopConnecting \/ StopEnds
  BY <1>8 DEF StopConnecting, StopEnds, TypeOK
<1>9. CASE SwitchBegins
  <2>1. switches' \in 0 .. MaxSwitches
    BY <1>9, ProvisionAssumption DEF SwitchBegins, TypeOK
  <2> QED BY <1>9, <2>1, NetworkFacts DEF SwitchBegins, TypeOK
<1>10. CASE SwitchEnds(TRUE) \/ SwitchEnds(FALSE)
  BY <1>10, DataFacts, NetworkFacts, ListFacts DEF SwitchEnds, TypeOK
<1>11. CASE Panic
  <2>1. info' \in AwsInfo /\ zc' \in ZconfigData /\ sniffer' \in Hearing /\ pc' \in Places
        /\ result' \in Networks /\ net' \in Networks /\ target' \in Networks
        /\ aplist' \in ApList
    BY <1>11, InfoFacts, DataFacts, FrameFacts, NetworkFacts, ListFacts DEF Panic, Places
  <2> QED BY <1>11, <2>1 DEF Panic, TypeOK
<1>12. CASE ConnectEnds
  BY <1>12 DEF ConnectEnds, ConnectKeeps, TypeOK, Places
<1>13. CASE Join \/ Drop
  BY <1>13, NetworkFacts DEF Join, Drop, DriverKeeps, TypeOK
<1> QED BY <1>1, <1>2, <1>3, <1>4, <1>5, <1>6, <1>7, <1>8, <1>9, <1>10, <1>11, <1>12, <1>13

\* The Wi-Fi task.
LEMMA SnifferTypes ==
    ASSUME TypeOK, FlagTypes',
           Release \/ Check \/ Beacon \/ \E f \in Frames : Sniff(f) \/ Handle(f) \/ Over(f)
    PROVE  TypeOK'
<1> USE DEF shared, locks, flags, lan, bounds, SnifferKeeps
<1>1. CASE Release
  <2>1. sniffer' \in Hearing
    BY <1>1, FrameFacts DEF Release, TypeOK
  <2> QED BY <1>1, <2>1 DEF Release, TypeOK
<1>2. CASE Check
  <2>1. info' \in {info, [info EXCEPT !.state = "scanning"], [info EXCEPT !.state = @]}
    BY <1>2 DEF Check
  <2>2. info' \in AwsInfo /\ sniffer' \in Hearing /\ zcMutex = Nobody
    BY <1>2, <2>1, InfoFacts, FrameFacts DEF Check, TypeOK
  <2> QED BY <1>2, <2>2 DEF Check, TypeOK
<1>3. ASSUME NEW f \in Frames, Sniff(f)
      PROVE  TypeOK'
  <2>1. f.kind \in Hotspots => zc' = [zc EXCEPT !.bssid = f.kind]
    BY <1>3 DEF Sniff
  <2>2. zc' \in ZconfigData
    BY <1>3, <2>1, DataFacts DEF Sniff, TypeOK
  <2>3. sniffer' \in Hearing
    BY <1>3, FrameFacts DEF Sniff
  <2>4. aplist' \in ApList
    BY <1>3, ListFacts DEF Sniff, Wanted, TypeOK, Hotspots
  <2> QED BY <1>3, <2>2, <2>3, <2>4 DEF Sniff, TypeOK
<1>4. ASSUME NEW f \in Frames, Handle(f)
      PROVE  TypeOK'
  <2>1. info' \in {info, Locked} /\ Locked \in {[info EXCEPT !.state = "locked"], info}
    BY <1>4, InfoFacts DEF Handle, Locked, TypeOK
  <2>2. info' \in AwsInfo
    <3>1. [info EXCEPT !.state = "locked"] \in AwsInfo /\ info \in AwsInfo
      BY InfoFacts DEF TypeOK
    <3> QED BY <2>1, <3>1, Zenon
  <2>3. \/ zc' = zc
        \/ f.side \in Sides /\ zc' = [zc EXCEPT !.side[f.side] = "locked", !.bssid = Phone]
    BY <1>4, FrameFacts DEF Handle
  <2>4. zc' \in ZconfigData
    <3>1. CASE zc' = zc
      BY <3>1 DEF TypeOK
    <3>2. CASE f.side \in Sides /\ zc' = [zc EXCEPT !.side[f.side] = "locked", !.bssid = Phone]
      BY <3>2, SideFacts, Zenon DEF TypeOK
    <3> QED BY <2>3, <3>1, <3>2
  <2>5. sniffer' \in Hearing /\ zcMutex = Nobody
    BY <1>4, FrameFacts DEF Handle, Handling, TypeOK
  <2> QED BY <1>4, <2>2, <2>4, <2>5 DEF Handle, TypeOK
<1>5. ASSUME NEW f \in Frames, Over(f)
      PROVE  TypeOK'
  <2>1. sniffer' \in Hearing
        /\ sniffer'.at = "release"
    BY <1>5, FrameFacts DEF Over, Handling, TypeOK
  <2>2. /\ info' = info \/ info' = [info EXCEPT !.state = "success"]
        /\ result' \in {result, "router"} \cup Hotspots /\ finished' \in {finished, TRUE}
        /\ zcMutex' = "sniffer"
        /\ UNCHANGED <<zc, aplist, monitor, press, awsMutex, pc, stopper, flags, lan, bounds>>
    BY <1>5 DEF Over
  <2>3. info' \in AwsInfo /\ result' \in Networks
    BY <2>2, InfoFacts, NetworkFacts DEF TypeOK
  <2> QED BY <2>1, <2>2, <2>3 DEF TypeOK
<1>6. CASE Beacon
  <2>1. aplist' \in ApList
    BY <1>6, ListFacts DEF Beacon, TypeOK
  <2>2. sniffer' \in Hearing
    BY <1>6, FrameFacts DEF Beacon, Frames
  <2>3. sniffer'.at = "handle"
    BY <1>6 DEF Beacon
  <2> QED BY <1>6, <2>1, <2>2, <2>3 DEF Beacon, TypeOK
<1> QED BY <1>1, <1>2, <1>3, <1>4, <1>5, <1>6

\* Every step of Provision keeps the types.
LEMMA TypeStep ==
    ASSUME TypeOK, [Next]_vars
    PROVE  TypeOK'
<1>1. CASE UNCHANGED vars
  <2>1. FlagTypes'
    BY FlagStep DEF TypeOK
  <2> QED BY <1>1, <2>1 DEF vars, shared, locks, flags, lan, bounds, TypeOK
<1>2. CASE Next
  <2>1. FlagTypes'
    BY FlagStep DEF TypeOK
  <2> QED BY <1>2, <2>1, StartTypes, AwssTypes, SnifferTypes, Zenon
          DEF Next, Main, Stopper, Sniffer, Switcher
<1> QED BY <1>1, <1>2

-----------------------------------------------------------------------------
(* The stop.                                                                 *)

\* Nothing is started or stopped at first.
LEMMA StopInit == Init => StopInv
BY DEF Init, StopInv, NoInfo, NoData

\* No interleaving of aws_destroy, awss_stop and the scan breaks what they say of
\* the stop.
LEMMA StopStep ==
    ASSUME TypeOK, StopInv, [Next]_vars
    PROVE  StopInv'
<1> USE DEF shared, locks, flags, lan, bounds, MainKeeps, Goto, StartKeeps, DestroyKeeps,
            SnifferKeeps, StopInv, Scanning
<1>1. CASE Start \/ PressLapses \/ Enter \/ Prepare \/ Open
  BY <1>1 DEF Start, PressLapses, Enter, Prepare, Open
<1>2. CASE ScanHead \/ ReceiveHead \/ TimesOut \/ ScanAgain
  BY <1>2 DEF ScanHead, ReceiveHead, TimesOut, ScanAgain
<1>3. CASE ReceiveAgain \/ Pause \/ PauseEnds \/ Reopen
  BY <1>3 DEF ReceiveAgain, Pause, PauseEnds, Reopen
<1>4. CASE Resume
  BY <1>4 DEF Resume, Stopping, TypeOK, AwsInfo
<1>5. CASE End
  BY <1>5 DEF End, NoData
<1>6. CASE TakeResult \/ Connect \/ ConnectEnds \/ Join \/ Drop
  <2>1. /\ pc' = pc \/ pc \in {"result", "connect", "connecting"}
        /\ pc' = pc \/ pc' \in {"adha", "destroy", "connecting"}
        /\ UNCHANGED <<stopper, stopped, info, zc>>
    BY <1>6 DEF TakeResult, Connect, ConnectEnds, ConnectKeeps, Join, Drop, DriverKeeps
  <2>2. pc' = "destroy" => pc \in {"result", "destroy"}
    BY <1>6 DEF TakeResult, Connect, ConnectEnds, Join, Drop, DriverKeeps
  <2> QED BY <2>1, <2>2
<1>7. CASE JudgeAdha \/ AdhaEnds \/ JudgeAha \/ AhaEnds
  <2>1. /\ pc' \in {"enter", "adha_wait", "aha", "aha_wait", "out"}
        /\ UNCHANGED <<stopper, stopped, info, zc>>
    BY <1>7 DEF JudgeAdha, AdhaEnds, JudgeAha, AhaEnds, TypeOK, Networks, Hotspots
  <2>2. pc \in {"adha", "adha_wait", "aha", "aha_wait"}
    BY <1>7 DEF JudgeAdha, AdhaEnds, JudgeAha, AhaEnds
  <2> QED BY <2>1, <2>2
<1>8. CASE Finish
  BY <1>8 DEF Finish
<1>9. CASE StarterDestroys
  BY <1>9 DEF StarterDestroys, Destroy, DestroyWaits, NoInfo
<1>10. CASE StopperDestroys
  BY <1>10 DEF StopperDestroys, Destroy, DestroyWaits, NoInfo, TypeOK, AwsInfo
<1>11. CASE StopBegins \/ StopConnecting \/ StopEnds
  BY <1>11 DEF StopBegins, StopConnecting, StopEnds
<1>12. CASE Release \/ Check \/ Beacon
  BY <1>12 DEF Release, Check, Beacon, TypeOK, AwsInfo
<1>13. ASSUME NEW f \in Frames, Sniff(f)
       PROVE  StopInv'
  BY <1>13 DEF Sniff
<1>14. ASSUME NEW f \in Frames, Handle(f)
       PROVE  StopInv'
  <2>1. info' \in {info, Locked}
    BY <1>14 DEF Handle
  <2>2. info'.alive = info.alive /\ info'.stop = info.stop
        /\ (info.state = "success" => info'.state = "success")
    BY <2>1 DEF Locked, TypeOK, AwsInfo
  <2>3. zc.alive /\ UNCHANGED <<stopper, stopped, pc>>
    BY <1>14 DEF Handle, Handling
  <2> QED BY <2>2, <2>3
<1>15. ASSUME NEW f \in Frames, Over(f)
       PROVE  StopInv'
  BY <1>15 DEF Over, TypeOK, AwsInfo
<1>16. CASE SwitchBegins
  BY <1>16 DEF SwitchBegins
<1>17. CASE SwitchEnds(TRUE) \/ SwitchEnds(FALSE)
  BY <1>17 DEF SwitchEnds, NoData
<1>18. CASE Panic
  BY <1>18 DEF Panic, NoInfo, NoData
<1>19. CASE UNCHANGED vars
  BY <1>19 DEF vars
<1> QED BY <1>1, <1>2, <1>3, <1>4, <1>5, <1>6, <1>7, <1>8, <1>9, <1>10, <1>11, <1>12, <1>13, <1>14,
           <1>15, <1>16, <1>17, <1>18, <1>19, Zenon DEF Next, Main, Stopper, Sniffer, Switcher

-----------------------------------------------------------------------------
(* Where the call returns.                                                   *)

\* Nothing is switched at first.
LEMMA SwitchInit == Init => SwitchInv
BY DEF Init, SwitchInv

\* No step moves the call away from the place where a request may switch it.
LEMMA SwitchStep ==
    ASSUME TypeOK, StopInv, SwitchInv, [Next]_vars
    PROVE  SwitchInv'
<1> USE DEF shared, locks, flags, lan, bounds, MainKeeps, Goto, StartKeeps, DestroyKeeps,
            SnifferKeeps, SwitchInv
<1>1. CASE Start
  <2>1. ~outlived' => ~switching
    BY <1>1, Zenon DEF Start
  <2>2. pc' = "enter" /\ UNCHANGED lan
    BY <1>1 DEF Start
  <2> QED BY <2>1, <2>2
<1>2. ASSUME ~outlived' => ~outlived /\ ~switching /\ ~switchDone,
             UNCHANGED <<switching, switchDone>>,
             net' \in {Nobody, target'}, pc' \notin {"aha", "out"}
      PROVE  SwitchInv'
  BY <1>2
<1>3. ASSUME ~outlived' => ~outlived, UNCHANGED <<target, switching, switchDone, pc>>,
             net' \in {Nobody, target}, stopped => stopped'
      PROVE  SwitchInv'
  BY <1>3
<1>4. CASE PressLapses \/ StopperDestroys \/ StopEnds \/ StopBegins \/ StopConnecting
           \/ Release \/ Check \/ Beacon \/ (\E f \in Frames : Sniff(f) \/ Handle(f) \/ Over(f))
           \/ UNCHANGED vars
  <2>1. UNCHANGED <<lan, pc, outlived>>
    BY <1>4 DEF PressLapses, StopperDestroys, Destroy, DestroyWaits, StopEnds, StopBegins,
       StopConnecting, Release, Check, Beacon, Sniff, Handle, Over, vars
  <2>2. stopped' = stopped \/ stopped'
    BY <1>4 DEF PressLapses, StopperDestroys, Destroy, DestroyWaits, StopEnds, StopBegins,
       StopConnecting, Release, Check, Beacon, Sniff, Handle, Over, vars
  <2> QED BY <1>3, <2>1, <2>2, Zenon
<1>5. CASE Enter \/ Resume
  <2>1. ~outlived' => ~outlived
    <3>1. CASE Enter
      BY <3>1, Zenon DEF Enter
    <3>2. CASE Resume
      BY <3>2, Zenon DEF Resume
    <3> QED BY <1>5, <3>1, <3>2
  <2>2. ~outlived' /\ Enter => ~switchDone
    BY Zenon DEF Enter
  <2>3. UNCHANGED <<lan, stopped>> /\ pc \in {"enter", "stop_or_scan"}
        /\ pc' \in {"init", "end", "reopen"} /\ (Enter \/ pc = "stop_or_scan")
    BY <1>5 DEF Enter, Resume
  <2> QED BY <1>2, <2>1, <2>2, <2>3
<1>6. CASE Prepare \/ Open \/ ScanHead \/ ReceiveHead \/ TimesOut \/ ScanAgain \/ ReceiveAgain
           \/ Pause \/ PauseEnds \/ Reopen \/ End \/ TakeResult \/ StarterDestroys
  <2>1. /\ UNCHANGED <<lan, outlived, stopped>>
        /\ pc \in {"init", "result", "destroy", "destroying"} \cup Scanning
        /\ pc' \in {"result", "adha", "destroy", "connect", "destroying"} \cup Scanning
    BY <1>6 DEF Prepare, Open, ScanHead, ReceiveHead, TimesOut, ScanAgain, ReceiveAgain, Pause,
       PauseEnds, Reopen, End, TakeResult, StarterDestroys, Destroy, DestroyWaits, Scanning
  <2> QED BY <1>2, <2>1 DEF Scanning
<1>7. CASE Connect \/ ConnectEnds
  <2>1. /\ pc \in {"connect", "connecting"} /\ pc' \in {"connecting", "adha"}
        /\ UNCHANGED <<net, target>> \/ net' = Nobody
        /\ UNCHANGED <<switchDone, switching, outlived>>
    BY <1>7 DEF Connect, ConnectEnds, ConnectKeeps
  <2> QED BY <1>2, <2>1
<1>8. CASE JudgeAdha \/ AdhaEnds \/ JudgeAha
  <2>1. /\ UNCHANGED <<lan, outlived, stopped>> /\ pc \in {"adha", "adha_wait", "aha"}
        /\ pc' \in {"adha_wait", "aha", "aha_wait", "enter", "out"}
        /\ pc' = "out" => \/ net = "router" \/ stopped \/ switchDone
                          \/ pc = "aha" /\ net = "adha"
        /\ pc' = "aha" => net = "aha" \/ stopped \/ switchDone
    BY <1>8 DEF JudgeAdha, AdhaEnds, JudgeAha, TypeOK, Networks, Hotspots
  <2>2. ~outlived =>
          /\ ~switching /\ ~switchDone
          /\ pc' = "out" => stopped \/ target = "router"
          /\ pc' = "aha" => stopped \/ target = "aha"
    BY <2>1 DEF Nobody
  <2> QED BY <2>1, <2>2
<1>9. CASE AhaEnds
  <2>1. ~outlived' => ~outlived /\ ~switching
    BY <1>9, Zenon DEF AhaEnds
  <2>2. /\ pc = "aha_wait" /\ UNCHANGED <<lan, stopped>>
        /\ \/ pc' = "enter" /\ ~switchDone
           \/ pc' = "out" /\ (switchDone \/ stopped \/ net = "router")
    BY <1>9 DEF AhaEnds
  <2> QED BY <2>1, <2>2 DEF Nobody
<1>10. CASE Finish
  <2>1. /\ pc = "out" /\ UNCHANGED <<lan, outlived>> /\ pc' \in {"idle", "enter"}
    BY <1>10 DEF Finish
  <2> QED BY <2>1
<1>11. CASE SwitchBegins
  <2>1. /\ pc = "aha_wait" /\ pc' = pc /\ net' = Nobody /\ target' = "router"
        /\ UNCHANGED <<outlived, switchDone>>
    BY <1>11 DEF SwitchBegins
  <2> QED BY <2>1
<1>12. CASE SwitchEnds(TRUE) \/ SwitchEnds(FALSE)
  <2>1. switching /\ ~switching' /\ UNCHANGED <<pc, stopped, outlived, net, target>>
    BY <1>12 DEF SwitchEnds
  <2> QED BY <2>1
<1>13. CASE Panic
  BY <1>13 DEF Panic
<1>14. CASE Join \/ Drop
  <2>1. /\ net' \in {Nobody, target}
        /\ UNCHANGED <<target, switching, switchDone, pc, outlived, stopped>>
    BY <1>14 DEF Join, Drop, DriverKeeps
  <2> QED BY <1>3, <2>1
<1> QED BY <1>1, <1>4, <1>5, <1>6, <1>7, <1>8, <1>9, <1>10, <1>11, <1>12, <1>13, <1>14, Zenon
        DEF Next, Main, Stopper, Sniffer, Switcher

(***************************************************************************)
(* awss_start returns on the router.                                       *)
(***************************************************************************)
LEMMA ReturnedStep ==
    ASSUME TypeOK, SwitchInv, StartedMeansOnRouter, [Next]_vars
    PROVE  StartedMeansOnRouter'
<1> USE DEF shared, locks, flags, lan, bounds, MainKeeps, Goto, StartKeeps, DestroyKeeps,
            SnifferKeeps, StartedMeansOnRouter
<1>1. CASE Finish
  <2>1. /\ pc = "out" /\ outlived' = outlived
        /\ \/ returned' = "stopped"
           \/ returned' = net /\ net # Nobody /\ ~stopped
           \/ returned' = returned
    BY <1>1 DEF Finish
  <2> QED BY <2>1 DEF SwitchInv, Nobody
<1>2. ASSUME returned' \in {returned, "none"}, outlived => outlived' \/ returned' = "none"
      PROVE  StartedMeansOnRouter'
  BY <1>2
<1>3. CASE Start \/ Panic
  BY <1>3 DEF Start, Panic
<1>4. CASE AhaEnds \/ Enter \/ Resume
  <2>1. outlived => outlived'
    <3>1. CASE AhaEnds
      BY <3>1, Zenon DEF AhaEnds
    <3>2. CASE Enter
      BY <3>2, Zenon DEF Enter
    <3>3. CASE Resume
      BY <3>3, Zenon DEF Resume
    <3> QED BY <1>4, <3>1, <3>2, <3>3
  <2>2. returned' = returned
    BY <1>4 DEF AhaEnds, Enter, Resume
  <2> QED BY <1>2, <2>1, <2>2
<1>5. CASE Prepare \/ Open \/ ScanHead \/ ReceiveHead \/ TimesOut \/ ScanAgain \/ ReceiveAgain
           \/ Pause \/ PauseEnds \/ Reopen \/ End \/ TakeResult \/ StarterDestroys \/ Connect
           \/ ConnectEnds \/ JudgeAdha \/ AdhaEnds \/ JudgeAha
  <2>1. UNCHANGED <<returned, outlived>>
    BY <1>5 DEF Prepare, Open, ScanHead, ReceiveHead, TimesOut, ScanAgain, ReceiveAgain, Pause,
       PauseEnds, Reopen, End, TakeResult, StarterDestroys, Destroy, DestroyWaits, Connect,
       ConnectEnds, ConnectKeeps, JudgeAdha, AdhaEnds, JudgeAha
  <2> QED BY <1>2, <2>1
<1>6. CASE PressLapses \/ StopperDestroys \/ StopEnds \/ StopBegins \/ StopConnecting
           \/ Release \/ Check \/ Beacon \/ (\E f \in Frames : Sniff(f) \/ Handle(f) \/ Over(f))
           \/ SwitchBegins \/ SwitchEnds(TRUE) \/ SwitchEnds(FALSE) \/ Join \/ Drop
           \/ UNCHANGED vars
  <2>1. UNCHANGED <<returned, outlived>>
    BY <1>6 DEF PressLapses, StopperDestroys, Destroy, DestroyWaits, StopEnds, StopBegins,
       StopConnecting, Release, Check, Beacon, Sniff, Handle, Over, SwitchBegins, SwitchEnds, Join,
       Drop, DriverKeeps, vars
  <2> QED BY <1>2, <2>1
<1> QED BY <1>1, <1>3, <1>4, <1>5, <1>6, Zenon DEF Next, Main, Stopper, Sniffer, Switcher

-----------------------------------------------------------------------------
(* The hotspots in a row.                                                    *)

\* No hotspot was heard at first.
LEMMA HotspotInit == Init => HotspotInv
BY DEF Init, HotspotInv, TakenInv, Received, Scanning, Entering, Idle, Kind, Nobody

\* While the call scans; the list is cleared together with the row.
LEMMA ScanStep ==
    ASSUME TypeOK, StopInv, HotspotInv,
           Open \/ ScanHead \/ ReceiveHead \/ TimesOut \/ ScanAgain \/ ReceiveAgain
           \/ Pause \/ PauseEnds \/ Resume \/ Reopen
    PROVE  HotspotInv'
<1> USE DEF shared, locks, flags, lan, bounds, MainKeeps, Goto
<1>1. pc \in Scanning /\ pc' \in Scanning
  BY DEF Open, ScanHead, ReceiveHead, TimesOut, ScanAgain, ReceiveAgain, Pause, PauseEnds, Resume,
     Reopen, Scanning
<1>2. UNCHANGED <<result, sniffer, finished>>
  BY DEF Open, ScanHead, ReceiveHead, TimesOut, ScanAgain, ReceiveAgain, Pause, PauseEnds, Resume,
     Reopen
<1>3. info'.state = "success" => info.state = "success"
  BY DEF Open, ScanHead, ReceiveHead, TimesOut, ScanAgain, ReceiveAgain, Pause, PauseEnds, Resume,
     Reopen, TypeOK, AwsInfo
<1>4. CASE Resume /\ row' = {} /\ ~UNCHANGED <<aplist, row, outlived>>
  <2>1. outlived' = (outlived \/ sniffer # Idle)
    BY <1>4 DEF Resume
  <2>2. ~outlived' => sniffer = Idle
    BY <2>1, Zenon
  <2>4. ~outlived' => ~Entering'
    BY <1>2, <2>2 DEF Entering, Idle
  <2>3. info'.state # "success"
    BY <1>4 DEF Resume, TypeOK, AwsInfo
  <2> QED BY <1>1, <1>3, <1>4, <2>3, <2>4 DEF HotspotInv, ScanInv, Received
<1>5. CASE UNCHANGED <<aplist, row, outlived>>
  BY <1>1, <1>2, <1>3, <1>5 DEF HotspotInv, ScanInv, Received, Entering, Listed, Fresh, Full
<1>6. UNCHANGED <<aplist, row, outlived>> \/ (Resume /\ row' = {})
  BY DEF Open, ScanHead, ReceiveHead, TimesOut, ScanAgain, ReceiveAgain, Pause, PauseEnds, Resume,
     Reopen
<1> QED BY <1>4, <1>5, <1>6

\* A scan begins, and ends.
LEMMA TurnStep ==
    ASSUME TypeOK, StopInv, HotspotInv, Start \/ Prepare \/ End \/ TakeResult
    PROVE  HotspotInv'
<1> USE DEF shared, locks, flags, lan, bounds, MainKeeps, Goto
<1>1. CASE Start
  <2>1. ~outlived' => sniffer = Idle
    BY <1>1, Zenon DEF Start
  <2>2. row' = {} /\ pc' = "enter" /\ sniffer' = sniffer
    BY <1>1 DEF Start
  <2> QED BY <2>1, <2>2 DEF HotspotInv, TakenInv, Entering, Scanning, Idle
<1>2. CASE Prepare
  <2>1. pc = "init" /\ pc' = "open" /\ info'.state = "scanning"
        /\ UNCHANGED <<row, aplist, sniffer, outlived>>
    BY <1>2 DEF Prepare
  <2> QED BY <2>1 DEF HotspotInv, TakenInv, ScanInv, Received, Entering, Scanning, Listed, Full
<1>3. CASE End
  <2>1. /\ pc = "end" /\ pc' = "result" /\ info.alive
        /\ UNCHANGED <<row, result, sniffer, info, finished, stopped, outlived>>
    BY <1>3 DEF End
  <2>2. ~stopped => info.state = "success" /\ info.stop = "none"
    BY <2>1 DEF StopInv, TypeOK, AwsInfo
  <2>3. ~stopped /\ ~outlived => ~Entering
    BY <2>1, <2>2 DEF HotspotInv, ScanInv, Scanning
  <2>4. ~stopped /\ Received => aplist' = aplist
    BY <1>3, <2>2 DEF End, Received
  <2>5. ~outlived => ScanInv
    BY <2>1 DEF HotspotInv, Scanning
  <2> QED BY <2>1, <2>3, <2>4, <2>5
          DEF HotspotInv, ScanInv, TakenInv, Received, Scanning, Entering, Listed, Fresh, Full
<1>4. CASE TakeResult
  <2>1. /\ pc = "result" /\ pc' \in {"adha", "destroy"}
        /\ UNCHANGED <<aplist, sniffer, stopped, outlived>>
        /\ row' = {} \/ (Received /\ row' = row \cup {result})
    BY <1>4 DEF TakeResult, Received, Hotspots, Nobody
  <2> QED BY <2>1 DEF HotspotInv, TakenInv, Scanning, Entering, Listed, Full
<1> QED BY <1>1, <1>2, <1>3, <1>4

\* The call connects and judges the connection.
LEMMA JudgeStep ==
    ASSUME TypeOK, StopInv, SwitchInv, HotspotInv,
           Enter \/ StarterDestroys \/ Connect \/ ConnectEnds \/ JudgeAdha \/ AdhaEnds \/ JudgeAha
           \/ AhaEnds \/ Finish
    PROVE  HotspotInv'
<1> USE DEF shared, locks, flags, lan, bounds, StartKeeps, DestroyKeeps, ConnectKeeps, Goto
<1>1. /\ pc \notin Scanning /\ pc # "result" /\ pc' \notin Scanning /\ pc' # "result"
      /\ pc' # "init" \/ pc = "enter"
  BY DEF Enter, StarterDestroys, Destroy, DestroyWaits, Connect, ConnectEnds, JudgeAdha, AdhaEnds,
     JudgeAha, AhaEnds, Finish, Scanning, TypeOK, Networks, Hotspots
<1>2. UNCHANGED <<row, aplist, sniffer>>
  BY DEF Enter, StarterDestroys, Destroy, DestroyWaits, Connect, ConnectEnds, JudgeAdha, AdhaEnds,
     JudgeAha, AhaEnds, Finish
<1>3. pc' = "enter" => ~stopped
  BY DEF Enter, StarterDestroys, Destroy, DestroyWaits, Connect, ConnectEnds, JudgeAdha, AdhaEnds,
     JudgeAha, AhaEnds, Finish, TypeOK, Networks, Hotspots
<1>4. ~outlived' => ~outlived
  <2>1. CASE AhaEnds
    BY <2>1, Zenon DEF AhaEnds
  <2>2. CASE Enter
    BY <2>2, Zenon DEF Enter
  <2>3. CASE ~AhaEnds /\ ~Enter
    BY <2>3 DEF StarterDestroys, Destroy, DestroyWaits, Connect, ConnectEnds, JudgeAdha, AdhaEnds,
       JudgeAha, Finish
  <2> QED BY <2>1, <2>2, <2>3
<1>5. stopped => stopped'
  BY DEF Enter, StarterDestroys, Destroy, DestroyWaits, Connect, ConnectEnds, JudgeAdha, AdhaEnds,
     JudgeAha, AhaEnds, Finish
<1> QED BY <1>1, <1>2, <1>3, <1>4, <1>5 DEF HotspotInv, TakenInv, Entering, Listed, Full

\* The Wi-Fi task: an access point enters the list, a hotspot becomes the result.
LEMMA SniffStep ==
    ASSUME TypeOK, StopInv, HotspotInv,
           Beacon \/ \E f \in Frames : Sniff(f) \/ Handle(f) \/ Over(f)
    PROVE  HotspotInv'
<1> USE DEF SnifferKeeps, flags
<1>1. ASSUME NEW f \in Frames, Sniff(f), f.kind \in Hotspots
      PROVE  HotspotInv'
  <2>1. /\ zc.alive /\ aplist' = Save(f.kind) /\ sniffer' = [at |-> "handle", frame |-> f]
        /\ UNCHANGED <<info, finished, result, pc, row, stopped, outlived>>
    BY <1>1 DEF Sniff
  <2>2. ~finished /\ f.kind \notin aplist.known
    BY <1>1 DEF Sniff, Wanted, Hotspots
  <2>3. pc \in Scanning
    BY <2>1 DEF StopInv
  <2>4. info.state # "success"
    BY <2>2, <2>3 DEF HotspotInv
  <2>5. \A h : Listed(h) => Listed(h)'
    BY <2>1 DEF Listed, Full, Save
  <2>6. Listed(f.kind)'
    BY <2>1 DEF Listed, Full, Save
  <2>7. (\A h \in row : Listed(h)) => Fresh(f.kind)'
    BY <2>1, <2>2 DEF Listed, Fresh, Full, Save
  <2> QED BY <2>1, <2>2, <2>3, <2>4, <2>5, <2>6, <2>7 DEF HotspotInv, ScanInv, Received
<1>2. ASSUME NEW f \in Frames, Sniff(f), f.kind \notin Hotspots
      PROVE  HotspotInv'
  <2>1. /\ UNCHANGED <<info, finished, result, aplist, pc, row, stopped, outlived>>
        /\ sniffer' = [at |-> "handle", frame |-> f]
    BY <1>2 DEF Sniff
  <2> QED BY <1>2, <2>1 DEF HotspotInv, ScanInv, TakenInv, Received, Entering, Listed, Fresh, Full
<1>3. ASSUME NEW f \in Frames, Handle(f)
      PROVE  HotspotInv'
  <2>1. UNCHANGED <<finished, result, aplist, pc, row, stopped, outlived>> /\ sniffer'.at = "check"
    BY <1>3 DEF Handle, TypeOK, Hearing
  <2>2. info'.state = "success" => info.state = "success"
    <3>1. info' \in {info, Locked}
      BY <1>3 DEF Handle
    <3> QED BY <3>1 DEF Locked, TypeOK, AwsInfo
  <2> QED BY <2>1, <2>2 DEF HotspotInv, ScanInv, TakenInv, Received, Entering, Listed, Fresh, Full
<1>4. ASSUME NEW f \in Frames, Over(f)
      PROVE  HotspotInv'
  <2>1. /\ zc.alive /\ sniffer' = [sniffer EXCEPT !.at = "release"]
        /\ sniffer = [at |-> "handle", frame |-> f]
        /\ UNCHANGED <<aplist, pc, row, stopped, outlived>>
    BY <1>4 DEF Over, Handling
  <2>2. pc \in Scanning
    BY <2>1 DEF StopInv
  <2>3. \/ UNCHANGED <<info, result, finished>>
        \/ /\ finished'
           /\ result' = IF f.kind \in Hotspots THEN f.kind ELSE "router"
    BY <1>4 DEF Over
  <2>4. ~Entering'
    BY <2>1 DEF Entering
  <2> QED BY <2>1, <2>2, <2>3, <2>4
          DEF HotspotInv, ScanInv, Received, Entering, Hotspots, Listed, Fresh, Full
<1>5. CASE Beacon
  <2>1. /\ zc.alive /\ ~Full /\ aplist' = [aplist EXCEPT !.num = @ + 1]
        /\ sniffer' = [at |-> "handle", frame |-> Kind("other")]
        /\ UNCHANGED <<info, finished, result, pc, row, stopped, outlived>>
    BY <1>5 DEF Beacon
  <2>2. aplist'.known = aplist.known
    BY <2>1 DEF TypeOK, ApList
  <2>3. pc \in Scanning
    BY <2>1 DEF StopInv
  <2>4. ~Entering'
    BY <2>1 DEF Entering, Kind, Hotspots
  <2>5. \A h : (Listed(h) => Listed(h)') /\ (Fresh(h) => Fresh(h)')
    BY <2>1, <2>2 DEF Listed, Fresh
  <2> QED BY <2>1, <2>3, <2>4, <2>5 DEF HotspotInv, ScanInv, Received
<1> QED BY <1>1, <1>2, <1>3, <1>4, <1>5

\* Every step of Provision keeps the list and the row together.
LEMMA HotspotStep ==
    ASSUME TypeOK, StopInv, SwitchInv, HotspotInv, [Next]_vars
    PROVE  HotspotInv'
<1> USE DEF shared, locks, flags, lan, bounds, DestroyKeeps, SnifferKeeps
<1>1. ASSUME UNCHANGED <<pc, row, aplist, result, finished, outlived>>,
             sniffer' = sniffer \/ sniffer'.at # "handle",
             info'.state = "success" => info.state = "success", stopped => stopped'
      PROVE  HotspotInv'
  BY <1>1 DEF HotspotInv, ScanInv, TakenInv, Received, Entering, Listed, Fresh, Full
<1>2. CASE PressLapses \/ StopBegins \/ StopConnecting \/ StopEnds \/ SwitchBegins
           \/ Join \/ Drop \/ UNCHANGED vars
  <2>1. UNCHANGED <<pc, row, aplist, result, finished, outlived, sniffer, info>>
    BY <1>2 DEF PressLapses, StopBegins, StopConnecting, StopEnds, SwitchBegins, Join, Drop,
       DriverKeeps, vars
  <2>2. stopped' = stopped \/ stopped'
    BY <1>2 DEF PressLapses, StopBegins, StopConnecting, StopEnds, SwitchBegins, Join, Drop,
       DriverKeeps, vars
  <2> QED BY <1>1, <2>1, <2>2, Zenon
<1>3. CASE StopperDestroys
  <2>1. UNCHANGED <<pc, row, aplist, result, finished, outlived, sniffer, stopped>>
        /\ info' \in {info, NoInfo, [info EXCEPT !.stop = "stopping"]}
    BY <1>3 DEF StopperDestroys, Destroy, DestroyWaits
  <2>2. info'.state = "success" => info.state = "success"
    BY <2>1 DEF TypeOK, AwsInfo, NoInfo
  <2> QED BY <1>1, <2>1, <2>2
<1>4. CASE Release \/ Check
  <2>1. UNCHANGED <<pc, row, aplist, result, finished, outlived, stopped>>
    BY <1>4 DEF Release, Check
  <2>2. sniffer'.at # "handle"
    BY <1>4, FrameFacts DEF Release, Check, TypeOK, Hearing
  <2>3. info'.state = "success" => info.state = "success"
    BY <1>4 DEF Release, Check, TypeOK, AwsInfo
  <2> QED BY <1>1, <2>1, <2>2, <2>3
<1>5. CASE SwitchEnds(TRUE) \/ SwitchEnds(FALSE)
  <2>1. switching /\ UNCHANGED <<pc, info, result, finished, outlived, sniffer, stopped>>
        /\ (row' = {} \/ UNCHANGED <<row, aplist>>)
    BY <1>5 DEF SwitchEnds
  <2>2. ~outlived => pc = "aha_wait"
    BY <2>1 DEF SwitchInv
  <2> QED BY <2>1, <2>2 DEF HotspotInv, TakenInv, Entering, Scanning, Listed, Full
<1>6. CASE Panic
  BY <1>6 DEF Panic, HotspotInv, TakenInv, Entering, Scanning, Idle
<1> QED BY <1>2, <1>3, <1>4, <1>5, <1>6, ScanStep, TurnStep, JudgeStep, SniffStep, Zenon
        DEF Next, Main, Stopper, Sniffer, Switcher

-----------------------------------------------------------------------------
(* The theorems.                                                             *)

ProvisionInv == TypeOK /\ StopInv /\ SwitchInv /\ HotspotInv

\* The invariants hold together.
LEMMA ProvisionInvariant == Spec => []ProvisionInv
<1>1. Init => ProvisionInv
  BY TypeInit, StopInit, SwitchInit, HotspotInit DEF ProvisionInv
<1>2. ProvisionInv /\ [Next]_vars => ProvisionInv'
  BY TypeStep, StopStep, SwitchStep, HotspotStep, Zenon DEF ProvisionInv
<1> QED BY <1>1, <1>2, PTL DEF Spec

(***************************************************************************)
(* The variables of the provisioning stay in their types.                  *)
(***************************************************************************)
THEOREM ProvisionTypes == Spec => []TypeOK
BY ProvisionInvariant, PTL DEF ProvisionInv

(***************************************************************************)
(* awss_start returns 0 only on the router, whatever the order of its      *)
(* timeouts, the request to switch the access point, the stop and what the *)
(* driver does late, unless such a request outlived its wait.              *)
(***************************************************************************)
THEOREM StartedOnRouter == Spec => []StartedMeansOnRouter
<1>1. Init => StartedMeansOnRouter
  BY DEF Init, StartedMeansOnRouter
<1>2. ProvisionInv /\ StartedMeansOnRouter /\ [Next]_vars => StartedMeansOnRouter'
  BY ReturnedStep, Zenon DEF ProvisionInv
<1> QED BY <1>1, <1>2, ProvisionInvariant, PTL DEF Spec

(***************************************************************************)
(* A call that goes on does not take a hotspot again before the list is    *)
(* cleared, unless the full list has no place for it.                      *)
(***************************************************************************)
THEOREM HotspotOnce == Spec => NoHotspotTwice
<1>1. ASSUME ProvisionInv, [Next]_vars
      PROVE  [pc = "result" /\ pc' = "destroy" =>
                \/ result' \notin row
                \/ Full /\ result' \notin aplist.known
                \/ stopped \/ outlived]_vars
  <2> SUFFICES ASSUME pc = "result", pc' = "destroy", ~stopped, ~outlived
               PROVE  Fresh(result')
    BY DEF Fresh
  <2> USE DEF shared, locks, flags, lan, bounds, MainKeeps, Goto, StartKeeps, DestroyKeeps,
              SnifferKeeps, ConnectKeeps, DriverKeeps
  <2>1. TakeResult
    <3>1. ASSUME ~TakeResult PROVE pc' = pc \/ pc # "result" \/ pc' = "idle"
      BY <1>1, <3>1 DEF Next, Main, Stopper, Sniffer, Switcher, vars, Start, PressLapses, Enter,
         Prepare, Open, ScanHead, ReceiveHead, TimesOut, ScanAgain, ReceiveAgain, Pause, PauseEnds,
         Resume, Reopen, End, StarterDestroys, Connect, ConnectEnds, JudgeAdha, AdhaEnds, JudgeAha,
         AhaEnds, Finish, StopBegins, StopConnecting, StopperDestroys, StopEnds, Sniff, Beacon,
         Handle, Over, Release, Check, SwitchBegins, SwitchEnds, Join, Drop, Panic, Destroy,
         DestroyWaits
    <3> QED BY <3>1
  <2>2. result' = IF info.state = "success" THEN result ELSE Nobody
    BY <2>1 DEF TakeResult
  <2>3. Received => Fresh(result)
    BY <1>1 DEF ProvisionInv, HotspotInv, TakenInv, Scanning
  <2>4. row \subseteq Hotspots
    BY <1>1 DEF ProvisionInv, TypeOK
  <2> QED BY <2>2, <2>3, <2>4 DEF Received, Fresh, Hotspots, Nobody
<1> QED BY <1>1, ProvisionInvariant, PTL DEF Spec, NoHotspotTwice

-----------------------------------------------------------------------------
(* The registrar.                                                            *)

USE RegistrarAssumption

(***************************************************************************)
(* The table and the frame are made of names, randoms and ciphers.         *)
(***************************************************************************)
AnyKey == [dev : Devices \cup {NoDevice}, random : Nat]
Place == [state : States, dev : Devices \cup {NoDevice}, random : Nat, key : AnyKey,
          late : BOOLEAN]

Types ==
    /\ enrollee \in [Entries -> Place]
    /\ frame \in [dev : Devices \cup {NoDevice}, random : Nat, key : AnyKey]
    /\ random \in [Devices -> Nat]
    /\ checkins \in [Devices -> Nat]

(***************************************************************************)
(* What enrollee_enable_somebody_checkin and enrollee_enable_somebody_-    *)
(* cipher leave in a place, and what happens to the table in between must  *)
(* not spoil: only a device the cloud has checked in waits for a cipher or *)
(* is served, and only under its own cipher, or the zero key of a reply    *)
(* without one.                                                            *)
(***************************************************************************)
Own(e, lacking) == e.key.dev = e.dev \/ (e.key = NoKey /\ e.dev \in lacking)

Checked(e, count, lacking) ==
    /\ e.state \in {"CHECKIN_ENABLE", "CHECKIN_CIPHER", "CHECKIN_ONGOING"}
         => e.dev \in Devices /\ count[e.dev] > 0
    /\ e.state \in {"CHECKIN_CIPHER", "CHECKIN_ONGOING"} => Own(e, lacking)

TableInv == \A i \in Entries : Checked(enrollee[i], checkins, bare)

AdmissionInv == Types /\ TableInv /\ PasswordOnlyToAdmitted

(***************************************************************************)
(* struct enrollee_info set to zero is a free place.                       *)
(***************************************************************************)
LEMMA BlankPlace == Blank \in Place /\ Blank.state = "FREE"
  BY DEF Blank, Place, NoKey, AnyKey, States

(***************************************************************************)
(* awss_registrar_init: an empty table and no frame.                       *)
(***************************************************************************)
LEMMA AdmissionInit == RegistrarInit => AdmissionInv
<1> SUFFICES ASSUME RegistrarInit PROVE AdmissionInv
  OBVIOUS
<1>1. enrollee \in [Entries -> Place] /\ \A i \in Entries : enrollee[i].state = "FREE"
  BY BlankPlace DEF RegistrarInit
<1>2. frame \in [dev : Devices \cup {NoDevice}, random : Nat, key : AnyKey] /\ frame.dev = NoDevice
  BY DEF RegistrarInit, Silence, NoKey, AnyKey
<1>3. random \in [Devices -> Nat] /\ checkins \in [Devices -> Nat]
  BY DEF RegistrarInit
<1> QED  BY <1>1, <1>2, <1>3 DEF AdmissionInv, Types, TableInv, Checked, Own, PasswordOnlyToAdmitted

(***************************************************************************)
(* A step that changes one place of the table keeps the invariant when the *)
(* place it writes is of the right kind; checkins and bare only grow.      *)
(***************************************************************************)
LEMMA OnePlaceStep ==
  ASSUME AdmissionInv, NEW i \in Entries, NEW e \in Place, Checked(e, checkins', bare'),
         enrollee' = [enrollee EXCEPT ![i] = e],
         UNCHANGED <<frame, random>>, bare \subseteq bare',
         checkins' \in [Devices -> Nat], \A d \in Devices : checkins'[d] >= checkins[d]
  PROVE  AdmissionInv'
<1> USE DEF AdmissionInv, Types
<1>1. enrollee' \in [Entries -> Place]
  OBVIOUS
<1>2. ASSUME NEW j \in Entries PROVE Checked(enrollee[j], checkins, bare)'
  <2>1. CASE enrollee'[j] = e
    BY <2>1 DEF Checked, Own
  <2>2. CASE enrollee'[j] = enrollee[j]
    BY <2>2 DEF TableInv, Checked, Own
  <2> QED  BY <2>1, <2>2
<1>3. PasswordOnlyToAdmitted'
  BY DEF PasswordOnlyToAdmitted
<1> QED  BY <1>1, <1>2, <1>3 DEF TableInv

(***************************************************************************)
(* Steps of messages, timers and the daemon that leave table and frame.    *)
(***************************************************************************)
LEMMA QuietStep ==
  ASSUME AdmissionInv, UNCHANGED <<enrollee, frame, checkins>>, random' \in [Devices -> Nat],
         bare \subseteq bare'
  PROVE  AdmissionInv'
  BY DEF AdmissionInv, Types, TableInv, Checked, Own, PasswordOnlyToAdmitted

(***************************************************************************)
(* enrollee_put: a device heard is not checked in.                         *)
(***************************************************************************)
LEMMA HearStep ==
  ASSUME AdmissionInv, NEW d \in Devices, Hear(d)
  PROVE  AdmissionInv'
<1> USE DEF AdmissionInv, Types
<1>1. UNCHANGED <<frame, random, checkins, bare>> /\ random[d] \in Nat
  BY DEF Hear
<1>2. checkins' \in [Devices -> Nat] /\ \A x \in Devices : checkins'[x] >= checkins[x]
  BY <1>1
<1>3. CASE HearKnown(d)
  <2>1. PICK i \in PlacesOf(d, Live) :
          enrollee' = IF enrollee[i].state = "IN_QUEUE"
                      THEN [enrollee EXCEPT ![i].random = random[d]] ELSE enrollee
    BY <1>3 DEF HearKnown
  <2>2. i \in Entries
    BY DEF PlacesOf, In
  <2>3. CASE enrollee[i].state = "IN_QUEUE"
    <3> DEFINE e == [enrollee[i] EXCEPT !.random = random[d]]
    <3>1. e \in Place /\ e.state = "IN_QUEUE"
      BY <1>1, <2>2, <2>3 DEF Place
    <3>2. enrollee' = [enrollee EXCEPT ![i] = e]
      BY <2>1, <2>3
    <3>3. Checked(e, checkins', bare')
      BY <3>1 DEF Checked, Own
    <3> HIDE DEF e
    <3> QED  BY <1>1, <1>2, <2>2, <3>1, <3>2, <3>3, OnePlaceStep
  <2>4. CASE enrollee[i].state # "IN_QUEUE"
    BY <1>1, <2>1, <2>4, QuietStep
  <2> QED  BY <2>3, <2>4
<1>4. CASE HearNew(d)
  <2> DEFINE e == [Blank EXCEPT !.state = "IN_QUEUE", !.dev = d, !.random = random[d]]
  <2>1. PICK i \in In({"FREE"}) : enrollee' = [enrollee EXCEPT ![i] = e]
    BY <1>4 DEF HearNew
  <2>2. i \in Entries
    BY DEF In
  <2>3. e \in Place /\ e.state = "IN_QUEUE"
    BY <1>1, BlankPlace DEF Place, Blank, States, NoKey, AnyKey
  <2>4. Checked(e, checkins', bare')
    BY <2>3 DEF Checked, Own
  <2> HIDE DEF e
  <2> QED  BY <1>1, <1>2, <2>1, <2>2, <2>3, <2>4, OnePlaceStep
<1> QED  BY <1>3, <1>4 DEF Hear

(***************************************************************************)
(* enrollee_report: a device that is reported, or forgotten, is not        *)
(* checked in.                                                             *)
(***************************************************************************)
LEMMA ReportStep ==
  ASSUME AdmissionInv, Report \/ Published
  PROVE  AdmissionInv'
<1> USE DEF AdmissionInv, Types
<1>1. UNCHANGED <<frame, random, checkins, bare>>
  BY DEF Report, Published
<1>2. CASE Report
  <2>1. enrollee' \in [Entries -> Place]
        /\ \A i \in Entries : enrollee'[i] = Blank \/ enrollee'[i] = enrollee[i]
    BY <1>2, BlankPlace DEF Report
  <2>2. \A i \in Entries : Checked(enrollee[i], checkins, bare)'
    BY <1>1, <2>1, BlankPlace DEF TableInv, Checked, Own
  <2> QED  BY <1>1, <2>1, <2>2 DEF TableInv, PasswordOnlyToAdmitted
<1>3. CASE Published
  <2>1. enrollee' = [enrollee EXCEPT ![daemon.place].state = "FOUND",
                                     ![daemon.place].late = FALSE]
    BY <1>3 DEF Published
  <2>2. ASSUME NEW i \in Entries
        PROVE  \/ enrollee'[i] = enrollee[i]
               \/ enrollee'[i] \in Place /\ enrollee'[i].state = "FOUND"
    BY <2>1 DEF Place, States
  <2>3. enrollee' \in [Entries -> Place]
    BY <2>1, <2>2
  <2>4. \A i \in Entries : Checked(enrollee[i], checkins, bare)'
    BY <1>1, <2>2 DEF TableInv, Checked, Own
  <2> QED  BY <1>1, <2>3, <2>4 DEF TableInv, PasswordOnlyToAdmitted
<1> QED  BY <1>2, <1>3

(***************************************************************************)
(* enrollee_checkin up to the transmission: the frame is made of a place   *)
(* that has its cipher.                                                    *)
(***************************************************************************)
LEMMA CheckinStep ==
  ASSUME AdmissionInv, CheckinTimer
  PROVE  AdmissionInv'
<1> USE DEF AdmissionInv, Types
<1>1. UNCHANGED <<random, checkins, bare>>
  BY DEF CheckinTimer
<1>2. CASE UNCHANGED <<enrollee, frame>>
  BY <1>1, <1>2, QuietStep
<1>3. ASSUME NEW i \in In({"CHECKIN_CIPHER"}),
             enrollee' = [enrollee EXCEPT ![i].state = "CHECKIN_ONGOING", ![i].late = FALSE],
             frame' = FrameFor(enrollee[i])
      PROVE  AdmissionInv'
  <2>1. i \in Entries /\ enrollee[i].state = "CHECKIN_CIPHER" /\ enrollee[i] \in Place
    BY DEF In
  <2>2. enrollee[i].dev \in Devices /\ checkins[enrollee[i].dev] > 0
        /\ Own(enrollee[i], bare)
    BY <2>1 DEF TableInv, Checked, Own
  <2>3. /\ frame'.dev = enrollee[i].dev /\ frame'.key = enrollee[i].key
        /\ frame' \in [dev : Devices \cup {NoDevice}, random : Nat, key : AnyKey]
    BY <1>3, <2>1 DEF FrameFor, Place
  <2>4. PasswordOnlyToAdmitted'
    BY <1>1, <2>2, <2>3 DEF PasswordOnlyToAdmitted, Own
  <2>5. enrollee' \in [Entries -> Place]
        /\ \A j \in Entries : \/ enrollee'[j] = enrollee[j]
                              \/ enrollee'[j].dev = enrollee[j].dev
                                 /\ enrollee'[j].key = enrollee[j].key /\ j = i
    BY <1>3, <2>1 DEF Place, States
  <2>6. \A j \in Entries : Checked(enrollee[j], checkins, bare)'
    BY <1>1, <2>2, <2>5 DEF TableInv, Checked, Own
  <2> QED  BY <1>1, <2>3, <2>4, <2>5, <2>6 DEF TableInv
<1> QED  BY <1>2, <1>3 DEF CheckinTimer

(***************************************************************************)
(* enrollee_checkin after the transmission: the place is emptied with the  *)
(* frame, or both are left.                                                *)
(***************************************************************************)
LEMMA SentStep ==
  ASSUME AdmissionInv, Sent
  PROVE  AdmissionInv'
<1> USE DEF AdmissionInv, Types
<1>1. UNCHANGED <<random, checkins, bare>>
  BY DEF Sent
<1>2. CASE UNCHANGED <<enrollee, frame>>
  BY <1>1, <1>2, QuietStep
<1>3. CASE enrollee' = [enrollee EXCEPT ![daemon.place] = Blank] /\ frame' = Silence
  <2>1. enrollee' \in [Entries -> Place]
        /\ \A i \in Entries : enrollee'[i] = Blank \/ enrollee'[i] = enrollee[i]
    BY <1>3, BlankPlace
  <2>2. \A i \in Entries : Checked(enrollee[i], checkins, bare)'
    BY <1>1, <2>1, BlankPlace DEF TableInv, Checked, Own
  <2>3. frame'.dev = NoDevice
        /\ frame' \in [dev : Devices \cup {NoDevice}, random : Nat, key : AnyKey]
    BY <1>3 DEF Silence, NoKey, AnyKey
  <2> QED  BY <1>1, <2>1, <2>2, <2>3 DEF TableInv, PasswordOnlyToAdmitted
<1> QED  BY <1>2, <1>3 DEF Sent

(***************************************************************************)
(* The handlers of the cloud: enrollee_enable_somebody_checkin counts the  *)
(* check-in of the device in the place, and _cipher gives the key of a     *)
(* reply to a place of the same device.                                    *)
(***************************************************************************)
LEMMA EnableStep ==
  ASSUME AdmissionInv,
         \/ \E d \in Devices : EnableCheckin(d)
         \/ \E k \in Key : EnableCipher(k) \/ EnableBare(k)
  PROVE  AdmissionInv'
<1> USE DEF AdmissionInv, Types
<1>1. ASSUME NEW d \in Devices, EnableCheckin(d) PROVE AdmissionInv'
  <2>1. PICK i \in PlacesOf(d, {"FOUND"}) :
          enrollee' = [enrollee EXCEPT ![i].state = "CHECKIN_ENABLE", ![i].late = FALSE]
    BY <1>1 DEF EnableCheckin
  <2>2. i \in Entries /\ enrollee[i].dev = d
    BY DEF PlacesOf, In
  <2>3. checkins' = [checkins EXCEPT ![d] = @ + 1] /\ UNCHANGED <<frame, random, bare>>
    BY <1>1 DEF EnableCheckin
  <2>4. checkins' \in [Devices -> Nat] /\ checkins'[d] > 0
        /\ \A x \in Devices : checkins'[x] >= checkins[x]
    BY <2>3
  <2> DEFINE e == [enrollee[i] EXCEPT !.state = "CHECKIN_ENABLE", !.late = FALSE]
  <2>5. e \in Place /\ e.state = "CHECKIN_ENABLE" /\ e.dev = d
    <3>1. enrollee[i] \in Place /\ "CHECKIN_ENABLE" \in States
      BY <2>2 DEF States
    <3> QED  BY <2>2, <3>1 DEF Place
  <2>6. enrollee' = [enrollee EXCEPT ![i] = e]
    BY <2>1
  <2>7. Checked(e, checkins', bare')
    BY <2>4, <2>5 DEF Checked, Own
  <2> HIDE DEF e
  <2> QED  BY <2>2, <2>3, <2>4, <2>5, <2>6, <2>7, OnePlaceStep
<1>2. ASSUME NEW k \in Key, EnableCipher(k) \/ EnableBare(k) PROVE AdmissionInv'
  <2>1. UNCHANGED <<frame, random, checkins>> /\ bare \subseteq bare'
    BY <1>2 DEF EnableCipher, EnableBare, GiveKey
  <2>2. CASE UNCHANGED enrollee
    BY <2>1, <2>2, QuietStep
  <2>3. ASSUME NEW i \in PlacesOf(k.dev, {"CHECKIN_ENABLE"}), NEW key \in AnyKey,
               key = k \/ (key = NoKey /\ k.dev \in bare'),
               enrollee' = [enrollee EXCEPT ![i].state = "CHECKIN_CIPHER", ![i].key = key]
        PROVE  AdmissionInv'
    <3>1. i \in Entries /\ enrollee[i].dev = k.dev
          /\ enrollee[i].state = "CHECKIN_ENABLE"
      BY DEF PlacesOf, In
    <3>2. k.dev \in Devices /\ checkins[k.dev] > 0
      BY <3>1 DEF TableInv, Checked, Own
    <3> DEFINE e == [enrollee[i] EXCEPT !.state = "CHECKIN_CIPHER", !.key = key]
    <3>3. e \in Place /\ e.state = "CHECKIN_CIPHER" /\ e.dev = k.dev /\ e.key = key
      <4>1. enrollee[i] \in Place /\ "CHECKIN_CIPHER" \in States
        BY <3>1 DEF States
      <4> QED  BY <3>1, <4>1 DEF Place
    <3>4. enrollee' = [enrollee EXCEPT ![i] = e]
      BY <2>3
    <3>5. Checked(e, checkins', bare')
      BY <2>1, <2>3, <3>2, <3>3 DEF Checked, Own
    <3> HIDE DEF e
    <3>6. checkins' \in [Devices -> Nat] /\ \A x \in Devices : checkins'[x] >= checkins[x]
      BY <2>1
    <3> QED  BY <2>1, <3>1, <3>3, <3>4, <3>5, <3>6, OnePlaceStep
  <2>4. k \in AnyKey /\ NoKey \in AnyKey
    BY DEF Key, AnyKey, NoKey
  <2>5. CASE GiveKey(k, k)
    BY <2>2, <2>3, <2>4, <2>5 DEF GiveKey
  <2>6. CASE GiveKey(k, NoKey) /\ bare' = bare \cup {k.dev}
    BY <2>2, <2>3, <2>4, <2>6 DEF GiveKey
  <2> QED  BY <1>2, <2>5, <2>6 DEF EnableCipher, EnableBare
<1> QED  BY <1>1, <1>2

(***************************************************************************)
(* online_dev_bind_monitor, awss_registrar_init and the passing of time    *)
(* empty places or leave them to who is in them.                           *)
(***************************************************************************)
LEMMA OtherStep ==
  ASSUME AdmissionInv,
         \/ \E d \in Devices : Monitor(d)
         \/ \E i \in Entries : Passes(i)
         \/ StartRegistrar
  PROVE  AdmissionInv'
<1> USE DEF AdmissionInv, Types
<1>1. UNCHANGED <<frame, random, checkins, bare>>
  BY DEF Monitor, Passes, StartRegistrar
<1>2. enrollee' \in [Entries -> Place]
      /\ \A i \in Entries : \/ enrollee'[i].state = "FREE"
                            \/ /\ enrollee'[i].state = enrollee[i].state
                               /\ enrollee'[i].dev = enrollee[i].dev
                               /\ enrollee'[i].key = enrollee[i].key
  <2>1. CASE \E d \in Devices : Monitor(d)
    <3>1. \A i \in Entries : [Blank EXCEPT !.late = enrollee[i].late] \in Place
                             /\ [Blank EXCEPT !.late = enrollee[i].late].state = "FREE"
      BY BlankPlace DEF Place, Blank
    <3> QED  BY <2>1, <3>1 DEF Monitor
  <2>2. ASSUME NEW i \in Entries, Passes(i)
        PROVE  /\ enrollee' \in [Entries -> Place]
               /\ \A j \in Entries : /\ enrollee'[j].state = enrollee[j].state
                                     /\ enrollee'[j].dev = enrollee[j].dev
                                     /\ enrollee'[j].key = enrollee[j].key
    <3> DEFINE e == [enrollee[i] EXCEPT !.late = TRUE]
    <3>1. e \in Place /\ e.state = enrollee[i].state /\ e.dev = enrollee[i].dev
          /\ e.key = enrollee[i].key
      <4>1. enrollee[i] \in Place
        OBVIOUS
      <4> QED  BY <4>1 DEF Place
    <3>2. enrollee' = [enrollee EXCEPT ![i] = e]
      BY <2>2 DEF Passes
    <3> HIDE DEF e
    <3> QED  BY <3>1, <3>2
  <2>3. CASE StartRegistrar
    BY <2>3, BlankPlace DEF StartRegistrar
  <2> QED  BY <2>1, <2>2, <2>3
<1>3. \A i \in Entries : Checked(enrollee[i], checkins, bare)'
  BY <1>1, <1>2 DEF TableInv, Checked, Own
<1> QED  BY <1>1, <1>2, <1>3 DEF TableInv, PasswordOnlyToAdmitted

(***************************************************************************)
(* registrar_raw_frame_send: the password is broadcast only for a device   *)
(* the cloud has checked in, and under the cipher of that device, whatever *)
(* the four threads do to the table in between; under the zero key only    *)
(* after a reply of the cloud that lacked the cipher of that device.       *)
(***************************************************************************)
THEOREM PasswordStaysWithAdmitted == RegistrarSpec => []PasswordOnlyToAdmitted
<1>1. ASSUME AdmissionInv, [RegistrarNext]_registrarVars PROVE AdmissionInv'
  <2>1. CASE \E d \in Devices : Hear(d)
    BY <1>1, <2>1, HearStep
  <2>2. CASE Report \/ Published
    BY <1>1, <2>2, ReportStep
  <2>3. CASE CheckinTimer
    BY <1>1, <2>3, CheckinStep
  <2>4. CASE Sent
    BY <1>1, <2>4, SentStep
  <2>5. CASE \/ \E d \in Devices : EnableCheckin(d)
             \/ \E k \in Key : EnableCipher(k) \/ EnableBare(k)
    BY <1>1, <2>5, EnableStep
  <2>6. CASE \/ \E d \in Devices : Monitor(d)
             \/ \E i \in Entries : Passes(i)
             \/ StartRegistrar
    BY <1>1, <2>6, OtherStep
  <2>7. random \in [Devices -> Nat]
    BY <1>1 DEF AdmissionInv, Types
  <2>8. CASE ReportTimer \/ Stop \/ UNCHANGED registrarVars
    BY <1>1, <2>7, <2>8, QuietStep DEF ReportTimer, Stop, registrarVars, table
  <2>9. ASSUME NEW d \in Devices, SetInterval(d) \/ Restart(d) \/ LoseReply(d) PROVE AdmissionInv'
    <3>1. random' \in [Devices -> Nat] /\ UNCHANGED <<enrollee, frame, checkins, bare>>
      BY <2>7, <2>9 DEF SetInterval, Restart, LoseReply, table
    <3> QED  BY <1>1, <3>1, QuietStep
  <2>10. CASE \E k \in Key : LoseCipher(k)
    BY <1>1, <2>7, <2>10, QuietStep DEF LoseCipher, table
  <2> QED  BY <1>1, <2>1, <2>2, <2>3, <2>4, <2>5, <2>6, <2>8, <2>9, <2>10 DEF RegistrarNext, Daemon
<1>2. AdmissionInv => PasswordOnlyToAdmitted
  BY DEF AdmissionInv
<1> QED  BY <1>1, <1>2, AdmissionInit, PTL DEF RegistrarSpec

=============================================================================

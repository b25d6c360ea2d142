------------------------------ MODULE Registrar ------------------------------
(***************************************************************************)
(* A device that is on the network hands the password of the router to     *)
(* devices that are not: wifi_provision/zero_config/awss_registrar.c.  It  *)
(* hears them broadcast, reports them to the cloud, and once the cloud     *)
(* checks one in it asks for that device's cipher and broadcasts the       *)
(* password under it until the device is heard on the network or its time  *)
(* is over.                                                                *)
(*                                                                         *)
(* Nothing locks the table enrollee_info.  Four threads work on it: the    *)
(* Wi-Fi task (Hear), the thread that yields to MQTT (SetInterval,         *)
(* EnableCheckin, EnableCipher), the CoAP server (Monitor) and the daemon  *)
(* of the timers, which runs enrollee_report and enrollee_checkin and may  *)
(* block while it publishes or transmits: there the others come between.   *)
(* Every other handler is one step.                                        *)
(*                                                                         *)
(* No name is one of Provision's: WifiProofs extends both modules.         *)
(***************************************************************************)
EXTENDS Naturals

CONSTANTS
    Devices,     \* devices that want to get on the network
    NoDevice,    \* no device
    Slots,       \* the number of places of the table: MAX_ENROLLEE_NUM
    MaxCheckins, \* how often the cloud checks a device in
    MaxAnswers,  \* replies of one cipher on their way
    MaxFaults    \* lost messages, replies without a cipher, stops, restarts of devices

ASSUME RegistrarAssumption ==
    /\ NoDevice \notin Devices
    /\ Slots \in Nat /\ MaxCheckins \in Nat /\ MaxAnswers \in Nat /\ MaxFaults \in Nat

VARIABLES
    enrollee,       \* enrollee_info
    inited,         \* registrar_inited
    checkin_timer, report_timer,
    daemon,         \* where the daemon of the timers is, and at which place
    frame,          \* registrar_frame
    random,         \* aes_random of the devices
    replies,        \* devices whose report, or the reply to it, is on its way
    ciphers,        \* how many requests of a cipher, or the replies, are
    checkins,       \* how often the cloud has checked each device in
    cut,            \* whether a cipher was lost
    bare,           \* devices for which a reply without a cipher came
    faults

table == <<enrollee, inited>>
timers == <<checkin_timer, report_timer>>
mail == <<replies, ciphers>>
registrarVars == <<table, timers, daemon, frame, random, mail, checkins, cut, bare, faults>>

Entries == 1 .. Slots
States == {"FREE", "IN_QUEUE", "FOUND", "CHECKIN_ENABLE", "CHECKIN_CIPHER", "CHECKIN_ONGOING"}

\* The cipher of a device is of its name and of the random it was asked with.
Key == [dev : Devices, random : 0 .. MaxFaults]
NoKey == [dev |-> NoDevice, random |-> 0]

\* A place set to zero: its timestamps are long past.
Blank == [state |-> "FREE", dev |-> NoDevice, random |-> 0, key |-> NoKey, late |-> TRUE]

Of(d, r) == [dev |-> d, random |-> r]
Silence == [dev |-> NoDevice, random |-> 0, key |-> NoKey]

RegistrarInit ==
    /\ enrollee = [i \in Entries |-> Blank] /\ inited = TRUE
    /\ checkin_timer = "none" /\ report_timer = "none"
    /\ daemon = [at |-> "idle", place |-> 1]
    /\ frame = Silence /\ random = [d \in Devices |-> 0]
    /\ replies = {} /\ ciphers = [k \in Key |-> 0] /\ cut = FALSE /\ bare = {}
    /\ checkins = [d \in Devices |-> 0] /\ faults = 0

\* The place the loops over the table stop at.
IsFirst(i, S) == i \in S /\ \A j \in S : i <= j
In(states) == {i \in Entries : enrollee[i].state \in states}
PlacesOf(d, states) == {i \in In(states) : enrollee[i].dev = d}

\* HAL_Timer_Start fails without a timer.
Armed(timer) == IF timer = "none" THEN "none" ELSE "armed"

-----------------------------------------------------------------------------
(* The Wi-Fi task: enrollee_put.                                            *)

Live == States \ {"FREE"}

\* Known devices keep their place; a random heard after the report is ignored.
HearKnown(d) ==
    \E i \in PlacesOf(d, Live) :
        /\ IsFirst(i, PlacesOf(d, Live))
        /\ enrollee' = IF enrollee[i].state = "IN_QUEUE"
                       THEN [enrollee EXCEPT ![i].random = random[d]]
                       ELSE enrollee
        /\ report_timer' = IF enrollee[i].state = "FOUND" /\ enrollee[i].late
                           THEN "armed" ELSE report_timer

HearNew(d) ==
    /\ PlacesOf(d, Live) = {}
    /\ \E i \in In({"FREE"}) :
          /\ IsFirst(i, In({"FREE"}))
          /\ enrollee' = [enrollee EXCEPT ![i] =
                [Blank EXCEPT !.state = "IN_QUEUE", !.dev = d, !.random = random[d]]]
    /\ report_timer' = "armed"

\* Nothing is said to a device for which there is no place.
Hear(d) ==
    /\ HearKnown(d) \/ HearNew(d)
    /\ UNCHANGED <<inited, checkin_timer, daemon, frame, random, mail, checkins, cut, bare, faults>>

-----------------------------------------------------------------------------
(* The daemon of the timers.                                                *)

ReportTimer ==
    /\ report_timer = "armed" /\ daemon.at = "idle"
    /\ report_timer' = "idle"
    /\ daemon' = [at |-> "report", place |-> 1]
    /\ UNCHANGED <<table, checkin_timer, frame, random, mail, checkins, cut, bare, faults>>

\* enrollee_report: devices that were reported long ago are forgotten up to the
\* next one in the queue, which is reported; the daemon is in the publishing.
Report ==
    /\ daemon.at = "report"
    /\ LET rest == {i \in Entries : i >= daemon.place}
           queue == In({"IN_QUEUE"}) \cap rest
           seen == {i \in rest : \A j \in queue : i < j}
       IN /\ enrollee' = [i \in Entries |->
                IF i \in seen /\ enrollee[i].state = "FOUND" /\ enrollee[i].late
                THEN Blank ELSE enrollee[i]]
          /\ \/ /\ queue = {}
                /\ daemon' = [daemon EXCEPT !.at = "idle"]
                /\ UNCHANGED replies
             \/ \E i \in queue :
                /\ IsFirst(i, queue)
                /\ replies' = replies \cup {enrollee[i].dev}
                /\ daemon' = [at |-> "publish", place |-> i]
    /\ UNCHANGED <<inited, timers, frame, random, ciphers, checkins, cut, bare, faults>>

\* Whether it was published or not, the device counts as reported.
Published ==
    /\ daemon.at = "publish"
    /\ enrollee' = [enrollee EXCEPT ![daemon.place].state = "FOUND",
                                    ![daemon.place].late = FALSE]
    /\ daemon' = [at |-> "report", place |-> daemon.place + 1]
    /\ UNCHANGED <<inited, timers, frame, random, mail, checkins, cut, bare, faults>>

\* registrar_raw_frame_init
FrameFor(e) == [dev |-> e.dev, random |-> e.random, key |-> e.key]

\* enrollee_checkin: one device is served at a time; without one the last that
\* has its cipher begins, without that the cipher of the first is asked for.
CheckinTimer ==
    /\ checkin_timer = "armed" /\ daemon.at = "idle"
    /\ checkin_timer' = "idle"
    /\ \/ \E i \in In({"CHECKIN_ONGOING"}) :
             /\ IsFirst(i, In({"CHECKIN_ONGOING"}))
             /\ daemon' = [at |-> "send", place |-> i]
             /\ UNCHANGED <<enrollee, frame, ciphers>>
       \/ /\ In({"CHECKIN_ONGOING"}) = {}
          /\ \E i \in In({"CHECKIN_CIPHER"}) :
                /\ \A j \in In({"CHECKIN_CIPHER"}) : j <= i
                /\ enrollee' = [enrollee EXCEPT ![i].state = "CHECKIN_ONGOING", ![i].late = FALSE]
                /\ frame' = FrameFor(enrollee[i])
                /\ daemon' = [at |-> "send", place |-> i]
                /\ UNCHANGED ciphers
       \/ /\ In({"CHECKIN_ONGOING", "CHECKIN_CIPHER"}) = {}
          /\ \E i \in In({"CHECKIN_ENABLE"}) :
                /\ IsFirst(i, In({"CHECKIN_ENABLE"}))
                /\ ciphers' = [ciphers EXCEPT ![Of(enrollee[i].dev, enrollee[i].random)] =
                                   IF @ < MaxAnswers THEN @ + 1 ELSE @]
          /\ UNCHANGED <<enrollee, frame, daemon>>
       \/ /\ In({"CHECKIN_ONGOING", "CHECKIN_CIPHER", "CHECKIN_ENABLE"}) = {}
          /\ UNCHANGED <<enrollee, frame, daemon, ciphers>>
    /\ UNCHANGED <<inited, report_timer, random, replies, checkins, cut, bare, faults>>

\* Mutant: the timer goes on only for a device that is still served.
SentOnceOver ==
    /\ daemon.at = "send"
    /\ IF enrollee[daemon.place].late
       THEN /\ enrollee' = [enrollee EXCEPT ![daemon.place] = Blank]
            /\ frame' = Silence
            /\ UNCHANGED checkin_timer
       ELSE /\ checkin_timer' = Armed(checkin_timer)
            /\ UNCHANGED <<enrollee, frame>>
    /\ daemon' = [daemon EXCEPT !.at = "idle"]
    /\ UNCHANGED <<inited, report_timer, random, mail, checkins, cut, bare, faults>>

\* The time of the place is looked at after the transmission, whoever is there.
Sent ==
    /\ daemon.at = "send"
    /\ IF enrollee[daemon.place].late
       THEN /\ enrollee' = [enrollee EXCEPT ![daemon.place] = Blank]
            /\ frame' = Silence
       ELSE UNCHANGED <<enrollee, frame>>
    /\ checkin_timer' = Armed(checkin_timer)
    /\ daemon' = [daemon EXCEPT !.at = "idle"]
    /\ UNCHANGED <<inited, report_timer, random, mail, checkins, cut, bare, faults>>

\* interval and checkin_timeout pass.
Passes(i) ==
    /\ enrollee[i].state \in {"FOUND", "CHECKIN_ONGOING"} /\ ~enrollee[i].late
    /\ enrollee' = [enrollee EXCEPT ![i].late = TRUE]
    /\ UNCHANGED <<inited, timers, daemon, frame, random, mail, checkins, cut, bare, faults>>

-----------------------------------------------------------------------------
(* The thread that yields to MQTT, and the CoAP server.                     *)

\* awss_report_set_interval, the only place that creates the timer.  A device
\* whose report is still being published is not found.
SetInterval(d) ==
    /\ d \in replies
    /\ replies' = replies \ {d}
    /\ checkin_timer' = IF PlacesOf(d, {"FOUND"}) = {} THEN checkin_timer ELSE "armed"
    /\ UNCHANGED <<table, report_timer, daemon, frame, random, ciphers,
                   checkins, cut, bare, faults>>

\* enrollee_enable_somebody_checkin: the user chooses a device.
EnableCheckin(d) ==
    /\ checkins[d] < MaxCheckins
    /\ \E i \in PlacesOf(d, {"FOUND"}) :
          /\ IsFirst(i, PlacesOf(d, {"FOUND"}))
          /\ enrollee' = [enrollee EXCEPT ![i].state = "CHECKIN_ENABLE", ![i].late = FALSE]
    /\ checkin_timer' = Armed(checkin_timer)
    /\ checkins' = [checkins EXCEPT ![d] = @ + 1]
    /\ UNCHANGED <<inited, report_timer, daemon, frame, random, mail, cut, bare, faults>>

\* Mutant: a cipher is given to the first device that waits for one.
EnableAnyCipher(k) ==
    /\ ciphers[k] > 0
    /\ ciphers' = [ciphers EXCEPT ![k] = @ - 1]
    /\ \/ /\ In({"CHECKIN_ENABLE"}) = {}
          /\ UNCHANGED <<enrollee, checkin_timer>>
       \/ \E i \in In({"CHECKIN_ENABLE"}) :
             /\ IsFirst(i, In({"CHECKIN_ENABLE"}))
             /\ enrollee' = [enrollee EXCEPT ![i].state = "CHECKIN_CIPHER", ![i].key = k]
             /\ checkin_timer' = Armed(checkin_timer)
    /\ UNCHANGED <<inited, report_timer, daemon, frame, random, replies,
                   checkins, cut, bare, faults>>

\* enrollee_enable_somebody_cipher: a reply is known by its device alone.
GiveKey(k, key) ==
    /\ ciphers[k] > 0
    /\ ciphers' = [ciphers EXCEPT ![k] = @ - 1]
    /\ \/ /\ PlacesOf(k.dev, {"CHECKIN_ENABLE"}) = {}
          /\ UNCHANGED <<enrollee, checkin_timer>>
       \/ \E i \in PlacesOf(k.dev, {"CHECKIN_ENABLE"}) :
             /\ IsFirst(i, PlacesOf(k.dev, {"CHECKIN_ENABLE"}))
             /\ enrollee' = [enrollee EXCEPT ![i].state = "CHECKIN_CIPHER", ![i].key = key]
             /\ checkin_timer' = Armed(checkin_timer)
    /\ UNCHANGED <<inited, report_timer, daemon, frame, random, replies, checkins, cut>>

EnableCipher(k) == GiveKey(k, k) /\ UNCHANGED <<bare, faults>>

\* A reply without a cipher, or with one too long, is no error: the key is zero.
EnableBare(k) ==
    /\ faults < MaxFaults
    /\ faults' = faults + 1
    /\ bare' = bare \cup {k.dev}
    /\ GiveKey(k, NoKey)

\* online_dev_bind_monitor: a device that was served is heard on the network.
\* Its frame is not freed.
Monitor(d) ==
    /\ PlacesOf(d, {"CHECKIN_ONGOING"}) # {}
    /\ enrollee' = [i \in Entries |->
          IF i \in PlacesOf(d, {"CHECKIN_ONGOING"})
          THEN [Blank EXCEPT !.late = enrollee[i].late] ELSE enrollee[i]]
    /\ UNCHANGED <<inited, timers, daemon, frame, random, mail, checkins, cut, bare, faults>>

-----------------------------------------------------------------------------
(* awss_registrar_deinit and awss_registrar_init.  The port does not take   *)
(* the callback of the frames away (HAL_Wifi_Enable_Mgmt_Frame_Filter), so  *)
(* that devices are heard as before.                                        *)

Stop ==
    /\ faults < MaxFaults
    /\ faults' = faults + 1
    /\ inited' = FALSE
    /\ checkin_timer' = "none" /\ report_timer' = "none"
    /\ UNCHANGED <<enrollee, daemon, frame, random, mail, checkins, cut, bare>>

StartRegistrar ==
    /\ ~inited
    /\ inited' = TRUE
    /\ enrollee' = [i \in Entries |-> Blank]
    /\ UNCHANGED <<timers, daemon, frame, random, mail, checkins, cut, bare, faults>>

-----------------------------------------------------------------------------
(* The devices and the cloud.                                               *)

\* A device that is switched on again makes a new random.
Restart(d) ==
    /\ faults < MaxFaults
    /\ faults' = faults + 1
    /\ random' = [random EXCEPT ![d] = @ + 1]
    /\ UNCHANGED <<table, timers, daemon, frame, mail, checkins, cut, bare>>

\* A report, a request or a reply is lost.
LoseReply(d) ==
    /\ d \in replies /\ faults < MaxFaults
    /\ faults' = faults + 1
    /\ replies' = replies \ {d}
    /\ UNCHANGED <<table, timers, daemon, frame, random, ciphers, checkins, cut, bare>>

LoseCipher(k) ==
    /\ ciphers[k] > 0 /\ faults < MaxFaults
    /\ faults' = faults + 1
    /\ ciphers' = [ciphers EXCEPT ![k] = @ - 1]
    /\ cut' = TRUE
    /\ UNCHANGED <<table, timers, daemon, frame, random, replies, checkins, bare>>

-----------------------------------------------------------------------------
Daemon == Report \/ Published \/ Sent

RegistrarNext ==
    \/ ReportTimer \/ CheckinTimer \/ Daemon \/ Stop \/ StartRegistrar
    \/ \E i \in Entries : Passes(i)
    \/ \E d \in Devices : Hear(d) \/ SetInterval(d) \/ EnableCheckin(d) \/ Monitor(d)
    \/ \E d \in Devices : Restart(d) \/ LoseReply(d)
    \/ \E k \in Key : EnableCipher(k) \/ EnableBare(k) \/ LoseCipher(k)

RegistrarSpec == RegistrarInit /\ [][RegistrarNext]_registrarVars

\* The daemon comes back from what it does and takes the timers in the order
\* they expire in; the thread that yields is scheduled, time passes, and the
\* cloud answers a request.
Fairness ==
    /\ WF_registrarVars(Daemon) /\ SF_registrarVars(ReportTimer) /\ SF_registrarVars(CheckinTimer)
    /\ \A i \in Entries : WF_registrarVars(Passes(i))
    /\ \A d \in Devices : WF_registrarVars(SetInterval(d))
    /\ \A k \in Key : WF_registrarVars(EnableCipher(k))

FairRegistrarSpec == RegistrarSpec /\ Fairness

-----------------------------------------------------------------------------
(* Properties.                                                              *)

\* registrar_raw_frame_send: the password is broadcast only for a device that
\* the cloud has checked in, and under a cipher of that device, whatever was
\* forgotten, heard again or answered late in between; under the zero key only
\* if the cloud has left the cipher of that very device out of a reply.
PasswordOnlyToAdmitted ==
    frame.dev # NoDevice =>
        /\ checkins[frame.dev] > 0
        /\ frame.key.dev = frame.dev \/ (frame.key = NoKey /\ frame.dev \in bare)

\* enrollee_checkin serves one device after the other: each that is checked in
\* is served, and its place free again, in the end, unless its cipher was lost
\* (it is asked for only once) or there is no timer.
EachIsServed ==
    \A d \in Devices :
        PlacesOf(d, {"CHECKIN_ENABLE"}) # {}
          ~> \/ PlacesOf(d, {"CHECKIN_ENABLE", "CHECKIN_CIPHER", "CHECKIN_ONGOING"}) = {}
             \/ cut \/ checkin_timer = "none"
=============================================================================

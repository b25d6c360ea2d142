--------------------------------- MODULE Ota ---------------------------------
(***************************************************************************)
(* Over-the-air upgrades: ota/iotx_ota.c with dev_model/dm_fota.c and      *)
(* dm_cota.c, and the storage of wrappers/wrapper_ota.c.                   *)
(*                                                                         *)
(* Two threads share the OTA_Struct_t with no lock.  One processes MQTT    *)
(* messages (the yield thread of iotx_cm.c in gateway builds) and runs     *)
(* ota_callback; the other dispatches events, reports a new version to the *)
(* user and, in the user's handler, downloads it.                          *)
(*                                                                         *)
(* Abstractions.  A file is a sequence of chunks; a digest is the sequence *)
(* it was fed, md5 standing for sha256 too (both are fed the same data,    *)
(* and a configuration starts both anew).  Progress reports, error codes   *)
(* and the fetch callbacks, which nothing in the repository sets, are left *)
(* out.  A file has at least one chunk.                                    *)
(***************************************************************************)
EXTENDS Integers, Sequences

CONSTANTS
  Firmwares,          \* files announced on /ota/device/upgrade
  Configs,            \* files announced on thing/config/push and get_reply
  NoFile,
  Size,               \* [Firmwares \cup Configs -> chunks of the file]
  MaxAnnouncements,   \* bound: messages from the server
  MaxFaults,          \* bound: bad messages and failed downloads
  MaxWriteFaults      \* bound: failed writes

Files == Firmwares \cup Configs

ASSUME OtaAssumption ==
  /\ NoFile \notin Files /\ Firmwares \cap Configs = {}
  /\ Size \in [Files -> Nat \ {0}]
  /\ MaxAnnouncements \in Nat /\ MaxFaults \in Nat /\ MaxWriteFaults \in Nat

VARIABLES
  state,          \* h_ota->state
  type,           \* h_ota->type
  digest,         \* the files announced last: h_ota->md5sum (FOTA), sign (COTA)
  size_file, size_fetched,
  md5,            \* what the digest was fed; "end" once finalised
  ch_fetch,       \* the file it downloads and the chunks already read
  parsed,         \* the message ota_callback is in the middle of, or NoFile
  reported,       \* is_report_new_config of dm_fota.c and dm_cota.c
  events,         \* new-version events in the queue to the user
  pc, job,        \* the dispatching thread: where, and which perform_sync
  output,         \* the buffer of perform_sync: the chunk last fetched
  valid,          \* file_isvalid
  flash,          \* what was written since HAL_Firmware_Persistence_Start
  s_ota_handle,   \* "null", "open", or "write_err"
  announcements, faults, write_faults

handle  == <<state, type, digest, size_file, size_fetched, md5, ch_fetch>>
worker  == <<reported, events, pc, job, output, valid, flash, s_ota_handle>>
bounds  == <<announcements, faults, write_faults>>
vars    == <<handle, parsed, worker, bounds>>

Kinds == {"FOTA", "COTA"}
KindOf(f) == IF f \in Firmwares THEN "FOTA" ELSE "COTA"
Content(f) == [i \in 1 .. Size[f] |-> <<f, i>>]
End == <<NoFile, 0>>      \* the padding of a finalised digest

Init ==
  /\ state = "INITED" /\ type = "NONE" /\ digest = [k \in Kinds |-> NoFile]
  /\ size_file = 0 /\ size_fetched = 0 /\ md5 = <<>>
  /\ ch_fetch = [file |-> NoFile, read |-> 0]
  /\ parsed = NoFile
  /\ reported = [k \in Kinds |-> 0] /\ events = {}
  /\ pc = "idle" /\ job = "NONE"
  /\ output = <<NoFile, 0>> /\ valid = 0
  /\ flash = <<>> /\ s_ota_handle = "null"
  /\ announcements = 0 /\ faults = 0 /\ write_faults = 0

-----------------------------------------------------------------------------
(* ota_callback.                                                            *)

\* Up to ofc_Init.  Only a configuration starts the digest and the count anew.
Receive(f) ==
  /\ parsed = NoFile /\ announcements < MaxAnnouncements
  /\ announcements' = announcements + 1
  /\ state # "FETCHING"
  /\ digest' = [digest EXCEPT ![KindOf(f)] = f] /\ size_file' = Size[f]
  /\ IF f \in Configs THEN md5' = <<>> /\ size_fetched' = 0
                      ELSE UNCHANGED <<md5, size_fetched>>
  /\ parsed' = f
  /\ UNCHANGED <<state, type, ch_fetch, worker, faults, write_faults>>

\* Mistake: no look at the state.
ReceiveBrokenAnyTime(f) ==
  /\ f \in Firmwares
  /\ parsed = NoFile /\ announcements < MaxAnnouncements /\ faults < MaxFaults
  /\ announcements' = announcements + 1 /\ faults' = faults + 1
  /\ digest' = [digest EXCEPT ![KindOf(f)] = f]
  /\ UNCHANGED <<state, type, size_file, size_fetched, md5, ch_fetch, parsed, worker,
                 write_faults>>

\* otalib_GetParams finds no size after it has stored the digest.
ReceiveBroken(f) ==
  /\ f \in Firmwares
  /\ parsed = NoFile /\ announcements < MaxAnnouncements /\ faults < MaxFaults
  /\ announcements' = announcements + 1 /\ faults' = faults + 1
  /\ state # "FETCHING"
  /\ digest' = [digest EXCEPT ![KindOf(f)] = f]
  /\ UNCHANGED <<state, type, size_file, size_fetched, md5, ch_fetch, parsed, worker,
                 write_faults>>

StartFetching ==
  /\ parsed # NoFile
  /\ ch_fetch' = [file |-> parsed, read |-> 0]
  /\ type' = KindOf(parsed)
  /\ state' = "FETCHING"
  /\ parsed' = NoFile
  /\ UNCHANGED <<digest, size_file, size_fetched, md5, worker, bounds>>

\* ofc_Init has no memory.
StartFails ==
  /\ parsed # NoFile /\ faults < MaxFaults
  /\ faults' = faults + 1
  /\ ch_fetch' = [file |-> NoFile, read |-> 0]
  /\ parsed' = NoFile
  /\ UNCHANGED <<state, type, digest, size_file, size_fetched, md5, worker,
                 announcements, write_faults>>

Signal == StartFetching \/ StartFails

-----------------------------------------------------------------------------
(* iotx_dm_dispatch: dm_cota_status_check, dm_fota_status_check and the     *)
(* user's event handler.                                                    *)

\* dm_fota_status_check, dm_cota_status_check
status_check(k) ==
  /\ pc = "idle"
  /\ state = "FETCHING" /\ type = k /\ reported[k] = 0
  /\ reported' = [reported EXCEPT ![k] = 1]
  /\ events' = events \cup {k}
  /\ UNCHANGED <<handle, parsed, pc, job, output, valid, flash, s_ota_handle, bounds>>

\* The handler queries the new version: perform_sync begins, or fails at once
\* because the type is no longer the one reported.
perform_sync(k) ==
  /\ pc = "idle" /\ k \in events
  /\ events' = events \ {k}
  /\ IF type = k
       THEN /\ size_fetched' = 0
            /\ flash' = <<>> /\ s_ota_handle' = "open"
            /\ pc' = "fetch" /\ job' = k
       ELSE UNCHANGED <<size_fetched, flash, s_ota_handle, pc, job>>
  /\ UNCHANGED <<state, type, digest, size_file, md5, ch_fetch, parsed, reported, output,
                 valid, bounds>>

-----------------------------------------------------------------------------
(* IOT_OTA_FetchYield.                                                      *)

\* It is only called while the state is FETCHING: no other thread leaves it.

\* A chunk arrives.  The server begins again after the last one.
Fetched(size) ==
  /\ pc = "fetch" /\ state = "FETCHING"
  /\ LET n == (ch_fetch.read % Size[ch_fetch.file]) + 1
     IN  /\ ch_fetch' = [ch_fetch EXCEPT !.read = n]
         /\ output' = <<ch_fetch.file, n>>
         /\ md5' = Append(md5, output')
  /\ size_fetched' = size_fetched + 1
  /\ IF size_fetched' >= size
       THEN type' = "NONE" /\ state' = "FETCHED"
       ELSE UNCHANGED <<type, state>>
  /\ pc' = "write"
  /\ UNCHANGED <<digest, size_file, parsed, reported, events, job, valid, flash,
                 s_ota_handle, bounds>>

FetchChunk == Fetched(size_file)

\* ofc_Fetch fails: the state is written first.
FetchFails ==
  /\ pc = "fetch" /\ state = "FETCHING" /\ faults < MaxFaults
  /\ faults' = faults + 1
  /\ state' = "FETCHED"
  /\ pc' = "failed"
  /\ UNCHANGED <<type, digest, size_file, size_fetched, md5, ch_fetch, parsed, reported,
                 events, job, output, valid, flash, s_ota_handle, announcements,
                 write_faults>>

\* The rest of the failure branch.
FetchFailed ==
  /\ pc = "failed"
  /\ type' = "NONE" /\ size_fetched' = 0
  /\ valid' = 0 /\ pc' = "stop"
  /\ UNCHANGED <<state, digest, size_file, md5, ch_fetch, parsed, reported, events, job,
                 output, flash, s_ota_handle, bounds>>

-----------------------------------------------------------------------------
(* The rest of the loop of perform_sync.                                    *)

\* Mistake: the last chunk is not written.
WriteAllButLast ==
  /\ pc = "write"
  /\ flash' = IF state = "FETCHED" THEN flash ELSE Append(flash, output)
  /\ s_ota_handle' = "open"
  /\ pc' = "finish"
  /\ UNCHANGED <<handle, parsed, reported, events, job, output, valid, bounds>>

\* HAL_Firmware_Persistence_Write.  write_err is that of the last write.
Write ==
  /\ pc = "write"
  /\ flash' = Append(flash, output)
  /\ s_ota_handle' = "open"
  /\ pc' = "finish"
  /\ UNCHANGED <<handle, parsed, reported, events, job, output, valid, bounds>>

\* The failure is reported and otherwise ignored.
WriteFails ==
  /\ pc = "write" /\ write_faults < MaxWriteFaults
  /\ write_faults' = write_faults + 1
  /\ s_ota_handle' = "write_err"
  /\ pc' = "finish"
  /\ UNCHANGED <<handle, parsed, reported, events, job, output, valid, flash, announcements,
                 faults>>

\* IOT_OTA_IsFetchFinish
IsFetchFinish ==
  /\ pc = "finish"
  /\ pc' = IF state = "FETCHED" THEN "check" ELSE "fetch"
  /\ UNCHANGED <<handle, parsed, reported, events, job, output, valid, flash, s_ota_handle,
                 bounds>>

SameDigest(data) == digest[job] # NoFile /\ data = Content(digest[job])

\* IOT_OTAG_CHECK_FIRMWARE and IOT_OTAG_CHECK_CONFIG
Check ==
  /\ pc = "check"
  /\ IF state = "FETCHED"
       THEN /\ valid' = IF SameDigest(md5) THEN 1 ELSE 0
            /\ md5' = Append(md5, End)
       ELSE valid' = 0 /\ UNCHANGED md5
  /\ pc' = "stop"
  /\ UNCHANGED <<state, type, digest, size_file, size_fetched, ch_fetch, parsed, reported,
                 events, job, output, flash, s_ota_handle, bounds>>

\* Mistake: the next version is not reported.
StopStaysReported ==
  /\ pc = "stop"
  /\ s_ota_handle' = "null"
  /\ pc' = "idle" /\ job' = "NONE"
  /\ UNCHANGED <<handle, parsed, reported, events, output, valid, flash, bounds>>

\* HAL_Firmware_Persistence_Stop and the return of perform_sync.
Stop ==
  /\ pc = "stop"
  /\ s_ota_handle' = "null"
  /\ reported' = [reported EXCEPT ![job] = 0]
  /\ pc' = "idle" /\ job' = "NONE"
  /\ UNCHANGED <<handle, parsed, events, output, valid, flash, bounds>>

Downloading ==
  \/ FetchChunk \/ FetchFails \/ FetchFailed
  \/ Write \/ WriteFails \/ IsFetchFinish \/ Check \/ Stop

Dispatch == \E k \in Kinds : status_check(k) \/ perform_sync(k)

Next ==
  \/ \E f \in Files : Receive(f) \/ ReceiveBroken(f)
  \/ Signal \/ Dispatch \/ Downloading

Safety == Init /\ [][Next]_vars

\* Both threads run on; no chunk, message or user is waited for without an end.
Fairness == WF_vars(Signal) /\ WF_vars(Dispatch) /\ WF_vars(Downloading)

Spec == Safety /\ Fairness

-----------------------------------------------------------------------------
Chunks == Files \X (Nat \ {0}) \cup {End}

\* One type invariant for the module.
TypeOK ==
  /\ state \in {"INITED", "FETCHING", "FETCHED"} /\ type \in Kinds \cup {"NONE"}
  /\ digest \in [Kinds -> Files \cup {NoFile}] /\ parsed \in Files \cup {NoFile}
  /\ size_file \in Nat /\ size_fetched \in Nat
  /\ md5 \in Seq(Chunks) /\ flash \in Seq(Chunks)
  /\ ch_fetch \in [file : Files \cup {NoFile}, read : Nat] /\ output \in Chunks
  /\ state = "FETCHING" => ch_fetch.file \in Files
  /\ reported \in [Kinds -> {0, 1}] /\ events \subseteq Kinds
  /\ pc \in {"idle", "fetch", "failed", "write", "finish", "check", "stop"}
  /\ job \in Kinds \cup {"NONE"} /\ (job = "NONE") = (pc = "idle")
  /\ valid \in {0, 1}
  /\ announcements \in Nat /\ faults \in Nat /\ write_faults \in Nat
  /\ s_ota_handle \in {"null", "open", "write_err"}
  /\ (s_ota_handle = "null") = (pc = "idle")

(***************************************************************************)
(* IOT_OTA_Ioctl, dm_fota_perform_sync: whatever is announced, refused,    *)
(* lost or announced again while a download ends, and although a firmware  *)
(* inherits the digest of the data before it, the check passes nothing but *)
(* one whole firmware that was written last, from its first chunk to its   *)
(* last (if every write went well).  It may have been written after other  *)
(* data: a configuration whose ofc_Init fails between two downloads of one *)
(* perform_sync starts the digest anew, but not the storage.               *)
(***************************************************************************)
EndsWith(s, t) == Len(s) >= Len(t) /\ SubSeq(s, Len(s) - Len(t) + 1, Len(s)) = t

AcceptedFirmwareWasWritten ==
  pc = "stop" /\ job = "FOTA" /\ valid = 1 /\ write_faults = 0 =>
    \E f \in Firmwares : EndsWith(flash, Content(f))

\* ... and they are those of one and the same announcement.
DownloadIsOfOneAnnouncement ==
  state = "FETCHING" =>
    digest[KindOf(ch_fetch.file)] = ch_fetch.file /\ size_file = Size[ch_fetch.file]

(***************************************************************************)
(* dm_fota_status_check, perform_sync: every exit of a perform_sync resets *)
(* the flag, so a version announced later is reported and tried too.       *)
(***************************************************************************)
EveryUpgradeIsTried ==
  \A k \in Kinds :
    (state = "FETCHING" /\ type = k /\ pc = "idle") ~> (pc = "fetch" \/ type = "NONE")

=============================================================================

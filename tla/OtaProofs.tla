------------------------------ MODULE OtaProofs ------------------------------
(***************************************************************************)
(* Proofs about over-the-air upgrades: the variables keep their types, a   *)
(* download is of one announcement, and a firmware that is accepted was    *)
(* written.  They hold for any files, and however many messages, failures  *)
(* and failed writes there are.                                            *)
(***************************************************************************)
EXTENDS Ota, SequenceTheorems, TLAPS

-----------------------------------------------------------------------------
(* The end of what was written.                                              *)

\* EndsWith, chunk by chunk.
LEMMA EndsWithChunks ==
    ASSUME NEW C, NEW s \in Seq(C), NEW t \in Seq(C)
    PROVE  EndsWith(s, t) <=> /\ Len(s) >= Len(t)
                              /\ \A i \in 1 .. Len(t) : s[Len(s) - Len(t) + i] = t[i]
<1> DEFINE u == SubSeq(s, Len(s) - Len(t) + 1, Len(s))
<1>1. Len(s) \in Nat /\ Len(t) \in Nat
  OBVIOUS
<1>2. ASSUME Len(s) >= Len(t)
      PROVE  u = t <=> \A i \in 1 .. Len(t) : s[Len(s) - Len(t) + i] = t[i]
  <2>1. u \in Seq(C) /\ Len(u) = Len(t) /\ \A i \in 1 .. Len(t) : u[i] = s[Len(s) - Len(t) + i]
    <3>1. \A i \in Len(s) - Len(t) + 1 .. Len(s) : s[i] \in C
      BY <1>1, <1>2
    <3> QED BY <1>1, <1>2, <3>1
  <2> HIDE DEF u
  <2>2. (\A i \in 1 .. Len(t) : u[i] = t[i]) => u = t
    BY <2>1
  <2> QED BY <2>1, <2>2
<1> QED BY <1>2 DEF EndsWith

\* A chunk that is added to both is at the end of both.
LEMMA EndsWithAppend ==
    ASSUME NEW C, NEW s \in Seq(C), NEW t \in Seq(C), NEW c \in C, EndsWith(s, t)
    PROVE  EndsWith(Append(s, c), Append(t, c))
<1> DEFINE a == Append(s, c)   b == Append(t, c)
<1>1. /\ a \in Seq(C) /\ Len(a) = Len(s) + 1 /\ a[Len(s) + 1] = c
      /\ \A i \in 1 .. Len(s) : a[i] = s[i]
      /\ b \in Seq(C) /\ Len(b) = Len(t) + 1 /\ b[Len(t) + 1] = c
      /\ \A i \in 1 .. Len(t) : b[i] = t[i]
  BY AppendProperties
<1>2. Len(s) \in Nat /\ Len(t) \in Nat
  OBVIOUS
<1>3. Len(s) >= Len(t) /\ \A i \in 1 .. Len(t) : s[Len(s) - Len(t) + i] = t[i]
  BY EndsWithChunks
<1> HIDE DEF a, b
<1>4. ASSUME NEW i \in 1 .. Len(b)
      PROVE  a[Len(a) - Len(b) + i] = b[i]
  <2>1. Len(a) - Len(b) + i = Len(s) - Len(t) + i
    BY <1>1, <1>2
  <2>2. CASE i = Len(t) + 1
    BY <1>1, <1>2, <2>1, <2>2
  <2>3. CASE i \in 1 .. Len(t)
    <3>1. Len(s) - Len(t) + i \in 1 .. Len(s)
      BY <1>2, <1>3, <2>3
    <3> QED BY <1>1, <1>3, <2>1, <2>3, <3>1
  <2> QED BY <1>1, <1>2, <2>2, <2>3
<1>5. Len(a) >= Len(b)
  BY <1>1, <1>2, <1>3
<1>6. EndsWith(a, b)
  BY <1>1, <1>4, <1>5, EndsWithChunks
<1> QED BY <1>6 DEF a, b

\* Everything ends with nothing.
LEMMA EndsWithNothing ==
    ASSUME NEW C, NEW s \in Seq(C)
    PROVE  EndsWith(s, <<>>)
<1>1. SubSeq(s, Len(s) - Len(<<>>) + 1, Len(s)) = <<>> /\ Len(s) >= Len(<<>>)
  <2>1. Len(s) - Len(<<>>) + 1 = Len(s) + 1 /\ Len(s) \in Nat /\ Len(<<>>) = 0
    OBVIOUS
  <2>2. SubSeq(s, Len(s) + 1, Len(s)) = <<>>
    BY <2>1, SubSeqEmpty
  <2> QED BY <2>1, <2>2
<1> QED BY <1>1, Zenon DEF EndsWith

-----------------------------------------------------------------------------
(* Types, and what an announcement leaves behind.                            *)

\* The message in hand is what the handle was set to, and nothing is being
\* downloaded meanwhile; a download is of what the handle was set to.
AnnounceInv ==
  /\ parsed # NoFile => /\ state # "FETCHING" /\ digest[KindOf(parsed)] = parsed
                        /\ size_file = Size[parsed]
  /\ DownloadIsOfOneAnnouncement
  /\ \A k \in Kinds : digest[k] # NoFile => KindOf(digest[k]) = k
MainInv == TypeOK /\ AnnounceInv

\* A file has a kind, and chunks.
LEMMA FileFacts ==
    ASSUME NEW f \in Files
    PROVE  f # NoFile /\ KindOf(f) \in Kinds /\ Size[f] \in Nat \ {0}
BY OtaAssumption DEF Files, KindOf, Kinds

\* The steps of ota_callback.
LEMMA CallbackKeeps ==
    ASSUME MainInv, (\E f \in Files : Receive(f) \/ ReceiveBroken(f)) \/ Signal
    PROVE  MainInv'
<1> USE DEF MainInv, worker
<1>1. ASSUME NEW f \in Files, Receive(f)
      PROVE  MainInv'
  <2>1. f # NoFile /\ KindOf(f) \in Kinds /\ Size[f] \in Nat /\ <<>> \in Seq(Chunks)
    BY FileFacts
  <2>2. TypeOK'
    <3>1. (md5' = md5 \/ md5' = <<>>) /\ (size_fetched' = size_fetched \/ size_fetched' = 0)
      BY <1>1, Zenon DEF Receive
    <3>2. md5' \in Seq(Chunks) /\ size_fetched' \in Nat
      <4>1. md5 \in Seq(Chunks) /\ size_fetched \in Nat /\ 0 \in Nat
        BY DEF TypeOK
      <4> QED BY <2>1, <3>1, <4>1, Zenon
    <3>3. digest' \in [Kinds -> Files \cup {NoFile}] /\ size_file' \in Nat /\ parsed' \in Files
          /\ announcements' \in Nat /\ state # "FETCHING"
      BY <1>1, <2>1 DEF Receive, TypeOK
    <3>4. UNCHANGED <<state, type, ch_fetch, reported, events, pc, job, output, valid, flash,
                     s_ota_handle, faults, write_faults>>
      BY <1>1 DEF Receive
    <3> QED BY <3>2, <3>3, <3>4 DEF TypeOK
  <2>3. AnnounceInv'
    BY <1>1, <2>1 DEF Receive, TypeOK, AnnounceInv, DownloadIsOfOneAnnouncement
  <2> QED BY <2>2, <2>3
<1>2. ASSUME NEW f \in Files, ReceiveBroken(f)
      PROVE  MainInv'
  <2>1. f # NoFile /\ KindOf(f) \in Kinds
    BY FileFacts
  <2>2. TypeOK'
    BY <1>2, <2>1 DEF ReceiveBroken, TypeOK
  <2>3. AnnounceInv'
    BY <1>2, <2>1 DEF ReceiveBroken, TypeOK, AnnounceInv, DownloadIsOfOneAnnouncement
  <2> QED BY <2>2, <2>3
<1>3. CASE Signal
  <2>1. parsed \in Files /\ KindOf(parsed) \in Kinds
    BY <1>3, FileFacts DEF Signal, StartFetching, StartFails, TypeOK
  <2>2. CASE StartFetching
    <3>1. TypeOK'
      BY <2>1, <2>2 DEF StartFetching, TypeOK, bounds
    <3>2. AnnounceInv'
      BY <2>1, <2>2 DEF StartFetching, AnnounceInv, DownloadIsOfOneAnnouncement
    <3> QED BY <3>1, <3>2
  <2>3. CASE StartFails
    <3>1. TypeOK'
      BY <2>1, <2>3 DEF StartFails, TypeOK, AnnounceInv
    <3>2. AnnounceInv'
      BY <2>1, <2>3 DEF StartFails, AnnounceInv, DownloadIsOfOneAnnouncement
    <3> QED BY <3>1, <3>2
  <2> QED BY <1>3, <2>2, <2>3 DEF Signal
<1> QED BY <1>1, <1>2, <1>3

\* The steps of the thread that dispatches and downloads.
LEMMA DownloadKeeps ==
    ASSUME MainInv, Dispatch \/ Downloading
    PROVE  MainInv'
<1> USE DEF MainInv, handle, bounds
<1>1. ASSUME NEW k \in Kinds, status_check(k)
      PROVE  MainInv'
  <2>1. TypeOK'
    BY <1>1 DEF status_check, TypeOK
  <2>2. AnnounceInv'
    BY <1>1 DEF status_check, AnnounceInv, DownloadIsOfOneAnnouncement
  <2> QED BY <2>1, <2>2
<1>2. ASSUME NEW k \in Kinds, perform_sync(k)
      PROVE  MainInv'
  <2>1. TypeOK'
    <3>1. CASE type = k
      BY <1>2, <3>1 DEF perform_sync, TypeOK, Kinds
    <3>2. CASE type # k
      BY <1>2, <3>2 DEF perform_sync, TypeOK
    <3> QED BY <3>1, <3>2
  <2>2. AnnounceInv'
    BY <1>2 DEF perform_sync, AnnounceInv, DownloadIsOfOneAnnouncement
  <2> QED BY <2>1, <2>2
<1>3. CASE FetchChunk
  <2> DEFINE n == (ch_fetch.read % Size[ch_fetch.file]) + 1
  <2>1. ch_fetch.file \in Files /\ n \in Nat \ {0}
    <3>1. ch_fetch.file \in Files /\ ch_fetch.read \in Nat
      BY <1>3 DEF FetchChunk, Fetched, TypeOK
    <3> QED BY <3>1, FileFacts
  <2>2. /\ pc = "fetch" /\ pc' = "write" /\ state = "FETCHING"
        /\ ch_fetch' = [ch_fetch EXCEPT !.read = n] /\ output' = <<ch_fetch.file, n>>
        /\ md5' = Append(md5, output') /\ size_fetched' = size_fetched + 1
        /\ (type' = "NONE" /\ state' = "FETCHED") \/ UNCHANGED <<type, state>>
        /\ UNCHANGED <<digest, size_file, parsed, reported, events, job, valid, flash,
                       s_ota_handle, bounds>>
    BY <1>3, Zenon DEF FetchChunk, Fetched
  <2> HIDE DEF n
  <2>3. output' \in Chunks
    BY <2>1, <2>2 DEF Chunks
  <2>4. md5' \in Seq(Chunks)
    BY <2>2, <2>3 DEF TypeOK
  <2>5. ch_fetch' \in [file : Files \cup {NoFile}, read : Nat] /\ ch_fetch'.file = ch_fetch.file
    BY <2>1, <2>2 DEF TypeOK
  <2>6. TypeOK'
    BY <2>1, <2>2, <2>3, <2>4, <2>5 DEF TypeOK
  <2>7. AnnounceInv'
    BY <2>2, <2>5 DEF AnnounceInv, DownloadIsOfOneAnnouncement
  <2> QED BY <2>6, <2>7
<1>4. CASE FetchFails \/ FetchFailed
  <2>1. TypeOK'
    <3>1. CASE FetchFails
      BY <3>1 DEF FetchFails, TypeOK
    <3>2. CASE FetchFailed
      <4>1. /\ pc = "failed" /\ pc' = "stop" /\ type' = "NONE" /\ size_fetched' = 0 /\ valid' = 0
            /\ UNCHANGED <<state, digest, size_file, md5, ch_fetch, parsed, reported, events, job,
                           output, flash, s_ota_handle, announcements, faults, write_faults>>
        BY <3>2 DEF FetchFailed
      <4> QED BY <4>1 DEF TypeOK
    <3> QED BY <1>4, <3>1, <3>2
  <2>2. AnnounceInv'
    BY <1>4 DEF FetchFails, FetchFailed, AnnounceInv, DownloadIsOfOneAnnouncement
  <2> QED BY <2>1, <2>2
<1>5. CASE Write \/ WriteFails
  <2>1. flash' \in Seq(Chunks)
    <3>1. flash' = Append(flash, output) \/ flash' = flash
      BY <1>5 DEF Write, WriteFails
    <3>2. flash \in Seq(Chunks) /\ output \in Chunks
      BY DEF TypeOK
    <3>3. Append(flash, output) \in Seq(Chunks)
      BY <3>2, AppendProperties
    <3> QED BY <3>1, <3>2, <3>3, Zenon
  <2>2. /\ pc = "write" /\ pc' = "finish" /\ s_ota_handle' \in {"open", "write_err"}
        /\ write_faults' \in {write_faults, write_faults + 1}
        /\ UNCHANGED <<state, type, digest, size_file, size_fetched, md5, ch_fetch, parsed,
                       reported, events, job, output, valid, announcements, faults>>
    BY <1>5 DEF Write, WriteFails
  <2>3. TypeOK'
    BY <2>1, <2>2 DEF TypeOK
  <2>4. AnnounceInv'
    BY <1>5 DEF Write, WriteFails, AnnounceInv, DownloadIsOfOneAnnouncement
  <2> QED BY <2>3, <2>4
<1>6. CASE IsFetchFinish \/ Stop
  <2>1. TypeOK'
    BY <1>6 DEF IsFetchFinish, Stop, TypeOK
  <2>2. AnnounceInv'
    BY <1>6 DEF IsFetchFinish, Stop, AnnounceInv, DownloadIsOfOneAnnouncement
  <2> QED BY <2>1, <2>2
<1>7. CASE Check
  <2>1. md5' \in Seq(Chunks) /\ valid' \in {0, 1}
    <3>1. End \in Chunks
      BY DEF Chunks
    <3>2. (md5' = Append(md5, End) \/ md5' = md5) /\ (valid' = 1 \/ valid' = 0)
      BY <1>7, Zenon DEF Check
    <3>3. md5 \in Seq(Chunks)
      BY DEF TypeOK
    <3>4. Append(md5, End) \in Seq(Chunks)
      BY <3>1, <3>3, AppendProperties
    <3> QED BY <3>2, <3>3, <3>4, Zenon
  <2>2. pc' = "stop" /\ pc = "check"
        /\ UNCHANGED <<state, type, digest, size_file, size_fetched, ch_fetch, parsed, reported,
                       events, job, output, flash, s_ota_handle, bounds>>
    BY <1>7 DEF Check
  <2>3. TypeOK'
    BY <2>1, <2>2 DEF TypeOK
  <2>4. AnnounceInv'
    BY <2>2 DEF AnnounceInv, DownloadIsOfOneAnnouncement
  <2> QED BY <2>3, <2>4
<1> QED BY <1>1, <1>2, <1>3, <1>4, <1>5, <1>6, <1>7, Zenon DEF Dispatch, Downloading

LEMMA MainInvariant == Safety => []MainInv
<1>1. Init => MainInv
  <2> SUFFICES ASSUME Init PROVE TypeOK /\ AnnounceInv
    BY DEF MainInv
  <2>1. TypeOK
    BY OtaAssumption DEF Init, TypeOK, Chunks, End, Kinds
  <2>2. AnnounceInv
    BY DEF Init, AnnounceInv, DownloadIsOfOneAnnouncement, Kinds
  <2> QED BY <2>1, <2>2
<1>2. MainInv /\ [Next]_vars => MainInv'
  <2> SUFFICES ASSUME MainInv, [Next]_vars PROVE MainInv'
    OBVIOUS
  <2>1. CASE UNCHANGED vars
    BY <2>1 DEF vars, handle, worker, bounds, MainInv, TypeOK, AnnounceInv, DownloadIsOfOneAnnouncement
  <2>2. CASE Next
    BY <2>2, CallbackKeeps, DownloadKeeps DEF Next
  <2> QED BY <2>1, <2>2
<1> QED BY <1>1, <1>2, PTL DEF Safety

\* Each variable has its type.
THEOREM TypeInvariant == Spec => []TypeOK
BY MainInvariant, PTL DEF Spec, MainInv

\* What is downloaded has the digest and the size that were announced with it
\* (DownloadIsOfOneAnnouncement): no message that comes during the download,
\* broken or refused, changes them.
THEOREM OneAnnouncement == Spec => []DownloadIsOfOneAnnouncement
BY MainInvariant, PTL DEF Spec, MainInv, AnnounceInv

-----------------------------------------------------------------------------
(* What is accepted was written.                                             *)

\* A download begins at the first chunk, and a type is that of a download.
RaceInv ==
  /\ type \in Kinds /\ pc # "failed" => state = "FETCHING"
  /\ state = "FETCHING" /\ pc \in {"idle", "failed", "check", "stop"} => ch_fetch.read = 0

\* A digest that no file has: a chunk is not where it is in its file.
Spoiled == \E i \in DOMAIN md5 : md5[i][2] # i

\* What was written in this download, and is about to be, ends with what the
\* digest was fed; or the digest was fed other data before, and its first
\* chunk of this file, which has come or comes next, spoils it.
Written == IF pc = "write" THEN Append(flash, output) ELSE flash
Inherits == pc = "fetch" /\ state = "FETCHING" /\ md5 # <<>> /\ ch_fetch.read = 0
WriteInv ==
  /\ write_faults = 0 /\ pc \in {"fetch", "write", "finish", "check"} =>
        EndsWith(Written, md5) \/ Spoiled \/ Inherits
  /\ AcceptedFirmwareWasWritten

LEMMA RaceStep == TypeOK /\ AnnounceInv /\ RaceInv /\ [Next]_vars => RaceInv'
<1> SUFFICES ASSUME TypeOK, AnnounceInv, RaceInv, [Next]_vars PROVE RaceInv'
  OBVIOUS
<1> USE DEF worker, handle, bounds
<1>1. CASE UNCHANGED vars
  BY <1>1 DEF vars, RaceInv
<1>2. ASSUME NEW f \in Files, Receive(f) \/ ReceiveBroken(f)
      PROVE  RaceInv'
  BY <1>2 DEF Receive, ReceiveBroken, RaceInv
<1>3. CASE StartFetching
  BY <1>3 DEF StartFetching, RaceInv
<1>4. CASE StartFails
  BY <1>4 DEF StartFails, RaceInv
<1>5. ASSUME NEW k \in Kinds, status_check(k) \/ perform_sync(k)
      PROVE  RaceInv'
  <2>1. UNCHANGED <<type, state, ch_fetch>> /\ pc = "idle" /\ pc' \in {"idle", "fetch"}
    BY <1>5 DEF status_check, perform_sync
  <2> QED BY <2>1 DEF RaceInv
<1>6. CASE FetchChunk
  <2>1. state = "FETCHING" /\ pc' = "write"
        /\ ((type' = "NONE" /\ state' = "FETCHED") \/ UNCHANGED <<type, state>>)
    BY <1>6 DEF FetchChunk, Fetched
  <2> QED BY <2>1 DEF RaceInv, Kinds
<1>7. CASE FetchFails \/ FetchFailed
  BY <1>7 DEF FetchFails, FetchFailed, RaceInv, Kinds
<1>8. CASE Write \/ WriteFails \/ IsFetchFinish
  BY <1>8 DEF Write, WriteFails, IsFetchFinish, RaceInv
<1>9. CASE Check \/ Stop
  <2>1. UNCHANGED <<type, state, ch_fetch>> /\ pc \in {"check", "stop"} /\ pc' \in {"stop", "idle"}
    BY <1>9 DEF Check, Stop
  <2> QED BY <2>1 DEF RaceInv
<1> QED BY <1>1, <1>2, <1>3, <1>4, <1>5, <1>6, <1>7, <1>8, <1>9, Zenon DEF Next, Signal, Dispatch, Downloading

\* What the digest is fed later does not mend it.
LEMMA SpoiledAppend ==
    ASSUME md5 \in Seq(Chunks), NEW c \in Chunks, md5' = Append(md5, c),
           Spoiled \/ (md5 # <<>> /\ c[2] = 1)
    PROVE  Spoiled'
<1>1. /\ Len(md5) \in Nat /\ DOMAIN md5 = 1 .. Len(md5)
      /\ DOMAIN md5' = 1 .. Len(md5) + 1 /\ md5'[Len(md5) + 1] = c
      /\ \A i \in 1 .. Len(md5) : md5'[i] = md5[i]
  BY AppendProperties
<1>2. CASE Spoiled
  <2>1. PICK i \in DOMAIN md5 : md5[i][2] # i
    BY <1>2 DEF Spoiled
  <2>2. i \in DOMAIN md5' /\ md5'[i] = md5[i]
    BY <1>1, <2>1
  <2> QED BY <2>1, <2>2 DEF Spoiled
<1>3. CASE md5 # <<>> /\ c[2] = 1
  <2>1. Len(md5) # 0
    BY <1>3, EmptySeq
  <2>2. Len(md5) + 1 \in DOMAIN md5' /\ Len(md5) + 1 # 1
    BY <1>1, <2>1
  <2> QED BY <1>1, <1>3, <2>2 DEF Spoiled
<1> QED BY <1>2, <1>3

\* The digest of a file, and of nothing else, is not spoiled.
LEMMA ContentIsNotSpoiled ==
    ASSUME NEW f \in Files, md5 = Content(f)
    PROVE  ~Spoiled
<1>1. ASSUME NEW i \in DOMAIN md5
      PROVE  md5[i][2] = i
  <2>1. i \in 1 .. Size[f] /\ md5[i] = <<f, i>>
    BY <1>1 DEF Content
  <2> QED BY <2>1
<1> QED BY <1>1 DEF Spoiled

\* The steps of ota_callback write nothing.
LEMMA CallbackWrites ==
    ASSUME TypeOK, AnnounceInv, WriteInv,
           (\E f \in Files : Receive(f) \/ ReceiveBroken(f)) \/ Signal
    PROVE  WriteInv'
<1>1. UNCHANGED <<pc, job, output, valid, flash, write_faults>>
  BY DEF Receive, ReceiveBroken, Signal, StartFetching, StartFails, worker, bounds
<1>2. Written' = Written /\ AcceptedFirmwareWasWritten'
  BY <1>1 DEF Written, WriteInv, AcceptedFirmwareWasWritten
<1>3. UNCHANGED md5 \/ (md5' = <<>> /\ state # "FETCHING")
  <2>1. CASE \E f \in Files : Receive(f)
    <3>1. PICK f \in Files : Receive(f)
      BY <2>1
    <3>2. state # "FETCHING" /\ (md5' = md5 \/ md5' = <<>>)
      BY <3>1, Zenon DEF Receive
    <3> QED BY <3>2
  <2>2. CASE (\E f \in Files : ReceiveBroken(f)) \/ Signal
    BY <2>2 DEF ReceiveBroken, Signal, StartFetching, StartFails
  <2> QED BY <2>1, <2>2
<1>4. Inherits => UNCHANGED <<md5, state, ch_fetch>>
  <2>1. CASE \E f \in Files : Receive(f)
    BY <2>1 DEF Receive, Inherits
  <2>2. CASE \E f \in Files : ReceiveBroken(f)
    BY <2>2 DEF ReceiveBroken
  <2>3. CASE Signal
    BY <2>3 DEF Signal, StartFetching, StartFails, AnnounceInv, Inherits
  <2> QED BY <2>1, <2>2, <2>3
<1>5. ASSUME write_faults' = 0, pc' \in {"fetch", "write", "finish", "check"}
      PROVE  EndsWith(Written', md5') \/ Spoiled' \/ Inherits'
  <2>1. EndsWith(Written, md5) \/ Spoiled \/ Inherits
    BY <1>1, <1>5 DEF WriteInv
  <2>2. CASE md5' = <<>>
    <3>1. Written \in Seq(Chunks)
      <4>1. flash \in Seq(Chunks) /\ output \in Chunks
        BY DEF TypeOK
      <4>2. Append(flash, output) \in Seq(Chunks)
        BY <4>1, AppendProperties
      <4> QED BY <4>1, <4>2 DEF Written
    <3> QED BY <1>2, <2>2, <3>1, EndsWithNothing
  <2>3. CASE UNCHANGED md5
    <3>1. CASE EndsWith(Written, md5)
      BY <1>2, <2>3, <3>1
    <3>2. CASE Spoiled
      BY <2>3, <3>2 DEF Spoiled
    <3>3. CASE Inherits
      BY <1>1, <1>4, <3>3 DEF Inherits
    <3> QED BY <2>1, <3>1, <3>2, <3>3
  <2> QED BY <1>3, <2>2, <2>3
<1> QED BY <1>2, <1>5 DEF WriteInv

\* A chunk comes.
LEMMA ChunkWrites ==
    ASSUME TypeOK, WriteInv, FetchChunk
    PROVE  WriteInv'
<1> DEFINE n == (ch_fetch.read % Size[ch_fetch.file]) + 1
<1>1. ch_fetch.file \in Files /\ ch_fetch.read \in Nat
  BY DEF FetchChunk, Fetched, TypeOK
<1>2. n \in Nat \ {0} /\ (ch_fetch.read = 0 => n = 1)
  BY <1>1, FileFacts
<1>3. /\ pc = "fetch" /\ pc' = "write" /\ output' = <<ch_fetch.file, n>>
      /\ md5' = Append(md5, output') /\ UNCHANGED <<flash, write_faults>>
  BY Zenon DEF FetchChunk, Fetched, bounds
<1> HIDE DEF n
<1>4. output' \in Chunks /\ output'[2] = n /\ md5 \in Seq(Chunks) /\ flash \in Seq(Chunks)
  BY <1>1, <1>2, <1>3 DEF Chunks, TypeOK
<1>5. Written = flash /\ Written' = Append(flash, output')
  BY <1>3 DEF Written
<1>6. ASSUME write_faults' = 0
      PROVE  EndsWith(Written', md5') \/ Spoiled'
  <2>1. EndsWith(flash, md5) \/ Spoiled \/ Inherits
    BY <1>3, <1>5, <1>6 DEF WriteInv
  <2>2. CASE EndsWith(flash, md5)
    <3>1. EndsWith(Append(flash, output'), Append(md5, output'))
      BY <1>4, <2>2, EndsWithAppend
    <3> QED BY <1>3, <1>5, <3>1, Zenon
  <2>3. CASE Spoiled
    BY <1>3, <1>4, <2>3, SpoiledAppend
  <2>4. CASE Inherits
    <3>1. md5 # <<>> /\ output'[2] = 1
      BY <1>2, <1>4, <2>4 DEF Inherits
    <3> QED BY <1>3, <1>4, <3>1, SpoiledAppend
  <2> QED BY <2>1, <2>2, <2>3, <2>4
<1> QED BY <1>3, <1>6 DEF WriteInv, AcceptedFirmwareWasWritten

\* The check accepts nothing but a firmware that was written last.
LEMMA CheckAccepts ==
    ASSUME TypeOK, AnnounceInv, WriteInv, Check
    PROVE  WriteInv'
<1>1. /\ pc = "check" /\ pc' = "stop" /\ UNCHANGED <<job, flash, write_faults>>
      /\ (valid' = 1 /\ SameDigest(md5)) \/ valid' = 0
  BY Zenon DEF Check, bounds
<1>2. ASSUME job = "FOTA", SameDigest(md5), write_faults = 0
      PROVE  \E f \in Firmwares : EndsWith(flash, Content(f))
  <2> DEFINE f == digest["FOTA"]
  <2>1. f # NoFile /\ md5 = Content(f)
    BY <1>2 DEF SameDigest
  <2>2. f \in Files /\ KindOf(f) = "FOTA"
    BY <2>1 DEF TypeOK, AnnounceInv, Kinds
  <2>3. f \in Firmwares
    BY <2>2 DEF KindOf
  <2>4. ~Spoiled /\ ~Inherits /\ Written = flash
    BY <1>1, <2>1, <2>2, ContentIsNotSpoiled DEF Inherits, Written
  <2>5. EndsWith(flash, md5)
    BY <1>1, <1>2, <2>4 DEF WriteInv
  <2> QED BY <2>1, <2>3, <2>5
<1> QED BY <1>1, <1>2 DEF WriteInv, AcceptedFirmwareWasWritten

LEMMA WriteStep == TypeOK /\ AnnounceInv /\ RaceInv /\ WriteInv /\ [Next]_vars => WriteInv'
<1> SUFFICES ASSUME TypeOK, AnnounceInv, RaceInv, WriteInv, [Next]_vars PROVE WriteInv'
  OBVIOUS
<1>1. CASE UNCHANGED vars
  BY <1>1 DEF vars, handle, worker, bounds, WriteInv, Written, Spoiled, Inherits,
              AcceptedFirmwareWasWritten
<1>2. CASE (\E f \in Files : Receive(f) \/ ReceiveBroken(f)) \/ Signal
  BY <1>2, CallbackWrites
<1>3. ASSUME NEW k \in Kinds, status_check(k)
      PROVE  WriteInv'
  BY <1>3 DEF status_check, WriteInv, AcceptedFirmwareWasWritten
<1>4. ASSUME NEW k \in Kinds, perform_sync(k)
      PROVE  WriteInv'
  <2>1. CASE type = k
    <3>1. pc = "idle" /\ pc' = "fetch" /\ flash' = <<>> /\ UNCHANGED <<state, md5, ch_fetch>>
      BY <1>4, <2>1 DEF perform_sync
    <3>2. state = "FETCHING" /\ ch_fetch.read = 0
      BY <2>1, <3>1 DEF RaceInv
    <3>3. CASE md5 = <<>>
      <4>1. EndsWith(flash', md5')
        <5>1. <<>> \in Seq(Chunks)
          OBVIOUS
        <5>2. EndsWith(<<>>, <<>>)
          BY <5>1, EndsWithNothing
        <5> QED BY <3>1, <3>3, <5>2, Zenon
      <4> QED BY <3>1, <4>1 DEF WriteInv, Written, AcceptedFirmwareWasWritten
    <3>4. CASE md5 # <<>>
      BY <3>1, <3>2, <3>4 DEF WriteInv, Inherits, AcceptedFirmwareWasWritten
    <3> QED BY <3>3, <3>4
  <2>2. CASE type # k
    BY <1>4, <2>2 DEF perform_sync, WriteInv, AcceptedFirmwareWasWritten
  <2> QED BY <2>1, <2>2
<1>5. CASE FetchChunk
  BY <1>5, ChunkWrites
<1>6. CASE FetchFails \/ FetchFailed
  BY <1>6 DEF FetchFails, FetchFailed, WriteInv, AcceptedFirmwareWasWritten
<1>7. CASE Write
  BY <1>7 DEF Write, handle, bounds, WriteInv, Written, Spoiled, Inherits,
              AcceptedFirmwareWasWritten
<1>8. CASE WriteFails
  <2>1. write_faults' # 0
    BY <1>8 DEF WriteFails, TypeOK
  <2> QED BY <2>1 DEF WriteInv, AcceptedFirmwareWasWritten
<1>9. CASE IsFetchFinish
  BY <1>9 DEF IsFetchFinish, handle, bounds, WriteInv, Written, Spoiled, Inherits,
              AcceptedFirmwareWasWritten
<1>10. CASE Check
  BY <1>10, CheckAccepts
<1>11. CASE Stop
  BY <1>11 DEF Stop, WriteInv, AcceptedFirmwareWasWritten
<1> QED BY <1>1, <1>2, <1>3, <1>4, <1>5, <1>6, <1>7, <1>8, <1>9, <1>10, <1>11, Zenon
        DEF Next, Dispatch, Downloading

\* Whatever is announced, refused, lost or announced again while a download
\* ends, the check of IOT_OTA_Ioctl accepts nothing but a whole firmware that
\* dm_fota_perform_sync wrote last, if every write went well
\* (AcceptedFirmwareWasWritten).
THEOREM AcceptedWasWritten == Spec => []AcceptedFirmwareWasWritten
<1>1. Init => RaceInv /\ WriteInv
  BY DEF Init, RaceInv, WriteInv, AcceptedFirmwareWasWritten, Kinds
<1>2. TypeOK /\ AnnounceInv /\ RaceInv /\ WriteInv /\ [Next]_vars => RaceInv' /\ WriteInv'
  BY RaceStep, WriteStep
<1>3. WriteInv => AcceptedFirmwareWasWritten
  BY DEF WriteInv
<1> QED BY <1>1, <1>2, <1>3, MainInvariant, PTL DEF Spec, Safety, MainInv

=============================================================================

---------------------------- MODULE SmartConfig ----------------------------
(***************************************************************************)
(* Assembly of the message with which a phone configures a device          *)
(* (awss_smartconfig.c).  The phone broadcasts the message over and over,  *)
(* a symbol in the length of each frame, eight symbols in a group; the     *)
(* device hears the frames on their way to the access point (tods, side 1) *)
(* and from it (side 0), some of them or twice or late, and cannot read    *)
(* them: what it knows of a symbol's place is its index in a group, the    *)
(* last group frame and the serial numbers.                                *)
(*                                                                         *)
(* A frame is its symbol and its place in the group; the encryption of the *)
(* link, which shifts its length, is left out.                             *)
(***************************************************************************)
EXTENDS Integers, Sequences, FiniteSets
LOCAL INSTANCE SequencesExt

CONSTANTS Messages,      \* what the phone may send: [ssid, passwd], symbols
          Known,         \* what the list of access points may know of the ssid
          GroupNumber,   \* GROUP_NUMBER
          MaxPkgNums,    \* MAX_PKG_NUMS
          FirstSn,       \* serial number of the first frame that is heard
          FirstPlaces,   \* its places in the message
          Deaf,          \* sides that may be out of range: a set of sets
          Patience,      \* passes without a fault that are enough
          MaxFaults      \* bound: frames lost, repeated, delayed; pauses

ASSUME SmartConfigAssumption ==
    /\ GroupNumber \in Nat \ {0} /\ MaxPkgNums \in Nat /\ MaxPkgNums % GroupNumber = 0
    /\ FirstSn \in 0 .. 4095 /\ MaxFaults \in Nat

Sides   == 0 .. 1
Unset   == -1                  \* no symbol
Nothing == [kind |-> "none"]   \* no frame
NoGroup == -1

ScoreMax == 100
ScoreMid == 50
ScoreLow == 1
ScoreMin == 0
AutoComplete == ScoreMax + 1

Larger(a, b)  == IF a > b THEN a ELSE b
Smaller(a, b) == IF a < b THEN a ELSE b

VARIABLES msg,      \* what the phone sends
          zc,       \* zconfig_data
          place,    \* next frame of the message
          side,     \* side on which it is heard next
          sn,       \* its serial number
          held,     \* a frame that is late
          late,     \* sides not heard for longer than time_interval
          deaf,     \* sides that are never heard
          known,    \* the ssid in the list of access points
          faults,   \* faults so far
          clean     \* frames of the phone since the last fault

vars == <<msg, zc, place, side, sn, held, late, deaf, known, faults, clean>>

-----------------------------------------------------------------------------
(* zconfig_data.                                                            *)

Blank  == [symbol |-> Unset, score |-> 0]
Blanks == [j \in 1 .. GroupNumber |-> Blank]
Scanning ==
    [locked |-> FALSE, groupPos |-> 0, curPos |-> 0, maxPos |-> 0, lastIndex |-> 0,
     lastSymbol |-> Unset, replace |-> FALSE, uplimit |-> 0, unsync |-> 0,
     groupSn |-> 0, prevSn |-> 0]
Zero ==
    [at  |-> [t \in Sides |-> Scanning],
     pkg |-> [t \in Sides |-> [i \in 1 .. MaxPkgNums - 1 |-> Blank]],
     tmp |-> [t \in Sides |-> Blanks],
     ssid |-> <<>>, noAutoComplete |-> FALSE, got |-> Nothing]

Data(cell) == IF cell.symbol = Unset THEN 0 ELSE cell.symbol

-----------------------------------------------------------------------------
(* What the phone sends.                                                    *)

\* zconfig_checksum_v3, as the two symbols that it takes.
Checksum(s) ==
    LET sum == FoldLeft(+, 0, s)
    IN  <<Larger(1, (sum \div 64) % 64), Larger(1, sum % 64)>>

\* Total length, flags (with an ssid, AES-CFB), ssid, encrypted password, checksum.
Symbols(m) ==
    LET body == <<Len(m.ssid) + Len(m.passwd) + 6, 5, Len(m.ssid), Len(m.passwd)>>
                \o m.ssid \o m.passwd
    IN  body \o Checksum(body)

\* The frames of one pass: before each group its group frame.
PassLength(symbols) == Len(symbols) + ((Len(symbols) - 1) \div GroupNumber) + 1
FrameAt(symbols, p) ==
    LET group == ((p - 1) \div (GroupNumber + 1)) * GroupNumber
        index == (p - 1) % (GroupNumber + 1)
    IN  IF index = 0 THEN [kind |-> "group", group |-> group]
                     ELSE [kind |-> "data", index |-> index, symbol |-> symbols[group + index]]

-----------------------------------------------------------------------------
(* Scores.                                                                  *)

SnMinus(a, b) == (a - b) % 4096

\* sn_compare(a, b) > 0
SnAfter(a, b) == SnMinus(a, b) \in 1 .. 999

\* score_level
Malus(delta) ==
    CASE delta = 0       -> 0
      [] delta = 1       -> 2
      [] delta \in 2 .. 4   -> 8
      [] delta \in 5 .. 8   -> 16
      [] delta \in 9 .. 15  -> 30
      [] delta \in 16 .. 40 -> 40
      [] OTHER           -> ScoreMax

\* The more frames are missing before this one, the less it is worth.
DataScore(side_, n, pos) ==
    IF ~SnAfter(n, side_.groupSn) \/ ~SnAfter(n, side_.prevSn) \/ pos <= side_.curPos
    THEN ScoreMin
    ELSE LET malus == Malus(SnMinus(n, side_.groupSn) - 1 + pos - side_.curPos - 1)
         IN  IF side_.uplimit > malus THEN side_.uplimit - malus ELSE ScoreLow

\* The length of the message: what it says, or what has come of it.
DataLen(z) ==
    LET first == IF z.pkg[1][1].score > z.pkg[0][1].score THEN z.pkg[1][1] ELSE z.pkg[0][1]
        len   == IF Data(first) # 0 /\ first.score > ScoreMid THEN Data(first)
                 ELSE Larger(z.at[0].maxPos, z.at[1].maxPos)
    IN  IF len >= MaxPkgNums THEN MaxPkgNums - GroupNumber - 1 ELSE Larger(len, GroupNumber)

-----------------------------------------------------------------------------
(* Symbols whose group is not known are kept in tmp, then put where they    *)
(* match what is there, or before the group frame that follows.             *)

Kept(tmp)         == {j \in DOMAIN tmp : tmp[j].score # 0}
Groups(z)         == {i \in 0 .. DataLen(z) : i % GroupNumber = 0}
Before(pkg, tmp, i) ==
    {j \in DOMAIN tmp : \A d \in Kept(tmp) :
        pkg[i + d].symbol \notin {Unset, tmp[d].symbol} => j < d}
Equal(pkg, tmp, i) ==
    {j \in Kept(tmp) \cap Before(pkg, tmp, i) : pkg[i + j].symbol = tmp[j].symbol}
Free(pkg, tmp, i) == {j \in Kept(tmp) : pkg[i + j].score <= 1}

\* The first group with the greatest value of a function, and a least score.
Best(m) == CHOOSE i \in DOMAIN m : \A k \in DOMAIN m :
               m[i] > m[k] \/ (m[i] = m[k] /\ i <= k)
Lowest(S) == CHOOSE s \in S : \A r \in S : s <= r

\* The group before the group frame that follows, if it is known.
Guess(z, group) ==
    CASE group = NoGroup      -> NoGroup
      [] group >= GroupNumber -> group - GroupNumber
      [] OTHER -> (DataLen(z) \div GroupNumber) * GroupNumber

\* The symbols moved go to the group final.
Moved(z, t, final, moved, score) ==
    LET Cell(c) == [symbol |-> c.symbol,
                    score |-> IF score > c.score - 1 THEN score - (c.score - 1) ELSE score]
    IN  [z EXCEPT !.pkg[t] = [i \in DOMAIN @ |->
                                 IF i - final \in moved THEN Cell(z.tmp[t][i - final]) ELSE @[i]],
                  !.tmp[t] = Blanks,
                  !.at[t] = [@ EXCEPT
                      !.unsync  = 0,
                      !.replace = @ \/ moved # {},
                      !.maxPos  = CHOOSE m \in {@} \cup {final + j : j \in moved} :
                                    m >= @ /\ \A j \in moved : m >= final + j]]

Put(z, t, final, allowed, score) ==
    Moved(z, t, final,
          {j \in Kept(z.tmp[t]) \cap allowed : /\ final # NoGroup /\ final + j < MaxPkgNums
                                              /\ z.pkg[t][final + j].score < score},
          score)

\* count symbols match in the group best, the least of them scored lowest.
Choose(z, t, guess, byEqual, best, count, lowest) ==
    LET guided == guess # NoGroup /\ ~byEqual
        capped == Smaller(lowest, CASE count = 1 -> 10 [] count = 2 -> 20 [] OTHER -> 30)
    IN  Put(z, t,
            CASE guided -> guess
              [] count = 0 -> NoGroup
              [] guess \in {NoGroup, best} \/ count >= 2 -> best
              [] OTHER -> guess,
            IF byEqual /\ guess # best THEN Before(z.pkg[t], z.tmp[t], best) ELSE 1 .. GroupNumber,
            CASE guided -> 2 [] guess = best -> capped + 2 [] OTHER -> capped)

ByEqual(z, t, guess, equal, best) ==
    Choose(z, t, guess, TRUE, best, Cardinality(equal[best]),
           Lowest({z.pkg[t][best + j].score : j \in equal[best]} \cup {ScoreMax}))
ByFree(z, t, guess, free, best) ==
    Choose(z, t, guess, FALSE, best, free[best], 1)

Matching(z, t, guess, equal, free) ==
    IF \E i \in DOMAIN equal : equal[i] # {}
    THEN ByEqual(z, t, guess, equal, Best([i \in DOMAIN equal |-> Cardinality(equal[i])]))
    ELSE ByFree(z, t, guess, free, Best(free))

TryToSync(z, t, group) ==
    Matching(z, t, Guess(z, group),
             [i \in Groups(z) |-> Equal(z.pkg[t], z.tmp[t], i)],
             [i \in Groups(z) |-> Cardinality(Free(z.pkg[t], z.tmp[t], i))])

-----------------------------------------------------------------------------
(* One symbol whose place is known, on one side.                            *)

\* try_to_replace_same_pos
Replaces(z, t, pos, symbol) ==
    LET same == {i \in 1 .. Smaller(DataLen(z), MaxPkgNums - 1) : i % GroupNumber = pos % GroupNumber}
    IN  \/ t = 0
        \/ /\ \E i \in same \ {pos} : z.pkg[t][i].symbol = z.pkg[t][pos].symbol
           /\ \A i \in same : z.pkg[t][i].symbol # symbol

\* Defect: the symbol that came first never gives way.
SaveFirst(z, t, heard, pos, symbol, score) ==
    IF z.pkg[t][pos].score > 0 THEN z
    ELSE [z EXCEPT !.pkg[t][pos] = [symbol |-> symbol, score |-> score],
                   !.at[t].replace = TRUE]

Save(z, t, heard, pos, symbol, score) ==
    LET old   == z.pkg[t][pos]
        equal == old.symbol = symbol
    IN  CASE score > old.score ->
               [z EXCEPT !.pkg[t][pos] = [symbol |-> symbol, score |-> score],
                         !.at[t].replace = @ \/ ~equal]
          [] score = old.score /\ equal -> [z EXCEPT !.pkg[t][pos].score = @ + 1]
          [] score = old.score /\ ~equal ->
               IF Replaces(z, t, pos, symbol) THEN [z EXCEPT !.pkg[t][pos].symbol = symbol]
                                              ELSE [z EXCEPT !.pkg[t][pos].score = @ \div 2]
          [] score < old.score ->
               IF t = heard /\ equal /\ z.at[t].uplimit >= ScoreMid /\ old.score - score < 10
               THEN [z EXCEPT !.at[t].uplimit = (@ + old.score) \div 2]
               ELSE z

-----------------------------------------------------------------------------
(* Is the message complete?                                                 *)

Says(pkg, i) == Data(pkg[i])

\* The ssid that the list of access points knows is filled in.
Fills(z, t) ==
    /\ z.ssid # <<>> /\ Says(z.pkg[t], 2) % 2 = 1 /\ ~z.noAutoComplete
    /\ z.pkg[t][2].score < AutoComplete /\ z.pkg[t][3].score > ScoreMid
Filled(z, t) ==
    [i \in DOMAIN z.pkg[t] |->
       IF i \in 5 .. Len(z.ssid) + 4 THEN [symbol |-> z.ssid[i - 4], score |-> AutoComplete]
       ELSE IF i \in {2, 3} THEN [z.pkg[t][i] EXCEPT !.score = AutoComplete]
       ELSE z.pkg[t][i]]
TryToComplete(z, t) ==
    IF ~Fills(z, t) THEN z
    ELSE IF Len(z.ssid) = Says(z.pkg[t], 3) THEN [z EXCEPT !.pkg[t] = Filled(z, t)]
    ELSE [z EXCEPT !.noAutoComplete = TRUE]

\* Every symbol has a score and the lengths agree.
Done(pkg, ssidLen, maxPos) ==
    /\ maxPos >= Says(pkg, 1)
    /\ \A i \in 1 .. Says(pkg, 1) : pkg[i].score > ScoreMin
    /\ Says(pkg, 1) = IF Says(pkg, 2) % 2 = 1 THEN ssidLen + Says(pkg, 4) + 6
                                             ELSE Says(pkg, 3) + 5

Completed(z, t) ==
    IF Says(z.pkg[t], 1) # 0 /\ z.pkg[t][1].score > ScoreMin
    THEN LET zz == TryToComplete(z, t)
         IN  [zc |-> zz,
              done |-> Done(zz.pkg[t], IF Fills(z, t) THEN Len(z.ssid) ELSE Says(z.pkg[t], 3),
                            z.at[t].maxPos)]
    ELSE [zc |-> z, done |-> FALSE]

\* Lower the scores of what cannot all be right.
Doubt(z, len) ==
    [z EXCEPT !.pkg = [t \in Sides |-> [i \in DOMAIN @[t] |->
        IF i > len THEN @[t][i]
        ELSE [@[t][i] EXCEPT !.score = IF @ > 96 THEN 96 ELSE @ \div 2]]]]

\* Defect: the ssid is not skipped.
ParsedAtSsid(s) ==
    [ssid |-> SubSeq(s, 5, 4 + s[3]), passwd |-> SubSeq(s, 5, 4 + s[4])]

\* What a message says.  A message without an ssid has one length only.
Parsed(s) ==
    IF s[2] % 2 = 1
    THEN [ssid |-> SubSeq(s, 5, 4 + s[3]), passwd |-> SubSeq(s, 5 + s[3], 4 + s[3] + s[4])]
    ELSE [ssid |-> <<>>, passwd |-> SubSeq(s, 4, 3 + s[3])]

\* zconfig_get_ssid_passwd.  A wrong password may decrypt to text by chance.
Got(z, says) ==
    [z EXCEPT !.got = [kind |-> "got", passwd |-> says.passwd,
                       ssid |-> IF z.ssid = <<>> THEN says.ssid ELSE z.ssid]]
Believe(z, says) ==
    IF says.passwd = msg.passwd THEN {Got(z, says)} ELSE {Got(z, says), Zero}
TakeSymbols(z, s) ==
    IF (s[2] \div 2) % 4 <= 1 THEN {z}
    ELSE IF Checksum(SubSeq(s, 1, Len(s) - 2)) # SubSeq(s, Len(s) - 1, Len(s))
         THEN {Doubt(z, Len(s))}
         ELSE Believe(z, Parsed(s))
Take(c, t) ==
    IF c.done THEN TakeSymbols(c.zc, [i \in 1 .. Says(c.zc.pkg[t], 1) |-> Says(c.zc.pkg[t], i)])
              ELSE {c.zc}

\* is_recv_completed
Finish(c, t) ==
    IF c.done THEN Take(Completed([c.zc EXCEPT !.at[t].replace = FALSE], t), t) ELSE {c.zc}
Complete(z, t) ==
    LET zz == [z EXCEPT !.at[t].maxPos = Larger(@, z.at[t].curPos)]
    IN  IF zz.at[t].replace THEN Finish(Completed(zz, t), t) ELSE {zz}

-----------------------------------------------------------------------------
(* awss_recv_callback_smartconfig.                                          *)

\* update_sn
UpdateSn(z, t, n, index, symbol) ==
    [z EXCEPT !.at[t].prevSn = n, !.at[t].lastIndex = index, !.at[t].lastSymbol = symbol]

\* is_hint_frame, and the channel is locked.
Hint(z, t, f, n) ==
    [z EXCEPT !.at[t] = [@ EXCEPT !.locked = TRUE, !.groupPos = f.group, !.curPos = f.group,
                                  !.groupSn = n, !.prevSn = n, !.uplimit = ScoreMax],
              !.ssid = known]

\* pos_unsync: keep the symbol until its group is known.
KeepTmp(z, t, f, n) ==
    LET a == z.at[t]
    IN  UpdateSn([z EXCEPT
            !.tmp[t][f.index] = [symbol |-> f.symbol,
                                 score |-> IF a.unsync = 1 THEN 1 ELSE (n - a.prevSn) % 256],
            !.at[t].unsync = @ + 1], t, n, f.index, f.symbol)

HearGroup(z, t, f, n) ==
    LET zz == IF z.at[t].unsync > 0 THEN TryToSync(z, t, f.group) ELSE z
    IN  {UpdateSn(y, t, n, 0, Unset) :
           y \in Complete([zz EXCEPT !.at[t] = [@ EXCEPT !.curPos = f.group, !.groupPos = f.group,
                                                     !.groupSn = n, !.uplimit = ScoreMax]], t)}

\* The symbol has a place: it is saved on both sides, unless a better one on
\* the side on which it was heard contradicts it.
HearInPlace(z, t, f, n) ==
    LET a     == z.at[t]
        pos   == a.groupPos + f.index
        score == DataScore(a, n, pos)
        zz    == [z EXCEPT !.at[t].uplimit = Smaller(@, score), !.at[t].groupSn = n,
                           !.at[t].curPos = pos]
        On(y, side_) == Save(y, side_, t, pos, f.symbol, score)
        contradicts == /\ score < z.pkg[t][pos].score
                       /\ f.symbol # z.pkg[t][pos].symbol
    IN  IF score = ScoreMin THEN {UpdateSn(z, t, n, f.index, f.symbol)}
        ELSE IF contradicts
        THEN {KeepTmp([(IF t = 1 THEN On(zz, 0) ELSE zz) EXCEPT !.at[t].unsync = 1], t, f, n)}
        ELSE {UpdateSn(y, t, n, f.index, f.symbol) : y \in Complete(On(On(zz, 0), 1), t)}

HearData(z, t, f, n, timeout) ==
    LET a == z.at[t]
        breaks == \/ f.index < a.lastIndex \/ timeout
                  \/ f.index = a.lastIndex /\ f.symbol # a.lastSymbol
        zz == [(IF a.unsync > 0 THEN TryToSync(z, t, NoGroup) ELSE z) EXCEPT !.at[t].unsync = 1]
    IN  IF a.groupPos + f.index >= MaxPkgNums THEN {z}
        ELSE IF breaks THEN {KeepTmp(zz, t, f, n)}
        ELSE IF a.unsync > 0 THEN {KeepTmp(z, t, f, n)}
        ELSE HearInPlace(z, t, f, n)

Heard(z, t, f, n, timeout) ==
    LET a == z.at[t]
    IN  IF ~a.locked
        THEN {UpdateSn(IF f.kind = "group" THEN Hint(z, t, f, n) ELSE z, t, n, 0, Unset)}
        ELSE IF n = a.prevSn THEN {z}
        ELSE IF ~SnAfter(n, a.prevSn) /\ ~timeout THEN {UpdateSn(z, t, n, 0, Unset)}
        ELSE IF f.kind = "group" THEN HearGroup(z, t, f, n)
        ELSE HearData(z, t, f, n, timeout)

-----------------------------------------------------------------------------
(* The phone, the air and the device.                                       *)

Init ==
    /\ \E m \in Messages :
         msg = [ssid |-> m.ssid, passwd |-> m.passwd, symbols |-> Symbols(m)]
    /\ zc = Zero
    /\ place \in FirstPlaces /\ side = 1 /\ sn = FirstSn
    /\ held = Nothing /\ late = [t \in Sides |-> FALSE]
    /\ deaf \in Deaf /\ known \in Known
    /\ faults = 0 /\ clean = 0

Advance ==
    IF side = 1 THEN side' = 0 /\ UNCHANGED <<place, sn>>
    ELSE /\ side' = 1 /\ sn' = (sn + 1) % 4096
         /\ place' = (place % PassLength(msg.symbols)) + 1

Hearing == zc' \in Heard(zc, side, FrameAt(msg.symbols, place), sn, late[side])
Fault   == faults < MaxFaults /\ faults' = faults + 1 /\ clean' = 0
Good    == UNCHANGED faults /\ clean' = IF side = 0 /\ held = Nothing THEN clean + 1 ELSE clean

Hear ==
    /\ side \notin deaf /\ Hearing /\ Advance
    /\ late' = [late EXCEPT ![side] = FALSE]
    /\ Good
    /\ UNCHANGED <<msg, known, held, deaf>>

Miss ==
    /\ side \in deaf /\ Advance /\ Good
    /\ UNCHANGED <<msg, known, zc, held, late, deaf>>

Lose ==
    /\ side \notin deaf /\ Fault /\ Advance
    /\ UNCHANGED <<msg, known, zc, held, late, deaf>>

Repeat ==
    /\ side \notin deaf /\ Fault /\ Hearing
    /\ late' = [late EXCEPT ![side] = FALSE]
    /\ UNCHANGED <<msg, known, place, side, sn, held, deaf>>

Delay ==
    /\ side \notin deaf /\ held = Nothing /\ Fault /\ Advance
    /\ held' = [kind |-> "held", frame |-> FrameAt(msg.symbols, place), side |-> side, sn |-> sn]
    /\ UNCHANGED <<msg, known, zc, late, deaf>>

HearHeld ==
    /\ held # Nothing /\ held' = Nothing
    /\ zc' \in Heard(zc, held.side, held.frame, held.sn, late[held.side])
    /\ late' = [late EXCEPT ![held.side] = FALSE]
    /\ UNCHANGED <<msg, known, place, side, sn, deaf, faults, clean>>

\* Nothing is sent for longer than time_interval.
Pause ==
    /\ Fault /\ late' = [t \in Sides |-> TRUE]
    /\ UNCHANGED <<msg, known, zc, place, side, sn, held, deaf>>

Running == zc.got = Nothing
Next == Running /\ (Hear \/ Miss \/ Lose \/ Repeat \/ Delay \/ HearHeld \/ Pause)
Spec == Init /\ [][Next]_vars

-----------------------------------------------------------------------------
(* Properties.                                                              *)

\* Whatever is lost, repeated, late or paused, within the bound, the device
\* takes no password (zconfig_get_ssid_passwd) but the phone's, and the ssid is
\* the phone's or, if the list of access points knows it, that of the one that
\* relays the frames.
ReceivedIsSent ==
    zc.got # Nothing =>
        /\ zc.got.passwd = msg.passwd
        /\ zc.got.ssid = IF known = <<>> THEN msg.ssid ELSE known

\* Symbols that were put in a wrong place, and the scores that they were given,
\* do not stay: when the message has come undisturbed Patience times in a row,
\* on one side at least, awss_recv_callback_smartconfig has returned it.
SoonReceived == clean <= Patience * PassLength(msg.symbols)
=============================================================================

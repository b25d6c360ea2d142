---------------------------- MODULE DevResetProofs ----------------------------
(***************************************************************************)
(* Proofs about DevReset, for any number of restarts, power cuts, lost     *)
(* connections and messages.  A router is forgotten only after MaxTimes    *)
(* quick restarts; and the flag in flash is cleared only after the cloud   *)
(* was told of the youngest reset, or by the late reply to an earlier one. *)
(***************************************************************************)
EXTENDS DevReset, TLAPS

USE MaxTimesAssumption, BoundsAssumption

(***************************************************************************)
(* The variables stay in their types: awss_dev_reset.c and                 *)
(* factory_restore.c.  The count of restarts in flash never passes the     *)
(* restarts there were (RestartsCounted), and a restore that has begun was *)
(* asked for (RestoreBegun).                                               *)
(***************************************************************************)
RestartsCounted ==
    /\ times <= boots
    /\ boots <= crashes + 1
    /\ boot = "count" => times + 1 <= boots

RestoreBegun == boot \in {"flag", "clear", "erase"} => boots >= MaxTimes

Types ==
    /\ rst \in {0, 1}
    /\ times \in Nat /\ boots \in Nat
    /\ wifi \in {"kept", "erased"}
    /\ boot \in {"count", "flag", "clear", "erase", "running"}
    /\ quick \in {"off", "armed"}
    /\ link \in {"down", "up"}
    /\ suc \in {0, 1}
    /\ timer \in {"none", "armed", "fired"}
    /\ pc \in [Threads -> {"idle", "save", "check", "report", "subscribe", "publish"}]
    /\ reply \in {"idle", "clear"}
    /\ up \in 0 .. MaxWire
    /\ asked \in Nat /\ told \in 0 .. asked
    /\ crashes \in 0 .. MaxCrashes
    /\ drops \in 0 .. MaxDrops

RestartInv == Types /\ RestartsCounted /\ RestoreBegun

(***************************************************************************)
(* Every step of the two sources keeps the types.                          *)
(***************************************************************************)
LEMMA TypesStep ==
  ASSUME Types, [Next]_vars
  PROVE  Types'
<1> USE DEF Types
<1>1. ASSUME Startup PROVE Types'
  BY <1>1 DEF Startup, CountBoot, SetFlag, ClearTimes, EraseConfig, ram, net, history
<1>2. CASE QuickTimeout
  BY <1>2 DEF QuickTimeout, ram, net
<1>3. CASE Provision
  BY <1>3 DEF Provision, ram, net, history
<1>4. CASE Crash
  BY <1>4 DEF Crash, flash, Idle
<1>5. CASE Connect
  BY <1>5 DEF Connect, flash, history
<1>6. CASE CheckReset
  BY <1>6 DEF CheckReset, flash, net, history
<1>7. CASE Drop
  BY <1>7 DEF Drop, flash, ram
<1>8. CASE Close
  BY <1>8 DEF Close, flash
<1>9. CASE AskReset
  BY <1>9 DEF AskReset, flash, net, history
<1>10. CASE SaveReset
  <2>1. pc' \in [Threads -> {"idle", "save", "check", "report", "subscribe", "publish"}]
    BY <1>10 DEF SaveReset
  <2>2. asked' \in Nat /\ told' \in 0 .. asked'
    BY <1>10 DEF SaveReset
  <2>3. rst' = 1 /\ UNCHANGED <<times, wifi, boot, quick, suc, timer, reply, answer, net,
                                boots, crashes, drops>>
    BY <1>10 DEF SaveReset
  <2> QED  BY <2>1, <2>2, <2>3 DEF net
<1>11. CASE TimerFires
  BY <1>11 DEF TimerFires, flash, net, history
<1>12. CASE ClearReset
  BY <1>12 DEF ClearReset, net, history
<1>13. ASSUME NEW t \in Threads, Work(t) PROVE Types'
  BY <1>13 DEF Work, BeginReport, Subscribe, Publish, flash, net, history
<1>14. CASE CloudAnswers
  <2>1. told' = asked /\ asked' = asked
    BY <1>14 DEF CloudAnswers
  <2>2. up' \in 0 .. MaxWire
    BY <1>14 DEF CloudAnswers
  <2>3. UNCHANGED <<flash, boot, quick, ram, link, boots, crashes, drops>>
    BY <1>14 DEF CloudAnswers
  <2> QED  BY <2>1, <2>2, <2>3 DEF flash, ram
<1>15. CASE LoseReport \/ LoseReply
  BY <1>15 DEF LoseReport, LoseReply, flash, ram, history
<1>16. CASE ReceiveReply
  BY <1>16 DEF ReceiveReply, flash, history
<1>17. CASE UNCHANGED vars
  BY <1>17 DEF vars, flash, ram, net, history
<1> QED  BY <1>1, <1>2, <1>3, <1>4, <1>5, <1>6, <1>7, <1>8, <1>9, <1>10, <1>11,
            <1>12, <1>13, <1>14, <1>15, <1>16, <1>17 DEF Next

(***************************************************************************)
(* No step counts a restart that was not, or begins a restore too early:   *)
(* only factory_restore_init, the quick timer and a crash touch the counts.*)
(***************************************************************************)
LEMMA RestartStep ==
  ASSUME RestartInv, [Next]_vars
  PROVE  RestartInv'
<1> USE DEF RestartInv, RestartsCounted, RestoreBegun, Types
<1>1. Types'
  BY TypesStep
<1>2. CASE CountBoot
  <2>1. UNCHANGED <<boots, crashes>> /\ times' = times + 1 /\ boot = "count"
    BY <1>2 DEF CountBoot
  <2>2. (boot' = "flag" /\ times + 1 >= MaxTimes) \/ boot' = "running"
    BY <1>2 DEF CountBoot
  <2>3. times \in Nat /\ boots \in Nat /\ MaxTimes \in Nat
    OBVIOUS
  <2>4. RestartsCounted'
    BY <2>1, <2>2, <2>3
  <2>5. RestoreBegun'
    BY <2>1, <2>2, <2>3
  <2> QED  BY <1>1, <2>4, <2>5
<1>3. CASE SetFlag \/ ClearTimes \/ EraseConfig
  <2>1. boots' = boots /\ crashes' = crashes /\ (times' = times \/ times' = 0)
    BY <1>3 DEF SetFlag, ClearTimes, EraseConfig, history
  <2>2. boot \in {"flag", "clear", "erase"} /\ boot' # "count"
    BY <1>3 DEF SetFlag, ClearTimes, EraseConfig
  <2>3. RestartsCounted'
    BY <2>1, <2>2
  <2>4. RestoreBegun'
    BY <2>1, <2>2
  <2> QED  BY <1>1, <2>3, <2>4
<1>4. CASE QuickTimeout
  BY <1>1, <1>4 DEF QuickTimeout
<1>5. CASE Crash
  BY <1>1, <1>5 DEF Crash, flash
<1>6. ASSUME UNCHANGED <<boot, times, boots, crashes>> PROVE RestartInv'
  BY <1>1, <1>6
<1>7. ASSUME ~Startup, ~QuickTimeout, ~Crash PROVE UNCHANGED <<boot, times, boots, crashes>>
  BY <1>7 DEF Next, Provision, Connect, CheckReset, Drop, Close, AskReset, SaveReset,
     TimerFires, ClearReset, Work, BeginReport, Subscribe, Publish, CloudAnswers,
     LoseReport, LoseReply, ReceiveReply, vars, flash, history
<1> QED  BY <1>2, <1>3, <1>4, <1>5, <1>6, <1>7 DEF Startup

(***************************************************************************)
(* The device is first started with nothing counted and no restore begun.  *)
(***************************************************************************)
LEMMA RestartInit == Init => RestartInv
  BY DEF Init, RestartInv, RestartsCounted, RestoreBegun, Types, Idle

(***************************************************************************)
(* factory_restore_handle forgets a router only after MaxTimes restarts    *)
(* that the quick timer did not separate, wherever the power was cut.      *)
(***************************************************************************)
THEOREM RestoreOnlyAskedFor == Spec => RestoreIsAskedFor
<1>1. ASSUME RestartInv, [Next]_vars
      PROVE  [wifi = "kept" /\ wifi' = "erased" => boots >= MaxTimes]_vars
  <2>1. SUFFICES ASSUME wifi = "kept", wifi' = "erased"
                 PROVE  boots >= MaxTimes
    OBVIOUS
  <2>2. EraseConfig
    BY <1>1, <2>1 DEF Next, Startup, CountBoot, SetFlag, ClearTimes, QuickTimeout, Provision,
       Crash, Connect, CheckReset, Drop, Close, AskReset, SaveReset,
       TimerFires, ClearReset, Work, BeginReport, Subscribe, Publish, CloudAnswers,
       LoseReport, LoseReply, ReceiveReply, vars, flash
  <2> QED  BY <1>1, <2>2 DEF EraseConfig, RestartInv, RestoreBegun
<1> QED  BY <1>1, RestartInit, RestartStep, PTL DEF Spec, RestoreIsAskedFor

-----------------------------------------------------------------------------
(***************************************************************************)
(* What the replies of the cloud say, on their way and in the hands of     *)
(* awss_report_reset_reply: nobody answers a reset that was not told.      *)
(***************************************************************************)
RepliesTold ==
    /\ down \in Seq(Nat) /\ answer \in Nat
    /\ \A i \in 1 .. Len(down) : down[i] <= told
    /\ answer <= told

ResetInv == Types /\ RepliesTold /\ ClearedMeansTold

(***************************************************************************)
(* At the first start no reset was asked for and nothing is on its way.    *)
(***************************************************************************)
LEMMA ResetInit == Init => ResetInv
  BY DEF Init, ResetInv, Types, RepliesTold, ClearedMeansTold, Idle, Threads

(***************************************************************************)
(* The replies stay answers to what was told: only the cloud sends one,    *)
(* only awss_report_reset_reply takes one, and nothing takes back what the *)
(* cloud was told.                                                         *)
(***************************************************************************)
LEMMA RepliesStep ==
  ASSUME Types, RepliesTold, [Next]_vars
  PROVE  RepliesTold'
<1> USE DEF RepliesTold
<1>0. told \in Nat /\ asked \in Nat /\ told <= asked
  BY DEF Types
<1>1. CASE CloudAnswers
  <2>1. told' = asked /\ answer' = answer
    BY <1>1 DEF CloudAnswers, ram
  <2>2. CASE down' = Append(down, asked)
    BY <1>0, <2>1, <2>2
  <2>3. CASE down' = down
    BY <1>0, <2>1, <2>3
  <2> QED  BY <1>1, <2>2, <2>3 DEF CloudAnswers
<1>2. CASE LoseReply
  BY <1>0, <1>2 DEF LoseReply, ram, history
<1>3. CASE ReceiveReply
  <2>1. down # <<>> /\ down' = Tail(down) /\ answer' = Head(down) /\ told' = told
    BY <1>3 DEF ReceiveReply, history
  <2>2. 1 \in 1 .. Len(down) /\ answer' = down[1]
    BY <2>1
  <2>3. answer' \in Nat /\ answer' <= told'
    BY <2>1, <2>2
  <2>4. down' \in Seq(Nat)
    BY <2>1
  <2>5. ASSUME NEW i \in 1 .. Len(down') PROVE down'[i] <= told'
    BY <2>1, <2>5
  <2> QED  BY <2>3, <2>4, <2>5
<1>4. CASE ClearReset
  BY <1>0, <1>4 DEF ClearReset, net
<1>5. CASE Crash \/ Drop \/ Close
  <2>1. down' = <<>> /\ answer' \in {answer, 0} /\ told' = told
    BY <1>5 DEF Crash, Drop, Close, ram
  <2> QED  BY <1>0, <2>1
<1>6. ASSUME UNCHANGED <<down, answer, told>> PROVE RepliesTold'
  BY <1>6
<1>7. ASSUME ~CloudAnswers, ~LoseReply, ~ReceiveReply, ~ClearReset, ~(Crash \/ Drop \/ Close)
      PROVE  UNCHANGED <<down, answer, told>>
  BY <1>7 DEF Next, Startup, CountBoot, SetFlag, ClearTimes, EraseConfig, QuickTimeout,
     Provision, Connect, CheckReset, AskReset, SaveReset, TimerFires, Work, BeginReport,
     Subscribe, Publish, LoseReport, vars, ram, net, history
<1> QED  BY <1>1, <1>2, <1>3, <1>4, <1>5, <1>6, <1>7

(***************************************************************************)
(* Every step keeps the flag in flash true to the cloud: the flag is set   *)
(* before a reset counts as asked for, and the reply that clears it        *)
(* answers the youngest reset or is counted late.                          *)
(***************************************************************************)
LEMMA ResetStep ==
  ASSUME ResetInv, [Next]_vars
  PROVE  ResetInv'
<1>1. Types' /\ RepliesTold'
  BY TypesStep, RepliesStep DEF ResetInv
<1>2. SUFFICES ClearedMeansTold'
  BY <1>1 DEF ResetInv
<1> USE DEF ClearedMeansTold
<1>3. CASE SetFlag \/ SaveReset
  BY <1>3 DEF SetFlag, SaveReset
<1>4. CASE CheckReset
  BY <1>4 DEF CheckReset, flash, ResetInv
<1>5. CASE ClearReset
  <2>1. answer <= told /\ answer \in Nat /\ told \in 0 .. asked /\ asked \in Nat
    BY DEF ResetInv, RepliesTold, Types
  <2>2. asked' = asked /\ told' = told /\ late' = (answer < asked)
    BY <1>5 DEF ClearReset
  <2>3. CASE answer < asked
    BY <2>2, <2>3
  <2>4. CASE ~(answer < asked)
    BY <2>1, <2>2, <2>4
  <2> QED  BY <2>3, <2>4
<1>6. CASE CloudAnswers
  BY <1>6 DEF CloudAnswers
<1>7. ASSUME UNCHANGED <<rst, asked, told, late>> PROVE ClearedMeansTold'
  BY <1>7 DEF ResetInv
<1>8. ASSUME ~(SetFlag \/ SaveReset), ~CheckReset, ~ClearReset, ~CloudAnswers
      PROVE  UNCHANGED <<rst, asked, told, late>>
  BY <1>8 DEF Next, Startup, CountBoot, ClearTimes, EraseConfig, QuickTimeout, Provision,
     Crash, Connect, Drop, Close, AskReset, TimerFires, Work, BeginReport, Subscribe,
     Publish, LoseReport, LoseReply, ReceiveReply, vars, flash, history
<1> QED  BY <1>3, <1>4, <1>5, <1>6, <1>7, <1>8

(***************************************************************************)
(* awss_report_reset_reply: the flag in flash is cleared only after the    *)
(* cloud has reset the device since that was last asked for, or by the     *)
(* late reply to an earlier reset, however many are asked for and whatever *)
(* was lost, late or cut in between.                                       *)
(***************************************************************************)
THEOREM ClearedOnlyTold == Spec => []ClearedMeansTold
<1>1. ResetInv => ClearedMeansTold
  BY DEF ResetInv
<1> QED  BY <1>1, ResetInit, ResetStep, PTL DEF Spec
=============================================================================

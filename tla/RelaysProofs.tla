---------------------------- MODULE RelaysProofs ----------------------------
(***************************************************************************)
(* Proofs about Relays, for any number of triggers, up to six outputs, any *)
(* settings, and any interleaving of the alarm task, the timer daemon, the *)
(* web server and resets.                                                  *)
(***************************************************************************)
EXTENDS RelayHistory, NaturalsInduction, WellFoundedInduction, TLAPS

(* What a configuration gives, field by field.                             *)
LEMMA ConfigFields ==
  ASSUME NEW c \in Configs, NEW b \in Output
  PROVE  /\ c.sel[b] \subseteq Trigger /\ c.permanent[b] \in BOOLEAN
         /\ c.delay[b] \in 0 .. 254 /\ c.ticks[b] \in Nat \ {0}
  BY ConfigAssumption DEF Settings

(* The loops stay within their arrays.                                     *)
LEMMA TriggerLoop ==
  ASSUME idx \in Trigger, NextTrigger
  PROVE  /\ pc' \in {"edge", "output"}
         /\ pc' = "edge" => idx' \in Trigger
         /\ pc' = "output" => idx' \in Output
         /\ idx' \in Nat
  BY SizeAssumption DEF NextTrigger, Trigger, Output

LEMMA OutputLoop ==
  ASSUME idx \in Output, NextOutput
  PROVE  /\ pc' \in {"output", "write"}
         /\ pc' = "output" => idx' \in Output
         /\ idx' \in Nat
  BY SizeAssumption DEF NextOutput, Output

(* The values the arrays are set to.                                       *)
LEMMA Zeroed ==
  /\ AllClear \in [Trigger -> BOOLEAN]
  /\ NoCount \in [Output -> Nat]
  /\ NoCount \in [Output -> 0 .. Idle]
  /\ InitialDelays \in [Output -> 0 .. Idle]
<1>1. 0 \in Nat /\ 0 \in 0 .. Idle /\ Idle \in 0 .. Idle
  BY DEF Idle
<1> QED BY <1>1 DEF AllClear, NoCount, InitialDelays

(* Every variable keeps its type: in particular the loop indices never     *)
(* leave the arrays and a delay never leaves its byte.                     *)
THEOREM TypeCorrect == Spec => []TypeOK
<1>1. Init => TypeOK
  <2> SUFFICES ASSUME Init PROVE TypeOK
    OBVIOUS
  <2>1. /\ changed \in BOOLEAN /\ reset \in BOOLEAN
        /\ timerRunning \in BOOLEAN /\ timerArmed \in BOOLEAN
        /\ restart \in BOOLEAN /\ changeDo \in BOOLEAN
    BY DEF Init
  <2>2. /\ hwVersion \in HwVersions
        /\ cfg \in Configs /\ webPc \in {"idle", "saving"}
        /\ doByte \subseteq Bits /\ latch \subseteq Bits
        /\ pc \in AlarmPc /\ idx \in Nat /\ acc \subseteq Bits
        /\ toClear \subseteq Output /\ expired \subseteq Output
        /\ tPc \in TimerPc /\ tAcc \subseteq Bits
    BY DEF Init, AlarmPc, TimerPc
  <2>3. pc = "boot" /\ tPc = "idle"
    BY DEF Init
  <2>4. /\ alarm \in [Trigger -> BOOLEAN] /\ alarmOld \in [Trigger -> BOOLEAN]
        /\ delayTimer \in [Output -> 0 .. Idle] /\ pulseCount \in [Output -> Nat]
    BY Zeroed DEF Init
  <2> QED BY <2>1, <2>2, <2>3, <2>4 DEF TypeOK
<1>2. TypeOK /\ [Next]_vars => TypeOK'
  <2> SUFFICES ASSUME TypeOK, [Next]_vars PROVE TypeOK'
    OBVIOUS
  <2> USE DEF TypeOK, AlarmPc, TimerPc, settingsVars, triggerVars, pulseVars,
              timerTask, alarmTask
  <2>1. CASE InitAlarmRules
    BY <2>1, Zeroed DEF InitAlarmRules
  <2>2. CASE StartRun
    BY <2>2 DEF StartRun
  <2>3. CASE ToggleLed
    BY <2>3 DEF ToggleLed, Led, Bits
  <2>4. CASE EvaluateRules
    <3>1. idx' \in Trigger /\ idx' \in Nat /\ pc' = "edge"
      BY <2>4, SizeAssumption DEF EvaluateRules, Trigger
    <3>2. changed' \in BOOLEAN /\ reset' \in BOOLEAN
      BY <2>4 DEF EvaluateRules
    <3>3. alarm' \in [Trigger -> BOOLEAN]
      BY <2>4 DEF EvaluateRules
    <3> QED BY <2>4, <3>1, <3>2, <3>3 DEF EvaluateRules
  <2>5. CASE HandleEdge
    <3>1. alarm' \in [Trigger -> BOOLEAN] /\ alarmOld' \in [Trigger -> BOOLEAN]
      BY <2>5 DEF HandleEdge
    <3>2. delayTimer' \in [Output -> 0 .. Idle]
      BY <2>5, ConfigFields DEF HandleEdge, StartDelay, Idle
    <3>3. toClear' \subseteq Output
      BY <2>5 DEF HandleEdge, Selecting
    <3>4. CASE toClear' = {}
      <4>1. idx \in Trigger /\ NextTrigger
        BY <2>5, <3>4 DEF HandleEdge
      <4>2. /\ pc' \in {"edge", "output"} /\ idx' \in Nat
            /\ pc' = "edge" => idx' \in Trigger
            /\ pc' = "output" => idx' \in Output
        BY <4>1, TriggerLoop
      <4>3. UNCHANGED <<settingsVars, reset, pulseVars, timerTask, acc, doByte, latch>>
        BY <2>5 DEF HandleEdge
      <4> QED BY <3>1, <3>2, <3>3, <4>2, <4>3
    <3>5. CASE toClear' # {}
      <4>1. idx \in Trigger /\ pc' = "clearLoad" /\ idx' = idx
        BY <2>5, <3>5 DEF HandleEdge
      <4> QED BY <2>5, <3>1, <3>2, <3>3, <3>5, <4>1 DEF HandleEdge
    <3> QED BY <3>4, <3>5
  <2>6. CASE ClearLoad
    BY <2>6 DEF ClearLoad
  <2>7. CASE ClearStore
    <3>1. toClear' \subseteq Output /\ doByte' \subseteq Bits
      BY <2>7 DEF ClearStore
    <3>2. CASE toClear' = {}
      <4>1. idx \in Trigger /\ NextTrigger
        BY <2>7, <3>2 DEF ClearStore
      <4> QED BY <2>7, <3>1, <4>1, TriggerLoop DEF ClearStore
    <3>3. CASE toClear' # {}
      BY <2>7, <3>1, <3>3 DEF ClearStore
    <3> QED BY <3>2, <3>3
  <2>8. CASE CountDelay
    <3>1. delayTimer' \in [Output -> 0 .. Idle]
      BY <2>8 DEF CountDelay, Idle
    <3>2. idx \in Output /\ NextOutput
      BY <2>8 DEF CountDelay
    <3> QED BY <2>8, <3>1, <3>2, OutputLoop DEF CountDelay
  <2>9. CASE SetLoad
    BY <2>9 DEF SetLoad, Idle
  <2>10. CASE SetStore
    <3>1. idx \in Output /\ doByte' \subseteq Bits
      BY <2>10 DEF SetStore, Bits
    <3>2. CASE cfg.permanent[idx]
      <4>1. NextOutput
        BY <2>10, <3>2 DEF SetStore
      <4> QED BY <2>10, <3>1, <4>1, OutputLoop DEF SetStore
    <3>3. CASE ~cfg.permanent[idx]
      BY <2>10, <3>1, <3>3 DEF SetStore
    <3> QED BY <3>2, <3>3
  <2>11. CASE SetPulse
    <3>1. idx \in Output /\ NextOutput
      BY <2>11 DEF SetPulse
    <3>2. pulseCount' \in [Output -> Nat]
      BY <2>11, <3>1, ConfigFields DEF SetPulse
    <3>3. timerArmed' \in BOOLEAN
      BY <2>11 DEF SetPulse
    <3> QED BY <2>11, <3>1, <3>2, <3>3, OutputLoop DEF SetPulse
  <2>12. CASE WriteOutputs
    BY <2>12 DEF WriteOutputs
  <2>13. CASE TimerFires
    <3>1. pulseCount' \in [Output -> Nat]
      BY <2>13 DEF TimerFires
    <3>2. /\ expired' \subseteq Output /\ restart' \in BOOLEAN /\ changeDo' \in BOOLEAN
          /\ timerArmed' \in BOOLEAN
      BY <2>13 DEF TimerFires
    <3>3. tPc' \in TimerPc /\ (tPc' \in {"load", "store"} => expired' # {})
      BY <2>13 DEF TimerFires, NextExpired
    <3> QED BY <2>13, <3>1, <3>2, <3>3 DEF TimerFires
  <2>14. CASE PulseLoad
    BY <2>14 DEF PulseLoad
  <2>15. CASE PulseStore
    BY <2>15 DEF PulseStore, NextExpired, StoreCleared
  <2>16. CASE PulseFinish
    <3>1. timerArmed' \in BOOLEAN /\ timerRunning' \in BOOLEAN
      BY <2>16 DEF PulseFinish
    <3>2. latch' \subseteq Bits
      BY <2>16 DEF PulseFinish, PulseLatch
    <3> QED BY <2>16, <3>1, <3>2 DEF PulseFinish
  <2>17. CASE SaveSetting
    BY <2>17 DEF SaveSetting
  <2>18. CASE ChangeAlarmSettings
    BY <2>18 DEF ChangeAlarmSettings
  <2>19. CASE Restart
    BY <2>19, Zeroed DEF Restart
  <2>20. CASE UNCHANGED vars
    BY <2>20 DEF vars
  <2> QED
    BY <2>1, <2>2, <2>3, <2>4, <2>5, <2>6, <2>7, <2>8, <2>9, <2>10, <2>11,
       <2>12, <2>13, <2>14, <2>15, <2>16, <2>17, <2>18, <2>19, <2>20
       DEF Next, AlarmStep, TimerStep, WebStep
<1>3. QED BY <1>1, <1>2, PTL DEF Spec
-----------------------------------------------------------------------------

Counting == \E b \in Output : pulseCount[b] > 0

(* What makes PulseTimerArmed inductive: while doOffPulse runs the timer is *)
(* not pending, and it restarts it exactly if a pulse is still counted.     *)
TimerInv ==
  /\ PulseTimerArmed
  /\ tPc # "idle" => ~timerArmed /\ (restart <=> Counting)

(* A step that touches neither the counters nor the timer keeps it.         *)
LEMMA TimerUntouched ==
  ASSUME TimerInv, UNCHANGED <<pulseCount, timerRunning, timerArmed, restart>>,
         tPc = "idle" <=> tPc' = "idle"
  PROVE  TimerInv'
  BY DEF TimerInv, PulseTimerArmed, Counting

(* No pulse is left without its timer.                                      *)
THEOREM PulseTimerCorrect == Spec => []PulseTimerArmed
<1>1. Init => TimerInv
  BY DEF Init, TimerInv, PulseTimerArmed, Counting, NoCount
<1>2. TypeOK /\ TimerInv /\ [Next]_vars => TimerInv'
  <2> SUFFICES ASSUME TypeOK, TimerInv, [Next]_vars PROVE TimerInv'
    OBVIOUS
  <2> USE DEF settingsVars, triggerVars, pulseVars, timerTask, alarmTask
  <2>1. CASE SetPulse
    <3>1. idx \in Output /\ cfg.ticks[idx] \in Nat \ {0}
      BY <2>1, ConfigFields DEF TypeOK, SetPulse
    <3>2. Counting'
      BY <2>1, <3>1 DEF TypeOK, SetPulse, Counting
    <3>3. timerRunning' /\ timerArmed' /\ tPc' = "idle"
      BY <2>1 DEF SetPulse, MutexFree, TimerInv, PulseTimerArmed
    <3> QED BY <3>2, <3>3 DEF TimerInv, PulseTimerArmed
  <2>2. CASE TimerFires
    <3>1. /\ ~timerArmed' /\ tPc' # "idle" /\ timerRunning'
      BY <2>2 DEF TimerFires, NextExpired, MutexFree, TimerInv, PulseTimerArmed
    <3>2. restart' <=> \E b \in Output : pulseCount[b] > 1
      BY <2>2 DEF TimerFires, Continuing
    <3>3. ASSUME NEW b \in Output
          PROVE  pulseCount[b] > 1 <=> pulseCount'[b] > 0
      BY <2>2, <3>3 DEF TimerFires, TypeOK
    <3>4. restart' <=> Counting'
      BY <3>2, <3>3 DEF Counting
    <3> QED BY <3>1, <3>4 DEF TimerInv, PulseTimerArmed
  <2>3. CASE PulseLoad \/ PulseStore
    <3>1. UNCHANGED <<pulseCount, timerRunning, timerArmed, restart>>
      BY <2>3 DEF PulseLoad, PulseStore
    <3>2. tPc # "idle" /\ tPc' # "idle"
      BY <2>3 DEF PulseLoad, PulseStore, NextExpired
    <3> QED BY <3>1, <3>2, TimerUntouched
  <2>4. CASE PulseFinish
    <3>1. tPc = "finish" /\ tPc' = "idle" /\ (Counting' <=> Counting)
      BY <2>4 DEF PulseFinish, Counting
    <3>2. timerRunning /\ ~timerArmed /\ (restart <=> Counting)
      BY <3>1 DEF TimerInv, PulseTimerArmed
    <3>3. CASE restart
      <4>1. timerArmed' /\ timerRunning'
        BY <2>4, <3>2, <3>3 DEF PulseFinish
      <4> QED BY <3>1, <4>1 DEF TimerInv, PulseTimerArmed
    <3>4. CASE ~restart
      <4>1. ~timerArmed' /\ ~timerRunning' /\ ~Counting'
        BY <2>4, <3>1, <3>2, <3>4 DEF PulseFinish
      <4> QED BY <3>1, <4>1 DEF TimerInv, PulseTimerArmed, Counting
    <3> QED BY <3>3, <3>4
  <2>5. CASE Restart
    BY <2>5 DEF Restart, TimerInv, PulseTimerArmed, Counting, NoCount
  <2>6. CASE AlarmStep /\ ~SetPulse
    <3>1. UNCHANGED <<pulseCount, timerRunning, timerArmed, restart, tPc>>
      BY <2>6 DEF AlarmStep, InitAlarmRules, StartRun, ToggleLed, EvaluateRules,
         HandleEdge, ClearLoad, ClearStore, CountDelay, SetLoad, SetStore, WriteOutputs
    <3> QED BY <3>1, TimerUntouched
  <2>7. CASE WebStep
    BY <2>7, TimerUntouched DEF WebStep, SaveSetting, ChangeAlarmSettings
  <2>8. CASE UNCHANGED vars
    BY <2>8, TimerUntouched DEF vars
  <2> QED
    BY <2>1, <2>2, <2>3, <2>4, <2>5, <2>6, <2>7, <2>8 DEF Next, TimerStep
<1>3. TimerInv => PulseTimerArmed
  BY DEF TimerInv
<1>4. QED BY <1>1, <1>2, <1>3, TypeCorrect, PTL DEF Spec

(* What makes LatchFollowsByte inductive: between two runs the shift        *)
(* register differs from the relay byte only while doOffPulse still has to  *)
(* send what it cleared.                                                    *)
ByteSent ==
  pc = "wait" => latch = doByte \/ (tPc # "idle" /\ changeDo)

(* Outside both handlers the relays are the bits of the relay byte.         *)
THEOREM LatchCorrect == Spec => []LatchFollowsByte
<1>1. Init => ByteSent
  BY DEF Init, ByteSent
<1>2. ByteSent /\ [Next]_vars => ByteSent'
  <2> SUFFICES ASSUME ByteSent, [Next]_vars PROVE ByteSent'
    OBVIOUS
  <2> USE DEF settingsVars, triggerVars, pulseVars, timerTask, alarmTask
  <2>1. CASE AlarmStep /\ ~WriteOutputs
    <3>1. pc' # "wait"
      BY <2>1 DEF AlarmStep, InitAlarmRules, StartRun, ToggleLed, EvaluateRules,
         HandleEdge, ClearLoad, ClearStore, CountDelay, SetLoad, SetStore,
         SetPulse, NextTrigger, NextOutput
    <3> QED BY <3>1 DEF ByteSent
  <2>2. CASE WriteOutputs
    BY <2>2 DEF WriteOutputs, ByteSent
  <2>3. CASE TimerFires
    BY <2>3 DEF TimerFires, MutexFree, ByteSent
  <2>4. CASE PulseLoad
    BY <2>4 DEF PulseLoad, ByteSent
  <2>5. CASE PulseStore
    <3>1. tPc' # "idle" /\ changeDo'
      BY <2>5 DEF PulseStore, NextExpired
    <3> QED BY <3>1 DEF ByteSent
  <2>6. CASE PulseFinish
    BY <2>6 DEF PulseFinish, PulseLatch, ByteSent
  <2>7. CASE Restart
    BY <2>7 DEF Restart, ByteSent
  <2>8. CASE WebStep \/ UNCHANGED vars
    BY <2>8 DEF WebStep, SaveSetting, ChangeAlarmSettings, vars, ByteSent
  <2> QED
    BY <2>1, <2>2, <2>3, <2>4, <2>5, <2>6, <2>7, <2>8 DEF Next, TimerStep
<1>3. ByteSent => LatchFollowsByte
  BY DEF ByteSent, LatchFollowsByte
<1>4. QED BY <1>1, <1>2, <1>3, PTL DEF Spec
-----------------------------------------------------------------------------
(* Permanent relays, while no change of the settings is pending: no pulse   *)
(* is ever started, so that the alarm task is alone on the relay byte.      *)

AllPermanent == \A b \in Output : cfg.permanent[b]

(* The triggers whose edge this run has dealt with.                         *)
Handled(t) ==
  /\ pc = "edge" => t < idx
  /\ pc \in {"clearLoad", "clearStore"} => t <= idx

(* The outputs whose delay this run has counted, or has not begun to count. *)
Counted(b) ==
  \/ pc \in {"fresh", "led", "rules", "write", "wait"}
  \/ pc \in {"output", "setStore"} /\ b < idx

Alone == tPc = "idle" /\ ~timerArmed

Holds ==
  /\ ~changed /\ pc # "setPulse"
  /\ pc \in {"led", "clearStore", "setStore"} => acc = doByte
  /\ pc = "setStore" => delayTimer[idx] = Idle
  /\ pc = "wait" => latch = doByte
  /\ pc \notin {"clearLoad", "clearStore"} => toClear = {}

Follows ==
  /\ \A t \in Trigger : Handled(t) => alarm[t] = alarmOld[t]
  /\ \A b \in toClear : idx \in cfg.sel[b] /\ ~alarmOld[idx]

(* A delay that runs is never longer than the one that is set.              *)
DelayInv ==
  change = "none" => \A b \in Output :
    delayTimer[b] # Idle =>
      delayTimer[b] <= cfg.delay[b] /\ (Counted(b) => delayTimer[b] < cfg.delay[b])

(* Without a delay, an output that is on, or about to be switched, has an   *)
(* active trigger.                                                          *)
Due(b) == b \in doByte \ toClear \/ (pc = "setStore" /\ b = idx)
ReleaseInv ==
  change = "none" => \A b \in Output : cfg.delay[b] = 0 =>
    /\ Due(b) => \E t \in cfg.sel[b] : alarmOld[t]
    /\ delayTimer[b] = 0 => \E t \in cfg.sel[b] : alarmOld[t] /\ Handled(t)

(* An output with one trigger that is active is on, or has a delay running. *)
OnInv ==
  ~reset => \A b \in Output, t \in Trigger :
    cfg.sel[b] = {t} /\ alarmOld[t] => Due(b) \/ delayTimer[b] # Idle

(* The run that carries out a change forces every trigger low.              *)
ResetInv ==
  reset => change = "done" /\ \A t \in Trigger : Handled(t) => ~alarmOld[t]

PermanentInv ==
  /\ Alone
  /\ pc = "boot" => /\ doByte = {} /\ toClear = {} /\ ~reset
                    /\ alarm = AllClear /\ alarmOld = AllClear
  /\ pc # "boot" => Holds /\ Follows /\ DelayInv /\ ReleaseInv /\ OnInv /\ ResetInv

LEMMA LowestIs ==
  ASSUME NEW S \in SUBSET Output, S # {}
  PROVE  Lowest(S) \in S
<1>1. S \in SUBSET Nat  BY SizeAssumption DEF Output
<1>2. \E m \in S : \A n \in S : <<n, m>> \notin OpToRel(<, Nat)
  BY <1>1, WFMin, NatLessThanWellFounded, Zenon
<1>3. ASSUME NEW m \in S, NEW n \in S, <<n, m>> \notin OpToRel(<, Nat)
      PROVE  m <= n
  BY <1>1, <1>3 DEF OpToRel
<1>4. \E m \in S : \A n \in S : m <= n  BY <1>2, <1>3, Zenon
<1> QED  BY <1>4 DEF Lowest

Steps == /\ TypeOK /\ PermanentInv /\ AllPermanent /\ pc # "boot"
         /\ cfg' = cfg /\ change' = change

LEMMA EdgeKeeps ==
  ASSUME Steps, HandleEdge, ~reset
  PROVE  PermanentInv'
<1> DEFINE rise == IF alarm[idx] /\ ~alarmOld[idx] THEN Selecting(idx) ELSE {}
           fall == IF ~alarm[idx] /\ alarmOld[idx] THEN Selecting(idx) ELSE {}
<1>1. /\ pc = "edge" /\ idx \in Trigger /\ idx \in Nat /\ toClear = {} /\ ~reset /\ ~changed
      /\ tPc = "idle" /\ ~timerArmed
      /\ Follows /\ DelayInv /\ ReleaseInv /\ OnInv
      /\ \A t \in Trigger : t \in Int
      /\ \A b \in Output : b \in Nat
  BY SizeAssumption
  DEF Steps, HandleEdge, PermanentInv, TypeOK, Alone, Holds, Trigger, Output
<1>2. /\ alarm' = alarm
      /\ alarmOld' = [alarmOld EXCEPT ![idx] = alarm[idx]]
  BY <1>1 DEF HandleEdge, Steps, TypeOK
<1>3. /\ toClear' = fall
      /\ delayTimer' = [b \in Output |-> IF b \in rise /\ delayTimer[b] = Idle
                                           THEN cfg.delay[b] ELSE delayTimer[b]]
  <2>1. {b \in Selecting(idx) : cfg.permanent[b]} = Selecting(idx)
    BY DEF Steps, AllPermanent, Selecting
  <2> QED  BY <1>1, <2>1 DEF HandleEdge, StartDelay
<1>4. UNCHANGED <<changed, reset, tPc, timerArmed, doByte, latch, acc>>
  BY DEF HandleEdge, settingsVars, pulseVars, timerTask
<1>5. /\ pc' \in {"edge", "clearLoad", "output"}
      /\ pc' = "edge" => idx' = idx + 1
      /\ pc' = "clearLoad" => idx' = idx
      /\ pc' = "output" => idx' = 0 /\ \A t \in Trigger : t <= idx
      /\ pc' # "clearLoad" => toClear' = {}
  BY <1>1, SizeAssumption DEF HandleEdge, NextTrigger, Trigger
<1>6. \A t \in Trigger : Handled(t)' <=> (Handled(t) \/ t = idx \/ pc' = "output")
  BY <1>1, <1>5 DEF Handled
<1>7. \A b \in Output : ~Counted(b)'
  BY <1>1, <1>5 DEF Counted
<1>8. ASSUME NEW b \in Output
      PROVE  /\ cfg.delay[b] \in 0 .. 254 /\ cfg.sel[b] \subseteq Trigger
             /\ b \in Selecting(idx) <=> idx \in cfg.sel[b]
             /\ Due(b) <=> b \in doByte
             /\ Due(b)' <=> b \in doByte /\ b \notin fall
  <2>1. cfg \in Configs  BY DEF Steps, TypeOK
  <2> HIDE DEF fall
  <2> QED  BY <1>1, <1>3, <1>4, <1>5, <2>1, ConfigFields DEF Selecting, Due
<1>9. Follows'
  <2>1. ASSUME NEW t \in Trigger, Handled(t)' PROVE alarm'[t] = alarmOld'[t]
    <3>1. t <= idx  BY <1>1, <1>5, <1>6, <2>1 DEF Handled
    <3>2. CASE t = idx  BY <1>1, <1>2, <3>2 DEF Steps, TypeOK
    <3>3. CASE t # idx
      <4>1. Handled(t)  BY <1>1, <3>1, <3>3 DEF Handled
      <4> QED  BY <1>1, <1>2, <3>3, <4>1 DEF Follows, Steps, TypeOK
    <3> QED  BY <3>2, <3>3
  <2>2. ASSUME NEW b \in toClear' PROVE idx' \in cfg'.sel[b] /\ ~alarmOld'[idx']
    <3>1. b \in Selecting(idx) /\ ~alarm[idx]  BY <1>3, <2>2
    <3>2. idx' = idx  BY <1>5, <2>2
    <3> QED  BY <1>1, <1>2, <3>1, <3>2 DEF Selecting, Steps, TypeOK
  <2> QED  BY <2>1, <2>2 DEF Follows
<1>10. DelayInv'
  <2> SUFFICES ASSUME change = "none", NEW b \in Output, delayTimer'[b] # Idle
               PROVE  delayTimer'[b] <= cfg.delay[b]
    BY <1>7 DEF DelayInv, Steps
  <2>1. delayTimer'[b] \in {cfg.delay[b], delayTimer[b]}  BY <1>3
  <2>2. cfg.delay[b] \in Nat  BY <1>8
  <2>3. delayTimer[b] # Idle => delayTimer[b] <= cfg.delay[b]  BY <1>1 DEF DelayInv
  <2> QED  BY <2>1, <2>2, <2>3
<1>11. ReleaseInv'
  <2> SUFFICES ASSUME change = "none", NEW b \in Output, cfg.delay[b] = 0
               PROVE  /\ Due(b)' => \E t \in cfg.sel[b] : alarmOld'[t]
                      /\ delayTimer'[b] = 0 =>
                           \E t \in cfg.sel[b] : alarmOld'[t] /\ Handled(t)'
    BY DEF ReleaseInv, Steps
  <2>1. ASSUME Due(b)' PROVE \E t \in cfg.sel[b] : alarmOld'[t]
    <3>1. PICK t \in cfg.sel[b] : alarmOld[t]
      BY <1>1, <1>8, <2>1 DEF ReleaseInv
    <3>2. t = idx => alarm[idx]  BY <1>8, <2>1, <3>1
    <3> QED  BY <1>2, <1>8, <3>1, <3>2 DEF Steps, TypeOK
  <2>2. ASSUME delayTimer'[b] = 0
        PROVE  \E t \in cfg.sel[b] : alarmOld'[t] /\ Handled(t)'
    <3>1. CASE delayTimer[b] = 0
      <4>1. PICK t \in cfg.sel[b] : alarmOld[t] /\ Handled(t)
        BY <1>1, <3>1 DEF ReleaseInv
      <4>2. t # idx /\ t \in Trigger  BY <1>1, <1>8, <4>1 DEF Handled
      <4> QED  BY <1>2, <1>6, <4>1, <4>2 DEF Steps, TypeOK
    <3>2. CASE delayTimer[b] # 0
      <4>1. b \in rise  BY <1>3, <2>2, <3>2
      <4>2. idx \in cfg.sel[b] /\ alarm[idx]  BY <1>8, <4>1
      <4> QED  BY <1>1, <1>2, <1>6, <4>2 DEF Steps, TypeOK
    <3> QED  BY <3>1, <3>2
  <2> QED  BY <2>1, <2>2
<1>12. OnInv'
  <2> SUFFICES ASSUME NEW b \in Output, NEW t \in Trigger,
                      cfg.sel[b] = {t}, alarmOld'[t]
               PROVE  Due(b)' \/ delayTimer'[b] # Idle
    BY DEF OnInv, Steps
  <2>1. CASE alarmOld[t]
    <3>1. Due(b) \/ delayTimer[b] # Idle  BY <1>1, <2>1 DEF OnInv
    <3>2. b \notin fall  BY <1>1, <1>2, <1>8 DEF Steps, TypeOK
    <3> QED  BY <1>3, <1>8, <3>1, <3>2
  <2>2. CASE ~alarmOld[t]
    <3>1. t = idx /\ alarm[idx]  BY <1>1, <1>2, <2>2 DEF Steps, TypeOK
    <3>2. b \in rise  BY <1>8, <2>2, <3>1
    <3> QED  BY <1>3, <1>8, <3>2 DEF Idle
  <2> QED  BY <2>1, <2>2
<1> QED
  BY <1>1, <1>4, <1>5, <1>9, <1>10, <1>11, <1>12
  DEF PermanentInv, Alone, Holds, ResetInv

(* The same in the run that carries out a change of the settings.           *)
LEMMA EdgeResets ==
  ASSUME Steps, HandleEdge, reset
  PROVE  PermanentInv'
<1>1. /\ pc = "edge" /\ idx \in Trigger /\ ~changed /\ tPc = "idle" /\ ~timerArmed
      /\ Follows /\ change = "done" /\ \A t \in Trigger : Handled(t) => ~alarmOld[t]
      /\ \A t \in Trigger : t \in Nat
  BY SizeAssumption
  DEF Steps, HandleEdge, PermanentInv, TypeOK, Alone, Holds, ResetInv, Trigger
<1>2. /\ alarm' = [alarm EXCEPT ![idx] = FALSE]
      /\ alarmOld' = [alarmOld EXCEPT ![idx] = FALSE]
      /\ toClear' = {b \in Selecting(idx) : cfg.permanent[b]}
      /\ UNCHANGED <<changed, reset, tPc, timerArmed, doByte, latch, acc>>
  BY DEF HandleEdge, settingsVars, pulseVars, timerTask
<1>3. /\ pc' \in {"edge", "clearLoad", "output"}
      /\ pc' = "edge" => idx' = idx + 1
      /\ pc' = "clearLoad" => idx' = idx
      /\ pc' = "output" => idx' = 0 /\ \A t \in Trigger : t <= idx
      /\ pc' # "clearLoad" => toClear' = {}
  BY <1>1, SizeAssumption DEF HandleEdge, NextTrigger, Trigger
<1>4. ASSUME NEW t \in Trigger, Handled(t)' PROVE ~alarm'[t] /\ ~alarmOld'[t]
  <2>1. t = idx \/ Handled(t)  BY <1>1, <1>3, <1>4 DEF Handled
  <2>2. t # idx => alarm'[t] = alarm[t] /\ alarmOld'[t] = alarmOld[t]
    BY <1>2 DEF Steps, TypeOK
  <2>3. t = idx => ~alarm'[t] /\ ~alarmOld'[t]
    BY <1>2 DEF Steps, TypeOK
  <2>4. Handled(t) => ~alarm[t] /\ ~alarmOld[t]
    BY <1>1 DEF Follows, Steps, TypeOK
  <2> QED  BY <2>1, <2>2, <2>3, <2>4
<1>5. Follows'
  <2>1. ASSUME NEW t \in Trigger, Handled(t)' PROVE alarm'[t] = alarmOld'[t]
    <3>1. /\ alarm'[t] \in BOOLEAN /\ alarmOld'[t] \in BOOLEAN
          /\ ~alarm'[t] /\ ~alarmOld'[t]
      BY <1>2, <1>4, <2>1 DEF Steps, TypeOK
    <3> QED  BY <3>1
  <2>2. ASSUME NEW b \in toClear' PROVE idx' \in cfg'.sel[b] /\ ~alarmOld'[idx']
    <3>1. idx' = idx /\ b \in Selecting(idx)  BY <1>2, <1>3, <2>2
    <3> QED  BY <1>1, <1>2, <3>1 DEF Selecting, Steps, TypeOK
  <2> QED  BY <2>1, <2>2 DEF Follows
<1>6. DelayInv' /\ ReleaseInv' /\ OnInv' /\ ResetInv'
  BY <1>1, <1>2, <1>4 DEF DelayInv, ReleaseInv, OnInv, ResetInv, Steps
<1> QED  BY <1>1, <1>2, <1>3, <1>5, <1>6 DEF PermanentInv, Alone, Holds

(* A step that only moves on, or carries out what is due.                   *)
LEMMA DueKept ==
  ASSUME Steps, UNCHANGED <<alarm, alarmOld, delayTimer, reset>>,
         \A b \in Output : Due(b)' <=> Due(b),
         \A b \in Output : Counted(b)' => Counted(b) \/ delayTimer[b] = Idle,
         \A t \in Trigger : Handled(t)' <=> Handled(t),
         toClear' \subseteq toClear, toClear' # {} => idx' = idx
  PROVE  Follows' /\ DelayInv' /\ ReleaseInv' /\ OnInv' /\ ResetInv'
<1>1. /\ Follows /\ DelayInv /\ ReleaseInv /\ OnInv /\ ResetInv
      /\ cfg' = cfg /\ change' = change
  BY DEF Steps, PermanentInv
<1>2. \A b \in Output : cfg.sel[b] \subseteq Trigger
  BY ConfigFields DEF Steps, TypeOK
<1>3. Follows'  BY <1>1 DEF Follows
<1>4. DelayInv'  BY <1>1 DEF DelayInv
<1>5. ReleaseInv'  BY <1>1, <1>2 DEF ReleaseInv
<1>6. OnInv'  BY <1>1 DEF OnInv
<1>7. ResetInv'  BY <1>1 DEF ResetInv
<1> QED  BY <1>3, <1>4, <1>5, <1>6, <1>7

LEMMA MovesKeep ==
  ASSUME Steps,
         StartRun \/ ToggleLed \/ ClearLoad \/ ClearStore \/ SetStore \/ WriteOutputs
  PROVE  PermanentInv'
<1> USE DEF settingsVars, triggerVars, pulseVars, timerTask, alarmTask
<1>1. /\ Alone /\ Holds /\ hwVersion \in HwVersions /\ idx \in Nat
      /\ toClear \subseteq Output
  BY DEF Steps, PermanentInv, TypeOK
<1>2. UNCHANGED <<alarm, alarmOld, delayTimer, changed, reset, tPc, timerArmed>>
  BY DEF StartRun, ToggleLed, ClearLoad, ClearStore, SetStore, WriteOutputs
<1>3. \A t \in Trigger : t \in Nat
  BY SizeAssumption DEF Trigger
<1>4. \A b \in Output : b \in Nat /\ b # Led
  BY SizeAssumption DEF Output, Led
<1>5. CASE StartRun \/ ToggleLed \/ ClearLoad \/ WriteOutputs
  <2>1. /\ \A b \in Output : b \in doByte' <=> b \in doByte
        /\ UNCHANGED <<toClear, idx>>
    BY <1>1, <1>4, <1>5
    DEF StartRun, ToggleLed, ClearLoad, WriteOutputs, Holds
  <2>2. /\ pc \in {"fresh", "wait", "led", "clearLoad", "write"}
        /\ pc' \in {"led", "rules", "clearStore", "wait"}
        /\ pc = "clearLoad" <=> pc' = "clearStore"
    BY <1>5 DEF StartRun, ToggleLed, ClearLoad, WriteOutputs
  <2>3. /\ \A b \in Output : Due(b)' <=> Due(b)
        /\ \A b \in Output : Counted(b)' => Counted(b)
        /\ \A t \in Trigger : Handled(t)' <=> Handled(t)
    BY <2>1, <2>2 DEF Due, Counted, Handled
  <2>4. Follows' /\ DelayInv' /\ ReleaseInv' /\ OnInv' /\ ResetInv'
    BY <1>2, <2>1, <2>3, DueKept
  <2>5. Holds'
    BY <1>1, <1>2, <1>5, <2>1, <2>2
    DEF Holds, StartRun, ToggleLed, ClearLoad, WriteOutputs
  <2> QED  BY <1>1, <1>2, <2>2, <2>4, <2>5 DEF PermanentInv, Alone
<1>6. CASE ClearStore
  <2>1. /\ pc = "clearStore" /\ toClear # {} /\ acc = doByte /\ idx \in Trigger
        /\ toClear' = toClear \ {Lowest(toClear)}
        /\ doByte' = doByte \ {Lowest(toClear)}
    BY <1>1, <1>6 DEF ClearStore, Holds, Steps, TypeOK
  <2>2. Lowest(toClear) \in toClear  BY <1>1, <2>1, LowestIs
  <2>3. /\ pc' \in {"clearLoad", "edge", "output"}
        /\ pc' = "clearLoad" => idx' = idx
        /\ pc' # "clearLoad" => toClear' = {}
        /\ pc' = "edge" => idx' = idx + 1
        /\ pc' = "output" => idx' = 0 /\ \A t \in Trigger : t <= idx
    BY <1>6, <2>1, SizeAssumption DEF ClearStore, NextTrigger, Trigger
  <2>4. \A b \in Output : Due(b)' <=> Due(b)
    BY <2>1, <2>2, <2>3 DEF Due
  <2>5. \A b \in Output : ~Counted(b)'
    BY <1>4, <2>3 DEF Counted
  <2>6. \A t \in Trigger : Handled(t)' <=> Handled(t)
    BY <1>1, <1>3, <2>1, <2>3 DEF Handled
  <2>7. Follows' /\ DelayInv' /\ ReleaseInv' /\ OnInv' /\ ResetInv'
    <3>1. toClear' \subseteq toClear /\ (toClear' # {} => idx' = idx)
      BY <2>1, <2>3
    <3> QED  BY <1>2, <2>4, <2>5, <2>6, <3>1, DueKept
  <2> QED  BY <1>1, <1>2, <2>3, <2>7 DEF PermanentInv, Alone, Holds
<1>7. CASE SetStore
  <2>1. /\ pc = "setStore" /\ acc = doByte /\ idx \in Output /\ delayTimer[idx] = Idle
        /\ doByte' = doByte \cup {idx} /\ toClear = {} /\ toClear' = {}
    BY <1>1, <1>7 DEF SetStore, Holds, Steps, TypeOK
  <2>2. /\ pc' \in {"output", "write"}
        /\ pc' = "output" => idx' = idx + 1
        /\ pc' = "write" => \A b \in Output : b <= idx
    BY <1>7, <2>1, SizeAssumption DEF SetStore, NextOutput, Steps, AllPermanent, Output
  <2>3. \A b \in Output : Due(b)' <=> Due(b)
    BY <2>1, <2>2 DEF Due
  <2>4. \A b \in Output : Counted(b)' => Counted(b) \/ delayTimer[b] = Idle
    BY <1>1, <1>4, <2>1, <2>2 DEF Counted
  <2>5. \A t \in Trigger : Handled(t)' <=> Handled(t)
    BY <2>1, <2>2 DEF Handled
  <2>6. Follows' /\ DelayInv' /\ ReleaseInv' /\ OnInv' /\ ResetInv'
    BY <1>2, <2>1, <2>3, <2>4, <2>5, DueKept
  <2> QED  BY <1>1, <1>2, <2>1, <2>2, <2>6 DEF PermanentInv, Alone, Holds
<1> QED  BY <1>5, <1>6, <1>7

LEMMA RulesKeep ==
  ASSUME Steps, EvaluateRules
  PROVE  PermanentInv'
<1>1. /\ pc = "rules" /\ pc' = "edge" /\ idx' = 0 /\ ~changed /\ ~reset'
      /\ toClear = {} /\ ~changed'
  BY DEF EvaluateRules, Steps, PermanentInv, Holds
<1>2. UNCHANGED <<tPc, timerArmed, alarmOld, toClear, delayTimer, doByte>>
  BY DEF EvaluateRules, pulseVars, timerTask
<1>3. /\ \A b \in Output : Counted(b) /\ ~Counted(b)' /\ (Due(b)' <=> Due(b))
      /\ \A t \in Trigger : ~Handled(t)'
  BY <1>1, <1>2, SizeAssumption DEF Counted, Handled, Due, Trigger
<1>4. Follows'  BY <1>1, <1>2, <1>3 DEF Follows
<1>5. /\ DelayInv /\ ReleaseInv /\ OnInv /\ ResetInv
      /\ cfg' = cfg /\ change' = change
  BY <1>1 DEF Steps, PermanentInv
<1>6. DelayInv'  BY <1>2, <1>3, <1>5 DEF DelayInv
<1>7. ASSUME change = "none", NEW b \in Output, cfg.delay[b] = 0 PROVE delayTimer[b] # 0
  BY <1>3, <1>5, <1>7 DEF DelayInv, Idle
<1>8. ReleaseInv'  BY <1>2, <1>3, <1>5, <1>7 DEF ReleaseInv
<1>9. OnInv'
  <2>1. CASE reset
    <3>1. \A t \in Trigger : ~alarmOld[t]
      BY <1>1, <1>5, <2>1 DEF ResetInv, Handled
    <3> QED  BY <1>2, <3>1 DEF OnInv
  <2>2. CASE ~reset
    BY <1>2, <1>3, <1>5, <2>2 DEF OnInv
  <2> QED  BY <2>1, <2>2
<1> QED
  BY <1>1, <1>2, <1>4, <1>6, <1>8, <1>9 DEF PermanentInv, Alone, Holds, ResetInv, Steps

(* From the run that carries out a change on, the new settings are owed.    *)
LEMMA AppliesOwes ==
  ASSUME TypeOK, PulseTimerArmed, EvaluateRules, Applies, change' = "done",
         toClear = {}
  PROVE  PermanentInv'
<1>1. /\ pc' = "edge" /\ idx' = 0 /\ toClear' = {} /\ reset' /\ ~changed'
      /\ UNCHANGED <<tPc, timerArmed>>
  BY DEF EvaluateRules, Applies, pulseVars, timerTask
<1>2. tPc = "idle" /\ ~timerArmed
  BY DEF Applies, PulseTimerArmed
<1>3. \A t \in Trigger : ~Handled(t)'
  BY <1>1, SizeAssumption DEF Handled, Trigger
<1> QED
  BY <1>1, <1>2, <1>3
  DEF PermanentInv, Alone, Holds, Follows, DelayInv, ReleaseInv, OnInv, ResetInv

LEMMA DelaysKeep ==
  ASSUME Steps, CountDelay \/ SetLoad
  PROVE  PermanentInv'
<1> USE DEF settingsVars, triggerVars, pulseVars, timerTask
<1>1. /\ pc = "output" /\ idx \in Output /\ toClear = {} /\ ~changed
      /\ delayTimer \in [Output -> 0 .. Idle]
      /\ Alone /\ Follows /\ DelayInv /\ ReleaseInv /\ OnInv /\ ResetInv
      /\ cfg' = cfg /\ change' = change
  BY DEF Steps, TypeOK, CountDelay, SetLoad, PermanentInv, Holds
<1>2. UNCHANGED <<alarm, alarmOld, reset, changed, tPc, timerArmed, toClear, doByte>>
  BY DEF CountDelay, SetLoad
<1>3. \A b \in Output : b \in Nat /\ cfg.delay[b] \in 0 .. 254
  <2>1. \A b \in Output : b \in Nat  BY SizeAssumption DEF Output
  <2>2. \A b \in Output : cfg.delay[b] \in 0 .. 254
    BY ConfigFields DEF Steps, TypeOK
  <2> QED  BY <2>1, <2>2
<1>4. CASE CountDelay
  <2>1. /\ pc' \in {"output", "write"}
        /\ pc' = "output" => idx' = idx + 1
        /\ pc' = "write" => \A b \in Output : b <= idx
    BY <1>1, <1>4, SizeAssumption DEF CountDelay, NextOutput, Output
  <2>2. /\ \A b \in Output : (Due(b)' <=> Due(b)) /\ (Counted(b)' => Counted(b) \/ b = idx)
        /\ \A t \in Trigger : Handled(t)' /\ Handled(t)
    BY <1>1, <1>2, <1>3, <2>1 DEF Due, Counted, Handled
  <2>3. ASSUME NEW b \in Output
        PROVE  \/ delayTimer'[b] = delayTimer[b] /\ (b = idx => delayTimer[b] = Idle)
               \/ /\ b = idx /\ delayTimer[b] \in 1 .. 254
                  /\ delayTimer'[b] = delayTimer[b] - 1
    <3>1. delayTimer[b] \in 0 .. 255  BY <1>1 DEF Idle
    <3>2. CASE delayTimer[idx] = Idle  BY <1>4, <3>2 DEF CountDelay
    <3>3. CASE delayTimer[idx] # Idle
      <4>1. /\ delayTimer' = [delayTimer EXCEPT ![idx] = delayTimer[idx] - 1]
            /\ delayTimer[idx] # 0
        BY <1>4, <3>3 DEF CountDelay
      <4> QED  BY <1>1, <3>1, <3>3, <4>1 DEF Idle
    <3> QED  BY <3>2, <3>3
  <2>4. DelayInv'
    <3> SUFFICES ASSUME change = "none", NEW b \in Output, delayTimer'[b] # Idle
                 PROVE  /\ delayTimer'[b] <= cfg.delay[b]
                        /\ Counted(b)' => delayTimer'[b] < cfg.delay[b]
      BY <1>1 DEF DelayInv
    <3>1. CASE delayTimer'[b] = delayTimer[b] /\ (b = idx => delayTimer[b] = Idle)
      BY <1>1, <2>2, <3>1 DEF DelayInv
    <3>2. CASE /\ b = idx /\ delayTimer[b] \in 1 .. 254
               /\ delayTimer'[b] = delayTimer[b] - 1
      <4>1. delayTimer[b] <= cfg.delay[b]  BY <1>1, <3>2 DEF DelayInv, Idle
      <4>2. ASSUME NEW d \in 1 .. 254, NEW most \in 0 .. 254, d <= most
            PROVE  d - 1 <= most /\ d - 1 < most
        BY <4>2
      <4>3. cfg.delay[b] \in 0 .. 254  BY <1>3
      <4> QED  BY <3>2, <4>1, <4>2, <4>3
    <3> QED  BY <2>3, <3>1, <3>2
  <2>5. ReleaseInv'
    <3>1. ASSUME change = "none", NEW b \in Output, cfg.delay[b] = 0, delayTimer'[b] = 0
          PROVE  delayTimer[b] = 0
      BY <1>1, <2>3, <3>1 DEF DelayInv, Idle
    <3>2. \A b \in Output : cfg.sel[b] \subseteq Trigger
      BY ConfigFields DEF Steps, TypeOK
    <3> QED  BY <1>1, <1>2, <2>2, <3>1, <3>2 DEF ReleaseInv
  <2>6. OnInv'
    <3>1. \A b \in Output : delayTimer[b] # Idle => delayTimer'[b] # Idle
      BY <2>3 DEF Idle
    <3> QED  BY <1>1, <1>2, <2>2, <3>1 DEF OnInv
  <2>7. Follows'  BY <1>1, <1>2, <2>2 DEF Follows
  <2>8. ResetInv'  BY <1>1, <1>2, <2>2 DEF ResetInv
  <2> QED
    BY <1>1, <1>2, <2>1, <2>4, <2>5, <2>6, <2>7, <2>8 DEF PermanentInv, Alone, Holds
<1>5. CASE SetLoad
  <2>1. /\ delayTimer[idx] = 0 /\ delayTimer' = [delayTimer EXCEPT ![idx] = Idle]
        /\ pc' = "setStore" /\ idx' = idx /\ acc' = doByte
    BY <1>5 DEF SetLoad
  <2>2. /\ \A b \in Output : (Due(b)' <=> Due(b) \/ b = idx) /\ (Counted(b)' => Counted(b))
        /\ \A t \in Trigger : Handled(t)' /\ Handled(t)
    BY <1>1, <1>2, <2>1 DEF Due, Counted, Handled
  <2>3. \A b \in Output : delayTimer'[b] = IF b = idx THEN Idle ELSE delayTimer[b]
    BY <1>1, <2>1
  <2>4. DelayInv'  BY <1>1, <2>2, <2>3 DEF DelayInv
  <2>5. ReleaseInv'
    <3>1. \A b \in Output : cfg.sel[b] \subseteq Trigger
      BY ConfigFields DEF Steps, TypeOK
    <3> QED  BY <1>1, <1>2, <2>1, <2>2, <2>3, <3>1 DEF ReleaseInv, Idle
  <2>6. OnInv'  BY <1>1, <1>2, <2>2, <2>3 DEF OnInv
  <2>7. Follows'  BY <1>1, <1>2, <2>2 DEF Follows
  <2>8. ResetInv'  BY <1>1, <1>2, <2>2 DEF ResetInv
  <2> QED
    BY <1>1, <1>2, <2>1, <2>3, <2>4, <2>5, <2>6, <2>7, <2>8
    DEF PermanentInv, Alone, Holds
<1> QED  BY <1>4, <1>5

LEMMA BootKeeps ==
  ASSUME TypeOK, PermanentInv, InitAlarmRules
  PROVE  PermanentInv'
<1>1. /\ pc' = "fresh" /\ ~changed' /\ ~reset' /\ tPc' = "idle" /\ ~timerArmed'
      /\ doByte' = {} /\ toClear' = {} /\ alarm' = AllClear /\ alarmOld' = AllClear
      /\ \A b \in Output : delayTimer'[b] = Idle
  BY DEF InitAlarmRules, InitialDelays, PermanentInv, Alone, triggerVars, pulseVars,
     timerTask
<1>2. \A b \in Output : ~Due(b)'  BY <1>1 DEF Due
<1>3. \A t \in Trigger : alarm'[t] = alarmOld'[t] /\ ~alarmOld'[t]
  BY <1>1 DEF AllClear
<1>4. Follows' /\ DelayInv' /\ ReleaseInv' /\ OnInv' /\ ResetInv'
  BY <1>1, <1>2, <1>3 DEF Follows, DelayInv, ReleaseInv, OnInv, ResetInv, Idle
<1> QED  BY <1>1, <1>4 DEF PermanentInv, Alone, Holds

(* Outside the loop over the outputs of a falling edge there is nothing to  *)
(* clear.                                                                   *)
ClearedInv == pc \notin {"clearLoad", "clearStore"} => toClear = {}

LEMMA ClearedNext ==
  ASSUME ClearedInv, [Next]_vars
  PROVE  ClearedInv'
<1> USE DEF settingsVars, triggerVars, pulseVars, timerTask, alarmTask, ClearedInv
<1>1. CASE HandleEdge  BY <1>1 DEF HandleEdge
<1>2. CASE ClearStore  BY <1>2 DEF ClearStore
<1>3. CASE ClearLoad  BY <1>3 DEF ClearLoad
<1>4. CASE AlarmStep /\ ~HandleEdge /\ ~ClearStore /\ ~ClearLoad
  BY <1>4 DEF AlarmStep, InitAlarmRules, StartRun, ToggleLed, EvaluateRules, CountDelay,
     SetLoad, SetStore, SetPulse, WriteOutputs
<1>5. CASE TimerStep \/ WebStep \/ UNCHANGED vars
  BY <1>5 DEF TimerStep, TimerFires, PulseLoad, PulseStore, PulseFinish, WebStep,
     SaveSetting, ChangeAlarmSettings, vars
<1>6. CASE Restart  BY <1>6 DEF Restart
<1> QED  BY <1>1, <1>2, <1>3, <1>4, <1>5, <1>6 DEF Next

Owed == pc = "boot" \/ (change # "pending" /\ AllPermanent)
OwedInv ==
  /\ ClearedInv
  /\ change \in {"none", "pending", "done"} /\ (change # "pending" => webPc = "idle")
  /\ Owed => PermanentInv

LEMMA OwedNext ==
  ASSUME TypeOK, TypeOK', PulseTimerArmed, OwedInv, HNext
  PROVE  Owed' => PermanentInv'
<1> USE DEF settingsVars, triggerVars, pulseVars, timerTask, alarmTask
<1>1. CASE Restart
  BY <1>1 DEF Restart, PermanentInv, Alone
<1>2. CASE pc' = "boot" /\ ~Restart
  <2>1. WebStep \/ TimerStep
    BY <1>2 DEF HNext, Next, AlarmStep, InitAlarmRules, StartRun, ToggleLed,
       EvaluateRules, HandleEdge, ClearLoad, ClearStore, CountDelay, SetLoad, SetStore,
       SetPulse, WriteOutputs, NextTrigger, NextOutput
  <2>2. pc = "boot" /\ PermanentInv
    BY <1>2, <2>1 DEF WebStep, SaveSetting, ChangeAlarmSettings, TimerStep, TimerFires,
       PulseLoad, PulseStore, PulseFinish, OwedInv, Owed
  <2>3. WebStep
    BY <2>1, <2>2 DEF TimerStep, TimerFires, PulseLoad, PulseStore, PulseFinish,
       PermanentInv, Alone
  <2> QED
    BY <1>2, <2>2, <2>3 DEF WebStep, SaveSetting, ChangeAlarmSettings, PermanentInv, Alone
<1>3. CASE Owed' /\ pc' # "boot"
  <2>1. change' # "pending" /\ webPc' = "idle" /\ AllPermanent'
        /\ change' = IF Applies THEN "done" ELSE change
    BY <1>3 DEF HNext, Owed
  <2>2. CASE Applies
    <3>1. EvaluateRules
      BY <2>2 DEF Applies, HNext, Next, AlarmStep, InitAlarmRules, StartRun, ToggleLed,
         HandleEdge, ClearLoad, ClearStore, CountDelay, SetLoad, SetStore, SetPulse,
         WriteOutputs, TimerStep, TimerFires, PulseLoad, PulseStore, PulseFinish, WebStep,
         SaveSetting, ChangeAlarmSettings, Restart
    <3>2. toClear = {}  BY <2>2 DEF Applies, OwedInv, ClearedInv
    <3> QED  BY <2>1, <2>2, <3>1, <3>2, AppliesOwes
  <2>3. CASE ~Applies
    <3>1. change' = change /\ change # "pending" /\ webPc = "idle"
      BY <2>1, <2>3 DEF OwedInv
    <3>2. ~Restart /\ ~WebStep
      BY <1>3, <2>1, <3>1 DEF Restart, WebStep, SaveSetting, ChangeAlarmSettings
    <3>3. cfg' = cfg
      BY <3>2 DEF HNext, Next, AlarmStep, InitAlarmRules, StartRun, ToggleLed,
         EvaluateRules, HandleEdge, ClearLoad, ClearStore, CountDelay, SetLoad, SetStore,
         SetPulse, WriteOutputs, TimerStep, TimerFires, PulseLoad, PulseStore, PulseFinish
    <3>4. AllPermanent /\ PermanentInv
      BY <2>1, <3>1, <3>3 DEF AllPermanent, OwedInv, Owed
    <3>5. AlarmStep /\ ~SetPulse
      <4>1. ~TimerStep
        BY <3>4 DEF TimerStep, TimerFires, PulseLoad, PulseStore, PulseFinish,
           PermanentInv, Alone
      <4>2. ~SetPulse
        BY <3>4 DEF SetPulse, PermanentInv, Holds
      <4> QED  BY <3>2, <4>1, <4>2 DEF HNext, Next
    <3>6. CASE InitAlarmRules  BY <3>4, <3>6, BootKeeps
    <3>7. CASE ~InitAlarmRules
      <4>1. pc # "boot"
        BY <3>5, <3>7 DEF AlarmStep, StartRun, ToggleLed, EvaluateRules, HandleEdge,
           ClearLoad, ClearStore, CountDelay, SetLoad, SetStore, WriteOutputs
      <4>2. Steps  BY <3>1, <3>3, <3>4, <4>1 DEF Steps
      <4> QED  BY <3>5, <3>7, <4>2, EdgeKeeps, EdgeResets, MovesKeep, RulesKeep, DelaysKeep
               DEF AlarmStep
    <3> QED  BY <3>6, <3>7
  <2> QED  BY <2>2, <2>3
<1> QED  BY <1>1, <1>2, <1>3

LEMMA SteadyRelays == HSpec => [](TypeOK /\ OwedInv)
<1>1. HSpec => [](TypeOK /\ PulseTimerArmed)
  <2>1. HInit => Init  BY DEF HInit
  <2>2. [HNext]_<<vars, change>> => [Next]_vars  BY DEF HNext
  <2> QED  BY <2>1, <2>2, TypeCorrect, PulseTimerCorrect, PTL DEF HSpec, Spec
<1>2. HInit => OwedInv
  BY DEF HInit, Init, OwedInv, ClearedInv, PermanentInv, Alone
<1>3. TypeOK /\ TypeOK' /\ PulseTimerArmed /\ OwedInv /\ [HNext]_<<vars, change>> => OwedInv'
  <2> SUFFICES ASSUME TypeOK, TypeOK', PulseTimerArmed, OwedInv, [HNext]_<<vars, change>>
               PROVE  OwedInv'
    OBVIOUS
  <2>1. CASE UNCHANGED <<vars, change>>
    BY <2>1
    DEF vars, settingsVars, triggerVars, pulseVars, timerTask, alarmTask, OwedInv,
        ClearedInv, Owed, AllPermanent, PermanentInv, Alone, Holds, Follows, DelayInv,
        ReleaseInv, OnInv, ResetInv, Due, Counted, Handled
  <2>2. CASE HNext
    <3>1. ClearedInv'  BY <2>2, ClearedNext DEF OwedInv, HNext
    <3>2. webPc \in {"idle", "saving"} /\ webPc' \in {"idle", "saving"}  BY DEF TypeOK
    <3>3. change' \in {"none", "pending", "done"} /\ (change' # "pending" => webPc' = "idle")
      BY <2>2 DEF HNext, OwedInv
    <3> QED  BY <2>2, <3>1, <3>3, OwedNext DEF OwedInv
  <2> QED  BY <2>1, <2>2
<1> QED  BY <1>1, <1>2, <1>3, PTL DEF HSpec

(* A permanent relay without delay is on only for an active trigger, the    *)
(* last falling edge, other edges in the same run and resets included.      *)
(* (AlarmRules.cpp:274-309, 335-375)                                        *)
THEOREM PermanentReleased == HSpec => []ReleasedWhenClear
<1>1. TypeOK /\ OwedInv => ReleasedWhenClear
  <2> SUFFICES ASSUME TypeOK, OwedInv, AfterRun, change = "none",
                      NEW b \in latch \cap Output, cfg.delay[b] = 0
               PROVE  \E t \in cfg.sel[b] : alarm[t]
    BY DEF ReleasedWhenClear
  <2>1. pc = "wait" /\ PermanentInv
    BY DEF AfterRun, OwedInv, Owed, AllPermanent
  <2>2. Due(b) /\ \A t \in Trigger : Handled(t)
    BY <2>1 DEF PermanentInv, Holds, Due, Handled
  <2>3. cfg.sel[b] \subseteq Trigger  BY ConfigFields DEF TypeOK
  <2> QED  BY <2>1, <2>2, <2>3 DEF PermanentInv, ReleaseInv, Follows
<1> QED  BY <1>1, SteadyRelays, PTL

(* An active trigger has its permanent relay on, or less than the delay to  *)
(* go; after any change of the settings that has been carried out, on or    *)
(* some delay to go.  (AlarmRules.cpp:274-366)                              *)
THEOREM PermanentOnOrDelayed == HSpec => []OnOrDelayed
<1>1. TypeOK /\ OwedInv => OnOrDelayed
  <2> SUFFICES ASSUME TypeOK, OwedInv, AfterRun, change # "pending",
                      NEW b \in Output, NEW t \in Trigger, cfg.sel[b] = {t}, alarm[t]
               PROVE  \/ b \in latch
                      \/ delayTimer[b] < IF change = "none" THEN cfg.delay[b] ELSE Idle
    BY DEF OnOrDelayed
  <2>1. pc = "wait" /\ PermanentInv
    BY DEF AfterRun, OwedInv, Owed, AllPermanent
  <2>2. (Due(b) => b \in latch) /\ Handled(t) /\ Counted(b)
    BY <2>1 DEF PermanentInv, Holds, Due, Handled, Counted
  <2>3. alarmOld[t] /\ ~reset
    BY <2>1, <2>2 DEF PermanentInv, Follows, ResetInv
  <2>4. b \in latch \/ delayTimer[b] # Idle
    BY <2>1, <2>2, <2>3 DEF PermanentInv, OnInv
  <2>5. delayTimer[b] # Idle /\ change = "none" => delayTimer[b] < cfg.delay[b]
    BY <2>1, <2>2 DEF PermanentInv, DelayInv
  <2>6. delayTimer[b] # Idle => delayTimer[b] < Idle
    <3>1. delayTimer[b] \in 0 .. 255  BY DEF TypeOK, Idle
    <3> QED  BY <3>1 DEF Idle
  <2> QED  BY <2>4, <2>5, <2>6
<1> QED  BY <1>1, SteadyRelays, PTL

-----------------------------------------------------------------------------
(* A pulse relay on its own, on a board whose LED has a pin of its own: no *)
(* update of the relay byte can get lost, whatever is saved or reset.      *)

OnePulseRelay ==
  /\ NumOutputs = 1 /\ 0 \notin HwVersions
  /\ \A c \in Configs : ~c.permanent[0]

(* The relay is on only with a pulse to count, or where one of the threads *)
(* is about to start it or to end it.                                      *)
PulseInv ==
  /\ tPc \in {"idle", "finish"} => expired = {}
  /\ pc \notin {"led", "clearLoad", "clearStore"}
  /\ 0 \in doByte => pulseCount[0] > 0 \/ pc = "setPulse" \/ 0 \in expired

LEMMA PulseStep ==
  ASSUME OnePulseRelay, TypeOK, PulseInv, [Next]_vars
  PROVE  PulseInv'
<1> USE DEF settingsVars, triggerVars, pulseVars, timerTask, alarmTask
<1>0. Output = {0}  BY DEF OnePulseRelay, Output
<1>1. /\ hwVersion # 0 /\ ~cfg.permanent[0]
      /\ pulseCount \in [Output -> Nat] /\ expired \subseteq {0}
  BY <1>0 DEF OnePulseRelay, TypeOK
<1>2. CASE UNCHANGED <<doByte, pulseCount, tPc, expired>>
           /\ pc # "setPulse" /\ pc' \notin {"led", "clearLoad", "clearStore"}
  BY <1>2 DEF PulseInv
<1>3. CASE InitAlarmRules \/ StartRun \/ EvaluateRules
  <2>1. /\ UNCHANGED <<doByte, pulseCount, tPc, expired>> /\ pc # "setPulse"
        /\ pc' \in {"fresh", "rules", "edge"}
    BY <1>1, <1>3 DEF InitAlarmRules, StartRun, EvaluateRules
  <2> QED  BY <1>2, <2>1
<1>4. CASE HandleEdge
  <2>1. UNCHANGED <<doByte, pulseCount, tPc, expired>> /\ pc # "setPulse"
    BY <1>4 DEF HandleEdge
  <2>2. pc' \in {"edge", "output"}
    <3>1. \A t : {b \in Selecting(t) : cfg.permanent[b]} = {}
      BY <1>0, <1>1 DEF Selecting
    <3> QED  BY <1>4, <3>1 DEF HandleEdge, NextTrigger
  <2> QED  BY <1>2, <2>1, <2>2
<1>5. CASE CountDelay \/ SetLoad \/ WriteOutputs
  <2>1. /\ UNCHANGED <<doByte, pulseCount, tPc, expired>> /\ pc # "setPulse"
        /\ pc' \in {"output", "write", "setStore", "wait"}
    BY <1>5 DEF CountDelay, SetLoad, WriteOutputs, NextOutput
  <2> QED  BY <1>2, <2>1
<1>6. CASE SetStore
  <2>1. idx = 0  BY <1>0, <1>6 DEF SetStore, TypeOK
  <2>2. pc' = "setPulse" /\ UNCHANGED <<tPc, expired>>
    BY <1>1, <1>6, <2>1 DEF SetStore
  <2> QED  BY <2>2 DEF PulseInv
<1>7. CASE SetPulse
  <2>1. idx = 0  BY <1>0, <1>7 DEF SetPulse, TypeOK
  <2>2. cfg.ticks[0] \in Nat \ {0}  BY <1>0, ConfigFields DEF TypeOK
  <2>3. pulseCount'[0] > 0  BY <1>0, <1>1, <1>7, <2>1, <2>2 DEF SetPulse
  <2>4. pc' \in {"output", "write"} /\ UNCHANGED <<tPc, expired>>
    BY <1>7 DEF SetPulse, NextOutput
  <2> QED  BY <2>3, <2>4 DEF PulseInv
<1>8. CASE ToggleLed \/ ClearLoad \/ ClearStore
  BY <1>8 DEF ToggleLed, ClearLoad, ClearStore, PulseInv
<1>9. CASE TimerFires
  <2>1. expired = {} /\ UNCHANGED <<doByte, pc>>
    BY <1>9 DEF TimerFires, MutexFree, PulseInv
  <2>2. /\ expired' = {b \in Output : pulseCount[b] = 1}
        /\ pulseCount' = [b \in Output |-> IF pulseCount[b] > 0 THEN pulseCount[b] - 1 ELSE 0]
        /\ tPc' = IF expired' = {} THEN "finish" ELSE "load"
    BY <1>9 DEF TimerFires, NextExpired
  <2>3. pulseCount[0] > 0 => pulseCount'[0] > 0 \/ 0 \in expired'
    BY <1>0, <1>1, <2>2
  <2> QED  BY <2>1, <2>2, <2>3 DEF PulseInv
<1>10. CASE PulseLoad
  BY <1>10 DEF PulseLoad, PulseInv
<1>11. CASE PulseStore
  <2>1. expired = {0}  BY <1>1, <1>11 DEF PulseStore, TypeOK
  <2>2. Lowest(expired) = 0  BY <2>1 DEF Lowest
  <2>3. 0 \notin doByte' /\ expired' = {} /\ pc' = pc /\ tPc' = "finish"
    BY <1>11, <2>1, <2>2 DEF PulseStore, StoreCleared, NextExpired
  <2> QED  BY <2>3 DEF PulseInv
<1>12. CASE PulseFinish
  BY <1>12 DEF PulseFinish, PulseInv
<1>13. CASE Restart
  BY <1>13 DEF Restart, PulseInv
<1>14. CASE WebStep \/ UNCHANGED vars
  BY <1>14 DEF WebStep, SaveSetting, ChangeAlarmSettings, vars, PulseInv
<1> QED
  BY <1>3, <1>4, <1>5, <1>6, <1>7, <1>8, <1>9, <1>10, <1>11, <1>12, <1>13, <1>14
  DEF Next, AlarmStep, TimerStep

(* Between two runs and two ticks the relay is on only while its pulse is  *)
(* counted and the timer that ends it is under way.                        *)
PulseHeld ==
  pc = "wait" /\ tPc = "idle" /\ 0 \in latch => pulseCount[0] > 0 /\ timerArmed

(* The safety half of RelaysReleased for a pulse relay: no load is left on *)
(* without a pulse that ends, whatever edges come while a pulse is being   *)
(* ended, and whatever the user saves.  (AlarmRules.cpp:345-360, 379-422)  *)
THEOREM PulseIsEnded == ASSUME OnePulseRelay PROVE Spec => []PulseHeld
<1>1. Init => PulseInv
  BY DEF Init, PulseInv
<1>2. TypeOK /\ PulseInv /\ [Next]_vars => PulseInv'
  BY PulseStep
<1>3. TypeOK /\ PulseInv /\ LatchFollowsByte /\ PulseTimerArmed => PulseHeld
  <2> SUFFICES ASSUME PulseInv, LatchFollowsByte, PulseTimerArmed,
                      pc = "wait", tPc = "idle", 0 \in latch
               PROVE  pulseCount[0] > 0 /\ timerArmed
    BY DEF PulseHeld
  <2>1. 0 \in doByte /\ expired = {}  BY DEF LatchFollowsByte, PulseInv
  <2>2. pulseCount[0] > 0  BY <2>1 DEF PulseInv
  <2>3. 0 \in Output  BY DEF OnePulseRelay, Output
  <2> QED  BY <2>2, <2>3 DEF PulseTimerArmed
<1> QED
  BY <1>1, <1>2, <1>3, TypeCorrect, LatchCorrect, PulseTimerCorrect, PTL DEF Spec
=============================================================================

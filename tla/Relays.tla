------------------------------- MODULE Relays -------------------------------
(***************************************************************************)
(* The relay half of src/src/AlarmRules.cpp: how an edge of a trigger      *)
(* becomes a relay that is switched on (after a delay) and off again       *)
(* (with the trigger, or after a pulse).                                   *)
(*                                                                         *)
(* Two threads work on the relay byte: task_alarmRules, which runs         *)
(* runAlarmRules() once a second on core 1, and doOffPulse(), which the    *)
(* FreeRTOS timer daemon calls every 10 ms while a pulse is running.       *)
(* doMutex protects the pulse counters, the timer flag and the shift       *)
(* register, but the alarm task updates u8_mDoByte OUTSIDE of it: each of  *)
(* its |=, &= and ^= is a load and a store here, so that an update made by *)
(* the other thread in between is lost, as it is on the target.  The web   *)
(* server saves settings while both run.                                   *)
(*                                                                         *)
(* Which trigger is active is decided by the rules (module Triggers); here *)
(* a run finds any value.  The two other listeners of an edge, mqttPublish *)
(* and setAlarmToBtDevices, own no state of this module.                   *)
(***************************************************************************)
EXTENDS Integers, FiniteSets

CONSTANTS
  NumTriggers,  (* CNT_ALARMS                                              *)
  NumOutputs,   (* CNT_DIGITALOUT                                          *)
  HwVersions,   (* hardware versions of the board                          *)
  Configs       (* the digital-output settings a user may save             *)

Trigger == 0 .. NumTriggers - 1
Output  == 0 .. NumOutputs - 1
Led     == 7
Bits    == Output \cup {Led}
Idle    == 255                  \* u8_DoVerzoegerungTimer: no delay is running

(* The settings page of the relay outputs: the triggers that switch an     *)
(* output, its behaviour (permanent or pulse), its delay in runs of the    *)
(* alarm task and the length of its pulse in timer ticks.                  *)
Settings == [sel       : [Output -> SUBSET Trigger],
             permanent : [Output -> BOOLEAN],
             delay     : [Output -> 0 .. 254],
             ticks     : [Output -> Nat \ {0}]]

ASSUME SizeAssumption == /\ NumTriggers \in Nat \ {0}
                         /\ NumOutputs \in 1 .. 6
                         /\ HwVersions \subseteq 0 .. 7
ASSUME ConfigAssumption == Configs # {} /\ Configs \subseteq Settings

VARIABLES
  hwVersion,    (* u8_mHwVersion, read from the board by initDio()         *)
  cfg,          (* the settings in RAM (WebSettings)                       *)
  changed,      (* bo_mChangeAlarmSettings                                 *)
  webPc,        (* "idle", or "saving": settings written, flag not yet set *)
  alarm,        (* bo_Alarm                                                *)
  alarmOld,     (* bo_Alarm_old                                            *)
  delayTimer,   (* u8_DoVerzoegerungTimer                                  *)
  doByte,       (* u8_mDoByte, as the set of bits that are 1               *)
  latch,        (* doOutData: what the shift register drives               *)
  pulseCount,   (* u16_DoPulsOffCounter                                    *)
  timerRunning, (* bo_timerPulseOffIsRunning                               *)
  timerArmed,   (* the one-shot timer is active in the timer daemon        *)
  pc,           (* where the alarm task is                                 *)
  idx,          (* its loop index: a trigger, then an output               *)
  acc,          (* the register it holds the loaded u8_mDoByte in          *)
  toClear,      (* outputs the current falling edge still has to clear     *)
  reset,        (* bo_lChangeAlarmSettings                                 *)
  tPc,          (* where doOffPulse is; outside "idle" it holds doMutex    *)
  tAcc,         (* its register                                            *)
  expired,      (* outputs whose pulse ends in this call                   *)
  restart,      (* restartTimer                                            *)
  changeDo      (* changeDoData                                            *)

settingsVars == <<hwVersion, cfg, changed, webPc>>
triggerVars  == <<alarm, alarmOld, reset>>
pulseVars    == <<pulseCount, timerRunning, timerArmed>>
timerTask    == <<tPc, tAcc, expired, restart, changeDo>>
alarmTask    == <<pc, idx, acc, toClear>>
vars == <<settingsVars, triggerVars, pulseVars, timerTask, alarmTask,
          delayTimer, doByte, latch>>

AlarmPc == {"boot", "fresh", "wait", "led", "rules", "edge", "clearLoad",
            "clearStore", "output", "setStore", "setPulse", "write"}
TimerPc == {"idle", "load", "store", "finish"}

TypeOK ==
  /\ hwVersion \in HwVersions
  /\ cfg \in Configs /\ changed \in BOOLEAN /\ webPc \in {"idle", "saving"}
  /\ alarm \in [Trigger -> BOOLEAN] /\ alarmOld \in [Trigger -> BOOLEAN]
  /\ reset \in BOOLEAN
  /\ delayTimer \in [Output -> 0 .. Idle]
  /\ doByte \subseteq Bits /\ latch \subseteq Bits
  /\ pulseCount \in [Output -> Nat]
  /\ timerRunning \in BOOLEAN /\ timerArmed \in BOOLEAN
  /\ pc \in AlarmPc /\ idx \in Nat /\ acc \subseteq Bits
  /\ toClear \subseteq Output
  /\ pc = "edge" => idx \in Trigger
  /\ pc \in {"output", "setStore", "setPulse"} => idx \in Output
  /\ pc \in {"clearLoad", "clearStore"} => idx \in Trigger /\ toClear # {}
  /\ tPc \in TimerPc /\ tAcc \subseteq Bits /\ expired \subseteq Output
  /\ tPc \in {"load", "store"} => expired # {}
  /\ restart \in BOOLEAN /\ changeDo \in BOOLEAN

Lowest(S) == CHOOSE b \in S : \A c \in S : b <= c

AllClear == [t \in Trigger |-> FALSE]
NoCount  == [b \in Output |-> 0]

(* RAM is zero before initAlarmRules() has run.                            *)
Init ==
  /\ hwVersion \in HwVersions /\ cfg \in Configs /\ latch = {}
  /\ changed = FALSE /\ webPc = "idle" /\ reset = FALSE
  /\ alarm = AllClear /\ alarmOld = AllClear
  /\ delayTimer = NoCount /\ doByte = {}
  /\ pulseCount = NoCount /\ timerRunning = FALSE /\ timerArmed = FALSE
  /\ pc = "boot" /\ idx = 0 /\ acc = {} /\ toClear = {}
  /\ tPc = "idle" /\ tAcc = {} /\ expired = {}
  /\ restart = FALSE /\ changeDo = FALSE

(***************************************************************************)
(* The web server: handle_paramDigitalOut() and its siblings write the     *)
(* arguments of a SAVE one by one and call changeAlarmSettings() at the    *)
(* end.  The alarm task may run in between.                                *)
(***************************************************************************)
SaveSetting ==
  /\ cfg' \in Configs
  /\ webPc' = "saving"
  /\ UNCHANGED <<hwVersion, changed, triggerVars, pulseVars, timerTask,
                 alarmTask, delayTimer, doByte, latch>>

ChangeAlarmSettings ==
  /\ webPc = "saving"
  /\ webPc' = "idle"
  /\ changed' = TRUE
  /\ UNCHANGED <<hwVersion, cfg, triggerVars, pulseVars, timerTask,
                 alarmTask, delayTimer, doByte, latch>>

(***************************************************************************)
(* A reset of the controller.  doOutData is RTC_DATA_ATTR and initDio()    *)
(* keeps it unless this is the first boot; everything else is lost.        *)
(***************************************************************************)
Restart ==
  /\ changed' = FALSE /\ webPc' = "idle" /\ reset' = FALSE
  /\ alarm' = AllClear /\ alarmOld' = AllClear
  /\ delayTimer' = NoCount /\ doByte' = {}
  /\ pulseCount' = NoCount /\ timerRunning' = FALSE /\ timerArmed' = FALSE
  /\ pc' = "boot" /\ idx' = 0 /\ acc' = {} /\ toClear' = {}
  /\ tPc' = "idle" /\ tAcc' = {} /\ expired' = {}
  /\ restart' = FALSE /\ changeDo' = FALSE
  /\ latch' \in {latch, {}}
  /\ UNCHANGED <<hwVersion, cfg>>

(***************************************************************************)
(* The alarm task.                                                         *)
(***************************************************************************)
(* Mutant: initAlarmRules() leaves the delays as they are after a reset.   *)
InitialDelaysKept == delayTimer
InitialDelays == [b \in Output |-> Idle]

InitAlarmRules ==
  /\ pc = "boot"
  /\ pc' = "fresh"
  /\ changed' = FALSE
  /\ delayTimer' = InitialDelays
  /\ UNCHANGED <<hwVersion, cfg, webPc, triggerVars, pulseVars, timerTask,
                 idx, acc, toClear, doByte, latch>>

(* A run begins: on hardware version 0 the LED is bit 7 of the relay byte, *)
(* toggled with ^=.                                                        *)
StartRun ==
  /\ pc \in {"fresh", "wait"}
  /\ IF hwVersion = 0 THEN pc' = "led" /\ acc' = doByte
                      ELSE pc' = "rules" /\ UNCHANGED acc
  /\ UNCHANGED <<settingsVars, triggerVars, pulseVars, timerTask, idx,
                 toClear, delayTimer, doByte, latch>>

ToggleLed ==
  /\ pc = "led"
  /\ pc' = "rules"
  /\ doByte' = IF Led \in acc THEN acc \ {Led} ELSE acc \cup {Led}
  /\ UNCHANGED <<settingsVars, triggerVars, pulseVars, timerTask, idx, acc,
                 toClear, delayTimer, latch>>

(* The rules give every trigger a value, then the settings flag is fetched *)
(* and cleared, unless its mutex is not free within 25 ms.                 *)
EvaluateRules ==
  /\ pc = "rules"
  /\ pc' = "edge" /\ idx' = 0
  /\ alarm' \in [Trigger -> BOOLEAN]
  /\ \/ reset' = changed /\ changed' = FALSE
     \/ reset' = FALSE /\ UNCHANGED changed
  /\ UNCHANGED <<hwVersion, cfg, webPc, alarmOld, pulseVars, timerTask, acc,
                 toClear, delayTimer, doByte, latch>>

(* Mutant: the loop over the triggers runs one too far.                    *)
NextTriggerTooFar ==
  IF idx < NumTriggers THEN pc' = "edge" /\ idx' = idx + 1
                       ELSE pc' = "output" /\ idx' = 0
NextTrigger ==
  IF idx + 1 < NumTriggers THEN pc' = "edge" /\ idx' = idx + 1
                           ELSE pc' = "output" /\ idx' = 0

(* The delay an output starts with.  Mutant: one run too long.             *)
StartDelayTooLong(b) == cfg.delay[b] + 1
StartDelay(b) == cfg.delay[b]

Selecting(t) == {b \in Output : t \in cfg.sel[b]}

(* One trigger of the loop over bo_Alarm: after a change of the settings   *)
(* the trigger is forced low with an edge; an edge starts the delay of the *)
(* outputs it selects (if none runs) or marks the permanent ones to be     *)
(* cleared.                                                                *)
HandleEdge ==
  LET t    == idx
      now  == IF reset THEN FALSE ELSE alarm[t]
      prev == IF reset THEN TRUE ELSE alarmOld[t]
      rise == IF now /\ ~prev THEN Selecting(t) ELSE {}
      fall == IF ~now /\ prev THEN {b \in Selecting(t) : cfg.permanent[b]} ELSE {}
  IN /\ pc = "edge"
     /\ alarm' = [alarm EXCEPT ![t] = now]
     /\ alarmOld' = [alarmOld EXCEPT ![t] = now]
     /\ delayTimer' = [b \in Output |->
                         IF b \in rise /\ delayTimer[b] = Idle
                           THEN StartDelay(b) ELSE delayTimer[b]]
     /\ toClear' = fall
     /\ IF fall = {} THEN NextTrigger ELSE pc' = "clearLoad" /\ idx' = idx
     /\ UNCHANGED <<settingsVars, reset, pulseVars, timerTask, acc, doByte, latch>>

(* u8_mDoByte &= ~(1 << b) for the outputs of a falling edge, in order.    *)
ClearLoad ==
  /\ pc = "clearLoad"
  /\ pc' = "clearStore"
  /\ acc' = doByte
  /\ UNCHANGED <<settingsVars, triggerVars, pulseVars, timerTask, idx,
                 toClear, delayTimer, doByte, latch>>

ClearStore ==
  /\ pc = "clearStore"
  /\ doByte' = acc \ {Lowest(toClear)}
  /\ toClear' = toClear \ {Lowest(toClear)}
  /\ IF toClear' = {} THEN NextTrigger ELSE pc' = "clearLoad" /\ idx' = idx
  /\ UNCHANGED <<settingsVars, triggerVars, pulseVars, timerTask, acc,
                 delayTimer, latch>>

NextOutput ==
  IF idx + 1 < NumOutputs THEN pc' = "output" /\ idx' = idx + 1
                          ELSE pc' = "write" /\ idx' = 0

(* setDOs() for one output whose delay has not run out.                    *)
CountDelay ==
  /\ pc = "output"
  /\ delayTimer[idx] # 0
  /\ delayTimer' = IF delayTimer[idx] = Idle THEN delayTimer
                   ELSE [delayTimer EXCEPT ![idx] = @ - 1]
  /\ NextOutput
  /\ UNCHANGED <<settingsVars, triggerVars, pulseVars, timerTask, acc,
                 toClear, doByte, latch>>

(* u8_mDoByte |= (1 << b) when the delay has run out.                      *)
SetLoad ==
  /\ pc = "output"
  /\ delayTimer[idx] = 0
  /\ delayTimer' = [delayTimer EXCEPT ![idx] = Idle]
  /\ pc' = "setStore"
  /\ acc' = doByte
  /\ UNCHANGED <<settingsVars, triggerVars, pulseVars, timerTask, idx,
                 toClear, doByte, latch>>

SetStore ==
  /\ pc = "setStore"
  /\ doByte' = acc \cup {idx}
  /\ IF cfg.permanent[idx] THEN NextOutput ELSE pc' = "setPulse" /\ idx' = idx
  /\ UNCHANGED <<settingsVars, triggerVars, pulseVars, timerTask, acc,
                 toClear, delayTimer, latch>>

(* doMutex can be taken.  Mutant: the mutex is forgotten.                  *)
MutexIgnored == TRUE
MutexFree == tPc = "idle"

(* Start the pulse, under doMutex.                                         *)
SetPulse ==
  /\ pc = "setPulse"
  /\ MutexFree
  /\ pulseCount' = [pulseCount EXCEPT ![idx] = cfg.ticks[idx]]
  /\ timerRunning' = TRUE
  /\ timerArmed' = (timerArmed \/ ~timerRunning)
  /\ NextOutput
  /\ UNCHANGED <<settingsVars, triggerVars, timerTask, acc, toClear,
                 delayTimer, doByte, latch>>

(* The run ends: the byte goes to the shift register, under doMutex.       *)
WriteOutputs ==
  /\ pc = "write"
  /\ MutexFree
  /\ latch' = doByte
  /\ pc' = "wait"
  /\ UNCHANGED <<settingsVars, triggerVars, pulseVars, timerTask, idx, acc,
                 toClear, delayTimer, doByte>>

(***************************************************************************)
(* doOffPulse(), in the timer daemon.  The counters are only touched under *)
(* doMutex, so one step counts them all down; the bits of the expired      *)
(* outputs are then cleared one load and store at a time.                  *)
(***************************************************************************)
(* Which pulses keep the timer going.  Mutant: none does.                  *)
NoneContinues == {}
Continuing == {b \in Output : pulseCount[b] > 1}

(* What clearing a bit of the byte stores.  Mutant: nothing is cleared.    *)
StoreUncleared(byte, b) == byte
StoreCleared(byte, b) == byte \ {b}

(* What the callback leaves in the shift register.  Mutant: a cleared bit  *)
(* is not sent there.                                                      *)
PulseLatchStale == latch
PulseLatch == IF changeDo THEN doByte ELSE latch

NextExpired(left) == tPc' = IF left = {} THEN "finish" ELSE "load"

TimerFires ==
  /\ timerArmed
  /\ MutexFree
  /\ timerArmed' = FALSE
  /\ pulseCount' = [b \in Output |-> IF pulseCount[b] > 0 THEN pulseCount[b] - 1 ELSE 0]
  /\ expired' = {b \in Output : pulseCount[b] = 1}
  /\ restart' = (Continuing # {})
  /\ changeDo' = FALSE
  /\ NextExpired(expired')
  /\ UNCHANGED <<settingsVars, triggerVars, timerRunning, tAcc, alarmTask,
                 delayTimer, doByte, latch>>

PulseLoad ==
  /\ tPc = "load"
  /\ tPc' = "store"
  /\ tAcc' = doByte
  /\ UNCHANGED <<settingsVars, triggerVars, pulseVars, expired, restart,
                 changeDo, alarmTask, delayTimer, doByte, latch>>

PulseStore ==
  /\ tPc = "store"
  /\ doByte' = StoreCleared(tAcc, Lowest(expired))
  /\ expired' = expired \ {Lowest(expired)}
  /\ changeDo' = TRUE
  /\ NextExpired(expired')
  /\ UNCHANGED <<settingsVars, triggerVars, pulseVars, tAcc, restart,
                 alarmTask, delayTimer, latch>>

PulseFinish ==
  /\ tPc = "finish"
  /\ tPc' = "idle"
  /\ latch' = PulseLatch
  /\ IF restart THEN timerArmed' = TRUE /\ UNCHANGED timerRunning
                ELSE timerRunning' = FALSE /\ UNCHANGED timerArmed
  /\ UNCHANGED <<settingsVars, triggerVars, pulseCount, tAcc, expired,
                 restart, changeDo, alarmTask, delayTimer, doByte>>

-----------------------------------------------------------------------------

AlarmStep ==
  \/ InitAlarmRules \/ StartRun \/ ToggleLed \/ EvaluateRules \/ HandleEdge
  \/ ClearLoad \/ ClearStore \/ CountDelay \/ SetLoad \/ SetStore
  \/ SetPulse \/ WriteOutputs

TimerStep == TimerFires \/ PulseLoad \/ PulseStore \/ PulseFinish

WebStep == SaveSetting \/ ChangeAlarmSettings

Next == AlarmStep \/ TimerStep \/ WebStep \/ Restart

(* FreeRTOS wakes the alarm task every second and the timer daemon when a  *)
(* timer is due; the user and a reset are under no obligation.             *)
Fairness == WF_vars(AlarmStep) /\ WF_vars(TimerStep)

Spec == Init /\ [][Next]_vars

(* Settings that stay as they are and a controller that is never reset:    *)
(* the behaviours the functional properties of the relays are about.       *)
SteadyNext == AlarmStep \/ TimerStep
SteadySpec == Init /\ [][SteadyNext]_vars /\ Fairness
-----------------------------------------------------------------------------

(* The flag bo_timerPulseOffIsRunning says exactly whether the 10 ms timer *)
(* is pending or in its callback, and while any pulse is being counted it  *)
(* is: no pulse is ever left without the timer that has to end it, however *)
(* setDOs() and doOffPulse() interleave.  (AlarmRules.cpp:353-360, 411-419)*)
PulseTimerArmed ==
  /\ timerRunning <=> (timerArmed \/ tPc # "idle")
  /\ (\E b \in Output : pulseCount[b] > 0) => timerRunning

(* Whenever neither thread is inside its handler, the relays driven by the *)
(* shift register are the ones in the relay byte, resets and lost updates  *)
(* of the byte included.  (AlarmRules.cpp:371-374, 405-409)                *)
LatchFollowsByte ==
  pc = "wait" /\ tPc = "idle" => latch = doByte

(* When the trigger goes, a permanent relay is cleared, and stays off.  A  *)
(* delay that is still running at the falling edge is not stopped, so the  *)
(* code breaks it. (AlarmRules.cpp:303-306)                                *)
ReleasedDespiteDelay ==
  \A b \in Output :
    cfg.permanent[b] /\ pc = "wait" /\ b \in latch
      => \E t \in cfg.sel[b] : alarm[t]

(* When the triggers stay quiet, every pulse that was started comes to its *)
(* end, and stays ended.  (AlarmRules.cpp:379-422)                         *)
Quiet == \A t \in Trigger : ~alarm[t]
PulseEnds ==
  <>[]Quiet => <>[](\A b \in Output : pulseCount[b] = 0)

(* No update of the relay byte can be lost, because the alarm task makes   *)
(* them all or there is but the one relay, and no delay is left behind.    *)
Undivided ==
  \/ \A b \in Output : cfg.permanent[b] /\ cfg.delay[b] = 0
  \/ NumOutputs = 1 /\ hwVersion # 0 /\ ~cfg.permanent[0]

(* When the triggers stay quiet and no update gets lost, every relay is    *)
(* released for good: the permanent ones by their falling edge, a pulse    *)
(* relay by its timer.  (AlarmRules.cpp:303-306, 379-422)                  *)
RelaysReleased == <>[](Quiet /\ Undivided) => <>[](latch \cap Output = {})
=============================================================================

------------------------------ MODULE Triggers ------------------------------
(***************************************************************************)
(* The rule half of src/src/AlarmRules.cpp: how one run of runAlarmRules() *)
(* decides which triggers are active.  The rules of the BMS, of the        *)
(* temperatures, of the digital inputs, of the state of charge and of the  *)
(* virtual triggers are evaluated in a fixed order and each reports to the *)
(* trigger it is set up for through setAlarm(); in the middle of them      *)
(* rules_CanInverter() reads the triggers to limit the charging.           *)
(*                                                                         *)
(* A step is one group of rules.  Between two groups the MQTT callback may *)
(* switch a virtual trigger and the web server may save settings.  What a  *)
(* rule measures is a zone relative to the rule's own limits, found anew   *)
(* in every run.  What an edge of a trigger does to the relays is module   *)
(* Relays.                                                                 *)
(***************************************************************************)
EXTENDS Integers

CONSTANTS
  NumTriggers,  (* CNT_ALARMS                                              *)
  BmsRule,      (* CNT_BT_ALARMS_RULES rules about a BMS                   *)
  TempRule,     (* COUNT_TEMP_RULES                                        *)
  SocRule,      (* ANZAHL_RULES_TRIGGER_SOC                                *)
  Input,        (* CNT_DIGITALIN                                           *)
  Configs       (* the settings a user may save                            *)

Trigger == 1 .. NumTriggers
Target  == 0 .. NumTriggers           \* the trigger of a rule, 0: "Aus"
Limit   == {"charge", "discharge", "socFull"}

Cause == {"di", "noData", "cell", "totalMin", "totalMax", "temperature",
          "sensorError", "plausibility", "soc", "virtual"}

Settings ==
  [noData   : [BmsRule -> Target],    \* no data for too long
   cell     : [BmsRule -> Target],    \* a cell voltage outside its limits
   total    : [BmsRule -> Target],    \* the total voltage outside its limits
   watched  : SUBSET BmsRule,         \* rules whose device is set up
   temp     : [TempRule -> Target],
   function : SUBSET TempRule,        \* rules with a monitoring function
   sensor   : Target,                 \* onewire sensors without a value
   frozen   : Target,                 \* cell voltages that never change
   di       : [Input -> Target],
   soc      : [SocRule -> Target],
   limit    : [Limit -> SUBSET Trigger]]

ASSUME TriggerAssumption == NumTriggers \in Nat \ {0}
ASSUME SettingsAssumption == Configs # {} /\ Configs \subseteq Settings

VARIABLES
  cfg,        (* the settings in RAM                                       *)
  changed,    (* bo_mChangeAlarmSettings                                   *)
  vTrigger,   (* virtual triggers that are high                            *)
  pc,         (* the group of rules the run is at                          *)
  alarm,      (* bo_Alarm, as the set of active triggers                   *)
  activated,  (* bo_alarmActivate: set by a rule in this run               *)
  causes,     (* alarmCauseAktiv                                           *)
  side,       (* u32_hystereseTotalVoltageMin, ...Max: the limit that holds *)
  tempHot,    (* u16_mMerkerTemperaturTrigger                              *)
  socOn,      (* u8_merkerHysterese_TriggerAtSoc                           *)
  limited     (* alarmSetChargeCurrentToZero and its two siblings          *)

hysteresis == <<side, tempHot, socOn>>
triggers   == <<alarm, activated, causes>>
vars == <<cfg, changed, vTrigger, pc, triggers, hysteresis, limited>>

Group == {"boot", "wait", "bms", "temp", "frozen", "inverter", "di", "soc",
          "virtual", "edges"}

TypeOK ==
  /\ cfg \in Configs /\ changed \in BOOLEAN /\ vTrigger \subseteq Trigger
  /\ pc \in Group
  /\ alarm \subseteq Trigger /\ activated \subseteq Trigger
  /\ causes \in [Trigger -> SUBSET Cause]
  /\ side \in [BmsRule -> {"none", "low", "high"}]
  /\ tempHot \subseteq TempRule /\ socOn \subseteq SocRule
  /\ limited \subseteq Limit

NoCause == [t \in Trigger |-> {}]
NoSide  == [i \in BmsRule |-> "none"]

Init ==
  /\ cfg \in Configs /\ changed = FALSE /\ vTrigger = {} /\ pc = "boot"
  /\ alarm = {} /\ activated = {} /\ causes = NoCause
  /\ side = NoSide /\ tempHot = {} /\ socOn = {}
  /\ limited = {}

(* A reset of the controller loses everything but the saved settings.      *)
Restart ==
  /\ changed' = FALSE /\ vTrigger' = {} /\ pc' = "boot"
  /\ alarm' = {} /\ activated' = {} /\ causes' = NoCause
  /\ side' = NoSide /\ tempHot' = {} /\ socOn' = {}
  /\ limited' = {}
  /\ UNCHANGED cfg

(* A web handler writes settings; changeAlarmSettings() at its end.        *)
SaveSetting ==
  /\ cfg' \in Configs
  /\ UNCHANGED <<changed, vTrigger, pc, triggers, hysteresis, limited>>

ChangeAlarmSettings ==
  /\ changed' = TRUE
  /\ UNCHANGED <<cfg, vTrigger, pc, triggers, hysteresis, limited>>

(* mqttCallback() switches a virtual trigger.                              *)
SetVirtualTrigger ==
  /\ \E t \in Trigger : vTrigger' \in {vTrigger \cup {t}, vTrigger \ {t}}
  /\ UNCHANGED <<cfg, changed, pc, triggers, hysteresis, limited>>

(***************************************************************************)
(* The calls of setAlarm() a group of rules makes, each for a trigger, on  *)
(* or off and with a cause.  The first call that switches a trigger on     *)
(* decides the run for it: calls that switch it off, before or after,      *)
(* change nothing any more.  So their order within the group is immaterial.*)
(***************************************************************************)
Call(nr, on, cause) == [nr |-> nr, on |-> on, cause |-> cause]

(* Mutant: trigger 0, no trigger at all, is not left out.                  *)
RaisedUnchecked(calls) == {c.nr : c \in {d \in calls : d.on}}
Raised(calls)  == {t \in Trigger : \E c \in calls : c.nr = t /\ c.on}
Dropped(calls) == {t \in Trigger : \E c \in calls : c.nr = t /\ ~c.on}

(* Mutant: a later rule that is not met switches the trigger off again.    *)
SwitchedForgetful(calls) == (alarm \ Dropped(calls)) \cup Raised(calls)
Switched(calls) == (alarm \ (Dropped(calls) \ activated)) \cup Raised(calls)

SetAlarms(calls) ==
  /\ alarm' = Switched(calls)
  /\ activated' = activated \cup Raised(calls)
  /\ causes' = [t \in Trigger |->
       causes[t] \cup {c.cause : c \in {d \in calls : d.nr = t /\ d.on}}]

-----------------------------------------------------------------------------

InitAlarmRules ==
  /\ pc = "boot" /\ pc' = "wait"
  /\ changed' = FALSE /\ vTrigger' = {} /\ socOn' = {}
  /\ alarm' = {} /\ causes' = NoCause
  /\ UNCHANGED <<cfg, activated, side, tempHot, limited>>

StartRun ==
  /\ pc = "wait" /\ pc' = "bms"
  /\ causes' = NoCause /\ activated' = {}
  /\ UNCHANGED <<cfg, changed, vTrigger, alarm, hysteresis, limited>>

(* The limit of the total voltage that holds rule i when it finds zone:    *)
(* once exceeded, a limit holds until the voltage has left its hysteresis. *)
(* The two bits of a rule are never set together, so one value stands for  *)
(* both.                                                                   *)
TotalZone == {"low", "nearMin", "mid", "nearBoth", "nearMax", "high"}

Side(i, zone) ==
  CASE zone = "low"  -> "low"
    [] zone = "high" -> "high"
    [] zone \in {"nearMin", "nearBoth"} /\ side[i] = "low"  -> "low"
    [] zone \in {"nearMax", "nearBoth"} /\ side[i] = "high" -> "high"
    [] OTHER -> "none"

(* The causes of the two limits are swapped.                               *)
TotalCause(limit) == IF limit = "low" THEN "totalMax" ELSE "totalMin"

(* rules_Bms(): a rule finds its BMS silent or not, a cell voltage outside *)
(* its limits or not, and its total voltage in a zone.                     *)
RulesBms ==
  /\ pc = "bms" /\ pc' = "temp"
  /\ \E silent, outside \in SUBSET cfg.watched, zone \in [BmsRule -> TotalZone] :
       LET R == {i \in cfg.watched : cfg.total[i] # 0}
       IN /\ side' = [i \in BmsRule |-> IF i \in R THEN Side(i, zone[i]) ELSE side[i]]
          /\ SetAlarms(
               {Call(cfg.noData[i], i \in silent, "noData") : i \in cfg.watched}
               \cup {Call(cfg.cell[i], i \in outside, "cell") : i \in cfg.watched}
               \cup {Call(cfg.total[i], side'[i] # "none", TotalCause(side'[i])) :
                       i \in {j \in R : side[j] # "none" \/ side'[j] # "none"}})
  /\ UNCHANGED <<cfg, changed, vTrigger, tempHot, socOn, limited>>

(* rules_Temperatur(): some sensor of a rule is above its limit, or none   *)
(* is but one is within the hysteresis, or all are below; and the onewire  *)
(* sensors have been without a value for too long or not.                  *)
RulesTemperatur ==
  /\ pc = "temp" /\ pc' = "frozen"
  /\ \E zone \in [TempRule -> {"above", "near", "below"}], failed \in BOOLEAN :
       LET hot == {i \in cfg.function : zone[i] = "above"
                                        \/ (zone[i] = "near" /\ i \in tempHot)}
       IN /\ tempHot' = (tempHot \ cfg.function) \cup hot
          /\ SetAlarms(
               {Call(cfg.temp[i], i \in hot, "temperature") : i \in TempRule}
               \cup {Call(cfg.sensor, failed, "sensorError")})
  /\ UNCHANGED <<cfg, changed, vTrigger, side, socOn, limited>>

(* rules_PlausibilityCeck(): the cell voltages of a BMS never change.      *)
RulesPlausibilityCeck ==
  /\ pc = "frozen" /\ pc' = "inverter"
  /\ \E frozen \in BOOLEAN : SetAlarms({Call(cfg.frozen, frozen, "plausibility")})
  /\ UNCHANGED <<cfg, changed, vTrigger, hysteresis, limited>>

(* isTriggerActive() of the triggers selected for a limit.  Mutant: of all *)
(* triggers.                                                               *)
IsAnyTriggerActive(l) == alarm # {}
IsTriggerActive(l) == alarm \cap cfg.limit[l] # {}

(* rules_CanInverter(): reads the triggers as the run has left them so far.*)
RulesCanInverter ==
  /\ pc = "inverter" /\ pc' = "di"
  /\ limited' = {l \in Limit : IsTriggerActive(l)}
  /\ UNCHANGED <<cfg, changed, vTrigger, triggers, hysteresis>>

(* getDIs(), the inversion of an input included in what it reads.          *)
GetDIs ==
  /\ pc = "di" /\ pc' = "soc"
  /\ \E high \in SUBSET Input :
       SetAlarms({Call(cfg.di[i], i \in high, "di") : i \in Input})
  /\ UNCHANGED <<cfg, changed, vTrigger, hysteresis, limited>>

(* rules_soc(): no battery pack is online, or the state of charge has      *)
(* reached the value that switches a rule on, the one that switches it     *)
(* off, or lies between.  Which of the two values is higher is immaterial. *)
SocOffline ==
  /\ socOn' = {}
  /\ SetAlarms({})

SocOnline ==
  \E zone \in [SocRule -> {"on", "between", "off"}] :
    LET R == {i \in SocRule : cfg.soc[i] # 0}
    IN /\ socOn' = {i \in SocRule :
                      IF i \notin R THEN i \in socOn
                      ELSE zone[i] = "on" \/ (zone[i] = "between" /\ i \in socOn)}
       /\ SetAlarms({Call(cfg.soc[i], i \in socOn', "soc") :
                       i \in R \cap (socOn \cup socOn')})

RulesSoc ==
  /\ pc = "soc" /\ pc' = "virtual"
  /\ SocOffline \/ SocOnline
  /\ UNCHANGED <<cfg, changed, vTrigger, side, tempHot, limited>>

(* rules_vTrigger(): every trigger that nothing has activated in this run  *)
(* is switched off here.  Mutant: only high virtual triggers report.       *)
HighCalls == {Call(t, TRUE, "virtual") : t \in vTrigger}
VirtualCalls == {Call(t, t \in vTrigger, "virtual") : t \in Trigger}

RulesVTrigger ==
  /\ pc = "virtual" /\ pc' = "edges"
  /\ SetAlarms(VirtualCalls)
  /\ UNCHANGED <<cfg, changed, vTrigger, hysteresis, limited>>

(* The end of the run: after a change of the settings every trigger is     *)
(* reset.  The mutex of the flag may be busy; it is then left for the next *)
(* run.                                                                    *)
KeepTriggers == UNCHANGED <<changed, alarm, causes>>
ResetTriggers == changed /\ changed' = FALSE /\ alarm' = {} /\ causes' = NoCause

FinishRun ==
  /\ pc = "edges" /\ pc' = "wait"
  /\ KeepTriggers \/ ResetTriggers
  /\ UNCHANGED <<cfg, vTrigger, activated, hysteresis, limited>>

Run ==
  \/ InitAlarmRules \/ StartRun \/ RulesBms \/ RulesTemperatur
  \/ RulesPlausibilityCeck \/ RulesCanInverter \/ GetDIs \/ RulesSoc
  \/ RulesVTrigger \/ FinishRun

Next == Run \/ SetVirtualTrigger \/ SaveSetting \/ ChangeAlarmSettings \/ Restart

Spec == Init /\ [][Next]_vars
-----------------------------------------------------------------------------

(* Between two runs a trigger is active exactly if a rule has activated it *)
(* in the last run and has left its cause: no trigger stays active after   *)
(* the last rule that held it has let go, was set up for another trigger   *)
(* or lost its device, no rule switches off what another one switched on,  *)
(* and the log names a cause for every active trigger.                     *)
(* (AlarmRules.cpp:154-175, 231-330)                                       *)
CausesExplainAlarm ==
  pc = "wait" => alarm = {t \in Trigger : causes[t] # {}}
=============================================================================

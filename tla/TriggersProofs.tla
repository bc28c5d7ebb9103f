--------------------------- MODULE TriggersProofs ---------------------------
(***************************************************************************)
(* Proofs about Triggers, for any number of triggers, rules and inputs and *)
(* any settings, saved at any point of a run.                              *)
(***************************************************************************)
EXTENDS TriggerHistory, TLAPS

Caused == {t \in Trigger : causes[t] # {}}

(* Within a run a trigger has a cause exactly if a rule has activated it,   *)
(* and an activated trigger stays active.                                   *)
Running == pc \notin {"boot", "wait"}
RunInv ==
  /\ alarm \subseteq Trigger
  /\ pc = "wait" => alarm = Caused
  /\ Running => activated = Caused /\ activated \subseteq alarm
  /\ pc = "edges" => alarm = activated

(* The calls of a group of rules, whatever they are and in whatever order   *)
(* they are made, keep causes and activations together.                     *)
LEMMA SetAlarmsExplained ==
  ASSUME NEW calls, SetAlarms(calls), alarm \subseteq Trigger,
         activated = Caused, activated \subseteq alarm
  PROVE  /\ alarm' \subseteq Trigger
         /\ activated' = Caused'
         /\ activated' \subseteq alarm'
<1>1. ASSUME NEW t \in Trigger
      PROVE  t \in Caused' <=> t \in Caused \/ t \in Raised(calls)
  <2>1. causes'[t] = causes[t] \cup {c.cause : c \in {d \in calls : d.nr = t /\ d.on}}
    BY DEF SetAlarms
  <2> QED BY <2>1 DEF Caused, Raised
<1>2. Caused' = Caused \cup Raised(calls)
  BY <1>1 DEF Caused, Raised
<1>3. activated' = activated \cup Raised(calls)
  BY DEF SetAlarms
<1>4. alarm' = (alarm \ (Dropped(calls) \ activated)) \cup Raised(calls)
  BY DEF SetAlarms, Switched
<1> QED BY <1>2, <1>3, <1>4 DEF Raised

(* rules_vTrigger() reports to every trigger: what it leaves active has     *)
(* been activated in this run.                                              *)
LEMMA VirtualSettles ==
  ASSUME SetAlarms(VirtualCalls), alarm \subseteq Trigger, activated \subseteq alarm
  PROVE  alarm' = activated'
<1>1. Raised(VirtualCalls) \cup Dropped(VirtualCalls) = Trigger
  <2>1. ASSUME NEW t \in Trigger
        PROVE  t \in Raised(VirtualCalls) \/ t \in Dropped(VirtualCalls)
    <3>1. Call(t, t \in vTrigger, "virtual") \in VirtualCalls
      BY DEF VirtualCalls
    <3>2. /\ Call(t, t \in vTrigger, "virtual").nr = t
          /\ Call(t, t \in vTrigger, "virtual").on = (t \in vTrigger)
      BY DEF Call
    <3> QED BY <3>1, <3>2 DEF Raised, Dropped
  <2> QED BY <2>1 DEF Raised, Dropped
<1>2. activated' = activated \cup Raised(VirtualCalls)
  BY DEF SetAlarms
<1>3. alarm' = (alarm \ (Dropped(VirtualCalls) \ activated)) \cup Raised(VirtualCalls)
  BY DEF SetAlarms, Switched
<1> QED BY <1>1, <1>2, <1>3

(* A group of rules other than the virtual triggers.                        *)
LEMMA GroupKeepsRunInv ==
  ASSUME RunInv, Running, NEW calls, SetAlarms(calls),
         pc' \notin {"boot", "wait", "edges"}
  PROVE  RunInv'
  BY SetAlarmsExplained DEF RunInv, Running

LEMMA RunInit == Init => RunInv
BY DEF Init, RunInv, Running

LEMMA RunStep == RunInv /\ [Next]_vars => RunInv'
<1> SUFFICES ASSUME RunInv, [Next]_vars PROVE RunInv'
  OBVIOUS
<1> USE DEF triggers
<1>1. CASE InitAlarmRules \/ Restart
  BY <1>1 DEF InitAlarmRules, Restart, RunInv, Running, Caused, NoCause
<1>2. CASE StartRun
  BY <1>2 DEF StartRun, RunInv, Running, Caused, NoCause
<1>3. CASE RulesBms
  BY <1>3, GroupKeepsRunInv DEF RulesBms, Running
<1>4. CASE RulesTemperatur
  BY <1>4, GroupKeepsRunInv DEF RulesTemperatur, Running
<1>5. CASE RulesPlausibilityCeck
  BY <1>5, GroupKeepsRunInv DEF RulesPlausibilityCeck, Running
<1>6. CASE RulesCanInverter
  BY <1>6 DEF RulesCanInverter, RunInv, Running, Caused
<1>7. CASE GetDIs
  BY <1>7, GroupKeepsRunInv DEF GetDIs, Running
<1>8. CASE RulesSoc
  BY <1>8, GroupKeepsRunInv DEF RulesSoc, SocOffline, SocOnline, Running
<1>9. CASE RulesVTrigger
  <2>1. SetAlarms(VirtualCalls) /\ Running /\ pc' = "edges"
    BY <1>9 DEF RulesVTrigger, Running
  <2> QED BY <2>1, SetAlarmsExplained, VirtualSettles DEF RunInv, Running
<1>10. CASE FinishRun /\ KeepTriggers
  BY <1>10 DEF FinishRun, KeepTriggers, RunInv, Running, Caused
<1>11. CASE FinishRun /\ ResetTriggers
  BY <1>11 DEF FinishRun, ResetTriggers, RunInv, Running, Caused, NoCause
<1>12. CASE SetVirtualTrigger \/ SaveSetting \/ ChangeAlarmSettings
  BY <1>12 DEF SetVirtualTrigger, SaveSetting, ChangeAlarmSettings, RunInv,
     Running, Caused
<1>13. CASE UNCHANGED vars
  BY <1>13 DEF vars, RunInv, Running, Caused
<1> QED
  BY <1>1, <1>2, <1>3, <1>4, <1>5, <1>6, <1>7, <1>8, <1>9, <1>10, <1>11,
     <1>12, <1>13 DEF Next, Run, FinishRun

(* The active triggers are, after every run, the ones a rule has activated  *)
(* in it.  (AlarmRules.cpp:154-175, 231-330)                                *)
THEOREM AlarmExplained == Spec => []CausesExplainAlarm
<1>1. RunInv => CausesExplainAlarm
  BY DEF RunInv, CausesExplainAlarm, Caused
<1> QED  BY <1>1, RunInit, RunStep, PTL DEF Spec
-----------------------------------------------------------------------------
(* Types, and what the calls of a group of rules are.                      *)

LateCause  == {"di", "soc", "virtual"}
EarlyCalls(calls) == \A c \in calls : c.nr \in EarlyFed /\ c.cause \in Cause \ LateCause
LateCalls(calls)  == \A c \in calls : c.cause \in LateCause

LEMMA CallIs ==
  ASSUME NEW nr, NEW on, NEW cause
  PROVE  Call(nr, on, cause).nr = nr /\ Call(nr, on, cause).cause = cause
BY DEF Call

LEMMA CfgFields ==
  ASSUME TypeOK
  PROVE  /\ cfg.watched \subseteq BmsRule /\ cfg.function \subseteq TempRule
         /\ cfg.noData \in [BmsRule -> Target] /\ cfg.cell \in [BmsRule -> Target]
         /\ cfg.total \in [BmsRule -> Target] /\ cfg.temp \in [TempRule -> Target]
         /\ cfg.limit \in [Limit -> SUBSET Trigger]
BY SettingsAssumption DEF TypeOK, Settings

(* The groups before rules_CanInverter() report to EarlyFed.                *)
LEMMA EarlyGroups ==
  ASSUME TypeOK, RulesBms \/ RulesTemperatur \/ RulesPlausibilityCeck
  PROVE  /\ \E calls : SetAlarms(calls) /\ EarlyCalls(calls)
         /\ pc \in {"bms", "temp", "frozen"} /\ pc' \in {"temp", "frozen", "inverter"}
         /\ UNCHANGED <<cfg, changed, vTrigger, limited>>
<1>1. CASE RulesBms
  <2>1. PICK silent \in SUBSET cfg.watched, outside \in SUBSET cfg.watched,
             zone \in [BmsRule -> TotalZone] :
          LET R == {i \in cfg.watched : cfg.total[i] # 0}
          IN  SetAlarms(
                {Call(cfg.noData[i], i \in silent, "noData") : i \in cfg.watched}
                \cup {Call(cfg.cell[i], i \in outside, "cell") : i \in cfg.watched}
                \cup {Call(cfg.total[i], side'[i] # "none", TotalCause(side'[i])) :
                        i \in {j \in R : side[j] # "none" \/ side'[j] # "none"}})
    BY <1>1, Zenon DEF RulesBms
  <2> DEFINE A == {Call(cfg.noData[i], i \in silent, "noData") : i \in cfg.watched}
             B == {Call(cfg.cell[i], i \in outside, "cell") : i \in cfg.watched}
             R == {i \in cfg.watched : cfg.total[i] # 0}
             C == {Call(cfg.total[i], side'[i] # "none", TotalCause(side'[i])) :
                     i \in {j \in R : side[j] # "none" \/ side'[j] # "none"}}
  <2>2. EarlyCalls(A)  BY CallIs DEF EarlyCalls, EarlyFed, Cause, LateCause
  <2>3. EarlyCalls(B)  BY CallIs DEF EarlyCalls, EarlyFed, Cause, LateCause
  <2>4. EarlyCalls(C)
    BY CallIs DEF EarlyCalls, EarlyFed, TotalCause, Cause, LateCause
  <2>5. SetAlarms(A \cup B \cup C)  BY <2>1, Zenon
  <2>6. EarlyCalls(A \cup B \cup C)
    <3> HIDE DEF A, B, C
    <3> QED  BY <2>2, <2>3, <2>4 DEF EarlyCalls
  <2> QED  BY <1>1, <2>5, <2>6, Zenon DEF RulesBms
<1>2. CASE RulesTemperatur
  <2>1. PICK zone \in [TempRule -> {"above", "near", "below"}], failed \in BOOLEAN :
          LET hot == {i \in cfg.function : zone[i] = "above"
                                           \/ (zone[i] = "near" /\ i \in tempHot)}
          IN  SetAlarms(
                {Call(cfg.temp[i], i \in hot, "temperature") : i \in TempRule}
                \cup {Call(cfg.sensor, failed, "sensorError")})
    BY <1>2, Zenon DEF RulesTemperatur
  <2> DEFINE hot == {i \in cfg.function : zone[i] = "above"
                                          \/ (zone[i] = "near" /\ i \in tempHot)}
             A == {Call(cfg.temp[i], i \in hot, "temperature") : i \in TempRule}
             B == {Call(cfg.sensor, failed, "sensorError")}
  <2>2. EarlyCalls(A)
    <3> HIDE DEF hot
    <3> QED  BY CallIs DEF EarlyCalls, EarlyFed, Cause, LateCause
  <2>3. EarlyCalls(B)  BY CallIs DEF EarlyCalls, EarlyFed, Cause, LateCause
  <2>4. SetAlarms(A \cup B)  BY <2>1, Zenon
  <2>5. EarlyCalls(A \cup B)
    <3> HIDE DEF A, B
    <3> QED  BY <2>2, <2>3 DEF EarlyCalls
  <2> QED  BY <1>2, <2>4, <2>5, Zenon DEF RulesTemperatur
<1>3. CASE RulesPlausibilityCeck
  <2>1. PICK frozen \in BOOLEAN : SetAlarms({Call(cfg.frozen, frozen, "plausibility")})
    BY <1>3 DEF RulesPlausibilityCeck
  <2>2. EarlyCalls({Call(cfg.frozen, frozen, "plausibility")})
    BY CallIs DEF EarlyCalls, EarlyFed, Cause, LateCause
  <2> QED  BY <1>3, <2>1, <2>2, Zenon DEF RulesPlausibilityCeck
<1> QED  BY <1>1, <1>2, <1>3

(* The groups after it have causes of their own.                            *)
LEMMA LateGroups ==
  ASSUME TypeOK, GetDIs \/ RulesSoc \/ RulesVTrigger
  PROVE  /\ \E calls : SetAlarms(calls) /\ LateCalls(calls)
         /\ pc \in {"di", "soc", "virtual"} /\ pc' \in {"soc", "virtual", "edges"}
         /\ UNCHANGED <<cfg, changed, vTrigger, limited>>
<1>1. CASE GetDIs
  <2>1. PICK high \in SUBSET Input :
          SetAlarms({Call(cfg.di[i], i \in high, "di") : i \in Input})
    BY <1>1 DEF GetDIs
  <2>2. LateCalls({Call(cfg.di[i], i \in high, "di") : i \in Input})
    BY CallIs DEF LateCalls, LateCause
  <2> QED  BY <1>1, <2>1, <2>2, Zenon DEF GetDIs
<1>2. CASE RulesSoc
  <2>1. \E calls : SetAlarms(calls) /\ LateCalls(calls)
    <3>1. CASE SocOffline
      <4>1. LateCalls({})  BY DEF LateCalls
      <4> QED  BY <3>1, <4>1, Zenon DEF SocOffline
    <3>2. CASE SocOnline
      <4> DEFINE R == {i \in SocRule : cfg.soc[i] # 0}
                 calls == {Call(cfg.soc[i], i \in socOn', "soc") :
                             i \in R \cap (socOn \cup socOn')}
      <4>1. SetAlarms(calls)  BY <3>2, Zenon DEF SocOnline
      <4>2. LateCalls(calls)  BY CallIs DEF LateCalls, LateCause
      <4> QED  BY <4>1, <4>2, Zenon
    <3> QED  BY <1>2, <3>1, <3>2 DEF RulesSoc
  <2> QED  BY <1>2, <2>1, Zenon DEF RulesSoc
<1>3. CASE RulesVTrigger
  <2>1. LateCalls(VirtualCalls)  BY CallIs DEF VirtualCalls, LateCalls, LateCause
  <2> QED  BY <1>3, <2>1, Zenon DEF RulesVTrigger
<1> QED  BY <1>1, <1>2, <1>3

LEMMA SetAlarmsType ==
  ASSUME TypeOK, NEW calls, SetAlarms(calls), \A c \in calls : c.cause \in Cause
  PROVE  /\ alarm' \subseteq Trigger /\ activated' \subseteq Trigger
         /\ causes' \in [Trigger -> SUBSET Cause]
<1>1. Raised(calls) \subseteq Trigger  BY DEF Raised
<1>2. alarm' \subseteq Trigger /\ activated' \subseteq Trigger
  BY <1>1 DEF SetAlarms, Switched, TypeOK
<1>3. ASSUME NEW t \in Trigger
      PROVE  causes[t] \cup {c.cause : c \in {d \in calls : d.nr = t /\ d.on}}
               \in SUBSET Cause
  BY DEF TypeOK
<1> QED  BY <1>2, <1>3 DEF SetAlarms

LEMMA GroupType ==
  ASSUME TypeOK, RulesBms \/ RulesTemperatur \/ RulesPlausibilityCeck
                   \/ GetDIs \/ RulesSoc \/ RulesVTrigger
  PROVE  /\ alarm' \subseteq Trigger /\ activated' \subseteq Trigger
         /\ causes' \in [Trigger -> SUBSET Cause]
         /\ UNCHANGED <<cfg, changed, vTrigger, limited>> /\ pc' \in Group
<1>1. PICK calls : SetAlarms(calls) /\ (EarlyCalls(calls) \/ LateCalls(calls))
  BY EarlyGroups, LateGroups
<1>2. \A c \in calls : c.cause \in Cause
  BY <1>1 DEF EarlyCalls, LateCalls, LateCause, Cause
<1> QED  BY <1>1, <1>2, SetAlarmsType, EarlyGroups, LateGroups DEF Group

LEMMA TypeInit == Init => TypeOK
BY DEF Init, TypeOK, Group, NoCause, NoSide

LEMMA TypeStep == TypeOK /\ [Next]_vars => TypeOK'
<1> SUFFICES ASSUME TypeOK, [Next]_vars PROVE TypeOK'
  OBVIOUS
<1> USE DEF triggers, hysteresis
<1>1. CASE RulesBms
  <2>1. side' \in [BmsRule -> {"none", "low", "high"}]
    <3>1. PICK zone \in [BmsRule -> TotalZone] :
            side' = [i \in BmsRule |->
                      IF i \in {j \in cfg.watched : cfg.total[j] # 0}
                        THEN Side(i, zone[i]) ELSE side[i]]
      BY <1>1, Zenon DEF RulesBms
    <3>2. ASSUME NEW i \in BmsRule PROVE Side(i, zone[i]) \in {"none", "low", "high"}
      BY DEF Side, TotalZone
    <3> QED  BY <3>1, <3>2 DEF TypeOK
  <2>2. UNCHANGED <<tempHot, socOn>>  BY <1>1 DEF RulesBms
  <2> QED  BY <1>1, <2>1, <2>2, GroupType DEF TypeOK
<1>2. CASE RulesTemperatur
  <2>1. tempHot' \subseteq TempRule
    <3>1. PICK zone \in [TempRule -> {"above", "near", "below"}] :
            tempHot' = (tempHot \ cfg.function)
              \cup {i \in cfg.function : zone[i] = "above"
                                          \/ (zone[i] = "near" /\ i \in tempHot)}
      BY <1>2, Zenon DEF RulesTemperatur
    <3> QED  BY <3>1, CfgFields DEF TypeOK
  <2>2. UNCHANGED <<side, socOn>>  BY <1>2 DEF RulesTemperatur
  <2> QED  BY <1>2, <2>1, <2>2, GroupType DEF TypeOK
<1>3. CASE RulesSoc
  <2>1. socOn' \subseteq SocRule
    BY <1>3 DEF RulesSoc, SocOffline, SocOnline, TypeOK
  <2>2. UNCHANGED <<side, tempHot>>  BY <1>3 DEF RulesSoc
  <2> QED  BY <1>3, <2>1, <2>2, GroupType DEF TypeOK
<1>4. CASE RulesPlausibilityCeck \/ GetDIs \/ RulesVTrigger
  <2>1. UNCHANGED hysteresis
    BY <1>4 DEF RulesPlausibilityCeck, GetDIs, RulesVTrigger
  <2> QED  BY <1>4, <2>1, GroupType DEF TypeOK
<1>5. CASE InitAlarmRules \/ StartRun \/ Restart
  BY <1>5 DEF InitAlarmRules, StartRun, Restart, TypeOK, Group, NoCause, NoSide
<1>6. CASE RulesCanInverter
  BY <1>6 DEF RulesCanInverter, TypeOK, Group
<1>7. CASE FinishRun
  BY <1>7 DEF FinishRun, KeepTriggers, ResetTriggers, TypeOK, Group, NoCause
<1>8. CASE SetVirtualTrigger \/ SaveSetting \/ ChangeAlarmSettings
  BY <1>8 DEF SetVirtualTrigger, SaveSetting, ChangeAlarmSettings, TypeOK
<1>9. CASE UNCHANGED vars
  BY <1>9 DEF vars, TypeOK
<1> QED
  BY <1>1, <1>2, <1>3, <1>4, <1>5, <1>6, <1>7, <1>8, <1>9 DEF Next, Run

(* The types of Triggers: no call reaches a trigger there is not.           *)
THEOREM TriggersTypeCorrect == Spec => []TypeOK
BY TypeInit, TypeStep, PTL DEF Spec
-----------------------------------------------------------------------------
(* The limits of the inverter.  rules_CanInverter() sees the triggers half  *)
(* way through a run: those of the run before, less what an early group has *)
(* dropped, and what an early group has raised.                             *)

Selected(l, S) == cfg.limit[l] \cap S # {}
Before  == pc \in {"bms", "temp", "frozen", "inverter"}
Decided == pc \in {"di", "soc", "virtual", "edges", "wait"}

LimitInv ==
  /\ pc # "boot" => ~changed
  /\ pc = "boot" => limited = {} /\ lastRun = {}
  /\ lastRun \subseteq Trigger
  /\ Running => alarm \subseteq activated \cup lastRun
  /\ Before => lastRun \ EarlyFed \subseteq alarm
  /\ Decided =>
       \A l \in Limit :
         /\ l \in limited => Selected(l, alarm \cup lastRun)
         /\ Selected(l, lastRun \cap (EarlyActive \cup (Trigger \ EarlyFed)))
              => l \in limited

(* The calls of a group drop no trigger that this run has activated.        *)
LEMMA GroupDrops ==
  ASSUME NEW calls, SetAlarms(calls), activated \subseteq alarm,
         alarm \subseteq activated \cup lastRun, lastRun' = lastRun
  PROVE  /\ alarm' \subseteq activated' \cup lastRun'
         /\ alarm \cup lastRun \subseteq alarm' \cup lastRun'
BY DEF SetAlarms, Switched

LEMMA EarlyKeepsUnfed ==
  ASSUME NEW calls, SetAlarms(calls), EarlyCalls(calls)
  PROVE  alarm \ EarlyFed \subseteq alarm'
<1>1. Dropped(calls) \subseteq EarlyFed  BY DEF Dropped, EarlyCalls
<1> QED  BY <1>1 DEF SetAlarms, Switched

LEMMA LateKeepsCauses ==
  ASSUME NEW calls, SetAlarms(calls), LateCalls(calls)
  PROVE  EarlyActive' = EarlyActive
<1>1. ASSUME NEW t \in Trigger
      PROVE  causes'[t] \ LateCause = causes[t] \ LateCause
  <2>1. causes'[t] = causes[t] \cup {c.cause : c \in {d \in calls : d.nr = t /\ d.on}}
    BY DEF SetAlarms
  <2> QED  BY <2>1 DEF LateCalls
<1> QED  BY <1>1 DEF EarlyActive, LateCause

LimitStep(calls) ==
  /\ SetAlarms(calls)
  /\ UNCHANGED <<cfg, changed, limited, lastRun>>

LEMMA EarlyKeepsLimitInv ==
  ASSUME TypeOK, RunInv, LimitInv, NEW calls, LimitStep(calls), EarlyCalls(calls),
         Before, Before'
  PROVE  LimitInv'
<1>1. EarlyFed' = EarlyFed  BY DEF LimitStep, EarlyFed
<1>2. activated \subseteq alarm /\ alarm \subseteq activated \cup lastRun /\ ~changed
  BY DEF RunInv, LimitInv, Running, Before
<1>3. alarm' \subseteq activated' \cup lastRun'  BY <1>2, GroupDrops DEF LimitStep
<1>4. lastRun' \ EarlyFed' \subseteq alarm'
  BY <1>1, EarlyKeepsUnfed DEF LimitStep, LimitInv
<1>5. lastRun' \subseteq Trigger /\ ~changed'  BY <1>2 DEF LimitStep, LimitInv
<1> QED  BY <1>3, <1>4, <1>5 DEF LimitInv, Before, Decided

LEMMA LateKeepsLimitInv ==
  ASSUME TypeOK, RunInv, LimitInv, NEW calls, LimitStep(calls), LateCalls(calls),
         Decided, Decided', Running
  PROVE  LimitInv'
<1>1. EarlyFed' = EarlyFed /\ EarlyActive' = EarlyActive
  BY LateKeepsCauses DEF LimitStep, EarlyFed
<1>2. activated \subseteq alarm /\ alarm \subseteq activated \cup lastRun /\ ~changed
  BY DEF RunInv, LimitInv, Running, Decided
<1>3. /\ alarm' \subseteq activated' \cup lastRun'
      /\ alarm \cup lastRun \subseteq alarm' \cup lastRun'
  BY <1>2, GroupDrops DEF LimitStep
<1>4. lastRun' \subseteq Trigger /\ ~changed'  BY <1>2 DEF LimitStep, LimitInv
<1>5. ASSUME NEW l \in Limit
      PROVE  /\ l \in limited' => Selected(l, alarm \cup lastRun)'
             /\ Selected(l, lastRun \cap (EarlyActive \cup (Trigger \ EarlyFed)))'
                  => l \in limited'
  BY <1>1, <1>3 DEF LimitInv, LimitStep, Selected
<1> QED  BY <1>3, <1>4, <1>5 DEF LimitInv, Before, Decided

(* What is decided in the middle of the run.                                *)
LEMMA DecideLimits ==
  ASSUME TypeOK, RunInv, LimitInv, RulesCanInverter, lastRun' = lastRun
  PROVE  LimitInv'
<1>1. /\ pc = "inverter" /\ pc' = "di"
      /\ limited' = {l \in Limit : Selected(l, alarm)}
      /\ UNCHANGED <<cfg, changed, alarm, activated, causes>>
  BY DEF RulesCanInverter, IsTriggerActive, Selected, triggers
<1>2. EarlyFed' = EarlyFed /\ EarlyActive' = EarlyActive
  BY <1>1 DEF EarlyFed, EarlyActive
<1>3. EarlyActive \subseteq alarm
  BY <1>1 DEF RunInv, Running, Caused, EarlyActive
<1>4. lastRun \cap (EarlyActive \cup (Trigger \ EarlyFed)) \subseteq alarm
  BY <1>1, <1>3 DEF LimitInv, Before
<1>5. ASSUME NEW l \in Limit
      PROVE  /\ l \in limited' => Selected(l, alarm \cup lastRun)'
             /\ Selected(l, lastRun \cap (EarlyActive \cup (Trigger \ EarlyFed)))'
                  => l \in limited'
  BY <1>1, <1>2, <1>4 DEF Selected
<1>6. /\ lastRun' \subseteq Trigger /\ ~changed'
      /\ alarm' \subseteq activated' \cup lastRun'
  BY <1>1 DEF LimitInv, Running
<1> QED  BY <1>1, <1>5, <1>6 DEF LimitInv, Before, Decided

Owed == pc = "boot" \/ steady

LEMMA SteadyLimits == HSpec => [](TypeOK /\ RunInv /\ (Owed => LimitInv))
<1>1. HInit => TypeOK /\ RunInv /\ (Owed => LimitInv)
  BY TypeInit, RunInit DEF HInit, Init, LimitInv, Running, Before, Decided
<1>2. TypeOK /\ RunInv /\ (Owed => LimitInv) /\ [HNext]_<<vars, lastRun, steady>>
        => TypeOK' /\ RunInv' /\ (Owed => LimitInv)'
  <2> SUFFICES ASSUME TypeOK, RunInv, Owed => LimitInv,
                      [HNext]_<<vars, lastRun, steady>>
               PROVE  TypeOK' /\ RunInv' /\ (Owed => LimitInv)'
    OBVIOUS
  <2>1. TypeOK' /\ RunInv'  BY TypeStep, RunStep DEF HNext
  <2> SUFFICES ASSUME Owed' PROVE LimitInv'
    BY <2>1
  <2>2. CASE UNCHANGED <<vars, lastRun, steady>>
    BY <2>2 DEF vars, triggers, Owed, LimitInv, Running, Before, Decided, Selected,
       EarlyFed, EarlyActive
  <2>3. CASE HNext /\ pc' = "boot"
    <3>1. lastRun' = {}  BY <2>3 DEF HNext
    <3>2. limited' = {}
      <4>1. CASE Restart  BY <4>1 DEF Restart
      <4>2. CASE ~Restart
        <5>1. pc = "boot" /\ UNCHANGED limited
          BY <2>3, <4>2 DEF HNext, Next, Run, SetVirtualTrigger, SaveSetting,
             ChangeAlarmSettings, InitAlarmRules, StartRun, RulesBms, RulesTemperatur,
             RulesPlausibilityCeck, RulesCanInverter, GetDIs, RulesSoc, RulesVTrigger,
             FinishRun
        <5> QED  BY <5>1 DEF Owed, LimitInv
      <4> QED  BY <4>1, <4>2
    <3> QED  BY <2>3, <3>1, <3>2 DEF LimitInv, Running, Before, Decided
  <2>4. CASE HNext /\ pc' # "boot"
    <3>1. Owed /\ LimitInv /\ cfg' = cfg /\ ~changed'
      BY <2>4 DEF HNext, Owed
    <3>2. CASE InitAlarmRules
      <4>1. pc' = "wait" /\ limited' = {} /\ lastRun' = {}
        BY <2>4, <3>1, <3>2 DEF HNext, InitAlarmRules, LimitInv
      <4> QED  BY <3>1, <4>1 DEF LimitInv, Running, Before, Decided, Selected
    <3>3. CASE StartRun
      <4>1. pc' = "bms" /\ lastRun' = alarm /\ alarm' = alarm
        BY <2>4, <3>3 DEF HNext, StartRun
      <4> QED  BY <2>1, <3>1, <4>1 DEF LimitInv, TypeOK, Running, Before, Decided
    <3>4. CASE RulesBms \/ RulesTemperatur \/ RulesPlausibilityCeck
      <4>1. PICK calls : SetAlarms(calls) /\ EarlyCalls(calls)
        BY <3>4, EarlyGroups
      <4>2. lastRun' = lastRun /\ Before /\ Before' /\ LimitStep(calls)
        BY <2>4, <3>1, <3>4, <4>1, EarlyGroups DEF HNext, Before, LimitStep
      <4> QED  BY <3>1, <4>1, <4>2, EarlyKeepsLimitInv
    <3>5. CASE RulesCanInverter
      <4>1. lastRun' = lastRun  BY <2>4, <3>5 DEF HNext, RulesCanInverter
      <4> QED  BY <3>1, <3>5, <4>1, DecideLimits
    <3>6. CASE GetDIs \/ RulesSoc \/ RulesVTrigger
      <4>1. PICK calls : SetAlarms(calls) /\ LateCalls(calls)
        BY <3>6, LateGroups
      <4>2. /\ lastRun' = lastRun /\ Decided /\ Decided' /\ Running /\ LimitStep(calls)
        BY <2>4, <3>1, <3>6, <4>1, LateGroups DEF HNext, Decided, Running, LimitStep
      <4> QED  BY <3>1, <4>1, <4>2, LateKeepsLimitInv
    <3>7. CASE FinishRun
      <4>1. pc = "edges" /\ pc' = "wait" /\ lastRun' = lastRun /\ ~changed
        BY <2>4, <3>1, <3>7 DEF HNext, FinishRun, LimitInv
      <4>2. UNCHANGED <<alarm, causes, limited>>
        BY <3>7, <4>1 DEF FinishRun, KeepTriggers, ResetTriggers
      <4> QED  BY <3>1, <4>1, <4>2 DEF LimitInv, Running, Before, Decided, Selected,
               EarlyFed, EarlyActive
    <3>8. CASE SetVirtualTrigger \/ SaveSetting \/ ChangeAlarmSettings
      <4>1. UNCHANGED <<pc, alarm, activated, causes, limited, lastRun>>
        BY <2>4, <3>8 DEF HNext, SetVirtualTrigger, SaveSetting, ChangeAlarmSettings,
           triggers
      <4> QED  BY <3>1, <4>1 DEF LimitInv, Running, Before, Decided, Selected,
               EarlyFed, EarlyActive
    <3>9. ~Restart  BY <2>4 DEF Restart
    <3> QED  BY <2>4, <3>2, <3>3, <3>4, <3>5, <3>6, <3>7, <3>8, <3>9 DEF HNext, Next, Run
  <2> QED  BY <2>2, <2>3, <2>4
<1> QED  BY <1>1, <1>2, PTL DEF HSpec

(* A limit holds for a trigger that is active in two runs, if an early rule *)
(* raised it or none reports to it.  (AlarmRules.cpp:120-137, 738-751)      *)
THEOREM LimitIsApplied == HSpec => []LimitApplied
<1>1. TypeOK /\ (Owed => LimitInv) => LimitApplied
  <2> SUFFICES ASSUME TypeOK, steady, LimitInv, pc = "wait", NEW l \in Limit,
                      NEW t \in cfg.limit[l] \cap alarm \cap lastRun,
                      t \in EarlyActive \/ t \notin EarlyFed
               PROVE  l \in limited
    BY DEF LimitApplied, Owed
  <2> QED  BY DEF LimitInv, Decided, Selected
<1> QED  BY <1>1, SteadyLimits, PTL

(* No limit outlasts its triggers by more than one run.                     *)
(* (AlarmRules.cpp:120-137)                                                 *)
THEOREM LimitIsLifted == HSpec => []LimitLifted
<1>1. TypeOK /\ (Owed => LimitInv) => LimitLifted
  BY DEF LimitLifted, Owed, LimitInv, Decided, Selected, TypeOK
<1> QED  BY <1>1, SteadyLimits, PTL
=============================================================================

--------------------------- MODULE TriggerHistory ---------------------------
(***************************************************************************)
(* Triggers with two history variables: the triggers that were active when *)
(* the run began, and whether the settings have been left alone since the  *)
(* last reset.                                                             *)
(***************************************************************************)
EXTENDS Triggers

VARIABLES lastRun, steady

HInit == Init /\ lastRun = {} /\ steady = TRUE

HNext ==
  /\ Next
  /\ lastRun' = CASE pc' = "boot" -> {}
                   [] pc = "wait" /\ pc' = "bms" -> alarm
                   [] OTHER -> lastRun
  /\ steady' = (pc' = "boot" \/ (steady /\ cfg' = cfg /\ ~changed'))

HSpec == HInit /\ [][HNext]_<<vars, lastRun, steady>>

(* The triggers that the rules before rules_CanInverter() report to, and   *)
(* those of them that one of these rules has activated.                    *)
EarlyFed ==
  {cfg.noData[i] : i \in cfg.watched} \cup {cfg.cell[i] : i \in cfg.watched}
    \cup {cfg.total[i] : i \in cfg.watched} \cup {cfg.temp[i] : i \in TempRule}
    \cup {cfg.sensor, cfg.frozen}
EarlyActive ==
  {t \in Trigger : causes[t] \ {"di", "soc", "virtual"} # {}}

(* A limit of the inverter is applied while a trigger selected for it is   *)
(* active in two runs, provided that a rule before rules_CanInverter()     *)
(* activates the trigger or no such rule reports to it at all.             *)
(* (AlarmRules.cpp:120-137, 738-751)                                       *)
LimitApplied ==
  steady /\ pc = "wait" =>
    \A l \in Limit : \A t \in cfg.limit[l] \cap alarm \cap lastRun :
      t \in EarlyActive \/ t \notin EarlyFed => l \in limited

(* A limit is applied only while a trigger selected for it is active, in   *)
(* this run or in the one before.  A reset of the triggers at the end of a *)
(* run does not lift it before the next one. (AlarmRules.cpp:120-137)      *)
LimitLifted ==
  steady /\ pc = "wait" =>
    \A l \in limited : cfg.limit[l] \cap (alarm \cup lastRun) # {}

=============================================================================

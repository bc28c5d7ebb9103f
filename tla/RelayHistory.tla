---------------------------- MODULE RelayHistory ----------------------------
(***************************************************************************)
(* Relays with a history variable: what has become of the settings since   *)
(* the last reset.  They have been left alone ("none"), something has been *)
(* saved that no run has carried out yet ("pending"), or the last change   *)
(* has been carried out ("done"): changeAlarmSettings() was fetched by a   *)
(* run that began with no pulse under way and nobody saving.  While a      *)
(* change is pending the relays do not owe their state to the settings.    *)
(***************************************************************************)
EXTENDS Relays

VARIABLE change

HInit == Init /\ change = "none"

Applies == pc = "rules" /\ pc' = "edge" /\ reset' /\ ~timerRunning

HNext ==
  /\ Next
  /\ change' = CASE webPc' # "idle" -> "pending"
                 [] webPc' = "idle" /\ pc' = "boot" -> "none"
                 [] webPc' = "idle" /\ pc' # "boot" -> IF Applies THEN "done" ELSE change

HSpec == HInit /\ [][HNext]_<<vars, change>>

(* After a run.  Where a relay has pulse behaviour, updates of the relay   *)
(* byte get lost; without one the alarm task is alone on it.               *)
AfterRun == pc = "wait" /\ \A b \in Output : cfg.permanent[b]

(* Permanent relays: one without delay is on, after a run, only if a       *)
(* trigger that selects it is active.  The last falling edge releases it,  *)
(* and after a reset the relays of the time before do not survive the      *)
(* first run.  Once settings are changed it is no longer owed before the   *)
(* next reset: a delay of the old ones may still be counting.              *)
(* (AlarmRules.cpp:274-309, 335-375)                                       *)
ReleasedWhenClear ==
  AfterRun /\ change = "none" =>
    \A b \in latch \cap Output : cfg.delay[b] = 0 => \E t \in cfg.sel[b] : alarm[t]

(* Permanent relays: while a trigger is active, a relay that it alone      *)
(* selects is on or has less than its delay to go (after a change of the   *)
(* settings: has a delay to go, which may be one of the old settings).  No *)
(* blip of the trigger, no delay still counting when it comes back, no     *)
(* reset and no change that has been carried out leaves it off for good.   *)
(* (AlarmRules.cpp:274-366)                                                *)
OnOrDelayed ==
  AfterRun /\ change # "pending" =>
    \A b \in Output, t \in Trigger :
      cfg.sel[b] = {t} /\ alarm[t] =>
        \/ b \in latch
        \/ delayTimer[b] < IF change = "none" THEN cfg.delay[b] ELSE Idle
=============================================================================

--------------------------- MODULE ChargeHistory ---------------------------
(***************************************************************************)
(* ChargeControl with three history variables: the lock time that was set  *)
(* when the last recharging ended, the cycles of the lock timer that have  *)
(* passed since, and whether the controller was restarted before they had. *)
(***************************************************************************)
EXTENDS ChargeControl

VARIABLES due, waited, forgotten
hvars == <<vars, due, waited, forgotten>>

HInit == Init /\ due = 0 /\ waited = 0 /\ forgotten = FALSE

Locks == refill = "below" /\ refill' = "locked"
Waits == ~Restart /\ refill = "locked" /\ lockTimer' # lockTimer
HNext ==
  /\ Next
  /\ due' = IF Locks THEN cfg.refill.time ELSE due
  /\ waited' = IF Locks THEN 0 ELSE IF Waits THEN waited + 1 ELSE waited
  /\ forgotten' = IF Restart /\ refill = "locked" THEN TRUE
                  ELSE IF Locks THEN FALSE ELSE forgotten

HSpec == HInit /\ [][HNext]_hvars /\ WF_hvars(CanStep /\ HNext)

(* The inverter is not told to recharge again before the configured time   *)
(* has passed since the last recharging, whatever is saved, reported,      *)
(* switched or raised in between.  The exception is a restart during the   *)
(* pause: the lock is kept in RAM only, so the code forgets it and may     *)
(* recharge at once.  (Canbus.cpp:911-961)                                 *)
RefillPause == refill # "locked" => waited >= due \/ forgotten

(* Nor is the battery left alone for longer than that: whatever is saved,  *)
(* reported or switched during the pause, it counts no cycle too many.     *)
(* (A cycle counts when the recharging is computed: while an alarm reports *)
(* the battery full it is not, and the pause stands still.)  Only a pause  *)
(* of 0 lasts 65536 cycles, since the timer is decremented before it is    *)
(* compared with 0.  (Canbus.cpp:947-953)                                  *)
PauseBounded == waited <= IF due = 0 THEN 65536 ELSE due
=============================================================================

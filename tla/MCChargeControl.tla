-------------------------- MODULE MCChargeControl --------------------------
(* Packs, readings and settings for the model-checking runs.               *)
EXTENDS ChargeHistory

Both == {7, 8}
One == {7}
ChargeAlarm == {"charge"}
FullAlarm == {"socFull"}

(* A pack that is nearly full and balanced, and one that is nearly empty,  *)
(* has drifted and may not be charged.                                     *)
Full  == [max |-> 3500, min |-> 3495, diff |-> 5, soc |-> 96, amp |-> 0,
          error |-> FALSE, charge |-> TRUE, discharge |-> TRUE]
Empty == [max |-> 3400, min |-> 3000, diff |-> 400, soc |-> 5, amp |-> 10,
          error |-> FALSE, charge |-> FALSE, discharge |-> TRUE]
FullEmpty == {Full, Empty}

Plain ==
  [enable |-> TRUE, source |-> 7, sources |-> {}, max |-> 12, maxDischarge |-> 40,
   packCharge |-> [p \in Pack |-> 7], packDischarge |-> [p \in Pack |-> 20],
   cell |-> [on |-> TRUE, start |-> 3450, end |-> 3550, floor |-> 0],
   drift |-> [on |-> FALSE, start |-> 0, cell |-> 0, perMv |-> 0],
   soc |-> [on |-> FALSE, from |-> 0, perPercent |-> 0],
   discharge |-> [on |-> TRUE, start |-> 3100, end |-> 3000, floor |-> 0],
   cut |-> [time |-> 2, current |-> 10, soc |-> 96],
   socFrom |-> "avg", socBms |-> 7,
   refill |-> [on |-> FALSE, start |-> 3000, end |-> 0, soc |-> 9, time |-> 2],
   voltage |-> [on |-> FALSE, max |-> 544, cell |-> 3400, delta |-> 5]]

(* The cut-off, and the recharging, of two packs, and the recharging of    *)
(* one with two lock times to choose from, so that the other one may be    *)
(* saved during a pause.                                                   *)
Refill == [Plain EXCEPT !.max = 0, !.cut.time = 0, !.refill.on = TRUE]
CutAndRefill ==
  {{[Plain EXCEPT !.sources = Both, !.max = 2, !.socFrom = "max"]},
   {[Refill EXCEPT !.sources = Both, !.refill.time = 1]},
   {[Refill EXCEPT !.refill.time = t] : t \in 1 .. 2}}

(* One pack, with currents that every step of the ramp applies to, and one *)
(* for which the CAN bus is switched on and off.                           *)
RampAndSwitch ==
  {{[Plain EXCEPT !.enable = on, !.max = 3] : on \in BOOLEAN},
   {[Plain EXCEPT !.max = m, !.cut.time = 0,
                  !.soc = [on |-> TRUE, from |-> 90, perPercent |-> 5]] : m \in {27, 55}}}
=============================================================================

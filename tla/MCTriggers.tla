----------------------------- MODULE MCTriggers -----------------------------
(* Settings for the model-checking runs of TriggerHistory: one rule of each *)
(* kind.                                                                   *)
EXTENDS TriggerHistory

Rules(bms, temp, sensor, di, soc, limit) ==
  [noData   |-> [i \in BmsRule |-> bms[1]],
   cell     |-> [i \in BmsRule |-> bms[2]],
   total    |-> [i \in BmsRule |-> bms[3]],
   watched  |-> BmsRule,
   temp     |-> [i \in TempRule |-> temp],
   function |-> TempRule,
   sensor   |-> sensor,
   frozen   |-> 0,
   di       |-> [i \in Input |-> di],
   soc      |-> [i \in SocRule |-> soc],
   limit    |-> [l \in Limit |-> IF l = "charge" THEN limit ELSE {}]]

(* Rules that share triggers; trigger 1 fed before rules_CanInverter() and *)
(* trigger 2 after it; and a BMS that is not set up.                       *)
SharedConfigs ==
  {Rules(<<1, 0, 2>>, 1, 0, 1, 2, {1}),
   Rules(<<0, 1, 1>>, 1, 0, 2, 2, {1, 2}),
   [Rules(<<2, 0, 2>>, 0, 2, 1, 1, {2}) EXCEPT !.watched = {}]}
=============================================================================

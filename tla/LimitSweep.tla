----------------------------- MODULE LimitSweep -----------------------------
(***************************************************************************)
(* A battery that is charged until it is full, and then drained: the       *)
(* readings pass through all their values while the limits of ChargeLimits *)
(* are computed from them.                                                 *)
(***************************************************************************)
EXTENDS ChargeLimits

CONSTANTS
  Rules,    (* the settings of the limits                                  *)
  Voltages, (* cell voltages, mV                                           *)
  Diffs,    (* cell differences, mV                                        *)
  Socs      (* states of charge, %                                         *)

ASSUME RulesAssumption ==
  Rules \subseteq [max : Nat, cell : CellRule, drift : DriftRule, soc : SocRule,
                   discharge : CellRule]
ASSUME ReadingsAssumption ==
  /\ Voltages \cup Diffs \cup Socs \subseteq Nat
  /\ Voltages # {} /\ Diffs # {} /\ Socs # {}

VARIABLES rules, cell, diff, soc
vars == <<rules, cell, diff, soc>>

Lowest(S) == CHOOSE n \in S : \A m \in S : n <= m

(* No setting of the run makes a limit divide by zero.                     *)
Safe(r) == \A v \in Voltages : ~CellLimitTraps(r.cell, r.max, v)
                               /\ ~DischargeLimitTraps(r.discharge, r.max, v)

Init ==
  /\ rules \in {r \in Rules : Safe(r)}
  /\ cell = Lowest(Voltages) /\ diff = Lowest(Diffs) /\ soc = Lowest(Socs)

RiseCell == cell + 1 \in Voltages /\ cell' = cell + 1 /\ UNCHANGED <<rules, diff, soc>>
RiseDiff == diff + 1 \in Diffs /\ diff' = diff + 1 /\ UNCHANGED <<rules, cell, soc>>
RiseSoc  == soc + 1 \in Socs /\ soc' = soc + 1 /\ UNCHANGED <<rules, cell, diff>>

Next == RiseCell \/ RiseDiff \/ RiseSoc
Spec == Init /\ [][Next]_vars

(* No setting and difference make the reduction by the cell drift leave    *)
(* the int16_t it is stored in, before it is compared with 0.              *)
DriftFits(rule, max, d) ==
  max <= 32767 /\ max - (d - rule.start) * rule.perMv >= -32768
Fits == \A r \in Rules, d \in Diffs : DriftFits(r.drift, r.max, d)

ByCell  == CellLimit(rules.cell, rules.max, cell)
ByDrift == DriftLimit(rules.drift, rules.max, diff, cell)
BySoc   == SocLimit(rules.soc, rules.max, soc)
Drain   == DischargeLimit(rules.discharge, rules.max, cell)

(* As the fullest cell rises, the cells drift apart or the state of charge *)
(* rises, no limit of the charge current ever gets weaker, and as the      *)
(* emptiest cell rises, the limit of the discharge current never gets      *)
(* stronger: there is no jump at the start, at the end or by rounding.     *)
(* (Canbus.cpp:652-793)                                                    *)
LimitsFall ==
  [][ByCell' <= ByCell /\ ByDrift' <= ByDrift /\ BySoc' <= BySoc /\ Drain <= Drain']_vars

(* A limit is never above the maximum nor below 0, and the throttling by   *)
(* the cell voltage leaves the minimum current.                            *)
LimitsInRange ==
  /\ ByCell <= rules.max /\ ByDrift \in 0 .. rules.max /\ BySoc \in 0 .. rules.max
  /\ Drain <= rules.max
  /\ rules.cell.floor <= rules.max => ByCell >= rules.cell.floor
  /\ rules.discharge.floor <= rules.max => Drain >= rules.discharge.floor
=============================================================================

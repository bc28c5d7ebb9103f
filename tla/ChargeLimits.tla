---------------------------- MODULE ChargeLimits ----------------------------
(***************************************************************************)
(* The limits of the charge and discharge current in src/src/Canbus.cpp    *)
(* that are functions of what the BMS report: currents in A, cell voltages *)
(* and their difference in mV, the state of charge in %.  Divisions        *)
(* truncate, and a current is an int16_t.                                  *)
(***************************************************************************)
EXTENDS Integers

(* The parameters of a limit; "on" is its checkbox.                        *)
CellRule  == [on : BOOLEAN, start : Nat, end : Nat, floor : Nat]
DriftRule == [on : BOOLEAN, start : Nat, cell : Nat, perMv : Nat]
SocRule   == [on : BOOLEAN, from : Nat, perPercent : Nat]

AtLeast0(i) == IF i < 0 THEN 0 ELSE i

(* What an assignment to an int16_t keeps.                                 *)
Int16(i) == ((i + 32768) % 65536) - 32768

(* The part of max that is left when a cell is by of a range of mV beyond  *)
(* the start of the throttling: from max it falls to floor, in steps that  *)
(* are rounded so that floor may be reached early.  Mutant: it is then     *)
(* passed.                                                                 *)
StepPerAmp(max, range, floor) == (range * 100) \div (max - floor)

ThrottledUncapped(max, by, range, floor) ==
  max - (by * 100) \div StepPerAmp(max, range, floor)
Throttled(max, by, range, floor) ==
  LET reduction == (by * 100) \div StepPerAmp(max, range, floor)
  IN IF reduction > max - floor THEN floor ELSE max - reduction

(* The highest cell voltage limits the charging; nothing does if the start *)
(* voltage is above the end voltage.                                       *)
CellRuleApplies(rule, max, cell) ==
  rule.on /\ rule.start <= cell /\ rule.start <= rule.end /\ rule.floor < max

CellLimit(rule, max, cell) ==
  IF ~CellRuleApplies(rule, max, cell) THEN max
  ELSE IF cell > rule.end THEN rule.floor
  ELSE Throttled(max, cell - rule.start, rule.end - rule.start, rule.floor)

(* The step per ampere can be rounded down to 0: the division by it resets *)
(* the controller.                                                         *)
CellLimitTraps(rule, max, cell) ==
  /\ CellRuleApplies(rule, max, cell)
  /\ cell <= rule.end
  /\ StepPerAmp(max, rule.end - rule.start, rule.floor) = 0

(* The lowest cell voltage limits the discharging; here start is above end.*)
DischargeRuleApplies(rule, max, cell) ==
  rule.start > 0 /\ cell <= rule.start /\ rule.end < rule.start /\ rule.floor < max

DischargeLimit(rule, max, cell) ==
  IF ~DischargeRuleApplies(rule, max, cell) THEN max
  ELSE IF cell < rule.end THEN rule.floor
  ELSE Throttled(max, rule.start - cell, rule.start - rule.end, rule.floor)

DischargeLimitTraps(rule, max, cell) ==
  /\ DischargeRuleApplies(rule, max, cell)
  /\ cell >= rule.end
  /\ StepPerAmp(max, rule.start - rule.end, rule.floor) = 0

(* The difference of the cell voltages limits the charging.  Mutant: the   *)
(* current may become negative.                                            *)
DriftLimitNegative(rule, max, diff, cell) ==
  IF rule.on /\ diff > rule.start /\ cell >= rule.cell
    THEN Int16(max - (diff - rule.start) * rule.perMv) ELSE max
DriftLimit(rule, max, diff, cell) ==
  IF rule.on /\ diff > rule.start /\ cell >= rule.cell
    THEN AtLeast0(Int16(max - (diff - rule.start) * rule.perMv)) ELSE max

(* The state of charge limits the charging.                                *)
SocLimit(rule, max, soc) ==
  IF rule.on /\ soc >= rule.from
    THEN AtLeast0(max - (soc - rule.from + 1) * rule.perPercent) ELSE max
=============================================================================

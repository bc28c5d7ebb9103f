------------------------------ MODULE SerialBms ------------------------------
(***************************************************************************)
(* The batteries on the serial ports: cyclicRun() of src/src/BscSerial.cpp *)
(* with the drivers for JBD-BMS and JK-BMS (src/src/devices/), and what    *)
(* src/src/BmsData.cpp makes of the readings: a filter that rejects cell   *)
(* voltages that jump up, the correction of the state of charge, and the   *)
(* check whether the voltages change at all.                               *)
(*                                                                         *)
(* The web server changes the functions of the ports and the parameters of *)
(* the filter while a pass is under way.  A pass is split where it can.    *)
(* One BMS per port, and the extension that the ports above 2 need.  A     *)
(* restart sets everything but the settings to its initial value.          *)
(***************************************************************************)
EXTENDS Integers, FiniteSetsExt

CONSTANTS
  NumDevices, (* SERIAL_BMS_DEVICES_COUNT                                  *)
  NumCells,
  Settings,   (* the settings a user may save                              *)
  Answers,    (* what a BMS may report                                     *)
  CountTop,   (* 125, the highest value of the error counter               *)
  Cycles,     (* CYCLES_BMS_VALUES_PLAUSIBILITY_CHECK                      *)
  CyclesTop   (* 0xFD, the highest value of the counter of equal passes    *)

Device   == 1 .. NumDevices
Cell     == 1 .. NumCells
Function == {"none", "jbd", "jk"}
Unset    == 65535                   \* 0xFFFF, "no cell voltage yet"
Volt     == 0 .. Unset
Reading  == 0 .. 5000               \* mV, of a cell or of a setting
Setting  == [fn : [Device -> Function], count : 1 .. CountTop, percent : 0 .. 100,
             check : BOOLEAN, soc100 : [Device -> Reading], soc0 : [Device -> Reading]]
Answer   == [total : Nat, cell : [Cell -> Reading], soc : 0 .. 100]
NoAnswer == [total |-> -1]

ASSUME SizeAssumption ==
  /\ NumDevices \in Nat \ {0} /\ NumCells \in Nat \ {0}
  /\ CountTop \in Nat \ {0} /\ Cycles \in Nat /\ CyclesTop \in Nat
  /\ Cycles < CyclesTop
ASSUME ReportAssumption ==
  /\ Settings # {} /\ Settings \subseteq Setting /\ Answers \subseteq Answer

VARIABLES
  setting, web,           (* the settings; what the web server does next   *)
  readBms, maxCount, percent,            (* what the task makes of them    *)
  cell, maxCell, minCell, soc,           (* the readings kept              *)
  reached,                (* bo_SOC100CellvolHasBeenReached                *)
  err, rejected,          (* u8_mBmsFilterErrorCounter: bits 0-6 and bit 7 *)
  online,                 (* the last pass has called setBmsLastDataMillis *)
  unchanged, crc,         (* bmsLastChangeCellVoltageCrc; the voltages it  *)
                          (* was computed from                             *)
  totalOld,               (* f_mTotalVoltageOld of the JBD driver          *)
  pc, i, fn, ok           (* cyclicRun() and its local variables           *)

config == <<setting, web, readBms, maxCount, percent>>
charge == <<soc, reached>>
cells  == <<cell, maxCell, minCell>>
judged == <<online, unchanged, crc>>
local  == <<pc, i, fn, ok>>
vars   == <<config, charge, cells, err, rejected, judged, totalOld, local>>

TypeOK ==
  /\ setting \in Settings /\ web \in 0 .. NumDevices + 1
  /\ readBms \in [Device -> Function] /\ maxCount \in [Device -> 1 .. CountTop]
  /\ percent \in 0 .. 100
  /\ cell \in [Device -> [Cell -> Volt]]
  /\ maxCell \in [Device -> Volt] /\ minCell \in [Device -> Volt]
  /\ soc \in [Device -> 0 .. 100] /\ reached \in [Device -> BOOLEAN]
  /\ err \in [Device -> 0 .. CountTop] /\ rejected \in [Device -> BOOLEAN]
  /\ online \in [Device -> BOOLEAN] /\ unchanged \in [Device -> 0 .. CyclesTop]
  /\ crc \in [Device -> [Cell -> Int]]
  /\ totalOld \in Nat
  /\ pc \in {"wait", "device", "call", "basic", "cells", "jk", "judge", "check"}
  /\ i \in Device /\ fn \in Function /\ ok \in BOOLEAN

(* After a restart the filter is off, whatever the settings say.           *)
Init ==
  /\ setting \in Settings /\ web = 0
  /\ readBms = setting.fn /\ maxCount = [d \in Device |-> setting.count]
  /\ percent = 0
  /\ cell = [d \in Device |-> [c \in Cell |-> Unset]]
  /\ maxCell = [d \in Device |-> 0] /\ minCell = [d \in Device |-> 0]
  /\ soc = [d \in Device |-> 0] /\ reached = [d \in Device |-> FALSE]
  /\ err = [d \in Device |-> 0] /\ rejected = [d \in Device |-> FALSE]
  /\ online = [d \in Device |-> FALSE] /\ unchanged = [d \in Device |-> 0]
  /\ crc = [d \in Device |-> [c \in Cell |-> -1]]
  /\ totalOld = Unset
  /\ pc = "wait" /\ i = 1 /\ fn = "none" /\ ok = FALSE

-----------------------------------------------------------------------------
(* The web server.                                                         *)

SaveSetting ==
  /\ web = 0 /\ web' = 1 /\ setting' \in Settings
  /\ UNCHANGED <<readBms, maxCount, percent, charge, cells, err, rejected, judged,
                 totalOld, local>>

SetReadBmsFunktion ==
  /\ web \in Device /\ web' = web + 1
  /\ readBms' = [readBms EXCEPT ![web] = setting.fn[web]]
  /\ maxCount' = [maxCount EXCEPT ![web] = setting.count]
  /\ UNCHANGED <<setting, percent, charge, cells, err, rejected, judged, totalOld, local>>

SetPercent ==
  /\ web = NumDevices + 1 /\ web' = 0
  /\ percent' = setting.percent
  /\ UNCHANGED <<setting, readBms, maxCount, charge, cells, err, rejected, judged,
                 totalOld, local>>

-----------------------------------------------------------------------------
(* What is made of a reading.  `valid' is what a driver takes for the      *)
(* voltage of a cell: a JBD-BMS more than 500 mV, a JK-BMS everything.     *)
ValidJbd == 501 .. 5000

(* setBmsCellVoltage(): only a jump upwards is rejected.                   *)
Accepted(old, v) ==
  percent = 0 \/ old = Unset \/ 100 * v < old * (100 + percent)

Kept(d, reported, valid) ==
  [c \in Cell |-> IF reported[c] \in valid /\ Accepted(cell[d][c], reported[c])
                  THEN reported[c] ELSE cell[d][c]]

RejectsOne(d, reported, valid) ==
  \E c \in Cell : reported[c] \in valid /\ ~Accepted(cell[d][c], reported[c])

(* The extremes are those of the voltages reported, rejected or not.       *)
Shown(reported, valid) == {reported[c] : c \in Cell} \cap valid

Highest(reported, valid) == Max({0} \cup Shown(reported, valid))
Lowest(reported, valid)  == Min({Unset} \cup Shown(reported, valid))

StoreCells(reported, valid) ==
  /\ cell' = [cell EXCEPT ![i] = Kept(i, reported, valid)]
  /\ rejected' = [rejected EXCEPT ![i] = @ \/ RejectsOne(i, reported, valid)]
  /\ maxCell' = [maxCell EXCEPT ![i] = Highest(reported, valid)]
  /\ minCell' = [minCell EXCEPT ![i] = Lowest(reported, valid)]

(* Division in C rounds towards 0.  Nothing overflows with the two         *)
(* voltages of the setting at least 20 mV apart.                           *)
Quotient(a, b) == IF a >= 0 THEN a \div b ELSE -((-a) \div b)

LinearSoc(hi, lo, s100, s0) ==
  LET range  == s100 - s0
      input  == Quotient((hi - s0) * hi + (s100 - hi) * lo, range)
      result == Quotient((input - s0) * 100, range)
  IN IF result < 0 \/ lo <= s0 THEN 0
     ELSE IF result > 100 \/ hi >= s100 THEN 100 ELSE result

(* setBmsChargePercentage(), with the extremes known at that moment.       *)

(* Mutant: once reached, for good.                                         *)
ReachesForGood(reported, hi) ==
  LET s100 == setting.soc100[i]
  IN s100 > 0 /\ (hi >= s100 \/ reached[i])

Reaches(reported, hi) ==
  LET s100 == setting.soc100[i]
  IN s100 > 0 /\ (hi >= s100 \/ (reported = 100 /\ reached[i]))

Corrected(reported, hi, lo) ==
  LET s100 == setting.soc100[i]
      s0   == setting.soc0[i]
  IN IF Reaches(reported, hi) THEN 100
     ELSE IF s0 > 0 /\ s100 > s0 THEN LinearSoc(hi, lo, s100, s0)
     ELSE IF reported = 100 THEN 99 ELSE reported

SetChargePercentage(reported, hi, lo) ==
  /\ soc' = [soc EXCEPT ![i] = Corrected(reported, hi, lo)]
  /\ reached' = [reached EXCEPT ![i] = Reaches(reported, hi)
                                       \/ (reported = 100 /\ @)]

-----------------------------------------------------------------------------
(* cyclicRun().                                                            *)

StartPass ==
  /\ pc = "wait" /\ pc' = "device"
  /\ UNCHANGED <<config, charge, cells, err, rejected, judged, totalOld, i, fn, ok>>

(* Mutant: one device too many.                                            *)
NextDeviceTooFar ==
  /\ fn' = "none" /\ ok' = FALSE
  /\ IF i <= NumDevices THEN i' = i + 1 /\ pc' = "device" ELSE i' = 1 /\ pc' = "wait"

NextDevice ==
  /\ fn' = "none" /\ ok' = FALSE
  /\ IF i < NumDevices THEN i' = i + 1 /\ pc' = "device" ELSE i' = 1 /\ pc' = "wait"

SkipDevice ==
  /\ pc = "device" /\ readBms[i] = "none"
  /\ NextDevice
  /\ UNCHANGED <<config, charge, cells, err, rejected, judged, totalOld>>

BeginDevice ==
  /\ pc = "device" /\ readBms[i] # "none" /\ pc' = "call"
  /\ rejected' = [rejected EXCEPT ![i] = FALSE]
  /\ UNCHANGED <<config, charge, cells, err, judged, totalOld, i, fn, ok>>

(* The function may have been taken away since it was looked at.           *)
CallDriver ==
  /\ pc = "call" /\ fn' = readBms[i]
  /\ ok' = (fn' # "none")
  /\ pc' = IF fn' = "jbd" THEN "basic" ELSE IF fn' = "jk" THEN "jk" ELSE "judge"
  /\ UNCHANGED <<config, charge, cells, err, rejected, judged, totalOld, i>>

(* The basic message of a JBD-BMS is dropped if the total voltage is more  *)
(* than 10 % below the last one, of whatever device.                       *)
Dropped(answer) == 10 * answer.total < 9 * totalOld

JbdBasic(answer) ==
  /\ pc = "basic" /\ pc' = "cells"
  /\ IF answer = NoAnswer THEN ok' = FALSE /\ UNCHANGED <<totalOld, charge>>
     ELSE /\ totalOld' = answer.total /\ UNCHANGED ok
          /\ IF Dropped(answer) THEN UNCHANGED charge
             ELSE SetChargePercentage(answer.soc, maxCell[i], minCell[i])
  /\ UNCHANGED <<config, cells, err, rejected, judged, i, fn>>

(* The battery does not change between the two messages of a pass.         *)
JbdCells(answer) ==
  /\ pc = "cells" /\ pc' = "judge"
  /\ answer # NoAnswer /\ ok => answer.total = totalOld
  /\ IF answer = NoAnswer THEN ok' = FALSE /\ UNCHANGED <<cells, rejected>>
     ELSE StoreCells(answer.cell, ValidJbd) /\ UNCHANGED ok
  /\ UNCHANGED <<config, charge, err, judged, totalOld, i, fn>>

JkRead(answer) ==
  /\ pc = "jk" /\ pc' = "judge"
  /\ IF answer = NoAnswer THEN ok' = FALSE /\ UNCHANGED <<cells, rejected, charge>>
     ELSE /\ StoreCells(answer.cell, Reading)
          /\ SetChargePercentage(answer.soc, maxCell'[i], minCell'[i])
          /\ UNCHANGED ok
  /\ UNCHANGED <<config, err, judged, totalOld, i, fn>>

(* A rejected value is tolerated a number of times; each pass without one, *)
(* answered or not, starts the count again.                                *)
(* Mutant: one more is tolerated.                                          *)
TooOftenLate == err[i] > maxCount[i]

TooOften == err[i] >= maxCount[i]

Judge ==
  /\ pc = "judge" /\ pc' = "check"
  /\ err' = [err EXCEPT ![i] =
       IF ~rejected[i] THEN 0
       ELSE IF ~TooOften /\ @ < CountTop THEN @ + 1 ELSE @]
  /\ online' = [online EXCEPT ![i] = ok /\ ~(rejected[i] /\ TooOften)]
  /\ UNCHANGED <<config, charge, cells, rejected, unchanged, crc, totalOld, i, fn, ok>>

(* Mutants: the counter starts again at its end; it stops too early.       *)
CountUnchangedWraps ==
  unchanged' = [unchanged EXCEPT ![i] =
    IF cell[i] # crc[i] THEN 0 ELSE (@ + 1) % (CyclesTop + 1)]

CountUnchangedStops ==
  unchanged' = [unchanged EXCEPT ![i] =
    IF cell[i] # crc[i] THEN 0 ELSE IF @ < Cycles THEN @ + 1 ELSE @]

CountUnchanged ==
  unchanged' = [unchanged EXCEPT ![i] =
    IF cell[i] # crc[i] THEN 0 ELSE IF @ < CyclesTop THEN @ + 1 ELSE @]

Check ==
  /\ pc = "check"
  /\ IF setting.check THEN CountUnchanged /\ crc' = [crc EXCEPT ![i] = cell[i]]
     ELSE UNCHANGED <<unchanged, crc>>
  /\ NextDevice
  /\ UNCHANGED <<config, charge, cells, err, rejected, online, totalOld>>

-----------------------------------------------------------------------------

Web == SaveSetting \/ SetReadBmsFunktion \/ SetPercent

Read == \E answer \in Answers \cup {NoAnswer} :
          JbdBasic(answer) \/ JbdCells(answer) \/ JkRead(answer)

CyclicRun ==
  StartPass \/ SkipDevice \/ BeginDevice \/ CallDriver \/ Read \/ Judge \/ Check

Next == Web \/ CyclicRun

Spec == Init /\ [][Next]_vars
=============================================================================

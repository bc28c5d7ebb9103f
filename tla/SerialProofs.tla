---------------------------- MODULE SerialProofs ----------------------------
(* Proofs about SerialBms and SerialHistory, for any devices, cells,       *)
(* settings and answers: types, the count of tolerated errors, the counter *)
(* of unchanged voltages, and that a battery is full only when a cell is.  *)
EXTENDS SerialHistory, WellFoundedInduction, TLAPS

-----------------------------------------------------------------------------
(* Voltages, and the extremes of a set of them.                            *)

LEMMA VoltIs ==
  /\ Unset \in Nat /\ Unset \in Volt /\ 0 \in Volt /\ Volt \in SUBSET Nat
  /\ \A v \in Volt : v <= Unset
  /\ Reading \in SUBSET Volt /\ 0 \in Reading
<1>1. Unset \in Nat /\ 0 <= Unset  BY SMT DEF Unset
<1>2. \A v \in Reading : v \in Nat /\ v <= Unset  BY SMT DEF Reading, Unset
<1>3. Reading \in SUBSET Volt  BY <1>2 DEF Volt
<1>4. 0 \in Reading  BY SMT DEF Reading
<1> QED  BY <1>1, <1>3, <1>4 DEF Volt

LEMMA SmallestIs ==
  ASSUME NEW S \in SUBSET Nat, S # {}
  PROVE  \E m \in S : \A n \in S : m <= n
<1>1. \E m \in S : \A n \in S : <<n, m>> \notin OpToRel(<, Nat)
  BY WFMin, NatLessThanWellFounded, Zenon
<1>2. ASSUME NEW m \in S, NEW n \in S, <<n, m>> \notin OpToRel(<, Nat)
      PROVE  m <= n
  BY <1>2 DEF OpToRel
<1> QED  BY <1>1, <1>2, Zenon

LEMMA MaxIs ==
  ASSUME NEW S \in SUBSET Volt, S # {}
  PROVE  Max(S) \in S /\ \A x \in S : x <= Max(S)
<1> DEFINE T == {Unset - x : x \in S}
<1>1. T \in SUBSET Nat /\ T # {}
  <2>1. \A x \in S : Unset - x \in Nat  BY VoltIs
  <2> QED  BY <2>1
<1>2. PICK m \in T : \A n \in T : m <= n  BY <1>1, SmallestIs, Zenon
<1>3. PICK x \in S : m = Unset - x  BY <1>2
<1>4. \A y \in S : x >= y
  <2> SUFFICES ASSUME NEW y \in S PROVE x >= y
    OBVIOUS
  <2>1. Unset - y \in T  OBVIOUS
  <2> QED  BY <1>2, <1>3, <2>1, VoltIs
<1>5. Max(S) \in S /\ \A y \in S : Max(S) >= y  BY <1>3, <1>4 DEF Max
<1> QED  BY <1>5, VoltIs

LEMMA MinIs ==
  ASSUME NEW S \in SUBSET Volt, S # {}
  PROVE  Min(S) \in S /\ \A x \in S : Min(S) <= x
<1>1. S \in SUBSET Nat  BY VoltIs
<1>2. PICK x \in S : \A y \in S : x <= y  BY <1>1, SmallestIs, Zenon
<1> QED  BY <1>2 DEF Min

LEMMA ExtremesType ==
  ASSUME NEW reported \in [Cell -> Reading], NEW valid
  PROVE  Highest(reported, valid) \in Volt /\ Lowest(reported, valid) \in Volt
<1>1. Shown(reported, valid) \in SUBSET Volt  BY VoltIs DEF Shown
<1>2. 0 \in Volt /\ Unset \in Volt  BY VoltIs
<1>3. Max({0} \cup Shown(reported, valid)) \in {0} \cup Shown(reported, valid)
  BY <1>1, <1>2, MaxIs
<1>4. Min({Unset} \cup Shown(reported, valid)) \in {Unset} \cup Shown(reported, valid)
  BY <1>1, <1>2, MinIs
<1> QED  BY <1>1, <1>2, <1>3, <1>4 DEF Highest, Lowest

-----------------------------------------------------------------------------
(* The linear state of charge.                                             *)

LEMMA QuotientType ==
  ASSUME NEW a \in Int, NEW b \in Nat \ {0}
  PROVE  Quotient(a, b) \in Int
BY DEF Quotient

(* A quotient is at most k if the dividend is at most k times the divisor. *)
LEMMA QuotientBound ==
  ASSUME NEW a \in Int, NEW b \in Nat \ {0}, NEW k \in Nat, a < (k + 1) * b
  PROVE  Quotient(a, b) <= k
<1>1. CASE a >= 0
  <2>1. a \div b \in Int /\ (a \div b) * b <= a  BY <1>1
  <2>2. ASSUME a \div b >= k + 1 PROVE FALSE
    <3>1. (a \div b) * b >= (k + 1) * b  BY <2>1, <2>2
    <3> QED  BY <2>1, <3>1
  <2> QED  BY <1>1, <2>1, <2>2 DEF Quotient
<1>2. CASE a < 0
  <2>1. (-a) \div b \in Int /\ (-a) \div b >= 0  BY <1>2
  <2> QED  BY <1>2, <2>1 DEF Quotient
<1> QED  BY <1>1, <1>2

(* It is 100 % only if the highest cell is as high as it has to be for it, *)
(* or if the extremes are those of no cell.                                *)
LEMMA LinearIs ==
  ASSUME NEW hi \in Volt, NEW lo \in Volt, NEW s100 \in Reading, NEW s0 \in Reading,
         s0 > 0, s100 > s0
  PROVE  /\ LinearSoc(hi, lo, s100, s0) \in 0 .. 100
         /\ LinearSoc(hi, lo, s100, s0) = 100 => lo > hi \/ hi >= s100
<1> DEFINE range  == s100 - s0
           top    == (hi - s0) * hi + (s100 - hi) * lo
           input  == Quotient(top, range)
           scaled == (input - s0) * 100
           result == Quotient(scaled, range)
<1>1. /\ hi \in Nat /\ lo \in Nat /\ s100 \in Nat /\ s0 \in Nat
      /\ range \in Nat \ {0} /\ top \in Int
  BY VoltIs
<1>2. input \in Int /\ scaled \in Int  BY <1>1, QuotientType
<1>3. result \in Int  BY <1>1, <1>2, QuotientType
<1>4. LinearSoc(hi, lo, s100, s0) =
        IF result < 0 \/ lo <= s0 THEN 0
        ELSE IF result > 100 \/ hi >= s100 THEN 100 ELSE result
  BY DEF LinearSoc
<1>5. ASSUME lo <= hi, hi < s100
      PROVE  result <= 99
  <2>1. (s100 - hi) * lo <= (s100 - hi) * hi  BY <1>1, <1>5
  <2>2. (hi - s0) * hi + (s100 - hi) * hi = hi * range  BY <1>1
  <2>3. top < (hi + 1) * range
    <3>1. top <= hi * range  BY <1>1, <2>1, <2>2
    <3>2. (hi + 1) * range = hi * range + range  BY <1>1
    <3> QED  BY <1>1, <3>1, <3>2
  <2>4. input <= hi
    <3> HIDE DEF top, range
    <3> QED  BY <1>1, <2>3, QuotientBound DEF input
  <2>5. input - s0 <= range - 1  BY <1>1, <1>2, <1>5, <2>4
  <2>6. scaled < (99 + 1) * range
    <3> HIDE DEF input
    <3> QED  BY <1>1, <1>2, <2>5
  <2> HIDE DEF scaled, range
  <2> QED  BY <1>1, <1>2, <2>6, QuotientBound DEF result
<1> HIDE DEF result
<1> QED  BY <1>1, <1>3, <1>4, <1>5

-----------------------------------------------------------------------------
(* Types.                                                                  *)

LEMMA SettingIs ==
  ASSUME setting \in Settings
  PROVE  /\ setting.fn \in [Device -> Function] /\ setting.count \in 1 .. CountTop
         /\ setting.percent \in 0 .. 100 /\ setting.check \in BOOLEAN
         /\ setting.soc100 \in [Device -> Reading] /\ setting.soc0 \in [Device -> Reading]
BY SizeAssumption, ReportAssumption DEF Setting

LEMMA AnswerIs ==
  ASSUME NEW answer \in Answers
  PROVE  /\ answer.total \in Nat /\ answer.soc \in 0 .. 100
         /\ answer.cell \in [Cell -> Reading]
BY ReportAssumption DEF Answer

LEMMA CorrectedIs ==
  ASSUME TypeOK, NEW reported \in 0 .. 100, NEW hi \in Volt, NEW lo \in Volt
  PROVE  /\ Corrected(reported, hi, lo) \in 0 .. 100
         /\ Corrected(reported, hi, lo) = 100 => Full(hi, lo) \/ Reaches(reported, hi)
<1>1. i \in Device /\ setting.soc100[i] \in Reading /\ setting.soc0[i] \in Reading
  BY SettingIs DEF TypeOK
<1>2. CASE Reaches(reported, hi)
  BY <1>2 DEF Corrected
<1>3. CASE ~Reaches(reported, hi) /\ setting.soc0[i] > 0 /\ setting.soc100[i] > setting.soc0[i]
  <2>1. Corrected(reported, hi, lo) = LinearSoc(hi, lo, setting.soc100[i], setting.soc0[i])
    BY <1>3 DEF Corrected
  <2>2. /\ LinearSoc(hi, lo, setting.soc100[i], setting.soc0[i]) \in 0 .. 100
        /\ LinearSoc(hi, lo, setting.soc100[i], setting.soc0[i]) = 100 =>
             lo > hi \/ hi >= setting.soc100[i]
    BY <1>1, <1>3, LinearIs
  <2>3. setting.soc100[i] > 0
    <3>1. \A s100, s0 \in Reading : s0 > 0 /\ s100 > s0 => s100 > 0
      BY VoltIs
    <3> QED  BY <1>1, <1>3, <3>1
  <2> QED  BY <2>1, <2>2, <2>3 DEF Full
<1>4. CASE /\ ~Reaches(reported, hi)
           /\ ~(setting.soc0[i] > 0 /\ setting.soc100[i] > setting.soc0[i])
  BY <1>4 DEF Corrected
<1> QED  BY <1>2, <1>3, <1>4

LEMMA StoreType ==
  ASSUME TypeOK, NEW answer \in Answers, NEW valid, StoreCells(answer.cell, valid)
  PROVE  /\ cell' \in [Device -> [Cell -> Volt]] /\ rejected' \in [Device -> BOOLEAN]
         /\ maxCell' \in [Device -> Volt] /\ minCell' \in [Device -> Volt]
<1>1. answer.cell \in [Cell -> Reading]  BY AnswerIs
<1>2. \A c \in Cell : answer.cell[c] \in Volt  BY <1>1, VoltIs
<1>3. Kept(i, answer.cell, valid) \in [Cell -> Volt]  BY <1>2 DEF Kept, TypeOK
<1>4. Highest(answer.cell, valid) \in Volt /\ Lowest(answer.cell, valid) \in Volt
  BY <1>1, ExtremesType
<1>5. cell' \in [Device -> [Cell -> Volt]]  BY <1>3 DEF StoreCells, TypeOK
<1>6. rejected' \in [Device -> BOOLEAN]  BY DEF StoreCells, TypeOK, RejectsOne
<1> QED  BY <1>4, <1>5, <1>6 DEF StoreCells, TypeOK

LEMMA ChargeType ==
  ASSUME TypeOK, NEW answer \in Answers, NEW hi \in Volt, NEW lo \in Volt,
         SetChargePercentage(answer.soc, hi, lo)
  PROVE  soc' \in [Device -> 0 .. 100] /\ reached' \in [Device -> BOOLEAN]
<1>1. Corrected(answer.soc, hi, lo) \in 0 .. 100  BY AnswerIs, CorrectedIs
<1>2. soc' \in [Device -> 0 .. 100]  BY <1>1 DEF SetChargePercentage, TypeOK
<1>3. reached' \in [Device -> BOOLEAN]  BY DEF SetChargePercentage, TypeOK, Reaches
<1> QED  BY <1>2, <1>3

LEMMA NextDeviceType ==
  ASSUME TypeOK, NextDevice
  PROVE  i' \in Device /\ fn' \in Function /\ ok' \in BOOLEAN /\ pc' \in {"wait", "device"}
<1>1. i \in Device  BY DEF TypeOK
<1>2. 1 \in Device /\ (i < NumDevices => i + 1 \in Device)
  BY <1>1, SizeAssumption DEF Device
<1> QED  BY <1>2 DEF NextDevice, Function

LEMMA SerialInitType == Init => TypeOK
<1> SUFFICES ASSUME Init PROVE TypeOK
  OBVIOUS
<1>1. /\ setting.fn \in [Device -> Function] /\ setting.count \in 1 .. CountTop
  BY SettingIs DEF Init
<1>2. 1 \in Device /\ 0 \in 0 .. NumDevices + 1 /\ 0 \in 0 .. CountTop /\ 0 \in 0 .. CyclesTop
  BY SizeAssumption DEF Device
<1>3. 0 \in Volt /\ Unset \in Volt /\ Unset \in Nat  BY VoltIs
<1>4. /\ cell \in [Device -> [Cell -> Volt]] /\ crc \in [Device -> [Cell -> Int]]
      /\ maxCell \in [Device -> Volt] /\ minCell \in [Device -> Volt] /\ totalOld \in Nat
  BY <1>3 DEF Init
<1>5. /\ soc \in [Device -> 0 .. 100] /\ reached \in [Device -> BOOLEAN]
      /\ err \in [Device -> 0 .. CountTop] /\ rejected \in [Device -> BOOLEAN]
      /\ online \in [Device -> BOOLEAN] /\ unchanged \in [Device -> 0 .. CyclesTop]
  BY <1>2 DEF Init
<1>6. /\ readBms \in [Device -> Function] /\ maxCount \in [Device -> 1 .. CountTop]
      /\ setting \in Settings
  BY <1>1 DEF Init
<1>7. web \in 0 .. NumDevices + 1 /\ i \in Device
  BY <1>2, Zenon DEF Init
<1>8. percent \in 0 .. 100  BY DEF Init
<1>9. fn \in Function /\ ok \in BOOLEAN /\ pc = "wait"
  BY Zenon DEF Init, Function
<1> QED  BY <1>4, <1>5, <1>6, <1>7, <1>8, <1>9 DEF TypeOK

LEMMA WebType ==
  ASSUME TypeOK, Web
  PROVE  TypeOK'
<1>1. 1 \in 0 .. NumDevices + 1  BY SizeAssumption
<1>2. CASE SaveSetting
  BY <1>1, <1>2 DEF SaveSetting, TypeOK, charge, cells, judged, local
<1>3. CASE SetReadBmsFunktion
  <2>1. web' \in 0 .. NumDevices + 1
    BY <1>3, SizeAssumption DEF SetReadBmsFunktion, Device
  <2>2. readBms' \in [Device -> Function] /\ maxCount' \in [Device -> 1 .. CountTop]
    BY <1>3, SettingIs DEF SetReadBmsFunktion, TypeOK
  <2> QED  BY <1>3, <2>1, <2>2 DEF SetReadBmsFunktion, TypeOK, charge, cells, judged, local
<1>4. CASE SetPercent
  <2>1. percent' \in 0 .. 100 /\ web' \in 0 .. NumDevices + 1
    BY <1>4, SettingIs, SizeAssumption DEF SetPercent, TypeOK
  <2> QED  BY <1>4, <2>1 DEF SetPercent, TypeOK, charge, cells, judged, local
<1> QED  BY <1>2, <1>3, <1>4 DEF Web

LEMMA ReadType ==
  ASSUME TypeOK, NEW answer \in Answers \cup {NoAnswer},
         JbdBasic(answer) \/ JbdCells(answer) \/ JkRead(answer)
  PROVE  TypeOK'
<1>1. CASE JbdBasic(answer)
  <2>1. totalOld' \in Nat /\ ok' \in BOOLEAN
    BY <1>1, AnswerIs DEF JbdBasic, TypeOK
  <2>2. soc' \in [Device -> 0 .. 100] /\ reached' \in [Device -> BOOLEAN]
    <3>1. CASE UNCHANGED charge  BY <3>1 DEF charge, TypeOK
    <3>2. CASE ~UNCHANGED charge
      <4>1. answer \in Answers /\ SetChargePercentage(answer.soc, maxCell[i], minCell[i])
        BY <1>1, <3>2 DEF JbdBasic
      <4>2. maxCell[i] \in Volt /\ minCell[i] \in Volt  BY DEF TypeOK
      <4> QED  BY <4>1, <4>2, ChargeType
    <3> QED  BY <3>1, <3>2
  <2> QED  BY <1>1, <2>1, <2>2 DEF JbdBasic, TypeOK, config, cells, judged
<1>2. CASE JbdCells(answer)
  <2>1. ok' \in BOOLEAN  BY <1>2 DEF JbdCells, TypeOK
  <2>2. /\ cell' \in [Device -> [Cell -> Volt]] /\ rejected' \in [Device -> BOOLEAN]
        /\ maxCell' \in [Device -> Volt] /\ minCell' \in [Device -> Volt]
    <3>1. CASE answer = NoAnswer
      BY <1>2, <3>1 DEF JbdCells, cells, TypeOK
    <3>2. CASE answer # NoAnswer
      <4>1. answer \in Answers /\ StoreCells(answer.cell, ValidJbd)
        BY <1>2, <3>2 DEF JbdCells
      <4> QED  BY <4>1, StoreType
    <3> QED  BY <3>1, <3>2
  <2> QED  BY <1>2, <2>1, <2>2 DEF JbdCells, TypeOK, config, charge, judged
<1>3. CASE JkRead(answer)
  <2>1. ok' \in BOOLEAN  BY <1>3 DEF JkRead, TypeOK
  <2>2. /\ cell' \in [Device -> [Cell -> Volt]] /\ rejected' \in [Device -> BOOLEAN]
        /\ maxCell' \in [Device -> Volt] /\ minCell' \in [Device -> Volt]
        /\ soc' \in [Device -> 0 .. 100] /\ reached' \in [Device -> BOOLEAN]
    <3>1. CASE answer = NoAnswer
      BY <1>3, <3>1 DEF JkRead, cells, charge, TypeOK
    <3>2. CASE answer # NoAnswer
      <4>1. /\ answer \in Answers /\ StoreCells(answer.cell, Reading)
            /\ SetChargePercentage(answer.soc, maxCell'[i], minCell'[i])
        BY <1>3, <3>2 DEF JkRead
      <4>2. /\ cell' \in [Device -> [Cell -> Volt]] /\ rejected' \in [Device -> BOOLEAN]
            /\ maxCell' \in [Device -> Volt] /\ minCell' \in [Device -> Volt]
        BY <4>1, StoreType
      <4>3. maxCell'[i] \in Volt /\ minCell'[i] \in Volt  BY <4>2 DEF TypeOK
      <4> QED  BY <4>1, <4>2, <4>3, ChargeType
    <3> QED  BY <3>1, <3>2
  <2> QED  BY <1>3, <2>1, <2>2 DEF JkRead, TypeOK, config, judged
<1> QED  BY <1>1, <1>2, <1>3

LEMMA SerialNextType ==
  ASSUME TypeOK, [Next]_vars
  PROVE  TypeOK'
<1>1. CASE Web  BY <1>1, WebType
<1>2. CASE Read  BY <1>2, ReadType DEF Read
<1>3. CASE StartPass
  BY <1>3 DEF StartPass, TypeOK, config, charge, cells, judged
<1>4. CASE SkipDevice
  BY <1>4, NextDeviceType DEF SkipDevice, TypeOK, config, charge, cells, judged
<1>5. CASE BeginDevice
  BY <1>5 DEF BeginDevice, TypeOK, config, charge, cells, judged
<1>6. CASE CallDriver
  BY <1>6 DEF CallDriver, TypeOK, config, charge, cells, judged
<1>7. CASE Judge
  <2>1. err' \in [Device -> 0 .. CountTop]
    BY <1>7, SizeAssumption DEF Judge, TypeOK
  <2>2. online' \in [Device -> BOOLEAN]
    BY <1>7 DEF Judge, TypeOK, TooOften
  <2> QED  BY <1>7, <2>1, <2>2 DEF Judge, TypeOK, config, charge, cells
<1>8. CASE Check
  <2>1. unchanged' \in [Device -> 0 .. CyclesTop]
    <3>1. i \in Device /\ unchanged \in [Device -> 0 .. CyclesTop]  BY DEF TypeOK
    <3>2. \A n \in 0 .. CyclesTop : (IF n < CyclesTop THEN n + 1 ELSE n) \in 0 .. CyclesTop
      BY SizeAssumption
    <3>3. 0 \in 0 .. CyclesTop  BY SizeAssumption
    <3>4. CASE setting.check
      BY <1>8, <3>1, <3>2, <3>3, <3>4 DEF Check, CountUnchanged
    <3>5. CASE ~setting.check
      BY <1>8, <3>1, <3>5 DEF Check
    <3> QED  BY <3>4, <3>5
  <2>2. crc' \in [Device -> [Cell -> Int]]
    <3>1. cell[i] \in [Cell -> Volt]  BY DEF TypeOK
    <3>2. Volt \in SUBSET Int  BY VoltIs
    <3>3. cell[i] \in [Cell -> Int]  BY <3>1, <3>2, Zenon
    <3> QED  BY <1>8, <3>3 DEF Check, TypeOK
  <2> QED  BY <1>8, <2>1, <2>2, NextDeviceType DEF Check, TypeOK, config, charge, cells
<1>9. CASE UNCHANGED vars
  BY <1>9 DEF vars, TypeOK, config, charge, cells, judged, local
<1> QED  BY <1>1, <1>2, <1>3, <1>4, <1>5, <1>6, <1>7, <1>8, <1>9 DEF Next, CyclicRun

(* The readings, counters and settings of every device keep their types:   *)
(* the state of charge stays within 0 and 100 %, the counters within their *)
(* bits, although the web server changes the settings during a pass.       *)
THEOREM SerialTypeCorrect == Spec => []TypeOK
BY SerialInitType, SerialNextType, PTL DEF Spec

-----------------------------------------------------------------------------
(* The history.                                                            *)

HistoryTypeOK ==
  /\ streak \in [Device -> 0 .. CountTop + 1] /\ mixed \in [Device -> BOOLEAN]
  /\ sawFull \in [Device -> BOOLEAN]

(* A flag of one device is set.                                            *)
LEMMA FlagSet ==
  ASSUME NEW f \in [Device -> BOOLEAN], NEW e \in Device, NEW b \in BOOLEAN
  PROVE  /\ [f EXCEPT ![e] = b] \in [Device -> BOOLEAN] /\ [f EXCEPT ![e] = b][e] = b
         /\ \A d \in Device : d # e => [f EXCEPT ![e] = b][d] = f[d]
OBVIOUS

LEMMA HStepIsStep ==
  ASSUME [HNext]_hvars
  PROVE  [Next]_vars
BY Zenon DEF HNext, HCyclicRun, HRead, Next, Web, CyclicRun, Read, hvars

LEMMA HistoryInit == HInit => TypeOK /\ HistoryTypeOK
<1> SUFFICES ASSUME HInit PROVE TypeOK /\ HistoryTypeOK
  OBVIOUS
<1>1. TypeOK  BY SerialInitType DEF HInit
<1>2. 0 \in 0 .. CountTop + 1  BY SizeAssumption
<1> QED  BY <1>1, <1>2 DEF HInit, HistoryTypeOK

LEMMA HistoryStep ==
  ASSUME TypeOK, HistoryTypeOK, [HNext]_hvars
  PROVE  TypeOK' /\ HistoryTypeOK'
<1>1. TypeOK'  BY HStepIsStep, SerialNextType
<1>2. CASE UNCHANGED history
  <2>1. streak' = streak /\ mixed' = mixed /\ sawFull' = sawFull  BY <1>2 DEF history
  <2> QED  BY <1>1, <2>1 DEF HistoryTypeOK
<1>0. i \in Device  BY DEF TypeOK
<1>3. CASE SetReadBmsFunktion /\ RecordCount
  <2>1. web \in Device  BY <1>3 DEF SetReadBmsFunktion
  <2>2. mixed' \in [Device -> BOOLEAN]
    BY <1>3, <2>1, FlagSet, Zenon DEF RecordCount, HistoryTypeOK
  <2>3. streak' = streak /\ sawFull' = sawFull  BY <1>3 DEF RecordCount
  <2> QED  BY <1>1, <2>2, <2>3 DEF HistoryTypeOK
<1>4. ASSUME NEW answer \in Answers \cup {NoAnswer}, RecordBasic(answer)
      PROVE  HistoryTypeOK'
  <2>1. CASE answer = NoAnswer
    BY <1>2, <1>4, <2>1 DEF RecordBasic
  <2>2. CASE answer # NoAnswer
    <3> DEFINE b == Full(maxCell[i], minCell[i]) \/ (answer.soc = 100 /\ sawFull[i])
    <3>1. sawFull' = sawFull \/ sawFull' = [sawFull EXCEPT ![i] = b]
      BY <1>4, <2>2, Zenon DEF RecordBasic
    <3>2. b \in BOOLEAN  BY Zenon
    <3>3. sawFull \in [Device -> BOOLEAN]  BY DEF HistoryTypeOK
    <3> HIDE DEF b
    <3>4. sawFull' \in [Device -> BOOLEAN]
      BY <1>0, <3>1, <3>2, <3>3, FlagSet, Zenon
    <3>5. streak' = streak /\ mixed' = mixed  BY <1>4, <2>2 DEF RecordBasic
    <3> QED  BY <3>4, <3>5, Zenon DEF HistoryTypeOK
  <2> QED  BY <2>1, <2>2
<1>5. ASSUME NEW answer \in Answers \cup {NoAnswer}, RecordJk(answer)
      PROVE  HistoryTypeOK'
  <2>1. sawFull' \in [Device -> BOOLEAN]
    BY <1>0, <1>5, FlagSet, Zenon DEF RecordJk, HistoryTypeOK
  <2>2. UNCHANGED <<streak, mixed>>  BY <1>5, Zenon DEF RecordJk
  <2> QED  BY <2>1, <2>2, Zenon DEF HistoryTypeOK
<1>6. CASE RecordPass
  <2>1. \A n \in 0 .. CountTop + 1 : (IF n <= CountTop THEN n + 1 ELSE n) \in 0 .. CountTop + 1
    BY SizeAssumption
  <2>2. 0 \in 0 .. CountTop + 1  BY SizeAssumption
  <2>3. streak' \in [Device -> 0 .. CountTop + 1]
    BY <1>6, <2>1, <2>2 DEF RecordPass, HistoryTypeOK
  <2>4. mixed' \in [Device -> BOOLEAN]
    BY <1>0, <1>6, FlagSet, Zenon DEF RecordPass, HistoryTypeOK
  <2>5. sawFull' = sawFull  BY <1>6, Zenon DEF RecordPass
  <2> QED  BY <1>1, <2>3, <2>4, <2>5 DEF HistoryTypeOK
<1>7. UNCHANGED hvars => UNCHANGED history  BY DEF hvars
<1> QED
  BY <1>1, <1>2, <1>3, <1>4, <1>5, <1>6, <1>7 DEF HNext, HCyclicRun, HRead

-----------------------------------------------------------------------------
(* The errors tolerated: unless the number was set again during a streak,  *)
(* the error counter is the length of the streak up to that number.        *)

Counter(d) == IF streak[d] < maxCount[d] THEN streak[d] ELSE maxCount[d]

CountInv ==
  /\ \A d \in Device : ~mixed[d] => err[d] = Counter(d)
  /\ ErrorsCounted

(* Steps that touch neither the counters nor what the pass has found.      *)
LEMMA CountKept ==
  ASSUME CountInv, UNCHANGED <<maxCount, err, streak, mixed>>,
         pc' = "check" => UNCHANGED <<pc, i, online, ok>>
  PROVE  CountInv'
<1>1. ErrorsCounted'
  BY DEF CountInv, ErrorsCounted, Judged
<1> QED  BY <1>1 DEF CountInv, Counter

LEMMA JudgeCount ==
  ASSUME TypeOK, HistoryTypeOK, CountInv, Judge, RecordPass
  PROVE  CountInv'
<1>1. /\ i \in Device /\ err[i] \in 0 .. CountTop /\ maxCount[i] \in 1 .. CountTop
      /\ streak[i] \in 0 .. CountTop + 1 /\ CountTop \in Nat
      /\ rejected[i] \in BOOLEAN /\ mixed[i] \in BOOLEAN
  BY SizeAssumption DEF TypeOK, HistoryTypeOK
<1>2. /\ i' = i /\ maxCount' = maxCount /\ ok' = ok
      /\ \A d \in Device : d # i =>
           err'[d] = err[d] /\ streak'[d] = streak[d] /\ mixed'[d] = mixed[d]
  BY DEF Judge, RecordPass, TypeOK, HistoryTypeOK, config
<1>3. /\ err'[i] = IF ~rejected[i] THEN 0
                   ELSE IF ~TooOften /\ err[i] < CountTop THEN err[i] + 1 ELSE err[i]
      /\ online'[i] = (ok /\ ~(rejected[i] /\ TooOften))
  BY <1>1 DEF Judge, TypeOK
<1>4. /\ streak'[i] = IF ~rejected[i] THEN 0
                      ELSE IF streak[i] <= CountTop THEN streak[i] + 1 ELSE streak[i]
      /\ mixed'[i] = (mixed[i] /\ rejected[i])
  BY <1>1 DEF RecordPass, HistoryTypeOK
<1>5. ASSUME ~mixed'[i]
      PROVE  err'[i] = Counter(i)' /\ (online'[i] <=> ok /\ streak'[i] <= maxCount[i])
  <2>1. CASE ~rejected[i]
    <3>1. err'[i] = 0 /\ streak'[i] = 0 /\ (online'[i] <=> ok)
      BY <1>3, <1>4, <2>1
    <3> QED  BY <1>1, <1>2, <3>1 DEF Counter
  <2>2. CASE rejected[i]
    <3>1. err[i] = Counter(i)  BY <1>1, <1>4, <1>5, <2>2 DEF CountInv
    <3>2. TooOften <=> streak[i] >= maxCount[i]
      BY <1>1, <3>1 DEF TooOften, Counter
    <3>3. streak'[i] <= maxCount[i] <=> ~TooOften
      BY <1>1, <1>4, <2>2, <3>2
    <3>4. err'[i] = IF streak'[i] < maxCount[i] THEN streak'[i] ELSE maxCount[i]
      BY <1>1, <1>3, <1>4, <2>2, <3>1, <3>2 DEF Counter
    <3>5. Counter(i)' = IF streak'[i] < maxCount[i] THEN streak'[i] ELSE maxCount[i]
      BY <1>2 DEF Counter
    <3>6. online'[i] <=> ok /\ ~TooOften  BY <1>3, <2>2
    <3> QED  BY <3>3, <3>4, <3>5, <3>6
  <2> QED  BY <2>1, <2>2
<1>6. \A d \in Device : ~mixed'[d] => err'[d] = Counter(d)'
  BY <1>2, <1>5 DEF CountInv, Counter
<1>7. ErrorsCounted'
  BY <1>2, <1>5 DEF ErrorsCounted, Judged
<1> QED  BY <1>6, <1>7 DEF CountInv

LEMMA SetCount ==
  ASSUME TypeOK, HistoryTypeOK, CountInv, SetReadBmsFunktion, RecordCount
  PROVE  CountInv'
<1>1. /\ web \in Device /\ streak[web] \in 0 .. CountTop + 1 /\ setting.count \in 1 .. CountTop
      /\ maxCount[web] \in 1 .. CountTop /\ CountTop \in Nat
  BY SizeAssumption, SettingIs DEF TypeOK, HistoryTypeOK, SetReadBmsFunktion
<1>2. /\ UNCHANGED <<err, streak, online, ok, pc, i>>
      /\ maxCount'[web] = setting.count
      /\ mixed'[web] = (mixed[web] \/ (streak[web] > 0 /\ maxCount'[web] # maxCount[web]))
      /\ \A d \in Device : d # web => maxCount'[d] = maxCount[d] /\ mixed'[d] = mixed[d]
  <2>1. UNCHANGED <<err, streak, online, ok, pc, i>>
    BY Zenon DEF SetReadBmsFunktion, RecordCount, judged, local
  <2>2. /\ maxCount'[web] = setting.count
        /\ \A d \in Device : d # web => maxCount'[d] = maxCount[d]
    BY <1>1 DEF SetReadBmsFunktion, TypeOK
  <2>3. /\ mixed'[web] = (mixed[web] \/ (streak[web] > 0 /\ maxCount'[web] # maxCount[web]))
        /\ \A d \in Device : d # web => mixed'[d] = mixed[d]
    <3> DEFINE b == mixed[web] \/ (streak[web] > 0 /\ maxCount'[web] # maxCount[web])
    <3>1. b \in BOOLEAN  BY Zenon
    <3>2. mixed' = [mixed EXCEPT ![web] = b]  BY Zenon DEF RecordCount
    <3>3. mixed \in [Device -> BOOLEAN]  BY DEF HistoryTypeOK
    <3> HIDE DEF b
    <3>4. mixed'[web] = b /\ \A d \in Device : d # web => mixed'[d] = mixed[d]
      BY <1>1, <3>1, <3>2, <3>3, FlagSet, Zenon
    <3> QED  BY <3>4, Zenon DEF b
  <2> QED  BY <2>1, <2>2, <2>3
<1>3. ASSUME NEW d \in Device, ~mixed'[d]
      PROVE  ~mixed[d] /\ (maxCount'[d] = maxCount[d] \/ streak[d] = 0)
  <2>1. CASE d # web  BY <1>2, <1>3, <2>1, Zenon
  <2>2. CASE d = web
    <3>1. ~mixed[web] /\ (~(streak[web] > 0) \/ maxCount'[web] = maxCount[web])
      BY <1>2, <1>3, <2>2, Zenon
    <3>2. ~(streak[web] > 0) => streak[web] = 0  BY <1>1
    <3> QED  BY <2>2, <3>1, <3>2, Zenon
  <2> QED  BY <2>1, <2>2
<1>4. ASSUME NEW d \in Device, streak[d] = 0
      PROVE  Counter(d) = 0 /\ Counter(d)' = 0 /\ streak[d] <= maxCount[d] /\ streak'[d] <= maxCount'[d]
  <2>1. maxCount[d] \in 1 .. CountTop /\ maxCount'[d] \in 1 .. CountTop /\ streak'[d] = 0
    BY <1>1, <1>2, <1>4 DEF TypeOK
  <2>2. 0 < maxCount[d] /\ 0 < maxCount'[d]  BY <1>1, <2>1
  <2>3. 0 <= maxCount[d] /\ 0 <= maxCount'[d]  BY <1>1, <2>1
  <2> QED  BY <1>4, <2>1, <2>2, <2>3 DEF Counter
<1>5. \A d \in Device : ~mixed'[d] => err'[d] = Counter(d)'
  BY <1>2, <1>3, <1>4 DEF CountInv, Counter
<1>6. ErrorsCounted'
  <2> SUFFICES ASSUME pc = "check", ~mixed'[i] PROVE Judged(i)'
    BY <1>2 DEF ErrorsCounted, Judged
  <2>1. i \in Device  BY DEF TypeOK
  <2>2. online[i] <=> ok /\ streak[i] <= maxCount[i]
    BY <1>3, <2>1 DEF CountInv, ErrorsCounted, Judged
  <2>3. CASE maxCount'[i] = maxCount[i]
    BY <1>2, <2>2, <2>3 DEF Judged
  <2>4. CASE streak[i] = 0
    BY <1>2, <1>4, <2>1, <2>2, <2>4 DEF Judged
  <2> QED  BY <1>3, <2>1, <2>3, <2>4
<1> QED  BY <1>5, <1>6 DEF CountInv

LEMMA CountStep ==
  ASSUME TypeOK, HistoryTypeOK, CountInv, [HNext]_hvars
  PROVE  CountInv'
<1>1. CASE Judge /\ RecordPass  BY <1>1, JudgeCount
<1>2. CASE SetReadBmsFunktion /\ RecordCount  BY <1>2, SetCount
<1>3. CASE HRead
  <2>1. UNCHANGED <<maxCount, err, streak, mixed>> /\ pc' # "check"
    BY <1>3
    DEF HRead, JbdBasic, JbdCells, JkRead, RecordBasic, RecordJk, config, history
  <2> QED  BY <2>1, CountKept
<1>4. CASE (StartPass \/ SkipDevice \/ BeginDevice \/ CallDriver \/ Check) /\ UNCHANGED history
  <2>1. UNCHANGED <<maxCount, err, streak, mixed>> /\ pc' # "check"
    BY <1>4
    DEF StartPass, SkipDevice, BeginDevice, CallDriver, Check, NextDevice, config, history
  <2> QED  BY <2>1, CountKept
<1>5. CASE (SaveSetting \/ SetPercent) /\ UNCHANGED history
  <2>1. UNCHANGED <<maxCount, err, streak, mixed, pc, i, online, ok>>
    BY <1>5 DEF SaveSetting, SetPercent, history, judged, local
  <2> QED  BY <2>1, CountKept
<1>6. CASE UNCHANGED hvars
  <2>1. UNCHANGED <<maxCount, err, streak, mixed, pc, i, online, ok>>
    BY <1>6 DEF hvars, vars, history, config, judged, local
  <2> QED  BY <2>1, CountKept
<1> QED  BY <1>1, <1>2, <1>3, <1>4, <1>5, <1>6 DEF HNext, HCyclicRun

(* A device is online after a pass exactly if it has answered and no more  *)
(* consecutive passes had a rejected voltage than are tolerated.           *)
(* (BscSerial.cpp:356-428)                                                 *)
THEOREM SerialErrorsCounted == HSpec => []ErrorsCounted
<1> DEFINE Inv == TypeOK /\ HistoryTypeOK /\ CountInv
<1>1. HInit => Inv
  <2> SUFFICES ASSUME HInit PROVE Inv
    OBVIOUS
  <2>1. TypeOK /\ HistoryTypeOK  BY HistoryInit
  <2>2. \A d \in Device : maxCount[d] \in 1 .. CountTop /\ streak[d] = 0 /\ err[d] = 0
    BY <2>1 DEF TypeOK, HInit, Init
  <2>3. \A d \in Device : err[d] = Counter(d)
    BY <2>2, SizeAssumption DEF Counter
  <2>4. ErrorsCounted  BY DEF HInit, Init, ErrorsCounted
  <2> QED  BY <2>1, <2>3, <2>4 DEF CountInv
<1>2. Inv /\ [HNext]_hvars => Inv'  BY HistoryStep, CountStep
<1>3. Inv => ErrorsCounted  BY DEF CountInv
<1> QED  BY <1>1, <1>2, <1>3, PTL DEF HSpec

-----------------------------------------------------------------------------
(* The full battery.                                                       *)

FullInv ==
  \A d \in Device : (soc[d] = 100 => sawFull[d]) /\ (reached[d] => sawFull[d])

LEMMA ChargeFull ==
  ASSUME TypeOK, HistoryTypeOK, FullInv, NEW answer \in Answers, NEW hi \in Volt, NEW lo \in Volt,
         SetChargePercentage(answer.soc, hi, lo),
         sawFull' = [sawFull EXCEPT ![i] = Full(hi, lo) \/ (answer.soc = 100 /\ @)]
  PROVE  FullInv'
<1>1. i \in Device /\ answer.soc \in 0 .. 100  BY AnswerIs DEF TypeOK
<1>2. /\ soc'[i] = Corrected(answer.soc, hi, lo)
      /\ reached'[i] = (Reaches(answer.soc, hi) \/ (answer.soc = 100 /\ reached[i]))
      /\ sawFull'[i] = (Full(hi, lo) \/ (answer.soc = 100 /\ sawFull[i]))
      /\ \A d \in Device : d # i =>
           soc'[d] = soc[d] /\ reached'[d] = reached[d] /\ sawFull'[d] = sawFull[d]
  BY <1>1 DEF SetChargePercentage, TypeOK, HistoryTypeOK
<1>3. Reaches(answer.soc, hi) => Full(hi, lo) \/ (answer.soc = 100 /\ reached[i])
  BY DEF Reaches, Full
<1>4. reached[i] => sawFull[i]  BY <1>1 DEF FullInv
<1>5. soc'[i] = 100 => Full(hi, lo) \/ Reaches(answer.soc, hi)
  <2>1. Corrected(answer.soc, hi, lo) = 100 => Full(hi, lo) \/ Reaches(answer.soc, hi)
    BY <1>1, CorrectedIs
  <2> QED  BY <1>2, <2>1, Zenon
<1>6. (soc'[i] = 100 => sawFull'[i]) /\ (reached'[i] => sawFull'[i])
  <2>1. Reaches(answer.soc, hi) => sawFull'[i]  BY <1>2, <1>3, <1>4, Zenon
  <2> QED  BY <1>2, <1>4, <1>5, <2>1, Zenon
<1>7. ASSUME NEW d \in Device, d # i
      PROVE  (soc'[d] = 100 => sawFull'[d]) /\ (reached'[d] => sawFull'[d])
  BY <1>2, <1>7, Zenon DEF FullInv
<1> QED  BY <1>6, <1>7, Zenon DEF FullInv

LEMMA FullStep ==
  ASSUME TypeOK, HistoryTypeOK, FullInv, [HNext]_hvars
  PROVE  FullInv'
<1>1. CASE UNCHANGED <<soc, reached, sawFull>>
  BY <1>1 DEF FullInv
<1>2. ASSUME NEW answer \in Answers \cup {NoAnswer}, JbdBasic(answer), RecordBasic(answer)
      PROVE  FullInv'
  <2>1. CASE answer = NoAnswer \/ Dropped(answer)
    BY <1>1, <1>2, <2>1 DEF JbdBasic, RecordBasic, charge, history
  <2>2. CASE answer # NoAnswer /\ ~Dropped(answer)
    <3>1. /\ answer \in Answers
          /\ SetChargePercentage(answer.soc, maxCell[i], minCell[i])
          /\ sawFull' = [sawFull EXCEPT ![i] =
               Full(maxCell[i], minCell[i]) \/ (answer.soc = 100 /\ @)]
      BY <1>2, <2>2 DEF JbdBasic, RecordBasic
    <3>2. maxCell[i] \in Volt /\ minCell[i] \in Volt  BY DEF TypeOK
    <3> QED  BY <3>1, <3>2, ChargeFull
  <2> QED  BY <2>1, <2>2
<1>3. ASSUME NEW answer \in Answers \cup {NoAnswer}, JkRead(answer), RecordJk(answer)
      PROVE  FullInv'
  <2>1. CASE answer = NoAnswer
    BY <1>1, <1>3, <2>1 DEF JkRead, RecordJk, charge
  <2>2. CASE answer # NoAnswer
    <3>1. /\ answer \in Answers /\ StoreCells(answer.cell, Reading)
          /\ SetChargePercentage(answer.soc, maxCell'[i], minCell'[i])
          /\ sawFull' = [sawFull EXCEPT ![i] =
               Full(maxCell'[i], minCell'[i]) \/ (answer.soc = 100 /\ @)]
      BY <1>3, <2>2 DEF JkRead, RecordJk
    <3>2. maxCell'[i] \in Volt /\ minCell'[i] \in Volt
      BY <3>1, StoreType DEF TypeOK
    <3> QED  BY <3>1, <3>2, ChargeFull
  <2> QED  BY <2>1, <2>2
<1>4. CASE UNCHANGED history /\ \E answer \in Answers \cup {NoAnswer} : JbdCells(answer)
  BY <1>1, <1>4, Zenon DEF JbdCells, charge, history
<1>5. CASE Judge /\ RecordPass
  BY <1>1, <1>5, Zenon DEF Judge, RecordPass, charge
<1>6. CASE (StartPass \/ SkipDevice \/ BeginDevice \/ CallDriver \/ Check) /\ UNCHANGED history
  BY <1>1, <1>6, Zenon
  DEF StartPass, SkipDevice, BeginDevice, CallDriver, Check, charge, history
<1>7. CASE SetReadBmsFunktion /\ RecordCount
  BY <1>1, <1>7, Zenon DEF SetReadBmsFunktion, RecordCount, charge
<1>8. CASE (SaveSetting \/ SetPercent) /\ UNCHANGED history
  BY <1>1, <1>8, Zenon DEF SaveSetting, SetPercent, charge, history
<1>9. CASE UNCHANGED hvars
  BY <1>1, <1>9, Zenon DEF hvars, vars, charge, history
<1> QED
  BY <1>2, <1>3, <1>4, <1>5, <1>6, <1>7, <1>8, <1>9, Zenon DEF HNext, HCyclicRun, HRead

(* With a voltage set for 100 %, or none, a battery counts as full only if *)
(* a cell has been as high since the BMS last reported less, or no cell is *)
(* shown: rounding in the linear formula never makes it full.              *)
(* (BmsData.cpp:327-362)                                                   *)
THEOREM SerialFullWhenReached == HSpec => []FullWhenReached
<1> DEFINE Inv == TypeOK /\ HistoryTypeOK /\ FullInv
<1>1. HInit => Inv
  BY HistoryInit DEF HInit, Init, FullInv
<1>2. Inv /\ [HNext]_hvars => Inv'  BY HistoryStep, FullStep
<1>3. Inv => FullWhenReached  BY DEF FullInv, FullWhenReached
<1> QED  BY <1>1, <1>2, <1>3, PTL DEF HSpec

-----------------------------------------------------------------------------
(* The frozen device.                                                      *)

LEMMA FrozenStep ==
  ASSUME TypeOK, [HNext]_hvars,
         NEW d \in Device, Frozen(d), ~Frozen(d)'
  PROVE  cell[d] # crc[d]
<1>1. /\ i \in Device /\ unchanged \in [Device -> 0 .. CyclesTop]
      /\ Cycles \in Nat /\ CyclesTop \in Nat
  BY SizeAssumption DEF TypeOK
<1>2. unchanged' # unchanged  BY DEF Frozen
<1>3. Check
  <2>1. [Next]_vars  BY HStepIsStep
  <2>2. ASSUME Next, ~Check PROVE unchanged' = unchanged
    <3>1. CASE Web
      BY <3>1, Zenon DEF Web, SaveSetting, SetReadBmsFunktion, SetPercent, judged
    <3>2. CASE Read
      BY <3>2, Zenon DEF Read, JbdBasic, JbdCells, JkRead, judged
    <3>3. CASE StartPass \/ SkipDevice \/ BeginDevice \/ CallDriver \/ Judge
      BY <3>3, Zenon DEF StartPass, SkipDevice, BeginDevice, CallDriver, Judge, judged
    <3> QED  BY <2>2, <3>1, <3>2, <3>3 DEF Next, CyclicRun
  <2>3. UNCHANGED vars => unchanged' = unchanged  BY Zenon DEF vars, judged
  <2> QED  BY <1>2, <2>1, <2>2, <2>3
<1>4. setting.check /\ CountUnchanged  BY <1>2, <1>3 DEF Check
<1>5. i = d
  BY <1>1, <1>4 DEF CountUnchanged, Frozen
<1>6. SUFFICES ASSUME cell[d] = crc[d] PROVE FALSE
  OBVIOUS
<1>7. unchanged'[d] = IF unchanged[d] < CyclesTop THEN unchanged[d] + 1 ELSE unchanged[d]
  BY <1>1, <1>4, <1>5, <1>6 DEF CountUnchanged
<1>8. unchanged'[d] >= unchanged[d] /\ unchanged'[d] \in Nat  BY <1>1, <1>7
<1> QED  BY <1>1, <1>8 DEF Frozen

(* A device whose voltages do not change stays reported until they have    *)
(* changed: the 8 bit counter stops at its end.  (BscSerial.cpp:441-475)   *)
THEOREM SerialFrozenStays == HSpec => FrozenStays
<1>1. HInit => TypeOK  BY HistoryInit
<1>2. TypeOK /\ [HNext]_hvars => TypeOK'  BY HStepIsStep, SerialNextType
<1>3. TypeOK /\ [HNext]_hvars =>
        [\A d \in Device : Frozen(d) /\ ~Frozen(d)' => cell[d] # crc[d]]_hvars
  BY FrozenStep
<1> QED  BY <1>1, <1>2, <1>3, PTL DEF HSpec, FrozenStays

-----------------------------------------------------------------------------
(* The total voltage that the JBD driver keeps once for all devices.       *)

(* No setting makes any other port than that of d a JBD-BMS.               *)
OnlyJbd(d) == \A s \in Settings, e \in Device : s.fn[e] = "jbd" => e = d

OnlyJbdInv(d) ==
  /\ own \in [Device -> Nat] /\ own[d] = totalOld
  /\ \A e \in Device : readBms[e] = "jbd" => e = d
  /\ pc = "basic" => i = d

LEMMA OnlyJbdStep ==
  ASSUME TypeOK, NEW d \in Device, OnlyJbd(d), OnlyJbdInv(d), [HNext]_hvars
  PROVE  OnlyJbdInv(d)'
<1>1. CASE UNCHANGED <<own, totalOld, readBms, pc, i>>
  BY <1>1 DEF OnlyJbdInv
<1>2. ASSUME NEW answer \in Answers \cup {NoAnswer}, JbdBasic(answer), RecordBasic(answer)
      PROVE  OnlyJbdInv(d)'
  <2>1. i = d /\ pc' = "cells" /\ readBms' = readBms
    BY <1>2 DEF JbdBasic, OnlyJbdInv, config
  <2>2. CASE answer = NoAnswer
    <3>1. own' = own /\ totalOld' = totalOld
      BY <1>2, <2>2 DEF JbdBasic, RecordBasic, history
    <3> QED  BY <2>1, <3>1 DEF OnlyJbdInv
  <2>3. CASE answer # NoAnswer
    <3>1. answer.total \in Nat  BY <2>3, AnswerIs
    <3>2. own' = [own EXCEPT ![i] = answer.total] /\ totalOld' = answer.total
      BY <1>2, <2>3 DEF JbdBasic, RecordBasic
    <3> QED  BY <2>1, <3>1, <3>2 DEF OnlyJbdInv
  <2> QED  BY <2>2, <2>3
<1>3. ASSUME UNCHANGED <<own, totalOld, readBms>>, pc' # "basic"
      PROVE  OnlyJbdInv(d)'
  BY <1>3 DEF OnlyJbdInv
<1>4. ASSUME NEW answer \in Answers \cup {NoAnswer},
             \/ JbdCells(answer) /\ UNCHANGED history
             \/ JkRead(answer) /\ RecordJk(answer)
      PROVE  OnlyJbdInv(d)'
  <2>1. pc' = "judge" /\ UNCHANGED <<own, totalOld, readBms>>
    BY <1>4, Zenon DEF JbdCells, JkRead, RecordJk, config, history
  <2> QED  BY <1>3, <2>1
<1>5. CASE Judge /\ RecordPass
  <2>1. pc' = "check" /\ UNCHANGED <<own, totalOld, readBms>>
    BY <1>5, Zenon DEF Judge, RecordPass, config
  <2> QED  BY <1>3, <2>1
<1>6. CASE (StartPass \/ SkipDevice \/ BeginDevice \/ Check) /\ UNCHANGED history
  <2>1. UNCHANGED <<own, totalOld, readBms>>
    BY <1>6, Zenon DEF StartPass, SkipDevice, BeginDevice, Check, config, history
  <2>2. pc' \in {"device", "call", "wait"}
    BY <1>6 DEF StartPass, SkipDevice, BeginDevice, Check, NextDevice
  <2> QED  BY <1>3, <2>1, <2>2
<1>7. CASE CallDriver /\ UNCHANGED history
  <2>1. UNCHANGED <<own, totalOld, readBms, i>>
    BY <1>7, Zenon DEF CallDriver, config, history
  <2>2. pc' = "basic" => readBms[i] = "jbd"
    BY <1>7 DEF CallDriver
  <2>3. i \in Device  BY DEF TypeOK
  <2> QED  BY <2>1, <2>2, <2>3 DEF OnlyJbdInv
<1>8. CASE SetReadBmsFunktion /\ RecordCount
  <2>1. UNCHANGED <<own, totalOld, pc, i>>
    BY <1>8, Zenon DEF SetReadBmsFunktion, RecordCount, local
  <2>2. web \in Device /\ readBms' = [readBms EXCEPT ![web] = setting.fn[web]]
    BY <1>8 DEF SetReadBmsFunktion
  <2>3. setting \in Settings /\ readBms \in [Device -> Function]
    BY DEF TypeOK
  <2>4. \A e \in Device : readBms'[e] = "jbd" => e = d
    BY <2>2, <2>3 DEF OnlyJbd, OnlyJbdInv
  <2> QED  BY <2>1, <2>4 DEF OnlyJbdInv
<1>9. CASE (SaveSetting \/ SetPercent) /\ UNCHANGED history
  BY <1>1, <1>9, Zenon DEF SaveSetting, SetPercent, history, local
<1>10. CASE UNCHANGED hvars
  BY <1>1, <1>10, Zenon DEF hvars, vars, history, config, local
<1> QED
  BY <1>2, <1>4, <1>5, <1>6, <1>7, <1>8, <1>9, <1>10, Zenon
  DEF HNext, HCyclicRun, HRead

(* With one JBD-BMS the driver does what its message says: it drops a      *)
(* basic message only when the battery it is about has lost more than 10 % *)
(* of its voltage.  With two it does not, which the run serial_mixed       *)
(* shows.  (JbdBms.cpp:198-202)                                            *)
THEOREM OneJbdDropsOnFall ==
  ASSUME NEW d \in Device, OnlyJbd(d)
  PROVE  HSpec => DroppedOnFall
<1> DEFINE Inv == TypeOK /\ OnlyJbdInv(d)
           Drops == \A answer \in Answers :
                      JbdBasic(answer) /\ Dropped(answer) => 10 * answer.total < 9 * own[i]
<1>1. HInit => Inv
  <2> SUFFICES ASSUME HInit PROVE OnlyJbdInv(d)
    BY HistoryInit
  <2>1. Unset \in Nat  BY DEF Unset
  <2>2. own \in [Device -> Nat] /\ own[d] = totalOld /\ pc # "basic"
    BY <2>1 DEF HInit, Init
  <2>3. \A e \in Device : readBms[e] = "jbd" => e = d
    BY DEF HInit, Init, OnlyJbd
  <2> QED  BY <2>2, <2>3 DEF OnlyJbdInv
<1>2. Inv /\ [HNext]_hvars => Inv'
  BY HStepIsStep, SerialNextType, OnlyJbdStep
<1>3. Inv => Drops
  <2> SUFFICES ASSUME OnlyJbdInv(d), NEW answer \in Answers,
                      JbdBasic(answer), Dropped(answer)
               PROVE  10 * answer.total < 9 * own[i]
    BY DEF Drops
  <2> QED  BY DEF OnlyJbdInv, JbdBasic, Dropped
<1>4. Inv /\ [HNext]_hvars => [Drops]_hvars  BY <1>3
<1> HIDE DEF Inv, Drops
<1>5. HSpec => [][Drops]_hvars  BY <1>1, <1>2, <1>4, PTL DEF HSpec
<1> QED  BY <1>5 DEF DroppedOnFall, Drops
=============================================================================

---------------------------- MODULE SerialHistory ----------------------------
(* SerialBms with what has happened to each device so far: how often       *)
(* readings were rejected, and what led to a full battery.  The settings   *)
(* are saved at most MaySave times.                                        *)
EXTENDS SerialBms

CONSTANT MaySave

ASSUME SaveAssumption == MaySave \in Nat

VARIABLES
  streak,   (* consecutive passes in which a cell voltage was rejected     *)
  mixed,    (* the number tolerated has been set again meanwhile           *)
  sawFull,  (* since the BMS last reported less than 100 %, or has just    *)
            (* then, a cell was as high as the setting says, or none shown *)
  own,      (* the total voltage last reported by the device itself        *)
  saves     (* how often the settings have been saved                      *)

history == <<streak, mixed, sawFull, own>>
hvars   == <<vars, history, saves>>

HInit ==
  /\ Init
  /\ streak = [d \in Device |-> 0] /\ mixed = [d \in Device |-> FALSE]
  /\ sawFull = [d \in Device |-> FALSE]
  /\ own = [d \in Device |-> Unset] /\ saves = 0

RecordCount ==
  /\ mixed' = [mixed EXCEPT ![web] = @ \/ (streak[web] > 0 /\ maxCount'[web] # maxCount[web])]
  /\ UNCHANGED <<streak, sawFull, own>>

(* A voltage that has just been saved counts as well.                      *)
Full(hi, lo) == lo > hi \/ (setting.soc100[i] > 0 /\ hi >= setting.soc100[i])

RecordBasic(answer) ==
  IF answer = NoAnswer THEN UNCHANGED history
  ELSE
    /\ own' = [own EXCEPT ![i] = answer.total]
    /\ sawFull' = IF Dropped(answer) THEN sawFull ELSE [sawFull EXCEPT ![i] =
         Full(maxCell[i], minCell[i]) \/ (answer.soc = 100 /\ @)]
    /\ UNCHANGED <<streak, mixed>>

RecordJk(answer) ==
  /\ sawFull' = IF answer = NoAnswer THEN sawFull ELSE [sawFull EXCEPT ![i] =
       Full(maxCell'[i], minCell'[i]) \/ (answer.soc = 100 /\ @)]
  /\ UNCHANGED <<streak, mixed, own>>

RecordPass ==
  /\ streak' = [streak EXCEPT ![i] =
       IF ~rejected[i] THEN 0 ELSE IF @ <= CountTop THEN @ + 1 ELSE @]
  /\ mixed' = [mixed EXCEPT ![i] = @ /\ rejected[i]]
  /\ UNCHANGED <<sawFull, own>>

HRead == \E answer \in Answers \cup {NoAnswer} :
  \/ JbdBasic(answer) /\ RecordBasic(answer)
  \/ JbdCells(answer) /\ UNCHANGED history
  \/ JkRead(answer) /\ RecordJk(answer)

HCyclicRun ==
  \/ HRead
  \/ Judge /\ RecordPass
  \/ (StartPass \/ SkipDevice \/ BeginDevice \/ CallDriver \/ Check) /\ UNCHANGED history

HNext ==
  \/ HCyclicRun /\ UNCHANGED saves
  \/ SaveSetting /\ saves < MaySave /\ saves' = saves + 1 /\ UNCHANGED history
  \/ SetReadBmsFunktion /\ RecordCount /\ UNCHANGED saves
  \/ SetPercent /\ UNCHANGED <<history, saves>>

HSpec == HInit /\ [][HNext]_hvars

(* task_bscSerial() calls cyclicRun() once a second, whatever the web      *)
(* server does.                                                            *)
FairHSpec == HSpec /\ WF_hvars(HCyclicRun /\ UNCHANGED saves)
-----------------------------------------------------------------------------

(* "Gibt an, nach wievielen fehlerhaften Paketen es als Fehler bewertet     *)
(* wird": a device counts as online after a pass exactly if it has         *)
(* answered completely and at most the number tolerated of consecutive     *)
(* passes, this one included, had a rejected voltage.                      *)
(* (BscSerial.cpp:356-428, params.h:15)                                    *)
Judged(d) == online[d] <=> ok /\ streak[d] <= maxCount[d]

ErrorsCounted == pc = "check" /\ ~mixed[i] => Judged(i)

(* A device whose cell voltages do not change any more is reported to the  *)
(* alarm rules, and stays so until they have changed: the 8 bit counter    *)
(* does not start again.  (BscSerial.cpp:441-475, AlarmRules.cpp:915)      *)
Frozen(d) == unchanged[d] > Cycles

FrozenStays ==
  [][\A d \in Device : Frozen(d) /\ ~Frozen(d)' => cell[d] # crc[d]]_hvars

FrozenNoticed ==
  \A d \in Device :
    <>[](setting.check /\ readBms[d] # "none") /\ <>[][cell'[d] = cell[d]]_hvars
      => <>[]Frozen(d)

(* With a voltage set for 100 %, or none, the battery counts as full only  *)
(* if a cell has been as high since the BMS last reported less: neither    *)
(* the linear formula nor the BMS alone makes it full.  A reading that     *)
(* shows no cell at all is the exception.  (BmsData.cpp:327-362)           *)
FullWhenReached == \A d \in Device : soc[d] = 100 => sawFull[d]

(* "Batteriespannung mehr als 10% gegenueber der letzten Messung gesunken": *)
(* a basic message is dropped because the battery it is about has lost     *)
(* voltage.  (JbdBms.cpp:198-202)                                          *)
DroppedOnFall ==
  [][\A answer \in Answers :
       JbdBasic(answer) /\ Dropped(answer) => 10 * answer.total < 9 * own[i]]_hvars
=============================================================================

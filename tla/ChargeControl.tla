--------------------------- MODULE ChargeControl ---------------------------
(***************************************************************************)
(* What the CAN task tells the inverter (src/src/Canbus.cpp): once a       *)
(* second canTxCyclicRun() sends the limits of the charge and discharge    *)
(* current and of the charge voltage (message 351), the state of charge    *)
(* (355) and the battery current (356), each computed from what the BMS    *)
(* report, from the settings and from what the last cycle has sent.        *)
(*                                                                         *)
(* A step builds one message.  Between two of them the tasks of the BMS    *)
(* store new readings or fall silent, the alarm task sets or lifts its     *)
(* limits and the web server saves settings; loadCanSettings(), which the  *)
(* web server calls, changes the sources of the running task write by      *)
(* write.  Currents are in A, battery currents in 0.1 A, cell voltages in  *)
(* mV, the charge voltage in 0.1 V, times in cycles.                       *)
(***************************************************************************)
EXTENDS ChargeLimits, FiniteSetsExt

CONSTANTS
  Pack,      (* numbers of the BMS; a serial one has at least FirstSerial  *)
  Readings,  (* what a BMS may report                                      *)
  Alarms,    (* the limits that the alarm rules are set up to apply        *)
  Families   (* sets of settings; a user changes only within one           *)

FirstSerial == 7                 \* BMSDATA_FIRST_DEV_SERIAL
Serial == {p \in Pack : p >= FirstSerial}
Limit  == {"charge", "discharge", "socFull"}
NoCell == 65535                  \* getMinCellSpannungFromBms(): nothing online
Unset  == 65536                  \* the static charge voltage has no value yet
Word   == 0 .. Unset - 1         \* uint16_t
Uint16(i) == i % Unset           \* what an assignment to it keeps

Reading == [max : Nat, min : Nat, diff : Nat, soc : 0 .. 100, amp : Int,
            error : BOOLEAN, charge : BOOLEAN, discharge : BOOLEAN]

(* What RAM holds of a BMS before its first report.                        *)
Blank == [max |-> 0, min |-> 0, diff |-> 0, soc |-> 0, amp |-> 0,
          error |-> FALSE, charge |-> FALSE, discharge |-> FALSE]

Hour        == 3600              \* the longest lock time
CutRule     == [time : Nat, current : Nat, soc : Nat]
RefillRule  == [on : BOOLEAN, start : Nat, end : Nat, soc : 0 .. 100, time : 0 .. Hour]
VoltageRule == [on : BOOLEAN, max : Word, cell : Nat, delta : Nat]

Settings ==
  [enable        : BOOLEAN,
   source        : Pack,                 \* the master
   sources       : SUBSET Serial,        \* the additional ones
   max           : Nat,
   maxDischarge  : Nat,
   packCharge    : [Pack -> Nat],
   packDischarge : [Pack -> Nat],
   cell : CellRule, drift : DriftRule, soc : SocRule, discharge : CellRule,
   cut     : CutRule,
   socFrom : {"avg", "max", "bms"},
   socBms  : Pack,
   refill  : RefillRule,
   voltage : VoltageRule]

ASSUME PackAssumption == Pack \subseteq 0 .. 17 /\ Readings \subseteq Reading
ASSUME AlarmsAssumption == Alarms \subseteq Limit
ASSUME SettingsAssumption == Families \subseteq SUBSET Settings

VARIABLES
  cfg,        (* the settings in RAM                                       *)
  webPc,      (* where handle_paramBmsToInverter() is                      *)
  bms,        (* the last reading of every BMS                             *)
  online,     (* the BMS that reported within the last 5 s                 *)
  limited,    (* alarmSetChargeCurrentToZero and its two siblings          *)
  master,     (* u8_mBmsDatasource                                         *)
  added,      (* u8_mBmsDatasourceAdd                                      *)
  pc,         (* the message to be built next                              *)
  current,    (* i16_mMaxChargeCurrent                                     *)
  cutTimer,   (* u16_mChargeCurrentCutOfTimer                              *)
  dynVoltage, (* u16_lDynamicChargeVoltage                                 *)
  refill,     (* u8_mSocZellspannungState                                  *)
  lockTimer,  (* u16_mSocZellspannungSperrzeitTimer                        *)
  inverter    (* inverterData: state of charge, current, no pack online    *)

readings == <<bms, online>>
sourcing == <<master, added>>
control  == <<current, cutTimer, dynVoltage, refill, lockTimer>>
vars == <<cfg, webPc, readings, limited, sourcing, pc, control, inverter>>

TypeOK ==
  /\ cfg \in Settings /\ webPc \in {"idle", "saved", "filter", "clear"}
  /\ bms \in [Pack -> Reading] /\ online \subseteq Pack
  /\ limited \subseteq Alarms
  /\ master \in Pack /\ added \subseteq Serial
  /\ pc \in {"351", "355", "356"}
  /\ current \in Nat /\ cutTimer \in Nat /\ dynVoltage \in 0 .. Unset
  /\ refill \in {"wait", "below", "locked"} /\ lockTimer \in Word
  /\ inverter \in [soc : 0 .. 100, current : Int, noPack : BOOLEAN]

(* What the loop over an uninitialised index may select: it starts at any  *)
(* number and leaves out the sources below.                                *)
Filtered == {{p \in cfg.sources : p >= FirstSerial + i} : i \in 0 .. 11}

(* canSetup(), before the first cycle.  The times of the last reports are  *)
(* 0, so that every BMS counts as online until 5 s have passed.            *)
Setup ==
  /\ pc = "351" /\ webPc = "idle"
  /\ master = cfg.source
  /\ added \in {S \ {cfg.source} : S \in Filtered}
  /\ bms = [p \in Pack |-> Blank] /\ online = Pack /\ limited = {}
  /\ current = 0 /\ cutTimer = 0 /\ dynVoltage = Unset
  /\ refill = "wait" /\ lockTimer = 0
  /\ inverter = [soc |-> 0, current |-> 0, noPack |-> TRUE]

Init == cfg \in UNION Families /\ Setup

-----------------------------------------------------------------------------
(* The other tasks.                                                        *)

Report ==
  /\ \E p \in Pack, r \in Readings :
       bms' = [bms EXCEPT ![p] = r] /\ online' = online \cup {p}
  /\ UNCHANGED <<cfg, webPc, limited, sourcing, pc, control, inverter>>

FallSilent ==
  /\ \E p \in online : online' = online \ {p}
  /\ UNCHANGED <<cfg, webPc, bms, limited, sourcing, pc, control, inverter>>

SetLimits ==
  /\ limited' \in SUBSET Alarms
  /\ UNCHANGED <<cfg, webPc, readings, sourcing, pc, control, inverter>>

SameFamily == UNION {F \in Families : \E c \in F : cfg = [c EXCEPT !.max = cfg.max]}

(* setInvMaxChgCur of the REST interface.                                  *)
SetMaxCharge ==
  /\ \E c \in SameFamily : cfg' = [cfg EXCEPT !.max = c.max]
  /\ UNCHANGED <<webPc, readings, limited, sourcing, pc, control, inverter>>

SaveSettings ==
  /\ webPc = "idle" /\ webPc' = "saved"
  /\ cfg' \in SameFamily
  /\ UNCHANGED <<readings, limited, sourcing, pc, control, inverter>>

(* loadCanSettings(): the master; the sources, that may hold the master;   *)
(* the sources without the master.                                         *)
LoadMaster ==
  /\ webPc = "saved" /\ webPc' = "filter"
  /\ master' = cfg.source
  /\ inverter' = [inverter EXCEPT !.noPack = TRUE]
  /\ UNCHANGED <<cfg, readings, limited, added, pc, control>>

LoadAdded ==
  /\ webPc = "filter" /\ webPc' = "clear"
  /\ added' \in Filtered
  /\ UNCHANGED <<cfg, readings, limited, master, pc, control, inverter>>

ClearMaster ==
  /\ webPc = "clear" /\ webPc' = "idle"
  /\ added' = added \ {master}
  /\ UNCHANGED <<cfg, readings, limited, master, pc, control, inverter>>

-----------------------------------------------------------------------------
(* Message 351.                                                            *)

Sources == {master} \cup added
Online  == Sources \cap online
Seen    == {master} \cup Online       \* the master counts while silent, too

MaxCell == Max({bms[p].max : p \in Seen})
MaxDiff == Max({bms[p].diff : p \in Seen})
MinCell == Min({bms[p].min : p \in Online} \cup {NoCell})

(* With additional sources the packs that are fit share out the maximum.   *)
Charging    == {p \in Online \cap Serial : ~bms[p].error /\ bms[p].charge}
Discharging == {p \in Online \cap Serial : ~bms[p].error /\ bms[p].discharge}
Total(of, S) == MapThenSumSet(LAMBDA p : of[p], S)

PackMax(max, amps, S) == IF added = {} THEN max ELSE Min({max, Total(amps, S)})
MaxCharge    == PackMax(cfg.max, cfg.packCharge, Charging)
MaxDischarge == PackMax(cfg.maxDischarge, cfg.packDischarge, Discharging)

(* The charging is cut off when the current has been low for long enough,  *)
(* until the state of charge falls.  Mutant: only at exactly the           *)
(* configured state of charge.                                             *)
CutOff == cfg.cut.time > 0 /\ cutTimer >= cfg.cut.time
CutLimitAbove(max) == IF CutOff /\ inverter.soc > cfg.cut.soc THEN 0 ELSE max
CutLimit(max) == IF CutOff /\ inverter.soc >= cfg.cut.soc THEN 0 ELSE max

Truncated(deciAmp) == IF deciAmp < 0 THEN -((-deciAmp) \div 10) ELSE deciAmp \div 10
Low == Truncated(inverter.current) * 10 < cfg.cut.current

NextCutTimer ==
  IF cfg.cut.time = 0 THEN cutTimer
  ELSE IF inverter.soc < cfg.cut.soc THEN 0
  ELSE IF CutOff THEN cutTimer
  ELSE IF Low THEN cutTimer + 1 ELSE 0

Target ==
  Min({MaxCharge,
       CellLimit(cfg.cell, MaxCharge, MaxCell),
       SocLimit(cfg.soc, MaxCharge, inverter.soc),
       DriftLimit(cfg.drift, MaxCharge, MaxDiff, MaxCell),
       CutLimit(MaxCharge)})

(* A lower target is approached in steps that get smaller, a higher one in *)
(* steps of at most 10 A.  Mutant: the target counts as lower.             *)
Step == IF current >= 50 THEN 10 ELSE IF current >= 25 THEN 5
        ELSE IF current >= 10 THEN 3 ELSE 1

RampedAtTarget(target) ==
  IF target <= current THEN AtLeast0(current - Step) ELSE Min({target, current + 10})
Ramped(target) ==
  IF target < current THEN AtLeast0(current - Step) ELSE Min({target, current + 10})

(* The charge voltage is lowered by 0.1 V a cycle while the cells drift    *)
(* apart, and raised again.                                                *)
Dynamic == IF dynVoltage = Unset THEN cfg.voltage.max ELSE dynVoltage
Drifting  == cfg.voltage.on /\ MaxCell > cfg.voltage.cell /\ MaxDiff > cfg.voltage.delta
Closing   == cfg.voltage.on /\ MaxCell > cfg.voltage.cell /\ MaxDiff < cfg.voltage.delta

NextVoltage ==
  CASE Drifting -> Uint16(Dynamic - 1)
    [] Closing  -> Min({Uint16(Dynamic + 1), cfg.voltage.max})
    [] OTHER    -> Dynamic

(* A division by zero resets the controller.                               *)
Trapped ==
  \/ "charge" \notin limited /\ CellLimitTraps(cfg.cell, MaxCharge, MaxCell)
  \/ "discharge" \notin limited
     /\ DischargeLimitTraps(cfg.discharge, MaxDischarge, MinCell)

(* What the message says.                                                  *)
ChargeSent == IF "charge" \in limited THEN 0 ELSE Ramped(Target)
DischargeSent ==
  IF "discharge" \in limited THEN 0
  ELSE DischargeLimit(cfg.discharge, MaxDischarge, MinCell)
VoltageSent == IF Drifting \/ Closing THEN NextVoltage ELSE cfg.voltage.max

Send351 ==
  /\ pc = "351" /\ cfg.enable /\ ~Trapped
  /\ pc' = "355"
  /\ dynVoltage' = NextVoltage
  /\ IF "charge" \in limited THEN UNCHANGED <<current, cutTimer>>
     ELSE current' = Ramped(Target) /\ cutTimer' = NextCutTimer
  /\ UNCHANGED <<cfg, webPc, readings, limited, sourcing, refill, lockTimer, inverter>>

-----------------------------------------------------------------------------
(* Message 355.                                                            *)

SocOf(p) == IF p \in online THEN bms[p].soc ELSE 0
Added  == added \cap online     \* may hold the master during a reload

(* Mutant: the master is added but not counted.                            *)
AverageMiscounted ==
  (SocOf(master) + Total([p \in Pack |-> SocOf(p)], Added)) \div Max({1, Cardinality(Added)})
Average == (SocOf(master) + Total([p \in Pack |-> SocOf(p)], Added))
             \div (Cardinality({master} \cap online) + Cardinality(Added))

(* Mutant: a BMS that has fallen silent counts.                            *)
PackSocSilent ==
  CASE added # {} /\ cfg.socFrom = "max" -> Max({bms[p].soc : p \in Sources})
    [] added # {} /\ cfg.socFrom = "avg" /\ Online # {} -> Average
    [] cfg.socFrom = "bms" /\ cfg.socBms \in online -> bms[cfg.socBms].soc
    [] OTHER -> SocOf(master)
PackSoc ==
  CASE added # {} /\ cfg.socFrom = "max" -> Max({SocOf(p) : p \in Sources})
    [] added # {} /\ cfg.socFrom = "avg" /\ Online # {} -> Average
    [] cfg.socFrom = "bms" /\ cfg.socBms \in online -> bms[cfg.socBms].soc
    [] OTHER -> SocOf(master)

(* getNewSocByMinCellVoltage(): below a cell voltage the inverter is told  *)
(* another state of charge, so that it recharges, until the end voltage is *)
(* passed; then a lock time runs before the next time.                     *)
EndVoltage == IF cfg.refill.end = 0 THEN cfg.refill.start ELSE cfg.refill.end

AwaitLow ==
  /\ refill = "wait"
  /\ refill' = IF MinCell <= cfg.refill.start THEN "below" ELSE "wait"
  /\ UNCHANGED lockTimer

AwaitEnd ==
  /\ refill = "below"
  /\ IF MinCell > EndVoltage
       THEN refill' = "locked" /\ lockTimer' = cfg.refill.time
       ELSE UNCHANGED <<refill, lockTimer>>

(* Mutants: the lock ends one cycle early; it is compared with 0 before it *)
(* is decremented.                                                         *)
LockEndsEarly(left) == left <= 1
LockEndsLate(left) == left = 65535
LockEnds(left) == left = 0

AwaitLock ==
  /\ refill = "locked"
  /\ LET left == IF lockTimer = 0 THEN 65535 ELSE lockTimer - 1
     IN lockTimer' = left /\ refill' = IF LockEnds(left) THEN "wait" ELSE "locked"

Refilling == cfg.refill.on /\ "socFull" \notin limited

Send355 ==
  /\ pc = "355" /\ pc' = "356"
  /\ IF Refilling THEN AwaitLow \/ AwaitEnd \/ AwaitLock
                  ELSE UNCHANGED <<refill, lockTimer>>
  /\ inverter' = [inverter EXCEPT !.soc =
       IF "socFull" \in limited THEN 100
       ELSE IF Refilling /\ refill = "below" THEN cfg.refill.soc ELSE PackSoc]
  /\ UNCHANGED <<cfg, webPc, readings, limited, sourcing, current, cutTimer,
                 dynVoltage>>

(* Message 356: the current of a silent master counts.                     *)
Send356 ==
  /\ pc = "356" /\ pc' = "351"
  /\ inverter' = [inverter EXCEPT
       !.current = bms[master].amp + Total([p \in Pack |-> bms[p].amp], Added),
       !.noPack  = (Online = {})]
  /\ UNCHANGED <<cfg, webPc, readings, limited, sourcing, control>>

(* The CAN bus is switched off.                                            *)
Disabled ==
  /\ pc = "351" /\ ~cfg.enable
  /\ inverter' = [inverter EXCEPT !.noPack = TRUE]
  /\ UNCHANGED <<cfg, webPc, readings, limited, sourcing, pc, control>>

Restart ==
  /\ pc' = "351" /\ webPc' = "idle"
  /\ master' = cfg.source
  /\ added' \in {S \ {cfg.source} : S \in Filtered}
  /\ bms' = [p \in Pack |-> Blank] /\ online' = Pack /\ limited' = {}
  /\ current' = 0 /\ cutTimer' = 0 /\ dynVoltage' = Unset
  /\ refill' = "wait" /\ lockTimer' = 0
  /\ inverter' = [soc |-> 0, current |-> 0, noPack |-> TRUE]
  /\ UNCHANGED cfg

CanStep == Send351 \/ Send355 \/ Send356 \/ Disabled
WebStep == SetMaxCharge \/ SaveSettings \/ LoadMaster \/ LoadAdded \/ ClearMaster
BmsStep == Report \/ FallSilent

Next == CanStep \/ WebStep \/ BmsStep \/ SetLimits \/ Restart

(* FreeRTOS wakes the CAN task every second; nobody else has to do         *)
(* anything.                                                               *)
Spec == Init /\ [][Next]_vars /\ WF_vars(CanStep)

-----------------------------------------------------------------------------
(* While the settings, the limits of the alarms and the readings call for  *)
(* the same charge current, the inverter is brought to it and kept there:  *)
(* the steps downwards, that may pass the target, and the steps upwards do *)
(* not chase each other.  (Canbus.cpp:600-649)                             *)
Calm == <>[][Target' = Target /\ ~Restart]_vars
Driven == <>[](cfg.enable /\ ~Trapped /\ "charge" \notin limited)
SettlesAtTarget == Calm /\ Driven => <>[](current = Target)

(* Once the charging is cut off it stays so, and the current never rises,  *)
(* until the state of charge that the inverter was told is below the       *)
(* configured one, whatever the BMS report, the alarms and a reload of the *)
(* sources do in between.  (Canbus.cpp:828-877)                            *)
CutOffHolds ==
  [][CutOff /\ inverter.soc >= cfg.cut.soc /\ cfg' = cfg /\ ~Restart
       => CutOff' /\ current' <= current]_vars

(* The state of charge that the inverter is told lies between those of the *)
(* packs that are online, unless an alarm or the recharging replaces it,   *)
(* and is 0 with none, also while the sources are being reloaded.          *)
(* (Canbus.cpp:1195-1225, 172-175)                                         *)
SocFromPacks ==
  [][Send355 /\ "socFull" \notin limited /\ ~(cfg.refill.on /\ refill = "below")
     /\ cfg.socFrom # "bms" =>
       IF Online = {} THEN inverter'.soc = 0
       ELSE \E p, q \in Online :
              bms[p].soc <= inverter'.soc /\ inverter'.soc <= bms[q].soc]_vars
=============================================================================

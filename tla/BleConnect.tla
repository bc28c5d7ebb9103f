----------------------------- MODULE BleConnect -----------------------------
(***************************************************************************)
(* The connections to the Bluetooth devices: class BleHandler of           *)
(* src/src/BleHandler.cpp.                                                 *)
(*                                                                         *)
(* Three kinds of threads share its state without a lock: the BLE task,    *)
(* which calls run() once a second, the host task of the Bluetooth stack,  *)
(* which calls onResult() and onDisconnect(), and the tasks of the WiFi,   *)
(* of the web server and of the alarm rules, which start, stop and ask.    *)
(* run() is split where one of them can come in between and matter.        *)
(*                                                                         *)
(* A slot is set up for one device and no two slots for the same device,   *)
(* so that a slot also names its device.                                   *)
(***************************************************************************)
EXTENDS Naturals

CONSTANTS
  NumSlots,   (* BT_DEVICES_COUNT                                          *)
  ScanTime,   (* BT_SCAN_AND_NOT_CONNECT_TIME, in runs                     *)
  Settings,   (* the settings of the slots a user may save                 *)
  Deactivated (* the sets of slots the deactivating triggers may select    *)

Slot    == 1 .. NumSlots
Kind    == {"neey", "jk"}
Setting == {"none", "noMac"} \cup Kind      \* "noMac": a type, but no address

ASSUME SlotAssumption == NumSlots \in Nat \ {0} /\ ScanTime \in Nat \ {0, 1}
ASSUME SlotSettingsAssumption ==
  /\ Settings # {} /\ Settings \subseteq [Slot -> Setting]
  /\ Deactivated # {} /\ Deactivated \subseteq SUBSET Slot

VARIABLES
  setting, off,    (* the settings; the slots a trigger deactivates        *)
  wifi, running,   (* WlanStaApOk # WIFI_OFF; bo_mBleHandlerRunning        *)
  scanning, radio, (* bo_mBtScanIsRunning; the stack does scan             *)
  notAll,          (* bo_mBtNotAllDeviceConnectedOrScanRunning             *)
  timer,           (* u8_mScanAndNotConnectTimer                           *)
  manual,          (* bo_mStartManualScan                                  *)
  send,            (* u8_mSendDataToNeey: 0, 1 or 2, 10                    *)
  advNr, advValid, (* u8_mAdvDeviceNumber; what advDevice points to exists *)
  doConnect, isConnect, deviceTyp, balancerOn, (* bleDevices[]; its macAdr *)
                   (* is set and cleared together with deviceTyp           *)
  step1, pChr,     (* slots with sendDataStep 1; with a characteristic     *)
  link,            (* the connections, as the stack sees them              *)
  pc, k, want, ok, startWritten, to  (* run() and its local variables      *)

env    == <<setting, off, wifi, running>>
scan   == <<scanning, radio, timer, manual>>
adv    == <<advNr, advValid>>
device == <<doConnect, isConnect, deviceTyp, balancerOn, step1, pChr, link>>
local  == <<pc, k, want, ok, startWritten, to>>
vars   == <<env, scan, notAll, send, adv, device, local>>

TypeOK ==
  /\ setting \in [Slot -> Setting] /\ off \subseteq Slot
  /\ wifi \in BOOLEAN /\ running \in BOOLEAN /\ scanning \in BOOLEAN /\ radio \in BOOLEAN
  /\ notAll \in BOOLEAN /\ timer \in 0 .. ScanTime /\ manual \in BOOLEAN
  /\ send \in {"no", "asked", "going"}
  /\ advNr \in Slot /\ advValid \in BOOLEAN
  /\ doConnect \in [Slot -> {"idle", "found", "setup", "waitStart"}]
  /\ isConnect \subseteq Slot
  /\ deviceTyp \in [Slot -> Kind \cup {"none"}]
  /\ balancerOn \in [Slot -> {"waitForCmd", "toOff", "isOff", "toOn", "isOn"}]
  /\ step1 \subseteq Slot /\ pChr \subseteq Slot
  /\ link \in [Slot -> {"down", "up", "closing"}]
  /\ pc \in {"wait", "slots", "connect", "service", "write", "switch",
             "written", "request", "start", "timer"}
  /\ k \in Slot /\ want \in BOOLEAN /\ ok \subseteq Slot
  /\ startWritten \in BOOLEAN /\ to \in {"isOff", "isOn"}

Init ==
  /\ setting \in Settings /\ off \in Deactivated
  /\ wifi = FALSE /\ running = FALSE
  /\ scanning = FALSE /\ radio = FALSE /\ timer = 0 /\ manual = FALSE
  /\ notAll = FALSE /\ send = "no" /\ advNr = 1 /\ advValid = FALSE
  /\ doConnect = [s \in Slot |-> "idle"] /\ isConnect = {}
  /\ deviceTyp = [s \in Slot |-> "none"]
  /\ balancerOn = [s \in Slot |-> "waitForCmd"]
  /\ step1 = {} /\ pChr = {} /\ link = [s \in Slot |-> "down"]
  /\ pc = "wait" /\ k = 1 /\ want = FALSE /\ ok = {}
  /\ startWritten = FALSE /\ to = "isOff"

-----------------------------------------------------------------------------
(* The other tasks.                                                        *)

SaveSetting ==
  /\ setting' \in Settings
  /\ UNCHANGED <<off, wifi, running, scan, notAll, send, adv, device, local>>

ChangeTriggers ==
  /\ off' \in Deactivated
  /\ UNCHANGED <<setting, wifi, running, scan, notAll, send, adv, device, local>>

(* The WiFi task has reached a network or opened one of its own, or has    *)
(* noticed that the connection is lost.                                    *)
WifiOn ==
  /\ ~wifi /\ wifi' = TRUE
  /\ UNCHANGED <<setting, off, running, scan, notAll, send, adv, device, local>>

WifiOff ==
  /\ wifi /\ wifi' = FALSE
  /\ UNCHANGED <<setting, off, running, scan, notAll, send, adv, device, local>>

(* With WiFi, or when the WiFi task has waited for it in vain.             *)
Start ==
  /\ running' = TRUE
  /\ UNCHANGED <<setting, off, wifi, scan, notAll, send, adv, device, local>>

(* disconnect() only asks the stack to close a connection.                 *)
Closing(S) == [s \in Slot |-> IF s \in S /\ link[s] = "up" THEN "closing" ELSE link[s]]

(* What the WiFi task does after WifiOff.  Stops neither the scan nor a    *)
(* run under way.                                                          *)
Stop ==
  /\ ~wifi
  /\ link' = Closing({s \in Slot : deviceTyp[s] # "none"})
  /\ running' = FALSE /\ notAll' = FALSE /\ send' = "no"
  /\ UNCHANGED <<setting, off, wifi, scan, adv, doConnect, isConnect, deviceTyp,
                 balancerOn, step1, pChr, local>>

StartScan ==
  /\ manual' = TRUE
  /\ UNCHANGED <<env, scanning, radio, timer, notAll, send, adv, device, local>>

(* sendDataToNeey(), readDataFromNeey().                                   *)
SendDataToNeey ==
  /\ send = "no" /\ send' = "asked"
  /\ UNCHANGED <<env, scan, notAll, adv, device, local>>

(* Mutant: a request is not heeded while the one before is pending.        *)
SetBalancerStateOnce(on) ==
  /\ balancerOn' = [s \in Slot |->
       IF balancerOn[s] \in {"toOn", "toOff"} THEN balancerOn[s]
       ELSE IF on THEN IF balancerOn[s] = "isOn" THEN "isOn" ELSE "toOn"
                 ELSE IF balancerOn[s] = "isOff" THEN "isOff" ELSE "toOff"]
  /\ UNCHANGED <<env, scan, notAll, send, adv, doConnect, isConnect, deviceTyp,
                 step1, pChr, link, local>>

(* setAlarmToBtDevices() calls setBalancerState() for every slot.          *)
SetBalancerState(on) ==
  /\ balancerOn' = [s \in Slot |->
       IF on THEN IF balancerOn[s] = "isOn" THEN "isOn" ELSE "toOn"
             ELSE IF balancerOn[s] = "isOff" THEN "isOff" ELSE "toOff"]
  /\ UNCHANGED <<env, scan, notAll, send, adv, doConnect, isConnect, deviceTyp,
                 step1, pChr, link, local>>

-----------------------------------------------------------------------------
(* The host task of the Bluetooth stack.                                   *)

(* Mutant: the scan goes on when a device has been found.                  *)
OnResultScanGoesOn(s) ==
  /\ radio /\ setting[s] \in Kind
  /\ scanning' = FALSE
  /\ advNr' = s /\ advValid' = TRUE
  /\ deviceTyp' = [deviceTyp EXCEPT ![s] = setting[s]]
  /\ doConnect' = [doConnect EXCEPT ![s] = "found"]
  /\ UNCHANGED <<env, radio, timer, manual, notAll, send, isConnect, balancerOn, step1,
                 pChr, link, local>>

(* A device that is set up advertises.  One that has been switched off and *)
(* on again does so while its old connection still counts as up.           *)
OnResult(s) ==
  /\ radio /\ setting[s] \in Kind
  /\ radio' = FALSE /\ scanning' = FALSE
  /\ advNr' = s /\ advValid' = TRUE
  /\ deviceTyp' = [deviceTyp EXCEPT ![s] = setting[s]]
  /\ doConnect' = [doConnect EXCEPT ![s] = "found"]
  /\ UNCHANGED <<env, timer, manual, notAll, send, isConnect, balancerOn, step1,
                 pChr, link, local>>

(* The connection was lost, or has been closed.                            *)
OnDisconnect(s) ==
  /\ link[s] # "down" /\ link' = [link EXCEPT ![s] = "down"]
  /\ isConnect' = isConnect \ {s}
  /\ doConnect' = [doConnect EXCEPT ![s] = "idle"]
  /\ deviceTyp' = [deviceTyp EXCEPT ![s] = "none"]
  /\ UNCHANGED <<env, scan, notAll, send, adv, balancerOn, step1, pChr, local>>

-----------------------------------------------------------------------------
(* run(), by the BLE task.                                                 *)

(* handleDisconnectionToDevices(), and what handleConnectionToDevices()    *)
(* decides first: while a scan runs it does nothing.  The BLE task calls   *)
(* run() only while there is WiFi; a run under way goes on without.        *)
StartRun ==
  /\ pc = "wait" /\ wifi /\ running
  /\ link' = Closing({s \in isConnect : setting[s] \notin Kind \/ s \in off})
  /\ pc' = IF scanning THEN "request" ELSE "slots"
  /\ k' = 1 /\ want' = FALSE /\ ok' = {} /\ startWritten' = FALSE
  /\ UNCHANGED <<env, scan, notAll, send, adv, doConnect, isConnect, deviceTyp,
                 balancerOn, step1, pChr, to>>

(* Mutant: one slot too many.                                              *)
NextSlotTooFar ==
  IF k <= NumSlots THEN k' = k + 1 /\ pc' = "slots"
  ELSE k' = 1 /\ pc' = IF ok' = Slot THEN "write" ELSE "request"

(* On to the next slot.  Only with every slot in order anything is sent.   *)
NextSlot ==
  IF k < NumSlots THEN k' = k + 1 /\ pc' = "slots"
  ELSE k' = 1 /\ pc' = IF ok' = Slot THEN "write" ELSE "request"

Missing(s) ==
  setting[s] # "none" /\ s \notin off /\ s \notin isConnect /\ doConnect[s] = "idle"

(* Mutant: a deactivated slot is waited for.                               *)
InOrderActive(s) == setting[s] = "none" \/ s \in isConnect

InOrder(s) == setting[s] = "none" \/ s \in isConnect \/ s \in off

CheckSlot ==
  /\ pc = "slots" /\ doConnect[k] # "found"
  /\ want' = (want \/ Missing(k))
  /\ ok' = IF InOrder(k) THEN ok \cup {k} ELSE ok
  /\ NextSlot
  /\ UNCHANGED <<env, scan, notAll, send, adv, device, startWritten, to>>

BeginConnect ==
  /\ pc = "slots" /\ doConnect[k] = "found"
  /\ doConnect' = [doConnect EXCEPT ![k] = "setup"]
  /\ pc' = "connect"
  /\ UNCHANGED <<env, scan, notAll, send, adv, isConnect, deviceTyp, balancerOn,
                 step1, pChr, link, k, want, ok, startWritten, to>>

(* btDeviceConnect() connects the device found last, whatever slot it is   *)
(* called for; connect() calls onConnect().                                *)
ConnectSucceeds ==
  /\ pc = "connect" /\ advValid /\ deviceTyp[advNr] # "none" /\ link[advNr] = "down"
  /\ link' = [link EXCEPT ![advNr] = "up"]
  /\ isConnect' = isConnect \cup {advNr}
  /\ doConnect' = [doConnect EXCEPT ![advNr] = "waitStart"]
  /\ balancerOn' = [balancerOn EXCEPT ![advNr] = "waitForCmd"]
  /\ pChr' = pChr \ {advNr}
  /\ timer' = ScanTime /\ pc' = "service"
  /\ UNCHANGED <<env, scanning, radio, manual, notAll, send, adv, deviceTyp, step1,
                 k, want, ok, startWritten, to>>

(* Mutant: a failed attempt leaves the slot as it is.                      *)
GiveUpNot == UNCHANGED <<doConnect, ok>> /\ NextSlot

GiveUp ==
  /\ doConnect' = [doConnect EXCEPT ![k] = "idle"]
  /\ UNCHANGED ok
  /\ NextSlot

ConnectFails ==
  /\ pc = "connect"
  /\ GiveUp
  /\ UNCHANGED <<env, scan, notAll, send, adv, isConnect, deviceTyp, balancerOn,
                 step1, pChr, link, want, startWritten, to>>

(* Service and characteristic found, and the notification subscribed to.   *)
ServiceFound ==
  /\ pc = "service" /\ link[advNr] = "up"
  /\ pChr' = pChr \cup {advNr} /\ ok' = ok \cup {k}
  /\ NextSlot
  /\ UNCHANGED <<env, scan, notAll, send, adv, doConnect, isConnect, deviceTyp,
                 balancerOn, step1, link, want, startWritten, to>>

(* Mutant: the connection is kept.                                         *)
ServiceFailsUnclosed ==
  /\ pc = "service"
  /\ pChr' \in {pChr, pChr \cup {advNr}}
  /\ GiveUp
  /\ UNCHANGED <<env, scan, notAll, send, adv, isConnect, deviceTyp, balancerOn,
                 step1, link, want, startWritten, to>>

(* Or not, perhaps because the connection is lost already.                 *)
ServiceFails ==
  /\ pc = "service"
  /\ link' = Closing({advNr})
  /\ pChr' \in {pChr, pChr \cup {advNr}}
  /\ GiveUp
  /\ UNCHANGED <<env, scan, notAll, send, adv, isConnect, deviceTyp, balancerOn,
                 step1, want, startWritten, to>>

NextWrite ==
  IF k < NumSlots THEN k' = k + 1 /\ pc' = "write" ELSE k' = 1 /\ pc' = "written"

WriteStart ==
  /\ pc = "write" /\ doConnect[k] = "waitStart"
  /\ doConnect' = [doConnect EXCEPT ![k] = "idle"]
  /\ step1' = IF deviceTyp[k] = "neey" THEN step1 \ {k} ELSE step1
  /\ startWritten' = TRUE
  /\ NextWrite
  /\ UNCHANGED <<env, scan, notAll, send, adv, isConnect, deviceTyp, balancerOn,
                 pChr, link, want, ok, to>>

Neey(s) == doConnect[s] = "idle" /\ deviceTyp[s] = "neey"

(* A balancer is switched only when nothing else is to be sent.            *)
SwitchDue(s) ==
  Neey(s) /\ s \in step1 /\ send = "no" /\ balancerOn[s] \in {"toOff", "toOn"}

ReadBalancer ==
  /\ pc = "write" /\ SwitchDue(k)
  /\ to' = IF balancerOn[k] = "toOn" THEN "isOn" ELSE "isOff"
  /\ pc' = "switch"
  /\ UNCHANGED <<env, scan, notAll, send, adv, device, k, want, ok, startWritten>>

SwitchBalancer ==
  /\ pc = "switch"
  /\ balancerOn' = [balancerOn EXCEPT ![k] = to]
  /\ NextWrite
  /\ UNCHANGED <<env, scan, notAll, send, adv, doConnect, isConnect, deviceTyp,
                 step1, pChr, link, want, ok, startWritten, to>>

(* Settings are sent, the second message of a balancer, or nothing that    *)
(* changes the state: a JK-BMS is asked for data.                          *)
WriteOther ==
  /\ pc = "write" /\ doConnect[k] # "waitStart" /\ ~SwitchDue(k)
  /\ send' = IF Neey(k) /\ k \in step1 /\ send = "asked" THEN "going" ELSE send
  /\ step1' = IF Neey(k) THEN step1 \cup {k} ELSE step1
  /\ NextWrite
  /\ UNCHANGED <<env, scan, notAll, adv, doConnect, isConnect, deviceTyp, balancerOn,
                 pChr, link, want, ok, startWritten, to>>

(* Mutant: the end of the sending of settings is never noticed.            *)
EndWriteUnnoticed(sent) ==
  /\ pc = "written" /\ pc' = "request" /\ sent \in BOOLEAN
  /\ notAll' = (notAll /\ ~startWritten)
  /\ UNCHANGED <<env, scan, send, adv, device, k, want, ok, startWritten, to>>

(* The last of the steps in which settings are sent may be done.           *)
EndWrite(sent) ==
  /\ pc = "written" /\ pc' = "request"
  /\ send' = IF send = "going" /\ sent THEN "no" ELSE send
  /\ notAll' = (notAll /\ ~startWritten)
  /\ UNCHANGED <<env, scan, adv, device, k, want, ok, startWritten, to>>

(* A scan gives way to settings that are to be sent; else a scan that the  *)
(* user has asked for is due, unless one runs.                             *)
Request ==
  /\ pc = "request" /\ pc' = "start"
  /\ LET stop == scanning /\ send # "no" /\ ~want
         ask  == manual /\ send = "no"
     IN /\ scanning' = (scanning /\ ~stop) /\ radio' = (radio /\ ~stop)
        /\ notAll' = (notAll /\ ~stop)
        /\ manual' = (manual /\ ~ask)
        /\ want' = (want \/ (ask /\ ~scanning))
  /\ UNCHANGED <<env, timer, send, adv, device, k, ok, startWritten, to>>

(* Starting deletes the results of the last scan, and may fail.            *)
BeginScan ==
  /\ notAll' = TRUE /\ scanning' = TRUE /\ timer' = ScanTime
  /\ advValid' = FALSE /\ radio' \in BOOLEAN

StartScanning ==
  /\ pc = "start" /\ pc' = "timer"
  /\ IF want /\ ~scanning THEN BeginScan
     ELSE UNCHANGED <<notAll, scanning, timer, advValid, radio>>
  /\ UNCHANGED <<env, manual, send, advNr, device, k, want, ok, startWritten, to>>

(* Mutant: a scan that runs out keeps MQTT blocked.                        *)
CountDownSilent ==
  /\ pc = "timer" /\ pc' = "wait"
  /\ LET left == IF scanning /\ timer > 0 THEN timer - 1 ELSE timer
         over == left = 1
     IN /\ timer' = IF over THEN 0 ELSE left
        /\ scanning' = (scanning /\ ~over) /\ radio' = (radio /\ ~over)
  /\ UNCHANGED <<env, notAll, manual, send, adv, device, k, want, ok, startWritten, to>>

CountDown ==
  /\ pc = "timer" /\ pc' = "wait"
  /\ LET left == IF scanning /\ timer > 0 THEN timer - 1 ELSE timer
         over == left = 1
     IN /\ timer' = IF over THEN 0 ELSE left
        /\ scanning' = (scanning /\ ~over) /\ radio' = (radio /\ ~over)
        /\ notAll' = (notAll /\ ~over)
  /\ UNCHANGED <<env, manual, send, adv, device, k, want, ok, startWritten, to>>

-----------------------------------------------------------------------------

Run ==
  \/ StartRun \/ CheckSlot \/ BeginConnect \/ ConnectSucceeds \/ ConnectFails
  \/ ServiceFound \/ ServiceFails \/ WriteStart \/ ReadBalancer \/ SwitchBalancer
  \/ WriteOther \/ (\E sent \in BOOLEAN : EndWrite(sent))
  \/ Request \/ StartScanning \/ CountDown

Host == \E s \in Slot : OnResult(s) \/ OnDisconnect(s)

Others ==
  \/ SaveSetting \/ ChangeTriggers \/ WifiOn \/ WifiOff \/ Start \/ Stop
  \/ StartScan \/ SendDataToNeey
  \/ \E on \in BOOLEAN : SetBalancerState(on)

Next == Run \/ Host \/ Others

Spec == Init /\ [][Next]_vars
=============================================================================

----------------------------- MODULE BleHistory -----------------------------
(* BleConnect with what a later state no longer shows: what the balancers  *)
(* were last asked to do, and where threads have crossed.  What disturbs   *)
(* the connections happens at most MayDisturb times.                       *)
EXTENDS BleConnect

CONSTANTS MayDisturb

ASSUME DisturbAssumption == MayDisturb \in Nat

VARIABLES
  request,  (* the state last requested of a slot since it was connected   *)
  raced,    (* slots whose request came while the last one was carried out *)
  failed,   (* slots found, but not connected since                        *)
  crossed,  (* a scan was started while a device found waited              *)
  excused,  (* the settings or the deactivating triggers have changed, or  *)
            (* a device was found that was not missing                     *)
  turns     (* disturbances so far                                         *)

history == <<request, raced, failed, crossed, excused>>
hvars   == <<vars, history, turns>>

HInit ==
  /\ Init
  /\ request = [s \in Slot |-> "none"] /\ raced = {} /\ failed = {}
  /\ crossed = FALSE /\ excused = FALSE /\ turns = 0

RecordRequest(on) ==
  /\ request' = [s \in Slot |-> IF on THEN "on" ELSE "off"]
  /\ raced' = IF pc = "switch" THEN {k} ELSE {}
  /\ UNCHANGED <<failed, crossed, excused>>

RecordConnect ==
  /\ request' = [request EXCEPT ![advNr] = "none"]
  /\ raced' = raced \ {advNr} /\ failed' = failed \ {advNr}
  /\ UNCHANGED <<crossed, excused>>

RecordFailure ==
  /\ failed' = failed \cup ({k} \ isConnect)
  /\ UNCHANGED <<request, raced, crossed, excused>>

RecordScan ==
  /\ crossed' = (crossed \/ (want /\ ~scanning /\ \E s \in Slot : doConnect[s] = "found"))
  /\ UNCHANGED <<request, raced, failed, excused>>

RecordExcuse ==
  /\ excused' = TRUE
  /\ UNCHANGED <<request, raced, failed, crossed>>

RecordResult(s) ==
  /\ excused' = (excused \/ ~Missing(s))
  /\ UNCHANGED <<request, raced, failed, crossed>>

ScanFails == StartScanning /\ want /\ ~scanning /\ ~radio'

(* A device that cannot be connected: it has gone, or is connected still.  *)
NoDevice == ~advValid \/ deviceTyp[advNr] = "none" \/ link[advNr] # "down"

Works ==
  \/ StartRun \/ CheckSlot \/ BeginConnect \/ ServiceFound
  \/ WriteStart \/ ReadBalancer \/ SwitchBalancer \/ WriteOther \/ EndWrite(TRUE)
  \/ Request \/ CountDown

Steps ==
  \/ (Works \/ Start) /\ UNCHANGED history
  \/ ConnectSucceeds /\ RecordConnect
  \/ NoDevice /\ (ConnectFails \/ (link[advNr] # "up" /\ ServiceFails)) /\ RecordFailure
  \/ StartScanning /\ ~ScanFails /\ RecordScan

Closed(s) == link[s] = "closing" /\ OnDisconnect(s) /\ UNCHANGED <<history, turns>>

Found(s) == link[s] = "down" /\ OnResult(s) /\ RecordResult(s) /\ UNCHANGED turns

Disturbs ==
  \/ ~NoDevice /\ ConnectFails /\ RecordFailure
  \/ ServiceFails /\ RecordFailure
  \/ ScanFails /\ RecordScan
  \/ (SaveSetting \/ ChangeTriggers) /\ RecordExcuse
  \/ \E s \in Slot : link[s] # "down" /\ OnResult(s) /\ RecordResult(s)
  \/ \E on \in BOOLEAN : SetBalancerState(on) /\ RecordRequest(on)
  \/ (EndWrite(FALSE) \/ WifiOff \/ StartScan \/ SendDataToNeey) /\ UNCHANGED history
  \/ (\E s \in Slot : link[s] = "up" /\ OnDisconnect(s)) /\ UNCHANGED history

(* What the WiFi task does while there is no WiFi, as often as it likes.    *)
Offline == (WifiOn \/ Stop) /\ UNCHANGED <<history, turns>>

Proceeds == Steps /\ UNCHANGED turns

HNext ==
  \/ Proceeds \/ Offline
  \/ \E s \in Slot : Closed(s) \/ Found(s)
  \/ Disturbs /\ turns < MayDisturb /\ turns' = turns + 1

HSpec == HInit /\ [][HNext]_hvars

(* The BLE task and the WiFi task go on, the stack reports a closed        *)
(* connection, and a scan that is repeated for ever finds every device     *)
(* that advertises.                                                        *)
FairHSpec ==
  /\ HSpec /\ WF_hvars(Proceeds)
  /\ \A s \in Slot : WF_hvars(Closed(s)) /\ SF_hvars(Found(s))
-----------------------------------------------------------------------------

(* btDeviceConnect() uses the device number and the scan result that       *)
(* onResult() stored last, in two globals.  They belong to the slot it is  *)
(* called for, and the result still exists, unless a scan was started      *)
(* while that device waited.  (BleHandler.cpp:152-153, 244, 606-625, 690)  *)
ConnectsFound == pc = "connect" /\ ~crossed => advValid /\ advNr = k

(* A slot leaves the state btConnectionSetup with the attempt that put it  *)
(* there: nothing else would, no scan is started for such a slot and no    *)
(* device is served meanwhile.  Again unless threads have crossed.         *)
(* (BleHandler.cpp:681-700)                                                *)
SetupEnds ==
  ~crossed => \A s \in Slot : doConnect[s] = "setup" => pc = "connect" /\ k = s

Written ==
  /\ pc = "write"
  /\ doConnect[k] = "waitStart" \/ (doConnect[k] = "idle" /\ deviceTyp[k] # "none")

(* What is written to a slot has a characteristic to be written to.  After *)
(* a loss that of the lost connection stays and counts: the property is    *)
(* about slots that never got one.  The exceptions are a connection being  *)
(* closed because it was not found, and a device that was found but not    *)
(* connected and is then deactivated: onResult() has set its type already. *)
(* (BleHandler.cpp:154, 712-720)                                           *)
WriteReady == Written => k \in pChr \/ link[k] = "closing" \/ k \in failed

(* The last state requested of a balancer since it was connected is the    *)
(* state it is in or about to be switched to, unless the request came      *)
(* while the one before was carried out.  (BleHandler.cpp:646-656, 790-799)*)
RequestKept ==
  \A s \in Slot \ raced :
    /\ request[s] = "on"  => balancerOn[s] \in {"toOn", "isOn"}
    /\ request[s] = "off" => balancerOn[s] \in {"toOff", "isOff"}

Stuck == crossed \/ \E s \in Slot : setting[s] = "noMac" /\ s \notin off

Served(s) ==
  setting[s] \in Kind /\ s \notin off => s \in isConnect /\ doConnect[s] = "idle"

(* run() is called only with WiFi, so that what must happen in the end is  *)
(* owed only where the WiFi comes to stay.  (main.cpp:691)                 *)
Online == <>[]wifi

(* When nothing disturbs any more, every device set up and not deactivated *)
(* is connected, has got its start message and stays so.  A slot with a    *)
(* type but no address keeps all from being served.                        *)
(* (BleHandler.cpp:572-643, 663-832)                                       *)
DevicesServed == Online => <>[](Stuck \/ \A s \in Slot : Served(s))

(* And then every balancer reaches the state last requested.               *)
(* (BleHandler.cpp:767-800)                                                *)
Follows(s) ==
  /\ request[s] = "on"  => balancerOn[s] = "isOn"
  /\ request[s] = "off" => balancerOn[s] = "isOff"

BalancerFollows ==
  Online => <>[](Stuck \/ \A s \in Slot \ raced : s \in isConnect /\ deviceTyp[s] = "neey" => Follows(s))

(* The flag that blocks MQTT does not stay set for ever, as long as the    *)
(* settings and the deactivating triggers do not change and a scan finds   *)
(* only devices that are missing: it is cleared by the start message for the *)
(* device a scan has found, which may never be written.                    *)
(* (BleHandler.cpp:611-641, 827; mqtt_t.cpp:106-116, 209, 330)             *)
MqttReleased == Online => <>(crossed \/ excused) \/ []<>~notAll
=============================================================================

------------------------------ MODULE BleProofs ------------------------------
(* Proofs about BleConnect and BleHistory, for every number of slots, all  *)
(* settings and any number of disturbances: types, and what the two global *)
(* variables of the device found last rely on.                             *)
EXTENDS BleHistory, TLAPS

(* What run() decides, slot by slot, keeps the types.                      *)
LEMMA NextSlotType ==
  ASSUME TypeOK, ok' \subseteq Slot, NextSlot
  PROVE  k' \in Slot /\ pc' \in {"slots", "write", "request"}
BY SlotAssumption DEF NextSlot, TypeOK, Slot

LEMMA NextWriteType ==
  ASSUME TypeOK, NextWrite
  PROVE  k' \in Slot /\ pc' \in {"write", "written"}
BY SlotAssumption DEF NextWrite, TypeOK, Slot

LEMMA ClosingType ==
  ASSUME TypeOK, NEW S
  PROVE  Closing(S) \in [Slot -> {"down", "up", "closing"}]
BY DEF Closing, TypeOK

LEMMA InitType == Init => TypeOK
<1> SUFFICES ASSUME Init PROVE TypeOK
  OBVIOUS
<1>1. 1 \in Slot /\ 0 \in 0 .. ScanTime  BY SlotAssumption DEF Slot
<1>2. setting \in [Slot -> Setting] /\ off \subseteq Slot
  BY SlotSettingsAssumption DEF Init
<1> QED  BY <1>1, <1>2 DEF Init, TypeOK

LEMMA OthersType ==
  ASSUME TypeOK, Others
  PROVE  TypeOK'
<1>1. CASE SaveSetting
  BY <1>1, SlotSettingsAssumption
  DEF SaveSetting, TypeOK, scan, adv, device, local
<1>2. CASE ChangeTriggers
  BY <1>2, SlotSettingsAssumption
  DEF ChangeTriggers, TypeOK, scan, adv, device, local
<1>3. CASE WifiOn \/ WifiOff \/ Start
  <2>1. wifi' \in BOOLEAN /\ running' \in BOOLEAN
    BY <1>3, Zenon DEF WifiOn, WifiOff, Start, TypeOK
  <2>2. UNCHANGED <<setting, off, scan, notAll, send, adv, device, local>>
    BY <1>3, Zenon DEF WifiOn, WifiOff, Start
  <2> QED  BY <2>1, <2>2 DEF TypeOK, scan, adv, device, local
<1>4. CASE Stop
  <2>1. link' \in [Slot -> {"down", "up", "closing"}]
    BY <1>4, ClosingType DEF Stop
  <2>2. running' \in BOOLEAN /\ notAll' \in BOOLEAN /\ send' \in {"no", "asked", "going"}
    BY <1>4 DEF Stop
  <2>3. UNCHANGED <<setting, off, wifi, scan, adv, doConnect, isConnect, deviceTyp,
                    balancerOn, step1, pChr, local>>
    BY <1>4 DEF Stop
  <2> QED  BY <2>1, <2>2, <2>3 DEF TypeOK, scan, adv, local
<1>5. CASE StartScan
  BY <1>5 DEF StartScan, TypeOK, env, adv, device, local
<1>6. CASE SendDataToNeey
  BY <1>6 DEF SendDataToNeey, TypeOK, env, scan, adv, device, local
<1>7. CASE \E on \in BOOLEAN : SetBalancerState(on)
  BY <1>7 DEF SetBalancerState, TypeOK, env, scan, adv, local
<1> QED  BY <1>1, <1>2, <1>3, <1>4, <1>5, <1>6, <1>7 DEF Others

LEMMA HostType ==
  ASSUME TypeOK, Host
  PROVE  TypeOK'
<1> PICK s \in Slot : OnResult(s) \/ OnDisconnect(s)
  BY DEF Host
<1>1. CASE OnResult(s)
  <2>1. deviceTyp' \in [Slot -> Kind \cup {"none"}]
    BY <1>1 DEF OnResult, TypeOK
  <2>2. doConnect' \in [Slot -> {"idle", "found", "setup", "waitStart"}]
    BY <1>1 DEF OnResult, TypeOK
  <2>3. /\ scanning' \in BOOLEAN /\ radio' \in BOOLEAN /\ advValid' \in BOOLEAN
        /\ advNr' \in Slot
    BY <1>1 DEF OnResult, TypeOK
  <2>4. UNCHANGED <<env, timer, manual, notAll, send, isConnect, balancerOn, step1,
                    pChr, link, local>>
    BY <1>1 DEF OnResult
  <2> QED  BY <2>1, <2>2, <2>3, <2>4 DEF TypeOK, env, local
<1>2. CASE OnDisconnect(s)
  BY <1>2 DEF OnDisconnect, TypeOK, env, scan, adv, local
<1> QED  BY <1>1, <1>2

(* Type correctness of the steps of run() that decide about connections.   *)
LEMMA ConnectType ==
  ASSUME TypeOK, StartRun \/ CheckSlot \/ BeginConnect \/ ConnectSucceeds
                   \/ ConnectFails \/ ServiceFound \/ ServiceFails
  PROVE  TypeOK'
<1>1. CASE StartRun
  <2>1. 1 \in Slot  BY SlotAssumption DEF Slot
  <2>2. link' \in [Slot -> {"down", "up", "closing"}]
    BY <1>1, ClosingType DEF StartRun
  <2> QED  BY <1>1, <2>1, <2>2 DEF StartRun, TypeOK, env, scan, adv
<1>2. CASE CheckSlot
  <2>1. ok' \subseteq Slot  BY <1>2 DEF CheckSlot, TypeOK
  <2>2. k' \in Slot /\ pc' \in {"slots", "write", "request"}
    BY <1>2, <2>1, NextSlotType DEF CheckSlot
  <2> QED  BY <1>2, <2>1, <2>2 DEF CheckSlot, TypeOK, env, scan, adv, device, Missing
<1>3. CASE BeginConnect
  BY <1>3 DEF BeginConnect, TypeOK, env, scan, adv
<1>4. CASE ConnectSucceeds
  BY <1>4, SlotAssumption DEF ConnectSucceeds, TypeOK, env, adv
<1>5. CASE ConnectFails
  <2>1. ok' = ok /\ NextSlot /\ doConnect' = [doConnect EXCEPT ![k] = "idle"]
    BY <1>5 DEF ConnectFails, GiveUp
  <2>2. k' \in Slot /\ pc' \in {"slots", "write", "request"}
    BY <2>1, NextSlotType DEF TypeOK
  <2> QED  BY <1>5, <2>1, <2>2 DEF ConnectFails, TypeOK, env, scan, adv
<1>6. CASE ServiceFound
  <2>1. ok' \subseteq Slot /\ NextSlot  BY <1>6 DEF ServiceFound, TypeOK
  <2>2. k' \in Slot /\ pc' \in {"slots", "write", "request"}
    BY <2>1, NextSlotType
  <2> QED  BY <1>6, <2>1, <2>2 DEF ServiceFound, TypeOK, env, scan, adv
<1>7. CASE ServiceFails
  <2>1. ok' = ok /\ NextSlot /\ doConnect' = [doConnect EXCEPT ![k] = "idle"]
    BY <1>7 DEF ServiceFails, GiveUp
  <2>2. k' \in Slot /\ pc' \in {"slots", "write", "request"}
    BY <2>1, NextSlotType DEF TypeOK
  <2>3. pChr' \subseteq Slot  BY <1>7 DEF ServiceFails, TypeOK
  <2>4. link' \in [Slot -> {"down", "up", "closing"}]
    BY <1>7, ClosingType DEF ServiceFails
  <2> QED  BY <1>7, <2>1, <2>2, <2>3, <2>4 DEF ServiceFails, TypeOK, env, scan, adv
<1> QED  BY <1>1, <1>2, <1>3, <1>4, <1>5, <1>6, <1>7

(* And of those that write to the devices and look after the scan.         *)
LEMMA WriteType ==
  ASSUME TypeOK, WriteStart \/ ReadBalancer \/ SwitchBalancer \/ WriteOther
                   \/ (\E sent \in BOOLEAN : EndWrite(sent))
                   \/ Request \/ StartScanning \/ CountDown
  PROVE  TypeOK'
<1>1. CASE WriteStart
  <2>1. k' \in Slot /\ pc' \in {"write", "written"}
    BY <1>1, NextWriteType DEF WriteStart
  <2> QED  BY <1>1, <2>1 DEF WriteStart, TypeOK, env, scan, adv
<1>2. CASE ReadBalancer
  BY <1>2 DEF ReadBalancer, TypeOK, env, scan, adv, device
<1>3. CASE SwitchBalancer
  <2>1. k' \in Slot /\ pc' \in {"write", "written"}
    BY <1>3, NextWriteType DEF SwitchBalancer
  <2> QED  BY <1>3, <2>1 DEF SwitchBalancer, TypeOK, env, scan, adv
<1>4. CASE WriteOther
  <2>1. k' \in Slot /\ pc' \in {"write", "written"}
    BY <1>4, NextWriteType DEF WriteOther
  <2> QED  BY <1>4, <2>1 DEF WriteOther, TypeOK, env, scan, adv
<1>5. CASE \E sent \in BOOLEAN : EndWrite(sent)
  BY <1>5 DEF EndWrite, TypeOK, env, scan, adv, device
<1>6. CASE Request
  BY <1>6 DEF Request, TypeOK, env, adv, device
<1>7. CASE StartScanning
  <2>1. /\ notAll' \in BOOLEAN /\ scanning' \in BOOLEAN /\ radio' \in BOOLEAN
        /\ timer' \in 0 .. ScanTime /\ advValid' \in BOOLEAN
    <3>1. CASE want /\ ~scanning
      <4>1. BeginScan  BY <1>7, <3>1, Zenon DEF StartScanning
      <4>2. timer' \in 0 .. ScanTime  BY <4>1, SlotAssumption DEF BeginScan
      <4> QED  BY <4>1, <4>2 DEF BeginScan
    <3>2. CASE ~(want /\ ~scanning)
      BY <1>7, <3>2 DEF StartScanning, TypeOK
    <3> QED  BY <3>1, <3>2
  <2> QED  BY <1>7, <2>1 DEF StartScanning, TypeOK, env, device
<1>8. CASE CountDown
  BY <1>8, SlotAssumption DEF CountDown, TypeOK, env, adv, device
<1> QED  BY <1>1, <1>2, <1>3, <1>4, <1>5, <1>6, <1>7, <1>8

(* The variables of BleHandler keep their types, in particular run() never *)
(* addresses a slot that does not exist and the timer of a scan never goes *)
(* beyond its start value or below 0.                                      *)
THEOREM BleTypeCorrect == Spec => []TypeOK
<1>1. Init => TypeOK  BY InitType
<1>2. TypeOK /\ [Next]_vars => TypeOK'
  <2> SUFFICES ASSUME TypeOK, [Next]_vars PROVE TypeOK'
    OBVIOUS
  <2>1. CASE UNCHANGED vars
    BY <2>1 DEF TypeOK, vars, env, scan, adv, device, local
  <2>2. CASE Run  BY <2>2, ConnectType, WriteType DEF Run
  <2>3. CASE Host  BY <2>3, HostType
  <2>4. CASE Others  BY <2>4, OthersType
  <2> QED  BY <2>1, <2>2, <2>3, <2>4 DEF Next
<1> QED  BY <1>1, <1>2, PTL DEF Spec

-----------------------------------------------------------------------------
(* The steps with a history are steps of BleConnect.                       *)
LEMMA StepKeepsHistory ==
  ASSUME HNext
  PROVE  \/ StartScanning /\ RecordScan
         \/ /\ crossed' = crossed
            /\ \/ StartRun \/ CheckSlot \/ BeginConnect \/ ConnectSucceeds
               \/ ConnectFails \/ ServiceFound \/ ServiceFails \/ WriteStart
               \/ ReadBalancer \/ SwitchBalancer \/ WriteOther
               \/ (\E sent \in BOOLEAN : EndWrite(sent))
               \/ Request \/ CountDown \/ Host \/ Others
<1>1. CASE Proceeds \/ Offline
  BY <1>1, Zenon
  DEF Proceeds, Offline, Steps, Works, history, RecordConnect, RecordFailure, Others
<1>2. CASE \E s \in Slot : Closed(s) \/ Found(s)
  BY <1>2, Zenon DEF Closed, Found, history, RecordResult, Host
<1>3. CASE Disturbs
  BY <1>3, Zenon
  DEF Disturbs, ScanFails, history, RecordFailure, RecordExcuse, RecordResult,
      RecordRequest, Host, Others
<1> QED  BY <1>1, <1>2, <1>3, Zenon DEF HNext

LEMMA HStepType ==
  ASSUME TypeOK, [HNext]_hvars
  PROVE  TypeOK'
<1>1. CASE UNCHANGED hvars
  BY <1>1 DEF hvars, TypeOK, vars, env, scan, adv, device, local
<1>2. CASE HNext
  BY <1>2, StepKeepsHistory, ConnectType, WriteType, HostType, OthersType
<1> QED  BY <1>1, <1>2

(* While run() serves the slots no scan runs, so that nothing is found; and *)
(* unless a scan was started in spite of a device found, that device is the *)
(* one the two global variables hold.                                      *)
ServesUndisturbed ==
  pc \in {"slots", "connect", "service", "write", "switch", "written"} => ~scanning

FoundIsHeld ==
  ~crossed => \A s \in Slot :
    doConnect[s] = "found" => advNr = s /\ advValid /\ ~scanning

CrossInv ==
  /\ TypeOK /\ (radio => scanning) /\ ServesUndisturbed /\ FoundIsHeld
  /\ SetupEnds /\ ConnectsFound

LEMMA CrossInvScan ==
  ASSUME CrossInv, StartScanning, RecordScan
  PROVE  CrossInv'
<1>1. TypeOK'  BY WriteType DEF CrossInv
<1>2. /\ pc = "start" /\ pc' = "timer" /\ k' = k /\ doConnect' = doConnect
      /\ advNr' = advNr
  BY DEF StartScanning, device
<1>3. CASE want /\ ~scanning
  <2>1. BeginScan  BY <1>3, Zenon DEF StartScanning
  <2>2. ~crossed' => ~crossed /\ \A s \in Slot : doConnect[s] # "found"
    BY <1>3, Zenon DEF RecordScan
  <2> QED
    BY <1>1, <1>2, <2>1, <2>2
    DEF BeginScan, CrossInv, ServesUndisturbed, FoundIsHeld, SetupEnds, ConnectsFound
<1>4. CASE ~(want /\ ~scanning)
  <2>1. scanning' = scanning /\ radio' = radio /\ advValid' = advValid
    BY <1>4, Zenon DEF StartScanning
  <2>2. ~crossed' => ~crossed  BY Zenon DEF RecordScan
  <2> QED
    BY <1>1, <1>2, <2>1, <2>2
    DEF CrossInv, ServesUndisturbed, FoundIsHeld, SetupEnds, ConnectsFound
<1> QED  BY <1>3, <1>4

LEMMA CrossInvOthers ==
  ASSUME CrossInv, crossed' = crossed, Others
  PROVE  CrossInv'
<1>1. TypeOK'  BY OthersType DEF CrossInv
<1>2. UNCHANGED <<scanning, radio, advNr, advValid, doConnect, pc, k>>
  BY Zenon
  DEF Others, SaveSetting, ChangeTriggers, WifiOn, WifiOff, Start, Stop, StartScan,
      SendDataToNeey, SetBalancerState, scan, adv, device, local
<1> QED
  BY <1>1, <1>2
  DEF CrossInv, ServesUndisturbed, FoundIsHeld, SetupEnds, ConnectsFound

(* A device is found while a scan runs, and therefore not while run()      *)
(* serves the slots.                                                       *)
LEMMA CrossInvHost ==
  ASSUME CrossInv, crossed' = crossed, Host
  PROVE  CrossInv'
<1>1. TypeOK'  BY HostType DEF CrossInv
<1> PICK s \in Slot : OnResult(s) \/ OnDisconnect(s)
  BY DEF Host
<1>2. CASE OnResult(s)
  <2>1. /\ radio /\ radio' = FALSE /\ scanning' = FALSE /\ advNr' = s /\ advValid' = TRUE
        /\ doConnect' = [doConnect EXCEPT ![s] = "found"] /\ pc' = pc /\ k' = k
    BY <1>2 DEF OnResult, local
  <2>2. scanning  BY <2>1 DEF CrossInv
  <2>3. ~crossed => \A t \in Slot : doConnect[t] # "found"
    BY <2>2 DEF CrossInv, FoundIsHeld
  <2>4. pc # "connect"  BY <2>2 DEF CrossInv, ServesUndisturbed
  <2> QED
    BY <1>1, <2>1, <2>3, <2>4
    DEF CrossInv, TypeOK, ServesUndisturbed, FoundIsHeld, SetupEnds, ConnectsFound
<1>3. CASE OnDisconnect(s)
  BY <1>1, <1>3
  DEF OnDisconnect, scan, adv, local, CrossInv, TypeOK, ServesUndisturbed, FoundIsHeld,
      SetupEnds, ConnectsFound
<1> QED  BY <1>2, <1>3

LEMMA CrossInvConnect ==
  ASSUME CrossInv, crossed' = crossed,
         StartRun \/ CheckSlot \/ BeginConnect \/ ConnectSucceeds
           \/ ConnectFails \/ ServiceFound \/ ServiceFails
  PROVE  CrossInv'
<1>1. TypeOK'  BY ConnectType DEF CrossInv
<1>2. CASE StartRun
  BY <1>1, <1>2
  DEF StartRun, scan, adv, CrossInv, ServesUndisturbed, FoundIsHeld, SetupEnds,
      ConnectsFound
<1>3. CASE CheckSlot
  BY <1>1, <1>3
  DEF CheckSlot, NextSlot, scan, adv, device, CrossInv, ServesUndisturbed, FoundIsHeld,
      SetupEnds, ConnectsFound
<1>4. CASE BeginConnect
  BY <1>1, <1>4
  DEF BeginConnect, scan, adv, CrossInv, TypeOK, ServesUndisturbed, FoundIsHeld,
      SetupEnds, ConnectsFound
<1>5. CASE ConnectSucceeds
  BY <1>1, <1>5
  DEF ConnectSucceeds, adv, CrossInv, TypeOK, ServesUndisturbed, FoundIsHeld,
      SetupEnds, ConnectsFound
<1>6. CASE ConnectFails
  BY <1>1, <1>6
  DEF ConnectFails, GiveUp, NextSlot, scan, adv, CrossInv, TypeOK, ServesUndisturbed,
      FoundIsHeld, SetupEnds, ConnectsFound
<1>7. CASE ServiceFound
  BY <1>1, <1>7
  DEF ServiceFound, NextSlot, scan, adv, CrossInv, ServesUndisturbed, FoundIsHeld,
      SetupEnds, ConnectsFound
<1>8. CASE ServiceFails
  BY <1>1, <1>8
  DEF ServiceFails, GiveUp, NextSlot, scan, adv, CrossInv, TypeOK, ServesUndisturbed,
      FoundIsHeld, SetupEnds, ConnectsFound
<1> QED  BY <1>2, <1>3, <1>4, <1>5, <1>6, <1>7, <1>8

LEMMA CrossInvWrite ==
  ASSUME CrossInv, crossed' = crossed,
         WriteStart \/ ReadBalancer \/ SwitchBalancer \/ WriteOther
           \/ (\E sent \in BOOLEAN : EndWrite(sent)) \/ Request \/ CountDown
  PROVE  CrossInv'
<1>1. TypeOK'  BY WriteType DEF CrossInv
<1>2. CASE WriteStart
  BY <1>1, <1>2
  DEF WriteStart, NextWrite, scan, adv, CrossInv, TypeOK, ServesUndisturbed, FoundIsHeld,
      SetupEnds, ConnectsFound
<1>3. CASE ReadBalancer
  BY <1>1, <1>3
  DEF ReadBalancer, scan, adv, device, CrossInv, ServesUndisturbed, FoundIsHeld,
      SetupEnds, ConnectsFound
<1>4. CASE SwitchBalancer
  BY <1>1, <1>4
  DEF SwitchBalancer, NextWrite, scan, adv, CrossInv, ServesUndisturbed, FoundIsHeld,
      SetupEnds, ConnectsFound
<1>5. CASE WriteOther
  BY <1>1, <1>5
  DEF WriteOther, NextWrite, scan, adv, CrossInv, ServesUndisturbed, FoundIsHeld,
      SetupEnds, ConnectsFound
<1>6. CASE \E sent \in BOOLEAN : EndWrite(sent)
  BY <1>1, <1>6
  DEF EndWrite, scan, adv, device, CrossInv, ServesUndisturbed, FoundIsHeld, SetupEnds,
      ConnectsFound
<1>7. CASE Request
  BY <1>1, <1>7
  DEF Request, adv, device, CrossInv, ServesUndisturbed, FoundIsHeld, SetupEnds,
      ConnectsFound
<1>8. CASE CountDown
  BY <1>1, <1>8
  DEF CountDown, adv, device, CrossInv, ServesUndisturbed, FoundIsHeld, SetupEnds,
      ConnectsFound
<1> QED  BY <1>2, <1>3, <1>4, <1>5, <1>6, <1>7, <1>8

LEMMA CrossInvHolds == HSpec => []CrossInv
<1>1. HInit => CrossInv
  BY InitType
  DEF HInit, Init, CrossInv, ServesUndisturbed, FoundIsHeld, SetupEnds, ConnectsFound
<1>2. CrossInv /\ [HNext]_hvars => CrossInv'
  <2> SUFFICES ASSUME CrossInv, [HNext]_hvars PROVE CrossInv'
    OBVIOUS
  <2>1. CASE UNCHANGED hvars
    BY <2>1
    DEF hvars, history, vars, env, scan, adv, device, local, CrossInv, TypeOK,
        ServesUndisturbed, FoundIsHeld, SetupEnds, ConnectsFound
  <2>2. CASE HNext
    BY <2>2, StepKeepsHistory, CrossInvScan, CrossInvOthers, CrossInvHost,
       CrossInvConnect, CrossInvWrite
  <2> QED  BY <2>1, <2>2
<1> QED  BY <1>1, <1>2, PTL DEF HSpec

(* When run() connects, the number and the scan result stored last are     *)
(* those of the slot it has picked, unless a scan was started while the    *)
(* device found waited.  (BleHandler.cpp:152-153, 244, 690)                *)
THEOREM RunConnectsFound == HSpec => []ConnectsFound
BY CrossInvHolds, PTL DEF CrossInv

(* No slot is left behind in btConnectionSetup, with the same exception.   *)
(* (BleHandler.cpp:681-700)                                                *)
THEOREM RunEndsSetup == HSpec => []SetupEnds
BY CrossInvHolds, PTL DEF CrossInv
-----------------------------------------------------------------------------
(* The steps that leave requests alone: they switch no balancer, and the   *)
(* request that run() has read stays with it.                              *)
LEMMA RunLeavesBalancers ==
  ASSUME StartRun \/ CheckSlot \/ BeginConnect \/ ConnectFails \/ ServiceFound
           \/ ServiceFails \/ WriteStart \/ WriteOther
           \/ (\E sent \in BOOLEAN : EndWrite(sent)) \/ Request \/ StartScanning \/ CountDown
  PROVE  pc' # "switch" /\ balancerOn' = balancerOn
<1>1. CASE StartRun  BY <1>1 DEF StartRun
<1>2. CASE CheckSlot  BY <1>2 DEF CheckSlot, NextSlot, device
<1>3. CASE BeginConnect  BY <1>3 DEF BeginConnect
<1>4. CASE ConnectFails  BY <1>4 DEF ConnectFails, GiveUp, NextSlot
<1>5. CASE ServiceFound  BY <1>5 DEF ServiceFound, NextSlot
<1>6. CASE ServiceFails  BY <1>6 DEF ServiceFails, GiveUp, NextSlot
<1>7. CASE WriteStart  BY <1>7 DEF WriteStart, NextWrite
<1>8. CASE WriteOther  BY <1>8 DEF WriteOther, NextWrite
<1>9. CASE \E sent \in BOOLEAN : EndWrite(sent)  BY <1>9 DEF EndWrite, device
<1>10. CASE Request  BY <1>10 DEF Request, device
<1>11. CASE StartScanning  BY <1>11 DEF StartScanning, device
<1>12. CASE CountDown  BY <1>12 DEF CountDown, device
<1> QED
  BY <1>1, <1>2, <1>3, <1>4, <1>5, <1>6, <1>7, <1>8, <1>9, <1>10, <1>11, <1>12

LEMMA OthersLeaveBalancers ==
  ASSUME Host \/ SaveSetting \/ ChangeTriggers \/ WifiOn \/ WifiOff \/ Start \/ Stop
           \/ StartScan \/ SendDataToNeey
  PROVE  UNCHANGED <<pc, k, to, balancerOn>>
BY Zenon
DEF Host, OnResult, OnDisconnect, SaveSetting, ChangeTriggers, WifiOn, WifiOff, Start,
    Stop, StartScan, SendDataToNeey, local, device

LEMMA StepRequests ==
  ASSUME HNext
  PROVE  \/ ConnectSucceeds /\ RecordConnect
         \/ \E on \in BOOLEAN : SetBalancerState(on) /\ RecordRequest(on)
         \/ /\ request' = request /\ raced' = raced
            /\ \/ ReadBalancer \/ SwitchBalancer
               \/ pc' # "switch" /\ balancerOn' = balancerOn
               \/ UNCHANGED <<pc, k, to, balancerOn>>
<1>1. CASE Proceeds \/ Offline
  BY <1>1, RunLeavesBalancers, OthersLeaveBalancers, Zenon
  DEF Proceeds, Offline, Steps, Works, history, RecordFailure, RecordScan
<1>2. CASE \E s \in Slot : Closed(s) \/ Found(s)
  BY <1>2, OthersLeaveBalancers, Zenon DEF Closed, Found, history, RecordResult, Host
<1>3. CASE Disturbs
  BY <1>3, RunLeavesBalancers, OthersLeaveBalancers, Zenon
  DEF Disturbs, ScanFails, history, RecordFailure, RecordScan, RecordExcuse,
      RecordResult, Host
<1> QED  BY <1>1, <1>2, <1>3, Zenon DEF HNext

(* What run() has read of a request is the last request, unless another    *)
(* has come since.                                                         *)
RequestRead ==
  pc = "switch" /\ k \notin raced =>
    /\ request[k] = "on"  => to = "isOn"
    /\ request[k] = "off" => to = "isOff"

RequestInv ==
  /\ request \in [Slot -> {"none", "on", "off"}] /\ raced \subseteq Slot
  /\ RequestKept /\ RequestRead

(* The last state requested of a balancer is kept until it is carried out, *)
(* whatever comes in between.  (BleHandler.cpp:646-656, 790-799)           *)
THEOREM RunKeepsRequest == HSpec => []RequestKept
<1>1. HInit => TypeOK /\ RequestInv
  BY InitType DEF HInit, Init, RequestInv, RequestKept, RequestRead
<1>2. TypeOK /\ RequestInv /\ [HNext]_hvars => TypeOK' /\ RequestInv'
  <2> SUFFICES ASSUME TypeOK, RequestInv, [HNext]_hvars PROVE TypeOK' /\ RequestInv'
    OBVIOUS
  <2>1. TypeOK'  BY HStepType
  <2>2. CASE ConnectSucceeds /\ RecordConnect
    BY <2>1, <2>2
    DEF ConnectSucceeds, RecordConnect, TypeOK, RequestInv, RequestKept, RequestRead
  <2>3. CASE \E on \in BOOLEAN : SetBalancerState(on) /\ RecordRequest(on)
    <3> PICK on \in BOOLEAN : SetBalancerState(on) /\ RecordRequest(on)
      BY <2>3
    <3>1. /\ balancerOn' = [s \in Slot |->
               IF on THEN IF balancerOn[s] = "isOn" THEN "isOn" ELSE "toOn"
                     ELSE IF balancerOn[s] = "isOff" THEN "isOff" ELSE "toOff"]
          /\ request' = [s \in Slot |-> IF on THEN "on" ELSE "off"]
          /\ raced' = IF pc = "switch" THEN {k} ELSE {}
          /\ pc' = pc /\ k' = k /\ to' = to
      BY DEF SetBalancerState, RecordRequest, local
    <3> QED  BY <2>1, <3>1 DEF TypeOK, RequestInv, RequestKept, RequestRead
  <2>4. CASE request' = request /\ raced' = raced /\ ReadBalancer
    BY <2>1, <2>4
    DEF ReadBalancer, SwitchDue, device, TypeOK, RequestInv, RequestKept, RequestRead
  <2>5. CASE request' = request /\ raced' = raced /\ SwitchBalancer
    BY <2>1, <2>5
    DEF SwitchBalancer, NextWrite, TypeOK, RequestInv, RequestKept, RequestRead
  <2>6. CASE request' = request /\ raced' = raced /\ pc' # "switch" /\ balancerOn' = balancerOn
    BY <2>1, <2>6 DEF RequestInv, RequestKept, RequestRead
  <2>7. CASE UNCHANGED <<request, raced, pc, k, to, balancerOn>>
    BY <2>1, <2>7 DEF RequestInv, RequestKept, RequestRead
  <2>8. CASE UNCHANGED hvars
    BY <2>7, <2>8 DEF hvars, history, vars, device, local
  <2> QED
    BY <2>1, <2>2, <2>3, <2>4, <2>5, <2>6, <2>7, <2>8, StepRequests
<1> QED  BY <1>1, <1>2, PTL DEF HSpec, RequestInv
-----------------------------------------------------------------------------
(* A slot that is taken for connected, or written to, has a characteristic *)
(* unless its connection is being closed or set up, or could not be set    *)
(* up; a slot without a connection is not taken for connected.             *)
Addressed(s) ==
  \/ s \in isConnect \/ doConnect[s] = "waitStart"
  \/ doConnect[s] = "idle" /\ deviceTyp[s] # "none"

Answers(s) ==
  \/ s \in pChr \/ link[s] = "closing" \/ s \in failed
  \/ pc = "service" /\ advNr = s

DownIs(s) ==
  /\ s \notin isConnect /\ doConnect[s] # "waitStart"
  /\ doConnect[s] = "idle" /\ deviceTyp[s] # "none" => s \in failed

WriteInv ==
  /\ failed \subseteq Slot
  /\ \A s \in Slot : (Addressed(s) => Answers(s)) /\ (link[s] = "down" => DownIs(s))

LEMMA StepFailures ==
  ASSUME HNext
  PROVE  \/ ConnectSucceeds /\ failed' = failed \ {advNr}
         \/ (ConnectFails \/ ServiceFails) /\ RecordFailure
         \/ /\ failed' = failed
            /\ \/ StartRun \/ CheckSlot \/ BeginConnect \/ ServiceFound \/ WriteStart
               \/ ReadBalancer \/ SwitchBalancer \/ WriteOther
               \/ (\E sent \in BOOLEAN : EndWrite(sent))
               \/ Request \/ StartScanning \/ CountDown \/ Host \/ Others
<1>1. CASE Proceeds \/ Offline
  BY <1>1, Zenon
  DEF Proceeds, Offline, Steps, Works, history, RecordConnect, RecordScan, Others
<1>2. CASE \E s \in Slot : Closed(s) \/ Found(s)
  BY <1>2, Zenon DEF Closed, Found, history, RecordResult, Host
<1>3. CASE Disturbs
  BY <1>3, Zenon
  DEF Disturbs, ScanFails, history, RecordScan, RecordExcuse, RecordResult,
      RecordRequest, Host, Others
<1> QED  BY <1>1, <1>2, <1>3, Zenon DEF HNext

(* An attempt that fails is recorded, or its connection is being closed.   *)
LEMMA WriteInvFailure ==
  ASSUME CrossInv, WriteInv, ConnectFails \/ ServiceFails, RecordFailure
  PROVE  WriteInv'
<1>1. failed' = failed \cup ({k} \ isConnect) /\ k \in Slot
  BY DEF RecordFailure, CrossInv, TypeOK
<1>2. CASE ConnectFails
  BY <1>1, <1>2
  DEF ConnectFails, GiveUp, NextSlot, adv, CrossInv, TypeOK, WriteInv, Addressed, Answers,
      DownIs
<1>3. CASE ServiceFails
  <2>1. /\ link' = Closing({advNr}) /\ pChr \subseteq pChr' /\ pc = "service"
        /\ doConnect' = [doConnect EXCEPT ![k] = "idle"]
        /\ isConnect' = isConnect /\ deviceTyp' = deviceTyp
    BY <1>3 DEF ServiceFails, GiveUp
  <2>2. \A s \in Slot : /\ link'[s] = "down" <=> link[s] = "down"
                        /\ link[s] = "closing" => link'[s] = "closing"
                        /\ s = advNr => link'[s] \in {"closing", "down"}
    BY <2>1 DEF Closing, CrossInv, TypeOK
  <2>3. ASSUME NEW s \in Slot, link'[s] = "down"
        PROVE  DownIs(s)'
    BY <1>1, <2>1, <2>2, <2>3 DEF CrossInv, TypeOK, WriteInv, DownIs
  <2>4. ASSUME NEW s \in Slot, Addressed(s)'
        PROVE  Answers(s)'
    <3>1. CASE s = k /\ s \notin isConnect
      BY <1>1, <3>1 DEF Answers
    <3>2. CASE s # k \/ s \in isConnect
      <4>1. Addressed(s)
        BY <2>1, <2>4, <3>2 DEF Addressed, CrossInv, TypeOK
      <4>2. CASE s \in pChr \/ link[s] = "closing" \/ s \in failed
        BY <1>1, <2>1, <2>2, <4>2 DEF Answers
      <4>3. CASE s = advNr
        <5>1. CASE link'[s] = "closing"  BY <5>1 DEF Answers
        <5>2. CASE link[s] = "down"
          BY <1>1, <4>1, <5>2 DEF Answers, Addressed, WriteInv, DownIs
        <5> QED  BY <2>2, <4>3, <5>1, <5>2
      <4> QED  BY <4>1, <4>2, <4>3 DEF WriteInv, Answers
    <3> QED  BY <3>1, <3>2
  <2> QED  BY <1>1, <2>3, <2>4 DEF WriteInv, CrossInv, TypeOK
<1> QED  BY <1>2, <1>3

LEMMA WriteInvOutside ==
  ASSUME CrossInv, WriteInv, failed' = failed, Host \/ Others
  PROVE  WriteInv'
<1>1. CASE Host
  <2> PICK s \in Slot : OnResult(s) \/ OnDisconnect(s)
    BY <1>1 DEF Host
  <2>1. CASE OnResult(s)
    <3>1. pc # "service"
      BY <2>1 DEF OnResult, CrossInv, ServesUndisturbed
    <3>2. /\ deviceTyp' = [deviceTyp EXCEPT ![s] = setting[s]]
          /\ doConnect' = [doConnect EXCEPT ![s] = "found"]
          /\ UNCHANGED <<isConnect, pChr, link>>
      BY <2>1 DEF OnResult
    <3>3. ASSUME NEW t \in Slot
          PROVE  (Addressed(t)' => Answers(t)') /\ (link'[t] = "down" => DownIs(t)')
      <4>1. CASE t = s
        BY <3>1, <3>2, <4>1
        DEF CrossInv, TypeOK, WriteInv, Addressed, Answers, DownIs
      <4>2. CASE t # s
        BY <3>1, <3>2, <4>2
        DEF CrossInv, TypeOK, WriteInv, Addressed, Answers, DownIs
      <4> QED  BY <4>1, <4>2
    <3> QED  BY <3>3 DEF WriteInv
  <2>2. CASE OnDisconnect(s)
    BY <2>2
    DEF OnDisconnect, adv, local, CrossInv, TypeOK, WriteInv, Addressed, Answers, DownIs
  <2> QED  BY <2>1, <2>2
<1>2. CASE Stop
  BY <1>2
  DEF Stop, Closing, adv, local, CrossInv, TypeOK, WriteInv, Addressed, Answers, DownIs
<1>3. CASE Others /\ ~Stop
  <2>1. UNCHANGED <<isConnect, doConnect, deviceTyp, pChr, link, pc, advNr>>
    BY <1>3, Zenon
    DEF Others, SaveSetting, ChangeTriggers, WifiOn, WifiOff, Start, StartScan,
        SendDataToNeey, SetBalancerState, adv, device, local
  <2> QED  BY <2>1 DEF WriteInv, Addressed, Answers, DownIs
<1> QED  BY <1>1, <1>2, <1>3

LEMMA WriteInvRun ==
  ASSUME CrossInv, WriteInv, failed' = failed,
         StartRun \/ CheckSlot \/ BeginConnect \/ ServiceFound \/ WriteStart
           \/ ReadBalancer \/ SwitchBalancer \/ WriteOther
           \/ (\E sent \in BOOLEAN : EndWrite(sent))
           \/ Request \/ StartScanning \/ CountDown
  PROVE  WriteInv'
<1>1. CASE StartRun
  BY <1>1
  DEF StartRun, Closing, adv, CrossInv, TypeOK, WriteInv, Addressed, Answers, DownIs
<1>2. CASE BeginConnect
  BY <1>2
  DEF BeginConnect, adv, CrossInv, TypeOK, WriteInv, Addressed, Answers, DownIs
<1>3. CASE ServiceFound
  BY <1>3
  DEF ServiceFound, NextSlot, adv, CrossInv, TypeOK, WriteInv, Addressed, Answers, DownIs
<1>4. CASE WriteStart
  BY <1>4
  DEF WriteStart, adv, CrossInv, TypeOK, WriteInv, Addressed, Answers, DownIs
<1>5. CASE CheckSlot \/ ReadBalancer \/ SwitchBalancer \/ WriteOther
             \/ (\E sent \in BOOLEAN : EndWrite(sent))
             \/ Request \/ StartScanning \/ CountDown
  <2>1. pc # "service" /\ UNCHANGED <<isConnect, doConnect, deviceTyp, pChr, link>>
    BY <1>5
    DEF CheckSlot, ReadBalancer, SwitchBalancer, WriteOther, EndWrite, Request,
        StartScanning, CountDown, device
  <2> QED  BY <2>1 DEF WriteInv, Addressed, Answers, DownIs
<1> QED  BY <1>1, <1>2, <1>3, <1>4, <1>5

(* What is written to a slot has a characteristic to be written to, with   *)
(* the two exceptions that WriteReady names.  (BleHandler.cpp:154, 712-720) *)
THEOREM RunWritesReady == HSpec => []WriteReady
<1>1. HInit => WriteInv
  BY DEF HInit, Init, WriteInv, Addressed, Answers, DownIs
<1>2. CrossInv /\ WriteInv /\ [HNext]_hvars => WriteInv'
  <2> SUFFICES ASSUME CrossInv, WriteInv, [HNext]_hvars PROVE WriteInv'
    OBVIOUS
  <2>1. CASE ConnectSucceeds /\ failed' = failed \ {advNr}
    BY <2>1
    DEF ConnectSucceeds, adv, CrossInv, TypeOK, WriteInv, Addressed, Answers, DownIs
  <2>2. CASE UNCHANGED hvars
    BY <2>2
    DEF hvars, history, vars, adv, device, local, WriteInv, Addressed, Answers, DownIs
  <2> QED
    BY <2>1, <2>2, StepFailures, WriteInvFailure, WriteInvOutside, WriteInvRun
<1>3. CrossInv /\ WriteInv => WriteReady
  BY DEF CrossInv, TypeOK, WriteInv, WriteReady, Written, Addressed, Answers
<1> QED  BY <1>1, <1>2, <1>3, CrossInvHolds, PTL DEF HSpec

-----------------------------------------------------------------------------
(* Blocking MQTT.  A scan that runs has time left: the timer is shared     *)
(* with the connections and is counted down only while a scan runs, and a  *)
(* scan that found it at 0 would never end.                                *)
ScanHasTime == scanning => timer > 1

(* Every scan comes to its end, by a device it finds, by settings that are *)
(* to be sent or by its time, whoever starts it, and whatever is connected *)
(* or stopped meanwhile.  (BleHandler.cpp:611-641, 690)                    *)
THEOREM ScansEnd == Spec => []ScanHasTime
<1>1. Init => ScanHasTime
  BY DEF Init, ScanHasTime
<1>2. TypeOK /\ ScanHasTime /\ [Next]_vars => ScanHasTime'
  <2> SUFFICES ASSUME TypeOK, ScanHasTime, [Next]_vars PROVE ScanHasTime'
    OBVIOUS
  <2>1. ScanTime \in Nat /\ ScanTime > 1 /\ timer \in Nat
    BY SlotAssumption DEF TypeOK
  <2>2. CASE CountDown
    <3> DEFINE left == IF scanning /\ timer > 0 THEN timer - 1 ELSE timer
               over == left = 1
    <3>1. timer' = (IF over THEN 0 ELSE left) /\ scanning' = (scanning /\ ~over)
      BY <2>2, Zenon DEF CountDown
    <3>2. CASE ~scanning \/ over
      <4>1. ~scanning'  BY <3>1, <3>2, Zenon
      <4> QED  BY <4>1 DEF ScanHasTime
    <3>3. CASE scanning /\ ~over
      <4>1. timer > 1 /\ left = timer - 1  BY <2>1, <3>3 DEF ScanHasTime
      <4>2. timer' = left  BY <3>1, <3>3, Zenon
      <4> QED  BY <2>1, <3>3, <4>1, <4>2 DEF ScanHasTime
    <3> QED  BY <3>2, <3>3
  <2>3. CASE StartScanning
    BY <2>1, <2>3 DEF StartScanning, BeginScan, ScanHasTime
  <2>4. CASE ConnectSucceeds
    BY <2>1, <2>4 DEF ConnectSucceeds, ScanHasTime
  <2>5. CASE Request
    BY <2>5 DEF Request, ScanHasTime
  <2>6. CASE Host
    BY <2>6 DEF Host, OnResult, OnDisconnect, scan, ScanHasTime
  <2>7. CASE \/ StartRun \/ CheckSlot \/ BeginConnect \/ ConnectFails \/ ServiceFound
             \/ ServiceFails \/ WriteStart \/ ReadBalancer \/ SwitchBalancer
             \/ WriteOther \/ (\E sent \in BOOLEAN : EndWrite(sent)) \/ Others
             \/ UNCHANGED vars
    <3>1. timer' = timer /\ scanning' = scanning
      BY <2>7, Zenon
      DEF StartRun, CheckSlot, BeginConnect, ConnectFails, ServiceFound, ServiceFails,
          WriteStart, ReadBalancer, SwitchBalancer, WriteOther, EndWrite, Others,
          SaveSetting, ChangeTriggers, WifiOn, WifiOff, Start, Stop, StartScan,
          SendDataToNeey, SetBalancerState, vars, scan
    <3> QED  BY <3>1 DEF ScanHasTime
  <2> QED  BY <2>2, <2>3, <2>4, <2>5, <2>6, <2>7, Zenon DEF Next, Run
<1> QED  BY <1>1, <1>2, BleTypeCorrect, PTL DEF Spec

(* Somebody has still to serve the slot: it is being connected or closed,  *)
(* or the next run will look for its device.                               *)
Pending(s) == doConnect[s] # "idle" \/ link[s] = "closing" \/ Missing(s)

StartUnderWay == startWritten /\ pc \in {"write", "switch", "written"}

BlockedForReason ==
  notAll /\ ~crossed /\ ~excused =>
    (scanning /\ timer > 1) \/ StartUnderWay \/ \E s \in Slot : Pending(s)

(* As long as no settings have changed and only missing devices have been  *)
(* found: a slot with a connection, or one under way, is to be served, and *)
(* between a failed attempt and the end of its connection it stays so.     *)
HeldInv ==
  ~crossed /\ ~excused =>
    /\ \A s \in Slot :
         /\ doConnect[s] # "idle" \/ link[s] # "down" => setting[s] \in Kind /\ s \notin off
         /\ doConnect[s] \in {"found", "setup"} => s \notin isConnect
         /\ doConnect[s] = "waitStart" => link[s] # "down"
    /\ pc = "connect" => \/ doConnect[k] = "setup"
                         \/ doConnect[k] = "idle" /\ deviceTyp[k] = "none"
    /\ pc = "service" => advNr = k /\ doConnect[k] \in {"waitStart", "idle"}

ReasonInv ==
  /\ HeldInv
  /\ notAll /\ ~crossed /\ ~excused =>
       scanning \/ StartUnderWay \/ \E s \in Slot : Pending(s)

(* The steps of run() but the start of a scan, and what does not change    *)
(* what is to be served.                                                   *)
RunOn ==
  \/ StartRun \/ CheckSlot \/ BeginConnect \/ ConnectSucceeds \/ ConnectFails
  \/ ServiceFound \/ ServiceFails \/ WriteStart \/ ReadBalancer \/ SwitchBalancer
  \/ WriteOther \/ (\E sent \in BOOLEAN : EndWrite(sent)) \/ Request \/ CountDown

OthersAsk ==
  \/ WifiOn \/ WifiOff \/ Start \/ Stop \/ StartScan \/ SendDataToNeey
  \/ \E on \in BOOLEAN : SetBalancerState(on)

LEMMA ResultExcuses ==
  ASSUME NEW s \in Slot, RecordResult(s)
  PROVE  crossed' = crossed /\ (~excused' => ~excused /\ Missing(s))
BY DEF RecordResult

(* What a step does to the excuses.                                        *)
LEMMA StepExcuses ==
  ASSUME HNext
  PROVE  /\ ~crossed' => ~crossed
         /\ ~excused' => ~excused
         /\ \/ StartScanning /\ RecordScan
            \/ RunOn
            \/ \E s \in Slot : OnResult(s) /\ RecordResult(s)
            \/ \E s \in Slot : OnDisconnect(s)
            \/ (SaveSetting \/ ChangeTriggers) /\ excused'
            \/ OthersAsk
<1>1. CASE Proceeds \/ Offline
  <2>1. CASE (Works \/ Start) /\ UNCHANGED history
    BY <2>1, Zenon DEF Works, RunOn, OthersAsk, history
  <2>2. CASE ConnectSucceeds /\ RecordConnect
    BY <2>2, Zenon DEF RunOn, RecordConnect
  <2>3. CASE (ConnectFails \/ ServiceFails) /\ RecordFailure
    BY <2>3, Zenon DEF RunOn, RecordFailure
  <2>4. CASE StartScanning /\ RecordScan
    BY <2>4, Zenon DEF RecordScan
  <2>5. CASE Offline  BY <2>5, Zenon DEF Offline, OthersAsk, history
  <2> QED  BY <1>1, <2>1, <2>2, <2>3, <2>4, <2>5, Zenon DEF Proceeds, Steps
<1>2. CASE \E s \in Slot : Closed(s) \/ Found(s)
  <2> PICK s \in Slot : Closed(s) \/ Found(s)
    BY <1>2
  <2>1. CASE Closed(s)
    <3>1. OnDisconnect(s) /\ UNCHANGED <<crossed, excused>>
      BY <2>1, Zenon DEF Closed, history
    <3> QED  BY <3>1, Zenon
  <2>2. CASE Found(s)
    <3>1. OnResult(s) /\ RecordResult(s)  BY <2>2, Zenon DEF Found
    <3> QED  BY <3>1, ResultExcuses, Zenon
  <2> QED  BY <2>1, <2>2
<1>3. CASE Disturbs
  <2>1. CASE (ConnectFails \/ ServiceFails) /\ RecordFailure
    BY <2>1, Zenon DEF RunOn, RecordFailure
  <2>2. CASE ScanFails /\ RecordScan
    BY <2>2, Zenon DEF ScanFails, RecordScan
  <2>3. CASE (SaveSetting \/ ChangeTriggers) /\ RecordExcuse
    BY <2>3, Zenon DEF RecordExcuse
  <2>4. CASE \E s \in Slot : OnResult(s) /\ RecordResult(s)
    BY <2>4, ResultExcuses, Zenon
  <2>5. CASE \E on \in BOOLEAN : SetBalancerState(on) /\ RecordRequest(on)
    <3>1. UNCHANGED <<crossed, excused>>  BY <2>5, Zenon DEF RecordRequest
    <3>2. OthersAsk  BY <2>5, Zenon DEF OthersAsk
    <3> QED  BY <3>1, <3>2, Zenon
  <2>6. CASE (EndWrite(FALSE) \/ WifiOff \/ StartScan \/ SendDataToNeey) /\ UNCHANGED history
    BY <2>6, Zenon DEF RunOn, OthersAsk, history
  <2>7. CASE (\E s \in Slot : OnDisconnect(s)) /\ UNCHANGED history
    BY <2>7, Zenon DEF history
  <2> QED  BY <1>3, <2>1, <2>2, <2>3, <2>4, <2>5, <2>6, <2>7, Zenon DEF Disturbs
<1> QED  BY <1>1, <1>2, <1>3, Zenon DEF HNext

(* Steps that leave the slots as they are keep what is said of them.       *)
LEMMA SlotsKept ==
  ASSUME UNCHANGED <<setting, off, doConnect, isConnect, link>>
  PROVE  \A s \in Slot : Pending(s) => Pending(s)'
BY DEF Pending, Missing

LEMMA HeldKept ==
  ASSUME HeldInv, ~crossed, ~excused, UNCHANGED <<setting, off, doConnect, isConnect, link>>,
         pc' \notin {"connect", "service"}
  PROVE  HeldInv'
BY DEF HeldInv

Reason == scanning \/ StartUnderWay \/ \E s \in Slot : Pending(s)

LEMMA ReasonOutside ==
  ASSUME CrossInv, ReasonInv, ~crossed, ~excused, ~crossed', ~excused',
         \/ \E s \in Slot : OnResult(s) /\ RecordResult(s)
         \/ \E s \in Slot : OnDisconnect(s)
         \/ OthersAsk
  PROVE  HeldInv' /\ (notAll' => Reason')
<1>1. ASSUME NEW s \in Slot, OnResult(s), RecordResult(s)
      PROVE  HeldInv' /\ Reason'
  <2>1. Missing(s)  BY <1>1, ResultExcuses
  <2>2. pc \notin {"connect", "service"}
    BY <1>1 DEF OnResult, CrossInv, ServesUndisturbed
  <2>3. /\ doConnect' = [doConnect EXCEPT ![s] = "found"] /\ setting[s] \in Kind
        /\ UNCHANGED <<setting, off, isConnect, link, pc>>
    BY <1>1 DEF OnResult, env, local
  <2>4. HeldInv'
    BY <2>1, <2>2, <2>3 DEF ReasonInv, HeldInv, Missing, CrossInv, TypeOK
  <2>5. Pending(s)'  BY <2>3 DEF Pending, CrossInv, TypeOK
  <2> QED  BY <2>4, <2>5 DEF Reason
<1>2. ASSUME NEW s \in Slot, OnDisconnect(s)
      PROVE  HeldInv' /\ Reason'
  <2>1. /\ link[s] # "down" /\ link' = [link EXCEPT ![s] = "down"]
        /\ isConnect' = isConnect \ {s}
        /\ doConnect' = [doConnect EXCEPT ![s] = "idle"]
        /\ deviceTyp' = [deviceTyp EXCEPT ![s] = "none"]
        /\ UNCHANGED <<setting, off, advNr, pc, k>>
    BY <1>2 DEF OnDisconnect, env, adv, local
  <2>2. HeldInv'
    BY <2>1 DEF ReasonInv, HeldInv, CrossInv, TypeOK
  <2>3. setting[s] \in Kind /\ s \notin off
    BY <2>1 DEF ReasonInv, HeldInv
  <2>4. Missing(s)'
    BY <2>1, <2>3 DEF Missing, Kind, CrossInv, TypeOK
  <2> QED  BY <2>2, <2>4 DEF Reason, Pending
<1>3. CASE Stop
  <2>1. /\ \A s \in Slot : link'[s] = "down" <=> link[s] = "down"
        /\ UNCHANGED <<setting, off, advNr, doConnect, isConnect, deviceTyp, pc, k>>
        /\ ~notAll'
    BY <1>3 DEF Stop, Closing, adv, local, CrossInv, TypeOK
  <2> QED  BY <2>1 DEF ReasonInv, HeldInv
<1>4. CASE OthersAsk /\ ~Stop
  <2>1. UNCHANGED <<setting, off, doConnect, isConnect, deviceTyp, link, advNr, pc, k>>
    BY <1>4, Zenon
    DEF OthersAsk, WifiOn, WifiOff, Start, StartScan, SendDataToNeey, SetBalancerState,
        adv, device, local, env
  <2>2. UNCHANGED <<scanning, notAll, startWritten>>
    BY <1>4, Zenon
    DEF OthersAsk, WifiOn, WifiOff, Start, StartScan, SendDataToNeey, SetBalancerState,
        scan, local
  <2> QED
    BY <2>1, <2>2, SlotsKept DEF ReasonInv, HeldInv, Reason, StartUnderWay
<1> QED  BY <1>1, <1>2, <1>3, <1>4

(* The steps of run() around a connection.                                 *)
LEMMA ReasonConnect ==
  ASSUME CrossInv, ReasonInv, ~crossed, ~excused,
         StartRun \/ BeginConnect \/ ConnectSucceeds \/ ServiceFound \/ WriteStart
  PROVE  HeldInv' /\ (notAll' => Reason')
<1>1. CASE StartRun
  <2>1. /\ \A s \in Slot : /\ link'[s] = "down" <=> link[s] = "down"
                           /\ link[s] = "closing" => link'[s] = "closing"
        /\ UNCHANGED <<setting, off, advNr, doConnect, isConnect, notAll, scanning>>
        /\ pc = "wait" /\ pc' \in {"request", "slots"}
    BY <1>1 DEF StartRun, Closing, env, scan, adv, CrossInv, TypeOK
  <2>2. \A s \in Slot : Pending(s) => Pending(s)'  BY <2>1 DEF Pending, Missing
  <2> QED  BY <2>1, <2>2 DEF ReasonInv, HeldInv, Reason, StartUnderWay
<1>2. CASE BeginConnect
  <2>1. /\ pc = "slots" /\ pc' = "connect" /\ k' = k /\ k \in Slot /\ doConnect[k] = "found"
        /\ doConnect' = [doConnect EXCEPT ![k] = "setup"]
        /\ UNCHANGED <<setting, off, advNr, isConnect, link, notAll, scanning>>
    BY <1>2 DEF BeginConnect, env, scan, adv, CrossInv, TypeOK
  <2>2. HeldInv'  BY <2>1 DEF ReasonInv, HeldInv, CrossInv, TypeOK
  <2>3. Pending(k)'  BY <2>1 DEF Pending, CrossInv, TypeOK
  <2> QED  BY <2>1, <2>2, <2>3 DEF Reason
<1>3. CASE ConnectSucceeds
  <2>1. /\ pc = "connect" /\ pc' = "service" /\ k' = k /\ k \in Slot /\ advNr = k
    BY <1>3 DEF ConnectSucceeds, CrossInv, TypeOK, ConnectsFound
  <2>2. /\ link' = [link EXCEPT ![k] = "up"] /\ isConnect' = isConnect \cup {k}
        /\ doConnect' = [doConnect EXCEPT ![k] = "waitStart"] /\ link[k] = "down"
        /\ UNCHANGED <<setting, off, advNr>>
    BY <1>3, <2>1 DEF ConnectSucceeds, env, adv
  <2>3. deviceTyp[k] # "none"
    BY <1>3, <2>1 DEF ConnectSucceeds
  <2>4. doConnect[k] = "setup"
    BY <2>1, <2>3 DEF ReasonInv, HeldInv
  <2>5. HeldInv'
    BY <2>1, <2>2, <2>4 DEF ReasonInv, HeldInv, CrossInv, TypeOK
  <2>6. Pending(k)'
    <3>1. doConnect'[k] = "waitStart"  BY <2>1, <2>2 DEF CrossInv, TypeOK
    <3> QED  BY <2>1, <3>1 DEF Pending
  <2> QED  BY <2>1, <2>5, <2>6 DEF Reason
<1>4. CASE ServiceFound
  <2>1. UNCHANGED <<setting, off, doConnect, isConnect, link, notAll, scanning>>
    BY <1>4 DEF ServiceFound, env, scan
  <2>2. pc' \in {"slots", "write", "request"} /\ pc = "service"
    BY <1>4 DEF ServiceFound, NextSlot
  <2> QED
    BY <2>1, <2>2, SlotsKept, HeldKept DEF ReasonInv, Reason, StartUnderWay
<1>5. CASE WriteStart
  <2>1. /\ pc' \in {"write", "written"} /\ startWritten'
        /\ doConnect' = [doConnect EXCEPT ![k] = "idle"]
        /\ UNCHANGED <<setting, off, isConnect, link>>
    BY <1>5 DEF WriteStart, NextWrite, env
  <2>2. HeldInv'
    BY <2>1 DEF ReasonInv, HeldInv, CrossInv, TypeOK
  <2> QED  BY <2>1, <2>2 DEF Reason, StartUnderWay
<1> QED  BY <1>1, <1>2, <1>3, <1>4, <1>5

(* An attempt that fails leaves the slot to the next run, or to the end of *)
(* its connection.                                                         *)
LEMMA ReasonFailure ==
  ASSUME CrossInv, ReasonInv, ~crossed, ~excused, ConnectFails \/ ServiceFails
  PROVE  HeldInv' /\ (notAll' => Reason')
<1>1. /\ doConnect' = [doConnect EXCEPT ![k] = "idle"] /\ k \in Slot
      /\ pc' \in {"slots", "write", "request"} /\ pc \in {"connect", "service"}
      /\ UNCHANGED <<setting, off, isConnect, notAll, scanning>>
  BY DEF ConnectFails, ServiceFails, GiveUp, NextSlot, env, scan, CrossInv, TypeOK
<1>2. \A s \in Slot : /\ link'[s] = "down" <=> link[s] = "down"
                      /\ link[s] = "closing" => link'[s] = "closing"
  BY DEF ConnectFails, ServiceFails, Closing, CrossInv, TypeOK
<1>3. HeldInv'
  BY <1>1, <1>2 DEF ReasonInv, HeldInv, CrossInv, TypeOK
<1>4. ASSUME NEW s \in Slot, s = k, doConnect[s] # "idle"
      PROVE  Pending(s)'
  <2>1. CASE ConnectFails
    <3>1. pc = "connect"  BY <2>1 DEF ConnectFails
    <3>2. s \notin isConnect /\ setting[s] \in Kind /\ s \notin off
      BY <1>4, <3>1 DEF ReasonInv, HeldInv
    <3>3. doConnect'[s] = "idle"  BY <1>1, <1>4 DEF CrossInv, TypeOK
    <3> QED  BY <1>1, <3>2, <3>3 DEF Pending, Missing, Kind
  <2>2. CASE ServiceFails
    <3>1. advNr = k /\ doConnect[k] \in {"waitStart", "idle"}
      BY <2>2 DEF ServiceFails, ReasonInv, HeldInv
    <3>2. link[s] # "down"
      BY <1>4, <3>1 DEF ReasonInv, HeldInv
    <3>3. link'[s] = "closing"
      BY <1>4, <2>2, <3>1, <3>2 DEF ServiceFails, Closing, CrossInv, TypeOK
    <3> QED  BY <3>2, <3>3 DEF Pending
  <2> QED  BY <2>1, <2>2
<1>5. ASSUME NEW s \in Slot, Pending(s)
      PROVE  Pending(s)'
  <2>1. CASE s = k /\ doConnect[k] # "idle"  BY <1>4, <2>1
  <2>2. CASE s # k \/ doConnect[k] = "idle"
    <3>1. doConnect'[s] = doConnect[s]  BY <1>1, <2>2 DEF CrossInv, TypeOK
    <3> QED  BY <1>1, <1>2, <1>5, <3>1 DEF Pending, Missing
  <2> QED  BY <2>1, <2>2
<1> QED  BY <1>1, <1>3, <1>5 DEF ReasonInv, Reason, StartUnderWay

(* The other steps of run(), which change no slot.                         *)
LEMMA ReasonRun ==
  ASSUME CrossInv, ReasonInv, ~crossed, ~excused,
         \/ CheckSlot \/ ReadBalancer \/ SwitchBalancer \/ WriteOther
         \/ (\E sent \in BOOLEAN : EndWrite(sent))
         \/ Request \/ StartScanning \/ CountDown
  PROVE  HeldInv' /\ (notAll' => Reason')
<1>1. /\ UNCHANGED <<setting, off, doConnect, isConnect, link>>
      /\ pc' \notin {"connect", "service"}
  BY DEF CheckSlot, NextSlot, ReadBalancer, SwitchBalancer, WriteOther, NextWrite, EndWrite,
         Request, StartScanning, CountDown, env, device
<1>2. HeldInv'  BY <1>1, HeldKept DEF ReasonInv
<1>3. ASSUME Reason, scanning => scanning', StartUnderWay => StartUnderWay'
      PROVE  Reason'
  BY <1>1, <1>3, SlotsKept DEF Reason
<1>4. notAll => Reason  BY DEF ReasonInv, Reason
<1>5. CASE CheckSlot
  BY <1>2, <1>3, <1>4, <1>5 DEF CheckSlot, scan, StartUnderWay
<1>6. CASE ReadBalancer \/ SwitchBalancer \/ WriteOther
  <2>1. /\ UNCHANGED <<notAll, scanning, startWritten>>
        /\ pc' \in {"write", "switch", "written"}
    BY <1>6 DEF ReadBalancer, SwitchBalancer, WriteOther, NextWrite, scan
  <2> QED  BY <1>2, <1>3, <1>4, <2>1 DEF StartUnderWay
<1>7. ASSUME NEW sent \in BOOLEAN, EndWrite(sent)
      PROVE  notAll' => Reason'
  <2>1. notAll' = (notAll /\ ~startWritten) /\ scanning' = scanning
    BY <1>7 DEF EndWrite, scan
  <2> QED  BY <1>3, <1>4, <2>1 DEF StartUnderWay
<1>8. CASE Request
  <2> DEFINE stop == scanning /\ send # "no" /\ ~want
  <2>1. /\ scanning' = (scanning /\ ~stop) /\ notAll' = (notAll /\ ~stop)
        /\ pc = "request"
    BY <1>8, Zenon DEF Request
  <2> HIDE DEF stop
  <2> QED  BY <1>2, <1>3, <1>4, <2>1 DEF StartUnderWay
<1>9. CASE StartScanning
  <2>1. CASE want /\ ~scanning
    <3>1. scanning'  BY <1>9, <2>1 DEF StartScanning, BeginScan
    <3> QED  BY <1>2, <3>1 DEF Reason
  <2>2. CASE ~(want /\ ~scanning)
    <3>1. UNCHANGED <<notAll, scanning>> /\ pc = "start"
      BY <1>9, <2>2, Zenon DEF StartScanning
    <3> QED  BY <1>2, <1>3, <1>4, <3>1 DEF StartUnderWay
  <2> QED  BY <2>1, <2>2
<1>10. CASE CountDown
  <2> DEFINE left == IF scanning /\ timer > 0 THEN timer - 1 ELSE timer
             over == left = 1
  <2>1. /\ scanning' = (scanning /\ ~over) /\ notAll' = (notAll /\ ~over)
        /\ pc = "timer"
    BY <1>10, Zenon DEF CountDown
  <2> HIDE DEF over
  <2> QED  BY <1>2, <1>3, <1>4, <2>1 DEF StartUnderWay
<1> QED  BY <1>2, <1>5, <1>6, <1>7, <1>8, <1>9, <1>10

LEMMA ReasonStep ==
  ASSUME CrossInv, ReasonInv, [HNext]_hvars
  PROVE  ReasonInv'
<1>1. CASE UNCHANGED hvars
  <2>1. UNCHANGED <<setting, off, advNr, doConnect, isConnect, deviceTyp, link, pc, k>>
    BY <1>1, Zenon DEF hvars, vars, env, adv, device, local
  <2>2. UNCHANGED <<notAll, scanning, startWritten, crossed, excused>>
    BY <1>1, Zenon DEF hvars, vars, history, scan, local
  <2> QED
    BY <2>1, <2>2, SlotsKept DEF ReasonInv, HeldInv, StartUnderWay
<1>2. CASE HNext
  <2>1. CASE crossed' \/ excused'
    BY <2>1 DEF ReasonInv, HeldInv
  <2>2. CASE ~crossed' /\ ~excused'
    <3>1. ~crossed /\ ~excused  BY <1>2, <2>2, StepExcuses
    <3>2. CASE \/ \E s \in Slot : OnResult(s) /\ RecordResult(s)
               \/ \E s \in Slot : OnDisconnect(s)
               \/ OthersAsk
      BY <2>2, <3>1, <3>2, ReasonOutside DEF ReasonInv, Reason
    <3>3. CASE StartScanning \/ RunOn
      <4>1. HeldInv' /\ (notAll' => Reason')
        BY <3>1, <3>3, ReasonConnect, ReasonFailure, ReasonRun, Zenon DEF RunOn
      <4> QED  BY <4>1 DEF ReasonInv, Reason
    <3> QED  BY <1>2, <2>2, <3>2, <3>3, StepExcuses
  <2> QED  BY <2>1, <2>2
<1> QED  BY <1>1, <1>2

(* The safety half of MqttReleased: MQTT is never blocked without a scan   *)
(* that will end or a device that is still to be served, with the excuses  *)
(* of that property.  (BleHandler.cpp:611-641, 827)                        *)
THEOREM MqttBlockedForReason == HSpec => []BlockedForReason
<1>1. HInit => ReasonInv
  BY DEF HInit, Init, ReasonInv, HeldInv
<1>2. HSpec => Spec
  <2>1. [HNext]_hvars => [Next]_vars
    <3>1. HNext => Next
      BY StepKeepsHistory, Zenon DEF Next, Run
    <3> QED  BY <3>1 DEF hvars
  <2> QED  BY <2>1, PTL DEF HSpec, HInit, Spec
<1>3. ReasonInv /\ ScanHasTime => BlockedForReason
  BY DEF ReasonInv, ScanHasTime, BlockedForReason
<1> QED
  BY <1>1, <1>2, <1>3, ReasonStep, CrossInvHolds, ScansEnd, PTL DEF HSpec
=============================================================================

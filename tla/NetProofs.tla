------------------------------ MODULE NetProofs ------------------------------
(* Proofs about Net and NetHistory, for any number of tasks that publish,  *)
(* any sizes and settings and any number of disturbances: types, the bound *)
(* on the buffer of messages, and that no value overtakes another.         *)
EXTENDS NetHistory, FiniteSetTheorems, SequenceTheorems, TLAPS

-----------------------------------------------------------------------------
(* The buffer as a sequence.                                               *)

LEMMA DataIsMessage == Data \in Message
BY DEF Message

LEMMA SentIs ==
  ASSUME NEW q \in Seq(Message), q # <<>>
  PROVE  /\ Tail(q) \in Seq(Message) /\ Len(q) \in Nat \ {0} /\ Len(Tail(q)) = Len(q) - 1
         /\ \A i \in 1 .. Len(Tail(q)) : Tail(q)[i] = q[i + 1]
         /\ Head(q) = q[1]
OBVIOUS

LEMMA PushedIs ==
  ASSUME NEW q \in Seq(Message), NEW m \in Message
  PROVE  /\ Append(q, m) \in Seq(Message) /\ Len(Append(q, m)) = Len(q) + 1
         /\ \A i \in 1 .. Len(q) : Append(q, m)[i] = q[i]
         /\ Append(q, m)[Len(q) + 1] = m
OBVIOUS

LEMMA TakenBound ==
  ASSUME NEW q \in Seq(Message)
  PROVE  /\ Taken(q) \in Nat
         /\ Len(q) + Taken(q) <= TxTop + 1 \/ Taken(q) = 0
<1>1. Len(q) \in Nat  OBVIOUS
<1> QED  BY <1>1, MqttAssumption DEF Taken, Room

(* What the WiFi task adds is appended, and is no task's value.            *)
LEMMA WithDataIs ==
  ASSUME NEW q \in Seq(Message)
  PROVE  /\ WithData(q) \in Seq(Message) /\ Len(WithData(q)) = Len(q) + Taken(q)
         /\ \A i \in 1 .. Len(q) : WithData(q)[i] = q[i]
         /\ \A i \in 1 .. Len(WithData(q)) : i > Len(q) => WithData(q)[i] = Data
<1> DEFINE d == [i \in 1 .. Taken(q) |-> Data]
<1>1. Taken(q) \in Nat  BY TakenBound
<1>2. d \in Seq(Message) /\ Len(d) = Taken(q)
  <2>1. d \in [1 .. Taken(q) -> Message]  BY DataIsMessage
  <2> QED  BY <1>1, <2>1
<1>3. \A i \in 1 .. Taken(q) : d[i] = Data  OBVIOUS
<1>4. WithData(q) = q \o d  BY DEF WithData
<1> HIDE DEF d
<1>5. Len(q) \in Nat  OBVIOUS
<1>6. /\ q \o d \in Seq(Message) /\ Len(q \o d) = Len(q) + Taken(q)
      /\ \A i \in 1 .. Len(q) + Taken(q) :
           (q \o d)[i] = IF i <= Len(q) THEN q[i] ELSE d[i - Len(q)]
  BY <1>2, ConcatProperties
<1>7. \A i \in 1 .. Len(q) + Taken(q) : i > Len(q) => (q \o d)[i] = Data
  BY <1>1, <1>3, <1>5, <1>6
<1> QED  BY <1>1, <1>4, <1>5, <1>6, <1>7

LEMMA SentType ==
  ASSUME txBuffer \in Seq(Message)
  PROVE  Sent \in Seq(Message) /\ WithData(Sent) \in Seq(Message)
<1>1. Sent \in Seq(Message)  BY SentIs DEF Sent
<1> QED  BY <1>1, WithDataIs

-----------------------------------------------------------------------------
(* Types.                                                                  *)

(* The type invariant in four parts, by who changes them.                  *)
LinkTypeOK ==
  /\ net \in BOOLEAN /\ link \in BOOLEAN /\ broker \in BOOLEAN /\ notAll \in BOOLEAN
  /\ trying \in BOOLEAN /\ again \in BOOLEAN
  /\ event \in {"none", "gotIp", "lost", "apStart"}
  /\ conn \in BOOLEAN /\ disc \in BOOLEAN

ClientTypeOK ==
  /\ enabled \in BOOLEAN /\ mqtt \in {"wait", "connected", "disconnected"}
  /\ session \in {"none", "open", "dead"} /\ attempts \in 0 .. Tries
  /\ txBuffer \in Seq(Message)

ValuesTypeOK ==
  /\ count \in [Publishers -> 0 .. ValueTop]
  /\ accepted \in [Publishers -> 0 .. ValueTop]

TaskTypeOK ==
  /\ setting \in Settings
  /\ wlan \in {"off", "sta", "ap"} /\ first \in BOOLEAN
  /\ state \in State /\ neverAp \in BOOLEAN
  /\ waits \in 0 .. WaitTop + 1 /\ passes \in 0 .. PassTop
  /\ server \in BOOLEAN /\ running \in BOOLEAN

LEMMA TypeParts ==
  TypeOK <=> LinkTypeOK /\ ClientTypeOK /\ ValuesTypeOK /\ TaskTypeOK
BY DEF TypeOK, MqttTypeOK, LinkTypeOK, ClientTypeOK, ValuesTypeOK, TaskTypeOK

LEMMA TypePartsNext ==
  TypeOK' <=> LinkTypeOK' /\ ClientTypeOK' /\ ValuesTypeOK' /\ TaskTypeOK'
BY TypeParts, PTL

LEMMA ClientKept ==
  ASSUME ClientTypeOK, UNCHANGED client
  PROVE  ClientTypeOK'
BY DEF ClientTypeOK, client

LEMMA ValuesKept ==
  ASSUME ValuesTypeOK, UNCHANGED tasks
  PROVE  ValuesTypeOK'
BY DEF ValuesTypeOK, tasks

LEMMA TaskKept ==
  ASSUME TaskTypeOK, UNCHANGED <<setting, task>>
  PROVE  TaskTypeOK'
BY DEF TaskTypeOK, task

LEMMA CountersStart == 0 \in 0 .. WaitTop + 1 /\ 0 \in 0 .. PassTop
BY NetAssumption

(* What the WiFi task does to the client keeps its types.                  *)
LEMMA ConnectMqttType ==
  ASSUME ClientTypeOK, NEW ret \in BOOLEAN, MqttConnect(ret)
  PROVE  ClientTypeOK'
<1>1. enabled' = enabled /\ txBuffer' = txBuffer  BY DEF MqttConnect
<1>2. CASE ~enabled
  BY <1>1, <1>2 DEF MqttConnect, ClientTypeOK
<1>3. CASE enabled /\ ~Configured
  BY <1>1, <1>3 DEF MqttConnect, ClientTypeOK
<1>4. CASE enabled /\ Configured /\ Connected
  BY <1>1, <1>4, MqttAssumption DEF MqttConnect, ClientTypeOK
<1>5. CASE enabled /\ Configured /\ ~Connected /\ attempts = Tries
  BY <1>1, <1>5, MqttAssumption DEF MqttConnect, GiveUpAttempt, ClientTypeOK
<1>6. CASE enabled /\ Configured /\ ~Connected /\ attempts # Tries
  BY <1>1, <1>6, MqttAssumption DEF MqttConnect, Attempt, ClientTypeOK
<1> QED  BY <1>2, <1>3, <1>4, <1>5, <1>6

LEMMA LoopMqttType ==
  ASSUME ClientTypeOK, NEW ret \in BOOLEAN, NEW pop \in BOOLEAN, MqttLoop(ret, pop)
  PROVE  ClientTypeOK'
<1>1. CASE UNCHANGED client
  BY <1>1, ClientKept
<1>2. CASE SendNext(pop)
  <2>1. txBuffer' \in {Sent, WithData(Sent), txBuffer, WithData(txBuffer)}
    BY <1>2 DEF SendNext
  <2>2. txBuffer' \in Seq(Message)
    BY <2>1, SentType, WithDataIs DEF ClientTypeOK
  <2> QED  BY <1>2, <2>2 DEF SendNext, ClientTypeOK
<1>3. CASE /\ mqtt' \in {"disconnected", "wait"}
           /\ UNCHANGED <<enabled, session, attempts, txBuffer>>
  BY <1>3 DEF ClientTypeOK
<1> QED  BY <1>1, <1>2, <1>3 DEF MqttLoop

LEMMA NetInitType == Init => TypeOK
<1> SUFFICES ASSUME Init PROVE TypeOK
  OBVIOUS
<1>1. setting \in [ssid : BOOLEAN, timeout : BOOLEAN, mqtt : BOOLEAN] /\ setting \in Settings
  BY NetAssumption DEF Init
<1>2. ClientTypeOK
  BY <1>1, MqttAssumption DEF Init, InitMqtt, ClientTypeOK
<1>3. ValuesTypeOK
  BY MqttAssumption DEF Init, InitMqtt, ValuesTypeOK
<1>4. LinkTypeOK  BY DEF Init, LinkTypeOK
<1>5. TaskTypeOK  BY <1>1, CountersStart DEF Init, TaskTypeOK, State
<1> QED  BY <1>2, <1>3, <1>4, <1>5, TypeParts

(* The steps of the WiFi task.                                             *)
LEMMA ConnectTaskType ==
  ASSUME TypeOK, ConnectTask
  PROVE  TypeOK'
<1> SUFFICES LinkTypeOK' /\ ClientTypeOK' /\ ValuesTypeOK' /\ TaskTypeOK'
  BY TypePartsNext
<1>1. LinkTypeOK /\ ClientTypeOK /\ ValuesTypeOK /\ TaskTypeOK
  BY TypeParts
<1>2. UNCHANGED tasks
  BY Zenon
  DEF ConnectTask, Connecting, Status, NoWifiConnection, ConnectWifi, WlanApMode,
      WifiConnected, ConnectMQTTstart, ConnectMQTT, MqttTimeout, ConnectBT, ConnectBT2,
      Leave, WifiDisconnected, Idle
<1>3. ValuesTypeOK'  BY <1>1, <1>2, ValuesKept
<1>4. CASE Connecting \/ WlanApMode \/ WifiConnected \/ ConnectMQTTstart
           \/ MqttTimeout \/ ConnectBT \/ ConnectBT2 \/ Leave
  <2>1. UNCHANGED <<setting, net, broker, station, event, conn, notAll, client>>
    BY <1>4, Zenon
    DEF Connecting, WlanApMode, WifiConnected, ConnectMQTTstart, MqttTimeout, ConnectBT,
        ConnectBT2, Leave, flags
  <2>2. disc' \in {FALSE, disc}
    BY <1>4
    DEF Connecting, WlanApMode, WifiConnected, ConnectMQTTstart, MqttTimeout, ConnectBT,
        ConnectBT2, Leave, flags
  <2>3. LinkTypeOK'  BY <1>1, <2>1, <2>2 DEF LinkTypeOK, station
  <2>4. UNCHANGED <<first, neverAp, waits>> /\ passes' \in {0, passes}
    BY <1>4
    DEF Connecting, WlanApMode, WifiConnected, ConnectMQTTstart, MqttTimeout, ConnectBT,
        ConnectBT2, Leave
  <2>5. /\ wlan' \in {"sta", wlan} /\ state' \in State
        /\ server' \in {TRUE, server} /\ running' \in {TRUE, running}
    BY <1>4
    DEF Connecting, WlanApMode, WifiConnected, ConnectMQTTstart, MqttTimeout, ConnectBT,
        ConnectBT2, Leave, State
  <2>6. waits' \in 0 .. WaitTop + 1 /\ passes' \in 0 .. PassTop
    BY <1>1, <2>4, CountersStart DEF TaskTypeOK
  <2>7. TaskTypeOK'  BY <1>1, <2>1, <2>4, <2>5, <2>6 DEF TaskTypeOK
  <2> QED  BY <1>1, <1>3, <2>1, <2>3, <2>7, ClientKept
<1>5. CASE Status
  <2>1. LinkTypeOK' /\ UNCHANGED client
    BY <1>1, <1>5 DEF Status, NoAp, OpenAp, LinkTypeOK, flags
  <2>2. TaskTypeOK'
    BY <1>1, <1>5 DEF Status, NoAp, OpenAp, LinkTypeOK, TaskTypeOK, State
  <2> QED  BY <1>1, <1>3, <2>1, <2>2, ClientKept
<1>6. CASE NoWifiConnection
  <2>1. LinkTypeOK' /\ UNCHANGED client
    BY <1>1, <1>6 DEF NoWifiConnection, NoAp, OpenAp, LinkTypeOK, flags
  <2>2. TaskTypeOK'
    BY <1>1, <1>6 DEF NoWifiConnection, NoAp, OpenAp, TaskTypeOK, State
  <2> QED  BY <1>1, <1>3, <2>1, <2>2, ClientKept
<1>7. CASE ConnectWifi
  <2>1. LinkTypeOK' /\ UNCHANGED client
    BY <1>1, <1>7 DEF ConnectWifi, LinkTypeOK, station
  <2>2. TaskTypeOK'
    BY <1>1, <1>7, NetAssumption DEF ConnectWifi, TaskTypeOK, State
  <2> QED  BY <1>1, <1>3, <2>1, <2>2, ClientKept
<1>8. CASE ConnectMQTT
  <2>1. LinkTypeOK'  BY <1>1, <1>8 DEF ConnectMQTT, LinkTypeOK, station, flags
  <2>2. ClientTypeOK' /\ passes' \in 0 .. PassTop /\ state' \in State
    <3>1. CASE setting.mqtt
      <4> PICK ret \in BOOLEAN :
            /\ MqttConnect(ret)
            /\ IF ret THEN state' = "connectBT" /\ UNCHANGED passes
                      ELSE passes' = passes + 1 /\ UNCHANGED state
        BY <1>8, <3>1, Zenon DEF ConnectMQTT
      <4>1. ClientTypeOK'  BY <1>1, ConnectMqttType
      <4> QED  BY <1>1, <1>8, <4>1, NetAssumption DEF ConnectMQTT, TaskTypeOK, State
    <3>2. CASE ~setting.mqtt
      <4>1. UNCHANGED <<client, passes>> /\ state' = "connectBT"
        BY <1>8, <3>2, Zenon DEF ConnectMQTT
      <4> QED  BY <1>1, <4>1, ClientKept DEF TaskTypeOK, State
    <3> QED  BY <3>1, <3>2
  <2>3. TaskTypeOK'  BY <1>1, <1>8, <2>2 DEF ConnectMQTT, TaskTypeOK
  <2> QED  BY <1>3, <2>1, <2>2, <2>3
<1>9. CASE WifiDisconnected
  <2>1. ClientTypeOK'
    BY <1>1, <1>9 DEF WifiDisconnected, MqttDisconnect, ClientTypeOK
  <2>2. LinkTypeOK'  BY <1>1, <1>9 DEF WifiDisconnected, LinkTypeOK, station, flags
  <2>3. TaskTypeOK'  BY <1>1, <1>9 DEF WifiDisconnected, TaskTypeOK, State
  <2> QED  BY <1>3, <2>1, <2>2, <2>3
<1>10. ASSUME NEW pop \in BOOLEAN, Idle(pop)
       PROVE  LinkTypeOK' /\ ClientTypeOK' /\ ValuesTypeOK' /\ TaskTypeOK'
  <2> PICK ret \in BOOLEAN :
        MqttLoop(ret, pop) /\ state' = IF ret THEN "idle" ELSE "connectMQTTstart"
    BY <1>10, Zenon DEF Idle
  <2>1. ClientTypeOK'  BY <1>1, LoopMqttType
  <2>2. LinkTypeOK'  BY <1>1, <1>10 DEF Idle, LinkTypeOK, station, flags
  <2>3. state' \in State  BY DEF State
  <2>4. TaskTypeOK'  BY <1>1, <1>10, <2>3 DEF Idle, TaskTypeOK
  <2> QED  BY <1>3, <2>1, <2>2, <2>4
<1> QED
  BY <1>4, <1>5, <1>6, <1>7, <1>8, <1>9, <1>10 DEF ConnectTask

(* The steps of the others.                                                *)
LEMMA SurroundingsType ==
  ASSUME TypeOK, Surroundings
  PROVE  TypeOK'
<1> SUFFICES LinkTypeOK' /\ ClientTypeOK' /\ ValuesTypeOK' /\ TaskTypeOK'
  BY TypePartsNext
<1>1. LinkTypeOK /\ ClientTypeOK /\ ValuesTypeOK /\ TaskTypeOK
  BY TypeParts
<1>2. UNCHANGED tasks
  BY Zenon
  DEF Surroundings, SaveSetting, NetFails, NetReturns, BleBusy, BleReady, LinkDown,
      BrokerFails, BrokerReturns, SessionLost, Notice
<1>3. ValuesTypeOK'  BY <1>1, <1>2, ValuesKept
<1>4. CASE SaveSetting
  <2>1. LinkTypeOK' /\ UNCHANGED client
    BY <1>1, <1>4 DEF SaveSetting, LinkTypeOK, station, flags
  <2>2. TaskTypeOK'  BY <1>1, <1>4 DEF SaveSetting, TaskTypeOK, task
  <2> QED  BY <1>1, <1>3, <2>1, <2>2, ClientKept
<1>5. CASE NetFails \/ NetReturns \/ BleBusy \/ BleReady
  <2>1. UNCHANGED <<setting, client, task>>
    BY <1>5, Zenon DEF NetFails, NetReturns, BleBusy, BleReady
  <2>2. UNCHANGED <<broker, station, event, flags>>
    BY <1>5, Zenon DEF NetFails, NetReturns, BleBusy, BleReady
  <2>3. net' \in {TRUE, FALSE, net} /\ notAll' \in {TRUE, FALSE, notAll}
    BY <1>5, Zenon DEF NetFails, NetReturns, BleBusy, BleReady
  <2>4. LinkTypeOK'
    BY <1>1, <2>2, <2>3 DEF LinkTypeOK, station, flags
  <2> QED  BY <1>1, <1>3, <2>1, <2>4, ClientKept, TaskKept
<1>6. CASE LinkDown
  <2>1. LinkTypeOK' /\ UNCHANGED <<setting, task>>
    BY <1>1, <1>6 DEF LinkDown, LinkTypeOK, flags
  <2>2. ClientTypeOK'  BY <1>1, <1>6 DEF LinkDown, ClientTypeOK
  <2> QED  BY <1>1, <1>3, <2>1, <2>2, TaskKept
<1>7. CASE /\ BrokerFails \/ BrokerReturns \/ SessionLost \/ Notice
           /\ UNCHANGED <<setting, net, trying, again, event, flags, task>>
  <2>0. UNCHANGED <<link, notAll>> /\ broker' \in {TRUE, FALSE, broker}
    BY <1>7, Zenon DEF BrokerFails, BrokerReturns, SessionLost, Notice
  <2>1. LinkTypeOK'
    BY <1>1, <1>7, <2>0 DEF LinkTypeOK, flags
  <2>2. ClientTypeOK'
    BY <1>1, <1>7 DEF BrokerFails, BrokerReturns, SessionLost, Notice, ClientTypeOK, client
  <2> QED  BY <1>1, <1>3, <1>7, <2>1, <2>2, TaskKept
<1> QED  BY <1>4, <1>5, <1>6, <1>7 DEF Surroundings

LEMMA PublishingType ==
  ASSUME TypeOK, Publishing
  PROVE  TypeOK'
<1> SUFFICES LinkTypeOK' /\ ClientTypeOK' /\ ValuesTypeOK' /\ TaskTypeOK'
  BY TypePartsNext
<1>1. LinkTypeOK /\ ClientTypeOK /\ ValuesTypeOK /\ TaskTypeOK
  BY TypeParts
<1> PICK p \in Publishers : Publish(p) \/ Push(p)
  BY DEF Publishing
<1>2. UNCHANGED <<setting, net, trying, again, event, flags, task>>
  BY DEF Publishing
<1>3. TaskTypeOK'  BY <1>1, <1>2, TaskKept
<1>4. LinkTypeOK'  BY <1>1, <1>2 DEF Publish, Push, LinkTypeOK, flags
<1>5. CASE Publish(p)
  <2>1. count'[p] \in 0 .. ValueTop /\ count' \in [Publishers -> 0 .. ValueTop]
    BY <1>1, <1>5, MqttAssumption DEF Publish, ValuesTypeOK
  <2>2. accepted' \in [Publishers -> 0 .. ValueTop]
    BY <1>1, <1>5, <2>1, MqttAssumption DEF Publish, ValuesTypeOK
  <2>3. UNCHANGED client  BY <1>5 DEF Publish
  <2> QED  BY <1>1, <1>3, <1>4, <2>1, <2>2, <2>3, ClientKept DEF ValuesTypeOK
<1>6. CASE Push(p)
  <2>1. <<p, accepted[p]>> \in Message
    BY <1>1, <1>6, MqttAssumption DEF Push, Message, Value, ValuesTypeOK
  <2>2. txBuffer' \in Seq(Message)
    BY <1>1, <1>6, <2>1, PushedIs DEF Push, ClientTypeOK
  <2>3. ValuesTypeOK'
    BY <1>1, <1>6, MqttAssumption DEF Push, ValuesTypeOK
  <2>4. ClientTypeOK'  BY <1>1, <1>6, <2>2 DEF Push, ClientTypeOK
  <2> QED  BY <1>3, <1>4, <2>3, <2>4
<1> QED  BY <1>5, <1>6

LEMMA NextType ==
  ASSUME TypeOK, Next
  PROVE  TypeOK'
<1>1. LinkTypeOK /\ ClientTypeOK /\ ValuesTypeOK /\ TaskTypeOK
  BY TypeParts
<1>2. CASE OnWiFiEvent
  <2>1. LinkTypeOK' /\ UNCHANGED <<client, tasks>>
    BY <1>1, <1>2 DEF OnWiFiEvent, LinkTypeOK, station
  <2>2. TaskTypeOK'  BY <1>1, <1>2 DEF OnWiFiEvent, TaskTypeOK
  <2> QED  BY <1>1, <2>1, <2>2, ClientKept, ValuesKept, TypePartsNext
<1>3. CASE LinkUp
  <2>1. LinkTypeOK' /\ UNCHANGED <<setting, client, tasks, task>>
    BY <1>1, <1>3 DEF LinkUp, LinkTypeOK, flags
  <2> QED  BY <1>1, <2>1, ClientKept, ValuesKept, TaskKept, TypePartsNext
<1>4. CASE TornBuffer
  <2>1. setting.mqtt \in BOOLEAN  BY <1>1, NetAssumption DEF TaskTypeOK
  <2>2. ClientTypeOK'  BY <1>4, <2>1, MqttAssumption DEF TornBuffer, ClientTypeOK
  <2>3. ValuesTypeOK'  BY <1>1, <1>4, MqttAssumption DEF TornBuffer, ValuesTypeOK
  <2>4. LinkTypeOK'  BY <1>1, <1>4 DEF TornBuffer, LinkTypeOK
  <2>5. TaskTypeOK'  BY <1>1, <1>4, CountersStart DEF TornBuffer, TaskTypeOK, State
  <2> QED  BY <2>2, <2>3, <2>4, <2>5, TypePartsNext
<1> QED
  BY <1>2, <1>3, <1>4, ConnectTaskType, SurroundingsType, PublishingType DEF Next

LEMMA NetTypeStutter ==
  ASSUME TypeOK, UNCHANGED vars
  PROVE  TypeOK'
BY TypeParts, TypePartsNext, ClientKept, ValuesKept, TaskKept
DEF vars, LinkTypeOK, flags, station

(* The variables of the WiFi task, of the events and of the MQTT client    *)
(* keep their types, the counters of tries and attempts their bounds.      *)
THEOREM NetTypeCorrect == Spec => []TypeOK
<1>1. Init => TypeOK  BY NetInitType
<1>2. TypeOK /\ [Next]_vars => TypeOK'  BY NextType, NetTypeStutter
<1> QED  BY <1>1, <1>2, PTL DEF Spec

-----------------------------------------------------------------------------
(* What a step does to the buffer, to the tasks' values and to got.        *)

Fills == txBuffer' = WithData(txBuffer) /\ UNCHANGED <<tasks, got>>

TakesHead ==
  \/ UNCHANGED got
  \/ /\ txBuffer # <<>>
     /\ got' = [p \in Publishers |-> IF \E v \in Value : Head(txBuffer) = <<p, v>>
                                    THEN Head(txBuffer)[2] ELSE got[p]]

Pops == txBuffer' \in {Sent, WithData(Sent)} /\ UNCHANGED tasks /\ TakesHead

Clears ==
  /\ txBuffer' = <<>> /\ UNCHANGED <<count, got>>
  /\ accepted' \in {accepted, [p \in Publishers |-> 0]}

StepKind ==
  \/ UNCHANGED <<txBuffer, tasks, got>>
  \/ \E p \in Publishers : Publish(p) /\ UNCHANGED <<txBuffer, got>>
  \/ \E p \in Publishers : Push(p) /\ UNCHANGED got
  \/ Fills
  \/ Pops
  \/ Clears

GotType == got \in [Publishers -> 0 .. ValueTop]

LEMMA IdleKind ==
  ASSUME GotType, Idle(TRUE), RecordSent
  PROVE  StepKind
<1> PICK ret \in BOOLEAN : MqttLoop(ret, TRUE)
  BY Zenon DEF Idle
<1>1. UNCHANGED tasks  BY Zenon DEF Idle
<1>2. CASE Popped = {}
  <2>1. UNCHANGED got
    BY <1>2 DEF RecordSent, GotType
  <2>2. txBuffer' \in {txBuffer, Sent, WithData(Sent)}
    BY DEF MqttLoop, SendNext, client
  <2> QED  BY <1>1, <2>1, <2>2 DEF StepKind, Pops, TakesHead
<1>3. CASE Popped # {}
  <2>1. /\ Popped = {Head(txBuffer)} /\ txBuffer # <<>>
        /\ enabled /\ mqtt = "connected" /\ Connected /\ ~notAll
    BY <1>3 DEF Popped
  <2>2. txBuffer' \in {Sent, WithData(Sent)}
    BY <2>1 DEF MqttLoop, SendNext
  <2>3. TakesHead
    <3> DEFINE from == {p \in Publishers : \E v \in Value : <<p, v>> \in Popped}
    <3>1. \A p \in Publishers : p \in from <=> \E v \in Value : Head(txBuffer) = <<p, v>>
      BY <2>1
    <3>2. CASE session = "open" /\ link
      <4>1. got' = [p \in Publishers |-> IF p \in from THEN Head(txBuffer)[2] ELSE got[p]]
        BY <3>2 DEF RecordSent
      <4> QED  BY <2>1, <3>1, <4>1 DEF TakesHead
    <3>3. CASE ~(session = "open" /\ link)
      BY <3>3 DEF RecordSent, TakesHead
    <3> QED  BY <3>2, <3>3
  <2> QED  BY <1>1, <2>2, <2>3 DEF StepKind, Pops
<1> QED  BY <1>2, <1>3

LEMMA FillKind ==
  ASSUME Idle(FALSE)
  PROVE  txBuffer' \in {txBuffer, WithData(txBuffer)} /\ UNCHANGED tasks
<1> PICK ret \in BOOLEAN : MqttLoop(ret, FALSE)
  BY Zenon DEF Idle
<1>1. UNCHANGED tasks  BY Zenon DEF Idle
<1> QED  BY <1>1 DEF MqttLoop, SendNext, client

(* The other steps of the WiFi task do not touch the buffer.               *)
LEMMA QuietTask ==
  ASSUME ConnectTask, state = "idle" => Lost, ~WifiDisconnected
  PROVE  UNCHANGED <<txBuffer, tasks>>
<1>1. CASE ConnectMQTT
  BY <1>1, Zenon DEF ConnectMQTT, MqttConnect, client
<1>2. CASE ~ConnectMQTT
  BY <1>2, Zenon
  DEF ConnectTask, Connecting, Status, NoWifiConnection, ConnectWifi, WlanApMode,
      WifiConnected, ConnectMQTTstart, MqttTimeout, ConnectBT, ConnectBT2, Leave, Idle,
      client
<1> QED  BY <1>1, <1>2

LEMMA HStepKind ==
  ASSUME GotType, HNext
  PROVE  StepKind /\ Next
<1>0. CASE Idle(FALSE) /\ UNCHANGED history
  BY <1>0, FillKind DEF StepKind, Fills, history, Next, ConnectTask
<1>1. CASE Idle(TRUE) /\ RecordSent
  BY <1>1, IdleKind DEF Next, ConnectTask
<1>2. CASE event = "none" /\ WifiDisconnected /\ UNCHANGED got
  BY <1>2, Zenon
  DEF WifiDisconnected, MqttDisconnect, StepKind, Clears, tasks, Next, ConnectTask
<1>3. CASE /\ ConnectTask /\ ~WifiDisconnected /\ (state = "idle" => Lost)
           /\ UNCHANGED history
  BY <1>3, QuietTask DEF StepKind, history, Next
<1>4. CASE Pushes
  BY <1>4, Zenon DEF Pushes, OfMqtt, StepKind, Next, Publishing
<1>5. CASE (OnWiFiEvent \/ LinkUp) /\ UNCHANGED history
  BY <1>5, Zenon DEF OnWiFiEvent, LinkUp, client, StepKind, history, Next
<1>6. CASE LinkDown /\ UNCHANGED history
  BY <1>6, Zenon DEF LinkDown, StepKind, history, Next, Surroundings
<1>7. CASE Unanswered
  BY <1>7, Zenon DEF Unanswered, Notice, OfMqtt, StepKind, history, Next, Surroundings
<1>8. CASE Repairs
  BY <1>8, Zenon
  DEF Repairs, BleReady, NetReturns, BrokerReturns, OfMqtt, client, StepKind, history,
      Next, Surroundings
<1>9. CASE Publishes
  BY <1>9, Zenon
  DEF Publishes, Publish, OfMqtt, client, StepKind, history, Next, Publishing
<1>10. CASE (SaveSetting \/ NetFails \/ BleBusy) /\ UNCHANGED history
  BY <1>10, Zenon
  DEF SaveSetting, NetFails, BleBusy, client, StepKind, history, Next, Surroundings
<1>11. CASE (BrokerFails \/ SessionLost) /\ OfMqtt /\ UNCHANGED history
  BY <1>11, Zenon
  DEF BrokerFails, SessionLost, OfMqtt, StepKind, history, Next, Surroundings
<1>12. CASE TornBuffer /\ UNCHANGED got
  BY <1>12 DEF TornBuffer, StepKind, Clears, Next
<1> QED
  BY <1>0, <1>1, <1>2, <1>3, <1>4, <1>5, <1>6, <1>7, <1>8, <1>9, <1>10, <1>11, <1>12,
     Zenon
  DEF HNext, Steps, Proceeds, Gone, Disturbs

-----------------------------------------------------------------------------
(* The bound on the buffer: a task that waits for the mutex has its place. *)

Waiting == {p \in Publishers : accepted[p] # 0}

QueueInv == Len(txBuffer) + Cardinality(Waiting) <= TxTop + 1 + Cardinality(Publishers)

LEMMA WaitingIs ==
  /\ Cardinality(Publishers) \in Nat /\ IsFiniteSet(Waiting) /\ Cardinality(Waiting) \in Nat
  /\ Cardinality(Waiting) <= Cardinality(Publishers)
<1>1. IsFiniteSet(Publishers)  BY MqttAssumption
<1>2. Waiting \subseteq Publishers  BY DEF Waiting
<1> QED  BY <1>1, <1>2, FS_Subset, FS_CardinalityType

LEMMA WaitingIsNext ==
  /\ IsFiniteSet(Waiting') /\ Cardinality(Waiting') \in Nat
  /\ Cardinality(Waiting') <= Cardinality(Publishers)
<1>1. IsFiniteSet(Publishers)  BY MqttAssumption
<1>2. Waiting' \subseteq Publishers  BY DEF Waiting
<1> QED  BY <1>1, <1>2, FS_Subset, FS_CardinalityType

LEMMA QueueStep ==
  ASSUME TypeOK, QueueInv, StepKind
  PROVE  QueueInv'
<1>1. txBuffer \in Seq(Message) /\ Len(txBuffer) \in Nat /\ TxTop \in Nat
  BY MqttAssumption DEF TypeOK, MqttTypeOK
<1>2. accepted \in [Publishers -> 0 .. ValueTop]  BY DEF TypeOK, MqttTypeOK
<1>3. CASE UNCHANGED <<txBuffer, tasks, got>>
  <2>1. Waiting' = Waiting  BY <1>3 DEF Waiting, tasks
  <2> QED  BY <1>3, <2>1 DEF QueueInv
<1>4. ASSUME NEW p \in Publishers, Publish(p), UNCHANGED txBuffer
      PROVE  QueueInv'
  <2>1. CASE Accepts
    <3>1. Len(txBuffer) <= TxTop  BY <2>1 DEF Accepts
    <3>2. Len(txBuffer') + Cardinality(Waiting') <= TxTop + 1 + Cardinality(Publishers)
      BY <1>1, <1>4, <3>1, WaitingIs, WaitingIsNext
    <3> QED  BY <3>2 DEF QueueInv
  <2>2. CASE ~Accepts
    <3>1. accepted' = accepted  BY <1>2, <1>4, <2>2 DEF Publish
    <3>2. Waiting' = Waiting  BY <3>1 DEF Waiting
    <3> QED  BY <1>4, <3>2 DEF QueueInv
  <2> QED  BY <2>1, <2>2
<1>5. ASSUME NEW p \in Publishers, Push(p)
      PROVE  QueueInv'
  <2>1. p \in Waiting /\ Waiting' = Waiting \ {p}
    BY <1>2, <1>5 DEF Push, Waiting
  <2>2. Cardinality(Waiting') = Cardinality(Waiting) - 1
    BY <2>1, WaitingIs, FS_RemoveElement
  <2>3. Len(txBuffer') = Len(txBuffer) + 1
    BY <1>1, <1>5 DEF Push
  <2>4. Len(txBuffer') + Cardinality(Waiting') <= TxTop + 1 + Cardinality(Publishers)
    BY <1>1, <2>2, <2>3, WaitingIs DEF QueueInv
  <2> QED  BY <2>4 DEF QueueInv
<1>6. CASE Pops
  <2>1. Waiting' = Waiting  BY <1>6 DEF Pops, Waiting, tasks
  <2>2. Sent \in Seq(Message) /\ Len(Sent) \in Nat /\ Len(Sent) <= Len(txBuffer)
    <3>1. CASE txBuffer = <<>>  BY <1>1, <3>1 DEF Sent
    <3>2. CASE txBuffer # <<>>
      <4>1. Sent = Tail(txBuffer)  BY <3>2 DEF Sent
      <4> QED  BY <1>1, <3>2, <4>1, SentIs
    <3> QED  BY <3>1, <3>2
  <2>3. \/ Len(txBuffer') <= Len(txBuffer)
        \/ Len(txBuffer') <= TxTop + 1
    <3>1. Len(WithData(Sent)) = Len(Sent) + Taken(Sent)  BY <2>2, WithDataIs
    <3>2. Taken(Sent) \in Nat /\ (Len(Sent) + Taken(Sent) <= TxTop + 1 \/ Taken(Sent) = 0)
      BY <2>2, TakenBound
    <3>3. CASE txBuffer' = Sent  BY <2>2, <3>3
    <3>4. CASE txBuffer' = WithData(Sent)  BY <1>1, <2>2, <3>1, <3>2, <3>4
    <3> QED  BY <1>6, <3>3, <3>4 DEF Pops
  <2>4. Len(txBuffer') \in Nat
    BY <1>6, <2>2, WithDataIs, LenProperties DEF Pops
  <2>5. Len(txBuffer') + Cardinality(Waiting) <= TxTop + 1 + Cardinality(Publishers)
    BY <1>1, <2>3, <2>4, WaitingIs DEF QueueInv
  <2> QED  BY <2>1, <2>5 DEF QueueInv
<1>7. CASE Fills
  <2>1. Waiting' = Waiting  BY <1>7 DEF Fills, Waiting, tasks
  <2>2. /\ Len(txBuffer') = Len(txBuffer) + Taken(txBuffer) /\ Taken(txBuffer) \in Nat
        /\ Len(txBuffer) + Taken(txBuffer) <= TxTop + 1 \/ Taken(txBuffer) = 0
    BY <1>1, <1>7, WithDataIs, TakenBound DEF Fills
  <2>3. Len(txBuffer') + Cardinality(Waiting) <= TxTop + 1 + Cardinality(Publishers)
    BY <1>1, <2>2, WaitingIs DEF QueueInv
  <2> QED  BY <2>1, <2>3 DEF QueueInv
<1>8. CASE Clears
  <2>1. Len(txBuffer') = 0  BY <1>8 DEF Clears
  <2>2. Len(txBuffer') + Cardinality(Waiting') <= TxTop + 1 + Cardinality(Publishers)
    BY <1>1, <2>1, WaitingIs, WaitingIsNext
  <2> QED  BY <2>2 DEF QueueInv
<1> QED  BY <1>3, <1>4, <1>5, <1>6, <1>7, <1>8 DEF StepKind

(* The variable that records what the broker got.                          *)
LEMMA GotStep ==
  ASSUME TypeOK, GotType, StepKind
  PROVE  GotType'
<1>1. CASE UNCHANGED got  BY <1>1 DEF GotType
<1>2. CASE /\ txBuffer # <<>>
           /\ got' = [p \in Publishers |-> IF \E v \in Value : Head(txBuffer) = <<p, v>>
                                          THEN Head(txBuffer)[2] ELSE got[p]]
  <2>1. \A p \in Publishers, v \in Value :
          Head(txBuffer) = <<p, v>> => Head(txBuffer)[2] \in 0 .. ValueTop
    BY MqttAssumption DEF Value
  <2>2. \A p \in Publishers :
          (\E v \in Value : Head(txBuffer) = <<p, v>>) => Head(txBuffer)[2] \in 0 .. ValueTop
    BY <2>1
  <2> QED  BY <1>2, <2>2 DEF GotType
<1> QED  BY <1>1, <1>2 DEF StepKind, Fills, Pops, TakesHead, Clears

HistoryTypeOK == TypeOK /\ GotType

LEMMA HistoryStep ==
  ASSUME HistoryTypeOK, [HNext]_hvars
  PROVE  HistoryTypeOK' /\ StepKind
<1>1. CASE HNext
  BY <1>1, HStepKind, NextType, GotStep DEF HistoryTypeOK
<1>2. CASE UNCHANGED hvars
  <2>1. UNCHANGED <<vars, txBuffer, tasks, got>>
    BY <1>2, Zenon DEF hvars, vars, history, client
  <2>2. TypeOK'
    BY <2>1, NetTypeStutter DEF HistoryTypeOK
  <2> QED  BY <2>1, <2>2 DEF HistoryTypeOK, GotType, StepKind
<1> QED  BY <1>1, <1>2

LEMMA HistoryInit == HInit => HistoryTypeOK /\ QueueInv
<1> SUFFICES ASSUME HInit PROVE HistoryTypeOK /\ QueueInv
  OBVIOUS
<1>1. TypeOK  BY NetInitType DEF HInit
<1>2. GotType  BY MqttAssumption DEF HInit, GotType
<1>3. Len(txBuffer) = 0  BY DEF HInit, Init, InitMqtt
<1>4. Len(txBuffer) + Cardinality(Waiting) <= TxTop + 1 + Cardinality(Publishers)
  BY <1>3, WaitingIs, MqttAssumption
<1> QED  BY <1>1, <1>2, <1>4 DEF HistoryTypeOK, QueueInv

(* The buffer is bounded although its size is looked at before the mutex   *)
(* is taken.  (mqtt_t.cpp:343, 362-364)                                    *)
THEOREM NetQueueBounded == HSpec => []QueueBounded
<1>1. HInit => HistoryTypeOK /\ QueueInv  BY HistoryInit
<1>2. HistoryTypeOK /\ QueueInv /\ [HNext]_hvars => (HistoryTypeOK /\ QueueInv)'
  BY HistoryStep, QueueStep DEF HistoryTypeOK
<1>3. HistoryTypeOK /\ QueueInv => QueueBounded
  <2> SUFFICES ASSUME TypeOK, QueueInv PROVE QueueBounded
    BY DEF HistoryTypeOK
  <2>1. Len(txBuffer) \in Nat /\ TxTop \in Nat
    BY MqttAssumption, LenProperties DEF TypeOK, MqttTypeOK
  <2> QED  BY <2>1, WaitingIs DEF QueueInv, QueueBounded
<1> QED  BY <1>1, <1>2, <1>3, PTL DEF HSpec

-----------------------------------------------------------------------------
(* No value overtakes another: what a topic's buffered messages, the value *)
(* its task waits with and the value the broker has say about each other.  *)

TaskOrder ==
  \A p \in Publishers :
    /\ accepted[p] \in {0, count[p]} /\ got[p] <= count[p]
    /\ accepted[p] # 0 => got[p] < accepted[p]

BufferOrder ==
  \A p \in Publishers, v \in Value, i \in 1 .. Len(txBuffer) :
    txBuffer[i] = <<p, v>> =>
      /\ got[p] < v /\ v <= count[p]
      /\ accepted[p] # 0 => v < accepted[p]
      /\ \A w \in Value, j \in 1 .. Len(txBuffer) :
           i < j /\ txBuffer[j] = <<p, w>> => v < w

OrderInv == TaskOrder /\ BufferOrder

LEMMA PublishOrder ==
  ASSUME HistoryTypeOK, OrderInv, NEW q \in Publishers, Publish(q), UNCHANGED <<txBuffer, got>>
  PROVE  OrderInv'
<1>1. /\ count \in [Publishers -> 0 .. ValueTop] /\ accepted \in [Publishers -> 0 .. ValueTop]
      /\ got \in [Publishers -> 0 .. ValueTop] /\ ValueTop \in Nat
  BY MqttAssumption DEF HistoryTypeOK, GotType, TypeOK, MqttTypeOK
<1>2. \A p \in Publishers : p # q => count'[p] = count[p] /\ accepted'[p] = accepted[p]
  BY <1>1 DEF Publish
<1>3. /\ accepted[q] = 0 /\ count'[q] = count[q] + 1 /\ accepted'[q] \in {0, count'[q]}
  BY <1>1 DEF Publish
<1>4. TaskOrder'
  BY <1>1, <1>2, <1>3 DEF OrderInv, TaskOrder
<1>5. ASSUME NEW p \in Publishers, NEW v \in Value, NEW i \in 1 .. Len(txBuffer),
             txBuffer[i] = <<p, v>>
      PROVE  v <= count'[p] /\ (accepted'[p] # 0 => v < accepted'[p])
  <2>1. v \in Nat /\ v <= count[p] /\ (accepted[p] # 0 => v < accepted[p])
    BY <1>5 DEF OrderInv, BufferOrder, Value
  <2> QED  BY <1>1, <1>2, <1>3, <2>1
<1>6. BufferOrder'
  BY <1>5 DEF OrderInv, BufferOrder
<1> QED  BY <1>4, <1>6 DEF OrderInv

LEMMA PushOrder ==
  ASSUME HistoryTypeOK, OrderInv, NEW q \in Publishers, Push(q), UNCHANGED got
  PROVE  OrderInv'
<1>1. /\ count \in [Publishers -> 0 .. ValueTop] /\ accepted \in [Publishers -> 0 .. ValueTop]
      /\ got \in [Publishers -> 0 .. ValueTop] /\ txBuffer \in Seq(Message)
  BY DEF HistoryTypeOK, GotType, TypeOK, MqttTypeOK
<1>2. /\ \A p \in Publishers : p # q => accepted'[p] = accepted[p]
      /\ accepted'[q] = 0 /\ accepted[q] # 0 /\ count' = count /\ accepted[q] = count[q]
  BY <1>1 DEF Push, OrderInv, TaskOrder
<1>3. TaskOrder'  BY <1>1, <1>2 DEF OrderInv, TaskOrder
<1>4. <<q, accepted[q]>> \in Message
  BY <1>1, <1>2, MqttAssumption DEF Message, Value
<1>5. /\ Len(txBuffer) \in Nat /\ Len(txBuffer') = Len(txBuffer) + 1
      /\ \A i \in 1 .. Len(txBuffer) : txBuffer'[i] = txBuffer[i]
      /\ txBuffer'[Len(txBuffer) + 1] = <<q, accepted[q]>>
  BY <1>1, <1>4, PushedIs DEF Push
<1>6. \A i \in 1 .. Len(txBuffer') : i \in 1 .. Len(txBuffer) \/ i = Len(txBuffer) + 1
  BY <1>5
<1>7. ASSUME NEW p \in Publishers, NEW v \in Value, NEW i \in 1 .. Len(txBuffer'),
             txBuffer'[i] = <<p, v>>
      PROVE  /\ got[p] < v /\ v <= count[p] /\ (accepted'[p] # 0 => v < accepted'[p])
             /\ \A w \in Value, j \in 1 .. Len(txBuffer') :
                  i < j /\ txBuffer'[j] = <<p, w>> => v < w
  <2>1. CASE i = Len(txBuffer) + 1
    <3>1. p = q /\ v = accepted[q]  BY <1>5, <1>7, <2>1
    <3>2. got[q] < accepted[q]  BY <1>2 DEF OrderInv, TaskOrder
    <3>3. \A j \in 1 .. Len(txBuffer') : ~(i < j)  BY <1>5, <2>1
    <3> QED  BY <1>1, <1>2, <3>1, <3>2, <3>3
  <2>2. CASE i \in 1 .. Len(txBuffer)
    <3>1. txBuffer[i] = <<p, v>>  BY <1>5, <1>7, <2>2
    <3>2. /\ got[p] < v /\ v <= count[p] /\ (accepted[p] # 0 => v < accepted[p])
          /\ \A w \in Value, j \in 1 .. Len(txBuffer) :
               i < j /\ txBuffer[j] = <<p, w>> => v < w
      BY <2>2, <3>1 DEF OrderInv, BufferOrder
    <3>3. accepted'[p] # 0 => v < accepted'[p]  BY <1>2, <3>2
    <3>4. ASSUME NEW w \in Value, NEW j \in 1 .. Len(txBuffer'), i < j, txBuffer'[j] = <<p, w>>
          PROVE  v < w
      <4>1. CASE j \in 1 .. Len(txBuffer)
        BY <1>5, <3>2, <3>4, <4>1
      <4>2. CASE j = Len(txBuffer) + 1
        <5>1. p = q /\ w = accepted[q]  BY <1>5, <3>4, <4>2
        <5> QED  BY <1>2, <3>2, <5>1
      <4> QED  BY <1>6, <4>1, <4>2
    <3> QED  BY <3>2, <3>3, <3>4
  <2> QED  BY <1>6, <2>1, <2>2
<1>8. BufferOrder'  BY <1>2, <1>7 DEF BufferOrder
<1> QED  BY <1>3, <1>8 DEF OrderInv

(* What stays in the buffer when the WiFi task takes the first message out *)
(* of it, and what is new there.                                           *)
LEMMA BufferKept ==
  ASSUME NEW q \in Seq(Message), txBuffer' \in {q, WithData(q)}
  PROVE  /\ \A i \in 1 .. Len(q) : i \in 1 .. Len(txBuffer') /\ txBuffer'[i] = q[i]
         /\ \A p \in Publishers, v \in Value, i \in 1 .. Len(txBuffer') :
              txBuffer'[i] = <<p, v>> => i \in 1 .. Len(q) /\ q[i] = <<p, v>>
<1>1. CASE txBuffer' = q  BY <1>1
<1>2. CASE txBuffer' = WithData(q)
  <2>1. /\ Len(q) \in Nat /\ Taken(q) \in Nat /\ Len(txBuffer') = Len(q) + Taken(q)
        /\ \A i \in 1 .. Len(q) : txBuffer'[i] = q[i]
        /\ \A i \in 1 .. Len(txBuffer') : i > Len(q) => txBuffer'[i] = Data
    <3>1. Len(q) \in Nat /\ Taken(q) \in Nat  BY TakenBound
    <3>2. /\ Len(WithData(q)) = Len(q) + Taken(q)
          /\ \A i \in 1 .. Len(q) : WithData(q)[i] = q[i]
          /\ \A i \in 1 .. Len(WithData(q)) : i > Len(q) => WithData(q)[i] = Data
      BY WithDataIs
    <3> QED  BY <1>2, <3>1, <3>2
  <2>2. \A p \in Publishers, v \in Value : <<p, v>> # Data
    BY MqttAssumption DEF Data, Value
  <2>3. \A i \in 1 .. Len(q) : i \in 1 .. Len(txBuffer')  BY <2>1
  <2>4. ASSUME NEW p \in Publishers, NEW v \in Value, NEW i \in 1 .. Len(txBuffer'),
               txBuffer'[i] = <<p, v>>
        PROVE  i \in 1 .. Len(q) /\ q[i] = <<p, v>>
    <3>1. ~(i > Len(q))  BY <2>1, <2>2, <2>4
    <3>2. i \in 1 .. Len(q)  BY <2>1, <3>1
    <3> QED  BY <2>1, <2>4, <3>2
  <2> QED  BY <2>1, <2>3, <2>4
<1> QED  BY <1>1, <1>2

(* A step that only adds data leaves the tasks' values where they are.     *)
LEMMA FillOrder ==
  ASSUME HistoryTypeOK, OrderInv, Fills
  PROVE  OrderInv' /\ UNCHANGED <<count, got>>
<1>1. txBuffer \in Seq(Message)  BY DEF HistoryTypeOK, TypeOK, MqttTypeOK
<1>2. UNCHANGED <<count, accepted, got>>  BY DEF Fills, tasks
<1>3. \A p \in Publishers, v \in Value, i \in 1 .. Len(txBuffer') :
        txBuffer'[i] = <<p, v>> => i \in 1 .. Len(txBuffer) /\ txBuffer[i] = <<p, v>>
  BY <1>1, BufferKept DEF Fills
<1> QED  BY <1>2, <1>3 DEF OrderInv, TaskOrder, BufferOrder

(* Every value of a task left in the buffer was behind the one taken out.  *)
LEMMA SentOrder ==
  ASSUME HistoryTypeOK, OrderInv, Pops
  PROVE  OrderInv' /\ \A p \in Publishers : got'[p] # got[p] => got'[p] > got[p]
<1>1. /\ count \in [Publishers -> 0 .. ValueTop] /\ accepted \in [Publishers -> 0 .. ValueTop]
      /\ got \in [Publishers -> 0 .. ValueTop] /\ txBuffer \in Seq(Message)
  BY DEF HistoryTypeOK, GotType, TypeOK, MqttTypeOK
<1>2. count' = count /\ accepted' = accepted  BY DEF Pops, tasks
<1> DEFINE Left(i) == IF txBuffer = <<>> THEN i ELSE i + 1
<1>3. /\ Sent \in Seq(Message) /\ Len(Sent) \in Nat
      /\ \A i \in 1 .. Len(Sent) : Left(i) \in 1 .. Len(txBuffer) /\ Sent[i] = txBuffer[Left(i)]
  <2>1. CASE txBuffer = <<>>  BY <1>1, <2>1 DEF Sent
  <2>2. CASE txBuffer # <<>>
    <3>1. Sent = Tail(txBuffer)  BY <2>2 DEF Sent
    <3> QED  BY <1>1, <2>2, <3>1, SentIs
  <2> QED  BY <2>1, <2>2
<1>4. \A p \in Publishers, v \in Value, i \in 1 .. Len(txBuffer') :
        txBuffer'[i] = <<p, v>> => i \in 1 .. Len(Sent) /\ Sent[i] = <<p, v>>
  <2>1. CASE txBuffer' = Sent  BY <2>1
  <2>2. CASE txBuffer' = WithData(Sent)
    <3> SUFFICES ASSUME NEW p \in Publishers, NEW v \in Value, NEW i \in 1 .. Len(txBuffer'),
                        txBuffer'[i] = <<p, v>>
                 PROVE  i \in 1 .. Len(Sent) /\ Sent[i] = <<p, v>>
      OBVIOUS
    <3>1. /\ \A k \in 1 .. Len(Sent) : WithData(Sent)[k] = Sent[k]
          /\ \A k \in 1 .. Len(WithData(Sent)) : k > Len(Sent) => WithData(Sent)[k] = Data
      BY <1>3, WithDataIs
    <3>2. <<p, v>> # Data  BY MqttAssumption DEF Data, Value
    <3>3. ~(i > Len(Sent))  BY <2>2, <3>1, <3>2
    <3>4. i \in 1 .. Len(Sent)  BY <1>3, <3>3
    <3> QED  BY <2>2, <3>1, <3>4
  <2> QED  BY <2>1, <2>2 DEF Pops
(* Where a task's buffered value was, and what the broker has got now.     *)
<1>5. ASSUME NEW p \in Publishers, NEW v \in Value, NEW i \in 1 .. Len(txBuffer'),
             txBuffer'[i] = <<p, v>>
      PROVE  Left(i) \in 1 .. Len(txBuffer) /\ txBuffer[Left(i)] = <<p, v>>
  BY <1>3, <1>4, <1>5
<1>6. ASSUME NEW p \in Publishers
      PROVE  \/ got'[p] = got[p]
             \/ txBuffer # <<>> /\ got'[p] \in Value /\ txBuffer[1] = <<p, got'[p]>>
  <2>1. CASE UNCHANGED got  BY <2>1
  <2>2. CASE /\ txBuffer # <<>>
             /\ got' = [r \in Publishers |-> IF \E v \in Value : Head(txBuffer) = <<r, v>>
                                            THEN Head(txBuffer)[2] ELSE got[r]]
    <3>1. Head(txBuffer) = txBuffer[1]  BY <1>1, <2>2, SentIs
    <3>2. CASE \E v \in Value : Head(txBuffer) = <<p, v>>
      <4> PICK v \in Value : Head(txBuffer) = <<p, v>>
        BY <3>2
      <4>1. got'[p] = Head(txBuffer)[2]  BY <2>2, <3>2
      <4> QED  BY <2>2, <3>1, <4>1
    <3>3. CASE ~\E v \in Value : Head(txBuffer) = <<p, v>>
      <4>1. got'[p] = got[p]  BY <2>2, <3>3
      <4> QED  BY <4>1
    <3> QED  BY <3>2, <3>3
  <2> QED  BY <2>1, <2>2 DEF Pops, TakesHead
<1>7. txBuffer # <<>> => 1 \in 1 .. Len(txBuffer)  BY <1>1
<1>8. ASSUME NEW p \in Publishers
      PROVE  /\ got'[p] \in Nat /\ got'[p] <= count[p]
             /\ (accepted[p] # 0 => got'[p] < accepted[p])
             /\ (got'[p] # got[p] => got'[p] > got[p])
  <2>1. CASE got'[p] = got[p]
    BY <1>1, <2>1 DEF OrderInv, TaskOrder
  <2>2. CASE txBuffer # <<>> /\ got'[p] \in Value /\ txBuffer[1] = <<p, got'[p]>>
    <3>1. /\ got[p] < got'[p] /\ got'[p] <= count[p]
          /\ (accepted[p] # 0 => got'[p] < accepted[p])
      BY <1>7, <2>2 DEF OrderInv, BufferOrder
    <3> QED  BY <2>2, <3>1 DEF Value
  <2> QED  BY <1>6, <2>1, <2>2
<1>9. TaskOrder'  BY <1>2, <1>8 DEF OrderInv, TaskOrder
<1>10. ASSUME NEW p \in Publishers, NEW v \in Value, NEW i \in 1 .. Len(txBuffer'),
              txBuffer'[i] = <<p, v>>
       PROVE  /\ got'[p] < v /\ v <= count[p] /\ (accepted[p] # 0 => v < accepted[p])
              /\ \A w \in Value, j \in 1 .. Len(txBuffer') :
                   i < j /\ txBuffer'[j] = <<p, w>> => v < w
  <2>1. Left(i) \in 1 .. Len(txBuffer) /\ txBuffer[Left(i)] = <<p, v>>
    BY <1>5, <1>10
  <2>2. /\ got[p] < v /\ v <= count[p] /\ (accepted[p] # 0 => v < accepted[p])
        /\ \A w \in Value, j \in 1 .. Len(txBuffer) :
             Left(i) < j /\ txBuffer[j] = <<p, w>> => v < w
    BY <2>1 DEF OrderInv, BufferOrder
  <2>3. got'[p] < v
    <3>1. CASE got'[p] = got[p]  BY <2>2, <3>1
    <3>2. CASE txBuffer # <<>> /\ got'[p] \in Value /\ txBuffer[1] = <<p, got'[p]>>
      <4>1. 1 < Left(i)  BY <1>10, <3>2
      <4> QED  BY <1>7, <2>1, <3>2, <4>1 DEF OrderInv, BufferOrder
    <3> QED  BY <1>6, <3>1, <3>2
  <2>4. ASSUME NEW w \in Value, NEW j \in 1 .. Len(txBuffer'), i < j, txBuffer'[j] = <<p, w>>
        PROVE  v < w
    <3>1. Left(j) \in 1 .. Len(txBuffer) /\ txBuffer[Left(j)] = <<p, w>>
      BY <1>5, <2>4
    <3>2. Left(i) < Left(j)  BY <1>10, <2>4
    <3> QED  BY <2>2, <3>1, <3>2
  <2> QED  BY <2>2, <2>3, <2>4
<1>11. BufferOrder'  BY <1>2, <1>10 DEF BufferOrder
<1> QED  BY <1>8, <1>9, <1>11 DEF OrderInv

LEMMA OrderStep ==
  ASSUME HistoryTypeOK, OrderInv, StepKind
  PROVE  OrderInv' /\ \A p \in Publishers : got'[p] # got[p] => got'[p] > got[p]
<1>1. CASE UNCHANGED <<txBuffer, tasks, got>>
  BY <1>1 DEF OrderInv, TaskOrder, BufferOrder, tasks
<1>2. ASSUME NEW p \in Publishers, Publish(p), UNCHANGED <<txBuffer, got>>
      PROVE  OrderInv'
  BY <1>2, PublishOrder
<1>3. ASSUME NEW p \in Publishers, Push(p), UNCHANGED got
      PROVE  OrderInv'
  BY <1>3, PushOrder
<1>4. CASE Pops  BY <1>4, SentOrder
<1>5. CASE Clears
  <2>1. 1 .. Len(txBuffer') = {}  BY <1>5 DEF Clears
  <2>2. \A p \in Publishers : accepted'[p] \in {0, accepted[p]}  BY <1>5 DEF Clears
  <2>3. TaskOrder'  BY <1>5, <2>2 DEF OrderInv, TaskOrder, Clears
  <2>4. BufferOrder'  BY <2>1 DEF BufferOrder
  <2> QED  BY <1>5, <2>3, <2>4 DEF OrderInv, Clears
<1>6. CASE Fills  BY <1>6, FillOrder
<1> QED  BY <1>1, <1>2, <1>3, <1>4, <1>5, <1>6 DEF StepKind

LEMMA OrderInit == HInit => HistoryTypeOK /\ OrderInv
<1> SUFFICES ASSUME HInit PROVE HistoryTypeOK /\ OrderInv
  OBVIOUS
<1>1. HistoryTypeOK  BY HistoryInit
<1>2. TaskOrder  BY DEF HInit, Init, InitMqtt, TaskOrder
<1>3. BufferOrder  BY DEF HInit, Init, InitMqtt, BufferOrder
<1> QED  BY <1>1, <1>2, <1>3 DEF OrderInv

(* What the broker gets is never older than what it has.                   *)
InOrder == [][\A p \in Publishers : got'[p] # got[p] => got'[p] > got[p]]_got

(* The broker never gets a value of a topic twice or after a newer one,    *)
(* whatever is lost, cleared or sent late.  (mqtt_t.cpp:304-315, 363)      *)
THEOREM NetInOrder == HSpec => InOrder
<1>1. HistoryTypeOK /\ OrderInv /\ [HNext]_hvars =>
        /\ (HistoryTypeOK /\ OrderInv)'
        /\ [\A p \in Publishers : got'[p] # got[p] => got'[p] > got[p]]_got
  BY HistoryStep, OrderStep
<1> QED  BY <1>1, OrderInit, PTL DEF HSpec, InOrder

-----------------------------------------------------------------------------
(* What a subscriber sees: the steps of module Topics.                     *)

(* The value at the head is one that its topic may have next.              *)
LEMMA PopSeen ==
  ASSUME HistoryTypeOK, OrderInv, Pops
  PROVE  [Subscriber!Next]_<<count, got>>
<1>1. count' = count  BY DEF Pops, tasks
<1>2. got \in [Publishers -> 0 .. ValueTop] /\ ValueTop \in Nat
  BY MqttAssumption DEF HistoryTypeOK, GotType
<1>3. CASE UNCHANGED got  BY <1>1, <1>3
<1>4. CASE /\ txBuffer # <<>>
           /\ got' = [p \in Publishers |-> IF \E v \in Value : Head(txBuffer) = <<p, v>>
                                          THEN Head(txBuffer)[2] ELSE got[p]]
  <2>1. 1 \in 1 .. Len(txBuffer) /\ Head(txBuffer) = txBuffer[1]
    BY <1>4, SentIs DEF HistoryTypeOK, TypeOK, MqttTypeOK
  <2>2. CASE \E p \in Publishers, v \in Value : Head(txBuffer) = <<p, v>>
    <3> PICK p \in Publishers, v \in Value : Head(txBuffer) = <<p, v>>
      BY <2>2
    <3>1. got[p] < v /\ v <= count[p]
      BY <2>1 DEF OrderInv, BufferOrder
    <3>2. \A q \in Publishers : (\E w \in Value : Head(txBuffer) = <<q, w>>) <=> q = p
      OBVIOUS
    <3>3. Head(txBuffer)[2] = v  OBVIOUS
    <3>4. got' = [got EXCEPT ![p] = v]  BY <1>2, <1>4, <3>2, <3>3
    <3>5. Subscriber!See(p, v)  BY <1>1, <3>1, <3>4 DEF Subscriber!See
    <3> QED  BY <3>5, Zenon DEF Subscriber!Next, Value
  <2>3. CASE ~\E p \in Publishers, v \in Value : Head(txBuffer) = <<p, v>>
    <3>1. \A p \in Publishers : got'[p] = got[p]  BY <1>4, <2>3
    <3>2. got' = got  BY <1>2, <1>4, <3>1
    <3> QED  BY <1>1, <3>2
  <2> QED  BY <2>2, <2>3
<1> QED  BY <1>3, <1>4 DEF Pops, TakesHead

LEMMA StepSeen ==
  ASSUME HistoryTypeOK, OrderInv, StepKind
  PROVE  [Subscriber!Next]_<<count, got>>
<1>1. CASE UNCHANGED <<txBuffer, tasks, got>>
  BY <1>1 DEF tasks
<1>2. ASSUME NEW p \in Publishers, Publish(p), UNCHANGED <<txBuffer, got>>
      PROVE  Subscriber!Next
  <2>1. Subscriber!Renew(p)  BY <1>2 DEF Publish, Subscriber!Renew
  <2> QED  BY <2>1, Zenon DEF Subscriber!Next
<1>3. ASSUME NEW p \in Publishers, Push(p), UNCHANGED got
      PROVE  UNCHANGED <<count, got>>
  BY <1>3 DEF Push
<1>4. CASE Clears  BY <1>4 DEF Clears
<1>5. CASE Fills  BY <1>5 DEF Fills, tasks
<1> QED  BY <1>1, <1>2, <1>3, <1>4, <1>5, PopSeen, Zenon DEF StepKind

(* The tasks that publish, the buffer, the WiFi task and a connection that *)
(* breaks at any moment are together no more than Topics: a step of HNext  *)
(* renews a topic, lets it be seen or does neither.                        *)
(* (mqtt_t.cpp:304-315, 343-364)                                           *)
THEOREM TopicsImplemented == HSpec => ImplementsTopics
<1>1. HInit => Subscriber!Init
  BY DEF HInit, Init, InitMqtt, Subscriber!Init
<1>2. HistoryTypeOK /\ OrderInv /\ [HNext]_hvars =>
        (HistoryTypeOK /\ OrderInv)' /\ [Subscriber!Next]_<<count, got>>
  BY HistoryStep, OrderStep, StepSeen
<1> QED
  BY <1>1, <1>2, OrderInit, PTL DEF HSpec, ImplementsTopics, Subscriber!Spec

-----------------------------------------------------------------------------
(* A lost connection.  As long as the firmware takes itself for connected, *)
(* the loss is marked: the event is still to be reported, or the flag is   *)
(* set that every state the WiFi task may then wait in looks at, or the    *)
(* task has looked at it and is about to disconnect.                       *)
LossMarked ==
  wlan = "sta" => /\ ~link => event = "lost" \/ disc \/ state = "wifiDisconnected"
                  /\ state \in {"connectMQTTstart", "connectMQTT", "connectBT",
                                "connectBT2", "idle", "wifiDisconnected"}

(* The mark is there before the firmware takes itself for connected, since *)
(* the link may be lost in the second before; in the mode with an access   *)
(* point of its own, which disc does not mark, it never does.              *)
MarkInv ==
  /\ LossMarked
  /\ state = "wifiConnected" /\ ~link => event = "lost" \/ disc
  /\ wlan = "ap" \/ event = "apStart" =>
       wlan = "ap" /\ state \in {"wlanApMode", "connectBT", "connectBT2", "idle"}
  /\ event = "gotIp" => link

LEMMA MarkTask ==
  ASSUME TypeOK, MarkInv, ConnectTask
  PROVE  MarkInv'
<1>1. CASE NoWifiConnection
  BY <1>1 DEF NoWifiConnection, NoAp, OpenAp, MarkInv, LossMarked, flags
<1>2. CASE Status
  BY <1>2 DEF Status, NoAp, OpenAp, MarkInv, LossMarked, flags
<1>3. CASE Connecting \/ WlanApMode \/ ConnectMQTTstart \/ MqttTimeout \/ ConnectBT
           \/ ConnectBT2
  BY <1>3
  DEF Connecting, WlanApMode, ConnectMQTTstart, MqttTimeout, ConnectBT, ConnectBT2,
      MarkInv, LossMarked, flags, station
<1>4. CASE ConnectWifi
  BY <1>4 DEF ConnectWifi, MarkInv, LossMarked, station
<1>5. CASE WifiConnected
  BY <1>5 DEF WifiConnected, MarkInv, LossMarked, flags, station
<1>6. CASE Leave
  BY <1>6 DEF Leave, Lost, MarkInv, LossMarked, station
<1>7. CASE WifiDisconnected
  BY <1>7 DEF WifiDisconnected, MarkInv, LossMarked, flags, station
<1>8. CASE ConnectMQTT
  <2>1. /\ state = "connectMQTT" /\ state' \in {"connectMQTT", "connectBT"}
        /\ UNCHANGED <<wlan, link, event, disc>>
    BY <1>8 DEF ConnectMQTT, flags, station
  <2> QED  BY <2>1 DEF MarkInv, LossMarked
<1>9. ASSUME NEW pop \in BOOLEAN, Idle(pop)
      PROVE  MarkInv'
  <2>1. /\ state = "idle" /\ wlan = "sta" /\ state' \in {"idle", "connectMQTTstart"}
        /\ UNCHANGED <<wlan, link, event, disc>>
    BY <1>9 DEF Idle, flags, station
  <2> QED  BY <2>1 DEF MarkInv, LossMarked
<1> QED
  BY <1>1, <1>2, <1>3, <1>4, <1>5, <1>6, <1>7, <1>8, <1>9 DEF ConnectTask

LEMMA MarkStep ==
  ASSUME TypeOK, MarkInv, [Next]_vars
  PROVE  MarkInv'
<1>1. CASE OnWiFiEvent
  BY <1>1 DEF OnWiFiEvent, station, TypeOK, MqttTypeOK, MarkInv, LossMarked
<1>2. CASE LinkUp
  BY <1>2 DEF LinkUp, flags, task, MarkInv, LossMarked
<1>3. CASE LinkDown
  BY <1>3 DEF LinkDown, flags, task, MarkInv, LossMarked
<1>4. CASE TornBuffer
  BY <1>4 DEF TornBuffer, MarkInv, LossMarked
<1>5. CASE (Surroundings /\ ~LinkDown) \/ Publishing \/ UNCHANGED vars
  <2>1. UNCHANGED <<wlan, state, link, event, disc>>
    BY <1>5, Zenon
    DEF Surroundings, SaveSetting, NetFails, NetReturns, BleBusy, BleReady, BrokerFails,
        BrokerReturns, SessionLost, Notice, Publishing, Publish, Push, vars, station, flags,
        task
  <2> QED  BY <2>1 DEF MarkInv, LossMarked
<1> QED
  BY <1>1, <1>2, <1>3, <1>4, <1>5, MarkTask DEF Next

(* The safety half of LossNoticed: no loss is forgotten, whenever it comes *)
(* and whatever event of an earlier attempt is still under way.            *)
(* (main.cpp:346-352, 506-530, 568, 586, 600, 611)                         *)
THEOREM LossNotForgotten == Spec => []LossMarked
<1>1. Init => MarkInv  BY DEF Init, MarkInv, LossMarked
<1>2. MarkInv => LossMarked  BY DEF MarkInv
<1> QED  BY <1>1, <1>2, MarkStep, NetTypeCorrect, PTL DEF Spec

-----------------------------------------------------------------------------
(* Where the WiFi task may come to rest.  Once it is idle and no loss is   *)
(* under way, the pages are served and the other tasks run, over WiFi or   *)
(* the firmware's own access point; it rests without a WiFi of either kind *)
(* only with a link that came up too late to be noticed, or when the user  *)
(* has removed the SSID.                                                   *)
ServedOrKnown ==
  state = "idle" /\ event # "lost" /\ ~disc =>
    \/ server /\ running /\ wlan # "off"
    \/ running /\ wlan = "off" /\ (link \/ ~setting.ssid)

(* The states between noWifiConnection and idle: which of them still wait  *)
(* for the server, and that a lost link leaves one of them only marked or  *)
(* on the way to the access point.                                         *)
ServedInv ==
  /\ wlan # "off" => server \/ state = "wlanApMode"
  /\ state = "wlanApMode" => wlan = "ap"
  /\ state \in {"connectBT2", "idle"} => running
  /\ state \in {"connectMQTTstart", "connectMQTT"} => wlan = "sta"
  /\ /\ wlan = "off" /\ state \in {"status", "connectWifi", "connectBT", "connectBT2", "idle"}
     /\ event # "lost" /\ ~disc
     => link \/ ~setting.ssid \/ (state = "status" /\ ~neverAp)

LEMMA ServedTask ==
  ASSUME TypeOK, MarkInv, ServedInv, ConnectTask
  PROVE  ServedInv'
<1>1. CASE NoWifiConnection
  BY <1>1 DEF NoWifiConnection, NoAp, OpenAp, MarkInv, LossMarked, ServedInv, flags
<1>2. CASE Connecting
  BY <1>2 DEF Connecting, MarkInv, LossMarked, ServedInv, flags, station
<1>3. CASE Status
  BY <1>3 DEF Status, NoAp, OpenAp, MarkInv, LossMarked, ServedInv, flags
<1>4. CASE WlanApMode \/ ConnectMQTTstart \/ MqttTimeout \/ ConnectBT \/ ConnectBT2
  BY <1>4
  DEF WlanApMode, ConnectMQTTstart, MqttTimeout, ConnectBT, ConnectBT2, MarkInv, ServedInv,
      flags, station
<1>5. CASE ConnectWifi
  BY <1>5 DEF ConnectWifi, MarkInv, LossMarked, ServedInv, station
<1>6. CASE WifiConnected
  BY <1>6 DEF WifiConnected, ServedInv, flags, station
<1>7. CASE Leave
  BY <1>7 DEF Leave, Lost, MarkInv, LossMarked, ServedInv, station
<1>8. CASE WifiDisconnected
  BY <1>8 DEF WifiDisconnected, ServedInv, flags, station
<1>9. CASE ConnectMQTT
  <2>1. /\ state = "connectMQTT" /\ state' \in {"connectMQTT", "connectBT"}
        /\ UNCHANGED <<setting, wlan, link, event, disc, server, running>>
    BY <1>9 DEF ConnectMQTT, flags, station
  <2> QED  BY <2>1 DEF ServedInv
<1>10. ASSUME NEW pop \in BOOLEAN, Idle(pop)
       PROVE  ServedInv'
  <2>1. /\ state = "idle" /\ wlan = "sta" /\ state' \in {"idle", "connectMQTTstart"}
        /\ UNCHANGED <<setting, wlan, link, event, disc, server, running>>
    BY <1>10 DEF Idle, flags, station
  <2> QED  BY <2>1 DEF ServedInv
<1> QED
  BY <1>1, <1>2, <1>3, <1>4, <1>5, <1>6, <1>7, <1>8, <1>9, <1>10 DEF ConnectTask

LEMMA ServedStep ==
  ASSUME TypeOK, MarkInv, ServedInv, [Next]_vars
  PROVE  ServedInv'
<1>1. CASE OnWiFiEvent
  BY <1>1 DEF OnWiFiEvent, station, TypeOK, MqttTypeOK, MarkInv, LossMarked, ServedInv
<1>2. CASE LinkUp
  BY <1>2 DEF LinkUp, flags, task, ServedInv
<1>3. CASE LinkDown
  BY <1>3 DEF LinkDown, flags, task, ServedInv
<1>4. CASE TornBuffer
  BY <1>4 DEF TornBuffer, ServedInv
<1>5. CASE SaveSetting
  BY <1>5 DEF SaveSetting, station, flags, task, ServedInv
<1>6. CASE (Surroundings /\ ~LinkDown /\ ~SaveSetting) \/ Publishing \/ UNCHANGED vars
  <2>1. UNCHANGED <<setting, wlan, state, neverAp, link, event, disc, server, running>>
    BY <1>6, Zenon
    DEF Surroundings, NetFails, NetReturns, BleBusy, BleReady, BrokerFails,
        BrokerReturns, SessionLost, Notice, Publishing, Publish, Push, vars, station, flags,
        task
  <2> QED  BY <2>1 DEF ServedInv
<1> QED
  BY <1>1, <1>2, <1>3, <1>4, <1>5, <1>6, ServedTask DEF Next

(* The safety half of WifiServed: whatever events are late and whatever    *)
(* the user saves meanwhile, an idle WiFi task has begun the web server    *)
(* and let the other tasks run, or is in the one state it rests in without *)
(* the server.                                                             *)
(* (main.cpp:361-464, 486-530, 595-607)                                    *)
THEOREM ServedWhenIdle == Spec => []ServedOrKnown
<1>1. Init => MarkInv /\ ServedInv  BY DEF Init, MarkInv, LossMarked, ServedInv
<1>2. MarkInv /\ ServedInv => ServedOrKnown
  BY DEF MarkInv, ServedInv, ServedOrKnown
<1>3. TypeOK /\ TypeOK' /\ MarkInv /\ ServedInv /\ [Next]_vars => (MarkInv /\ ServedInv)'
  BY MarkStep, ServedStep
<1> QED  BY <1>1, <1>2, <1>3, NetTypeCorrect, PTL DEF Spec

-----------------------------------------------------------------------------
(* What becomes of a message.  The value of a task that was put into the   *)
(* buffer last is in it, or has been delivered, or one of the two steps    *)
(* that lose messages has taken it.                                        *)
Accounted ==
  \A p \in Publishers :
    \/ got[p] = last[p] \/ p \in lost
    \/ last[p] \in Value /\ \E i \in 1 .. Len(txBuffer) : txBuffer[i] = <<p, last[p]>>

AccountInv ==
  /\ last \in [Publishers -> 0 .. ValueTop]
  /\ Accounted
  /\ \A p \in Publishers, v \in Value, i \in 1 .. Len(txBuffer) :
       txBuffer[i] = <<p, v>> => v <= last[p]

LEMMA AccountKind ==
  ASSUME HNext
  PROVE  \/ UNCHANGED <<txBuffer, history>>
         \/ \E p \in Publishers : Push(p) /\ RecordPush(p) /\ UNCHANGED got
         \/ Idle(TRUE) /\ RecordSent /\ UNCHANGED last
         \/ Idle(FALSE) /\ UNCHANGED history
         \/ RecordCleared /\ txBuffer' = <<>> /\ UNCHANGED <<got, last>>
<1>1. CASE WifiDisconnected /\ RecordCleared /\ UNCHANGED <<got, last>>
  BY <1>1, Zenon DEF WifiDisconnected, MqttDisconnect
<1>2. CASE /\ ConnectTask /\ ~WifiDisconnected /\ (state = "idle" => Lost)
           /\ UNCHANGED history
  BY <1>2, QuietTask
<1>3. CASE Pushes
  BY <1>3, Zenon DEF Pushes
<1>4. CASE (OnWiFiEvent \/ LinkUp \/ LinkDown \/ Unanswered \/ Repairs) /\ UNCHANGED history
  BY <1>4, Zenon
  DEF OnWiFiEvent, LinkUp, LinkDown, Unanswered, Notice, Repairs, BleReady, NetReturns,
      BrokerReturns, client
<1>5. CASE Publishes
  BY <1>5, Zenon DEF Publishes, Publish, client
<1>6. CASE /\ SaveSetting \/ NetFails \/ BleBusy \/ BrokerFails \/ SessionLost
           /\ UNCHANGED history
  BY <1>6, Zenon DEF SaveSetting, NetFails, BleBusy, BrokerFails, SessionLost, client
<1>7. CASE TornBuffer /\ RecordCleared /\ UNCHANGED <<got, last>>
  BY <1>7, Zenon DEF TornBuffer
<1> QED
  BY <1>1, <1>2, <1>3, <1>4, <1>5, <1>6, <1>7, Zenon
  DEF HNext, Steps, Proceeds, Gone, Unanswered, Repairs, Disturbs

LEMMA AccountPush ==
  ASSUME HistoryTypeOK, OrderInv, AccountInv, NEW q \in Publishers,
         Push(q), RecordPush(q), UNCHANGED got
  PROVE  AccountInv'
<1>1. /\ accepted \in [Publishers -> 0 .. ValueTop] /\ txBuffer \in Seq(Message)
      /\ last \in [Publishers -> 0 .. ValueTop]
  BY DEF HistoryTypeOK, TypeOK, MqttTypeOK, AccountInv
<1>2. /\ accepted[q] \in Value /\ last' = [last EXCEPT ![q] = accepted[q]]
      /\ lost' = lost \ {q}
  BY <1>1, MqttAssumption DEF Push, RecordPush, Value
<1>3. <<q, accepted[q]>> \in Message  BY <1>2 DEF Message
<1>4. /\ Len(txBuffer) \in Nat /\ Len(txBuffer') = Len(txBuffer) + 1
      /\ \A i \in 1 .. Len(txBuffer) : txBuffer'[i] = txBuffer[i]
      /\ txBuffer'[Len(txBuffer) + 1] = <<q, accepted[q]>>
  BY <1>1, <1>3, PushedIs DEF Push
<1>5. last' \in [Publishers -> 0 .. ValueTop]  BY <1>1, <1>2
<1>6. ASSUME NEW p \in Publishers
      PROVE  \/ got'[p] = last'[p] \/ p \in lost'
             \/ /\ last'[p] \in Value
                /\ \E i \in 1 .. Len(txBuffer') : txBuffer'[i] = <<p, last'[p]>>
  <2>1. CASE p = q
    <3>1. Len(txBuffer) + 1 \in 1 .. Len(txBuffer')  BY <1>4
    <3>2. last'[p] = accepted[q]  BY <1>1, <1>2, <2>1
    <3> QED  BY <1>2, <1>4, <2>1, <3>1, <3>2
  <2>2. CASE p # q
    <3>1. last'[p] = last[p]  BY <1>1, <1>2, <2>2
    <3>2. \A i \in 1 .. Len(txBuffer) : i \in 1 .. Len(txBuffer')  BY <1>4
    <3> QED  BY <1>2, <1>4, <2>2, <3>1, <3>2 DEF AccountInv, Accounted
  <2> QED  BY <2>1, <2>2
<1>7. ASSUME NEW p \in Publishers, NEW v \in Value, NEW i \in 1 .. Len(txBuffer'),
             txBuffer'[i] = <<p, v>>
      PROVE  v <= last'[p]
  <2>1. v \in Nat  BY DEF Value
  <2>2. CASE i = Len(txBuffer) + 1
    <3>1. p = q /\ v = accepted[q]  BY <1>4, <1>7, <2>2
    <3> QED  BY <1>1, <1>2, <2>1, <3>1
  <2>3. CASE i # Len(txBuffer) + 1
    <3>1. i \in 1 .. Len(txBuffer) /\ txBuffer[i] = <<p, v>>  BY <1>4, <1>7, <2>3
    <3>2. p = q => v < accepted[q]
      BY <1>2, <3>1, MqttAssumption DEF OrderInv, BufferOrder, Value
    <3>3. v <= last[p]  BY <3>1 DEF AccountInv
    <3>4. p = q => last'[p] = accepted[q]  BY <1>1, <1>2
    <3>5. p # q => last'[p] = last[p]  BY <1>1, <1>2
    <3>6. CASE p = q  BY <1>1, <2>1, <3>2, <3>4, <3>6
    <3>7. CASE p # q  BY <3>3, <3>5, <3>7
    <3> QED  BY <3>6, <3>7
  <2> QED  BY <2>2, <2>3
<1> QED  BY <1>5, <1>6, <1>7 DEF AccountInv, Accounted

LEMMA AccountIdle ==
  ASSUME HistoryTypeOK, OrderInv, AccountInv, Idle(TRUE), RecordSent, UNCHANGED last
  PROVE  AccountInv'
<1>1. /\ txBuffer \in Seq(Message) /\ last \in [Publishers -> 0 .. ValueTop]
      /\ got \in [Publishers -> 0 .. ValueTop] /\ last' = last
  BY DEF HistoryTypeOK, GotType, TypeOK, MqttTypeOK, AccountInv
<1> PICK ret \in BOOLEAN : MqttLoop(ret, TRUE)
  BY Zenon DEF Idle
<1>2. CASE Popped = {}
  <2>1. UNCHANGED got  BY <1>1, <1>2 DEF RecordSent
  <2>2. lost' = lost  BY <1>2 DEF RecordSent
  <2>3. txBuffer' \in {txBuffer, WithData(txBuffer)}
    BY <1>2 DEF MqttLoop, SendNext, client, Popped, Sent
  <2>4. /\ \A i \in 1 .. Len(txBuffer) : i \in 1 .. Len(txBuffer') /\ txBuffer'[i] = txBuffer[i]
        /\ \A p \in Publishers, v \in Value, i \in 1 .. Len(txBuffer') :
             txBuffer'[i] = <<p, v>> => i \in 1 .. Len(txBuffer) /\ txBuffer[i] = <<p, v>>
    BY <1>1, <2>3, BufferKept
  <2>5. Accounted'  BY <1>1, <2>1, <2>2, <2>4 DEF AccountInv, Accounted
  <2> QED  BY <1>1, <2>4, <2>5 DEF AccountInv
<1>3. CASE Popped # {}
  <2>1. /\ Popped = {Head(txBuffer)} /\ txBuffer # <<>>
        /\ enabled /\ mqtt = "connected" /\ Connected /\ ~notAll
    BY <1>3 DEF Popped
  <2>2. txBuffer' \in {Tail(txBuffer), WithData(Tail(txBuffer))}
    BY <2>1 DEF MqttLoop, SendNext, Sent
  <2>3. /\ Tail(txBuffer) \in Seq(Message) /\ Len(txBuffer) \in Nat \ {0}
        /\ Len(Tail(txBuffer)) = Len(txBuffer) - 1
        /\ \A i \in 1 .. Len(Tail(txBuffer)) : Tail(txBuffer)[i] = txBuffer[i + 1]
        /\ Head(txBuffer) = txBuffer[1]
    BY <1>1, <2>1, SentIs
  <2>4. /\ \A i \in 1 .. Len(Tail(txBuffer)) :
             i \in 1 .. Len(txBuffer') /\ txBuffer'[i] = Tail(txBuffer)[i]
        /\ \A p \in Publishers, v \in Value, i \in 1 .. Len(txBuffer') :
             txBuffer'[i] = <<p, v>> =>
               i \in 1 .. Len(Tail(txBuffer)) /\ Tail(txBuffer)[i] = <<p, v>>
    BY <2>2, <2>3, BufferKept
  <2>5. ASSUME NEW i \in 1 .. Len(txBuffer), i # 1
        PROVE  i - 1 \in 1 .. Len(txBuffer') /\ txBuffer'[i - 1] = txBuffer[i]
    <3>1. i - 1 \in 1 .. Len(Tail(txBuffer))  BY <2>3, <2>5
    <3> QED  BY <2>3, <2>4, <3>1
  <2>6. ASSUME NEW p \in Publishers, NEW v \in Value, NEW i \in 1 .. Len(txBuffer'),
               txBuffer'[i] = <<p, v>>
        PROVE  i + 1 \in 1 .. Len(txBuffer) /\ txBuffer[i + 1] = <<p, v>>
    <3>1. i \in 1 .. Len(Tail(txBuffer)) /\ Tail(txBuffer)[i] = <<p, v>>  BY <2>4, <2>6
    <3> QED  BY <2>3, <3>1
  <2>7. 1 \in 1 .. Len(txBuffer)  BY <2>3
  <2> DEFINE from == {p \in Publishers : \E v \in Value : <<p, v>> \in Popped}
  <2>8. \A p \in Publishers : p \in from <=> \E v \in Value : Head(txBuffer) = <<p, v>>
    BY <2>1
  <2>9. \/ /\ got' = [p \in Publishers |-> IF p \in from THEN Head(txBuffer)[2] ELSE got[p]]
           /\ lost' = lost
        \/ got' = got /\ lost' = lost \cup {p \in from : last[p] = Head(txBuffer)[2]}
    BY Zenon DEF RecordSent
  <2> HIDE DEF from
  <2>10. ASSUME NEW p \in Publishers
         PROVE  \/ got'[p] = last[p] \/ p \in lost'
                \/ /\ last[p] \in Value
                   /\ \E i \in 1 .. Len(txBuffer') : txBuffer'[i] = <<p, last[p]>>
    <3>1. CASE p \in from
      <4> PICK v \in Value : Head(txBuffer) = <<p, v>>
        BY <2>8, <3>1
      <4>1. txBuffer[1] = <<p, v>> /\ Head(txBuffer)[2] = v  BY <2>3
      <4>2. got[p] < v /\ v <= last[p]
        BY <2>7, <4>1 DEF OrderInv, BufferOrder, AccountInv
      <4>3. CASE v = last[p]
        <5>1. got'[p] = v \/ p \in lost'  BY <2>9, <3>1, <4>1, <4>3
        <5> QED  BY <4>3, <5>1
      <4>4. CASE v # last[p]
        <5>1. got[p] # last[p]  BY <1>1, <4>2 DEF Value
        <5>2. p \in lost => p \in lost'  BY <2>9
        <5>3. CASE p \notin lost
          <6> PICK i \in 1 .. Len(txBuffer) : txBuffer[i] = <<p, last[p]>>
            BY <5>1, <5>3 DEF AccountInv, Accounted
          <6>1. last[p] \in Value  BY <5>1, <5>3 DEF AccountInv, Accounted
          <6>2. i # 1  BY <4>1, <4>4
          <6> QED  BY <2>5, <6>1, <6>2
        <5> QED  BY <5>2, <5>3
      <4> QED  BY <4>3, <4>4
    <3>2. CASE p \notin from
      <4>1. got'[p] = got[p]  BY <2>9, <3>2
      <4>2. p \in lost => p \in lost'  BY <2>9
      <4>3. CASE got[p] # last[p] /\ p \notin lost
        <5>1. last[p] \in Value  BY <4>3 DEF AccountInv, Accounted
        <5> PICK i \in 1 .. Len(txBuffer) : txBuffer[i] = <<p, last[p]>>
          BY <4>3 DEF AccountInv, Accounted
        <5>2. i # 1  BY <2>3, <2>8, <3>2, <5>1
        <5> QED  BY <2>5, <5>1, <5>2
      <4> QED  BY <4>1, <4>2, <4>3
    <3> QED  BY <3>1, <3>2
  <2>11. \A p \in Publishers, v \in Value, i \in 1 .. Len(txBuffer') :
           txBuffer'[i] = <<p, v>> => v <= last'[p]
    BY <1>1, <2>6 DEF AccountInv
  <2> QED  BY <1>1, <2>10, <2>11 DEF AccountInv, Accounted
<1> QED  BY <1>2, <1>3

LEMMA AccountStep ==
  ASSUME HistoryTypeOK, OrderInv, AccountInv, [HNext]_hvars
  PROVE  AccountInv'
<1>1. CASE UNCHANGED <<txBuffer, history>>
  BY <1>1 DEF history, AccountInv, Accounted
<1>2. CASE RecordCleared /\ txBuffer' = <<>> /\ UNCHANGED <<got, last>>
  <2>1. Accounted'
    <3> SUFFICES ASSUME NEW p \in Publishers PROVE got[p] = last[p] \/ p \in lost'
      BY <1>2 DEF Accounted
    <3>1. CASE got[p] = last[p] \/ p \in lost  BY <1>2, <3>1 DEF RecordCleared
    <3>2. CASE \E i \in 1 .. Len(txBuffer) : txBuffer[i] = <<p, last[p]>>
      <4>1. InBuffer(p)  BY <3>2 DEF InBuffer
      <4> QED  BY <1>2, <4>1 DEF RecordCleared
    <3> QED  BY <3>1, <3>2 DEF AccountInv, Accounted
  <2>2. 1 .. Len(txBuffer') = {}  BY <1>2
  <2> QED  BY <1>2, <2>1, <2>2 DEF AccountInv
<1>3. CASE UNCHANGED hvars
  BY <1>1, <1>3, Zenon DEF hvars, vars, client
<1>4. CASE HNext
  <2>1. ASSUME NEW p \in Publishers, Push(p), RecordPush(p), UNCHANGED got
        PROVE  AccountInv'
    BY <2>1, AccountPush
  <2>2. ASSUME Idle(TRUE), RecordSent, UNCHANGED last
        PROVE  AccountInv'
    BY <2>2, AccountIdle
  <2>3. ASSUME Idle(FALSE), UNCHANGED history
        PROVE  AccountInv'
    <3>1. txBuffer \in Seq(Message) /\ txBuffer' \in {txBuffer, WithData(txBuffer)}
      BY <2>3, FillKind DEF HistoryTypeOK, TypeOK, MqttTypeOK
    <3>2. /\ \A i \in 1 .. Len(txBuffer) :
               i \in 1 .. Len(txBuffer') /\ txBuffer'[i] = txBuffer[i]
          /\ \A p \in Publishers, v \in Value, i \in 1 .. Len(txBuffer') :
               txBuffer'[i] = <<p, v>> =>
                 i \in 1 .. Len(txBuffer) /\ txBuffer[i] = <<p, v>>
      BY <3>1, BufferKept
    <3>3. Accounted'  BY <2>3, <3>2 DEF history, AccountInv, Accounted
    <3> QED  BY <2>3, <3>2, <3>3 DEF history, AccountInv
  <2> QED  BY <1>1, <1>2, <1>4, <2>1, <2>2, <2>3, AccountKind, Zenon
<1> QED  BY <1>3, <1>4

(* The safety half of Delivered: no message is lost silently.  The newest  *)
(* one of a topic stays in the buffer until it is delivered, unless it is  *)
(* taken out while the broker cannot be reached or cleared.                *)
(* (mqtt_t.cpp:281, 302-315, 363)                                        *)
THEOREM NoneLostOtherwise == HSpec => []Accounted
<1>1. HInit => AccountInv
  <2> SUFFICES ASSUME HInit PROVE AccountInv
    OBVIOUS
  <2>1. txBuffer = <<>> /\ got = [p \in Publishers |-> 0] /\ last = [p \in Publishers |-> 0]
    BY DEF HInit, Init, InitMqtt
  <2> QED  BY <2>1, MqttAssumption DEF AccountInv, Accounted
<1>2. HistoryTypeOK /\ OrderInv /\ [HNext]_hvars => (HistoryTypeOK /\ OrderInv)'
  BY HistoryStep, OrderStep
<1>3. HistoryTypeOK /\ OrderInv /\ AccountInv /\ [HNext]_hvars => AccountInv'
  BY AccountStep
<1>4. AccountInv => Accounted  BY DEF AccountInv
<1> QED  BY <1>1, <1>2, <1>3, <1>4, OrderInit, PTL DEF HSpec
=============================================================================

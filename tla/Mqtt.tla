-------------------------------- MODULE Mqtt --------------------------------
(***************************************************************************)
(* The MQTT client: src/src/mqtt_t.cpp.                                    *)
(*                                                                         *)
(* Several tasks publish (alarm rules, CAN, serial, BLE): mqttPublish()    *)
(* checks first and puts the message into txBuffer later, when it has got  *)
(* the mutex.  The WiFi task connects, sends one message after the other   *)
(* and empties the buffer when WiFi is lost; what it calls are operators   *)
(* here, the WiFi task itself is in module Net.                            *)
(*                                                                         *)
(* A message is the task it comes from and the number of its value there;  *)
(* the cyclic BMS data, which the WiFi task publishes itself, is Data.     *)
(***************************************************************************)
EXTENDS Integers, Sequences, FiniteSets

CONSTANTS
  Publishers,   (* the tasks that publish                                  *)
  TxTop,        (* a message is refused when more are in txBuffer: 300     *)
  Tries,        (* connection attempts before a disconnect(): 5            *)
  DataTop,      (* messages of cyclic data per call                        *)
  ValueTop      (* bound: values a task publishes                          *)

ASSUME MqttAssumption ==
  /\ IsFiniteSet(Publishers)
  /\ TxTop \in Nat /\ Tries \in Nat /\ DataTop \in Nat /\ ValueTop \in Nat

Value   == 1 .. ValueTop
Data    == <<"data", 0>>
Message == (Publishers \X Value) \cup {Data}

VARIABLES
  link,         (* WiFi.status() == WL_CONNECTED                           *)
  broker,       (* the broker is reachable by whoever has a link           *)
  notAll,       (* BleHandler::isNotAllDeviceConnectedOrScanRunning()      *)
  enabled,      (* bo_mMqttEnable                                          *)
  mqtt,         (* smMqttConnectState                                      *)
  session,      (* mqttClient: "dead" is connected() on this side only     *)
  attempts,     (* u8_mWaitConnectCounter                                  *)
  txBuffer,
  count,        (* the values a task has had so far                        *)
  accepted      (* the value a task waits with for the mutex, 0 for none   *)

client == <<enabled, mqtt, session, attempts, txBuffer>>
tasks  == <<count, accepted>>

MqttTypeOK ==
  /\ link \in BOOLEAN /\ broker \in BOOLEAN /\ notAll \in BOOLEAN
  /\ enabled \in BOOLEAN /\ mqtt \in {"wait", "connected", "disconnected"}
  /\ session \in {"none", "open", "dead"} /\ attempts \in 0 .. Tries
  /\ txBuffer \in Seq(Message)
  /\ count \in [Publishers -> 0 .. ValueTop]
  /\ accepted \in [Publishers -> 0 .. ValueTop]

(* initMqtt(), with the setting it reads.                                  *)
InitMqtt(on) ==
  /\ enabled = on /\ mqtt = "disconnected" /\ session = "none" /\ attempts = 0
  /\ txBuffer = <<>>
  /\ count = [p \in Publishers |-> 0] /\ accepted = [p \in Publishers |-> 0]

-----------------------------------------------------------------------------
(* The tasks that publish.                                                 *)

(* Mutant: the size of the buffer is not looked at.                        *)
AcceptsAlways == mqtt # "disconnected" /\ link /\ ~notAll

Accepts == mqtt # "disconnected" /\ link /\ ~notAll /\ Len(txBuffer) <= TxTop

(* mqttPublish(), up to the mutex: the task has a new value for its topic. *)
Publish(p) ==
  /\ accepted[p] = 0 /\ count[p] < ValueTop
  /\ count' = [count EXCEPT ![p] = @ + 1]
  /\ accepted' = [accepted EXCEPT ![p] = IF Accepts THEN count'[p] ELSE 0]
  /\ UNCHANGED <<link, broker, notAll, client>>

(* Mutant: the new message goes to the front.                              *)
PushFront(p) ==
  /\ accepted[p] # 0
  /\ txBuffer' = <<<<p, accepted[p]>>>> \o txBuffer
  /\ accepted' = [accepted EXCEPT ![p] = 0]
  /\ UNCHANGED <<link, broker, notAll, enabled, mqtt, session, attempts, count>>

(* ... and with the mutex.                                                 *)
Push(p) ==
  /\ accepted[p] # 0
  /\ txBuffer' = Append(txBuffer, <<p, accepted[p]>>)
  /\ accepted' = [accepted EXCEPT ![p] = 0]
  /\ UNCHANGED <<link, broker, notAll, enabled, mqtt, session, attempts, count>>

-----------------------------------------------------------------------------
(* What the WiFi task calls.  Of its variables each says only what it      *)
(* changes of enabled .. txBuffer.                                         *)

Connected == session # "none"           \* mqttClient.connected()

Configured == link /\ ~notAll           \* an address is set: see Settings

(* connect() of the client.                                                *)
Attempt ==
  /\ attempts' = attempts + 1 /\ mqtt' = "wait"
  /\ session' = IF broker THEN "open" ELSE "none"

(* Mutant: the attempts are not counted from 0 again.                      *)
GiveUpAttemptFull ==
  attempts' = attempts /\ mqtt' = "disconnected" /\ session' = "none"

(* After Tries attempts in a row one is left out.                          *)
GiveUpAttempt == attempts' = 0 /\ mqtt' = "disconnected" /\ session' = "none"

(* mqttConnect(), which returns ret.                                       *)
MqttConnect(ret) ==
  /\ UNCHANGED <<enabled, txBuffer>>
  /\ IF ~enabled THEN ret /\ UNCHANGED <<mqtt, session, attempts>>
     ELSE \/ ~Configured /\ ~ret /\ mqtt' = "wait" /\ UNCHANGED <<session, attempts>>
          \/ /\ Configured /\ Connected /\ ret
             /\ mqtt' = "connected" /\ attempts' = 0 /\ UNCHANGED session
          \/ Configured /\ ~Connected /\ attempts = Tries /\ ~ret /\ GiveUpAttempt
          \/ /\ Configured /\ ~Connected /\ attempts # Tries
             /\ Attempt /\ ret = (session' = "open")

(* mqttPublishLoopFromTxBuffer(): the message is taken out of the buffer   *)
(* whether or not it can be sent.                                          *)
Sent == IF txBuffer = <<>> THEN txBuffer ELSE Tail(txBuffer)

(* mqttDataToTxBuffer(), when it is time for the next data: as much of it  *)
(* as the buffer takes.                                                    *)
Room(q)     == IF Len(q) > TxTop THEN 0 ELSE TxTop + 1 - Len(q)
Taken(q)    == IF DataTop < Room(q) THEN DataTop ELSE Room(q)
WithData(q) == q \o [i \in 1 .. Taken(q) |-> Data]

(* mqttLoop() while it is connected: pop, when the last message was taken  *)
(* out more than 15 ms ago.                                                *)
SendNext(pop) ==
  /\ LET rest == IF pop THEN Sent ELSE txBuffer
     IN txBuffer' = rest \/ (link /\ txBuffer' = WithData(rest))
  /\ UNCHANGED <<enabled, mqtt, session, attempts>>

(* mqttLoop(), which returns ret.                                          *)
MqttLoop(ret, pop) ==
  \/ (~enabled \/ notAll) /\ ret /\ UNCHANGED client
  \/ /\ enabled /\ ~notAll
     /\ IF mqtt = "connected" /\ Connected THEN ret /\ SendNext(pop)
        ELSE /\ ~ret
             /\ mqtt' = IF mqtt = "connected" THEN "disconnected" ELSE "wait"
             /\ UNCHANGED <<enabled, session, attempts, txBuffer>>

(* mqttDisconnect(): it empties the buffer without the mutex.              *)
MqttDisconnect ==
  /\ mqtt' = "disconnected" /\ session' = "none" /\ txBuffer' = <<>>
  /\ UNCHANGED <<enabled, attempts>>

-----------------------------------------------------------------------------
(* Not in the firmware: the broker and the connection to it.               *)

BrokerFails ==
  /\ broker /\ broker' = FALSE
  /\ session' = IF session = "open" THEN "dead" ELSE session
  /\ UNCHANGED <<link, notAll, enabled, mqtt, attempts, txBuffer, tasks>>

BrokerReturns ==
  /\ ~broker /\ broker' = TRUE
  /\ UNCHANGED <<link, notAll, client, tasks>>

SessionLost ==
  /\ session = "open" /\ session' = "dead"
  /\ UNCHANGED <<link, broker, notAll, enabled, mqtt, attempts, txBuffer, tasks>>

(* The client has had no answer.                                           *)
Notice ==
  /\ session = "dead" /\ session' = "none"
  /\ UNCHANGED <<link, broker, notAll, enabled, mqtt, attempts, txBuffer, tasks>>
=============================================================================

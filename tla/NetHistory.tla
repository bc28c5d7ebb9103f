----------------------------- MODULE NetHistory -----------------------------
(* Net with what the broker has got.  What disturbs the network happens at *)
(* most MayDisturb times.                                                  *)
EXTENDS Net

CONSTANTS MayDisturb

ASSUME DisturbAssumption == MayDisturb \in Nat

VARIABLES
  got,      (* the value of each task the broker got last, 0 for none      *)
  last,     (* the value of each task last put into the buffer             *)
  lost,     (* the tasks whose last value was taken out, but not delivered *)
  turns     (* disturbances so far                                         *)

history == <<got, last, lost>>
hvars   == <<vars, history, turns>>

HInit ==
  /\ Init
  /\ got = [p \in Publishers |-> 0] /\ last = [p \in Publishers |-> 0]
  /\ lost = {} /\ turns = 0

(* The message a step Idle(TRUE) takes out.                                *)
Popped == IF enabled /\ mqtt = "connected" /\ Connected /\ ~notAll /\ txBuffer # <<>>
          THEN {Head(txBuffer)} ELSE {}

RecordSent ==
  LET from == {p \in Publishers : \E v \in Value : <<p, v>> \in Popped}
      v(p) == Head(txBuffer)[2]
  IN  IF session = "open" /\ link
      THEN got' = [p \in Publishers |-> IF p \in from THEN v(p) ELSE got[p]] /\ UNCHANGED lost
      ELSE UNCHANGED got /\ lost' = lost \cup {p \in from : last[p] = v(p)}

InBuffer(p) == \E i \in 1 .. Len(txBuffer) : txBuffer[i][1] = p

RecordCleared == lost' = lost \cup {p \in Publishers : InBuffer(p)}

RecordPush(p) == last' = [last EXCEPT ![p] = accepted[p]] /\ lost' = lost \ {p}

Proceeds ==
  \/ Idle(TRUE) /\ RecordSent /\ UNCHANGED last
  \/ Idle(FALSE) /\ UNCHANGED history
  \/ event = "none" /\ WifiDisconnected /\ RecordCleared /\ UNCHANGED <<got, last>>
  \/ /\ ConnectTask /\ ~WifiDisconnected /\ (state = "idle" => Lost)
     /\ UNCHANGED history

OfMqtt == UNCHANGED <<setting, net, trying, again, event, flags, task>>

Pushes == \E p \in Publishers : Push(p) /\ RecordPush(p) /\ OfMqtt /\ UNCHANGED got

Steps == Proceeds \/ Pushes \/ ((OnWiFiEvent \/ LinkUp) /\ UNCHANGED history)

(* Without the access point the link is lost; loop() of the client finds   *)
(* out that the broker does not answer.                                    *)
Gone == LinkDown /\ ~net /\ UNCHANGED history

Unanswered ==
  /\ state = "idle" /\ wlan = "sta" /\ mqtt = "connected" /\ ~notAll
  /\ Notice /\ OfMqtt /\ UNCHANGED history

(* What is over may come back.                                             *)
Repairs ==
  /\ BleReady \/ NetReturns \/ (BrokerReturns /\ OfMqtt)
  /\ UNCHANGED history

Publishes == \E p \in Publishers : Publish(p) /\ OfMqtt /\ UNCHANGED history

Disturbs ==
  \/ (SaveSetting \/ NetFails \/ BleBusy) /\ UNCHANGED history
  \/ LinkDown /\ net /\ UNCHANGED history
  \/ (BrokerFails \/ SessionLost) /\ OfMqtt /\ UNCHANGED history
  \/ TornBuffer /\ RecordCleared /\ UNCHANGED <<got, last>>

HNext ==
  \/ (Steps \/ Gone \/ Unanswered \/ Repairs \/ Publishes) /\ UNCHANGED turns
  \/ Disturbs /\ turns < MayDisturb /\ turns' = turns + 1

HSpec == HInit /\ [][HNext]_hvars

(* The tasks go on, the station connects to an access point that is there  *)
(* and loses one that is not.  The BLE task need not release MQTT.         *)
FairHSpec ==
  /\ HSpec
  /\ WF_hvars(Proceeds /\ UNCHANGED turns)
  /\ WF_hvars(Pushes /\ UNCHANGED turns)
  /\ WF_hvars(OnWiFiEvent /\ UNCHANGED <<history, turns>>)
  /\ WF_hvars(LinkUp /\ UNCHANGED <<history, turns>>)
  /\ WF_hvars((Gone \/ Unanswered) /\ UNCHANGED turns)
-----------------------------------------------------------------------------

(* The buffer of messages is bounded although its size is compared before  *)
(* the mutex is taken: every task, the WiFi task included, can add one     *)
(* message to a buffer that is full.  (mqtt_t.cpp:343, 362-364)            *)
QueueBounded == Len(txBuffer) <= TxTop + 1 + Cardinality(Publishers)

(* What a subscriber sees of a topic are values of its task, each at most  *)
(* once and never an older one after a newer one, whatever is lost,        *)
(* cleared or sent in a later session.  (mqtt_t.cpp:304-315, 363)          *)
Subscriber == INSTANCE Topics
  WITH Topic <- Publishers, Top <- ValueTop, latest <- count, seen <- got

ImplementsTopics == Subscriber!Spec

(* A lost connection is noticed: the firmware either has it again or does  *)
(* no longer take itself for connected, whatever the WiFi task waits for.  *)
(* (main.cpp:346-352, 568, 586, 600, 611)                                  *)
LossNoticed == wlan = "sta" /\ ~link ~> link \/ wlan # "sta"

(* The connection came after the last look at it: the firmware stays with  *)
(* wlan = "off" until it is lost again, idle or waiting for a flag that    *)
(* only the BLE task would clear, which is not let run.                    *)
TooLate == state \in {"connectBT2", "idle"} /\ wlan = "off" /\ link

(* Once the access point stays, the firmware reaches it or opens its own:  *)
(* the pages are served and the BLE task is let run.  It does neither when *)
(* the user has removed the SSID.  (main.cpp:361-464, 486-530, 595-607)    *)
WifiServed ==
  <>[](net /\ setting.ssid) =>
    <>[](TooLate \/ (server /\ running /\ wlan # "off"))

(* And when the broker stays as well, MQTT is connected again and all that *)
(* was put into the buffer has been delivered, unless it was taken out     *)
(* while the broker could not be reached.  (mqtt_t.cpp:92-271)             *)
Works == net /\ broker /\ enabled /\ setting.mqtt

Delivered ==
  <>[](Works /\ wlan = "sta" /\ ~notAll) =>
    <>[](\A p \in Publishers : ~InBuffer(p) /\ (got[p] = last[p] \/ p \in lost))
=============================================================================

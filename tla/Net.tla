-------------------------------- MODULE Net --------------------------------
(***************************************************************************)
(* The WiFi connection and what depends on it: task_ConnectWiFi(),         *)
(* connectWiFi() and onWiFiEvent() of src/src/main.cpp, with the MQTT      *)
(* client of module Mqtt.                                                  *)
(*                                                                         *)
(* The event task of the WiFi library sets the status of the link and then *)
(* calls onWiFiEvent(), which sets the flags conn and disc.  The WiFi task *)
(* polls them once a second, one case of its switch at a time.  Testing    *)
(* and clearing disc is one step here: an event in between either finds    *)
(* the flag cleared or is followed by the reconnection it asks for.        *)
(***************************************************************************)
EXTENDS Mqtt

CONSTANTS
  Settings,     (* the system settings a user may save                     *)
  WaitTop,      (* tries of the state connectWifi: 5                       *)
  PassTop       (* attempts of mqttConnect() that fit into 30 s            *)

ASSUME NetAssumption ==
  /\ Settings # {} /\ Settings \subseteq [ssid : BOOLEAN, timeout : BOOLEAN, mqtt : BOOLEAN]
  /\ WaitTop \in Nat /\ PassTop \in Nat \ {0}

VARIABLES
  setting,      (* is an SSID set, a timeout other than 0, MQTT enabled    *)
  net,          (* the access point of the user is there                   *)
  trying,       (* the station tries to connect                            *)
  again,        (* the library still repeats a failed attempt by itself    *)
  event,        (* the event onWiFiEvent() is called for                   *)
  conn, disc,   (* wlanEventStaConnect, wlanEventStaDisonnect              *)
  wlan,         (* WlanStaApOk                                             *)
  first,        (* firstWlanModeSTA                                        *)
  state,        (* mConnectStateEnums; "connecting" and "status" are the   *)
                (* loop of connectWiFi() and what follows it               *)
  neverAp,      (* bo_lWlanNeverAp                                         *)
  waits,        (* u8_mWaitConnCounter                                     *)
  passes,       (* attempts since connectMqttTimer was set                 *)
  server,       (* the web server has been begun                           *)
  running       (* bo_mBleHandlerRunning                                   *)

station == <<link, trying, again>>
flags   == <<conn, disc>>
task    == <<wlan, first, state, neverAp, waits, passes, server, running>>
vars    == <<setting, net, broker, station, event, flags, notAll, client, tasks, task>>

State == {"wifiDisconnected", "noWifiConnection", "connecting", "status", "connectWifi",
          "wifiConnected", "wlanApMode", "connectMQTTstart", "connectMQTT",
          "connectBT", "connectBT2", "idle"}

TypeOK ==
  /\ MqttTypeOK
  /\ setting \in Settings /\ net \in BOOLEAN
  /\ trying \in BOOLEAN /\ again \in BOOLEAN
  /\ event \in {"none", "gotIp", "lost", "apStart"}
  /\ conn \in BOOLEAN /\ disc \in BOOLEAN
  /\ wlan \in {"off", "sta", "ap"} /\ first \in BOOLEAN
  /\ state \in State /\ neverAp \in BOOLEAN
  /\ waits \in 0 .. WaitTop + 1 /\ passes \in 0 .. PassTop
  /\ server \in BOOLEAN /\ running \in BOOLEAN

Init ==
  /\ setting \in Settings /\ net \in BOOLEAN /\ broker = TRUE
  /\ InitMqtt(setting.mqtt) /\ notAll = FALSE
  /\ link = FALSE /\ trying = FALSE /\ again = TRUE /\ event = "none"
  /\ conn = FALSE /\ disc = FALSE /\ wlan = "off" /\ first = FALSE
  /\ state = "noWifiConnection" /\ neverAp = FALSE /\ waits = 0 /\ passes = 0
  /\ server = FALSE /\ running = FALSE

-----------------------------------------------------------------------------
(* The event task.  The library repeats a failed or lost connection once   *)
(* by itself; setAutoReconnect(false) keeps it from doing so again.        *)

LinkUp ==
  /\ event = "none" /\ trying /\ net
  /\ link' = TRUE /\ trying' = FALSE /\ event' = "gotIp"
  /\ UNCHANGED <<setting, net, broker, again, flags, notAll, client, tasks, task>>

(* Mutant: connectWiFi() begins only once.                                 *)
LinkDownForGood ==
  /\ event = "none" /\ (link \/ trying)
  /\ link' = FALSE /\ event' = "lost" /\ trying' = again /\ again' = FALSE
  /\ session' = IF session = "open" THEN "dead" ELSE session
  /\ UNCHANGED <<setting, net, broker, flags, notAll, enabled, mqtt, attempts,
                 txBuffer, tasks, task>>

(* connectWiFi() begins again in its loop.                                 *)
LinkDown ==
  /\ event = "none" /\ (link \/ trying)
  /\ link' = FALSE /\ event' = "lost"
  /\ trying' = (again \/ state = "connecting") /\ again' = FALSE
  /\ session' = IF session = "open" THEN "dead" ELSE session
  /\ UNCHANGED <<setting, net, broker, flags, notAll, enabled, mqtt, attempts,
                 txBuffer, tasks, task>>

OnWiFiEvent ==
  /\ event # "none" /\ event' = "none"
  /\ conn' = IF event = "gotIp" THEN TRUE ELSE IF event = "lost" THEN FALSE ELSE conn
  /\ disc' = IF event = "gotIp" THEN FALSE
             ELSE disc \/ (event = "lost" /\ wlan # "ap")
  /\ wlan' = IF event = "apStart" THEN "ap" ELSE wlan
  /\ UNCHANGED <<setting, net, broker, station, notAll, client, tasks, first, state,
                 neverAp, waits, passes, server, running>>

-----------------------------------------------------------------------------
(* connectWiFi()                                                           *)

(* An access point of its own is opened instead.  An event that is still   *)
(* to be reported does not matter any more: nothing leaves this mode.      *)
OpenAp ==
  /\ wlan' = "ap" /\ link' = FALSE /\ trying' = FALSE
  /\ event' = "apStart" /\ state' = "wlanApMode"

NoAp == UNCHANGED <<wlan, link, trying, event>> /\ state' = "connectWifi"

NoWifiConnection ==
  /\ state = "noWifiConnection"
  /\ neverAp' = (~setting.timeout /\ first)
  /\ IF setting.ssid
     THEN state' = "connecting" /\ trying' = ~link /\ UNCHANGED <<wlan, link, event>>
     ELSE IF first /\ neverAp' THEN NoAp ELSE OpenAp
  /\ UNCHANGED <<setting, net, broker, again, flags, notAll, client, tasks, first,
                 waits, passes, server, running>>

(* The loop ends with the connection, or with the timeout.                 *)
Connecting ==
  /\ state = "connecting" /\ (link \/ ~neverAp)
  /\ state' = "status"
  /\ UNCHANGED <<setting, net, broker, station, event, flags, notAll, client, tasks,
                 wlan, first, neverAp, waits, passes, server, running>>

(* The status is asked a second time after the loop.                       *)
Status ==
  /\ state = "status" /\ first' = (first \/ link)
  /\ IF link \/ (first /\ neverAp) THEN NoAp ELSE OpenAp
  /\ UNCHANGED <<setting, net, broker, again, flags, notAll, client, tasks, neverAp,
                 waits, passes, server, running>>

-----------------------------------------------------------------------------
(* task_ConnectWiFi(), the other cases of its switch                       *)

WlanApMode ==
  /\ state = "wlanApMode" /\ state' = "connectBT" /\ server' = TRUE
  /\ UNCHANGED <<setting, net, broker, station, event, flags, notAll, client, tasks,
                 wlan, first, neverAp, waits, passes, running>>

(* Mutant: the tries are not counted from the start again.                 *)
ConnectWifiCountsOn ==
  /\ state = "connectWifi"
  /\ IF link /\ conn
     THEN waits' = 0 /\ conn' = FALSE /\ state' = "wifiConnected"
     ELSE /\ UNCHANGED conn /\ waits' = waits + 1
          /\ state' = IF waits > WaitTop THEN "connectBT" ELSE state
  /\ UNCHANGED <<setting, net, broker, station, event, disc, notAll, client, tasks,
                 wlan, first, neverAp, passes, server, running>>

ConnectWifi ==
  /\ state = "connectWifi"
  /\ IF link /\ conn
     THEN waits' = 0 /\ conn' = FALSE /\ state' = "wifiConnected"
     ELSE /\ UNCHANGED conn
          /\ IF waits > WaitTop THEN waits' = 1 /\ state' = "connectBT"
                                ELSE waits' = waits + 1 /\ UNCHANGED state
  /\ UNCHANGED <<setting, net, broker, station, event, disc, notAll, client, tasks,
                 wlan, first, neverAp, passes, server, running>>

WifiConnected ==
  /\ state = "wifiConnected" /\ state' = "connectMQTTstart"
  /\ wlan' = "sta" /\ server' = TRUE
  /\ UNCHANGED <<setting, net, broker, station, event, flags, notAll, client, tasks,
                 first, neverAp, waits, passes, running>>

ConnectMQTTstart ==
  /\ state = "connectMQTTstart" /\ state' = "connectMQTT" /\ passes' = 0
  /\ UNCHANGED <<setting, net, broker, station, event, flags, notAll, client, tasks,
                 wlan, first, neverAp, waits, server, running>>

Lost == disc /\ wlan # "ap"

(* Mutant: one of the states does not look at the flag.                    *)
LeaveNotBT2 ==
  /\ state \in {"connectMQTT", "connectBT", "idle"} /\ Lost
  /\ disc' = FALSE /\ state' = "wifiDisconnected"
  /\ UNCHANGED <<setting, net, broker, station, event, conn, notAll, client, tasks,
                 wlan, first, neverAp, waits, passes, server, running>>

(* The same lines in four states.                                          *)
Leave ==
  /\ state \in {"connectMQTT", "connectBT", "connectBT2", "idle"} /\ Lost
  /\ disc' = FALSE /\ state' = "wifiDisconnected"
  /\ UNCHANGED <<setting, net, broker, station, event, conn, notAll, client, tasks,
                 wlan, first, neverAp, waits, passes, server, running>>


(* The first attempt always fits into the 30 s.                            *)
MqttTimeout ==
  /\ state = "connectMQTT" /\ passes > 0 /\ state' = "connectBT"
  /\ UNCHANGED <<setting, net, broker, station, event, flags, notAll, client, tasks,
                 wlan, first, neverAp, waits, passes, server, running>>

ConnectMQTT ==
  /\ state = "connectMQTT" /\ ~Lost /\ passes < PassTop
  /\ IF setting.mqtt
     THEN \E ret \in BOOLEAN :
            /\ MqttConnect(ret)
            /\ IF ret THEN state' = "connectBT" /\ UNCHANGED passes
                      ELSE passes' = passes + 1 /\ UNCHANGED state
     ELSE state' = "connectBT" /\ UNCHANGED <<client, passes>>
  /\ UNCHANGED <<setting, net, broker, station, event, flags, notAll, tasks,
                 wlan, first, neverAp, waits, server, running>>

ConnectBT ==
  /\ state = "connectBT" /\ ~Lost
  /\ running' = TRUE /\ state' = "connectBT2"
  /\ UNCHANGED <<setting, net, broker, station, event, flags, notAll, client, tasks,
                 wlan, first, neverAp, waits, passes, server>>

ConnectBT2 ==
  /\ state = "connectBT2" /\ ~Lost /\ ~notAll /\ state' = "idle"
  /\ UNCHANGED <<setting, net, broker, station, event, flags, notAll, client, tasks,
                 wlan, first, neverAp, waits, passes, server, running>>

Idle(pop) ==
  /\ state = "idle" /\ ~Lost /\ wlan = "sta"
  /\ \E ret \in BOOLEAN : MqttLoop(ret, pop) /\ state' = IF ret THEN "idle" ELSE "connectMQTTstart"
  /\ UNCHANGED <<setting, net, broker, station, event, flags, notAll, tasks,
                 wlan, first, neverAp, waits, passes, server, running>>

WifiDisconnected ==
  /\ state = "wifiDisconnected" /\ state' = "noWifiConnection"
  /\ wlan' = "off" /\ server' = FALSE /\ running' = FALSE /\ notAll' = FALSE
  /\ MqttDisconnect
  /\ UNCHANGED <<setting, net, broker, station, event, flags, tasks, first, neverAp,
                 waits, passes>>

(* The buffer is emptied while another task adds to it: memory may be      *)
(* damaged, and the firmware starts again.                                 *)
TornBuffer ==
  /\ state = "wifiDisconnected" /\ \E p \in Publishers : accepted[p] # 0
  /\ link' = FALSE /\ trying' = FALSE /\ again' = TRUE /\ event' = "none"
  /\ conn' = FALSE /\ disc' = FALSE /\ wlan' = "off" /\ first' = FALSE
  /\ state' = "noWifiConnection" /\ neverAp' = FALSE /\ waits' = 0 /\ passes' = 0
  /\ server' = FALSE /\ running' = FALSE /\ notAll' = FALSE
  /\ enabled' = setting.mqtt /\ mqtt' = "disconnected" /\ session' = "none"
  /\ attempts' = 0 /\ txBuffer' = <<>> /\ accepted' = [p \in Publishers |-> 0]
  /\ UNCHANGED <<setting, net, broker, count>>

(* The task waits a second before every step but these three, long enough  *)
(* for the event task to have called onWiFiEvent().                        *)
ConnectTask ==
  \/ Connecting \/ Status \/ (\E pop \in BOOLEAN : Idle(pop))
  \/ /\ event = "none"
     /\ \/ NoWifiConnection \/ ConnectWifi \/ WlanApMode \/ WifiConnected
        \/ ConnectMQTTstart \/ ConnectMQTT \/ MqttTimeout
        \/ ConnectBT \/ ConnectBT2 \/ Leave \/ WifiDisconnected

-----------------------------------------------------------------------------
(* The user, who needs the web server to save settings, and what is around *)
(* the firmware's network part.  notAll is as module BleConnect describes: *)
(* the BLE task sets it while there is WiFi, or once that is lost in a run *)
(* still under way, and releases it.                                       *)

SaveSetting ==
  /\ server /\ wlan # "off" /\ setting' \in Settings \ {setting}
  /\ UNCHANGED <<net, broker, station, event, flags, notAll, client, tasks, task>>

NetFails ==
  /\ net /\ net' = FALSE
  /\ UNCHANGED <<setting, broker, station, event, flags, notAll, client, tasks, task>>

NetReturns ==
  /\ ~net /\ net' = TRUE
  /\ UNCHANGED <<setting, broker, station, event, flags, notAll, client, tasks, task>>

BleBusy ==
  /\ ~notAll /\ (wlan # "off" \/ first) /\ notAll' = TRUE
  /\ UNCHANGED <<setting, net, broker, station, event, flags, client, tasks, task>>

BleReady ==
  /\ notAll /\ notAll' = FALSE
  /\ UNCHANGED <<setting, net, broker, station, event, flags, client, tasks, task>>

Surroundings ==
  \/ SaveSetting \/ NetFails \/ NetReturns \/ BleBusy \/ BleReady \/ LinkDown
  \/ (BrokerFails \/ BrokerReturns \/ SessionLost \/ Notice)
     /\ UNCHANGED <<setting, net, trying, again, event, flags, task>>

Publishing ==
  /\ \E p \in Publishers : Publish(p) \/ Push(p)
  /\ UNCHANGED <<setting, net, trying, again, event, flags, task>>

Next == ConnectTask \/ OnWiFiEvent \/ LinkUp \/ Surroundings \/ Publishing \/ TornBuffer

Spec == Init /\ [][Next]_vars

=============================================================================

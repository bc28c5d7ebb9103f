------------------------------- MODULE MCNet -------------------------------
(* Model checking of NetHistory.                                           *)
EXTENDS NetHistory

(* With and without a timeout; MQTT disabled; the SSID removed.            *)
MCSettings ==
  [ssid : {TRUE}, timeout : BOOLEAN, mqtt : {TRUE}]
    \cup {[ssid |-> TRUE, timeout |-> FALSE, mqtt |-> FALSE],
          [ssid |-> FALSE, timeout |-> FALSE, mqtt |-> TRUE]}
=============================================================================

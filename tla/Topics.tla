------------------------------- MODULE Topics -------------------------------
(***************************************************************************)
(* What MQTT promises to who subscribes to the controller: a topic has one *)
(* value after the other, and of these the broker gets some, each at most  *)
(* once and never one that is older than what it has.  A value may be      *)
(* skipped at any time, and nothing tells when the next one comes.         *)
(***************************************************************************)
EXTENDS Naturals

CONSTANTS Topic, Top   (* values a topic has at most                       *)

VARIABLES latest, seen (* of each topic, numbered; 0: none                 *)

Init == latest = [t \in Topic |-> 0] /\ seen = [t \in Topic |-> 0]

Renew(t) ==
  /\ latest[t] < Top /\ latest' = [latest EXCEPT ![t] = @ + 1]
  /\ UNCHANGED seen

See(t, v) ==
  /\ seen[t] < v /\ v <= latest[t] /\ seen' = [seen EXCEPT ![t] = v]
  /\ UNCHANGED latest

Next == \E t \in Topic : Renew(t) \/ \E v \in 1 .. Top : See(t, v)

Spec == Init /\ [][Next]_<<latest, seen>>
=============================================================================

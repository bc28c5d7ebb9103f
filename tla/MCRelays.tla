------------------------------ MODULE MCRelays ------------------------------
(* Settings for the model-checking runs of Relays.                         *)
EXTENDS Relays

Row(sel, permanent, delay, ticks) ==
  [sel |-> sel, permanent |-> permanent, delay |-> delay, ticks |-> ticks]

Two(a, b) == [f \in {"sel", "permanent", "delay", "ticks"} |->
                [o \in {0, 1} |-> IF o = 0 THEN a[f] ELSE b[f]]]
One(a)    == [f \in {"sel", "permanent", "delay", "ticks"} |-> [o \in {0} |-> a[f]]]

(* Permanent relays with and without a delay that share a trigger, and a   *)
(* permanent relay beside a pulse on another trigger.  2 is the shortest   *)
(* delay that can still be counting when its trigger goes and comes back.  *)
MixedConfigs == {Two(Row({0}, TRUE, 2, 1), Row({0, 1}, TRUE, 0, 1)),
                 Two(Row({0}, TRUE, 0, 1), Row({1}, FALSE, 0, 2))}

(* One pulse relay alone, or one permanent relay.                          *)
PulseConfigs == {One(Row({0}, FALSE, d, p)) : d \in 0 .. 1, p \in 1 .. 3}
                  \cup {One(Row({0, 1}, TRUE, 0, 1))}

(* The LED in the relay byte, or a board with a pin of its own for it.     *)
OldBoard  == {0}
NewBoard  == {1}
AllBoards == {0, 1}

(* One permanent relay with a delay.                                       *)
DelayConfigs == {One(Row({0}, TRUE, 1, 1))}
=============================================================================

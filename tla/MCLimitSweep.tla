---------------------------- MODULE MCLimitSweep ----------------------------
(* Settings for the model-checking runs of LimitSweep.                     *)
EXTENDS LimitSweep

Rule(max, start, end, floor, from, perPercent, perMv) ==
  [max       |-> max,
   cell      |-> [on |-> TRUE, start |-> start, end |-> end, floor |-> floor],
   drift     |-> [on |-> TRUE, start |-> 2, cell |-> start, perMv |-> perMv],
   soc       |-> [on |-> TRUE, from |-> from, perPercent |-> perPercent],
   discharge |-> [on |-> TRUE, start |-> end, end |-> start, floor |-> floor]]

(* Ranges that divide evenly and that do not, swapped voltages, and a      *)
(* minimum above the maximum.                                              *)
SweepRules ==
  {Rule(m, 3400, e, f, 90, p, 7) :
     m \in {20, 280}, e \in {3390, 3413, 3420}, f \in {0, 5, 25}, p \in {4, 48}}
SweepVoltages == 3388 .. 3423
SweepDiffs == 0 .. 6
SweepSocs == 87 .. 100

(* The theorems of LimitProofs speak of settings like these.               *)
ASSUME SweepFits == Fits
=============================================================================

SPECIFICATION Spec
CONSTANTS
  Rules <- SweepRules
  Voltages <- SweepVoltages
  Diffs <- SweepDiffs
  Socs <- SweepSocs
INVARIANT LimitsInRange
PROPERTY LimitsFall
CHECK_DEADLOCK FALSE

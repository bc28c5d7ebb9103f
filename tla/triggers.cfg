SPECIFICATION HSpec
CONSTANTS
  NumTriggers = 2
  BmsRule = {b1}
  TempRule = {t1}
  SocRule = {s1}
  Input = {d1}
  Configs <- SharedConfigs
INVARIANTS TypeOK CausesExplainAlarm LimitApplied LimitLifted

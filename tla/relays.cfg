SPECIFICATION HSpec
CONSTANTS
  NumTriggers = 2
  NumOutputs = 2
  HwVersions <- OldBoard
  Configs <- MixedConfigs
INVARIANTS TypeOK PulseTimerArmed LatchFollowsByte ReleasedWhenClear OnOrDelayed

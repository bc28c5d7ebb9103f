SPECIFICATION SteadySpec
CONSTANTS
  NumTriggers = 2
  NumOutputs = 1
  HwVersions <- NewBoard
  Configs <- DelayConfigs
INVARIANT ReleasedDespiteDelay

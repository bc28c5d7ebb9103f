SPECIFICATION SteadySpec
CONSTANTS
  NumTriggers = 2
  NumOutputs = 1
  HwVersions <- AllBoards
  Configs <- PulseConfigs
PROPERTIES PulseEnds RelaysReleased

SPECIFICATION FairHSpec
CONSTANTS
 NumDevices = 1
 NumCells = 1
 CountTop = 2
 MaySave = 2
 Cycles = 1
 CyclesTop = 2
 Settings <- MCSettings
 Answers <- MCAnswers
INVARIANTS TypeOK ErrorsCounted FullWhenReached
PROPERTIES FrozenStays FrozenNoticed

SPECIFICATION HSpec
CONSTANTS
 NumDevices = 2
 NumCells = 1
 CountTop = 2
 MaySave = 0
 Cycles = 1
 CyclesTop = 2
 Settings <- TwoSettings
 Answers <- TwoAnswers
PROPERTIES DroppedOnFall

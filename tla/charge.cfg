SPECIFICATION HSpec
CONSTANTS
  Pack <- Both
  Readings <- FullEmpty
  Alarms <- FullAlarm
  Families <- CutAndRefill
INVARIANTS TypeOK RefillPause PauseBounded
PROPERTIES CutOffHolds SocFromPacks

SPECIFICATION HSpec
CONSTANTS
  Pack <- One
  Readings <- FullEmpty
  Alarms <- ChargeAlarm
  Families <- RampAndSwitch
PROPERTY SettlesAtTarget

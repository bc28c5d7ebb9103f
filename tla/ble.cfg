SPECIFICATION FairHSpec
CONSTANTS
 NumSlots = 2
 ScanTime = 3
 MayDisturb = 2
 Settings <- MCSettings
 Deactivated <- MCDeactivated
INVARIANTS TypeOK ConnectsFound SetupEnds WriteReady RequestKept
PROPERTIES DevicesServed BalancerFollows MqttReleased

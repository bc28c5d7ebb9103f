SPECIFICATION FairHSpec
CONSTANTS
  Publishers = {rules}
  TxTop = 1
  Tries = 1
  DataTop = 2
  ValueTop = 2
  Settings <- MCSettings
  WaitTop = 0
  PassTop = 2
  MayDisturb = 2
INVARIANTS TypeOK QueueBounded
PROPERTIES ImplementsTopics LossNoticed WifiServed Delivered
CHECK_DEADLOCK FALSE

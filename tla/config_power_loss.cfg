SPECIFICATION Spec
CONSTANTS
  Version <- Versions
  Empty = "empty"
  Default = "default"
  ShortWrites = FALSE
INVARIANT Recoverable
PROPERTY ImplementsStableStore


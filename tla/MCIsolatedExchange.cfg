SPECIFICATION Spec
CONSTANTS
  MaxFrames = 3
  MaxCancels = 1
INVARIANTS
  ExchangeOwned
  ConfirmedGone
PROPERTIES
  ExchangeEnds
  WorkerRemoved
CHECK_DEADLOCK FALSE

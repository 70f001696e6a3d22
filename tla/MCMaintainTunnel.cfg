SPECIFICATION FairSpec
CONSTANTS
  Configs <- AllPaths
  MaxBackoff = 5
  MaxConns = 2
  MaxQueue = 2
INVARIANTS
  TypeOK
  SocketBalance
  OneLiveConnection
  NoLostWakeup
  ErrChNeverBlocks
  DelayInBounds
PROPERTIES
  DelayShrinksOnlyOnSuccess
  ImplementsContract
  LossIsHandled
  LostPumpsRetire
  CancelStopsRetries
CHECK_DEADLOCK FALSE

CONSTANTS
  c1 = c1
  Conns <- MCConns
  Kinds <- MCKinds
  Configs <- MCConfigs
  DrainDelay = 1
  HeaderTimeout = 1
  Backoff = 1
  MaxErrors = 1
  Timeout = 1
  Deadline = 2
  MaxRetries = 2
  MaxDelay = 2
  LockTimeout = 1
  StoreTime = 1
SPECIFICATION Spec
INVARIANTS
  RejectionStands
  GraceSuffices
PROPERTIES
  ShutdownEnds
CHECK_DEADLOCK FALSE

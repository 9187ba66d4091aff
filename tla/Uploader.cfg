SPECIFICATION Spec
CONSTANTS
  SourceLength = 3
  PartSize = 2
  MaxConcurrency = 2
  MaxChunk = 1
  MaxRetries = 1
  InitialBody = 1
INVARIANTS
  TypeOK
  FinishedIsWhole
  RetryBudget
  FinishedPartsCleaned
PROPERTIES
  EveryUploadEnds
CHECK_DEADLOCK FALSE

SPECIFICATION Spec
CONSTANTS
  Files = {f}
  Size = 2
  WorkerCount = 2
  MaxRetries = 1
  MaxItems = 2
  MaxOps = 2
  PromptWorkers = TRUE
INVARIANTS
  TypeOK
  StatusIsTrue
  EngineServesSlot
  StoredIsResumable

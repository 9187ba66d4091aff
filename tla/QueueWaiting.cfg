SPECIFICATION Spec
CONSTANTS
  Files = {f}
  Size = 1
  WorkerCount = 1
  MaxRetries = 1
  MaxItems = 3
  MaxOps = 2
  PromptWorkers = TRUE
PROPERTIES
  EveryItemSettles

SPECIFICATION Spec
CONSTANTS
  Lengths = {0, 2, 3}
  BodySizes = {0, 1, 2}
  Deferrable = FALSE
  TornWrites = TRUE
  FinalizeRetries = 2
  MaxParts = 4
INVARIANTS
  TypeOK
  StoredPrefix
  Resumable
  CompleteIsReadable
PROPERTIES
  ServedIsWhole
CHECK_DEADLOCK FALSE

SPECIFICATION Spec
CONSTANTS
  Lengths = {2}
  BodySizes = {0, 1, 2}
  Deferrable = TRUE
  TornWrites = TRUE
  FinalizeRetries = 2
  MaxParts = 4
INVARIANTS
  StoredPrefix
CHECK_DEADLOCK FALSE

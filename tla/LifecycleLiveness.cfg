SPECIFICATION FairSpec
CONSTANTS
  Requests = {r1, r2, r3}
  Sweepers = {s1}
  NoOne = NoOne
  Lengths = {1}
  BodySizes = {1}
  MaxSize = 1
  MaxChunk = 1
  Expiration = TRUE
  MaxFaults = 1
  MaxCrashes = 0
PROPERTIES
  EveryRequestEnds
  AbandonedIsReclaimed
CHECK_DEADLOCK FALSE

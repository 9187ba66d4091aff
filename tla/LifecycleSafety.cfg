SPECIFICATION Spec
CONSTANTS
  Requests = {r1, r2, r3}
  Sweepers = {s1}
  NoOne = NoOne
  Lengths = {0, 1, 3}
  BodySizes = {0, 1, 3}
  MaxSize = 3
  MaxChunk = 2
  Expiration = TRUE
  MaxFaults = 2
  MaxCrashes = 1
SYMMETRY Symmetry
INVARIANTS
  StoredPrefix
  AckedBytesStored
  WithinLimits
  ReplyMatchesStore
  SweepSparesComplete
  PostFinishOnce
  FailedCreationLeavesNothing
PROPERTIES
  BornOnceGoneLast
  ImplementsResource
CHECK_DEADLOCK FALSE

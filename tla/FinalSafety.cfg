SPECIFICATION Spec
CONSTANTS
  Requests = {r1, r2, r3, r4}
  NoOne = NoOne
  Order <- PartList
  MaxSize = 9
  AllowUnfinished = TRUE
  DeferredParts = TRUE
SYMMETRY Symmetry
INVARIANTS
  TypeOK
  FinalIsWhole
  PlanHolds
  FinishHooksInOrder
  SweepSparesMaterialized
PROPERTIES
  CompleteStays
CHECK_DEADLOCK FALSE

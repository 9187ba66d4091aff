CONSTANTS
  MaxBody = 3
  Algorithms <- MCAlgorithms
  Supported <- MCSupported
  Limits <- MCLimits
  Caps <- MCCaps
SPECIFICATION Spec
INVARIANTS
  AllOrNothing
CHECK_DEADLOCK FALSE

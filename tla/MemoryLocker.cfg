SPECIFICATION FairSpec
CONSTANTS
  Tasks = {t1, t2, t3, t4}
  Semaphores = {m1, m2}
  Cancellation = TRUE
  None = None
PROPERTIES
  ImplementsLock
  LastOutReaps
  WaitersAreServed

\* Three processes contending for the mutex, one call each; the IP may hang.
SPECIFICATION FairSpec
CONSTANTS
  p1 = p1
  p2 = p2
  p3 = p3
  None = None
  Procs <- Three
  Commands <- Locked
  MaxCalls = 1
  MaxOps = 2
PROPERTY MutexReleased
CHECK_DEADLOCK FALSE

\* Three threads, two calls each, from a device not yet open.
SPECIFICATION FairSpec
CONSTANTS
  t1 = t1
  t2 = t2
  t3 = t3
  Nobody = Nobody
  Threads <- ThreeThreads
  MaxCalls = 2
INVARIANTS IoctlOnOpenDevice DescriptorsBounded
PROPERTY MutexComesBack
CHECK_DEADLOCK FALSE

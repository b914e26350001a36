\* Two processes, two calls each, every command.
SPECIFICATION Spec
CONSTANTS
  p1 = p1
  p2 = p2
  p3 = p3
  None = None
  Procs <- Two
  Commands <- Everything
  MaxCalls = 2
  MaxOps = 2
INVARIANTS OwnResult DmaIsOwn MutexDiscipline
PROPERTY RunsEndUnderTheMutex
CHECK_DEADLOCK FALSE

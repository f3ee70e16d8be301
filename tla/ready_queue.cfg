SPECIFICATION Spec
CONSTANTS
  Tasks = {idle, a, b, c, d}
  Idle = idle
  NULL = NULL
INVARIANTS
  ListExact
  ExitFindsSuccessor
PROPERTY
  QueueSafety
CHECK_DEADLOCK FALSE

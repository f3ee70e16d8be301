SPECIFICATION Spec
CONSTANTS
  Tasks = {idle, a, b, c}
  Idle = idle
  NULL = NULL
INVARIANT
  ListAlwaysExact
CHECK_DEADLOCK FALSE

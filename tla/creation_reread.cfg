SPECIFICATION Spec
CONSTANTS
  MaxTasks = 2
  NumPages = 5
  Orders = {0, 1}
  MaxRoots = 2
  Reread = TRUE
  NULL = NULL
INVARIANT ListAlwaysSound
CHECK_DEADLOCK FALSE

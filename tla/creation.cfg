SPECIFICATION Spec
CONSTANTS
  MaxTasks = 2
  NumPages = 5
  Orders = {0, 1}
  MaxRoots = 2
  Reread = TRUE
  NULL = NULL
INVARIANTS TypeOK OneHolder ListSound ReturnsOnce Accounted
PROPERTY OwnerSafety
CHECK_DEADLOCK FALSE

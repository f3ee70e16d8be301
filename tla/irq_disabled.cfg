SPECIFICATION FairSpec
CONSTANTS
  Tasks = {idle, a, b, u}
  Idle = idle
  UserTasks = {u}
  BootLevels = {1}
  RegisterEnables = FALSE
  TaskMasks = {TRUE}
  TimelyReturns = {TRUE}
  MaxNest = 2
PROPERTY
  TimerKeepsFiring
CHECK_DEADLOCK FALSE

SPECIFICATION FairSpec
CONSTANTS
  Tasks = {idle, a, b, c, u}
  Idle = idle
  UserTasks = {b, u}
  BootLevels = {1, 2}
  RegisterEnables = TRUE
  TaskMasks = {TRUE, FALSE}
  TimelyReturns = {TRUE, FALSE}
  MaxNest = 2
INVARIANTS
  TypeOK
  HandlerNotReentered
  InitialisedFirst
  EretReturnsToOwn
  HandlerPrivileged
  OnlyIdleInterrupted
  FramesOnOwnStack
PROPERTIES
  OneTickPerExpiry
  TimerKeepsFiring
CHECK_DEADLOCK FALSE

SPECIFICATION PreemptiveSpec
CONSTANTS
  MaxTasks = 3
  TimeSlice = 1
  Frames = {f1, f2, f3}
  Tables = 0
  ImagePages = {1}
  MaxSleep = 1
  TaskIrqsMasked = TRUE
  NULL = NULL
PROPERTY
  SleepEnds
CHECK_DEADLOCK FALSE

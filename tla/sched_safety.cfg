SPECIFICATION Spec
CONSTANTS
  MaxTasks = 3
  TimeSlice = 2
  Frames = {f1, f2, f3, f4, f5}
  Tables = 6
  ImagePages = {1, 2}
  MaxSleep = 1
  TaskIrqsMasked = FALSE
  NULL = NULL
SYMMETRY FrameSymmetry
INVARIANTS
  TypeOK
  OneRunning
  ExitFindsSuccessor
  FramesAccounted
  FramesExclusive
  AddressSpaceIsOwn
PROPERTIES
  KeepsItsSlice
  LifeSafety
CHECK_DEADLOCK FALSE

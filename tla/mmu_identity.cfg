SPECIFICATION Spec
CONSTANTS
  NumTables = 7
  Index = {0, 1}
  KernelPages <- KernelPair
  UserPages <- Far
  Frames = {f1, f2}
  FirstLevel = 1
INVARIANT
  KernelStaysMapped

CONSTANTS
  LastFrame = 9
  WordSize = 8
  p1 = p1
  p2 = p2
  Programs = {p1, p2}
  Kernel = Kernel
  Loaders = {"task_d"}
  HeapPages = 1
  Header = 2
  Chunk = 12
  KernelLimit = 24
  BreakLimit = 26
  Requests = {1, 3}
  RingSize = 3
  Commands = 3
  Span = 4
  Width = 3
  Motion = 1
  LineSize = 2
  KernelThreads = {"shell", "task_d"}
  MaxDepth = 2
SPECIFICATION Spec
CONSTRAINT StateConstraint
SYMMETRY Symmetry
INVARIANTS
  KernelTypeOK
  FramesSound
  HeapSound
  InputTrue
  RecoveryTrue
CHECK_DEADLOCK FALSE

SPECIFICATION Spec
CONSTANTS
  Kernels = {0, 1}
  HeapSize = 4
  N = 2
  MinKey = 0
  MAX_K = 3
  Inputs = {0, 1, 2, 3}
  OutputBound = 8
PROPERTY ImplementsSortedStream
CHECK_DEADLOCK FALSE

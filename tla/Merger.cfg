SPECIFICATION FairSpec
CONSTANTS
  Kernels = {0, 1}
  HeapSize = 4
  N = 3
  MinKey = 0
  MAX_K = 3
  Inputs = {0, 1, 2}
  OutputBound = 8
INVARIANT TypeOK
INVARIANT ListsWellFormed
PROPERTY ImplementsSortedStream
PROPERTY UsesFreeList
PROPERTY Terminates
CHECK_DEADLOCK FALSE

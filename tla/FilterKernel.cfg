SPECIFICATION FairSpec
CONSTANTS
  Kernels = {1, 2}
  Nodes <- MCNodes
  Left <- MCLeft
  Right <- MCRight
  Root <- MCRoot
  Centres = {0, 1}
  HeapSize = 6
  Builds <- OneIteration
INVARIANT TypeOK
INVARIANT EachPointOnce
INVARIANT PendingListsIntact
INVARIANT AllListsDeleted
INVARIANT MemoryBounded
PROPERTY UsesFreeList
PROPERTY Terminates
CHECK_DEADLOCK FALSE

SPECIFICATION Spec
CONSTANTS
  Kernels = {1}
  Nodes <- OneNodes
  Left <- OneLeft
  Right <- OneRight
  Root <- OneRoot
  Centres = {0, 1}
  HeapSize = 8
  Builds <- Repeated
INVARIANT EachPointOnce
INVARIANT LeakBounded
PROPERTY UsesFreeList
CHECK_DEADLOCK FALSE

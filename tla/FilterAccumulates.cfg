SPECIFICATION Spec
CONSTANTS
  Kernels = {1}
  Nodes <- OneNodes
  Left <- OneLeft
  Right <- OneRight
  Root <- OneRoot
  Centres = {0, 1}
  HeapSize = 8
  Builds <- RepeatedOffChip
INVARIANT EachPointOnce
CHECK_DEADLOCK FALSE

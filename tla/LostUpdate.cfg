SPECIFICATION Spec
CONSTANTS
  Kernels = {k1, k2}
  NoKernel = none
  Words = 2
  Regions = 2
  WriteFirst = FALSE
  LongGap = TRUE
INVARIANT NoLostUpdate
CHECK_DEADLOCK FALSE

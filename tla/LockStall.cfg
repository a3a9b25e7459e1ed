SPECIFICATION FairSpec
CONSTANTS
  Kernels = {k1, k2}
  NoKernel = none
  Words = 2
  Regions = 2
  WriteFirst = TRUE
  LongGap = FALSE
PROPERTY AllRegionsEnd
CHECK_DEADLOCK FALSE

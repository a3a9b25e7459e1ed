SPECIFICATION FairSpec
CONSTANTS
  Kernels = {k1, k2, k3}
  NoKernel = none
  Words = 2
  Regions = 2
  WriteFirst = TRUE
  LongGap = TRUE
INVARIANT TypeOK
INVARIANT NoLostUpdate
INVARIANT OnlyHolderAccesses
INVARIANT RegionHasLock
INVARIANT ReleasedMeansWritten
PROPERTY AllRegionsEnd
CHECK_DEADLOCK FALSE

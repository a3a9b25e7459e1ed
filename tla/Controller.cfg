SPECIFICATION FairSpec
CONSTANTS
  K = 4
  N = 5
  P = 2
  CentreFifo = 4
  TreeFifo = 3
  OutFifo = 4
INVARIANT TypeOK
INVARIANT OneAnswerPerCall
INVARIANT InputsReachCore
INVARIANT AnswerMeansOutput
PROPERTY EverythingPrinted
CHECK_DEADLOCK FALSE

SPECIFICATION ClusteringSpec
CONSTANTS
  COORD = 8
  MUL = 16
  EXT = 512
  SCALE = 4
  N = 4
  P = 2
  DataPoints <- MCDataPoints
  Nodes <- Addresses
  K = 4
  LastIndices = {2}
  CentrePositions <- MCCentrePositions
INVARIANT EachPointInOneLeaf
INVARIANT NodesDescribePoints
INVARIANT ClosestSurvives
INVARIANT NearestWithinSlack
INVARIANT LoadedTreeNested
CHECK_DEADLOCK FALSE

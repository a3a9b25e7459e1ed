SPECIFICATION FairSpec
CONSTANTS
  Addresses = {a1, a2}
  Data = {d1, d2}
  Depth = 2
  FifoSize = 2
  ScratchpadQueue = 2
INVARIANT TypeOK
INVARIANT OneRequest
PROPERTY ImplementsArray
PROPERTY RequestsEnd

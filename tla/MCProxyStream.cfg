CONSTANTS
  Descs <- MCDescs
  MaxRequests = 3
  MaxReplies = 2
SPECIFICATION FairSpec
INVARIANTS CallInv OkMeansComplete
PROPERTIES CallEnds NoGoroutineLeak
CHECK_DEADLOCK FALSE

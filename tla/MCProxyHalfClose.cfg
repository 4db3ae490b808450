CONSTANTS
  Descs <- MCClientStreaming
  MaxRequests = 2
  MaxReplies = 2
SPECIFICATION FairSpec
PROPERTY HalfCloseIsAnswered
CHECK_DEADLOCK FALSE

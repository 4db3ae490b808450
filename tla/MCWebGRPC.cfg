CONSTANTS
  WebRequests <- MCWebRequests
  NoTimeout = NoTimeout
  MDs <- MCMDs
  Statuses <- MCStatuses
  Sizes = {0, 1, 2}
  FrameSizes = {9, 10, 11}
  MaxSends = 2
SPECIFICATION Spec
INVARIANTS AnswerArrives MetadataInPlace AnswerIsWeb
CHECK_DEADLOCK FALSE

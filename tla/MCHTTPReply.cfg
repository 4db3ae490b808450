CONSTANTS
  Requests <- MCAllRequests
  EOFWithData = {FALSE, TRUE}
  Limit = 3
  RepliesFor <- MCRepliesFor
  Codes <- MCCodes
  MDs <- MCMDs
  BodyTypes <- MCBodyTypes
  SendLimit = 2
SPECIFICATION ReplySpec
INVARIANTS ReplyTypeOK MessagesInOrder RefusedForAReason BodyInOrder AnswerIsAsNegotiated
  ErrorSeenUnlessBegun AnswerIsAsSaid
PROPERTY RequestAnswered
CHECK_DEADLOCK FALSE
